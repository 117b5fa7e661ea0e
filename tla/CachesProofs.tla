------------------------------ MODULE CachesProofs ------------------------------
(***************************************************************************)
(* Proofs about LazyRef for every number of callers, timers and values:    *)
(* for a reference by itself, for the program that runs it or a cache      *)
(* (MCCaches), and for whoever builds on it and does what it does          *)
(* (EventClientRef, in SharedStateProofs). Then about LazyCache for every  *)
(* number of callers and futures, and about the program that runs either.  *)
(***************************************************************************)
EXTENDS MCCaches, TLAPS

(***************************************************************************)
(* The inductive invariant. OneTimer needs nothing else; that no value is  *)
(* finalized twice needs to know who may still finalize the current one.   *)
(***************************************************************************)

\* Nobody is in Close before the reference is closed, nor two callers ever, and
\* the one that finalizes has seen the timer end.
InClose(k) == closer[k] \in {"notify", "wait", "finalize"}
CloseIsAlone ==
  /\ \A k \in Closers : InClose(k) => closed
  /\ \A k, l \in Closers : InClose(k) /\ InClose(l) => k = l
  /\ \A k \in Closers : closer[k] = "finalize" => ~running

\* An expiration is about a value that is set; between its two steps, one
\* that is finalized.
ExpiringIsSet ==
  \A t \in Timers :
    /\ timer[t] \in {"expire", "reset"} /\ expiryType # "Refreshing" => ref # NoValue
    /\ timer[t] = "reset" => expiryType # "Refreshing" /\ finals[ref] # 0

\* Only what was made is set or finalized.
SetIsMade == /\ ref # NoValue => ref \in made
             /\ \A v \in Values \ made : finals[v] = 0

\* Unless an expiration is under way, a finalized value stays set only after
\* Close, when neither a timer nor a Close is left to finalize it again.
FinalizedIsLast ==
  ref # NoValue /\ ~locked /\ finals[ref] # 0 =>
    closed /\ ~running /\ \A k \in Closers : ~InClose(k)

RefInv ==
  /\ TypeOK
  /\ OneTimer
  /\ CloseIsAlone
  /\ ExpiringIsSet
  /\ SetIsMade
  /\ FinalizedIsLast
  /\ FinalizedOnce
  /\ OneLiveValue

-----------------------------------------------------------------------------
\* Every step keeps the types and the lock's owner.
LEMMA TypeStep ==
  ASSUME TypeOK, OneTimer, ExpiringIsSet, [Next]_vars
  PROVE  TypeOK'
<1> USE RefAssumption DEF GetGoes, CloseGoes, TimerGoes, getting, closing, timing,
        history, Fresh
<1> USE DEF TypeOK, OneTimer, InLoop, ExpiringIsSet
<1>1. ASSUME NEW g \in Getters, GetCheck(g)
      PROVE  TypeOK'
  BY <1>1 DEF GetCheck
<1>2. ASSUME NEW g \in Getters, GetFast(g)
      PROVE  TypeOK'
  BY <1>2 DEF GetFast
<1>3. ASSUME NEW g \in Getters, NEW v \in Fresh, GetLocked(g, v)
      PROVE  TypeOK'
  BY <1>3 DEF GetLocked, EnsureTimerStarted
<1>4. ASSUME NEW g \in Getters, GetDone(g)
      PROVE  TypeOK'
  BY <1>4 DEF GetDone
<1>5. ASSUME NEW k \in Closers, SetClosed(k)
      PROVE  TypeOK'
  BY <1>5 DEF SetClosed
<1>6. ASSUME NEW k \in Closers, NotifyClosing(k)
      PROVE  TypeOK'
  BY <1>6 DEF NotifyClosing
<1>7. ASSUME NEW k \in Closers, Wait(k)
      PROVE  TypeOK'
  BY <1>7 DEF Wait
<1>8. ASSUME NEW k \in Closers, CloseFinalizes(k)
      PROVE  TypeOK'
  BY <1>8 DEF CloseFinalizes, Finalize
<1>9. ASSUME NEW t \in Timers, TimerStart(t)
      PROVE  TypeOK'
  BY <1>9 DEF TimerStart
<1>10. ASSUME NEW t \in Timers, TimerClosed(t)
      PROVE  TypeOK'
  BY <1>10 DEF TimerClosed
<1>11. ASSUME NEW t \in Timers, TimerFires(t)
      PROVE  TypeOK'
  BY <1>11 DEF TimerFires
<1>12. ASSUME NEW t \in Timers, NEW v \in Fresh, Refresh(t, v)
      PROVE  TypeOK'
  BY <1>12 DEF Refresh
<1>13. ASSUME NEW t \in Timers, ExpireFinalizes(t)
      PROVE  TypeOK'
  BY <1>13 DEF ExpireFinalizes, Finalize
<1>14. ASSUME NEW t \in Timers, Reset(t)
      PROVE  TypeOK'
  BY <1>14 DEF Reset
<1>15. ASSUME NEW t \in Timers, TimerStops(t)
      PROVE  TypeOK'
  BY <1>15 DEF TimerStops
<1>16. CASE UNCHANGED vars
  BY <1>16 DEF vars
<1> QED
  BY <1>1, <1>2, <1>3, <1>4, <1>5, <1>6, <1>7, <1>8, <1>9, <1>10,
     <1>11, <1>12, <1>13, <1>14, <1>15, <1>16
  DEF Next, Get, Close, Timer

\* One timer: it starts only while none runs, under the lock.
LEMMA OneTimerStep ==
  ASSUME TypeOK, OneTimer, [Next]_vars
  PROVE  OneTimer'
<1> USE RefAssumption DEF GetGoes, CloseGoes, TimerGoes, getting, closing, timing,
        history, Fresh
<1> USE DEF TypeOK, OneTimer, InLoop
<1>1. ASSUME NEW g \in Getters, GetCheck(g)
      PROVE  OneTimer'
  BY <1>1 DEF GetCheck
<1>2. ASSUME NEW g \in Getters, GetFast(g)
      PROVE  OneTimer'
  BY <1>2 DEF GetFast
<1>3. ASSUME NEW g \in Getters, NEW v \in Fresh, GetLocked(g, v)
      PROVE  OneTimer'
  BY <1>3 DEF GetLocked, EnsureTimerStarted
<1>4. ASSUME NEW g \in Getters, GetDone(g)
      PROVE  OneTimer'
  BY <1>4 DEF GetDone
<1>5. ASSUME NEW k \in Closers, SetClosed(k)
      PROVE  OneTimer'
  BY <1>5 DEF SetClosed
<1>6. ASSUME NEW k \in Closers, NotifyClosing(k)
      PROVE  OneTimer'
  BY <1>6 DEF NotifyClosing
<1>7. ASSUME NEW k \in Closers, Wait(k)
      PROVE  OneTimer'
  BY <1>7 DEF Wait
<1>8. ASSUME NEW k \in Closers, CloseFinalizes(k)
      PROVE  OneTimer'
  BY <1>8 DEF CloseFinalizes, Finalize
<1>9. ASSUME NEW t \in Timers, TimerStart(t)
      PROVE  OneTimer'
  <2>1. CASE running \/ closed
    <3>1. timer' = [timer EXCEPT ![t] = "none"] /\ timer[t] = "start"
      BY <1>9, <2>1 DEF TimerStart
    <3>2. \A u \in Timers : InLoop(u)' <=> InLoop(u)
      BY <3>1
    <3>3. running' <=> running
      BY <1>9, <2>1 DEF TimerStart
    <3> QED
      BY <3>2, <3>3
  <2>2. CASE ~running /\ ~closed
    <3>1. timer' = [timer EXCEPT ![t] = "loop"]
      BY <1>9, <2>2 DEF TimerStart
    <3>2. running'
      BY <1>9, <2>2 DEF TimerStart
    <3>3. \A u \in Timers : InLoop(u)' <=> u = t
      BY <3>1, <2>2
    <3> QED
      BY <3>2, <3>3
  <2> QED
    BY <2>1, <2>2
<1>10. ASSUME NEW t \in Timers, TimerClosed(t)
      PROVE  OneTimer'
  BY <1>10 DEF TimerClosed
<1>11. ASSUME NEW t \in Timers, TimerFires(t)
      PROVE  OneTimer'
  BY <1>11 DEF TimerFires
<1>12. ASSUME NEW t \in Timers, NEW v \in Fresh, Refresh(t, v)
      PROVE  OneTimer'
  BY <1>12 DEF Refresh
<1>13. ASSUME NEW t \in Timers, ExpireFinalizes(t)
      PROVE  OneTimer'
  BY <1>13 DEF ExpireFinalizes, Finalize
<1>14. ASSUME NEW t \in Timers, Reset(t)
      PROVE  OneTimer'
  BY <1>14 DEF Reset
<1>15. ASSUME NEW t \in Timers, TimerStops(t)
      PROVE  OneTimer'
  BY <1>15 DEF TimerStops
<1>16. CASE UNCHANGED vars
  BY <1>16 DEF vars
<1> QED
  BY <1>1, <1>2, <1>3, <1>4, <1>5, <1>6, <1>7, <1>8, <1>9, <1>10,
     <1>11, <1>12, <1>13, <1>14, <1>15, <1>16
  DEF Next, Get, Close, Timer

\* Close: one caller finds the reference open; no timer starts behind it.
LEMMA CloseIsAloneStep ==
  ASSUME TypeOK, OneTimer, CloseIsAlone, [Next]_vars
  PROVE  CloseIsAlone'
<1> USE RefAssumption DEF GetGoes, CloseGoes, TimerGoes, getting, closing, timing,
        history, Fresh
<1> USE DEF TypeOK, OneTimer, InLoop, CloseIsAlone, InClose
<1>1. ASSUME NEW g \in Getters, GetCheck(g)
      PROVE  CloseIsAlone'
  BY <1>1 DEF GetCheck
<1>2. ASSUME NEW g \in Getters, GetFast(g)
      PROVE  CloseIsAlone'
  BY <1>2 DEF GetFast
<1>3. ASSUME NEW g \in Getters, NEW v \in Fresh, GetLocked(g, v)
      PROVE  CloseIsAlone'
  BY <1>3 DEF GetLocked, EnsureTimerStarted
<1>4. ASSUME NEW g \in Getters, GetDone(g)
      PROVE  CloseIsAlone'
  BY <1>4 DEF GetDone
<1>5. ASSUME NEW k \in Closers, SetClosed(k)
      PROVE  CloseIsAlone'
  BY <1>5 DEF SetClosed
<1>6. ASSUME NEW k \in Closers, NotifyClosing(k)
      PROVE  CloseIsAlone'
  BY <1>6 DEF NotifyClosing
<1>7. ASSUME NEW k \in Closers, Wait(k)
      PROVE  CloseIsAlone'
  BY <1>7 DEF Wait
<1>8. ASSUME NEW k \in Closers, CloseFinalizes(k)
      PROVE  CloseIsAlone'
  BY <1>8 DEF CloseFinalizes, Finalize
<1>9. ASSUME NEW t \in Timers, TimerStart(t)
      PROVE  CloseIsAlone'
  BY <1>9 DEF TimerStart
<1>10. ASSUME NEW t \in Timers, TimerClosed(t)
      PROVE  CloseIsAlone'
  BY <1>10 DEF TimerClosed
<1>11. ASSUME NEW t \in Timers, TimerFires(t)
      PROVE  CloseIsAlone'
  BY <1>11 DEF TimerFires
<1>12. ASSUME NEW t \in Timers, NEW v \in Fresh, Refresh(t, v)
      PROVE  CloseIsAlone'
  BY <1>12 DEF Refresh
<1>13. ASSUME NEW t \in Timers, ExpireFinalizes(t)
      PROVE  CloseIsAlone'
  BY <1>13 DEF ExpireFinalizes, Finalize
<1>14. ASSUME NEW t \in Timers, Reset(t)
      PROVE  CloseIsAlone'
  BY <1>14 DEF Reset
<1>15. ASSUME NEW t \in Timers, TimerStops(t)
      PROVE  CloseIsAlone'
  BY <1>15 DEF TimerStops
<1>16. CASE UNCHANGED vars
  BY <1>16 DEF vars
<1> QED
  BY <1>1, <1>2, <1>3, <1>4, <1>5, <1>6, <1>7, <1>8, <1>9, <1>10,
     <1>11, <1>12, <1>13, <1>14, <1>15, <1>16
  DEF Next, Get, Close, Timer

\* Expirations, and what is set, made and finalized.
LEMMA ValueStep ==
  ASSUME RefInv, [Next]_vars
  PROVE  ExpiringIsSet' /\ SetIsMade' /\ FinalizedIsLast'
         /\ FinalizedOnce' /\ OneLiveValue'
<1> USE RefAssumption DEF GetGoes, CloseGoes, TimerGoes, getting, closing, timing,
        history, Fresh
<1> USE DEF RefInv, TypeOK, OneTimer, InLoop, CloseIsAlone, InClose, ExpiringIsSet, SetIsMade,
          FinalizedIsLast, FinalizedOnce, OneLiveValue
<1> DEFINE Goal == /\ ExpiringIsSet /\ SetIsMade /\ FinalizedIsLast
                    /\ FinalizedOnce /\ OneLiveValue
<1>1. ASSUME NEW g \in Getters, GetCheck(g)
      PROVE  Goal'
  BY <1>1 DEF GetCheck
<1>2. ASSUME NEW g \in Getters, GetFast(g)
      PROVE  Goal'
  BY <1>2 DEF GetFast
<1>3. ASSUME NEW g \in Getters, NEW v \in Fresh, GetLocked(g, v)
      PROVE  Goal'
  BY <1>3 DEF GetLocked, EnsureTimerStarted
<1>4. ASSUME NEW g \in Getters, GetDone(g)
      PROVE  Goal'
  BY <1>4 DEF GetDone
<1>5. ASSUME NEW k \in Closers, SetClosed(k)
      PROVE  Goal'
  BY <1>5 DEF SetClosed
<1>6. ASSUME NEW k \in Closers, NotifyClosing(k)
      PROVE  Goal'
  BY <1>6 DEF NotifyClosing
<1>7. ASSUME NEW k \in Closers, Wait(k)
      PROVE  Goal'
  BY <1>7 DEF Wait
<1>8. ASSUME NEW k \in Closers, CloseFinalizes(k)
      PROVE  Goal'
  BY <1>8 DEF CloseFinalizes, Finalize
<1>9. ASSUME NEW t \in Timers, TimerStart(t)
      PROVE  Goal'
  BY <1>9 DEF TimerStart
<1>10. ASSUME NEW t \in Timers, TimerClosed(t)
      PROVE  Goal'
  BY <1>10 DEF TimerClosed
<1>11. ASSUME NEW t \in Timers, TimerFires(t)
      PROVE  Goal'
  BY <1>11 DEF TimerFires
<1>12. ASSUME NEW t \in Timers, NEW v \in Fresh, Refresh(t, v)
      PROVE  Goal'
  BY <1>12 DEF Refresh
<1>13. ASSUME NEW t \in Timers, ExpireFinalizes(t)
      PROVE  Goal'
  BY <1>13 DEF ExpireFinalizes, Finalize
<1>14. ASSUME NEW t \in Timers, Reset(t)
      PROVE  Goal'
  BY <1>14 DEF Reset
<1>15. ASSUME NEW t \in Timers, TimerStops(t)
      PROVE  Goal'
  BY <1>15 DEF TimerStops
<1>16. CASE UNCHANGED vars
  BY <1>16 DEF vars
<1> QED
  BY <1>1, <1>2, <1>3, <1>4, <1>5, <1>6, <1>7, <1>8, <1>9, <1>10,
     <1>11, <1>12, <1>13, <1>14, <1>15, <1>16
  DEF Next, Get, Close, Timer

\* The reference starts so.
LEMMA InitRefInv == Init => RefInv
<1> SUFFICES ASSUME Init PROVE RefInv
  OBVIOUS
<1> USE RefAssumption DEF Init
<1>1. \A t \in Timers : timer[t] \in {"start", "none"}
  OBVIOUS
<1>2. timer \in [Timers -> {"none", "start"}]
  OBVIOUS
<1>3. TypeOK
  BY <1>1, <1>2 DEF TypeOK
<1>4. OneTimer
  BY <1>1 DEF OneTimer, InLoop
<1>5. CloseIsAlone
  BY DEF CloseIsAlone, InClose
<1>6. ExpiringIsSet
  BY <1>1 DEF ExpiringIsSet
<1>7. SetIsMade /\ FinalizedIsLast
  BY DEF SetIsMade, FinalizedIsLast
<1>8. FinalizedOnce /\ OneLiveValue
  BY DEF FinalizedOnce, OneLiveValue
<1> QED
  BY <1>3, <1>4, <1>5, <1>6, <1>7, <1>8 DEF RefInv

\* Every step of the reference keeps the invariant.
LEMMA NextRefInv == RefInv /\ [Next]_vars => RefInv'
<1> SUFFICES ASSUME RefInv, [Next]_vars PROVE RefInv'
  OBVIOUS
<1>1. TypeOK' /\ OneTimer' /\ CloseIsAlone'
  BY TypeStep, OneTimerStep, CloseIsAloneStep DEF RefInv
<1>2. QED
  BY <1>1, ValueStep DEF RefInv

\* So it holds throughout.
LEMMA RefInvariance == Spec => []RefInv
<1>1. Init => RefInv
  BY InitRefInv
<1>2. RefInv /\ [Next]_vars => RefInv'
  BY NextRefInv
<1> QED
  BY <1>1, <1>2, PTL DEF Spec

-----------------------------------------------------------------------------
\* The state keeps its shape, and the lock is held exactly while a timer is between
\* the two steps of an expiration (resetValue).
THEOREM TypeCorrect == Spec => []TypeOK
<1>1. RefInv => TypeOK
  BY DEF RefInv
<1> QED
  BY <1>1, RefInvariance, PTL

\* Never do two timers run, and the wait group that Close waits for counts the
\* one that does (setTimerRunning, setTimerStopped).
THEOREM OnlyOneTimer == Spec => []OneTimer
<1>1. RefInv => OneTimer
  BY DEF RefInv
<1> QED
  BY <1>1, RefInvariance, PTL

\* No value is finalized twice, be it by expirations or by Close (resetValue,
\* finalize).
THEOREM NoDoubleFinalize == Spec => []FinalizedOnce
<1>1. RefInv => FinalizedOnce
  BY DEF RefInv
<1> QED
  BY <1>1, RefInvariance, PTL

\* All values that were made but the current one have been finalized (Get,
\* resetValue): the reference loses none.
THEOREM OnlyOneLiveValue == Spec => []OneLiveValue
<1>1. RefInv => OneLiveValue
  BY DEF RefInv
<1> QED
  BY <1>1, RefInvariance, PTL

\* The lazy reference is sound: one timer, one value that lives, one finalizer of each.
THEOREM ReferenceSound == Spec => []RefSound
<1>1. RefInv => RefSound
  BY DEF RefInv, RefSound
<1> QED
  BY <1>1, RefInvariance, PTL

(***************************************************************************)
(* The cache.                                                              *)
(***************************************************************************)

\* Who initializes a future stored it; and once a call of Close has dropped what it
\* found, the future in the map belongs to somebody who has seen that the cache is
\* closed, or will.
Initializing(g) == getters[g] \in {"begin", "initialize"}
ClosedIsSeen ==
  /\ \A d \in OneCloser : dropper[d] \in {"range", "drop", "done", "late"} => cclosed
  /\ (\E d \in OneCloser : dropper[d] = "done") =>
       \A g \in Getters : getters[g] = "initialize" => mine[g] # entry

CacheInv ==
  /\ Cache!TypeOK
  /\ \A g \in Getters : Initializing(g) => mine[g] \in Futures
  /\ Cache!OneInitializer
  /\ ClosedIsSeen
  /\ Cache!NothingCachedAfterClose

\* The cache starts so.
LEMMA InitCacheInv ==
  ASSUME Cache!Init
  PROVE  CacheInv
BY CachesAssumption
   DEF Cache!Init, CacheInv, Cache!TypeOK, Initializing, Cache!OneInitializer,
       ClosedIsSeen, Cache!NothingCachedAfterClose, Cache!CacheAssumption

\* Every step of the cache keeps the invariant.
LEMMA NextCacheInv ==
  ASSUME CacheInv, [Cache!Next]_(Cache!vars)
  PROVE  CacheInv'
<1> USE CachesAssumption
    DEF Cache!CacheAssumption, CacheInv, Cache!TypeOK, Initializing, Cache!Goes,
        Cache!Has, Cache!Drops, Cache!Ends
<1>1. ASSUME NEW g \in Getters, Cache!Load(g)
      PROVE  CacheInv'
  BY <1>1 DEF Cache!Load, Cache!OneInitializer, ClosedIsSeen,
         Cache!NothingCachedAfterClose
<1>2. ASSUME NEW g \in Getters, Cache!LoadOrStore(g)
      PROVE  CacheInv'
  <2>1. CASE entry # NoFuture
    BY <1>2, <2>1 DEF Cache!LoadOrStore, Cache!OneInitializer, ClosedIsSeen,
         Cache!NothingCachedAfterClose
  <2>2. ASSUME entry = NoFuture, NEW f \in Futures, future[f] = "new",
               entry' = f, mine' = [mine EXCEPT ![g] = f],
               future' = [future EXCEPT ![f] = "locked"]
        PROVE  CacheInv'
    <3>1. /\ getters[g] = "store" /\ getters' = [getters EXCEPT ![g] = "begin"]
          /\ UNCHANGED <<cclosed, dropper, loaded>>
      BY <1>2, <2>2 DEF Cache!LoadOrStore
    <3>2. \A h \in Getters : Initializing(h) => mine[h] # f
      BY <2>2 DEF Cache!OneInitializer
    <3>3. Cache!TypeOK' /\ \A h \in Getters : Initializing(h)' => mine'[h] \in Futures
      BY <2>2, <3>1
    <3>4. Cache!OneInitializer'
      BY <2>2, <3>1, <3>2 DEF Cache!OneInitializer
    <3>5. ClosedIsSeen'
      BY <2>2, <3>1, <3>2 DEF ClosedIsSeen
    <3>6. Cache!NothingCachedAfterClose'
      BY <2>2, <3>1 DEF Cache!NothingCachedAfterClose
    <3> QED
      BY <3>3, <3>4, <3>5, <3>6
  <2> QED
    BY <1>2, <2>1, <2>2 DEF Cache!LoadOrStore
<1>3. ASSUME NEW g \in Getters, Cache!Begin(g)
      PROVE  CacheInv'
  BY <1>3 DEF Cache!Begin, Cache!OneInitializer, ClosedIsSeen,
         Cache!NothingCachedAfterClose
<1>4. ASSUME NEW g \in Getters, Cache!Initialize(g)
      PROVE  CacheInv'
  BY <1>4 DEF Cache!Initialize, Cache!OneInitializer, ClosedIsSeen,
         Cache!NothingCachedAfterClose
<1>5. ASSUME NEW g \in Getters, Cache!Forget(g)
      PROVE  CacheInv'
  BY <1>5 DEF Cache!Forget, Cache!OneInitializer, ClosedIsSeen,
         Cache!NothingCachedAfterClose
<1>6. ASSUME NEW g \in Getters, Cache!Wait(g)
      PROVE  CacheInv'
  BY <1>6 DEF Cache!Wait, Cache!OneInitializer, ClosedIsSeen,
         Cache!NothingCachedAfterClose
<1>7. ASSUME NEW d \in Deleters \cup OneCloser, Cache!CallClose(d)
      PROVE  CacheInv'
  BY <1>7 DEF Cache!CallClose, Cache!OneInitializer, ClosedIsSeen,
         Cache!NothingCachedAfterClose
<1>8. ASSUME NEW d \in Deleters \cup OneCloser, Cache!Range(d)
      PROVE  CacheInv'
  BY <1>8 DEF Cache!Range, Cache!OneInitializer, ClosedIsSeen,
         Cache!NothingCachedAfterClose
<1>9. ASSUME NEW d \in Deleters \cup OneCloser, Cache!Drop(d)
      PROVE  CacheInv'
  BY <1>9 DEF Cache!Drop, Cache!OneInitializer, ClosedIsSeen,
         Cache!NothingCachedAfterClose
<1>10. CASE UNCHANGED Cache!vars
  BY <1>10 DEF Cache!vars, Cache!OneInitializer, ClosedIsSeen,
         Cache!NothingCachedAfterClose
<1> QED
  BY <1>1, <1>2, <1>3, <1>4, <1>5, <1>6, <1>7, <1>8, <1>9, <1>10
  DEF Cache!Next, Cache!Getter

\* So it holds throughout.
LEMMA CacheInvariance == Cache!Spec => []CacheInv
<1>1. Cache!Init => CacheInv
  BY InitCacheInv
<1>2. CacheInv /\ [Cache!Next]_(Cache!vars) => CacheInv'
  BY NextCacheInv
<1> QED
  BY <1>1, <1>2, PTL DEF Cache!Spec

-----------------------------------------------------------------------------

\* Whoever initializes a value of the cache is the one that stored its future, alone
\* (loadOrStore, futurevalue.Initialize).
THEOREM InitializesAlone == Cache!Spec => []Cache!OneInitializer
<1>1. CacheInv => Cache!OneInitializer
  BY DEF CacheInv
<1> QED
  BY <1>1, CacheInvariance, PTL

\* After Close no value is kept in the map, whoever was in Get or Delete meanwhile
\* (lazycache.go: Close, newValue).
THEOREM ClosedKeepsNothing == Cache!Spec => []Cache!NothingCachedAfterClose
<1>1. CacheInv => Cache!NothingCachedAfterClose
  BY DEF CacheInv
<1> QED
  BY <1>1, CacheInvariance, PTL

-----------------------------------------------------------------------------
(* Either of them.                                                         *)

\* A behaviour of the two programs is one of each: what the one does leaves the
\* variables of the other alone.
LEMMA EachIsRun == MCSpec => Spec /\ Cache!Spec
<1>1. MCInit => Init /\ Cache!Init
  BY DEF MCInit
<1>2. [MCNext]_all => [Next]_vars /\ [Cache!Next]_(Cache!vars)
  BY DEF MCNext, RefSteps, CacheSteps, all, cache, Cache!vars
<1> QED
  BY <1>1, <1>2, PTL DEF MCSpec, Spec, Cache!Spec

\* The state of the reference and of the cache keeps its shape, and the lock of the
\* reference is held exactly while a timer is between the two steps of an expiration
\* (lazyref.resetValue).
THEOREM TypesCorrect == MCSpec => []TypesOK
<1>1. RefInv /\ CacheInv => TypesOK
  BY DEF RefInv, CacheInv, TypesOK
<1> QED
  BY <1>1, RefInvariance, CacheInvariance, EachIsRun, PTL

\* The reference is sound: one timer, one live value, and none finalized twice.
THEOREM ReferenceIsSound == MCSpec => []RefSound
<1>1. RefInv => RefSound
  BY DEF RefInv, RefSound
<1> QED
  BY <1>1, RefInvariance, EachIsRun, PTL

\* The cache is sound: a future has one initializer, the goroutine that stored it,
\* and after Close no value is kept or comes back.
THEOREM CacheIsSound == MCSpec => []CacheSound
<1>1. CacheInv => CacheSound
  BY DEF CacheInv, CacheSound
<1> QED
  BY <1>1, CacheInvariance, EachIsRun, PTL

=============================================================================
