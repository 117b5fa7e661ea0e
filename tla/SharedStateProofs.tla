--------------------------- MODULE SharedStateProofs ---------------------------
(***************************************************************************)
(* Proofs about the parts that share state, each for every number of its   *)
(* users, and about the run that has one of them take the steps            *)
(* (MCSharedState). Of each part: its inductive invariant, that it holds   *)
(* at first, that every step keeps it, and what follows from it.           *)
(***************************************************************************)
EXTENDS MCSharedState, FiniteSetTheorems, TLAPS

(***************************************************************************)
(* The reference that a channel's users share to its event client, as it   *)
(* is composed with the lazy reference (EventClientRef).                   *)
(***************************************************************************)

\* What is proved of the lazy reference; there is no cache here, so nobody uses the one that
\* is proved about beside it.
LRP == INSTANCE CachesProofs WITH
  ExpiryTypes <- {"LastAccessed"}, TimerAtStart <- FALSE,
  Futures <- Clients, NoFuture <- NoClient, Deleters <- {}, OneCloser <- {},
  part <- "ref", entry <- NoClient, future <- NoClient, cclosed <- FALSE,
  getters <- NoClient, mine <- NoClient, dropper <- NoClient, loaded <- NoClient

(***************************************************************************)
(* The inductive invariant. The finalizer's verdict is about the client    *)
(* there is, and the lock is held until it is carried out; so nobody       *)
(* initializes meanwhile.                                                  *)
(***************************************************************************)

Shape ==
  /\ ref \in Values \cup {NoValue} /\ expiryType = "LastAccessed"
  /\ closer \in [Closers -> {"idle", "notify", "wait", "finalize", "done"}]
  /\ eventClient \in Clients \cup {NoClient}
  /\ clientOf \in [Values -> Clients \cup {NoClient}]
  /\ conn \in [Clients -> {"none", "open", "closed", "lost"}]
  /\ regs \in [Clients -> SUBSET Getters]

\* Who is in Close of the lazy reference has closed this one.
CloseIsTold ==
  /\ \A k \in Closers : closer[k] # "idle" => k \in won
  /\ won # {} => refClosed

VerdictHolds ==
  /\ verdict \in {"keep", "idle", "force"}
  /\ verdict # "keep" => locked /\ eventClient # NoClient
  /\ verdict = "force" => refClosed

\* What is set is the client there is; it was closed only if the reference was.
SetIsThere ==
  /\ ref # NoValue /\ ~locked => clientOf[ref] = eventClient /\ eventClient # NoClient
  /\ eventClient # NoClient /\ conn[eventClient] = "closed" => refClosed

IInv == /\ Shape /\ CloseIsTold /\ VerdictHolds /\ SetIsThere
        /\ OneClient /\ RegistrationsReachable

-----------------------------------------------------------------------------
LEMMA InitIInv ==
  ASSUME Init
  PROVE  IInv
<1> USE ClientsAssumption DEF Init, LR!Init
<1>1. Shape
  BY DEF Shape
<1>2. CloseIsTold /\ VerdictHolds /\ SetIsThere
  BY DEF CloseIsTold, VerdictHolds, SetIsThere
<1>3. OneClient /\ RegistrationsReachable
  BY DEF OneClient, RegistrationsReachable, Open
<1> QED
  BY <1>1, <1>2, <1>3 DEF IInv

\* Every step keeps the types.
LEMMA ShapeStep ==
  ASSUME Shape, [Next]_vars
  PROVE  Shape'
<1> USE ClientsAssumption DEF lazy, client, users, Shape, LR!GetGoes, LR!CloseGoes, LR!TimerGoes,
           LR!getting, LR!closing, LR!timing, LR!history, LR!EnsureTimerStarted, LR!Finalize,
           Shut
<1>1. ASSUME NEW g \in Getters, Call(g)
      PROVE  Shape'
  BY <1>1 DEF Call
<1>2. ASSUME NEW g \in Getters, GetCheck(g)
      PROVE  Shape'
  BY <1>2 DEF GetCheck, LR!GetCheck
<1>3. ASSUME NEW g \in Getters, GetFast(g)
      PROVE  Shape'
  BY <1>3 DEF GetFast, LR!GetFast
<1>4. ASSUME NEW g \in Getters, GetLocked(g)
      PROVE  Shape'
  BY <1>4 DEF GetLocked, LR!GetLocked, Initializer
<1>5. ASSUME NEW g \in Getters, Use(g)
      PROVE  Shape'
  BY <1>5 DEF Use, LR!GetDone
<1>6. ASSUME NEW t \in Timers, ExpireFinalizes(t)
      PROVE  Shape'
  BY <1>6 DEF ExpireFinalizes, LR!ExpireFinalizes, Finalizer
<1>7. ASSUME NEW t \in Timers, Reset(t)
      PROVE  Shape'
  BY <1>7 DEF Reset, LR!Reset
<1>8. ASSUME NEW t \in Timers, TimerElse(t)
      PROVE  Shape'
  BY <1>8 DEF TimerElse, LR!TimerStart, LR!TimerFires, LR!TimerClosed, LR!TimerStops
<1>9. ASSUME CloseClient
      PROVE  Shape'
  BY <1>9 DEF CloseClient
<1>10. ASSUME NEW k \in Closers, RefClose(k)
      PROVE  Shape'
  BY <1>10 DEF RefClose
<1>11. ASSUME NEW k \in Closers, CloseRef(k)
      PROVE  Shape'
  BY <1>11 DEF CloseRef, LR!SetClosed, LR!NotifyClosing, LR!Wait
<1>12. ASSUME NEW k \in Closers, CloseFinalizes(k)
      PROVE  Shape'
  BY <1>12 DEF CloseFinalizes, LR!CloseFinalizes
<1>13. ASSUME NEW c \in Clients, Terminates(c)
      PROVE  Shape'
  BY <1>13 DEF Terminates
<1>14. CASE UNCHANGED vars
  BY <1>14 DEF vars
<1> QED
  BY <1>1, <1>2, <1>3, <1>4, <1>5, <1>6, <1>7, <1>8, <1>9, <1>10, <1>11, <1>12,
     <1>13, <1>14
  DEF Next

\* Only the caller that closed the reference goes on to the lazy one.
LEMMA CloseStep ==
  ASSUME Shape, CloseIsTold, [Next]_vars
  PROVE  CloseIsTold'
<1> USE ClientsAssumption DEF lazy, client, users, Shape, LR!GetGoes, LR!CloseGoes, LR!TimerGoes,
           LR!getting, LR!closing, LR!timing, LR!history, LR!EnsureTimerStarted, LR!Finalize,
           Shut, CloseIsTold
<1>1. ASSUME NEW g \in Getters, Call(g)
      PROVE  CloseIsTold'
  BY <1>1 DEF Call
<1>2. ASSUME NEW g \in Getters, GetCheck(g)
      PROVE  CloseIsTold'
  BY <1>2 DEF GetCheck, LR!GetCheck
<1>3. ASSUME NEW g \in Getters, GetFast(g)
      PROVE  CloseIsTold'
  BY <1>3 DEF GetFast, LR!GetFast
<1>4. ASSUME NEW g \in Getters, GetLocked(g)
      PROVE  CloseIsTold'
  BY <1>4 DEF GetLocked, LR!GetLocked, Initializer
<1>5. ASSUME NEW g \in Getters, Use(g)
      PROVE  CloseIsTold'
  BY <1>5 DEF Use, LR!GetDone
<1>6. ASSUME NEW t \in Timers, ExpireFinalizes(t)
      PROVE  CloseIsTold'
  BY <1>6 DEF ExpireFinalizes, LR!ExpireFinalizes, Finalizer
<1>7. ASSUME NEW t \in Timers, Reset(t)
      PROVE  CloseIsTold'
  BY <1>7 DEF Reset, LR!Reset
<1>8. ASSUME NEW t \in Timers, TimerElse(t)
      PROVE  CloseIsTold'
  BY <1>8 DEF TimerElse, LR!TimerStart, LR!TimerFires, LR!TimerClosed, LR!TimerStops
<1>9. ASSUME CloseClient
      PROVE  CloseIsTold'
  BY <1>9 DEF CloseClient
<1>10. ASSUME NEW k \in Closers, RefClose(k)
      PROVE  CloseIsTold'
  BY <1>10 DEF RefClose
<1>11. ASSUME NEW k \in Closers, CloseRef(k)
      PROVE  CloseIsTold'
  BY <1>11 DEF CloseRef, LR!SetClosed, LR!NotifyClosing, LR!Wait
<1>12. ASSUME NEW k \in Closers, CloseFinalizes(k)
      PROVE  CloseIsTold'
  BY <1>12 DEF CloseFinalizes, LR!CloseFinalizes
<1>13. ASSUME NEW c \in Clients, Terminates(c)
      PROVE  CloseIsTold'
  BY <1>13 DEF Terminates
<1>14. CASE UNCHANGED vars
  BY <1>14 DEF vars
<1> QED
  BY <1>1, <1>2, <1>3, <1>4, <1>5, <1>6, <1>7, <1>8, <1>9, <1>10, <1>11, <1>12,
     <1>13, <1>14
  DEF Next

\* A verdict stands until it is carried out, under the lock.
LEMMA VerdictStep ==
  ASSUME Shape, VerdictHolds, [Next]_vars
  PROVE  VerdictHolds'
<1> USE ClientsAssumption DEF lazy, client, users, Shape, LR!GetGoes, LR!CloseGoes, LR!TimerGoes,
           LR!getting, LR!closing, LR!timing, LR!history, LR!EnsureTimerStarted, LR!Finalize,
           Shut, VerdictHolds
<1>1. ASSUME NEW g \in Getters, Call(g)
      PROVE  VerdictHolds'
  BY <1>1 DEF Call
<1>2. ASSUME NEW g \in Getters, GetCheck(g)
      PROVE  VerdictHolds'
  BY <1>2 DEF GetCheck, LR!GetCheck
<1>3. ASSUME NEW g \in Getters, GetFast(g)
      PROVE  VerdictHolds'
  BY <1>3 DEF GetFast, LR!GetFast
<1>4. ASSUME NEW g \in Getters, GetLocked(g)
      PROVE  VerdictHolds'
  BY <1>4 DEF GetLocked, LR!GetLocked, Initializer
<1>5. ASSUME NEW g \in Getters, Use(g)
      PROVE  VerdictHolds'
  BY <1>5 DEF Use, LR!GetDone
<1>6. ASSUME NEW t \in Timers, ExpireFinalizes(t)
      PROVE  VerdictHolds'
  BY <1>6 DEF ExpireFinalizes, LR!ExpireFinalizes, Finalizer
<1>7. ASSUME NEW t \in Timers, Reset(t)
      PROVE  VerdictHolds'
  BY <1>7 DEF Reset, LR!Reset
<1>8. ASSUME NEW t \in Timers, TimerElse(t)
      PROVE  VerdictHolds'
  BY <1>8 DEF TimerElse, LR!TimerStart, LR!TimerFires, LR!TimerClosed, LR!TimerStops
<1>9. ASSUME CloseClient
      PROVE  VerdictHolds'
  BY <1>9 DEF CloseClient
<1>10. ASSUME NEW k \in Closers, RefClose(k)
      PROVE  VerdictHolds'
  BY <1>10 DEF RefClose
<1>11. ASSUME NEW k \in Closers, CloseRef(k)
      PROVE  VerdictHolds'
  BY <1>11 DEF CloseRef, LR!SetClosed, LR!NotifyClosing, LR!Wait
<1>12. ASSUME NEW k \in Closers, CloseFinalizes(k)
      PROVE  VerdictHolds'
  BY <1>12 DEF CloseFinalizes, LR!CloseFinalizes
<1>13. ASSUME NEW c \in Clients, Terminates(c)
      PROVE  VerdictHolds'
  BY <1>13 DEF Terminates
<1>14. CASE UNCHANGED vars
  BY <1>14 DEF vars
<1> QED
  BY <1>1, <1>2, <1>3, <1>4, <1>5, <1>6, <1>7, <1>8, <1>9, <1>10, <1>11, <1>12,
     <1>13, <1>14
  DEF Next

\* The reference is set to the client there is, and unset before it is another one.
LEMMA SetStep ==
  ASSUME Shape, CloseIsTold, VerdictHolds, SetIsThere, [Next]_vars
  PROVE  SetIsThere'
<1> USE ClientsAssumption DEF lazy, client, users, Shape, LR!GetGoes, LR!CloseGoes, LR!TimerGoes,
           LR!getting, LR!closing, LR!timing, LR!history, LR!EnsureTimerStarted, LR!Finalize,
           Shut, CloseIsTold, VerdictHolds, SetIsThere
<1>1. ASSUME NEW g \in Getters, Call(g)
      PROVE  SetIsThere'
  BY <1>1 DEF Call
<1>2. ASSUME NEW g \in Getters, GetCheck(g)
      PROVE  SetIsThere'
  BY <1>2 DEF GetCheck, LR!GetCheck
<1>3. ASSUME NEW g \in Getters, GetFast(g)
      PROVE  SetIsThere'
  BY <1>3 DEF GetFast, LR!GetFast
<1>4. ASSUME NEW g \in Getters, GetLocked(g)
      PROVE  SetIsThere'
  BY <1>4 DEF GetLocked, LR!GetLocked, Initializer
<1>5. ASSUME NEW g \in Getters, Use(g)
      PROVE  SetIsThere'
  BY <1>5 DEF Use, LR!GetDone
<1>6. ASSUME NEW t \in Timers, ExpireFinalizes(t)
      PROVE  SetIsThere'
  BY <1>6 DEF ExpireFinalizes, LR!ExpireFinalizes, Finalizer
<1>7. ASSUME NEW t \in Timers, Reset(t)
      PROVE  SetIsThere'
  BY <1>7 DEF Reset, LR!Reset
<1>8. ASSUME NEW t \in Timers, TimerElse(t)
      PROVE  SetIsThere'
  BY <1>8 DEF TimerElse, LR!TimerStart, LR!TimerFires, LR!TimerClosed, LR!TimerStops
<1>9. ASSUME CloseClient
      PROVE  SetIsThere'
  BY <1>9 DEF CloseClient
<1>10. ASSUME NEW k \in Closers, RefClose(k)
      PROVE  SetIsThere'
  BY <1>10 DEF RefClose
<1>11. ASSUME NEW k \in Closers, CloseRef(k)
      PROVE  SetIsThere'
  BY <1>11 DEF CloseRef, LR!SetClosed, LR!NotifyClosing, LR!Wait
<1>12. ASSUME NEW k \in Closers, CloseFinalizes(k)
      PROVE  SetIsThere'
  BY <1>12 DEF CloseFinalizes, LR!CloseFinalizes
<1>13. ASSUME NEW c \in Clients, Terminates(c)
      PROVE  SetIsThere'
  BY <1>13 DEF Terminates
<1>14. CASE UNCHANGED vars
  BY <1>14 DEF vars
<1> QED
  BY <1>1, <1>2, <1>3, <1>4, <1>5, <1>6, <1>7, <1>8, <1>9, <1>10, <1>11, <1>12,
     <1>13, <1>14
  DEF Next

\* A client is connected only while there is none.
LEMMA OneClientStep ==
  ASSUME Shape, VerdictHolds, OneClient, [Next]_vars
  PROVE  OneClient'
<1> USE ClientsAssumption DEF lazy, client, users, Shape, LR!GetGoes, LR!CloseGoes, LR!TimerGoes,
           LR!getting, LR!closing, LR!timing, LR!history, LR!EnsureTimerStarted, LR!Finalize,
           Shut, VerdictHolds, OneClient, Open
<1>1. ASSUME NEW g \in Getters, Call(g)
      PROVE  OneClient'
  BY <1>1 DEF Call
<1>2. ASSUME NEW g \in Getters, GetCheck(g)
      PROVE  OneClient'
  BY <1>2 DEF GetCheck, LR!GetCheck
<1>3. ASSUME NEW g \in Getters, GetFast(g)
      PROVE  OneClient'
  BY <1>3 DEF GetFast, LR!GetFast
<1>4. ASSUME NEW g \in Getters, GetLocked(g)
      PROVE  OneClient'
  BY <1>4 DEF GetLocked, LR!GetLocked, Initializer
<1>5. ASSUME NEW g \in Getters, Use(g)
      PROVE  OneClient'
  BY <1>5 DEF Use, LR!GetDone
<1>6. ASSUME NEW t \in Timers, ExpireFinalizes(t)
      PROVE  OneClient'
  BY <1>6 DEF ExpireFinalizes, LR!ExpireFinalizes, Finalizer
<1>7. ASSUME NEW t \in Timers, Reset(t)
      PROVE  OneClient'
  BY <1>7 DEF Reset, LR!Reset
<1>8. ASSUME NEW t \in Timers, TimerElse(t)
      PROVE  OneClient'
  BY <1>8 DEF TimerElse, LR!TimerStart, LR!TimerFires, LR!TimerClosed, LR!TimerStops
<1>9. ASSUME CloseClient
      PROVE  OneClient'
  BY <1>9 DEF CloseClient
<1>10. ASSUME NEW k \in Closers, RefClose(k)
      PROVE  OneClient'
  BY <1>10 DEF RefClose
<1>11. ASSUME NEW k \in Closers, CloseRef(k)
      PROVE  OneClient'
  BY <1>11 DEF CloseRef, LR!SetClosed, LR!NotifyClosing, LR!Wait
<1>12. ASSUME NEW k \in Closers, CloseFinalizes(k)
      PROVE  OneClient'
  BY <1>12 DEF CloseFinalizes, LR!CloseFinalizes
<1>13. ASSUME NEW c \in Clients, Terminates(c)
      PROVE  OneClient'
  BY <1>13 DEF Terminates
<1>14. CASE UNCHANGED vars
  BY <1>14 DEF vars
<1> QED
  BY <1>1, <1>2, <1>3, <1>4, <1>5, <1>6, <1>7, <1>8, <1>9, <1>10, <1>11, <1>12,
     <1>13, <1>14
  DEF Next

\* Who registers does so with the open client, which is the one there is.
LEMMA RegistrationsStep ==
  ASSUME Shape, VerdictHolds, OneClient, RegistrationsReachable, [Next]_vars
  PROVE  RegistrationsReachable'
<1> USE ClientsAssumption DEF lazy, client, users, Shape, LR!GetGoes, LR!CloseGoes, LR!TimerGoes,
           LR!getting, LR!closing, LR!timing, LR!history, LR!EnsureTimerStarted, LR!Finalize,
           Shut, VerdictHolds, OneClient, RegistrationsReachable, Open
<1>1. ASSUME NEW g \in Getters, Call(g)
      PROVE  RegistrationsReachable'
  BY <1>1 DEF Call
<1>2. ASSUME NEW g \in Getters, GetCheck(g)
      PROVE  RegistrationsReachable'
  BY <1>2 DEF GetCheck, LR!GetCheck
<1>3. ASSUME NEW g \in Getters, GetFast(g)
      PROVE  RegistrationsReachable'
  BY <1>3 DEF GetFast, LR!GetFast
<1>4. ASSUME NEW g \in Getters, GetLocked(g)
      PROVE  RegistrationsReachable'
  BY <1>4 DEF GetLocked, LR!GetLocked, Initializer
<1>5. ASSUME NEW g \in Getters, Use(g)
      PROVE  RegistrationsReachable'
  BY <1>5 DEF Use, LR!GetDone
<1>6. ASSUME NEW t \in Timers, ExpireFinalizes(t)
      PROVE  RegistrationsReachable'
  BY <1>6 DEF ExpireFinalizes, LR!ExpireFinalizes, Finalizer
<1>7. ASSUME NEW t \in Timers, Reset(t)
      PROVE  RegistrationsReachable'
  BY <1>7 DEF Reset, LR!Reset
<1>8. ASSUME NEW t \in Timers, TimerElse(t)
      PROVE  RegistrationsReachable'
  BY <1>8 DEF TimerElse, LR!TimerStart, LR!TimerFires, LR!TimerClosed, LR!TimerStops
<1>9. ASSUME CloseClient
      PROVE  RegistrationsReachable'
  BY <1>9 DEF CloseClient
<1>10. ASSUME NEW k \in Closers, RefClose(k)
      PROVE  RegistrationsReachable'
  BY <1>10 DEF RefClose
<1>11. ASSUME NEW k \in Closers, CloseRef(k)
      PROVE  RegistrationsReachable'
  BY <1>11 DEF CloseRef, LR!SetClosed, LR!NotifyClosing, LR!Wait
<1>12. ASSUME NEW k \in Closers, CloseFinalizes(k)
      PROVE  RegistrationsReachable'
  BY <1>12 DEF CloseFinalizes, LR!CloseFinalizes
<1>13. ASSUME NEW c \in Clients, Terminates(c)
      PROVE  RegistrationsReachable'
  BY <1>13 DEF Terminates
<1>14. CASE UNCHANGED vars
  BY <1>14 DEF vars
<1> QED
  BY <1>1, <1>2, <1>3, <1>4, <1>5, <1>6, <1>7, <1>8, <1>9, <1>10, <1>11, <1>12,
     <1>13, <1>14
  DEF Next

LEMMA Invariance == Spec => []IInv
<1>1. Init => IInv
  BY InitIInv
<1>2. IInv /\ [Next]_vars => IInv'
  BY ShapeStep, CloseStep, VerdictStep, SetStep, OneClientStep, RegistrationsStep DEF IInv
<1> QED
  BY <1>1, <1>2, PTL DEF Spec

-----------------------------------------------------------------------------
\* Through expirations, retained clients and Close: a channel has one open event client
\* at most, what get() hands out is that client and not one the finalizer closed, and a
\* registration is where Unregister looks for it (eventserviceref.go, initializer and
\* finalizer).
THEOREM EventServiceIsSound == Spec => []EventServiceSound
<1>1. IInv => EventServiceSound
  BY ClientsAssumption
  DEF IInv, EventServiceSound, HandsOutOpen, SetIsThere, Shape
<1> QED
  BY <1>1, Invariance, PTL

-----------------------------------------------------------------------------
(* The lazy reference that the event service is built on                   *)

LEMMA LazyStep ==
  ASSUME Shape, [Next]_vars
  PROVE  [LR!Next]_(LR!vars)
<1> USE DEF LR!Next, LR!Get, LR!Close, LR!Timer, LR!Fresh
<1>1. ASSUME NEW g \in Getters, Call(g) \/ GetCheck(g) \/ GetFast(g) \/ Use(g)
      PROVE  [LR!Next]_(LR!vars)
  BY <1>1 DEF Call, GetCheck, GetFast, Use, lazy, LR!vars, LR!getting, LR!closing, LR!timing,
              LR!history
<1>2. ASSUME NEW g \in Getters, GetLocked(g)
      PROVE  LR!Next
  <2>1. PICK v \in Values \cup {NoValue} :
          LR!GetLocked(g, v) /\ (ref = NoValue => v \in LR!Fresh)
    BY <1>2 DEF GetLocked, Shape
  <2>2. CASE ref = NoValue
    BY <2>1, <2>2
  <2>3. CASE ref # NoValue
    <3>1. LR!GetLocked(g, NoValue)
      BY <2>1, <2>3 DEF LR!GetLocked
    <3> QED
      BY <3>1
  <2> QED
    BY <2>2, <2>3
<1>3. ASSUME NEW t \in Timers, ExpireFinalizes(t) \/ Reset(t) \/ TimerElse(t)
      PROVE  LR!Next
  BY <1>3 DEF ExpireFinalizes, Reset, TimerElse
<1>4. ASSUME NEW k \in Closers, CloseRef(k) \/ CloseFinalizes(k)
      PROVE  LR!Next
  BY <1>4 DEF CloseRef, CloseFinalizes
<1>5. CASE UNCHANGED lazy
  BY <1>5 DEF lazy, LR!vars, LR!getting, LR!closing, LR!timing, LR!history
<1>6. ASSUME NEW k \in Closers, RefClose(k)
      PROVE  UNCHANGED lazy
  BY <1>6 DEF RefClose
<1>7. ASSUME NEW c \in Clients, Terminates(c)
      PROVE  UNCHANGED lazy
  BY <1>7 DEF Terminates
<1>8. CloseClient \/ UNCHANGED vars => UNCHANGED lazy
  BY DEF CloseClient, vars
<1> QED
  BY <1>1, <1>2, <1>3, <1>4, <1>5, <1>6, <1>7, <1>8 DEF Next

\* The event service does to its lazy reference what a lazy reference does: registering,
\* unregistering, expiring and closing are its Get, its timer and its Close
\* (eventserviceref.go: get, Close and the finalizer given to lazyref.New).
THEOREM ImplementsLazyRef == Spec => LR!Spec
<1>1. Init => LR!Init
  BY DEF Init
<1>2. IInv /\ [Next]_vars => [LR!Next]_(LR!vars)
  BY LazyStep DEF IInv
<1> QED
  BY <1>1, <1>2, Invariance, PTL DEF Spec, LR!Spec

LEMMA LazyRefAssumed == LRP!RefAssumption /\ LRP!CachesAssumption
BY ClientsAssumption
   DEF LRP!RefAssumption, LRP!IsFiniteSet, IsFiniteSet, LRP!CachesAssumption,
       LRP!Cache!CacheAssumption

\* LR and LRP are one instance of LazyRef.
LEMMA LazyTypes == LR!Spec => [](LR!TypeOK /\ LR!RefSound)
<1>1. LR!Init => LRP!Init
  BY DEF LR!Init, LRP!Init
<1>2. [LR!Next]_(LR!vars) => [LRP!Next]_(LRP!vars)
  BY DEF LR!Next, LR!vars, LR!Fresh, LR!history, LR!timing, LR!closing, LR!getting, LR!GetGoes,
         LR!CloseGoes, LR!TimerGoes, LR!GetCheck, LR!Get, LR!GetFast, LR!GetLocked,
         LR!EnsureTimerStarted, LR!GetDone, LR!SetClosed, LR!Close, LR!NotifyClosing, LR!Wait,
         LR!CloseFinalizes, LR!Finalize, LR!TimerFires, LR!Timer, LR!TimerStart, LR!TimerClosed,
         LR!Reset, LR!TimerStops, LR!ExpireFinalizes, LR!Refresh, LRP!Next, LRP!vars, LRP!Fresh,
         LRP!history, LRP!timing, LRP!closing, LRP!getting, LRP!GetGoes, LRP!CloseGoes,
         LRP!TimerGoes, LRP!GetCheck, LRP!Get, LRP!GetFast, LRP!GetLocked,
         LRP!EnsureTimerStarted, LRP!GetDone, LRP!SetClosed, LRP!Close, LRP!NotifyClosing,
         LRP!Wait, LRP!CloseFinalizes, LRP!Finalize, LRP!TimerFires, LRP!Timer, LRP!TimerStart,
         LRP!TimerClosed, LRP!Reset, LRP!TimerStops, LRP!ExpireFinalizes, LRP!Refresh
<1>3. LRP!Spec => []LRP!TypeOK
  BY LRP!TypeCorrect, LazyRefAssumed
<1>4. LRP!Spec => []LRP!RefSound
  BY LRP!ReferenceSound, LazyRefAssumed
<1>5. LRP!TypeOK => LR!TypeOK
  BY DEF LRP!TypeOK, LR!TypeOK
<1>6. LRP!RefSound => LR!RefSound
  BY DEF LRP!RefSound, LRP!OneTimer, LRP!InLoop, LRP!OneLiveValue, LRP!FinalizedOnce,
         LR!RefSound, LR!OneTimer, LR!InLoop, LR!OneLiveValue, LR!FinalizedOnce
<1> QED
  BY <1>1, <1>2, <1>3, <1>4, <1>5, <1>6, PTL DEF LR!Spec, LRP!Spec

\* So its lazy reference is sound: one timer, and of the clients' holders one that lives,
\* each finalized by one.
THEOREM LazyRefIsSound == Spec => []LR!RefSound
BY ImplementsLazyRef, LazyTypes, PTL

-----------------------------------------------------------------------------
\* Who has got something from the lazy reference has got a value: a registration is given
\* by a client.
UsersShape ==
  /\ refClosed \in BOOLEAN /\ won \subseteq Closers
  /\ reg \in [Getters -> Clients \cup {NoClient}]
  /\ call \in [Getters -> {"none", "register", "unregister"}]
  /\ \A g \in Getters : getter[g] = "got" => got[g] \in Values

LEMMA UsersStep ==
  ASSUME UsersShape, Shape, LR!TypeOK, [Next]_vars
  PROVE  UsersShape'
<1> USE ClientsAssumption DEF lazy, client, users, LR!GetGoes, LR!getting, LR!closing, LR!timing,
           LR!history, UsersShape, Shape, LR!TypeOK
<1>1. ASSUME NEW g \in Getters, Call(g)
      PROVE  UsersShape'
  BY <1>1 DEF Call
<1>2. ASSUME NEW g \in Getters, GetCheck(g)
      PROVE  UsersShape'
  BY <1>2 DEF GetCheck, LR!GetCheck
<1>3. ASSUME NEW g \in Getters, GetFast(g)
      PROVE  UsersShape'
  BY <1>3 DEF GetFast, LR!GetFast
<1>4. ASSUME NEW g \in Getters, GetLocked(g)
      PROVE  UsersShape'
  BY <1>4 DEF GetLocked, LR!GetLocked
<1>5. ASSUME NEW g \in Getters, Use(g)
      PROVE  UsersShape'
  <2>1. got[g] \in Values /\ clientOf[got[g]] \in Clients \cup {NoClient}
    BY <1>5 DEF Use, LR!GetDone
  <2>2. reg' = reg \/ reg' = [reg EXCEPT ![g] = clientOf[got[g]]]
          \/ reg' = [reg EXCEPT ![g] = NoClient]
    BY <1>5 DEF Use
  <2>3. getter' = [getter EXCEPT ![g] = "idle"] /\ got' = [got EXCEPT ![g] = NoValue]
    BY <1>5 DEF Use, LR!GetDone
  <2> QED
    BY <1>5, <2>1, <2>2, <2>3 DEF Use
<1>6. ASSUME NEW t \in Timers, ExpireFinalizes(t)
      PROVE  UsersShape'
  BY <1>6 DEF ExpireFinalizes, LR!ExpireFinalizes
<1>7. ASSUME NEW t \in Timers, Reset(t)
      PROVE  UsersShape'
  BY <1>7 DEF Reset, LR!Reset
<1>8. ASSUME NEW t \in Timers, TimerElse(t)
      PROVE  UsersShape'
  BY <1>8 DEF TimerElse, LR!TimerStart, LR!TimerFires, LR!TimerClosed, LR!TimerStops
<1>9. ASSUME CloseClient
      PROVE  UsersShape'
  BY <1>9 DEF CloseClient
<1>10. ASSUME NEW k \in Closers, RefClose(k)
      PROVE  UsersShape'
  BY <1>10 DEF RefClose
<1>11. ASSUME NEW k \in Closers, CloseRef(k)
      PROVE  UsersShape'
  BY <1>11 DEF CloseRef, LR!SetClosed, LR!NotifyClosing, LR!Wait
<1>12. ASSUME NEW k \in Closers, CloseFinalizes(k)
      PROVE  UsersShape'
  BY <1>12 DEF CloseFinalizes, LR!CloseFinalizes
<1>13. ASSUME NEW c \in Clients, Terminates(c)
      PROVE  UsersShape'
  BY <1>13 DEF Terminates
<1>14. CASE UNCHANGED vars
  BY <1>14 DEF vars
<1> QED
  BY <1>1, <1>2, <1>3, <1>4, <1>5, <1>6, <1>7, <1>8, <1>9, <1>10, <1>11, <1>12,
     <1>13, <1>14
  DEF Next

\* The state keeps its shape; the finalizer's verdict is about a client there is, and the
\* lock is held exactly while the two steps of an expiration are under way.
THEOREM TypeCorrect == Spec => []TypeOK
<1>1. Init => UsersShape
  BY DEF Init, LR!Init, UsersShape
<1>2. UsersShape /\ IInv /\ LR!TypeOK /\ [Next]_vars => UsersShape'
  BY UsersStep DEF IInv
<1>3. UsersShape /\ IInv /\ LR!TypeOK => TypeOK
  BY DEF UsersShape, IInv, Shape, VerdictHolds, TypeOK
<1> QED
  BY <1>1, <1>2, <1>3, Invariance, ImplementsLazyRef, LazyTypes, PTL DEF Spec

(***************************************************************************)
(* The PKCS11 sessions: a handle is of the context there is, or it was out *)
(* when that context was made.                                             *)
(***************************************************************************)

HandlesKnown ==
  /\ alive \subseteq given
  /\ \A u \in Users : session[u] # SP!Empty => session[u] \in given \cup carried

SessionInv == SP!TypeOK /\ HandlesKnown /\ SP!PoolOfThisContext /\ SP!SessionsNotShared

\* A handle lies in a pool at one place.
OnceIn(q, s) == \A i, j \in DOMAIN q : q[i] = s /\ q[j] = s => i = j

-----------------------------------------------------------------------------
\* What taking the first handle of a pool leaves
LEMMA PoolTail ==
  ASSUME NEW S, NEW q \in Seq(S), q # <<>>
  PROVE  /\ Tail(q) \in Seq(S) /\ Len(Tail(q)) <= Len(q) /\ Head(q) \in S
         /\ Head(q) \in SP!Range(q) /\ SP!Range(Tail(q)) \subseteq SP!Range(q)
         /\ \A s : OnceIn(q, s) => OnceIn(Tail(q), s)
         /\ OnceIn(q, Head(q)) => Head(q) \notin SP!Range(Tail(q))
<1>1. /\ Len(q) \in Nat /\ Len(q) > 0 /\ DOMAIN q = 1 .. Len(q)
      /\ Tail(q) \in Seq(S) /\ Len(Tail(q)) = Len(q) - 1 /\ DOMAIN Tail(q) = 1 .. Len(q) - 1
      /\ Head(q) = q[1] /\ 1 \in DOMAIN q
      /\ \A i \in 1 .. Len(q) - 1 : Tail(q)[i] = q[i + 1] /\ i + 1 \in DOMAIN q
  OBVIOUS
<1>2. Head(q) \in S /\ Head(q) \in SP!Range(q) /\ SP!Range(Tail(q)) \subseteq SP!Range(q)
  BY <1>1 DEF SP!Range
<1>3. ASSUME NEW s, OnceIn(q, s)
      PROVE  OnceIn(Tail(q), s)
  <2>1. SUFFICES ASSUME NEW i \in DOMAIN Tail(q), NEW j \in DOMAIN Tail(q),
                        Tail(q)[i] = s, Tail(q)[j] = s
                 PROVE  i = j
    BY DEF OnceIn
  <2>2. i + 1 = j + 1
    BY <1>1, <1>3, <2>1 DEF OnceIn
  <2> QED
    BY <1>1, <2>2
<1>4. ASSUME OnceIn(q, Head(q)), Head(q) \in SP!Range(Tail(q))
      PROVE  FALSE
  <2>1. PICK i \in DOMAIN Tail(q) : Tail(q)[i] = Head(q)
    BY <1>4 DEF SP!Range
  <2>2. i + 1 = 1
    BY <1>1, <1>4, <2>1 DEF OnceIn
  <2> QED
    BY <1>1, <2>2
<1> QED
  BY <1>1, <1>2, <1>3, <1>4

\* What a handle that is put behind the others makes of a pool
LEMMA PoolAppend ==
  ASSUME NEW S, NEW q \in Seq(S), NEW h \in S
  PROVE  /\ Append(q, h) \in Seq(S) /\ Len(Append(q, h)) = Len(q) + 1
         /\ SP!Range(Append(q, h)) = SP!Range(q) \cup {h}
         /\ \A s : OnceIn(q, s) /\ (s # h \/ h \notin SP!Range(q)) => OnceIn(Append(q, h), s)
<1>1. /\ Len(q) \in Nat /\ DOMAIN q = 1 .. Len(q)
      /\ Append(q, h) \in Seq(S) /\ Len(Append(q, h)) = Len(q) + 1
      /\ DOMAIN Append(q, h) = 1 .. Len(q) + 1 /\ Append(q, h)[Len(q) + 1] = h
      /\ \A i \in 1 .. Len(q) : Append(q, h)[i] = q[i]
  OBVIOUS
<1> DEFINE r == Append(q, h)
<1>2. \A i \in DOMAIN r : i \in DOMAIN q \/ i = Len(q) + 1
  BY <1>1
<1>3. \A i \in DOMAIN q : i \in DOMAIN r /\ r[i] = q[i] /\ q[i] \in SP!Range(q)
  BY <1>1 DEF SP!Range
<1>4. Len(q) + 1 \in DOMAIN r /\ r[Len(q) + 1] = h
  BY <1>1
<1> HIDE DEF r
<1>5. SP!Range(r) = SP!Range(q) \cup {h}
  <2>1. SP!Range(r) \subseteq SP!Range(q) \cup {h}
    BY <1>2, <1>3, <1>4 DEF SP!Range
  <2>2. SP!Range(q) \cup {h} \subseteq SP!Range(r)
    BY <1>3, <1>4 DEF SP!Range
  <2> QED
    BY <2>1, <2>2
<1>6. ASSUME NEW s, OnceIn(q, s), s # h \/ h \notin SP!Range(q)
      PROVE  OnceIn(r, s)
  <2>1. SUFFICES ASSUME NEW i \in DOMAIN r, NEW j \in DOMAIN r, r[i] = s, r[j] = s
                 PROVE  i = j
    BY DEF OnceIn
  <2>2. CASE i \in DOMAIN q /\ j \in DOMAIN q
    BY <1>3, <1>6, <2>1, <2>2 DEF OnceIn
  <2>3. CASE i = Len(q) + 1 \/ j = Len(q) + 1
    BY <1>2, <1>3, <1>4, <1>6, <2>1, <2>3
  <2> QED
    BY <1>2, <2>2, <2>3
<1> QED
  BY <1>1, <1>5, <1>6 DEF r

\* What nobody else has, one user may be given.
LEMMA HandedTo ==
  ASSUME SP!TypeOK, NEW s, SP!OneHas(s), NEW u \in Users, NEW h,
         session' = [session EXCEPT ![u] = h],
         \A i \in DOMAIN pool' : pool'[i] \in SP!Range(pool), OnceIn(pool, s) => OnceIn(pool', s),
         h = s => s \notin SP!Range(pool') /\ \A v \in Users : v # u => session[v] # s
  PROVE  SP!OneHas(s)'
<1>1. session' \in [Users -> {session[v] : v \in Users} \cup {h}]
      /\ \A v \in Users : session'[v] = IF v = u THEN h ELSE session[v]
  BY DEF SP!TypeOK
<1>2. SP!Range(pool') \subseteq SP!Range(pool)
  BY DEF SP!Range
<1>3. OnceIn(pool', s)
  BY DEF OnceIn, SP!OneHas
<1> QED
  BY <1>1, <1>2, <1>3 DEF SP!OneHas, OnceIn, SP!Range

-----------------------------------------------------------------------------
LEMMA InitSessionInv ==
  ASSUME SP!PoolAssumption, SP!Init
  PROVE  SessionInv
<1>0. PoolSize \in Nat /\ MaxBroken \in Nat /\ SP!Empty \notin Handles
  BY DEF SP!PoolAssumption
<1>1. pool \in Seq(Handles) /\ Len(pool) <= PoolSize /\ DOMAIN pool = {}
  BY <1>0 DEF SP!Init
<1>2. SP!TypeOK
  <2>1. /\ stage \in [Users -> {"idle", "validate", "open", "lock", "relock", "holds"}]
        /\ session \in [Users -> Handles \cup {SP!Empty}]
    BY DEF SP!Init
  <2>2. given \subseteq Handles /\ alive \subseteq Handles /\ carried \subseteq Handles
    BY DEF SP!Init
  <2>3. recovery \in BOOLEAN /\ readers \subseteq Users
    BY DEF SP!Init
  <2>4. broken \in 0 .. MaxBroken
    BY <1>0 DEF SP!Init
  <2> QED
    BY <1>1, <2>1, <2>2, <2>3, <2>4 DEF SP!TypeOK
<1>3. HandlesKnown /\ SP!PoolOfThisContext /\ SP!SessionsNotShared
  BY <1>0, <1>1 DEF SP!Init, HandlesKnown, SP!PoolOfThisContext, SP!SessionsNotShared,
     SP!OneHas, SP!Range
<1> QED
  BY <1>2, <1>3 DEF SessionInv

\* Every step keeps the types; the pool and the breakages stay within their bounds.
LEMMA SessionTypeStep ==
  ASSUME SP!PoolAssumption, SP!TypeOK, [SP!Next]_(SP!vars)
  PROVE  SP!TypeOK'
<1>0. PoolSize \in Nat /\ MaxBroken \in Nat
  BY DEF SP!PoolAssumption
<1> USE <1>0 DEF SP!Is, SP!Counted, SP!TypeOK
<1>1. ASSUME NEW u \in Users, SP!GetSession(u)
      PROVE  SP!TypeOK'
  <2>1. CASE pool = <<>>
    BY <1>1, <2>1 DEF SP!GetSession
  <2>2. CASE pool # <<>>
    <3>1. /\ Tail(pool) \in Seq(Handles) /\ Len(Tail(pool)) <= PoolSize
          /\ Head(pool) \in Handles
      BY <2>2, PoolTail
    <3> QED
      BY <1>1, <2>2, <3>1 DEF SP!GetSession
  <2> QED
    BY <2>1, <2>2
<1>2. ASSUME NEW u \in Users, SP!OpenSession(u)
      PROVE  SP!TypeOK'
  BY <1>2 DEF SP!OpenSession
<1>3. ASSUME NEW u \in Users, SP!Validate(u)
      PROVE  SP!TypeOK'
  BY <1>3 DEF SP!Validate
<1>4. ASSUME NEW u \in Users, SP!Recover(u)
      PROVE  SP!TypeOK'
  <2>1. SP!Renew(u) /\ pool' = <<>>
    BY <1>4 DEF SP!Recover, SP!ReLogin
  <2>2. pool' \in Seq(Handles) /\ Len(pool') <= PoolSize
    BY <2>1
  <2>3. carried' \subseteq Handles
    BY <2>1 DEF SP!Renew
  <2>4. /\ given' \subseteq Handles /\ alive' \subseteq Handles /\ broken' \in 0 .. MaxBroken
        /\ stage' \in [Users -> {"idle", "validate", "open", "lock", "relock", "holds"}]
        /\ session' \in [Users -> Handles \cup {SP!Empty}]
    BY <2>1 DEF SP!Renew
  <2> QED
    BY <2>1, <2>2, <2>3, <2>4 DEF SP!Renew
<1>5. ASSUME NEW u \in Users, SP!SignFails(u)
      PROVE  SP!TypeOK'
  BY <1>5 DEF SP!SignFails
<1>6. ASSUME NEW u \in Users, SP!ReturnSession(u)
      PROVE  SP!TypeOK'
  <2>1. CASE pool' = pool /\ alive' = alive \ {session[u]}
    BY <1>6, <2>1 DEF SP!ReturnSession
  <2>2. CASE pool' = Append(pool, session[u]) /\ session[u] \in alive /\ Len(pool) < PoolSize
             /\ alive' = alive
    <3>1. Append(pool, session[u]) \in Seq(Handles) /\ Len(pool') <= PoolSize
      BY <2>2, PoolAppend
    <3> QED
      BY <1>6, <2>2, <3>1 DEF SP!ReturnSession
  <2> QED
    BY <1>6, <2>1, <2>2 DEF SP!ReturnSession
<1>7. ASSUME NEW s \in Handles, SP!TokenBreaks(s)
      PROVE  SP!TypeOK'
  BY <1>7 DEF SP!TokenBreaks
<1>8. CASE UNCHANGED SP!vars
  BY <1>8 DEF SP!vars
<1> QED
  BY <1>1, <1>2, <1>3, <1>4, <1>5, <1>6, <1>7, <1>8 DEF SP!Next, SP!User

\* The context knows what it gave, and a handle it did not give was out when it was made.
LEMMA KnownStep ==
  ASSUME SP!PoolAssumption, SP!TypeOK, HandlesKnown, SP!PoolOfThisContext, [SP!Next]_(SP!vars)
  PROVE  HandlesKnown' /\ SP!PoolOfThisContext'
<1>0. SP!Empty \notin Handles
  BY DEF SP!PoolAssumption
<1> USE <1>0 DEF SP!Is, SP!TypeOK, HandlesKnown, SP!PoolOfThisContext
<1>1. ASSUME NEW u \in Users, SP!GetSession(u)
      PROVE  HandlesKnown' /\ SP!PoolOfThisContext'
  <2>1. CASE pool = <<>>
    BY <1>1, <2>1 DEF SP!GetSession
  <2>2. CASE pool # <<>>
    <3>1. Head(pool) \in SP!Range(pool) /\ SP!Range(Tail(pool)) \subseteq SP!Range(pool)
      BY <2>2, PoolTail
    <3> QED
      BY <1>1, <2>2, <3>1 DEF SP!GetSession
  <2> QED
    BY <2>1, <2>2
<1>2. ASSUME NEW u \in Users, SP!OpenSession(u)
      PROVE  HandlesKnown' /\ SP!PoolOfThisContext'
  BY <1>2 DEF SP!OpenSession
<1>3. ASSUME NEW u \in Users, SP!Validate(u)
      PROVE  HandlesKnown' /\ SP!PoolOfThisContext'
  BY <1>3 DEF SP!Validate
<1>4. ASSUME NEW u \in Users, SP!Recover(u)
      PROVE  HandlesKnown' /\ SP!PoolOfThisContext'
  <2>1. SP!Renew(u) /\ pool' = <<>>
    BY <1>4 DEF SP!Recover, SP!ReLogin
  <2>2. SP!PoolOfThisContext'
    BY <2>1 DEF SP!Range
  <2>3. alive' \subseteq given' /\ (session'[u] = SP!Empty \/ session'[u] \in given')
    BY <2>1 DEF SP!Renew
  <2>4. \A v \in Users \ {u} : session'[v] = session[v]
    BY <2>1 DEF SP!Renew
  <2>5. \A v \in Users \ {u} : session'[v] # SP!Empty => session'[v] \in carried'
    BY <2>1, <2>4 DEF SP!Renew
  <2> QED
    BY <2>2, <2>3, <2>5
<1>5. ASSUME NEW u \in Users, SP!SignFails(u)
      PROVE  HandlesKnown' /\ SP!PoolOfThisContext'
  BY <1>5 DEF SP!SignFails
<1>6. ASSUME NEW u \in Users, SP!ReturnSession(u)
      PROVE  HandlesKnown' /\ SP!PoolOfThisContext'
  <2>1. CASE pool' = pool /\ alive' = alive \ {session[u]}
    BY <1>6, <2>1 DEF SP!ReturnSession
  <2>2. CASE pool' = Append(pool, session[u]) /\ session[u] \in alive /\ alive' = alive
             /\ ~recovery
    <3>1. SP!Range(pool') = SP!Range(pool) \cup {session[u]}
      BY <2>2, PoolAppend
    <3> QED
      BY <1>6, <2>2, <3>1 DEF SP!ReturnSession
  <2> QED
    BY <1>6, <2>1, <2>2 DEF SP!ReturnSession
<1>7. ASSUME NEW s \in Handles, SP!TokenBreaks(s)
      PROVE  HandlesKnown' /\ SP!PoolOfThisContext'
  BY <1>7 DEF SP!TokenBreaks
<1>8. CASE UNCHANGED SP!vars
  BY <1>8 DEF SP!vars
<1> QED
  BY <1>1, <1>2, <1>3, <1>4, <1>5, <1>6, <1>7, <1>8 DEF SP!Next, SP!User

\* A handle goes from the pool to one user, or from its user to the pool.
LEMMA SharedStep ==
  ASSUME SP!PoolAssumption, SessionInv, [SP!Next]_(SP!vars)
  PROVE  SP!SessionsNotShared'
<1>0. /\ SP!Empty \notin Handles /\ SP!TypeOK /\ HandlesKnown /\ SP!PoolOfThisContext
      /\ \A s \in Handles \ carried : SP!OneHas(s)
  BY DEF SP!PoolAssumption, SessionInv, SP!SessionsNotShared
<1>1. SUFFICES ASSUME NEW s \in Handles, s \notin carried'
               PROVE  SP!OneHas(s)'
  BY DEF SP!SessionsNotShared
<1>2. ASSUME SP!OneHas(s), UNCHANGED <<pool, session>>
      PROVE  SP!OneHas(s)'
  BY <1>2 DEF SP!OneHas
\* Where somebody is left with none
<1>3. ASSUME SP!OneHas(s), UNCHANGED pool,
             NEW u \in Users, session' = [session EXCEPT ![u] = SP!Empty]
      PROVE  SP!OneHas(s)'
  <2>1. \A i \in DOMAIN pool' : pool'[i] \in SP!Range(pool)
    BY <1>3 DEF SP!Range
  <2>2. SP!Empty # s
    BY <1>0
  <2> QED
    BY <1>0, <1>3, <2>1, <2>2, HandedTo
<1>4. ASSUME NEW u \in Users, SP!GetSession(u)
      PROVE  SP!OneHas(s)'
  <2>1. SP!OneHas(s)
    BY <1>0, <1>1, <1>4 DEF SP!GetSession
  <2>2. CASE pool = <<>>
    BY <1>3, <1>4, <2>1, <2>2 DEF SP!GetSession, SP!Is
  <2>3. CASE pool # <<>>
    <3>1. pool' = Tail(pool) /\ session' = [session EXCEPT ![u] = Head(pool)]
      BY <1>4, <2>3 DEF SP!GetSession, SP!Is
    <3>2. /\ Head(pool) \in SP!Range(pool) /\ SP!Range(Tail(pool)) \subseteq SP!Range(pool)
          /\ OnceIn(pool, s) => OnceIn(Tail(pool), s)
          /\ OnceIn(pool, Head(pool)) => Head(pool) \notin SP!Range(Tail(pool))
      BY <1>0, <2>3, PoolTail DEF SP!TypeOK
    <3>3. \A i \in DOMAIN pool' : pool'[i] \in SP!Range(pool)
      BY <3>1, <3>2 DEF SP!Range
    <3>4. Head(pool) = s => s \notin SP!Range(pool') /\ \A v \in Users : v # u => session[v] # s
      BY <2>1, <3>1, <3>2 DEF SP!OneHas, OnceIn
    <3>5. OnceIn(pool, s) => OnceIn(pool', s)
      BY <3>1, <3>2
    <3> QED
      BY <1>0, <2>1, <3>1, <3>3, <3>4, <3>5, HandedTo
  <2> QED
    BY <2>2, <2>3
<1>5. ASSUME NEW u \in Users, SP!OpenSession(u)
      PROVE  SP!OneHas(s)'
  <2>1. SP!OneHas(s) /\ UNCHANGED pool /\ carried' = carried
    BY <1>0, <1>1, <1>5 DEF SP!OpenSession
  <2>2. CASE session' = [session EXCEPT ![u] = SP!Empty]
    BY <1>3, <2>1, <2>2
  <2>3. CASE \E h \in Handles \ given : session' = [session EXCEPT ![u] = h]
    <3>1. PICK h \in Handles \ given : session' = [session EXCEPT ![u] = h]
      BY <2>3
    <3>2. \A i \in DOMAIN pool' : pool'[i] \in SP!Range(pool)
      BY <2>1 DEF SP!Range
    <3>3. h = s => s \notin SP!Range(pool') /\ \A v \in Users : v # u => session[v] # s
      BY <1>0, <1>1, <2>1, <3>1 DEF HandlesKnown, SP!PoolOfThisContext
    <3> QED
      BY <1>0, <2>1, <3>1, <3>2, <3>3, HandedTo
  <2> QED
    BY <1>5, <2>2, <2>3 DEF SP!OpenSession, SP!Is
<1>6. ASSUME NEW u \in Users, SP!Validate(u)
      PROVE  SP!OneHas(s)'
  <2>1. SP!OneHas(s) /\ UNCHANGED pool
    BY <1>0, <1>1, <1>6 DEF SP!Validate
  <2>2. CASE session' = [session EXCEPT ![u] = SP!Empty]
    BY <1>3, <2>1, <2>2
  <2>3. CASE session' = [session EXCEPT ![u] = session[u]]
    <3>1. session' = session
      BY <1>0, <2>3 DEF SP!TypeOK
    <3> QED
      BY <1>2, <2>1, <3>1
  <2> QED
    BY <1>6, <2>2, <2>3 DEF SP!Validate, SP!Is
\* Who renews the context has the one handle of it, unless another was out.
<1>7. ASSUME NEW u \in Users, SP!Recover(u)
      PROVE  SP!OneHas(s)'
  <2>1. SP!Renew(u) /\ pool' = <<>>
    BY <1>7 DEF SP!Recover, SP!ReLogin
  <2>2. \A v \in Users \ {u} : session'[v] = session[v]
    BY <1>0, <2>1 DEF SP!Renew, SP!Is, SP!TypeOK
  <2>3. \A v \in Users \ {u} : session'[v] # s
    BY <1>0, <1>1, <2>1, <2>2 DEF SP!Renew
  <2>4. DOMAIN pool' = {}
    BY <2>1
  <2> QED
    BY <2>3, <2>4 DEF SP!OneHas, SP!Range
<1>8. ASSUME NEW u \in Users, SP!ReturnSession(u)
      PROVE  SP!OneHas(s)'
  <2>1. SP!OneHas(s) /\ session' = [session EXCEPT ![u] = SP!Empty]
    BY <1>0, <1>1, <1>8 DEF SP!ReturnSession, SP!Is
  <2>2. CASE UNCHANGED pool
    BY <1>3, <2>1, <2>2
  <2>3. CASE pool' = Append(pool, session[u]) /\ session[u] \in alive
    <3>1. session[u] \in Handles
      BY <1>0, <2>3 DEF SP!TypeOK
    <3>2. /\ SP!Range(pool') = SP!Range(pool) \cup {session[u]}
          /\ OnceIn(pool, s) /\ (s # session[u] \/ session[u] \notin SP!Range(pool))
               => OnceIn(pool', s)
      BY <1>0, <2>3, <3>1, PoolAppend DEF SP!TypeOK
    <3>3. OnceIn(pool', s)
      BY <2>1, <3>2 DEF SP!OneHas, OnceIn
    <3>4. \A v \in Users : session'[v] = s => v # u /\ session[v] = s
      BY <1>0, <2>1 DEF SP!TypeOK
    <3>5. \A v \in Users : session'[v] = s => s \notin SP!Range(pool')
      BY <2>1, <3>2, <3>4 DEF SP!OneHas
    <3>6. \A v, w \in Users : session'[v] = s /\ session'[w] = s => v = w
      BY <2>1, <3>4 DEF SP!OneHas
    <3> QED
      BY <3>3, <3>5, <3>6 DEF SP!OneHas, OnceIn
  <2> QED
    BY <1>8, <2>2, <2>3 DEF SP!ReturnSession
<1>9. ASSUME UNCHANGED <<pool, session, carried>>
      PROVE  SP!OneHas(s)'
  BY <1>0, <1>1, <1>2, <1>9
<1>10. ASSUME NEW u \in Users, SP!SignFails(u)
       PROVE  SP!OneHas(s)'
  BY <1>9, <1>10 DEF SP!SignFails
<1>11. ASSUME NEW h \in Handles, SP!TokenBreaks(h)
       PROVE  SP!OneHas(s)'
  BY <1>9, <1>11 DEF SP!TokenBreaks
<1>12. CASE UNCHANGED SP!vars
  BY <1>9, <1>12 DEF SP!vars
<1> QED
  BY <1>4, <1>5, <1>6, <1>7, <1>8, <1>10, <1>11, <1>12 DEF SP!Next, SP!User

LEMMA SessionInvariance == ASSUME SP!PoolAssumption PROVE SP!Spec => []SessionInv
<1>1. SP!Init => SessionInv
  BY InitSessionInv
<1>2. SessionInv /\ [SP!Next]_(SP!vars) => SessionInv'
  BY SessionTypeStep, KnownStep, SharedStep DEF SessionInv
<1> QED
  BY <1>1, <1>2, PTL DEF SP!Spec

-----------------------------------------------------------------------------
\* No two users have one session, nor is one pooled that somebody has, or twice, through
\* every recovery; but for the handles that were out when the context was renewed, whose
\* numbers the new context may give again (GetSession, ReturnSession, reLogin).
THEOREM NoSessionShared == ASSUME SP!PoolAssumption PROVE SP!Spec => []SP!SessionsNotShared
<1>1. SessionInv => SP!SessionsNotShared
  BY DEF SessionInv
<1> QED
  BY <1>1, SessionInvariance, PTL

\* The pool has no handle that the context there is has not given: a recovery leaves none
\* behind, and none of the context before gets in that the context does not know
\* (ReturnSession, disposePKCS11Ctx).
THEOREM PooledIsOfContext == ASSUME SP!PoolAssumption PROVE SP!Spec => []SP!PoolOfThisContext
<1>1. SessionInv => SP!PoolOfThisContext
  BY DEF SessionInv
<1> QED
  BY <1>1, SessionInvariance, PTL
(***************************************************************************)
(* The certificate pool: what is in the pool was queued, and whatever is   *)
(* not yet in it is marked or on its way.                                  *)
(***************************************************************************)

Elements(s) == {s[i] : i \in DOMAIN s}
Brought == UNION {Brings[a] : a \in Adders}

\* An adder stores what it brought, and a slice of certificates is finite.
AddsBrought ==
  /\ toAdd \in [Adders -> SUBSET Brought]
  /\ \A a \in Adders : IsFiniteSet(toAdd[a])

CertInv == CP!TypeOK /\ AddsBrought /\ CP!NothingForgotten

-----------------------------------------------------------------------------
\* What is finite, and how many there are, is the same inside the instance.
LEMMA SameFinite ==
  ASSUME NEW S
  PROVE  CP!IsFiniteSet(S) = IsFiniteSet(S)
  BY DEF CP!IsFiniteSet, IsFiniteSet

LEMMA SameSize ==
  ASSUME NEW S
  PROVE  CP!Cardinality(S) = Cardinality(S)
  BY DEF CP!Cardinality, Cardinality

\* What is appended to a sequence is found in it beside what was there.
LEMMA AppendedIsIn ==
  ASSUME NEW S, NEW s \in Seq(S), NEW t \in Seq(S)
  PROVE  Elements(s \o t) = Elements(s) \cup Elements(t)
<1> DEFINE u == s \o t
<1>1. /\ Len(u) = Len(s) + Len(t) /\ Len(s) \in Nat /\ Len(t) \in Nat
      /\ DOMAIN s = 1 .. Len(s) /\ DOMAIN t = 1 .. Len(t) /\ DOMAIN u = 1 .. Len(u)
      /\ \A i \in 1 .. Len(s) : u[i] = s[i]
      /\ \A i \in 1 .. Len(t) : u[Len(s) + i] = t[i]
  OBVIOUS
<1> HIDE DEF u
<1>2. ASSUME NEW i \in DOMAIN u
      PROVE  u[i] \in Elements(s) \cup Elements(t)
  <2>1. CASE i \in 1 .. Len(s)
    BY <1>1, <2>1 DEF Elements
  <2>2. CASE i \notin 1 .. Len(s)
    <3>1. i - Len(s) \in 1 .. Len(t) /\ i = Len(s) + (i - Len(s))
      BY <1>1, <1>2, <2>2
    <3> QED
      BY <1>1, <3>1 DEF Elements
  <2> QED
    BY <2>1, <2>2
<1>3. ASSUME NEW j \in DOMAIN s
      PROVE  j \in DOMAIN u /\ u[j] = s[j]
  BY <1>1
<1>4. ASSUME NEW j \in DOMAIN t
      PROVE  Len(s) + j \in DOMAIN u /\ u[Len(s) + j] = t[j]
  BY <1>1
<1>5. Elements(u) \subseteq Elements(s) \cup Elements(t)
  BY <1>2 DEF Elements
<1>6. Elements(s) \subseteq Elements(u) /\ Elements(t) \subseteq Elements(u)
  BY <1>3, <1>4 DEF Elements
<1> QED
  BY <1>5, <1>6 DEF u

LEMMA InitCertInv ==
  ASSUME CP!CertAssumption, CP!Init
  PROVE  CertInv
<1>1. CP!Queued = {}
  BY DEF CP!Queued, CP!Init
<1>2. CP!TypeOK
  <2>1. queue \in Seq(Brought)
    BY DEF CP!Init
  <2>2. certPool \subseteq CP!Queued /\ dirty \in BOOLEAN /\ loads \in 0 .. MaxFailures
    <3>1. MaxFailures \in Nat
      BY DEF CP!CertAssumption
    <3>2. certPool = {} /\ dirty = FALSE /\ loads = 0
      BY DEF CP!Init
    <3>3. loads \in 0 .. MaxFailures
      BY ONLY <3>1, <3>2
    <3>4. certPool \subseteq CP!Queued
      BY ONLY <3>2
    <3>5. dirty \in BOOLEAN
      BY ONLY <3>2
    <3> QED
      BY <3>3, <3>4, <3>5
  <2>3. /\ adder \in [Adders -> {"filter", "store", "done"}]
        /\ reader \in [Readers -> {"idle", "load", "swap", "read"}]
    BY DEF CP!Init
  <2> QED
    BY <2>1, <2>2, <2>3 DEF CP!TypeOK, Brought
<1>3. AddsBrought
  <2>1. IsFiniteSet({})
    BY FS_EmptySet
  <2> QED
    BY <2>1 DEF CP!Init, AddsBrought
<1>4. CP!NothingForgotten
  BY <1>1 DEF CP!Init, CP!NothingForgotten
<1> QED
  BY <1>2, <1>3, <1>4 DEF CertInv

\* Store puts what it has found to be new at the end of the queue.
LEMMA StoreCerts ==
  ASSUME CP!CertAssumption, CertInv, NEW a \in Adders, CP!Store(a)
  PROVE  CertInv'
<1>1. PICK new \in [1 .. Cardinality(toAdd[a]) -> toAdd[a]] :
        queue' = queue \o new /\ dirty' = (dirty \/ new # <<>>)
  BY SameSize DEF CP!Store, CP!Marks
<1> USE DEF CertInv, CP!TypeOK, AddsBrought
<1>2. Cardinality(toAdd[a]) \in Nat
  BY FS_CardinalityType
<1>3. new \in Seq(Brought)
  <2>1. toAdd[a] \subseteq Brought
    OBVIOUS
  <2>2. new \in [1 .. Cardinality(toAdd[a]) -> Brought]
    BY <2>1
  <2> QED
    BY <1>2, <2>2
<1>4. queue \in Seq(Brought)
  BY DEF Brought
<1>5. queue' \in Seq(Brought)
  BY <1>1, <1>3, <1>4
<1>6. CP!Queued' = CP!Queued \cup Elements(new)
  <2>1. CP!Queued = Elements(queue) /\ CP!Queued' = Elements(queue')
    BY DEF Elements, CP!Queued
  <2>2. Elements(queue \o new) = Elements(queue) \cup Elements(new)
    BY <1>3, <1>4, AppendedIsIn
  <2> QED
    BY ONLY <1>1, <2>1, <2>2
<1>7. UNCHANGED <<toAdd, reader, gets, due, certPool, loads>>
  BY DEF CP!Store, CP!getting
<1>8. CP!TypeOK'
  <2>1. adder' \in [Adders -> {"filter", "store", "done"}]
    BY DEF CP!Store
  <2>2. dirty' \in BOOLEAN
    BY <1>1
  <2> QED
    BY <1>5, <1>6, <1>7, <2>1, <2>2 DEF Brought
<1>9. CP!NothingForgotten'
  <2>1. CASE new = <<>>
    <3>1. CP!Queued' = CP!Queued /\ dirty' = dirty
      BY <1>1, <1>6, <2>1 DEF Elements
    <3> QED
      BY <1>7, <3>1 DEF CP!NothingForgotten
  <2>2. CASE new # <<>>
    BY <1>1, <2>2 DEF CP!NothingForgotten
  <2> QED
    BY <2>1, <2>2
<1> QED
  BY <1>7, <1>8, <1>9

\* A Get that takes the mark goes on to swap the pool, or to fail.
LEMMA NextCertInv ==
  ASSUME CP!CertAssumption, CertInv, [CP!Next]_(CP!vars)
  PROVE  CertInv'
<1> USE DEF CertInv, CP!TypeOK, AddsBrought, CP!Goes, CP!adding, CP!getting
<1>1. ASSUME NEW a \in Adders, CP!FilterCerts(a)
      PROVE  CertInv'
  <2>1. CP!Queued' = CP!Queued
    BY <1>1 DEF CP!FilterCerts, CP!Queued
  <2>2. Brings[a] \ CP!Queued \subseteq Brought /\ IsFiniteSet(Brings[a] \ CP!Queued)
    <3>1. IsFiniteSet(Brings[a])
      BY SameFinite DEF CP!CertAssumption
    <3>2. IsFiniteSet(Brings[a] \ CP!Queued)
      BY <3>1, FS_Difference
    <3> QED
      BY <3>2 DEF Brought
  <2>3. AddsBrought'
    BY <1>1, <2>2 DEF CP!FilterCerts
  <2>4. CP!TypeOK' /\ CP!NothingForgotten'
    BY <1>1, <2>1 DEF CP!FilterCerts, CP!NothingForgotten
  <2> QED
    BY <2>3, <2>4
<1>2. ASSUME NEW a \in Adders, CP!Store(a)
      PROVE  CertInv'
  BY <1>2, StoreCerts
<1>3. ASSUME NEW g \in Readers, CP!CallGet(g)
      PROVE  CertInv'
  <2>1. CP!Queued' = CP!Queued
    BY <1>3 DEF CP!CallGet, CP!Queued
  <2>2. CP!TypeOK' /\ AddsBrought'
    BY <1>3, <2>1 DEF CP!CallGet
  <2>3. CASE dirty
    BY <1>3, <2>2, <2>3 DEF CP!CallGet, CP!NothingForgotten
  <2>4. CASE ~dirty
    <3>1. \A h \in Readers : reader[h] \in {"load", "swap"} => reader'[h] = reader[h]
      BY <1>3 DEF CP!CallGet
    <3> QED
      BY <1>3, <2>1, <2>2, <2>4, <3>1 DEF CP!CallGet, CP!NothingForgotten
  <2> QED
    BY <2>2, <2>3, <2>4
<1>4. ASSUME NEW g \in Readers, CP!Load(g)
      PROVE  CertInv'
  <2>1. CP!Queued' = CP!Queued
    BY <1>4 DEF CP!Load, CP!Queued
  <2>2. loads \in Nat /\ loads' \in 0 .. MaxFailures
    BY <1>4 DEF CP!Load, CP!CertAssumption
  <2>3. CP!TypeOK' /\ AddsBrought'
    BY <1>4, <2>1, <2>2 DEF CP!Load
  <2>4. CASE reader' = [reader EXCEPT ![g] = "swap"]
    BY <2>3, <2>4 DEF CP!NothingForgotten
  <2>5. CASE loads' = loads + 1
    BY <2>2, <2>3, <2>5 DEF CP!NothingForgotten
  <2> QED
    BY <1>4, <2>3, <2>4, <2>5 DEF CP!Load
<1>5. ASSUME NEW g \in Readers, CP!Swap(g)
      PROVE  CertInv'
  <2>1. CP!Queued' = CP!Queued /\ certPool' = CP!Queued
    BY <1>5 DEF CP!Swap, CP!Queued
  <2> QED
    BY <1>5, <2>1 DEF CP!Swap, CP!NothingForgotten
<1>6. ASSUME NEW g \in Readers, CP!Read(g)
      PROVE  CertInv'
  <2>1. CP!Queued' = CP!Queued
    BY <1>6 DEF CP!Read, CP!Queued
  <2>2. \A h \in Readers : reader[h] \in {"load", "swap"} => reader'[h] = reader[h]
    BY <1>6 DEF CP!Read
  <2>3. CP!TypeOK' /\ AddsBrought'
    BY <1>6, <2>1 DEF CP!Read
  <2>4. CP!NothingForgotten'
    BY <1>6, <2>1, <2>2 DEF CP!Read, CP!NothingForgotten
  <2> QED
    BY <2>3, <2>4
<1>7. CASE UNCHANGED CP!vars
  BY <1>7 DEF CP!vars, CP!Queued, CP!NothingForgotten
<1> QED
  BY <1>1, <1>2, <1>3, <1>4, <1>5, <1>6, <1>7 DEF CP!Next

LEMMA CertInvariance == ASSUME CP!CertAssumption PROVE CP!Spec => []CertInv
<1>1. CP!Init => CertInv
  BY InitCertInv
<1>2. CertInv /\ [CP!Next]_(CP!vars) => CertInv'
  BY NextCertInv
<1> QED
  BY <1>1, <1>2, PTL DEF CP!Spec

-----------------------------------------------------------------------------
\* A certificate that was added is in the pool, or a Get will put it there, or one has
\* failed for want of the system's pool (certpool.go: Add, Get, swapCertPool).
THEOREM NoCertForgotten == ASSUME CP!CertAssumption PROVE CP!Spec => []CP!NothingForgotten
<1>1. CertInv => CP!NothingForgotten
  BY DEF CertInv
<1> QED
  BY <1>1, CertInvariance, PTL

(***************************************************************************)
(* The gateways: the default suite is set once, and the channel of a       *)
(* transaction's event is told by the handler that had it.                 *)
(***************************************************************************)

Suites == {"ephemeral", "sdk"} \X Apps
AppPlaces == {"idle", "write", "makedefault", "key", "config", "setdefault", "initsuite",
              "providers", "connected", "network", "left"}
App == [at : AppPlaces, label : Labels \cup {None}, id : Ids \cup {0, None},
        keys : Suites \cup {None}, own : Suites \cup {None}, sdk : {"none", "open"},
        closed : BOOLEAN, result : {None, "put", "error", "already set"}]
Process == [suite : Suites \cup {None}, known : BOOLEAN]
WalletFile == {<<>>} \cup ((Ids \cup {0}) \X Nat)
Handler == [at : {"runs", "valid", "failed", "panic"}, ch : Nat]

\* A process p knows a suite once it has one, and an application r fits it: who imports a
\* key has found or made the default suite, and who sets it has one.
Known(p) == p \in Process /\ (p.known <=> p.suite # None)
Fits(r, p) ==
  /\ r \in App
  /\ r.at = "write" => r.id \in Ids
  /\ r.at = "key" => p.known
  /\ r.at \in {"setdefault", "initsuite"} => r.own \in Suites
  /\ r.keys # None => r.keys = p.suite
AppsFit ==
  /\ Known(process)
  /\ DOMAIN apps = Apps /\ apps = [a \in Apps |-> apps[a]]
  /\ \A a \in Apps : Fits(apps[a], process)

WalletShape == wallet \in [Labels -> WalletFile]
TxnShape ==
  txn \in [owner : Apps \cup {None}, ch : Nat, told : Seq(Nat), handlers : Seq(Handler),
           result : {None, "waits", "ok", "error", "timeout"}]

\* A handler that has succeeded has told its channel, and a success is that of the last.
TellsItsChannel ==
  /\ txn.ch \in 0 .. Len(txn.told)
  /\ \A h \in 1 .. Len(txn.handlers) :
       /\ txn.handlers[h].ch \in 0 .. Len(txn.told)
       /\ txn.handlers[h].at = "valid" /\ txn.handlers[h].ch # 0 =>
            txn.told[txn.handlers[h].ch] = h
  /\ txn.result = "ok" =>
       Len(txn.handlers) # 0 /\ txn.handlers[Len(txn.handlers)].at = "valid"

GatewayInv == AppsFit /\ WalletShape /\ TxnShape /\ TellsItsChannel

-----------------------------------------------------------------------------
\* An application that has nothing, as it is at first and after a failure.
LEMMA NoAppFits ==
  ASSUME NEW p, NEW s \in AppPlaces \ {"write", "key", "setdefault", "initsuite"},
         NEW l \in Labels \cup {None}, NEW i \in Ids \cup {0, None},
         NEW x \in {None, "put", "error", "already set"}
  PROVE  Fits([GW!NoApp EXCEPT !.at = s, !.label = l, !.id = i, !.result = x], p)
BY DEF Fits, GW!NoApp, App

LEMMA InitGatewayInv ==
  ASSUME GW!GatewayAssumption, GW!Init
  PROVE  GatewayInv
<1>1. AppsFit
  <2>1. Known(process)
    BY DEF GW!Init, Known, Process
  <2>2. Fits(GW!NoApp, process)
    BY DEF Fits, GW!NoApp, App, AppPlaces
  <2> QED
    BY <2>1, <2>2 DEF GW!Init, AppsFit
<1>2. WalletShape
  BY DEF GW!Init, WalletShape, WalletFile
<1>3. TxnShape
  BY DEF GW!Init, TxnShape
<1>4. TellsItsChannel
  BY DEF GW!Init, TellsItsChannel, GW!GatewayAssumption
<1> QED
  BY <1>1, <1>2, <1>3, <1>4 DEF GatewayInv

\* What a Get finds in a file, and what a Put leaves there.
LEMMA FileShape ==
  ASSUME Ids \subseteq Nat, NEW f \in WalletFile, NEW id \in Ids
  PROVE  GW!Opened(f) \in WalletFile /\ GW!Written(f, id) \in WalletFile
<1> USE DEF GW!Opened, GW!Written, GW!Length
<1>1. CASE f = <<>>
  BY <1>1 DEF WalletFile
<1>2. CASE f \in (Ids \cup {0}) \X Nat
  <2>1. PICK i \in Ids \cup {0}, n \in Nat : f = <<i, n>>
    BY ONLY <1>2
  <2>2. GW!Length(f) \in Nat
    BY <2>1
  <2>3. <<id, IF GW!Length(f) > id THEN GW!Length(f) - id ELSE 0>> \in (Ids \cup {0}) \X Nat
    BY <2>2
  <2>4. f # <<>>
    BY <2>1
  <2> QED
    BY <1>2, <2>3, <2>4 DEF WalletFile
<1> QED
  BY <1>1, <1>2 DEF WalletFile

LEMMA FoundShape ==
  ASSUME NEW f \in WalletFile, GW!Readable(f)
  PROVE  f[1] \in Ids \cup {0}
BY DEF WalletFile, GW!Readable

\* A process that has a default suite keeps it; what fits goes on to.
LEMMA StillFits ==
  ASSUME NEW p, NEW q, Known(p), Known(q), q = p \/ ~p.known, NEW r, Fits(r, p)
  PROVE  Fits(r, q)
BY DEF Known, Fits

\* A step of one application, and maybe of the process.
LEMMA OneAppFits ==
  ASSUME AppsFit, NEW a \in Apps, NEW r, Fits(r, process'), apps' = [apps EXCEPT ![a] = r],
         Known(process'), process' = process \/ ~process.known
  PROVE  AppsFit'
<1>1. \A b \in Apps : apps'[b] = IF b = a THEN r ELSE apps[b]
  BY DEF AppsFit
<1>2. \A b \in Apps : Fits(apps[b], process')
  BY StillFits DEF AppsFit
<1>3. DOMAIN apps' = Apps /\ apps' = [b \in Apps |-> apps'[b]]
  BY DEF AppsFit
<1>4. \A b \in Apps : Fits(apps'[b], process')
  BY <1>1, <1>2
<1> QED
  BY <1>3, <1>4 DEF AppsFit

\* The default suite stays the one it was set to, and the keys are its keys.
LEMMA AppsStep ==
  ASSUME GW!GatewayAssumption, AppsFit, WalletShape, [GW!Next]_(GW!vars)
  PROVE  AppsFit'
<1>1. ASSUME NEW a \in Apps, NEW l \in Labels, NEW id \in Ids, GW!PutOpen(a, l, id)
      PROVE  AppsFit'
  <2> DEFINE r == [apps[a] EXCEPT !.at = "write", !.label = l, !.id = id]
  <2>1. apps' = [apps EXCEPT ![a] = r] /\ process' = process
    BY <1>1 DEF GW!PutOpen, GW!To, GW!Fails, AppsFit
  <2>2. Fits(apps[a], process) /\ GW!PutOpen(a, l, id)
    BY <1>1 DEF AppsFit
  <2>3. Fits(r, process)
    BY <2>2 DEF Fits, App, AppPlaces, GW!At, GW!NoApp, GW!PutOpen
  <2> HIDE DEF r
  <2> QED
    BY <2>1, <2>3, OneAppFits DEF AppsFit
<1>2. ASSUME NEW a \in Apps, NEW l \in Labels, GW!Remove(a, l)
      PROVE  AppsFit'
  <2>1. \A b \in Apps : apps'[b] = apps[b] \/ apps'[b] = [apps[b] EXCEPT !.label = None]
    BY <1>2 DEF GW!Remove
  <2>2. \A b \in Apps : Fits(apps[b], process)
    BY DEF AppsFit
  <2>3. ASSUME NEW b \in Apps
        PROVE  Fits([apps[b] EXCEPT !.label = None], process)
    BY <2>2 DEF Fits, App
  <2>4. process' = process /\ DOMAIN apps' = Apps /\ apps' = [b \in Apps |-> apps'[b]]
    BY <1>2 DEF GW!Remove
  <2>5. \A b \in Apps : Fits(apps'[b], process)
    BY <2>1, <2>2, <2>3
  <2> QED
    BY <2>4, <2>5 DEF AppsFit
<1>3. ASSUME NEW a \in Apps, NEW l \in Labels, GW!ConnectWithIdentity(a, l)
      PROVE  AppsFit'
  <2>1. Known(process) /\ wallet[l] \in WalletFile
    BY DEF AppsFit, WalletShape
  <2>2. CASE GW!Readable(wallet[l])
    <3> DEFINE s == IF process.known THEN "key" ELSE "makedefault"
               i == wallet[l][1]
               r == [GW!NoApp EXCEPT !.label = l, !.id = i, !.at = s]
    <3>1. apps' = [apps EXCEPT ![a] = r] /\ process' = process
      BY <1>3, <2>2 DEF GW!ConnectWithIdentity
    <3>2. s \in {"key", "makedefault"} /\ (s = "key" => process.known)
      OBVIOUS
    <3>3. i \in Ids \cup {0}
      BY <2>1, <2>2, FoundShape
    <3> HIDE DEF s, i
    <3>4. Fits(r, process)
      BY <3>2, <3>3 DEF Fits, App, AppPlaces, GW!NoApp
    <3> HIDE DEF r
    <3> QED
      BY <2>1, <3>1, <3>4, OneAppFits
  <2>3. CASE ~GW!Readable(wallet[l])
    <3> DEFINE r == [GW!NoApp EXCEPT !.result = "error"]
    <3>1. apps' = [apps EXCEPT ![a] = r] /\ process' = process
      BY <1>3, <2>3 DEF GW!ConnectWithIdentity, GW!Fails
    <3>2. Fits(r, process)
      BY DEF Fits, App, AppPlaces, GW!NoApp
    <3> HIDE DEF r
    <3> QED
      BY <2>1, <3>1, <3>2, OneAppFits
  <2> QED
    BY <2>2, <2>3
<1>4. ASSUME NEW a \in Apps, GW!PutWrite(a)
      PROVE  AppsFit'
  <2> DEFINE r == [GW!NoApp EXCEPT !.result = "put"]
  <2>1. apps' = [apps EXCEPT ![a] = r] /\ process' = process
    BY <1>4 DEF GW!PutWrite, GW!To, GW!Fails, AppsFit
  <2>2. Fits(apps[a], process) /\ GW!PutWrite(a)
    BY <1>4 DEF AppsFit
  <2>3. Fits(r, process)
    BY <2>2 DEF Fits, App, AppPlaces, GW!At, GW!NoApp, GW!PutWrite
  <2> HIDE DEF r
  <2> QED
    BY <2>1, <2>3, OneAppFits DEF AppsFit
<1>5. ASSUME NEW a \in Apps, GW!MakeDefault(a)
      PROVE  AppsFit'
  <2> DEFINE r == [apps[a] EXCEPT !.at = "key"]
  <2>1. apps' = [apps EXCEPT ![a] = r]
    BY <1>5 DEF GW!MakeDefault, GW!To, AppsFit
  <2>2. Fits(apps[a], process) /\ GW!MakeDefault(a) /\ Known(process)
    BY <1>5 DEF AppsFit
  <2>3. Known(process') /\ (process' = process \/ ~process.known) /\ process'.known
    <3> DEFINE s == GW!EphemeralSuite(a)
    <3>1. s \in Suites /\ s # None
      BY <2>2 DEF Suites, GW!EphemeralSuite, GW!GatewayAssumption, Fits, GW!At, GW!MakeDefault
    <3>2. process' = IF process.known THEN process ELSE [suite |-> s, known |-> TRUE]
      BY <2>2 DEF GW!MakeDefault, GW!InitSuite
    <3> HIDE DEF s
    <3> QED
      BY <2>2, <3>1, <3>2 DEF Known, Process
  <2>4. Fits(apps[a], process')
    BY <2>2, <2>3, StillFits
  <2>5. Fits(r, process')
    BY <2>3, <2>4 DEF Fits, App, AppPlaces
  <2> HIDE DEF r
  <2> QED
    BY <2>1, <2>3, <2>5, OneAppFits
<1>6. ASSUME NEW a \in Apps, GW!ImportKey(a)
      PROVE  AppsFit'
  <2> DEFINE r == [apps[a] EXCEPT !.keys = process.suite, !.at = "config"]
  <2>1. apps' = [apps EXCEPT ![a] = r] /\ process' = process
    BY <1>6 DEF GW!ImportKey, GW!To, GW!Fails, AppsFit
  <2>2. Fits(apps[a], process) /\ GW!ImportKey(a)
    BY <1>6 DEF AppsFit
  <2>0. Known(process)
    BY DEF AppsFit
  <2>3. Fits(r, process)
    BY <2>2, <2>0 DEF Fits, App, AppPlaces, GW!At, GW!NoApp, GW!ImportKey, Process, Known
  <2> HIDE DEF r
  <2> QED
    BY <2>1, <2>3, OneAppFits DEF AppsFit
<1>7. ASSUME NEW a \in Apps, GW!ConnectWithUser(a)
      PROVE  AppsFit'
  <2> DEFINE r == [GW!NoApp EXCEPT !.at = "config"]
  <2>1. apps' = [apps EXCEPT ![a] = r] /\ process' = process
    BY <1>7 DEF GW!ConnectWithUser, GW!To, GW!Fails, AppsFit
  <2>2. Fits(apps[a], process) /\ GW!ConnectWithUser(a)
    BY <1>7 DEF AppsFit
  <2>3. Fits(r, process)
    BY <2>2 DEF Fits, App, AppPlaces, GW!At, GW!NoApp, GW!ConnectWithUser
  <2> HIDE DEF r
  <2> QED
    BY <2>1, <2>3, OneAppFits DEF AppsFit
<1>8. ASSUME NEW a \in Apps, GW!CreateSuite(a)
      PROVE  AppsFit'
  <2>0. <<"sdk", a>> \in Suites
    BY DEF Suites
  <2>1. Fits(apps[a], process) /\ GW!CreateSuite(a)
    BY <1>8 DEF AppsFit
  <2>2. CASE apps' = [apps EXCEPT ![a] = [apps[a] EXCEPT !.own = <<"sdk", a>>,
           !.at = IF process.known THEN "providers" ELSE "setdefault"]]
    <3> DEFINE r == [apps[a] EXCEPT !.own = <<"sdk", a>>,
           !.at = IF process.known THEN "providers" ELSE "setdefault"]
    <3>1. process' = process
      BY <2>1 DEF GW!CreateSuite
    <3>2. Fits(r, process)
      BY <2>1, <2>2, <2>0 DEF Fits, App, AppPlaces, GW!At, GW!NoApp, GW!CreateSuite
    <3> HIDE DEF r
    <3> QED
      BY <2>2, <3>1, <3>2, OneAppFits DEF AppsFit, r
  <2>3. CASE apps' = [apps EXCEPT ![a] = [GW!NoApp EXCEPT !.result = "error"]]
    <3> DEFINE r == [GW!NoApp EXCEPT !.result = "error"]
    <3>1. process' = process
      BY <2>1 DEF GW!CreateSuite
    <3>2. Fits(r, process)
      BY <2>1, <2>3, <2>0 DEF Fits, App, AppPlaces, GW!At, GW!NoApp, GW!CreateSuite
    <3> HIDE DEF r
    <3> QED
      BY <2>3, <3>1, <3>2, OneAppFits DEF AppsFit, r
  <2> QED
    BY <2>1, <2>2, <2>3 DEF GW!CreateSuite, GW!To, GW!Fails, AppsFit
<1>9. ASSUME NEW a \in Apps, GW!SetDefault(a)
      PROVE  AppsFit'
  <2>1. Fits(apps[a], process) /\ GW!SetDefault(a)
    BY <1>9 DEF AppsFit
  <2>2. CASE apps' = [apps EXCEPT ![a] = [GW!NoApp EXCEPT !.result = "already set"]]
    <3> DEFINE r == [GW!NoApp EXCEPT !.result = "already set"]
    <3>1. process' = process
      BY <2>1 DEF GW!SetDefault
    <3>2. Fits(r, process)
      BY <2>1, <2>2 DEF Fits, App, AppPlaces, GW!At, GW!NoApp, GW!SetDefault
    <3> HIDE DEF r
    <3> QED
      BY <2>2, <3>1, <3>2, OneAppFits DEF AppsFit, r
  <2>3. CASE apps' = [apps EXCEPT ![a] = [apps[a] EXCEPT !.at = "initsuite"]]
    <3> DEFINE r == [apps[a] EXCEPT !.at = "initsuite"]
    <3>1. process' = process
      BY <2>1 DEF GW!SetDefault
    <3>2. Fits(r, process)
      BY <2>1, <2>3 DEF Fits, App, AppPlaces, GW!At, GW!NoApp, GW!SetDefault
    <3> HIDE DEF r
    <3> QED
      BY <2>3, <3>1, <3>2, OneAppFits DEF AppsFit, r
  <2> QED
    BY <2>1, <2>2, <2>3 DEF GW!SetDefault, GW!To, GW!Fails, AppsFit
<1>10. ASSUME NEW a \in Apps, GW!SetSuite(a)
      PROVE  AppsFit'
  <2> DEFINE r == [apps[a] EXCEPT !.at = "providers"]
  <2>1. apps' = [apps EXCEPT ![a] = r]
    BY <1>10 DEF GW!SetSuite, GW!To, AppsFit
  <2>2. Fits(apps[a], process) /\ GW!SetSuite(a) /\ Known(process)
    BY <1>10 DEF AppsFit
  <2>3. Known(process') /\ (process' = process \/ ~process.known) /\ process'.known
    <3> DEFINE s == apps[a].own
    <3>1. s \in Suites /\ s # None
      BY <2>2 DEF Suites, GW!EphemeralSuite, GW!GatewayAssumption, Fits, GW!At, GW!SetSuite
    <3>2. process' = IF process.known THEN process ELSE [suite |-> s, known |-> TRUE]
      BY <2>2 DEF GW!SetSuite, GW!InitSuite
    <3> HIDE DEF s
    <3> QED
      BY <2>2, <3>1, <3>2 DEF Known, Process
  <2>4. Fits(apps[a], process')
    BY <2>2, <2>3, StillFits
  <2>5. Fits(r, process')
    BY <2>3, <2>4 DEF Fits, App, AppPlaces
  <2> HIDE DEF r
  <2> QED
    BY <2>1, <2>3, <2>5, OneAppFits
<1>11. ASSUME NEW a \in Apps, GW!Assemble(a)
      PROVE  AppsFit'
  <2>1. Fits(apps[a], process) /\ GW!Assemble(a)
    BY <1>11 DEF AppsFit
  <2>2. CASE apps' = [apps EXCEPT ![a] = [apps[a] EXCEPT !.sdk = "open", !.at = "connected"]]
    <3> DEFINE r == [apps[a] EXCEPT !.sdk = "open", !.at = "connected"]
    <3>1. process' = process
      BY <2>1 DEF GW!Assemble
    <3>2. Fits(r, process)
      BY <2>1, <2>2 DEF Fits, App, AppPlaces, GW!At, GW!NoApp, GW!Assemble
    <3> HIDE DEF r
    <3> QED
      BY <2>2, <3>1, <3>2, OneAppFits DEF AppsFit, r
  <2>3. CASE apps' = [apps EXCEPT ![a] = [GW!NoApp EXCEPT !.result = "error"]]
    <3> DEFINE r == [GW!NoApp EXCEPT !.result = "error"]
    <3>1. process' = process
      BY <2>1 DEF GW!Assemble
    <3>2. Fits(r, process)
      BY <2>1, <2>3 DEF Fits, App, AppPlaces, GW!At, GW!NoApp, GW!Assemble
    <3> HIDE DEF r
    <3> QED
      BY <2>3, <3>1, <3>2, OneAppFits DEF AppsFit, r
  <2> QED
    BY <2>1, <2>2, <2>3 DEF GW!Assemble, GW!To, GW!Fails, AppsFit
<1>12. ASSUME NEW a \in Apps, GW!GetNetwork(a)
      PROVE  AppsFit'
  <2>1. Fits(apps[a], process) /\ GW!GetNetwork(a)
    BY <1>12 DEF AppsFit
  <2>2. CASE apps' = [apps EXCEPT ![a] = [apps[a] EXCEPT !.at = "network"]]
    <3> DEFINE r == [apps[a] EXCEPT !.at = "network"]
    <3>1. process' = process
      BY <2>1 DEF GW!GetNetwork
    <3>2. Fits(r, process)
      BY <2>1, <2>2 DEF Fits, App, AppPlaces, GW!At, GW!NoApp, GW!GetNetwork
    <3> HIDE DEF r
    <3> QED
      BY <2>2, <3>1, <3>2, OneAppFits DEF AppsFit, r
  <2>3. CASE apps' = [apps EXCEPT ![a] = apps[a]]
    <3> DEFINE r == apps[a]
    <3>1. process' = process
      BY <2>1 DEF GW!GetNetwork
    <3>2. Fits(r, process)
      BY <2>1, <2>3 DEF Fits, App, AppPlaces, GW!At, GW!NoApp, GW!GetNetwork
    <3> HIDE DEF r
    <3> QED
      BY <2>3, <3>1, <3>2, OneAppFits DEF AppsFit, r
  <2> QED
    BY <2>1, <2>2, <2>3 DEF GW!GetNetwork, GW!To, GW!Fails, AppsFit
<1>13. ASSUME NEW a \in Apps, GW!Close(a)
      PROVE  AppsFit'
  <2> DEFINE r == [apps[a] EXCEPT !.closed = TRUE, !.at = "left"]
  <2>1. apps' = [apps EXCEPT ![a] = r] /\ process' = process
    BY <1>13 DEF GW!Close, GW!To, GW!Fails, AppsFit
  <2>2. Fits(apps[a], process) /\ GW!Close(a)
    BY <1>13 DEF AppsFit
  <2>3. Fits(r, process)
    BY <2>2 DEF Fits, App, AppPlaces, GW!At, GW!NoApp, GW!Close
  <2> HIDE DEF r
  <2> QED
    BY <2>1, <2>3, OneAppFits DEF AppsFit
<1>14. ASSUME NEW a \in Apps, GW!CreateTransaction(a)
      PROVE  AppsFit'
  BY <1>14 DEF GW!CreateTransaction, AppsFit
<1>15. ASSUME GW!RegisterCommitEvent
      PROVE  AppsFit'
  BY <1>15 DEF GW!RegisterCommitEvent, AppsFit
<1>16. ASSUME GW!Submit
      PROVE  AppsFit'
  BY <1>16 DEF GW!Submit, AppsFit
<1>17. ASSUME NEW h \in DOMAIN txn.handlers, GW!Handle(h)
      PROVE  AppsFit'
  BY <1>17 DEF GW!Handle, AppsFit
<1>18. ASSUME NEW h \in DOMAIN txn.handlers, GW!Returns(h)
      PROVE  AppsFit'
  BY <1>18 DEF GW!Returns, AppsFit
<1>19. ASSUME NEW h \in DOMAIN txn.handlers, GW!TimesOut(h)
      PROVE  AppsFit'
  BY <1>19 DEF GW!TimesOut, AppsFit
<1>20. CASE UNCHANGED GW!vars
  BY <1>20 DEF GW!vars, AppsFit
<1> QED
  BY <1>1, <1>2, <1>3, <1>4, <1>5, <1>6, <1>7, <1>8, <1>9, <1>10, <1>11,
     <1>12, <1>13, <1>14, <1>15, <1>16, <1>17, <1>18, <1>19, <1>20
  DEF GW!Next

\* A file holds what was written to it.
LEMMA WalletStep ==
  ASSUME GW!GatewayAssumption, AppsFit, WalletShape, [GW!Next]_(GW!vars)
  PROVE  WalletShape'
<1> USE DEF WalletShape
<1>1. ASSUME NEW a \in Apps, NEW l \in Labels, NEW id \in Ids, GW!PutOpen(a, l, id)
      PROVE  WalletShape'
  <2>1. GW!Opened(wallet[l]) \in WalletFile
    BY FileShape DEF GW!GatewayAssumption
  <2> QED
    BY <1>1, <2>1 DEF GW!PutOpen
<1>2. ASSUME NEW a \in Apps, NEW l \in Labels, GW!Remove(a, l)
      PROVE  WalletShape'
  <2>1. <<>> \in WalletFile
    BY DEF WalletFile
  <2> QED
    BY <1>2, <2>1 DEF GW!Remove
<1>3. ASSUME NEW a \in Apps, NEW l \in Labels, GW!ConnectWithIdentity(a, l)
      PROVE  WalletShape'
  BY <1>3 DEF GW!ConnectWithIdentity
<1>4. ASSUME NEW a \in Apps, GW!PutWrite(a)
      PROVE  WalletShape'
  <2>1. apps[a].label \in Labels \cup {None} /\ apps[a].id \in Ids
    BY <1>4 DEF GW!PutWrite, GW!At, AppsFit, Fits, App
  <2>2. \A l \in Labels : GW!Written(wallet[l], apps[a].id) \in WalletFile
    BY <2>1, FileShape DEF GW!GatewayAssumption
  <2> QED
    BY <1>4, <2>1, <2>2 DEF GW!PutWrite
<1>5. ASSUME NEW a \in Apps, GW!MakeDefault(a)
      PROVE  WalletShape'
  BY <1>5 DEF GW!MakeDefault
<1>6. ASSUME NEW a \in Apps, GW!ImportKey(a)
      PROVE  WalletShape'
  BY <1>6 DEF GW!ImportKey
<1>7. ASSUME NEW a \in Apps, GW!ConnectWithUser(a)
      PROVE  WalletShape'
  BY <1>7 DEF GW!ConnectWithUser
<1>8. ASSUME NEW a \in Apps, GW!CreateSuite(a)
      PROVE  WalletShape'
  BY <1>8 DEF GW!CreateSuite
<1>9. ASSUME NEW a \in Apps, GW!SetDefault(a)
      PROVE  WalletShape'
  BY <1>9 DEF GW!SetDefault
<1>10. ASSUME NEW a \in Apps, GW!SetSuite(a)
      PROVE  WalletShape'
  BY <1>10 DEF GW!SetSuite
<1>11. ASSUME NEW a \in Apps, GW!Assemble(a)
      PROVE  WalletShape'
  BY <1>11 DEF GW!Assemble
<1>12. ASSUME NEW a \in Apps, GW!GetNetwork(a)
      PROVE  WalletShape'
  BY <1>12 DEF GW!GetNetwork
<1>13. ASSUME NEW a \in Apps, GW!Close(a)
      PROVE  WalletShape'
  BY <1>13 DEF GW!Close
<1>14. ASSUME NEW a \in Apps, GW!CreateTransaction(a)
      PROVE  WalletShape'
  BY <1>14 DEF GW!CreateTransaction
<1>15. ASSUME GW!RegisterCommitEvent
      PROVE  WalletShape'
  BY <1>15 DEF GW!RegisterCommitEvent
<1>16. ASSUME GW!Submit
      PROVE  WalletShape'
  BY <1>16 DEF GW!Submit
<1>17. ASSUME NEW h \in DOMAIN txn.handlers, GW!Handle(h)
      PROVE  WalletShape'
  BY <1>17 DEF GW!Handle
<1>18. ASSUME NEW h \in DOMAIN txn.handlers, GW!Returns(h)
      PROVE  WalletShape'
  BY <1>18 DEF GW!Returns
<1>19. ASSUME NEW h \in DOMAIN txn.handlers, GW!TimesOut(h)
      PROVE  WalletShape'
  BY <1>19 DEF GW!TimesOut
<1>20. CASE UNCHANGED GW!vars
  BY <1>20 DEF GW!vars
<1> QED
  BY <1>1, <1>2, <1>3, <1>4, <1>5, <1>6, <1>7, <1>8, <1>9, <1>10, <1>11,
     <1>12, <1>13, <1>14, <1>15, <1>16, <1>17, <1>18, <1>19, <1>20
  DEF GW!Next

\* A handler ends, and the others stay as they are.
LEMMA EndsOne ==
  ASSUME TxnShape, NEW h \in DOMAIN txn.handlers, NEW s \in {"valid", "failed", "panic"}
  PROVE  LET hs == GW!Ends(h, s).handlers
         IN  /\ GW!Ends(h, s) = [txn EXCEPT !.handlers = hs]
             /\ hs \in Seq(Handler) /\ Len(hs) = Len(txn.handlers)
             /\ \A i \in 1 .. Len(hs) :
                  /\ hs[i].ch = txn.handlers[i].ch
                  /\ hs[i].at = IF i = h THEN s ELSE txn.handlers[i].at
<1> DEFINE old == txn.handlers
           new == [old EXCEPT ![h].at = s]
<1>1. old \in Seq(Handler) /\ DOMAIN old = 1 .. Len(old) /\ Len(old) \in Nat
  BY DEF TxnShape
<1>2. old \in [1 .. Len(old) -> Handler] /\ h \in 1 .. Len(old)
  BY <1>1
<1>3. GW!Ends(h, s) = [txn EXCEPT !.handlers = new] /\ GW!Ends(h, s).handlers = new
  BY DEF GW!Ends, TxnShape
<1> HIDE DEF old
<1>4. new \in [1 .. Len(old) -> Handler]
  BY <1>2 DEF Handler
<1>5. new \in Seq(Handler) /\ Len(new) = Len(old)
  BY <1>1, <1>4
<1>6. ASSUME NEW i \in 1 .. Len(old)
      PROVE  new[i].ch = old[i].ch /\ new[i].at = IF i = h THEN s ELSE old[i].at
  BY <1>2 DEF Handler
<1> HIDE DEF new
<1> QED
  BY <1>3, <1>5, <1>6 DEF old

\* A channel that was told is not told again, and numbers of channels only grow.
LEMMA TellStep ==
  ASSUME GW!GatewayAssumption, TxnShape, TellsItsChannel, [GW!Next]_(GW!vars)
  PROVE  TxnShape' /\ TellsItsChannel'
<1>1. ASSUME NEW a \in Apps, NEW l \in Labels, NEW id \in Ids, GW!PutOpen(a, l, id)
      PROVE  TxnShape' /\ TellsItsChannel'
  BY <1>1 DEF GW!PutOpen, TxnShape, TellsItsChannel
<1>2. ASSUME NEW a \in Apps, NEW l \in Labels, GW!Remove(a, l)
      PROVE  TxnShape' /\ TellsItsChannel'
  BY <1>2 DEF GW!Remove, TxnShape, TellsItsChannel
<1>3. ASSUME NEW a \in Apps, NEW l \in Labels, GW!ConnectWithIdentity(a, l)
      PROVE  TxnShape' /\ TellsItsChannel'
  BY <1>3 DEF GW!ConnectWithIdentity, TxnShape, TellsItsChannel
<1>4. ASSUME NEW a \in Apps, GW!PutWrite(a)
      PROVE  TxnShape' /\ TellsItsChannel'
  BY <1>4 DEF GW!PutWrite, TxnShape, TellsItsChannel
<1>5. ASSUME NEW a \in Apps, GW!MakeDefault(a)
      PROVE  TxnShape' /\ TellsItsChannel'
  BY <1>5 DEF GW!MakeDefault, TxnShape, TellsItsChannel
<1>6. ASSUME NEW a \in Apps, GW!ImportKey(a)
      PROVE  TxnShape' /\ TellsItsChannel'
  BY <1>6 DEF GW!ImportKey, TxnShape, TellsItsChannel
<1>7. ASSUME NEW a \in Apps, GW!ConnectWithUser(a)
      PROVE  TxnShape' /\ TellsItsChannel'
  BY <1>7 DEF GW!ConnectWithUser, TxnShape, TellsItsChannel
<1>8. ASSUME NEW a \in Apps, GW!CreateSuite(a)
      PROVE  TxnShape' /\ TellsItsChannel'
  BY <1>8 DEF GW!CreateSuite, TxnShape, TellsItsChannel
<1>9. ASSUME NEW a \in Apps, GW!SetDefault(a)
      PROVE  TxnShape' /\ TellsItsChannel'
  BY <1>9 DEF GW!SetDefault, TxnShape, TellsItsChannel
<1>10. ASSUME NEW a \in Apps, GW!SetSuite(a)
      PROVE  TxnShape' /\ TellsItsChannel'
  BY <1>10 DEF GW!SetSuite, TxnShape, TellsItsChannel
<1>11. ASSUME NEW a \in Apps, GW!Assemble(a)
      PROVE  TxnShape' /\ TellsItsChannel'
  BY <1>11 DEF GW!Assemble, TxnShape, TellsItsChannel
<1>12. ASSUME NEW a \in Apps, GW!GetNetwork(a)
      PROVE  TxnShape' /\ TellsItsChannel'
  BY <1>12 DEF GW!GetNetwork, TxnShape, TellsItsChannel
<1>13. ASSUME NEW a \in Apps, GW!Close(a)
      PROVE  TxnShape' /\ TellsItsChannel'
  BY <1>13 DEF GW!Close, TxnShape, TellsItsChannel
<1>14. ASSUME NEW a \in Apps, GW!CreateTransaction(a)
      PROVE  TxnShape' /\ TellsItsChannel'
  BY <1>14 DEF GW!CreateTransaction, TxnShape, TellsItsChannel
<1>15. ASSUME GW!RegisterCommitEvent
      PROVE  TxnShape' /\ TellsItsChannel'
  <2> DEFINE told == Append(txn.told, 0)
  <2>1. txn' = [txn EXCEPT !.told = told, !.ch = Len(txn.told) + 1]
    BY <1>15 DEF GW!RegisterCommitEvent
  <2>2. txn.told \in Seq(Nat) /\ Len(txn.told) \in Nat
    BY DEF TxnShape
  <2>3. /\ told \in Seq(Nat) /\ Len(told) = Len(txn.told) + 1
        /\ \A c \in 1 .. Len(txn.told) : told[c] = txn.told[c]
    BY <2>2
  <2> HIDE DEF told
  <2> DEFINE n == Len(txn.told) + 1
  <2>6. n \in Nat /\ txn' = [txn EXCEPT !.told = told, !.ch = n]
    BY <2>1, <2>2
  <2> HIDE DEF n
  <2>4. TxnShape'
    BY ONLY TxnShape, <2>3, <2>6 DEF TxnShape
  <2>5. TellsItsChannel'
    BY <2>1, <2>2, <2>3 DEF TxnShape, TellsItsChannel
  <2> QED
    BY <2>4, <2>5
<1>16. ASSUME GW!Submit
      PROVE  TxnShape' /\ TellsItsChannel'
  <2> DEFINE new == Append(txn.handlers, [at |-> "runs", ch |-> txn.ch])
  <2>1. txn' = [txn EXCEPT !.handlers = new, !.result = "waits"]
    BY <1>16 DEF GW!Submit
  <2>2. txn.handlers \in Seq(Handler) /\ [at |-> "runs", ch |-> txn.ch] \in Handler
    BY DEF TxnShape, Handler
  <2>3. /\ new \in Seq(Handler) /\ Len(new) = Len(txn.handlers) + 1
        /\ Len(txn.handlers) \in Nat
        /\ \A i \in 1 .. Len(txn.handlers) : new[i] = txn.handlers[i]
        /\ new[Len(new)] = [at |-> "runs", ch |-> txn.ch]
    BY <2>2
  <2> HIDE DEF new
  <2>4. TxnShape'
    BY ONLY TxnShape, <2>1, <2>3 DEF TxnShape
  <2>5. TellsItsChannel'
    BY <2>1, <2>2, <2>3 DEF TxnShape, TellsItsChannel
  <2> QED
    BY <2>4, <2>5
<1>17. ASSUME NEW h \in DOMAIN txn.handlers, GW!Handle(h)
      PROVE  TxnShape' /\ TellsItsChannel'
  <2>0. h \in 1 .. Len(txn.handlers) /\ txn.handlers[h].at = "runs"
    BY <1>17 DEF GW!Handle, TxnShape
  <2>1. ASSUME NEW s \in {"valid", "failed", "panic"}, txn' = GW!Ends(h, s),
               s = "valid" => txn.handlers[h].ch = 0
        PROVE  TxnShape' /\ TellsItsChannel'
    <3> DEFINE hs == GW!Ends(h, s).handlers
    <3>1. /\ txn' = [txn EXCEPT !.handlers = hs]
          /\ hs \in Seq(Handler) /\ Len(hs) = Len(txn.handlers)
          /\ \A i \in 1 .. Len(hs) :
               /\ hs[i].ch = txn.handlers[i].ch
               /\ hs[i].at = IF i = h THEN s ELSE txn.handlers[i].at
      BY <2>1, EndsOne
    <3> HIDE DEF hs
    <3>2. TxnShape'
      BY <3>1 DEF TxnShape
    <3>4. /\ txn'.handlers = hs /\ txn'.told = txn.told /\ txn'.ch = txn.ch
          /\ txn'.result = txn.result /\ Len(hs) \in Nat
      BY <3>1 DEF TxnShape
    <3>5. \A i \in 1 .. Len(hs) :
            /\ hs[i].ch \in 0 .. Len(txn.told)
            /\ hs[i].at = "valid" /\ hs[i].ch # 0 => txn.told[hs[i].ch] = i
      BY <2>1, <3>1 DEF TellsItsChannel
    <3>6. txn.result = "ok" => Len(hs) # 0 /\ hs[Len(hs)].at = "valid"
      BY <2>0, <3>1, <3>4 DEF TellsItsChannel
    <3>7. TellsItsChannel'
      BY <3>4, <3>5, <3>6 DEF TellsItsChannel
    <3> QED
      BY <3>2, <3>7
  <2>2. ASSUME txn.handlers[h].ch # 0, txn.told[txn.handlers[h].ch] = 0,
               txn' = [GW!Ends(h, "valid") EXCEPT !.told[txn.handlers[h].ch] = h]
        PROVE  TxnShape' /\ TellsItsChannel'
    <3> DEFINE hs == GW!Ends(h, "valid").handlers
               c == txn.handlers[h].ch
               told == [txn.told EXCEPT ![c] = h]
    <3>1. /\ GW!Ends(h, "valid") = [txn EXCEPT !.handlers = hs]
          /\ hs \in Seq(Handler) /\ Len(hs) = Len(txn.handlers)
          /\ \A i \in 1 .. Len(hs) :
               /\ hs[i].ch = txn.handlers[i].ch
               /\ hs[i].at = IF i = h THEN "valid" ELSE txn.handlers[i].at
      BY EndsOne
    <3>2. txn.told \in Seq(Nat) /\ c \in 1 .. Len(txn.told) /\ h \in Nat \ {0}
      BY <2>0, <2>2 DEF TellsItsChannel, TxnShape
    <3>3. /\ told \in Seq(Nat) /\ Len(told) = Len(txn.told)
          /\ \A d \in 1 .. Len(txn.told) : told[d] = IF d = c THEN h ELSE txn.told[d]
      BY <3>2
    <3> HIDE DEF hs
    <3>4. txn' = [txn EXCEPT !.handlers = hs, !.told = told]
      BY <2>2, <3>1 DEF TxnShape
    <3> HIDE DEF told
    <3>5. TxnShape'
      BY <3>1, <3>3, <3>4 DEF TxnShape
    <3>6. /\ txn'.handlers = hs /\ txn'.told = told /\ txn'.ch = txn.ch
          /\ txn'.result = txn.result
      BY <3>4 DEF TxnShape
    <3>7. Len(txn.told) \in Nat /\ Len(txn.handlers) \in Nat
      BY DEF TxnShape
    <3>9. ASSUME NEW i \in 1 .. Len(hs)
          PROVE  /\ hs[i].ch \in 0 .. Len(told)
                 /\ hs[i].at = "valid" /\ hs[i].ch # 0 => told[hs[i].ch] = i
      <4>1. hs[i].ch \in 0 .. Len(told) /\ i \in 1 .. Len(txn.handlers) /\ i # 0
        BY <3>1, <3>3 DEF TellsItsChannel
      <4>2. ASSUME i # h, hs[i].at = "valid", hs[i].ch # 0
            PROVE  told[hs[i].ch] = i
        <5>1. txn.told[hs[i].ch] = i
          BY <3>1, <4>1, <4>2 DEF TellsItsChannel
        <5>2. hs[i].ch # c /\ hs[i].ch \in 1 .. Len(txn.told)
          BY <2>2, <3>3, <3>7, <4>1, <4>2, <5>1
        <5> QED
          BY <3>3, <5>1, <5>2
      <4>3. i = h => hs[i].ch = c /\ told[c] = i
        BY <3>1, <3>2, <3>3
      <4> QED
        BY <4>1, <4>2, <4>3
    <3>10. txn.result = "ok" => Len(hs) # 0 /\ hs[Len(hs)].at = "valid"
      BY <2>0, <3>1, <3>7 DEF TellsItsChannel
    <3>11. txn.ch \in 0 .. Len(told)
      BY <3>3 DEF TellsItsChannel
    <3>8. TellsItsChannel'
      BY <3>6, <3>9, <3>10, <3>11 DEF TellsItsChannel
    <3> QED
      BY <3>5, <3>8
  <2> QED
    BY <1>17, <2>1, <2>2 DEF GW!Handle, GW!Tell
<1>18. ASSUME NEW h \in DOMAIN txn.handlers, GW!Returns(h)
      PROVE  TxnShape' /\ TellsItsChannel'
  <2>1. \/ txn' = [txn EXCEPT !.result = "error"]
        \/ /\ txn' = [txn EXCEPT !.result = "ok"]
           /\ h = Len(txn.handlers) /\ txn.handlers[h].at = "valid" /\ h \in 1 .. h
    BY <1>18 DEF GW!Returns, GW!Current, TxnShape
  <2>2. TxnShape'
    BY <2>1 DEF TxnShape
  <2>3. /\ txn'.handlers = txn.handlers /\ txn'.told = txn.told /\ txn'.ch = txn.ch
        /\ txn'.result = "ok" => h = Len(txn.handlers) /\ txn.handlers[h].at = "valid"
                                                      /\ h \in 1 .. h
    BY <2>1 DEF TxnShape
  <2>4. Len(txn.handlers) \in Nat
    BY DEF TxnShape
  <2>5. TellsItsChannel'
    BY <2>3, <2>4 DEF TellsItsChannel
  <2> QED
    BY <2>2, <2>5
<1>19. ASSUME NEW h \in DOMAIN txn.handlers, GW!TimesOut(h)
      PROVE  TxnShape' /\ TellsItsChannel'
  BY <1>19 DEF GW!TimesOut, TxnShape, TellsItsChannel
<1>20. CASE UNCHANGED GW!vars
  BY <1>20 DEF GW!vars, TxnShape, TellsItsChannel
<1> QED
  BY <1>1, <1>2, <1>3, <1>4, <1>5, <1>6, <1>7, <1>8, <1>9, <1>10, <1>11,
     <1>12, <1>13, <1>14, <1>15, <1>16, <1>17, <1>18, <1>19, <1>20
  DEF GW!Next

LEMMA GatewayInvariance == ASSUME GW!GatewayAssumption PROVE GW!Spec => []GatewayInv
<1>1. GW!Init => GatewayInv
  BY InitGatewayInv
<1>2. GatewayInv /\ [GW!Next]_(GW!vars) => GatewayInv'
  BY AppsStep, WalletStep, TellStep DEF GatewayInv
<1> QED
  BY <1>1, <1>2, PTL DEF GW!Spec

-----------------------------------------------------------------------------
\* The key of whoever is connected is one of the suite the process has, however many
\* connect at a time (WithIdentity, GetDefault, initializeCryptoSuite).
THEOREM KeysAreOfTheDefault ==
  ASSUME GW!GatewayAssumption PROVE GW!Spec => []GW!KeysOfTheDefault
<1>1. GatewayInv => GW!KeysOfTheDefault
  BY DEF GatewayInv, AppsFit, Fits, GW!KeysOfTheDefault
<1> QED
  BY <1>1, GatewayInvariance, PTL

\* Whoever is told of success has been told of the commit by then (RegisterCommitEvent,
\* commitTxHandler.Handle).
THEOREM SuccessWasTold ==
  ASSUME GW!GatewayAssumption PROVE GW!Spec => []GW!SuccessIsTold
<1>1. GatewayInv => GW!SuccessIsTold
  <2> SUFFICES ASSUME GatewayInv, txn.result = "ok",
                      txn.handlers[Len(txn.handlers)].ch # 0
               PROVE  txn.told[txn.handlers[Len(txn.handlers)].ch] = Len(txn.handlers)
    BY DEF GW!SuccessIsTold
  <2>1. Len(txn.handlers) \in Nat
    BY DEF GatewayInv, TxnShape
  <2> QED
    BY <2>1 DEF GatewayInv, TellsItsChannel
<1> QED
  BY <1>1, GatewayInvariance, PTL

(***************************************************************************)
(* Loggers: who is inside a sync.Once is its holder; what the once sets is *)
(* what the others find when it is done, and stays.                        *)
(***************************************************************************)

Makers == Apps \cup {ModLog, None}
Sinks == Apps \cup {ModLog, Custom}
Once == Users \cup {Nobody, Done}
Places == {"idle", "logger", "provider", "set", "get", "ask", "custom", "load", "write",
          "init", "inited"}
OnceShape ==
  /\ provider \in [once : Once, is : Makers]
  /\ modlog \in [once : Once, provider : {Custom, None}, flag : BOOLEAN]
  /\ logger \in [Loggers -> [once : Once, instance : Makers]]
  /\ latch \in [Loggers -> [once : Once, custom : BOOLEAN]]
RunShape ==
  run \in [Users -> [at : Places, logger : Loggers \cup {None}, level : Levels \cup {0},
                         sink : Sinks \cup {None}, with : Makers]]
LoggerIsKnown ==
  \A g \in Users :
    run[g].at \in {"logger", "get", "ask", "custom", "load", "write"} => LG!L(g) \in Loggers
LogShape == OnceShape /\ RunShape /\ LoggerIsKnown

\* The once of the provider, of a logger and of the Log behind it
ProviderIsSet ==
  /\ provider.once = Done <=> provider.is # None
  /\ \A g \in Users :
       /\ LG!At(g, "set") => provider.once = g
       /\ LG!At(g, "get") => provider.once = Done
       /\ (LG!At(g, "provider") \/ LG!At(g, "set")) /\ LG!L(g) = None => run[g].with # None
LoggerIsSet ==
  /\ \A l \in Loggers :
       /\ logger[l].instance # None => logger[l].instance = provider.is
       /\ logger[l].once = Done => logger[l].instance # None
  /\ \A g \in Users :
       /\ LG!At(g, "ask") \/ LG!At(g, "write") => logger[LG!L(g)].instance # None
       /\ LG!At(g, "custom") \/ LG!At(g, "load") => logger[LG!L(g)].instance = ModLog
CustomIsSet ==
  /\ modlog.flag => modlog.provider = Custom
  /\ \A l \in Loggers : latch[l].custom => modlog.flag
LatchIsHeld == \A g \in Users : LG!At(g, "load") => latch[LG!L(g)].once = g

\* Who holds the once of a logger is in it, for that logger.
HeldByOne ==
  \A l \in Loggers :
    /\ logger[l].once \in Users =>
         LG!L(logger[l].once) = l /\ run[logger[l].once].at \in {"provider", "set", "get"}
    /\ latch[l].once \in Users => LG!L(latch[l].once) = l /\ LG!At(latch[l].once, "load")

\* Where the messages of a logger go is what its two onces have set.
SinkOf(l) ==
  IF logger[l].instance # ModLog THEN logger[l].instance
  ELSE IF latch[l].custom THEN modlog.provider ELSE ModLog
SinkIsSet ==
  \A g \in Users : LG!At(g, "write") =>
    /\ logger[LG!L(g)].instance = ModLog => latch[LG!L(g)].once = Done
    /\ run[g].sink = SinkOf(LG!L(g))

LogInv == /\ LogShape /\ ProviderIsSet /\ LoggerIsSet /\ CustomIsSet /\ LatchIsHeld
          /\ HeldByOne /\ SinkIsSet

-----------------------------------------------------------------------------
LEMMA InitLogInv ==
  ASSUME LG!LoggingAssumption, LG!Init
  PROVE  LogInv
<1> USE DEF LG!Init, LG!Idle, LG!At, LG!L, LG!LoggingAssumption
<1>1. LogShape
  BY DEF LogShape, OnceShape, RunShape, LoggerIsKnown, Sinks, Makers, Once, Places
<1>2. ProviderIsSet /\ LoggerIsSet /\ CustomIsSet /\ LatchIsHeld /\ HeldByOne
      /\ SinkIsSet
  BY DEF ProviderIsSet, LoggerIsSet, CustomIsSet, LatchIsHeld, HeldByOne, SinkIsSet
<1> QED
  BY <1>1, <1>2 DEF LogInv

\* A goroutine goes on to another step, with the sink it has found.
LEMMA GoingOn ==
  ASSUME RunShape, NEW g \in Users, NEW s \in Places, NEW k \in Sinks \cup {None},
         LG!Goes(g, s) \/ run' = [run EXCEPT ![g].at = s, ![g].sink = k]
  PROVE  RunShape'
<1> DEFINE Run == [at : Places, logger : Loggers \cup {None}, level : Levels \cup {0},
                   sink : Sinks \cup {None}, with : Makers]
<1>1. run \in [Users -> Run] /\ run[g] \in Run
  BY DEF RunShape
<1>2. [run[g] EXCEPT !.at = s] \in Run /\ [run[g] EXCEPT !.at = s, !.sink = k] \in Run
  BY <1>1
<1>3. run' = [run EXCEPT ![g] = [run[g] EXCEPT !.at = s]]
      \/ run' = [run EXCEPT ![g] = [run[g] EXCEPT !.at = s, !.sink = k]]
  BY <1>1 DEF LG!Goes
<1>4. run' \in [Users -> Run]
  BY <1>1, <1>2, <1>3
<1> QED
  BY <1>4 DEF RunShape

\* Every step keeps the types.
LEMMA LogShapeStep ==
  ASSUME LG!LoggingAssumption, LogShape, ProviderIsSet, [LG!Next]_(LG!vars)
  PROVE  LogShape'
<1> USE DEF LG!LoggingAssumption, LG!At, LG!L, LG!Goes, LogShape, Sinks, Makers, Once,
          ProviderIsSet
<1>1. ASSUME NEW g \in Users, NEW l \in Loggers, NEW level \in Levels, LG!Log(g, l, level)
      PROVE  LogShape'
  <2>1. OnceShape'
    BY <1>1 DEF LG!Log, LG!Calls, LG!Idle, OnceShape, RunShape, LoggerIsKnown
  <2>2. RunShape'
    BY <1>1 DEF LG!Log, LG!Calls, LG!Idle, OnceShape, RunShape, LoggerIsKnown, Places
  <2>3. LoggerIsKnown'
    BY <1>1 DEF LG!Log, LG!Calls, LG!Idle, RunShape, LoggerIsKnown, Places
  <2> QED
    BY <2>1, <2>2, <2>3
<1>2. ASSUME NEW g \in Users, NEW p \in Apps \cup {ModLog}, LG!Initialize(g, p)
      PROVE  LogShape'
  <2>1. OnceShape'
    BY <1>2 DEF LG!Initialize, LG!Calls, LG!Idle, OnceShape, RunShape, LoggerIsKnown
  <2>2. RunShape'
    BY <1>2 DEF LG!Initialize, LG!Calls, LG!Idle, OnceShape, RunShape, LoggerIsKnown, Places
  <2>3. LoggerIsKnown'
    BY <1>2 DEF LG!Initialize, LG!Calls, LG!Idle, RunShape, LoggerIsKnown, Places
  <2> QED
    BY <2>1, <2>2, <2>3
<1>3. ASSUME NEW g \in Users, NEW m \in Loggers \cup {None}, NEW level \in Levels,
             LG!SetLevel(g, m, level)
      PROVE  LogShape'
  <2>1. OnceShape'
    BY <1>3 DEF LG!SetLevel, LG!Calls, OnceShape, RunShape, LoggerIsKnown
  <2>2. RunShape'
    BY <1>3 DEF LG!SetLevel, LG!Calls, OnceShape, RunShape, LoggerIsKnown, Places
  <2>3. LoggerIsKnown'
    BY <1>3 DEF LG!SetLevel, LG!Calls, RunShape, LoggerIsKnown, Places
  <2> QED
    BY <2>1, <2>2, <2>3
<1>4. ASSUME NEW g \in Users, LG!EnterLogger(g)
      PROVE  LogShape'
  <2>1. OnceShape'
    <3>1. run[g].logger \in Loggers
      BY <1>4 DEF LG!EnterLogger, LoggerIsKnown
    <3>2. logger' = logger \/ logger' = [logger EXCEPT ![run[g].logger].once = g]
      BY <1>4 DEF LG!EnterLogger
    <3>3. logger' \in [Loggers -> [once : Once, instance : Makers]]
      BY <3>1, <3>2 DEF OnceShape
    <3>4. UNCHANGED <<provider, modlog, latch>>
      BY <1>4 DEF LG!EnterLogger
    <3> QED
      BY <3>3, <3>4 DEF OnceShape
  <2>2. RunShape'
    <3>1. LG!Goes(g, "provider") \/ LG!Goes(g, "ask")
      BY <1>4 DEF LG!EnterLogger
    <3>2. {"provider", "ask"} \subseteq Places /\ None \in Sinks \cup {None}
      BY DEF Places
    <3> QED
      BY <3>1, <3>2, GoingOn
  <2>3. LoggerIsKnown'
    BY <1>4 DEF LG!EnterLogger, RunShape, LoggerIsKnown, Places
  <2> QED
    BY <2>1, <2>2, <2>3
<1>5. ASSUME NEW g \in Users, LG!EnterProvider(g)
      PROVE  LogShape'
  <2>1. OnceShape'
    BY <1>5 DEF LG!EnterProvider, OnceShape, RunShape, LoggerIsKnown
  <2>2. RunShape'
    <3>1. LG!Goes(g, "set") \/ LG!Goes(g, "idle") \/ LG!Goes(g, "get")
      BY <1>5 DEF LG!EnterProvider
    <3>2. {"set", "idle", "get"} \subseteq Places /\ None \in Sinks \cup {None}
      BY DEF Places
    <3> QED
      BY <3>1, <3>2, GoingOn
  <2>3. LoggerIsKnown'
    BY <1>5 DEF LG!EnterProvider, RunShape, LoggerIsKnown, Places
  <2> QED
    BY <2>1, <2>2, <2>3
<1>6. ASSUME NEW g \in Users, LG!SetProvider(g)
      PROVE  LogShape'
  <2>1. OnceShape'
    BY <1>6 DEF LG!SetProvider, OnceShape, RunShape, LoggerIsKnown
  <2>2. RunShape'
    <3>1. LG!Goes(g, "idle") \/ LG!Goes(g, "get")
      BY <1>6 DEF LG!SetProvider
    <3>2. {"idle", "get"} \subseteq Places /\ None \in Sinks \cup {None}
      BY DEF Places
    <3> QED
      BY <3>1, <3>2, GoingOn
  <2>3. LoggerIsKnown'
    BY <1>6 DEF LG!SetProvider, RunShape, LoggerIsKnown, Places
  <2> QED
    BY <2>1, <2>2, <2>3
<1>7. ASSUME NEW g \in Users, LG!GetLogger(g)
      PROVE  LogShape'
  <2>1. OnceShape'
    BY <1>7 DEF LG!GetLogger, OnceShape, RunShape, LoggerIsKnown
  <2>2. RunShape'
    <3>1. LG!Goes(g, "ask")
      BY <1>7 DEF LG!GetLogger
    <3>2. {"ask"} \subseteq Places /\ None \in Sinks \cup {None}
      BY DEF Places
    <3> QED
      BY <3>1, <3>2, GoingOn
  <2>3. LoggerIsKnown'
    BY <1>7 DEF LG!GetLogger, RunShape, LoggerIsKnown, Places
  <2> QED
    BY <2>1, <2>2, <2>3
<1>8. ASSUME NEW g \in Users, LG!Ask(g)
      PROVE  LogShape'
  <2>1. OnceShape'
    BY <1>8 DEF LG!Ask, OnceShape, RunShape, LoggerIsKnown
  <2>2. RunShape'
    <3>1. \/ run' = [run EXCEPT ![g].at = "write", ![g].sink = logger[LG!L(g)].instance]
          \/ LG!Goes(g, "custom") \/ LG!Goes(g, "idle")
      BY <1>8 DEF LG!Ask
    <3>2. LG!L(g) \in Loggers
      BY <1>8 DEF LG!Ask, RunShape, LoggerIsKnown
    <3>3. logger[LG!L(g)].instance \in Sinks \cup {None} /\ None \in Sinks \cup {None}
      BY <3>2 DEF OnceShape
    <3>4. {"write", "custom", "idle"} \subseteq Places
      BY DEF Places
    <3> QED
      BY <3>1, <3>3, <3>4, GoingOn
  <2>3. LoggerIsKnown'
    BY <1>8 DEF LG!Ask, RunShape, LoggerIsKnown, Places
  <2> QED
    BY <2>1, <2>2, <2>3
<1>9. ASSUME NEW g \in Users, LG!EnterCustom(g)
      PROVE  LogShape'
  <2>0. LG!L(g) \in Loggers
    BY <1>9 DEF LG!EnterCustom, RunShape, LoggerIsKnown
  <2>1. OnceShape'
    <3>1. UNCHANGED latch \/ latch' = [latch EXCEPT ![LG!L(g)].once = g]
      BY <1>9 DEF LG!EnterCustom
    <3>2. UNCHANGED <<provider, modlog, logger>>
      BY <1>9 DEF LG!EnterCustom
    <3>3. latch \in [Loggers -> [once : Once, custom : BOOLEAN]] /\ g \in Once
      BY DEF OnceShape, Once
    <3>4. latch' \in [Loggers -> [once : Once, custom : BOOLEAN]]
      BY <2>0, <3>1, <3>3
    <3> QED
      BY <3>2, <3>4 DEF OnceShape
  <2>2. RunShape'
    <3> DEFINE k == IF latch[LG!L(g)].custom THEN modlog.provider ELSE ModLog
    <3>1. LG!Goes(g, "load") \/ run' = [run EXCEPT ![g].at = "write", ![g].sink = k]
      BY <1>9 DEF LG!EnterCustom
    <3>2. k \in Sinks \cup {None} /\ None \in Sinks \cup {None}
      BY DEF OnceShape
    <3>3. {"load", "write"} \subseteq Places
      BY DEF Places
    <3> QED
      BY <3>1, <3>2, <3>3, GoingOn
  <2>3. LoggerIsKnown'
    BY <1>9 DEF LG!EnterCustom, RunShape, LoggerIsKnown, Places
  <2> QED
    BY <2>1, <2>2, <2>3
<1>10. ASSUME NEW g \in Users, LG!Load(g)
      PROVE  LogShape'
  <2>1. OnceShape'
    BY <1>10 DEF LG!Load, OnceShape, RunShape, LoggerIsKnown
  <2>2. RunShape'
    <3>1. LG!Goes(g, "custom")
      BY <1>10 DEF LG!Load
    <3>2. {"custom"} \subseteq Places /\ None \in Sinks \cup {None}
      BY DEF Places
    <3> QED
      BY <3>1, <3>2, GoingOn
  <2>3. LoggerIsKnown'
    BY <1>10 DEF LG!Load, RunShape, LoggerIsKnown, Places
  <2> QED
    BY <2>1, <2>2, <2>3
<1>11. ASSUME NEW g \in Users, LG!Write(g)
      PROVE  LogShape'
  <2>1. OnceShape'
    BY <1>11 DEF LG!Write, LG!Idle, OnceShape, RunShape, LoggerIsKnown
  <2>2. RunShape'
    BY <1>11 DEF LG!Write, LG!Idle, OnceShape, RunShape, LoggerIsKnown, Places
  <2>3. LoggerIsKnown'
    BY <1>11 DEF LG!Write, LG!Idle, RunShape, LoggerIsKnown, Places
  <2> QED
    BY <2>1, <2>2, <2>3
<1>12. ASSUME NEW g \in Users, LG!BeginInit(g)
      PROVE  LogShape'
  <2>1. OnceShape'
    BY <1>12 DEF LG!BeginInit, LG!Calls, OnceShape, RunShape, LoggerIsKnown
  <2>2. RunShape'
    <3>1. LG!Goes(g, "init")
      BY <1>12 DEF LG!BeginInit
    <3>2. {"init"} \subseteq Places /\ None \in Sinks \cup {None}
      BY DEF Places
    <3> QED
      BY <3>1, <3>2, GoingOn
  <2>3. LoggerIsKnown'
    BY <1>12 DEF LG!BeginInit, LG!Calls, RunShape, LoggerIsKnown, Places
  <2> QED
    BY <2>1, <2>2, <2>3
<1>13. ASSUME NEW g \in Users, LG!InitProvider(g)
      PROVE  LogShape'
  <2>1. OnceShape'
    BY <1>13 DEF LG!InitProvider, OnceShape, RunShape, LoggerIsKnown
  <2>2. RunShape'
    <3>1. LG!Goes(g, "inited")
      BY <1>13 DEF LG!InitProvider
    <3>2. {"inited"} \subseteq Places /\ None \in Sinks \cup {None}
      BY DEF Places
    <3> QED
      BY <3>1, <3>2, GoingOn
  <2>3. LoggerIsKnown'
    BY <1>13 DEF LG!InitProvider, RunShape, LoggerIsKnown, Places
  <2> QED
    BY <2>1, <2>2, <2>3
<1>14. ASSUME NEW g \in Users, LG!InitFlag(g)
      PROVE  LogShape'
  <2>1. OnceShape'
    BY <1>14 DEF LG!InitFlag, OnceShape, RunShape, LoggerIsKnown
  <2>2. RunShape'
    <3>1. LG!Goes(g, "idle")
      BY <1>14 DEF LG!InitFlag
    <3>2. {"idle"} \subseteq Places /\ None \in Sinks \cup {None}
      BY DEF Places
    <3> QED
      BY <3>1, <3>2, GoingOn
  <2>3. LoggerIsKnown'
    BY <1>14 DEF LG!InitFlag, RunShape, LoggerIsKnown, Places
  <2> QED
    BY <2>1, <2>2, <2>3
<1>15. CASE UNCHANGED LG!vars
  BY <1>15 DEF LG!vars, OnceShape, RunShape, LoggerIsKnown
<1> QED
  BY <1>1, <1>2, <1>3, <1>4, <1>5, <1>6, <1>7, <1>8, <1>9, <1>10, <1>11, <1>12,
     <1>13, <1>14, <1>15
  DEF LG!Next, LG!Goroutine

\* One goroutine sets the provider, once.
LEMMA ProviderStep ==
  ASSUME LG!LoggingAssumption, LogShape, ProviderIsSet, [LG!Next]_(LG!vars)
  PROVE  ProviderIsSet'
<1> USE DEF LG!LoggingAssumption, LG!At, LG!L, LG!Goes, LogShape, OnceShape, RunShape,
    LoggerIsKnown,
    Sinks, Makers, Once,
          ProviderIsSet
<1>1. ASSUME NEW g \in Users, NEW l \in Loggers, NEW level \in Levels, LG!Log(g, l, level)
      PROVE  ProviderIsSet'
  BY <1>1 DEF LG!Log, LG!Calls, LG!Idle
<1>2. ASSUME NEW g \in Users, NEW p \in Apps \cup {ModLog}, LG!Initialize(g, p)
      PROVE  ProviderIsSet'
  BY <1>2 DEF LG!Initialize, LG!Calls, LG!Idle
<1>3. ASSUME NEW g \in Users, NEW m \in Loggers \cup {None}, NEW level \in Levels,
             LG!SetLevel(g, m, level)
      PROVE  ProviderIsSet'
  BY <1>3 DEF LG!SetLevel, LG!Calls
<1>4. ASSUME NEW g \in Users, LG!EnterLogger(g)
      PROVE  ProviderIsSet'
  <2>1. CASE logger[LG!L(g)].once = Nobody
    <3>1. /\ logger' = [logger EXCEPT ![LG!L(g)].once = g]
          /\ run' = [run EXCEPT ![g].at = "provider"]
          /\ LG!At(g, "logger") /\ UNCHANGED <<provider, modlog, latch>>
      BY <1>4, <2>1 DEF LG!EnterLogger
    <3> QED
      BY <2>1, <3>1
  <2>2. CASE logger[LG!L(g)].once = Done
    <3>1. /\ run' = [run EXCEPT ![g].at = "ask"]
          /\ LG!At(g, "logger") /\ UNCHANGED <<provider, modlog, logger, latch>>
      BY <1>4, <2>2 DEF LG!EnterLogger
    <3> QED
      BY <2>2, <3>1
  <2> QED
    BY <1>4, <2>1, <2>2 DEF LG!EnterLogger
<1>5. ASSUME NEW g \in Users, LG!EnterProvider(g)
      PROVE  ProviderIsSet'
  BY <1>5 DEF LG!EnterProvider
<1>6. ASSUME NEW g \in Users, LG!SetProvider(g)
      PROVE  ProviderIsSet'
  BY <1>6 DEF LG!SetProvider
<1>7. ASSUME NEW g \in Users, LG!GetLogger(g)
      PROVE  ProviderIsSet'
  BY <1>7 DEF LG!GetLogger
<1>8. ASSUME NEW g \in Users, LG!Ask(g)
      PROVE  ProviderIsSet'
  BY <1>8 DEF LG!Ask
<1>9. ASSUME NEW g \in Users, LG!EnterCustom(g)
      PROVE  ProviderIsSet'
  <2>1. CASE latch[LG!L(g)].once = Nobody
    <3>1. /\ latch' = [latch EXCEPT ![LG!L(g)].once = g]
          /\ run' = [run EXCEPT ![g].at = "load"]
          /\ LG!At(g, "custom") /\ UNCHANGED <<provider, modlog, logger>>
      BY <1>9, <2>1 DEF LG!EnterCustom
    <3> QED
      BY <2>1, <3>1
  <2>2. CASE latch[LG!L(g)].once = Done
    <3> DEFINE k == IF latch[LG!L(g)].custom THEN modlog.provider ELSE ModLog
    <3>1. /\ run' = [run EXCEPT ![g].at = "write", ![g].sink = k]
          /\ LG!At(g, "custom") /\ UNCHANGED <<provider, modlog, logger, latch>>
      BY <1>9, <2>2 DEF LG!EnterCustom
    <3> QED
      BY <2>2, <3>1
  <2> QED
    BY <1>9, <2>1, <2>2 DEF LG!EnterCustom
<1>10. ASSUME NEW g \in Users, LG!Load(g)
      PROVE  ProviderIsSet'
  BY <1>10 DEF LG!Load
<1>11. ASSUME NEW g \in Users, LG!Write(g)
      PROVE  ProviderIsSet'
  BY <1>11 DEF LG!Write, LG!Idle
<1>12. ASSUME NEW g \in Users, LG!BeginInit(g)
      PROVE  ProviderIsSet'
  BY <1>12 DEF LG!BeginInit, LG!Calls
<1>13. ASSUME NEW g \in Users, LG!InitProvider(g)
      PROVE  ProviderIsSet'
  BY <1>13 DEF LG!InitProvider
<1>14. ASSUME NEW g \in Users, LG!InitFlag(g)
      PROVE  ProviderIsSet'
  BY <1>14 DEF LG!InitFlag
<1>15. CASE UNCHANGED LG!vars
  BY <1>15 DEF LG!vars
<1> QED
  BY <1>1, <1>2, <1>3, <1>4, <1>5, <1>6, <1>7, <1>8, <1>9, <1>10, <1>11, <1>12,
     <1>13, <1>14, <1>15
  DEF LG!Next, LG!Goroutine

\* A logger is set to the provider, which is set before.
LEMMA LoggerStep ==
  ASSUME LG!LoggingAssumption, LogShape, ProviderIsSet, LoggerIsSet, [LG!Next]_(LG!vars)
  PROVE  LoggerIsSet'
<1> USE DEF LG!LoggingAssumption, LG!At, LG!L, LG!Goes, LogShape, OnceShape, RunShape,
    LoggerIsKnown,
    Sinks, Makers, Once,
          ProviderIsSet, LoggerIsSet
<1>1. ASSUME NEW g \in Users, NEW l \in Loggers, NEW level \in Levels, LG!Log(g, l, level)
      PROVE  LoggerIsSet'
  BY <1>1 DEF LG!Log, LG!Calls, LG!Idle
<1>2. ASSUME NEW g \in Users, NEW p \in Apps \cup {ModLog}, LG!Initialize(g, p)
      PROVE  LoggerIsSet'
  BY <1>2 DEF LG!Initialize, LG!Calls, LG!Idle
<1>3. ASSUME NEW g \in Users, NEW m \in Loggers \cup {None}, NEW level \in Levels,
             LG!SetLevel(g, m, level)
      PROVE  LoggerIsSet'
  BY <1>3 DEF LG!SetLevel, LG!Calls
<1>4. ASSUME NEW g \in Users, LG!EnterLogger(g)
      PROVE  LoggerIsSet'
  <2>1. CASE logger[LG!L(g)].once = Nobody
    <3>1. /\ logger' = [logger EXCEPT ![LG!L(g)].once = g]
          /\ run' = [run EXCEPT ![g].at = "provider"]
          /\ LG!At(g, "logger") /\ UNCHANGED <<provider, modlog, latch>>
      BY <1>4, <2>1 DEF LG!EnterLogger
    <3> QED
      BY <2>1, <3>1
  <2>2. CASE logger[LG!L(g)].once = Done
    <3>1. /\ run' = [run EXCEPT ![g].at = "ask"]
          /\ LG!At(g, "logger") /\ UNCHANGED <<provider, modlog, logger, latch>>
      BY <1>4, <2>2 DEF LG!EnterLogger
    <3> QED
      BY <2>2, <3>1
  <2> QED
    BY <1>4, <2>1, <2>2 DEF LG!EnterLogger
<1>5. ASSUME NEW g \in Users, LG!EnterProvider(g)
      PROVE  LoggerIsSet'
  BY <1>5 DEF LG!EnterProvider
<1>6. ASSUME NEW g \in Users, LG!SetProvider(g)
      PROVE  LoggerIsSet'
  BY <1>6 DEF LG!SetProvider
<1>7. ASSUME NEW g \in Users, LG!GetLogger(g)
      PROVE  LoggerIsSet'
  BY <1>7 DEF LG!GetLogger
<1>8. ASSUME NEW g \in Users, LG!Ask(g)
      PROVE  LoggerIsSet'
  BY <1>8 DEF LG!Ask
<1>9. ASSUME NEW g \in Users, LG!EnterCustom(g)
      PROVE  LoggerIsSet'
  <2>1. CASE latch[LG!L(g)].once = Nobody
    <3>1. /\ latch' = [latch EXCEPT ![LG!L(g)].once = g]
          /\ run' = [run EXCEPT ![g].at = "load"]
          /\ LG!At(g, "custom") /\ UNCHANGED <<provider, modlog, logger>>
      BY <1>9, <2>1 DEF LG!EnterCustom
    <3> QED
      BY <2>1, <3>1
  <2>2. CASE latch[LG!L(g)].once = Done
    <3> DEFINE k == IF latch[LG!L(g)].custom THEN modlog.provider ELSE ModLog
    <3>1. /\ run' = [run EXCEPT ![g].at = "write", ![g].sink = k]
          /\ LG!At(g, "custom") /\ UNCHANGED <<provider, modlog, logger, latch>>
      BY <1>9, <2>2 DEF LG!EnterCustom
    <3> QED
      BY <2>2, <3>1
  <2> QED
    BY <1>9, <2>1, <2>2 DEF LG!EnterCustom
<1>10. ASSUME NEW g \in Users, LG!Load(g)
      PROVE  LoggerIsSet'
  BY <1>10 DEF LG!Load
<1>11. ASSUME NEW g \in Users, LG!Write(g)
      PROVE  LoggerIsSet'
  BY <1>11 DEF LG!Write, LG!Idle
<1>12. ASSUME NEW g \in Users, LG!BeginInit(g)
      PROVE  LoggerIsSet'
  BY <1>12 DEF LG!BeginInit, LG!Calls
<1>13. ASSUME NEW g \in Users, LG!InitProvider(g)
      PROVE  LoggerIsSet'
  BY <1>13 DEF LG!InitProvider
<1>14. ASSUME NEW g \in Users, LG!InitFlag(g)
      PROVE  LoggerIsSet'
  BY <1>14 DEF LG!InitFlag
<1>15. CASE UNCHANGED LG!vars
  BY <1>15 DEF LG!vars
<1> QED
  BY <1>1, <1>2, <1>3, <1>4, <1>5, <1>6, <1>7, <1>8, <1>9, <1>10, <1>11, <1>12,
     <1>13, <1>14, <1>15
  DEF LG!Next, LG!Goroutine

\* The custom provider is there when its flag is.
LEMMA CustomStep ==
  ASSUME LG!LoggingAssumption, LogShape, CustomIsSet, [LG!Next]_(LG!vars)
  PROVE  CustomIsSet'
<1> USE DEF LG!LoggingAssumption, LG!At, LG!L, LG!Goes, LogShape, OnceShape, RunShape,
    LoggerIsKnown,
    Sinks, Makers, Once, CustomIsSet
<1>1. ASSUME NEW g \in Users, NEW l \in Loggers, NEW level \in Levels, LG!Log(g, l, level)
      PROVE  CustomIsSet'
  BY <1>1 DEF LG!Log, LG!Calls, LG!Idle
<1>2. ASSUME NEW g \in Users, NEW p \in Apps \cup {ModLog}, LG!Initialize(g, p)
      PROVE  CustomIsSet'
  BY <1>2 DEF LG!Initialize, LG!Calls, LG!Idle
<1>3. ASSUME NEW g \in Users, NEW m \in Loggers \cup {None}, NEW level \in Levels,
             LG!SetLevel(g, m, level)
      PROVE  CustomIsSet'
  BY <1>3 DEF LG!SetLevel, LG!Calls
<1>4. ASSUME NEW g \in Users, LG!EnterLogger(g)
      PROVE  CustomIsSet'
  BY <1>4 DEF LG!EnterLogger
<1>5. ASSUME NEW g \in Users, LG!EnterProvider(g)
      PROVE  CustomIsSet'
  BY <1>5 DEF LG!EnterProvider
<1>6. ASSUME NEW g \in Users, LG!SetProvider(g)
      PROVE  CustomIsSet'
  BY <1>6 DEF LG!SetProvider
<1>7. ASSUME NEW g \in Users, LG!GetLogger(g)
      PROVE  CustomIsSet'
  BY <1>7 DEF LG!GetLogger
<1>8. ASSUME NEW g \in Users, LG!Ask(g)
      PROVE  CustomIsSet'
  BY <1>8 DEF LG!Ask
<1>9. ASSUME NEW g \in Users, LG!EnterCustom(g)
      PROVE  CustomIsSet'
  <2>1. CASE latch[LG!L(g)].once = Nobody
    <3>1. /\ latch' = [latch EXCEPT ![LG!L(g)].once = g]
          /\ run' = [run EXCEPT ![g].at = "load"]
          /\ LG!At(g, "custom") /\ UNCHANGED <<provider, modlog, logger>>
      BY <1>9, <2>1 DEF LG!EnterCustom
    <3> QED
      BY <2>1, <3>1
  <2>2. CASE latch[LG!L(g)].once = Done
    <3> DEFINE k == IF latch[LG!L(g)].custom THEN modlog.provider ELSE ModLog
    <3>1. /\ run' = [run EXCEPT ![g].at = "write", ![g].sink = k]
          /\ LG!At(g, "custom") /\ UNCHANGED <<provider, modlog, logger, latch>>
      BY <1>9, <2>2 DEF LG!EnterCustom
    <3> QED
      BY <2>2, <3>1
  <2> QED
    BY <1>9, <2>1, <2>2 DEF LG!EnterCustom
<1>10. ASSUME NEW g \in Users, LG!Load(g)
      PROVE  CustomIsSet'
  BY <1>10 DEF LG!Load
<1>11. ASSUME NEW g \in Users, LG!Write(g)
      PROVE  CustomIsSet'
  BY <1>11 DEF LG!Write, LG!Idle
<1>12. ASSUME NEW g \in Users, LG!BeginInit(g)
      PROVE  CustomIsSet'
  BY <1>12 DEF LG!BeginInit, LG!Calls
<1>13. ASSUME NEW g \in Users, LG!InitProvider(g)
      PROVE  CustomIsSet'
  BY <1>13 DEF LG!InitProvider
<1>14. ASSUME NEW g \in Users, LG!InitFlag(g)
      PROVE  CustomIsSet'
  BY <1>14 DEF LG!InitFlag
<1>15. CASE UNCHANGED LG!vars
  BY <1>15 DEF LG!vars
<1> QED
  BY <1>1, <1>2, <1>3, <1>4, <1>5, <1>6, <1>7, <1>8, <1>9, <1>10, <1>11, <1>12,
     <1>13, <1>14, <1>15
  DEF LG!Next, LG!Goroutine

\* One goroutine loads the flag for a Log.
LEMMA LatchStep ==
  ASSUME LG!LoggingAssumption, LogShape, LatchIsHeld, [LG!Next]_(LG!vars)
  PROVE  LatchIsHeld'
<1> USE DEF LG!LoggingAssumption, LG!At, LG!L, LG!Goes, LogShape, OnceShape, RunShape,
    LoggerIsKnown,
    Sinks, Makers, Once, LatchIsHeld
<1>1. ASSUME NEW g \in Users, NEW l \in Loggers, NEW level \in Levels, LG!Log(g, l, level)
      PROVE  LatchIsHeld'
  BY <1>1 DEF LG!Log, LG!Calls, LG!Idle
<1>2. ASSUME NEW g \in Users, NEW p \in Apps \cup {ModLog}, LG!Initialize(g, p)
      PROVE  LatchIsHeld'
  BY <1>2 DEF LG!Initialize, LG!Calls, LG!Idle
<1>3. ASSUME NEW g \in Users, NEW m \in Loggers \cup {None}, NEW level \in Levels,
             LG!SetLevel(g, m, level)
      PROVE  LatchIsHeld'
  BY <1>3 DEF LG!SetLevel, LG!Calls
<1>4. ASSUME NEW g \in Users, LG!EnterLogger(g)
      PROVE  LatchIsHeld'
  <2>1. CASE logger[LG!L(g)].once = Nobody
    <3>1. /\ logger' = [logger EXCEPT ![LG!L(g)].once = g]
          /\ run' = [run EXCEPT ![g].at = "provider"]
          /\ LG!At(g, "logger") /\ UNCHANGED <<provider, modlog, latch>>
      BY <1>4, <2>1 DEF LG!EnterLogger
    <3> QED
      BY <2>1, <3>1
  <2>2. CASE logger[LG!L(g)].once = Done
    <3>1. /\ run' = [run EXCEPT ![g].at = "ask"]
          /\ LG!At(g, "logger") /\ UNCHANGED <<provider, modlog, logger, latch>>
      BY <1>4, <2>2 DEF LG!EnterLogger
    <3> QED
      BY <2>2, <3>1
  <2> QED
    BY <1>4, <2>1, <2>2 DEF LG!EnterLogger
<1>5. ASSUME NEW g \in Users, LG!EnterProvider(g)
      PROVE  LatchIsHeld'
  BY <1>5 DEF LG!EnterProvider
<1>6. ASSUME NEW g \in Users, LG!SetProvider(g)
      PROVE  LatchIsHeld'
  BY <1>6 DEF LG!SetProvider
<1>7. ASSUME NEW g \in Users, LG!GetLogger(g)
      PROVE  LatchIsHeld'
  BY <1>7 DEF LG!GetLogger
<1>8. ASSUME NEW g \in Users, LG!Ask(g)
      PROVE  LatchIsHeld'
  BY <1>8 DEF LG!Ask
<1>9. ASSUME NEW g \in Users, LG!EnterCustom(g)
      PROVE  LatchIsHeld'
  <2>1. CASE latch[LG!L(g)].once = Nobody
    <3>1. /\ latch' = [latch EXCEPT ![LG!L(g)].once = g]
          /\ run' = [run EXCEPT ![g].at = "load"]
          /\ LG!At(g, "custom") /\ UNCHANGED <<provider, modlog, logger>>
      BY <1>9, <2>1 DEF LG!EnterCustom
    <3> QED
      BY <2>1, <3>1
  <2>2. CASE latch[LG!L(g)].once = Done
    <3> DEFINE k == IF latch[LG!L(g)].custom THEN modlog.provider ELSE ModLog
    <3>1. /\ run' = [run EXCEPT ![g].at = "write", ![g].sink = k]
          /\ LG!At(g, "custom") /\ UNCHANGED <<provider, modlog, logger, latch>>
      BY <1>9, <2>2 DEF LG!EnterCustom
    <3> HIDE DEF k
    <3> QED
      BY <2>2, <3>1
  <2> QED
    BY <1>9, <2>1, <2>2 DEF LG!EnterCustom
<1>10. ASSUME NEW g \in Users, LG!Load(g)
      PROVE  LatchIsHeld'
  BY <1>10 DEF LG!Load
<1>11. ASSUME NEW g \in Users, LG!Write(g)
      PROVE  LatchIsHeld'
  BY <1>11 DEF LG!Write, LG!Idle
<1>12. ASSUME NEW g \in Users, LG!BeginInit(g)
      PROVE  LatchIsHeld'
  BY <1>12 DEF LG!BeginInit, LG!Calls
<1>13. ASSUME NEW g \in Users, LG!InitProvider(g)
      PROVE  LatchIsHeld'
  BY <1>13 DEF LG!InitProvider
<1>14. ASSUME NEW g \in Users, LG!InitFlag(g)
      PROVE  LatchIsHeld'
  BY <1>14 DEF LG!InitFlag
<1>15. CASE UNCHANGED LG!vars
  BY <1>15 DEF LG!vars
<1> QED
  BY <1>1, <1>2, <1>3, <1>4, <1>5, <1>6, <1>7, <1>8, <1>9, <1>10, <1>11, <1>12,
     <1>13, <1>14, <1>15
  DEF LG!Next, LG!Goroutine

\* Who holds a once stays in it until it is done.
LEMMA HeldStep ==
  ASSUME LG!LoggingAssumption, LogShape, HeldByOne, [LG!Next]_(LG!vars)
  PROVE  HeldByOne'
<1> USE DEF LG!LoggingAssumption, LG!At, LG!L, LG!Goes, LogShape, OnceShape, RunShape,
    LoggerIsKnown,
    Sinks, Makers, Once, HeldByOne
<1>1. ASSUME NEW g \in Users, NEW l \in Loggers, NEW level \in Levels, LG!Log(g, l, level)
      PROVE  HeldByOne'
  BY <1>1 DEF LG!Log, LG!Calls, LG!Idle
<1>2. ASSUME NEW g \in Users, NEW p \in Apps \cup {ModLog}, LG!Initialize(g, p)
      PROVE  HeldByOne'
  BY <1>2 DEF LG!Initialize, LG!Calls, LG!Idle
<1>3. ASSUME NEW g \in Users, NEW m \in Loggers \cup {None}, NEW level \in Levels,
             LG!SetLevel(g, m, level)
      PROVE  HeldByOne'
  BY <1>3 DEF LG!SetLevel, LG!Calls
<1>4. ASSUME NEW g \in Users, LG!EnterLogger(g)
      PROVE  HeldByOne'
  <2>1. CASE logger[LG!L(g)].once = Nobody
    <3>1. /\ logger' = [logger EXCEPT ![LG!L(g)].once = g]
          /\ run' = [run EXCEPT ![g].at = "provider"]
          /\ LG!At(g, "logger") /\ UNCHANGED <<provider, modlog, latch>>
      BY <1>4, <2>1 DEF LG!EnterLogger
    <3> QED
      BY <2>1, <3>1
  <2>2. CASE logger[LG!L(g)].once = Done
    <3>1. /\ run' = [run EXCEPT ![g].at = "ask"]
          /\ LG!At(g, "logger") /\ UNCHANGED <<provider, modlog, logger, latch>>
      BY <1>4, <2>2 DEF LG!EnterLogger
    <3> QED
      BY <2>2, <3>1
  <2> QED
    BY <1>4, <2>1, <2>2 DEF LG!EnterLogger
<1>5. ASSUME NEW g \in Users, LG!EnterProvider(g)
      PROVE  HeldByOne'
  <2>1. CASE provider.once = Nobody
    <3>1. /\ run' = [run EXCEPT ![g].at = "set"]
          /\ LG!At(g, "provider") /\ UNCHANGED <<modlog, logger, latch>>
      BY <1>5, <2>1 DEF LG!EnterProvider
    <3> QED
      BY <2>1, <3>1
  <2>2. CASE provider.once = Done /\ LG!L(g) = None
    <3>1. /\ run' = [run EXCEPT ![g].at = "idle"]
          /\ LG!At(g, "provider") /\ UNCHANGED <<modlog, logger, latch>>
      BY <1>5, <2>2 DEF LG!EnterProvider
    <3> QED
      BY <2>2, <3>1
  <2>3. CASE provider.once = Done /\ LG!L(g) # None
    <3>1. /\ run' = [run EXCEPT ![g].at = "get"]
          /\ LG!At(g, "provider") /\ UNCHANGED <<modlog, logger, latch>>
      BY <1>5, <2>3 DEF LG!EnterProvider
    <3> QED
      BY <2>3, <3>1
  <2> QED
    BY <1>5, <2>1, <2>2, <2>3 DEF LG!EnterProvider
<1>6. ASSUME NEW g \in Users, LG!SetProvider(g)
      PROVE  HeldByOne'
  BY <1>6 DEF LG!SetProvider
<1>7. ASSUME NEW g \in Users, LG!GetLogger(g)
      PROVE  HeldByOne'
  BY <1>7 DEF LG!GetLogger
<1>8. ASSUME NEW g \in Users, LG!Ask(g)
      PROVE  HeldByOne'
  BY <1>8 DEF LG!Ask
<1>9. ASSUME NEW g \in Users, LG!EnterCustom(g)
      PROVE  HeldByOne'
  <2>1. CASE latch[LG!L(g)].once = Nobody
    <3>1. /\ latch' = [latch EXCEPT ![LG!L(g)].once = g]
          /\ run' = [run EXCEPT ![g].at = "load"]
          /\ LG!At(g, "custom") /\ UNCHANGED <<provider, modlog, logger>>
      BY <1>9, <2>1 DEF LG!EnterCustom
    <3> QED
      BY <2>1, <3>1
  <2>2. CASE latch[LG!L(g)].once = Done
    <3> DEFINE k == IF latch[LG!L(g)].custom THEN modlog.provider ELSE ModLog
    <3>1. /\ run' = [run EXCEPT ![g].at = "write", ![g].sink = k]
          /\ LG!At(g, "custom") /\ UNCHANGED <<provider, modlog, logger, latch>>
      BY <1>9, <2>2 DEF LG!EnterCustom
    <3> HIDE DEF k
    <3>2. \A h \in Users : h # g => run'[h] = run[h]
      BY <3>1
    <3>3. \A l \in Loggers : logger[l].once # g /\ latch[l].once # g
      BY <3>1
    <3> QED
      BY <3>1, <3>2, <3>3
  <2> QED
    BY <1>9, <2>1, <2>2 DEF LG!EnterCustom
<1>10. ASSUME NEW g \in Users, LG!Load(g)
      PROVE  HeldByOne'
  BY <1>10 DEF LG!Load
<1>11. ASSUME NEW g \in Users, LG!Write(g)
      PROVE  HeldByOne'
  BY <1>11 DEF LG!Write, LG!Idle
<1>12. ASSUME NEW g \in Users, LG!BeginInit(g)
      PROVE  HeldByOne'
  BY <1>12 DEF LG!BeginInit, LG!Calls
<1>13. ASSUME NEW g \in Users, LG!InitProvider(g)
      PROVE  HeldByOne'
  BY <1>13 DEF LG!InitProvider
<1>14. ASSUME NEW g \in Users, LG!InitFlag(g)
      PROVE  HeldByOne'
  BY <1>14 DEF LG!InitFlag
<1>15. CASE UNCHANGED LG!vars
  BY <1>15 DEF LG!vars
<1> QED
  BY <1>1, <1>2, <1>3, <1>4, <1>5, <1>6, <1>7, <1>8, <1>9, <1>10, <1>11, <1>12,
     <1>13, <1>14, <1>15
  DEF LG!Next, LG!Goroutine

\* What was set for a logger stays.
LEMMA SinkStep ==
  ASSUME LG!LoggingAssumption, LogShape, ProviderIsSet, LoggerIsSet, CustomIsSet, LatchIsHeld,
         SinkIsSet, [LG!Next]_(LG!vars)
  PROVE  SinkIsSet'
<1> USE DEF LG!LoggingAssumption, LG!At, LG!L, LG!Goes, LogShape, OnceShape, RunShape,
    LoggerIsKnown,
    Sinks, Makers, Once,
          ProviderIsSet, LoggerIsSet, CustomIsSet, LatchIsHeld, SinkIsSet, SinkOf
<1>1. ASSUME NEW g \in Users, NEW l \in Loggers, NEW level \in Levels, LG!Log(g, l, level)
      PROVE  SinkIsSet'
  BY <1>1 DEF LG!Log, LG!Calls, LG!Idle
<1>2. ASSUME NEW g \in Users, NEW p \in Apps \cup {ModLog}, LG!Initialize(g, p)
      PROVE  SinkIsSet'
  BY <1>2 DEF LG!Initialize, LG!Calls, LG!Idle
<1>3. ASSUME NEW g \in Users, NEW m \in Loggers \cup {None}, NEW level \in Levels,
             LG!SetLevel(g, m, level)
      PROVE  SinkIsSet'
  BY <1>3 DEF LG!SetLevel, LG!Calls
<1>4. ASSUME NEW g \in Users, LG!EnterLogger(g)
      PROVE  SinkIsSet'
  <2>1. CASE logger[LG!L(g)].once = Nobody
    <3>1. /\ logger' = [logger EXCEPT ![LG!L(g)].once = g]
          /\ run' = [run EXCEPT ![g].at = "provider"]
          /\ LG!At(g, "logger") /\ UNCHANGED <<provider, modlog, latch>>
      BY <1>4, <2>1 DEF LG!EnterLogger
    <3> QED
      BY <2>1, <3>1
  <2>2. CASE logger[LG!L(g)].once = Done
    <3>1. /\ run' = [run EXCEPT ![g].at = "ask"]
          /\ LG!At(g, "logger") /\ UNCHANGED <<provider, modlog, logger, latch>>
      BY <1>4, <2>2 DEF LG!EnterLogger
    <3> QED
      BY <2>2, <3>1
  <2> QED
    BY <1>4, <2>1, <2>2 DEF LG!EnterLogger
<1>5. ASSUME NEW g \in Users, LG!EnterProvider(g)
      PROVE  SinkIsSet'
  <2>1. /\ UNCHANGED <<modlog, logger, latch>>
        /\ \E s \in {"set", "idle", "get"} : run' = [run EXCEPT ![g].at = s]
    BY <1>5 DEF LG!EnterProvider
  <2> QED
    BY <2>1
<1>6. ASSUME NEW g \in Users, LG!SetProvider(g)
      PROVE  SinkIsSet'
  BY <1>6 DEF LG!SetProvider
<1>7. ASSUME NEW g \in Users, LG!GetLogger(g)
      PROVE  SinkIsSet'
  BY <1>7 DEF LG!GetLogger
<1>8. ASSUME NEW g \in Users, LG!Ask(g)
      PROVE  SinkIsSet'
  BY <1>8 DEF LG!Ask
<1>9. ASSUME NEW g \in Users, LG!EnterCustom(g)
      PROVE  SinkIsSet'
  <2>1. CASE latch[LG!L(g)].once = Nobody
    <3>1. /\ latch' = [latch EXCEPT ![LG!L(g)].once = g]
          /\ run' = [run EXCEPT ![g].at = "load"]
          /\ LG!At(g, "custom") /\ UNCHANGED <<provider, modlog, logger>>
      BY <1>9, <2>1 DEF LG!EnterCustom
    <3> QED
      BY <2>1, <3>1
  <2>2. CASE latch[LG!L(g)].once = Done
    <3> DEFINE k == IF latch[LG!L(g)].custom THEN modlog.provider ELSE ModLog
    <3>1. /\ run' = [run EXCEPT ![g].at = "write", ![g].sink = k]
          /\ LG!At(g, "custom") /\ UNCHANGED <<provider, modlog, logger, latch>>
      BY <1>9, <2>2 DEF LG!EnterCustom
    <3> QED
      BY <2>2, <3>1
  <2> QED
    BY <1>9, <2>1, <2>2 DEF LG!EnterCustom
<1>10. ASSUME NEW g \in Users, LG!Load(g)
      PROVE  SinkIsSet'
  BY <1>10 DEF LG!Load
<1>11. ASSUME NEW g \in Users, LG!Write(g)
      PROVE  SinkIsSet'
  BY <1>11 DEF LG!Write, LG!Idle
<1>12. ASSUME NEW g \in Users, LG!BeginInit(g)
      PROVE  SinkIsSet'
  BY <1>12 DEF LG!BeginInit, LG!Calls
<1>13. ASSUME NEW g \in Users, LG!InitProvider(g)
      PROVE  SinkIsSet'
  BY <1>13 DEF LG!InitProvider
<1>14. ASSUME NEW g \in Users, LG!InitFlag(g)
      PROVE  SinkIsSet'
  BY <1>14 DEF LG!InitFlag
<1>15. CASE UNCHANGED LG!vars
  BY <1>15 DEF LG!vars
<1> QED
  BY <1>1, <1>2, <1>3, <1>4, <1>5, <1>6, <1>7, <1>8, <1>9, <1>10, <1>11, <1>12,
     <1>13, <1>14, <1>15
  DEF LG!Next, LG!Goroutine

\* So two messages of one logger go to one sink.
LEMMA SinksStep ==
  ASSUME LG!LoggingAssumption, LogShape, ProviderIsSet, LoggerIsSet, CustomIsSet, LatchIsHeld,
         SinkIsSet, SinkIsSet', [LG!Next]_(LG!vars)
  PROVE  LG!SinksStayStep
<1> USE DEF LG!LoggingAssumption, LG!At, LG!L, LG!Goes, LogShape, OnceShape, RunShape,
    LoggerIsKnown,
    Sinks, Makers, Once,
          ProviderIsSet, LoggerIsSet, CustomIsSet, LatchIsHeld, SinkIsSet,
    SinkOf, LG!SinksStayStep
<1>1. ASSUME NEW g \in Users, NEW l \in Loggers, NEW level \in Levels, LG!Log(g, l, level)
      PROVE  LG!SinksStayStep
  BY <1>1 DEF LG!Log, LG!Calls, LG!Idle
<1>2. ASSUME NEW g \in Users, NEW p \in Apps \cup {ModLog}, LG!Initialize(g, p)
      PROVE  LG!SinksStayStep
  BY <1>2 DEF LG!Initialize, LG!Calls, LG!Idle
<1>3. ASSUME NEW g \in Users, NEW m \in Loggers \cup {None}, NEW level \in Levels,
             LG!SetLevel(g, m, level)
      PROVE  LG!SinksStayStep
  BY <1>3 DEF LG!SetLevel, LG!Calls
<1>4. ASSUME NEW g \in Users, LG!EnterLogger(g)
      PROVE  LG!SinksStayStep
  <2>1. CASE logger[LG!L(g)].once = Nobody
    <3>1. /\ logger' = [logger EXCEPT ![LG!L(g)].once = g]
          /\ run' = [run EXCEPT ![g].at = "provider"]
          /\ LG!At(g, "logger") /\ UNCHANGED <<provider, modlog, latch>>
      BY <1>4, <2>1 DEF LG!EnterLogger
    <3> QED
      BY <2>1, <3>1
  <2>2. CASE logger[LG!L(g)].once = Done
    <3>1. /\ run' = [run EXCEPT ![g].at = "ask"]
          /\ LG!At(g, "logger") /\ UNCHANGED <<provider, modlog, logger, latch>>
      BY <1>4, <2>2 DEF LG!EnterLogger
    <3> QED
      BY <2>2, <3>1
  <2> QED
    BY <1>4, <2>1, <2>2 DEF LG!EnterLogger
<1>5. ASSUME NEW g \in Users, LG!EnterProvider(g)
      PROVE  LG!SinksStayStep
  BY <1>5 DEF LG!EnterProvider
<1>6. ASSUME NEW g \in Users, LG!SetProvider(g)
      PROVE  LG!SinksStayStep
  BY <1>6 DEF LG!SetProvider
<1>7. ASSUME NEW g \in Users, LG!GetLogger(g)
      PROVE  LG!SinksStayStep
  BY <1>7 DEF LG!GetLogger
<1>8. ASSUME NEW g \in Users, LG!Ask(g)
      PROVE  LG!SinksStayStep
  BY <1>8 DEF LG!Ask
<1>9. ASSUME NEW g \in Users, LG!EnterCustom(g)
      PROVE  LG!SinksStayStep
  <2>1. CASE latch[LG!L(g)].once = Nobody
    <3>1. /\ latch' = [latch EXCEPT ![LG!L(g)].once = g]
          /\ run' = [run EXCEPT ![g].at = "load"]
          /\ LG!At(g, "custom") /\ UNCHANGED <<provider, modlog, logger>>
      BY <1>9, <2>1 DEF LG!EnterCustom
    <3> QED
      BY <2>1, <3>1
  <2>2. CASE latch[LG!L(g)].once = Done
    <3> DEFINE k == IF latch[LG!L(g)].custom THEN modlog.provider ELSE ModLog
    <3>1. /\ run' = [run EXCEPT ![g].at = "write", ![g].sink = k]
          /\ LG!At(g, "custom") /\ UNCHANGED <<provider, modlog, logger, latch>>
      BY <1>9, <2>2 DEF LG!EnterCustom
    <3> QED
      BY <2>2, <3>1
  <2> QED
    BY <1>9, <2>1, <2>2 DEF LG!EnterCustom
<1>10. ASSUME NEW g \in Users, LG!Load(g)
      PROVE  LG!SinksStayStep
  BY <1>10 DEF LG!Load
<1>11. ASSUME NEW g \in Users, LG!Write(g)
      PROVE  LG!SinksStayStep
  BY <1>11 DEF LG!Write, LG!Idle
<1>12. ASSUME NEW g \in Users, LG!BeginInit(g)
      PROVE  LG!SinksStayStep
  BY <1>12 DEF LG!BeginInit, LG!Calls
<1>13. ASSUME NEW g \in Users, LG!InitProvider(g)
      PROVE  LG!SinksStayStep
  BY <1>13 DEF LG!InitProvider
<1>14. ASSUME NEW g \in Users, LG!InitFlag(g)
      PROVE  LG!SinksStayStep
  BY <1>14 DEF LG!InitFlag
<1>15. CASE UNCHANGED LG!vars
  BY <1>15 DEF LG!vars
<1> QED
  BY <1>1, <1>2, <1>3, <1>4, <1>5, <1>6, <1>7, <1>8, <1>9, <1>10, <1>11, <1>12,
     <1>13, <1>14, <1>15
  DEF LG!Next, LG!Goroutine

LEMMA LogInvariance == ASSUME LG!LoggingAssumption PROVE LG!Spec => []LogInv
<1>1. LG!Init => LogInv
  BY InitLogInv
<1>2. LogInv /\ [LG!Next]_(LG!vars) => LogInv'
  BY LogShapeStep, ProviderStep, LoggerStep, CustomStep, LatchStep, HeldStep, SinkStep DEF LogInv
<1> QED
  BY <1>1, <1>2, PTL DEF LG!Spec

-----------------------------------------------------------------------------
\* All loggers of a process log with one provider, and what is written has somewhere to
\* go, however goroutines that log first and SDKs that are assembled interleave
\* (logger.go: loggerProvider, Initialize; modlog.go: loadCustomLogger).
THEOREM ProviderIsOne == ASSUME LG!LoggingAssumption PROVE LG!Spec => []LG!OneProvider
<1>1. LogInv => LG!OneProvider
  <2> SUFFICES ASSUME LogInv
               PROVE  LG!OneProvider
    OBVIOUS
  <2>1. \A l \in Loggers : logger[l].instance \in {None, provider.is}
    BY DEF LogInv, LoggerIsSet
  <2>2. ASSUME NEW g \in Users, LG!At(g, "ask")
        PROVE  logger[LG!L(g)].instance # None
    BY <2>2 DEF LogInv, LoggerIsSet
  <2>3. ASSUME NEW g \in Users, LG!At(g, "write")
        PROVE  run[g].sink # None
    <3>1. LG!L(g) \in Loggers
      BY <2>3 DEF LogInv, LogShape, LoggerIsKnown, RunShape, LG!At
    <3>2. run[g].sink = SinkOf(LG!L(g)) /\ logger[LG!L(g)].instance # None
      BY <2>3 DEF LogInv, LoggerIsSet, SinkIsSet
    <3>3. latch[LG!L(g)].custom => modlog.provider = Custom
      BY <3>1 DEF LogInv, CustomIsSet
    <3> QED
      BY <3>2, <3>3 DEF SinkOf, LG!LoggingAssumption
  <2> QED
    BY <2>1, <2>2, <2>3 DEF LG!OneProvider
<1> QED
  BY <1>1, LogInvariance, PTL

\* Messages of a logger go where its first one went, though a custom logger be installed
\* in between (InitLogger).
THEOREM SinksDoStay == ASSUME LG!LoggingAssumption PROVE LG!Spec => LG!SinksStay
<1>1. LogInv /\ LogInv' /\ [LG!Next]_(LG!vars) => [LG!SinksStayStep]_(LG!vars)
  BY SinksStep DEF LogInv
<1> QED
  BY <1>1, LogInvariance, PTL DEF LG!Spec, LG!SinksStay
(***************************************************************************)
(* The key store: a file, and a place in memory, has the key that is named *)
(* by it, whoever writes and reads at a time.                              *)
(***************************************************************************)

\* What a user does fits: who stores has a key to store, and who gets has an SKI.
CallPlaces == {"idle", "store", "write", "lookup", "names", "load"}
CallRecord ==
  [at : CallPlaces, op : {None, "generate", "import", "get", "sign"},
   key : CS!Keys \cup {None}, ski : CS!SKIs \cup {None}, suffix : CS!Suffixes \cup {None},
   result : {None, "ok", "error", "signed"}]
Proper(c) ==
  /\ c \in CallRecord
  /\ c.at \in {"store", "write"} => c.key \in CS!Keys /\ c.op # "get"
  /\ c.at \in {"lookup", "names", "load"} => c.ski \in CS!SKIs
  /\ c.op = "get" /\ c.result = "ok" => c.key \in CS!Keys /\ CS!Ski(c.key) = c.ski
CallsProper ==
  /\ DOMAIN calls = Users /\ calls = [u \in Users |-> calls[u]]
  /\ \A u \in Users : Proper(calls[u])

FilesNamed(files) ==
  /\ files \in [CS!Names -> CS!Keys \cup {None, Torn}]
  /\ \A n \in CS!Names : files[n] \in CS!Keys => CS!Name(files[n]) = n
MemoryNamed(memory) ==
  /\ memory \in [CS!SKIs -> CS!Keys \cup {None}]
  /\ \A s \in CS!SKIs : memory[s] # None => CS!Ski(memory[s]) = s
StoreRecord ==
  [kind : Kinds, files : [CS!Names -> CS!Keys \cup {None, Torn}],
   others : SUBSET CS!Keys, memory : [CS!SKIs -> CS!Keys \cup {None}]]
StoreNamed ==
  store \in StoreRecord /\ FilesNamed(store.files) /\ MemoryNamed(store.memory)

CountsBounded == counts \in [calls : 0 .. MaxCalls, faults : 0 .. MaxFaults]

\* The padding of a ciphertext is between one byte and a block.
TextPadded ==
  /\ text = [at |-> text.at, length |-> text.length, last |-> text.last,
             result |-> text.result]
  /\ text.length \in Nat
  /\ text.at = "cipher" => text.last \in 1 .. BlockSize
  /\ CS!PlaintextComesBack

CryptoInv == CallsProper /\ StoreNamed /\ CountsBounded /\ TextPadded

-----------------------------------------------------------------------------
\* A key has a name, by its SKI, and no other key has it.
LEMMA Naming ==
  ASSUME NEW k \in CS!Keys
  PROVE  /\ CS!Ski(k) \in CS!SKIs /\ CS!Name(k) \in CS!Names
         /\ \A j \in CS!Keys : CS!Name(j) = CS!Name(k) => j = k
         /\ \A ski, suffix : CS!Name(k) = <<ski, suffix>> => CS!Ski(k) = ski
<1>1. CS!Ski(k) \in CS!SKIs
  BY DEF CS!SKIs
<1>2. CS!Name(k) \in CS!Names
  BY <1>1 DEF CS!Name, CS!Names, CS!Suffixes, CS!Keys
<1>3. ASSUME NEW j \in CS!Keys, CS!Name(j) = CS!Name(k)
      PROVE  j = k
  BY <1>3 DEF CS!Name, CS!Ski, CS!Keys
<1>4. \A ski, suffix : CS!Name(k) = <<ski, suffix>> => CS!Ski(k) = ski
  BY DEF CS!Name
<1> QED
  BY <1>1, <1>2, <1>3, <1>4

LEMMA InitCryptoInv ==
  ASSUME CS!CryptoAssumption, CS!Init
  PROVE  CryptoInv
<1> USE DEF CS!CryptoAssumption
<1>1. CallsProper
  <2>1. Proper(CS!NoCall)
    BY DEF Proper, CS!NoCall, CallRecord, CallPlaces
  <2> QED
    BY <2>1 DEF CS!Init, CallsProper
<1>2. StoreNamed
  <2>1. /\ store.files = [n \in CS!Names |-> None] /\ store.memory = [s \in CS!SKIs |-> None]
        /\ store.kind \in Kinds /\ store.others \in SUBSET [of : Materials, is : {"sk"}]
        /\ store = [kind |-> store.kind, files |-> store.files, others |-> store.others,
                    memory |-> store.memory]
    BY DEF CS!Init
  <2>2. store.others \subseteq CS!Keys
    BY <2>1 DEF CS!Keys
  <2>3. FilesNamed(store.files) /\ MemoryNamed(store.memory)
    BY <2>1 DEF FilesNamed, MemoryNamed
  <2>4. store \in StoreRecord
    BY <2>1, <2>2, <2>3 DEF StoreRecord, FilesNamed, MemoryNamed
  <2> QED
    BY <2>3, <2>4 DEF StoreNamed
<1>3. CountsBounded
  BY DEF CS!Init, CountsBounded
<1>4. TextPadded
  BY DEF CS!Init, TextPadded, CS!PlaintextComesBack
<1> QED
  BY <1>1, <1>2, <1>3, <1>4 DEF CryptoInv

\* A step of one user.
LEMMA OneCallProper ==
  ASSUME CallsProper, NEW u \in Users, NEW c, Proper(c), calls' = [calls EXCEPT ![u] = c]
  PROVE  CallsProper'
<1>1. \A v \in Users : calls'[v] = IF v = u THEN c ELSE calls[v]
  BY DEF CallsProper
<1>2. DOMAIN calls' = Users /\ calls' = [v \in Users |-> calls'[v]]
  BY DEF CallsProper
<1> QED
  BY <1>1, <1>2 DEF CallsProper

\* A call that ends without a key of its own choosing
LEMMA EndsProper ==
  ASSUME CallsProper, NEW u \in Users, NEW x \in {"ok", "error"},
         calls[u].op # "get" \/ x = "error", calls' = CS!Ends(u, x)
  PROVE  CallsProper'
<1> DEFINE c == [CS!NoCall EXCEPT !.op = calls[u].op, !.ski = calls[u].ski,
                                  !.key = calls[u].key, !.result = x]
<1>1. Proper(calls[u])
  BY DEF CallsProper
<1>2. Proper(c)
  BY <1>1 DEF Proper, CallRecord, CallPlaces, CS!NoCall
<1>3. calls' = [calls EXCEPT ![u] = c]
  BY DEF CS!Ends
<1> HIDE DEF c
<1> QED
  BY <1>2, <1>3, OneCallProper

\* What GetKey finds, in a file or by looking through them, is what was asked for.
LEMMA FoundProper ==
  ASSUME CS!CryptoAssumption, CallsProper, NEW u \in Users, NEW k \in CS!Keys \cup {None},
         calls[u].ski \in CS!SKIs, k # None => CS!Ski(k) = calls[u].ski, CS!Gets(u, k)
  PROVE  CallsProper'
<1> DEFINE c == [CS!NoCall EXCEPT !.op = "get", !.ski = calls[u].ski, !.key = k,
                                  !.result = IF k = None THEN "error" ELSE "ok"]
<1>1. Proper(c)
  BY DEF Proper, CallRecord, CallPlaces, CS!NoCall, CS!CryptoAssumption
<1>2. calls' = [calls EXCEPT ![u] = c]
  BY DEF CS!Gets
<1> HIDE DEF c
<1> QED
  BY <1>1, <1>2, OneCallProper

LEMMA LoadFinds ==
  ASSUME CS!CryptoAssumption, NEW files, FilesNamed(files), NEW ski \in CS!SKIs,
         NEW suffix \in CS!Suffixes, CS!Load(files, ski, suffix) # None
  PROVE  /\ CS!Load(files, ski, suffix) \in CS!Keys
         /\ CS!Ski(CS!Load(files, ski, suffix)) = ski
<1>1. <<ski, suffix>> \in CS!Names
  BY DEF CS!Names
<1>2. /\ files[<<ski, suffix>>] \in CS!Keys
      /\ CS!Load(files, ski, suffix) = files[<<ski, suffix>>]
  BY DEF CS!Load
<1>3. CS!Name(files[<<ski, suffix>>]) = <<ski, suffix>>
  BY <1>1, <1>2 DEF FilesNamed
<1> QED
  BY <1>2, <1>3, Naming

LEMMA FindFinds ==
  ASSUME NEW s, NEW ski, CS!Find(s, ski) # None
  PROVE  CS!Find(s, ski) \in CS!Keys /\ CS!Ski(CS!Find(s, ski)) = ski
<1> DEFINE sks == {k \in CS!Keys : /\ k.is = "sk" /\ CS!Ski(k) = ski
                                   /\ k \in s.others \/ \E n \in CS!Names : s.files[n] = k}
<1>1. CS!Find(s, ski) = IF sks = {} THEN None ELSE CHOOSE k \in sks : TRUE
  BY DEF CS!Find
<1>2. sks # {} => (CHOOSE k \in sks : TRUE) \in sks
  OBVIOUS
<1>3. \A k \in sks : k \in CS!Keys /\ CS!Ski(k) = ski
  OBVIOUS
<1> HIDE DEF sks
<1> QED
  BY <1>1, <1>2, <1>3

\* What a user does next fits what it did.
LEMMA CallsStep ==
  ASSUME CS!CryptoAssumption, CallsProper, StoreNamed, [CS!Next]_(CS!vars)
  PROVE  CallsProper'
<1>1. ASSUME NEW u \in Users, NEW k \in CS!Keys, NEW ephemeral \in BOOLEAN,
             CS!KeyGen(u, k, ephemeral)
      PROVE  CallsProper'
  <2> DEFINE c == [CS!NoCall EXCEPT !.op = "generate", !.key = k,
                 !.at = IF ephemeral THEN "idle" ELSE "store",
                 !.result = IF ephemeral THEN "ok" ELSE None]
  <2>1. calls' = [calls EXCEPT ![u] = c] /\ Proper(calls[u])
    BY <1>1 DEF CS!KeyGen, CallsProper, CS!Begin
  <2>2. Proper(c)
    BY <1>1, <2>1 DEF Proper, CallRecord, CallPlaces, CS!NoCall, CS!At, CS!Result,
                          CS!KeyGen, CS!Begin
  <2> HIDE DEF c
  <2> QED
    BY <2>1, <2>2, OneCallProper
<1>2. ASSUME NEW u \in Users, NEW k \in CS!Keys, NEW ephemeral \in BOOLEAN,
             CS!KeyImport(u, k, ephemeral)
      PROVE  CallsProper'
  <2> DEFINE c == [CS!NoCall EXCEPT !.op = "import", !.key = k,
                 !.at = IF ephemeral THEN "idle" ELSE "store",
                 !.result = IF ephemeral THEN "ok" ELSE None]
  <2>1. calls' = [calls EXCEPT ![u] = c] /\ Proper(calls[u])
    BY <1>2 DEF CS!KeyImport, CallsProper, CS!Begin
  <2>2. Proper(c)
    BY <1>2, <2>1 DEF Proper, CallRecord, CallPlaces, CS!NoCall, CS!At, CS!Result,
                          CS!KeyImport, CS!Begin
  <2> HIDE DEF c
  <2> QED
    BY <2>1, <2>2, OneCallProper
<1>3. ASSUME NEW u \in Users, CS!StoreNowhere(u)
      PROVE  CallsProper'
  BY <1>3, EndsProper DEF CS!StoreNowhere
<1>4. ASSUME NEW u \in Users, CS!StoreInMemory(u)
      PROVE  CallsProper'
  <2>1. calls[u].op # "get" /\ (calls' = CS!Ends(u, "ok") \/ calls' = CS!Ends(u, "error"))
    BY <1>4 DEF CS!StoreInMemory, CS!At, CallsProper, Proper
  <2> QED
    BY <2>1, EndsProper
<1>5. ASSUME NEW u \in Users, CS!OpenFile(u)
      PROVE  CallsProper'
  <2> DEFINE c == [calls[u] EXCEPT !.at = "write"]
  <2>1. calls' = [calls EXCEPT ![u] = c] /\ Proper(calls[u])
    BY <1>5 DEF CS!OpenFile, CallsProper
  <2>2. Proper(c)
    BY <1>5, <2>1 DEF Proper, CallRecord, CallPlaces, CS!NoCall, CS!At, CS!Result, CS!OpenFile
  <2> HIDE DEF c
  <2> QED
    BY <2>1, <2>2, OneCallProper
<1>6. ASSUME NEW u \in Users, CS!WriteFile(u)
      PROVE  CallsProper'
  <2>1. calls[u].op # "get" /\ (calls' = CS!Ends(u, "ok") \/ calls' = CS!Ends(u, "error"))
    BY <1>6 DEF CS!WriteFile, CS!At, CallsProper, Proper
  <2> QED
    BY <2>1, EndsProper
<1>7. ASSUME NEW u \in Users, CS!WriteFails(u)
      PROVE  CallsProper'
  <2>1. calls[u].op # "get" /\ (calls' = CS!Ends(u, "ok") \/ calls' = CS!Ends(u, "error"))
    BY <1>7 DEF CS!WriteFails, CS!At, CallsProper, Proper
  <2> QED
    BY <2>1, EndsProper
<1>8. ASSUME NEW u \in Users, CS!Lookup(u)
      PROVE  CallsProper'
  <2>1. calls[u].ski \in CS!SKIs
    BY <1>8 DEF CS!Lookup, CS!At, CallsProper, Proper
  <2>2. /\ store.memory[calls[u].ski] \in CS!Keys \cup {None}
        /\ store.memory[calls[u].ski] # None => CS!Ski(store.memory[calls[u].ski]) = calls[u].ski
    BY <2>1 DEF StoreNamed, MemoryNamed
  <2> QED
    BY <1>8, <2>1, <2>2, FoundProper DEF CS!Lookup
<1>9. ASSUME NEW u \in Users, CS!ReadNames(u)
      PROVE  CallsProper'
  <2> DEFINE s == CS!FirstSuffix(store.files, calls[u].ski)
             c == [calls[u] EXCEPT !.at = "load", !.suffix = s]
  <2>1. calls' = [calls EXCEPT ![u] = c] /\ Proper(calls[u]) /\ CS!At(u, "names")
    BY <1>9 DEF CS!ReadNames, CallsProper
  <2>2. s \in CS!Suffixes \cup {None}
    BY DEF CS!FirstSuffix, CS!Suffixes
  <2> HIDE DEF s
  <2>3. Proper(c)
    BY <2>1, <2>2 DEF Proper, CallRecord, CallPlaces, CS!At
  <2> HIDE DEF c
  <2> QED
    BY <2>1, <2>3, OneCallProper
<1>10. ASSUME NEW u \in Users, CS!LoadKey(u)
      PROVE  CallsProper'
  <2> DEFINE ski == calls[u].ski
             suffix == calls[u].suffix
             k == IF suffix = None THEN CS!Find(store, ski)
                  ELSE CS!Load(store.files, ski, suffix)
  <2>1. CS!Gets(u, k)
    BY <1>10 DEF CS!LoadKey
  <2>2. ski \in CS!SKIs /\ suffix \in CS!Suffixes \cup {None}
    BY <1>10 DEF CS!LoadKey, CS!At, CallsProper, Proper, CallRecord
  <2>3. FilesNamed(store.files)
    BY DEF StoreNamed
  <2>4. k # None => k \in CS!Keys /\ CS!Ski(k) = ski
    BY <2>2, <2>3, LoadFinds, FindFinds
  <2> HIDE DEF k
  <2> QED
    BY <2>1, <2>2, <2>4, FoundProper
<1>11. ASSUME NEW u \in Users, CS!Sign(u)
      PROVE  CallsProper'
  <2> DEFINE x == IF calls[u].key.is = "sk" THEN "signed" ELSE "error"
             c == [calls[u] EXCEPT !.op = "sign", !.result = x]
  <2>1. calls' = [calls EXCEPT ![u] = c] /\ Proper(calls[u]) /\ CS!At(u, "idle")
    BY <1>11 DEF CS!Sign, CallsProper
  <2>2. x \in {"signed", "error"}
    OBVIOUS
  <2> HIDE DEF x
  <2>3. Proper(c)
    BY <2>1, <2>2 DEF Proper, CallRecord, CS!At
  <2> HIDE DEF c
  <2> QED
    BY <2>1, <2>3, OneCallProper
<1>12. ASSUME NEW u \in Users, NEW ski \in CS!SKIs, CS!GetKey(u, ski)
      PROVE  CallsProper'
  <2> DEFINE s == IF store.kind = "file" THEN "names" ELSE "lookup"
             c == [CS!NoCall EXCEPT !.op = "get", !.ski = ski, !.at = s]
  <2>1. calls' = [calls EXCEPT ![u] = c]
    BY <1>12 DEF CS!GetKey
  <2>2. s \in {"names", "lookup"}
    OBVIOUS
  <2> HIDE DEF s
  <2>3. Proper(c)
    BY <2>2 DEF Proper, CallRecord, CallPlaces, CS!NoCall, CS!CryptoAssumption
  <2> HIDE DEF c
  <2> QED
    BY <2>1, <2>3, OneCallProper
<1>13. ASSUME NEW u \in Users, NEW length \in 0 .. MaxLength, CS!Encrypt(u, length)
      PROVE  CallsProper'
  BY <1>13 DEF CS!Encrypt, CallsProper
<1>14. ASSUME CS!Decrypt
      PROVE  CallsProper'
  BY <1>14 DEF CS!Decrypt, CallsProper
<1>15. CASE UNCHANGED CS!vars
  BY <1>15 DEF CS!vars, CallsProper
<1> QED
  BY <1>1, <1>2, <1>3, <1>4, <1>5, <1>6, <1>7, <1>8, <1>9, <1>10, <1>11,
     <1>12, <1>13, <1>14, <1>15
  DEF CS!Next

\* A key is written to the file of its name, and in memory only where none is; so what is
\* stored is not replaced by another key.
LEMMA StoreStep ==
  ASSUME CS!CryptoAssumption, CallsProper, StoreNamed, [CS!Next]_(CS!vars)
  PROVE  StoreNamed' /\ CS!KeysStayStep
<1> USE DEF CS!KeysStayStep, CS!Stays
<1>1. ASSUME NEW u \in Users, NEW k \in CS!Keys, NEW ephemeral \in BOOLEAN,
             CS!KeyGen(u, k, ephemeral)
      PROVE  StoreNamed' /\ CS!KeysStayStep
  BY <1>1 DEF CS!KeyGen, StoreNamed, CS!Begin
<1>2. ASSUME NEW u \in Users, NEW k \in CS!Keys, NEW ephemeral \in BOOLEAN,
             CS!KeyImport(u, k, ephemeral)
      PROVE  StoreNamed' /\ CS!KeysStayStep
  BY <1>2 DEF CS!KeyImport, StoreNamed, CS!Begin
<1>3. ASSUME NEW u \in Users, CS!StoreNowhere(u)
      PROVE  StoreNamed' /\ CS!KeysStayStep
  BY <1>3 DEF CS!StoreNowhere, StoreNamed
<1>4. ASSUME NEW u \in Users, CS!StoreInMemory(u)
      PROVE  StoreNamed' /\ CS!KeysStayStep
  <2> DEFINE k == calls[u].key
             memory == [store.memory EXCEPT ![CS!Ski(k)] = k]
  <2>1. k \in CS!Keys /\ CS!Ski(k) \in CS!SKIs
    BY <1>4, Naming DEF CS!StoreInMemory, CS!At, CallsProper, Proper
  <2>2. CASE store.memory[CS!Ski(k)] # None
    BY <1>4, <2>2 DEF CS!StoreInMemory, StoreNamed
  <2>3. CASE store.memory[CS!Ski(k)] = None
    <3>1. store' = [store EXCEPT !.memory = memory]
      BY <1>4, <2>3 DEF CS!StoreInMemory, StoreNamed, StoreRecord
    <3>2. /\ MemoryNamed(memory)
          /\ \A s \in CS!SKIs : store.memory[s] # None => memory[s] = store.memory[s]
      BY <2>1, <2>3 DEF MemoryNamed, StoreNamed
    <3> HIDE DEF memory
    <3>3. store' \in StoreRecord /\ store'.memory = memory /\ store'.files = store.files
      BY <3>1, <3>2 DEF StoreNamed, StoreRecord, MemoryNamed
    <3> QED
      BY <3>2, <3>3 DEF StoreNamed
  <2> QED
    BY <2>2, <2>3
<1>5. ASSUME NEW u \in Users, CS!OpenFile(u)
      PROVE  StoreNamed' /\ CS!KeysStayStep
  <2> DEFINE k == calls[u].key
             files == [store.files EXCEPT ![CS!Name(k)] = Torn]
  <2>1. k \in CS!Keys /\ CS!Name(k) \in CS!Names
    BY <1>5, Naming DEF CS!OpenFile, CS!At, CallsProper, Proper
  <2>2. store' = [store EXCEPT !.files = files]
    BY <1>5 DEF CS!OpenFile, StoreNamed, StoreRecord
  <2>3. FilesNamed(files)
    BY <2>1 DEF FilesNamed, StoreNamed, CS!CryptoAssumption
  <2>4. \A n \in CS!Names : n # CS!Name(k) => files[n] = store.files[n]
    BY DEF StoreNamed, FilesNamed
  <2>5. calls'[u].at = "write" /\ calls'[u].key = k
    BY <1>5 DEF CS!OpenFile, CallsProper, Proper, CallRecord
  <2> HIDE DEF files
  <2>6. store' \in StoreRecord /\ store'.files = files /\ store'.memory = store.memory
    BY <2>2, <2>3 DEF StoreNamed, StoreRecord, FilesNamed
  <2>7. StoreNamed'
    BY <2>3, <2>6 DEF StoreNamed
  <2>8. store.files[CS!Name(k)] \in CS!Keys => store.files[CS!Name(k)] = k
    BY <2>1, Naming DEF StoreNamed, FilesNamed
  <2> QED
    BY <2>1, <2>4, <2>5, <2>6, <2>7, <2>8
<1>6. ASSUME NEW u \in Users, CS!WriteFile(u)
      PROVE  StoreNamed' /\ CS!KeysStayStep
  <2> DEFINE k == calls[u].key
             files == [store.files EXCEPT ![CS!Name(k)] = k]
  <2>1. k \in CS!Keys /\ CS!Name(k) \in CS!Names
    BY <1>6, Naming DEF CS!WriteFile, CS!At, CallsProper, Proper
  <2>2. store' = [store EXCEPT !.files = files]
    BY <1>6 DEF CS!WriteFile, StoreNamed, StoreRecord
  <2>3. FilesNamed(files)
    BY <2>1 DEF FilesNamed, StoreNamed, CS!CryptoAssumption
  <2>4. \A n \in CS!Names : n # CS!Name(k) => files[n] = store.files[n]
    BY DEF StoreNamed, FilesNamed
  <2>5. files[CS!Name(k)] = k
    BY <2>1 DEF StoreNamed, FilesNamed
  <2> HIDE DEF files
  <2>6. store' \in StoreRecord /\ store'.files = files /\ store'.memory = store.memory
    BY <2>2, <2>3 DEF StoreNamed, StoreRecord, FilesNamed
  <2>7. StoreNamed'
    BY <2>3, <2>6 DEF StoreNamed
  <2>8. store.files[CS!Name(k)] \in CS!Keys => store.files[CS!Name(k)] = k
    BY <2>1, Naming DEF StoreNamed, FilesNamed
  <2> QED
    BY <2>1, <2>4, <2>5, <2>6, <2>7, <2>8
<1>7. ASSUME NEW u \in Users, CS!WriteFails(u)
      PROVE  StoreNamed' /\ CS!KeysStayStep
  BY <1>7 DEF CS!WriteFails, StoreNamed
<1>8. ASSUME NEW u \in Users, CS!Lookup(u)
      PROVE  StoreNamed' /\ CS!KeysStayStep
  BY <1>8 DEF CS!Lookup, StoreNamed
<1>9. ASSUME NEW u \in Users, CS!ReadNames(u)
      PROVE  StoreNamed' /\ CS!KeysStayStep
  BY <1>9 DEF CS!ReadNames, StoreNamed
<1>10. ASSUME NEW u \in Users, CS!LoadKey(u)
      PROVE  StoreNamed' /\ CS!KeysStayStep
  BY <1>10 DEF CS!LoadKey, StoreNamed
<1>11. ASSUME NEW u \in Users, CS!Sign(u)
      PROVE  StoreNamed' /\ CS!KeysStayStep
  BY <1>11 DEF CS!Sign, StoreNamed
<1>12. ASSUME NEW u \in Users, NEW ski \in CS!SKIs, CS!GetKey(u, ski)
      PROVE  StoreNamed' /\ CS!KeysStayStep
  BY <1>12 DEF CS!GetKey, StoreNamed
<1>13. ASSUME NEW u \in Users, NEW length \in 0 .. MaxLength, CS!Encrypt(u, length)
      PROVE  StoreNamed' /\ CS!KeysStayStep
  BY <1>13 DEF CS!Encrypt, StoreNamed
<1>14. ASSUME CS!Decrypt
      PROVE  StoreNamed' /\ CS!KeysStayStep
  BY <1>14 DEF CS!Decrypt, StoreNamed
<1>15. CASE UNCHANGED CS!vars
  BY <1>15 DEF CS!vars, StoreNamed
<1> QED
  BY <1>1, <1>2, <1>3, <1>4, <1>5, <1>6, <1>7, <1>8, <1>9, <1>10, <1>11,
     <1>12, <1>13, <1>14, <1>15
  DEF CS!Next

LEMMA CountsStep ==
  ASSUME CS!CryptoAssumption, CountsBounded, [CS!Next]_(CS!vars)
  PROVE  CountsBounded'
<1> USE DEF CS!CryptoAssumption, CountsBounded, CS!Call, CS!Begin
<1>1. ASSUME NEW u \in Users, NEW k \in CS!Keys, NEW ephemeral \in BOOLEAN,
             CS!KeyGen(u, k, ephemeral)
      PROVE  CountsBounded'
  BY <1>1 DEF CS!KeyGen
<1>2. ASSUME NEW u \in Users, NEW k \in CS!Keys, NEW ephemeral \in BOOLEAN,
             CS!KeyImport(u, k, ephemeral)
      PROVE  CountsBounded'
  BY <1>2 DEF CS!KeyImport
<1>3. ASSUME NEW u \in Users, CS!StoreNowhere(u)
      PROVE  CountsBounded'
  BY <1>3 DEF CS!StoreNowhere
<1>4. ASSUME NEW u \in Users, CS!StoreInMemory(u)
      PROVE  CountsBounded'
  BY <1>4 DEF CS!StoreInMemory
<1>5. ASSUME NEW u \in Users, CS!OpenFile(u)
      PROVE  CountsBounded'
  BY <1>5 DEF CS!OpenFile
<1>6. ASSUME NEW u \in Users, CS!WriteFile(u)
      PROVE  CountsBounded'
  BY <1>6 DEF CS!WriteFile
<1>7. ASSUME NEW u \in Users, CS!WriteFails(u)
      PROVE  CountsBounded'
  BY <1>7 DEF CS!WriteFails
<1>8. ASSUME NEW u \in Users, CS!Lookup(u)
      PROVE  CountsBounded'
  BY <1>8 DEF CS!Lookup
<1>9. ASSUME NEW u \in Users, CS!ReadNames(u)
      PROVE  CountsBounded'
  BY <1>9 DEF CS!ReadNames
<1>10. ASSUME NEW u \in Users, CS!LoadKey(u)
      PROVE  CountsBounded'
  BY <1>10 DEF CS!LoadKey
<1>11. ASSUME NEW u \in Users, CS!Sign(u)
      PROVE  CountsBounded'
  BY <1>11 DEF CS!Sign
<1>12. ASSUME NEW u \in Users, NEW ski \in CS!SKIs, CS!GetKey(u, ski)
      PROVE  CountsBounded'
  BY <1>12 DEF CS!GetKey
<1>13. ASSUME NEW u \in Users, NEW length \in 0 .. MaxLength, CS!Encrypt(u, length)
      PROVE  CountsBounded'
  BY <1>13 DEF CS!Encrypt
<1>14. ASSUME CS!Decrypt
      PROVE  CountsBounded'
  BY <1>14 DEF CS!Decrypt
<1>15. CASE UNCHANGED CS!vars
  BY <1>15 DEF CS!vars
<1> QED
  BY <1>1, <1>2, <1>3, <1>4, <1>5, <1>6, <1>7, <1>8, <1>9, <1>10, <1>11,
     <1>12, <1>13, <1>14, <1>15
  DEF CS!Next

\* There is padding always, a whole block where the length is that of blocks.
LEMMA PaddingFits ==
  ASSUME CS!CryptoAssumption, NEW n \in Nat
  PROVE  CS!Padding(n) \in 1 .. BlockSize
<1>1. BlockSize \in Nat \ {0}
  BY DEF CS!CryptoAssumption
<1>2. n % BlockSize \in 0 .. (BlockSize - 1)
  BY <1>1
<1> QED
  BY <1>1, <1>2 DEF CS!Padding

LEMMA TextStep ==
  ASSUME CS!CryptoAssumption, TextPadded, [CS!Next]_(CS!vars)
  PROVE  TextPadded'
<1> USE DEF TextPadded, CS!PlaintextComesBack
<1>1. ASSUME NEW u \in Users, NEW k \in CS!Keys, NEW ephemeral \in BOOLEAN,
             CS!KeyGen(u, k, ephemeral)
      PROVE  TextPadded'
  BY <1>1 DEF CS!KeyGen, CS!Begin
<1>2. ASSUME NEW u \in Users, NEW k \in CS!Keys, NEW ephemeral \in BOOLEAN,
             CS!KeyImport(u, k, ephemeral)
      PROVE  TextPadded'
  BY <1>2 DEF CS!KeyImport, CS!Begin
<1>3. ASSUME NEW u \in Users, CS!StoreNowhere(u)
      PROVE  TextPadded'
  BY <1>3 DEF CS!StoreNowhere
<1>4. ASSUME NEW u \in Users, CS!StoreInMemory(u)
      PROVE  TextPadded'
  BY <1>4 DEF CS!StoreInMemory
<1>5. ASSUME NEW u \in Users, CS!OpenFile(u)
      PROVE  TextPadded'
  BY <1>5 DEF CS!OpenFile
<1>6. ASSUME NEW u \in Users, CS!WriteFile(u)
      PROVE  TextPadded'
  BY <1>6 DEF CS!WriteFile
<1>7. ASSUME NEW u \in Users, CS!WriteFails(u)
      PROVE  TextPadded'
  BY <1>7 DEF CS!WriteFails
<1>8. ASSUME NEW u \in Users, CS!Lookup(u)
      PROVE  TextPadded'
  BY <1>8 DEF CS!Lookup
<1>9. ASSUME NEW u \in Users, CS!ReadNames(u)
      PROVE  TextPadded'
  BY <1>9 DEF CS!ReadNames
<1>10. ASSUME NEW u \in Users, CS!LoadKey(u)
      PROVE  TextPadded'
  BY <1>10 DEF CS!LoadKey
<1>11. ASSUME NEW u \in Users, CS!Sign(u)
      PROVE  TextPadded'
  BY <1>11 DEF CS!Sign
<1>12. ASSUME NEW u \in Users, NEW ski \in CS!SKIs, CS!GetKey(u, ski)
      PROVE  TextPadded'
  BY <1>12 DEF CS!GetKey
<1>13. ASSUME NEW u \in Users, NEW length \in 0 .. MaxLength, CS!Encrypt(u, length)
      PROVE  TextPadded'
  <2>1. CS!Padding(length) \in 1 .. BlockSize /\ length \in Nat
    BY PaddingFits DEF CS!CryptoAssumption
  <2> QED
    BY <1>13, <2>1 DEF CS!Encrypt
<1>14. ASSUME CS!Decrypt
      PROVE  TextPadded'
  <2>1. CASE text.at = "cipher"
    <3>1. text' = [text EXCEPT !.at = "plain",
                               !.result = CS!UnPadded(text.length + text.last, text.last)]
      BY <1>14, <2>1 DEF CS!Decrypt
    <3>2. BlockSize \in Nat /\ text.last \in 1 .. BlockSize /\ text.length \in Nat
      BY <2>1 DEF CS!CryptoAssumption
    <3>3. CS!UnPadded(text.length + text.last, text.last) = text.length
      BY <3>2 DEF CS!UnPadded
    <3> QED
      BY <3>1, <3>3
  <2>2. CASE text.at = "plain"
    <3>1. \E x : text' = [text EXCEPT !.at = "again", !.result = x]
      BY <1>14, <2>2 DEF CS!Decrypt
    <3> QED
      BY <3>1
  <2> QED
    BY <1>14, <2>1, <2>2 DEF CS!Decrypt
<1>15. CASE UNCHANGED CS!vars
  BY <1>15 DEF CS!vars
<1> QED
  BY <1>1, <1>2, <1>3, <1>4, <1>5, <1>6, <1>7, <1>8, <1>9, <1>10, <1>11,
     <1>12, <1>13, <1>14, <1>15
  DEF CS!Next

LEMMA CryptoInvariance == ASSUME CS!CryptoAssumption PROVE CS!Spec => []CryptoInv
<1>1. CS!Init => CryptoInv
  BY InitCryptoInv
<1>2. CryptoInv /\ [CS!Next]_(CS!vars) => CryptoInv'
  BY CallsStep, StoreStep, CountsStep, TextStep DEF CryptoInv
<1> QED
  BY <1>1, <1>2, PTL DEF CS!Spec

-----------------------------------------------------------------------------
\* GetKey finds what was asked for, whatever others store while it reads the names of the
\* files and then one of them (fileks.go: GetKey, searchKeystoreForSKI).
THEOREM FoundWasAsked == ASSUME CS!CryptoAssumption PROVE CS!Spec => []CS!FoundIsAsked
<1>1. CryptoInv => CS!FoundIsAsked
  BY DEF CryptoInv, CallsProper, Proper, CS!FoundIsAsked, CS!Result
<1> QED
  BY <1>1, CryptoInvariance, PTL

\* What was encrypted is decrypted, for blocks and messages of every length (sm4.go).
THEOREM PlaintextsComeBack ==
  ASSUME CS!CryptoAssumption PROVE CS!Spec => []CS!PlaintextComesBack
<1>1. CryptoInv => CS!PlaintextComesBack
  BY DEF CryptoInv, TextPadded
<1> QED
  BY <1>1, CryptoInvariance, PTL

\* No key that is stored gives way to another one (fileks.go and inmemoryks.go: StoreKey).
THEOREM KeysDoStay == ASSUME CS!CryptoAssumption PROVE CS!Spec => CS!KeysStay
<1>1. CryptoInv /\ [CS!Next]_(CS!vars) => [CS!KeysStayStep]_(CS!vars)
  BY StoreStep DEF CryptoInv
<1> QED
  BY <1>1, CryptoInvariance, PTL DEF CS!Spec, CS!KeysStay

(***************************************************************************)
(* Identities: what a request is about to write to the user store has been *)
(* issued to that name, and its key is in the key store, which forgets     *)
(* none. So it does not matter who else writes, or where a client crashes. *)
(***************************************************************************)

Found == [found : {"yes", "no", "error"}, cert : Nat, key : Nat]
Request ==
  [op : {"none", "enroll", "reenroll"} \cup ID!RegistrarOps, name : UserNames,
   at : {"idle", "generate", "registrar", "post", "sign", "open", "write", "done"},
   who : UserNames, key : ID!Keys \cup {ID!Absent}, by : Found, again : BOOLEAN,
   result : {"none", "ok", "error"}]
RequestFits(r, w) ==
  /\ r \in Request
  /\ r.at \in {"post", "open", "write"} => r.key \in w.keys
  /\ r.at \in {"open", "write"} => [name |-> r.who, key |-> r.key] \in w.issued

WorldFits(w) ==
  /\ w = [keys |-> w.keys, users |-> w.users, known |-> w.known, issued |-> w.issued,
          revoked |-> w.revoked, next |-> w.next, faults |-> w.faults]
  /\ w.keys \subseteq ID!Keys
  /\ w.users \in [UserNames -> ID!Keys \cup {ID!Absent, ID!HalfWritten}]
  /\ w.known \in [UserNames -> -1 .. MaxEnrollments]
  /\ \A n \in UserNames : w.users[n] \in ID!Keys =>
       [name |-> n, key |-> w.users[n]] \in w.issued /\ w.users[n] \in w.keys

IdentityInv ==
  /\ WorldFits(world)
  /\ request = [c \in Members |-> request[c]]
  /\ \A c \in Members : RequestFits(request[c], world)

-----------------------------------------------------------------------------
LEMMA IdleFits ==
  ASSUME ID!IdentitiesAssumption, NEW w
  PROVE  RequestFits(ID!Idle, w)
BY DEF ID!IdentitiesAssumption, RequestFits, Request, Found, ID!Idle, ID!NotFound, ID!Absent

\* Who is found, and how
LEMMA GetUserFits ==
  ASSUME ID!IdentitiesAssumption, WorldFits(world), NEW n \in UserNames
  PROVE  ID!GetUser(n) \in Found
<1> USE DEF ID!IdentitiesAssumption, ID!Absent
<1>1. ID!Configured(n) \in Nat
  BY DEF ID!Configured
<1>2. ASSUME NEW cert \in Nat
      PROVE  ID!PrivateKey(n, cert) \in Nat
  BY DEF ID!PrivateKey, ID!KeyFile
<1>3. world.users[n] \in ID!Keys \cup {ID!Absent, ID!HalfWritten} /\ ID!Keys \subseteq Nat
  BY DEF WorldFits, ID!Keys
<1>4. ID!Broken \in Found /\ ID!NotFound \in Found
  BY DEF ID!Broken, ID!NotFound, Found
<1>5. \A cert, key \in Nat : ID!Pair(cert, key) \in Found
  BY DEF ID!Pair, Found
<1> DEFINE stored == world.users[n]
<1>6. CASE stored = ID!HalfWritten
  <2>1. ID!GetUser(n) = ID!Broken
    BY <1>6 DEF ID!GetUser, ID!Keys, ID!HalfWritten
  <2> QED
    BY <1>4, <2>1
<1>7. CASE stored \in ID!Keys
  BY <1>3, <1>4, <1>5, <1>7 DEF ID!GetUser, ID!Keys, ID!HalfWritten
<1>8. CASE stored = ID!Absent
  BY <1>1, <1>2, <1>4, <1>5, <1>8 DEF ID!GetUser, ID!Keys, ID!HalfWritten
<1> QED
  BY <1>3, <1>6, <1>7, <1>8

LEMMA InitIdentityInv ==
  ASSUME ID!IdentitiesAssumption, ID!Init
  PROVE  IdentityInv
<1>1. \A c \in Members : request[c] = ID!Idle
  BY DEF ID!Init
<1>2. request = [c \in Members |-> request[c]]
  BY DEF ID!Init
<1>3. \A n \in UserNames : world.users[n] = ID!Absent
  BY DEF ID!Init
<1>4. WorldFits(world)
  BY <1>3 DEF WorldFits, ID!Init, ID!IdentitiesAssumption, ID!Keys, ID!Absent
<1> QED
  BY <1>1, <1>2, <1>4, IdleFits DEF IdentityInv

\* One client goes on; the key store and the authority forget nothing.
LEMMA OneRequest ==
  ASSUME IdentityInv, NEW c \in Members, NEW r, NEW w,
         request' = [request EXCEPT ![c] = r], world' = w,
         RequestFits(r, w), WorldFits(w),
         world.keys \subseteq w.keys, world.issued \subseteq w.issued
  PROVE  IdentityInv'
<1>1. \A d \in Members : request'[d] = IF d = c THEN r ELSE request[d]
  BY DEF IdentityInv
<1>2. request' = [d \in Members |-> request'[d]]
  BY DEF IdentityInv
<1>3. \A d \in Members : RequestFits(request[d], w)
  BY DEF IdentityInv, RequestFits
<1>4. \A d \in Members : RequestFits(request'[d], w)
  BY <1>1, <1>3
<1> QED
  BY <1>2, <1>4 DEF IdentityInv

\* The same where the world stays as it is.
LEMMA OnlyRequest ==
  ASSUME IdentityInv, NEW c \in Members, NEW r, RequestFits(r, world),
         ID!Continue(c, r), UNCHANGED world
  PROVE  IdentityInv'
BY OneRequest DEF IdentityInv, ID!Continue

\* A call that ends, after which there is a fault more or the authority has changed its mind.
LEMMA EndsFits ==
  ASSUME ID!IdentitiesAssumption, IdentityInv, NEW c \in Members,
         NEW x \in {"ok", "error"}, ID!Ends(c, x),
         NEW w, world' = w, WorldFits(w),
         world.keys \subseteq w.keys, world.issued \subseteq w.issued
  PROVE  IdentityInv'
<1> DEFINE r == [ID!Idle EXCEPT !.op = request[c].op, !.at = "done", !.result = x]
<1>1. RequestFits(r, w)
  <2>1. request[c].op \in {"none", "enroll", "reenroll"} \cup ID!RegistrarOps
    BY DEF IdentityInv, RequestFits, Request
  <2>2. ID!Idle \in Request
    BY IdleFits DEF RequestFits
  <2>3. r \in Request
    BY <2>1, <2>2 DEF Request
  <2> QED
    BY <2>3 DEF RequestFits, ID!Idle
<1>2. request' = [request EXCEPT ![c] = r]
  BY DEF ID!Ends, ID!Continue
<1> HIDE DEF r
<1> QED
  BY <1>1, <1>2, OneRequest

\* A fault more
LEMMA FaultFits ==
  ASSUME NEW w, WorldFits(w)
  PROVE  LET v == [w EXCEPT !.faults = @ + 1] IN
           WorldFits(v) /\ v.keys = w.keys /\ v.issued = w.issued
BY DEF WorldFits

\* A request to the authority: what it does for one that it accepts, whether its answer
\* arrives or not, or nothing.
LEMMA ExchangeFits ==
  ASSUME ID!IdentitiesAssumption, IdentityInv, NEW c \in Members,
         NEW accepts, NEW w, accepts => WorldFits(w),
         world.keys \subseteq w.keys, world.issued \subseteq w.issued,
         NEW continue, accepts /\ world' = w /\ continue => IdentityInv',
         ID!Exchange(c, accepts, w, continue)
  PROVE  IdentityInv'
<1>1. CASE accepts /\ world' = w /\ continue
  BY <1>1
<1>2. CASE accepts /\ world' = [w EXCEPT !.faults = @ + 1] /\ ID!Ends(c, "error")
  BY <1>2, FaultFits, EndsFits
<1>3. CASE UNCHANGED world /\ ID!Ends(c, "error")
  BY <1>3, EndsFits DEF IdentityInv
<1>4. CASE world' = [world EXCEPT !.faults = @ + 1] /\ ID!Ends(c, "error")
  BY <1>4, FaultFits, EndsFits DEF IdentityInv
<1> QED
  BY <1>1, <1>2, <1>3, <1>4 DEF ID!Exchange

-----------------------------------------------------------------------------
LEMMA PostStep ==
  ASSUME ID!IdentitiesAssumption, IdentityInv, NEW c \in Members, ID!Post(c)
  PROVE  IdentityInv'
<1> DEFINE n == request[c].who
           k == request[c].key
           known == [world.known EXCEPT ![n] = IF request[c].op = "reenroll" THEN @ ELSE @ - 1]
           issued == world.issued \cup {[name |-> n, key |-> k]}
           w == ID!Enrolled(c)
           r == [request[c] EXCEPT !.at = "open"]
<1>1. RequestFits(request[c], world) /\ WorldFits(world) /\ request[c].at = "post"
  BY DEF IdentityInv, ID!Post
<1>2. w = [world EXCEPT !.issued = issued, !.known = known]
  BY <1>1 DEF ID!Enrolled, WorldFits
<1>3. ID!AcceptsEnrol(c) => known \in [UserNames -> -1 .. MaxEnrollments]
  <2>1. n \in UserNames /\ world.known[n] \in -1 .. MaxEnrollments /\ MaxEnrollments \in Nat
    BY <1>1 DEF RequestFits, Request, WorldFits, ID!IdentitiesAssumption
  <2>2. CASE request[c].op = "reenroll"
    BY <1>1, <2>2 DEF WorldFits
  <2>3. CASE request[c].op # "reenroll"
    <3>1. ID!AcceptsEnrol(c) => world.known[n] - 1 \in -1 .. MaxEnrollments
      BY <2>1, <2>3 DEF ID!AcceptsEnrol
    <3> QED
      BY <1>1, <2>3, <3>1 DEF WorldFits
  <2> QED
    BY <2>2, <2>3
<1>4. ID!Exchange(c, ID!AcceptsEnrol(c), w, ID!Continue(c, r))
  BY DEF ID!Post
<1> HIDE DEF known
<1>5. w.keys = world.keys /\ w.issued = issued /\ w.users = world.users /\ w.known = known
      /\ w = [keys |-> w.keys, users |-> w.users, known |-> w.known, issued |-> w.issued,
              revoked |-> w.revoked, next |-> w.next, faults |-> w.faults]
  BY <1>1, <1>2 DEF WorldFits
<1>6. RequestFits(r, w)
  BY <1>1, <1>5 DEF RequestFits, Request
<1> HIDE DEF w, r
<1>7. ID!AcceptsEnrol(c) => WorldFits(w)
  BY <1>1, <1>3, <1>5 DEF WorldFits
<1>8. ID!AcceptsEnrol(c) /\ world' = w /\ ID!Continue(c, r) => IdentityInv'
  BY <1>5, <1>6, <1>7, OneRequest DEF ID!Continue
<1> QED
  BY <1>4, <1>5, <1>7, <1>8, ExchangeFits

LEMMA SignStep ==
  ASSUME ID!IdentitiesAssumption, IdentityInv, NEW c \in Members, ID!Sign(c)
  PROVE  IdentityInv'
<1> DEFINE w == ID!Served(c)
<1>1. RequestFits(request[c], world) /\ WorldFits(world)
  BY DEF IdentityInv
<1>2. ID!Exchange(c, ID!AcceptsSigned(c), w, ID!Ends(c, "ok"))
  BY DEF ID!Sign
<1>3. WorldFits(w) /\ w.keys = world.keys /\ w.issued = world.issued
  <2> DEFINE n == request[c].name
  <2>1. n \in UserNames /\ MaxEnrollments \in Nat
    BY <1>1 DEF RequestFits, Request, ID!IdentitiesAssumption
  <2>2. ASSUME NEW k \in {MaxEnrollments, 0, -1}, NEW revoked
        PROVE  LET v == [world EXCEPT !.known[n] = k, !.revoked = revoked] IN
                 WorldFits(v) /\ v.keys = world.keys /\ v.issued = world.issued
    <3> DEFINE known == [world.known EXCEPT ![n] = k]
    <3>1. known \in [UserNames -> -1 .. MaxEnrollments]
      BY <1>1, <2>1 DEF WorldFits
    <3> DEFINE v == [world EXCEPT !.known[n] = k, !.revoked = revoked]
    <3>2. v = [keys |-> world.keys, users |-> world.users, known |-> known,
               issued |-> world.issued, revoked |-> revoked, next |-> world.next,
               faults |-> world.faults]
      <4>1. world.known \in [UserNames -> -1 .. MaxEnrollments] /\ DOMAIN world
              = {"keys", "users", "known", "issued", "revoked", "next", "faults"}
        BY <1>1 DEF WorldFits
      <4>2. v.known = known
        BY <4>1
      <4>3. v = [world EXCEPT !.known = v.known, !.revoked = revoked]
        BY <4>1
      <4> HIDE DEF v, known
      <4> QED
        BY <1>1, <4>2, <4>3 DEF WorldFits
    <3> HIDE DEF known, v
    <3>3. WorldFits(v) /\ v.keys = world.keys /\ v.issued = world.issued
      BY <1>1, <3>1, <3>2 DEF WorldFits
    <3> QED
      BY <3>3 DEF v
  <2>3. ASSUME NEW k \in {MaxEnrollments, 0, -1}
        PROVE  LET v == [world EXCEPT !.known[n] = k] IN
                 WorldFits(v) /\ v.keys = world.keys /\ v.issued = world.issued
    BY <1>1, <2>1 DEF WorldFits
  <2> DEFINE x == world.revoked \cup ID!CertsOf(n)
             v(k) == [world EXCEPT !.known[n] = k, !.revoked = x]
  <2>4. \/ w = [world EXCEPT !.known[n] = MaxEnrollments] \/ w = v(0) \/ w = v(-1)
        \/ w = world
    BY <1>1 DEF ID!Served, WorldFits
  <2> HIDE DEF x
  <2> QED
    BY <1>1, <2>2, <2>3, <2>4
<1> HIDE DEF w
<1>4. world' = w /\ ID!Ends(c, "ok") => IdentityInv'
  BY <1>3, EndsFits
<1> QED
  BY <1>2, <1>3, <1>4, ExchangeFits

LEMMA OpenFileStep ==
  ASSUME IdentityInv, NEW c \in Members, ID!OpenFile(c)
  PROVE  IdentityInv'
<1> DEFINE stored == [world.users EXCEPT ![request[c].who] = ID!HalfWritten]
           w == [world EXCEPT !.users = stored]
           r == [request[c] EXCEPT !.at = "write", !.by = ID!NotFound]
<1>1. RequestFits(request[c], world) /\ WorldFits(world) /\ request[c].at = "open"
  BY DEF IdentityInv, ID!OpenFile
<1>2. world' = w /\ request' = [request EXCEPT ![c] = r]
  BY <1>1 DEF ID!OpenFile, ID!Continue, WorldFits
<1>3. w.keys = world.keys /\ w.issued = world.issued /\ RequestFits(r, w)
  BY <1>1 DEF RequestFits, Request, Found, ID!NotFound, ID!Absent, WorldFits
<1>4. stored \in [UserNames -> ID!Keys \cup {ID!Absent, ID!HalfWritten}]
      /\ \A n \in UserNames : stored[n] \in ID!Keys => stored[n] = world.users[n]
  BY <1>1 DEF WorldFits, RequestFits, Request, ID!Keys, ID!HalfWritten
<1> HIDE DEF stored
<1>5. WorldFits(w)
  BY <1>1, <1>4 DEF WorldFits
<1> HIDE DEF w, r
<1> QED
  BY <1>2, <1>3, <1>5, OneRequest

LEMMA WriteFileStep ==
  ASSUME ID!IdentitiesAssumption, IdentityInv, NEW c \in Members, ID!WriteFile(c)
  PROVE  IdentityInv'
<1> DEFINE stored == [world.users EXCEPT ![request[c].who] = request[c].key]
           w == [world EXCEPT !.users = stored]
           r == [request[c] EXCEPT !.at = "registrar", !.again = TRUE, !.key = ID!Absent]
<1>1. RequestFits(request[c], world) /\ WorldFits(world) /\ request[c].at = "write"
  BY DEF IdentityInv, ID!WriteFile
<1>2. world' = w
  BY <1>1 DEF ID!WriteFile, WorldFits
<1>3. ID!Continue(c, r) \/ ID!Ends(c, "ok")
  BY DEF ID!WriteFile
<1>4. w.keys = world.keys /\ w.issued = world.issued /\ RequestFits(r, w)
  BY <1>1 DEF RequestFits, Request, WorldFits
<1>5. stored \in [UserNames -> ID!Keys \cup {ID!Absent, ID!HalfWritten}]
  BY <1>1 DEF WorldFits, RequestFits, Request
<1>6. \A n \in UserNames :
        stored[n] = IF n = request[c].who THEN request[c].key ELSE world.users[n]
  BY <1>1 DEF WorldFits, RequestFits, Request
<1> HIDE DEF stored
<1>7. WorldFits(w)
  BY <1>1, <1>5, <1>6 DEF WorldFits, RequestFits
<1> HIDE DEF w, r
<1>8. CASE ID!Continue(c, r)
  BY <1>2, <1>4, <1>7, <1>8, OneRequest DEF ID!Continue
<1>9. CASE ID!Ends(c, "ok")
  BY <1>2, <1>4, <1>7, <1>9, EndsFits
<1> QED
  BY <1>3, <1>8, <1>9

LEMMA GenCSRStep ==
  ASSUME IdentityInv, NEW c \in Members, ID!GenCSR(c)
  PROVE  IdentityInv'
<1> DEFINE w == [world EXCEPT !.next = @ + 1, !.keys = @ \cup {world.next}]
           r == [request[c] EXCEPT !.at = "post", !.key = world.next]
<1>1. RequestFits(request[c], world) /\ WorldFits(world) /\ world.next \in ID!Keys
  BY DEF IdentityInv, ID!GenCSR
<1>2. world' = w /\ request' = [request EXCEPT ![c] = r]
  BY DEF ID!GenCSR, ID!Continue
<1>3. w.keys = world.keys \cup {world.next} /\ w.issued = world.issued
  BY <1>1 DEF WorldFits
<1>4. WorldFits(w) /\ RequestFits(r, w)
  <2>1. WorldFits(w)
    <3> DEFINE keys == world.keys \cup {world.next}
               next == world.next + 1
    <3>1. keys \subseteq ID!Keys /\ world.keys \subseteq keys
      BY <1>1 DEF WorldFits
    <3>2. w = [world EXCEPT !.next = next, !.keys = keys]
      OBVIOUS
    <3> HIDE DEF keys, next, w
    <3> QED
      BY <1>1, <3>1, <3>2 DEF WorldFits
  <2>2. r \in Request /\ r.at = "post" /\ r.key = world.next
    BY <1>1 DEF RequestFits, Request
  <2> QED
    BY <1>3, <2>1, <2>2 DEF RequestFits
<1> HIDE DEF w, r
<1> QED
  BY <1>2, <1>3, <1>4, OneRequest

LEMMA GetRegistrarStep ==
  ASSUME ID!IdentitiesAssumption, IdentityInv, NEW c \in Members, ID!GetRegistrar(c)
  PROVE  IdentityInv'
<1> DEFINE user == ID!GetUser(Registrar)
           q == [request[c] EXCEPT !.at = "sign", !.by = user]
           r == [request[c] EXCEPT !.at = "generate", !.who = Registrar]
<1>1. RequestFits(request[c], world) /\ WorldFits(world) /\ UNCHANGED world
  BY DEF IdentityInv, ID!GetRegistrar
<1>2. ID!Continue(c, q) \/ ID!Continue(c, r) \/ ID!Ends(c, "error")
  BY DEF ID!GetRegistrar
<1>3. user \in Found /\ Registrar \in UserNames
  BY <1>1, GetUserFits DEF ID!IdentitiesAssumption
<1> HIDE DEF user
<1>4. RequestFits(q, world) /\ RequestFits(r, world)
  BY <1>1, <1>3 DEF RequestFits, Request
<1> HIDE DEF q, r
<1> QED
  BY <1>1, <1>2, <1>4, OnlyRequest, EndsFits DEF IdentityInv

LEMMA CallStep ==
  ASSUME ID!IdentitiesAssumption, IdentityInv, NEW c \in Members, NEW n \in UserNames,
         \/ ID!CallEnroll(c, n) \/ ID!CallReenroll(c, n)
         \/ \E op \in ID!RegistrarOps : ID!CallRegistrarOp(c, op, n)
  PROVE  IdentityInv'
<1>1. ID!Idle \in Request /\ ID!Idle.at = "idle"
  BY IdleFits DEF RequestFits, ID!Idle
<1>2. CASE ID!CallEnroll(c, n)
  <2> DEFINE r == [ID!Idle EXCEPT !.op = "enroll", !.name = n, !.who = n, !.at = "generate"]
  <2>1. RequestFits(r, world)
    BY <1>1 DEF RequestFits, Request
  <2>2. ID!Continue(c, r) /\ UNCHANGED world
    BY <1>2 DEF ID!CallEnroll
  <2> HIDE DEF r
  <2> QED
    BY <2>1, <2>2, OnlyRequest
<1>3. CASE ID!CallReenroll(c, n)
  <2> DEFINE user == ID!GetUser(n)
             q == [ID!Idle EXCEPT !.op = "reenroll", !.name = n, !.who = n, !.by = user,
                                  !.at = "generate"]
             r == [ID!Idle EXCEPT !.op = "reenroll", !.at = "done", !.result = "error"]
  <2>1. UNCHANGED world /\ (ID!Continue(c, q) \/ ID!Continue(c, r))
    BY <1>3 DEF ID!CallReenroll
  <2>2. user \in Found
    BY GetUserFits DEF IdentityInv
  <2> HIDE DEF user
  <2>3. RequestFits(q, world) /\ RequestFits(r, world)
    BY <1>1, <2>2 DEF RequestFits, Request
  <2> HIDE DEF q, r
  <2> QED
    BY <2>1, <2>3, OnlyRequest
<1>4. ASSUME NEW op \in ID!RegistrarOps, ID!CallRegistrarOp(c, op, n)
      PROVE  IdentityInv'
  <2> DEFINE r == [ID!Idle EXCEPT !.op = op, !.at = "registrar", !.name = n]
  <2>1. RequestFits(r, world)
    BY <1>1 DEF RequestFits, Request
  <2>2. ID!Continue(c, r) /\ UNCHANGED world
    BY <1>4 DEF ID!CallRegistrarOp
  <2> HIDE DEF r
  <2> QED
    BY <2>1, <2>2, OnlyRequest
<1> QED
  BY <1>2, <1>3, <1>4

LEMMA CrashStep ==
  ASSUME ID!IdentitiesAssumption, IdentityInv, NEW c \in Members, ID!Crash(c)
  PROVE  IdentityInv'
<1> DEFINE w == [world EXCEPT !.faults = @ + 1]
<1>1. WorldFits(w) /\ w.keys = world.keys /\ w.issued = world.issued
  BY FaultFits DEF IdentityInv
<1>2. request' = [request EXCEPT ![c] = ID!Idle] /\ world' = w
  BY DEF ID!Crash, ID!Continue
<1> HIDE DEF w
<1> QED
  BY <1>1, <1>2, IdleFits, OneRequest

LEMMA IdentityStep ==
  ASSUME ID!IdentitiesAssumption, IdentityInv, [ID!Next]_(ID!vars)
  PROVE  IdentityInv'
<1>1. ASSUME NEW c \in Members, NEW n \in UserNames,
             ID!CallEnroll(c, n) \/ ID!CallReenroll(c, n) \/ ID!Register(c, n)
               \/ ID!Revoke(c, n) \/ ID!RemoveIdentity(c, n)
      PROVE  IdentityInv'
  BY <1>1, CallStep
  DEF ID!Register, ID!Revoke, ID!RemoveIdentity, ID!RegistrarOps, ID!Changes
<1>2. ASSUME NEW c \in Members, ID!Look(c)
      PROVE  IdentityInv'
  BY <1>2, CallStep DEF ID!Look, ID!RegistrarOps, ID!IdentitiesAssumption
<1>3. ASSUME NEW c \in Members, ID!GetRegistrar(c)
      PROVE  IdentityInv'
  BY <1>3, GetRegistrarStep
<1>4. ASSUME NEW c \in Members, ID!GenCSR(c)
      PROVE  IdentityInv'
  BY <1>4, GenCSRStep
<1>5. ASSUME NEW c \in Members, ID!Post(c)
      PROVE  IdentityInv'
  BY <1>5, PostStep
<1>6. ASSUME NEW c \in Members, ID!Sign(c)
      PROVE  IdentityInv'
  BY <1>6, SignStep
<1>7. ASSUME NEW c \in Members, ID!OpenFile(c)
      PROVE  IdentityInv'
  BY <1>7, OpenFileStep
<1>8. ASSUME NEW c \in Members, ID!WriteFile(c)
      PROVE  IdentityInv'
  BY <1>8, WriteFileStep
<1>9. ASSUME NEW c \in Members, ID!Finished(c)
      PROVE  IdentityInv'
  BY <1>9, IdleFits, OnlyRequest DEF ID!Finished
<1>10. ASSUME NEW c \in Members, ID!Crash(c)
       PROVE  IdentityInv'
  BY <1>10, CrashStep
<1>11. CASE UNCHANGED ID!vars
  BY <1>11 DEF ID!vars, IdentityInv
<1> QED
  BY <1>1, <1>2, <1>3, <1>4, <1>5, <1>6, <1>7, <1>8, <1>9, <1>10, <1>11 DEF ID!Next

LEMMA IdentityInvariance == ASSUME ID!IdentitiesAssumption PROVE ID!Spec => []IdentityInv
<1>1. ID!Init => IdentityInv
  BY InitIdentityInv
<1>2. IdentityInv /\ [ID!Next]_(ID!vars) => IdentityInv'
  BY IdentityStep
<1> QED
  BY <1>1, <1>2, PTL DEF ID!Spec

-----------------------------------------------------------------------------
\* Whoever crashes, loses an answer or writes at the same time: a certificate in the user
\* store was issued to that name, and its private key is in the key store (Enroll, GenCSR
\* and the stores of files).
THEOREM StoredIdentitiesDoWork ==
  ASSUME ID!IdentitiesAssumption PROVE ID!Spec => []ID!StoredIdentitiesWork
<1>1. IdentityInv => ID!StoredIdentitiesWork
  BY DEF IdentityInv, WorldFits, ID!StoredIdentitiesWork
<1> QED
  BY <1>1, IdentityInvariance, PTL

(***************************************************************************)
(* The parts in one run.                                                   *)
(***************************************************************************)

\* What a part does leaves the variables of the others alone.
LEMMA OneRuns ==
  ASSUME [MCNext]_all
  PROVE  /\ [Next]_vars /\ [SP!Next]_(SP!vars) /\ [CP!Next]_(CP!vars) /\ [GW!Next]_(GW!vars)
         /\ [LG!Next]_(LG!vars) /\ [CS!Next]_(CS!vars) /\ [ID!Next]_(ID!vars)
<1> USE DEF all, vars, lazy, client, users, sessions, certs, gateways, logs, crypto, identities,
            SP!vars, CP!vars, GW!vars, LG!vars, CS!vars, ID!vars
<1>1. CASE EventSteps \/ SessionSteps \/ CertSteps
  BY <1>1 DEF EventSteps, SessionSteps, CertSteps
<1>2. CASE GatewaySteps \/ LogSteps \/ CryptoSteps \/ IdentitySteps
  BY <1>2 DEF GatewaySteps, LogSteps, CryptoSteps, IdentitySteps
<1>3. CASE UNCHANGED all
  BY <1>3
<1> QED
  BY <1>1, <1>2, <1>3 DEF MCNext

\* A behaviour of the run is one of every part.
LEMMA EachIsRun ==
  MCSpec => /\ Spec /\ SP!Spec /\ CP!Spec /\ GW!Spec
            /\ LG!Spec /\ CS!Spec /\ ID!Spec
<1>1. MCInit => /\ Init /\ SP!Init /\ CP!Init /\ GW!Init
                /\ LG!Init /\ CS!Init /\ ID!Init
  BY DEF MCInit
<1>2. [MCNext]_all =>
        /\ [Next]_vars /\ [SP!Next]_(SP!vars) /\ [CP!Next]_(CP!vars) /\ [GW!Next]_(GW!vars)
        /\ [LG!Next]_(LG!vars) /\ [CS!Next]_(CS!vars) /\ [ID!Next]_(ID!vars)
  BY OneRuns
<1> QED
  BY <1>1, <1>2, PTL
  DEF MCSpec, Spec, SP!Spec, CP!Spec, GW!Spec, LG!Spec, CS!Spec, ID!Spec

\* The invariants of the parts whose state is made for TLC's eye have the shape in them.
LEMMA GatewayTypes == GatewayInv => GW!TypeOK
<1> SUFFICES ASSUME GatewayInv
             PROVE  GW!TypeOK
  OBVIOUS
<1>1. \A a \in Apps : /\ apps[a].at \in AppPlaces
                      /\ apps[a].sdk \in {"none", "open"} /\ apps[a].closed \in BOOLEAN
  BY DEF GatewayInv, AppsFit, Fits, App
<1>2. process.known \in BOOLEAN /\ (process.known <=> process.suite # None)
  BY DEF GatewayInv, AppsFit, Known, Process
<1>3. txn.ch \in 0 .. Len(txn.told) /\ txn.owner \in Apps \cup {None}
  BY DEF GatewayInv, TxnShape, TellsItsChannel
<1>4. \A l \in Labels : wallet[l] = <<>> \/ wallet[l] \in (Ids \cup {0}) \X Nat
  BY DEF GatewayInv, WalletShape, WalletFile
<1> QED
  BY <1>1, <1>2, <1>3, <1>4 DEF AppPlaces, GW!TypeOK

LEMMA LogTypes == LogInv => LG!TypeOK
BY DEF LogInv, LogShape, OnceShape, RunShape, Sinks, Makers, Once, Places, LoggerIsKnown,
       LatchIsHeld, HeldByOne, LG!TypeOK, LG!At

LEMMA CryptoTypes == CryptoInv => CS!TypeOK
BY DEF CryptoInv, CallsProper, Proper, CallRecord, CallPlaces, StoreNamed, StoreRecord,
       CountsBounded, CS!TypeOK

LEMMA IdentityTypes == IdentityInv => ID!TypeOK
BY DEF IdentityInv, WorldFits, RequestFits, Request, ID!TypeOK

\* The state of every part keeps its shape: of the event service with its lazy reference,
\* the PKCS11 sessions, the certificate pool, gateways, loggers, key store and identities.
THEOREM TypesCorrect == MCSpec => []TypesOK
<1>1. SessionInv /\ CertInv /\ GatewayInv /\ LogInv /\ CryptoInv /\ IdentityInv
        => SP!TypeOK /\ CP!TypeOK /\ GW!TypeOK /\ LG!TypeOK /\ CS!TypeOK /\ ID!TypeOK
  BY GatewayTypes, LogTypes, CryptoTypes, IdentityTypes DEF SessionInv, CertInv
<1>2. /\ SP!Spec => []SessionInv
      /\ CP!Spec => []CertInv
      /\ GW!Spec => []GatewayInv
      /\ LG!Spec => []LogInv
      /\ CS!Spec => []CryptoInv
      /\ ID!Spec => []IdentityInv
  BY SharedAssumption, SessionInvariance, CertInvariance, GatewayInvariance, LogInvariance,
     CryptoInvariance, IdentityInvariance
<1> QED
  BY <1>1, <1>2, TypeCorrect, EachIsRun, PTL DEF TypesOK

\* The event service of a channel has one client, hands out no closed one and finds every
\* registration again, beside whatever else the process runs.
THEOREM ServiceIsSound == MCSpec => []EventServiceSound
BY EventServiceIsSound, EachIsRun, PTL

\* What is kept for others to find is found as it was kept: sessions, certificates, keys,
\* what was encrypted, and identities, whoever fails or crashes (sessionpool, certpool.go,
\* fileks.go, sm4.go, the user store).
THEOREM StoresAreSound == MCSpec => []StoresSound
<1>1. /\ SP!Spec => []SP!SessionsNotShared
      /\ SP!Spec => []SP!PoolOfThisContext
      /\ CP!Spec => []CP!NothingForgotten
      /\ CS!Spec => []CS!FoundIsAsked
      /\ CS!Spec => []CS!PlaintextComesBack
      /\ ID!Spec => []ID!StoredIdentitiesWork
  BY SharedAssumption, NoSessionShared, PooledIsOfContext, NoCertForgotten, FoundWasAsked,
     PlaintextsComeBack, StoredIdentitiesDoWork
<1> QED
  BY <1>1, EachIsRun, PTL DEF StoresSound

\* What a process has one of serves all: the default suite has the keys of every gateway,
\* success is told after the commit, and loggers have one provider (cryptosuite.GetDefault,
\* commitTxHandler, logging.Initialize).
THEOREM ProcessWideIsSound == MCSpec => []ProcessWideSound
<1>1. /\ GW!Spec => []GW!KeysOfTheDefault
      /\ GW!Spec => []GW!SuccessIsTold
      /\ LG!Spec => []LG!OneProvider
  BY SharedAssumption, KeysAreOfTheDefault, SuccessWasTold, ProviderIsOne
<1> QED
  BY <1>1, EachIsRun, PTL DEF ProcessWideSound

\* No step replaces a private key that is stored, or the sink of a logger (fileks.go and
\* inmemoryks.go: StoreKey; InitLogger).
THEOREM NothingIsReplaced == MCSpec => NothingReplaced
<1>1. (CS!Spec => CS!KeysStay) /\ (LG!Spec => LG!SinksStay)
  BY SharedAssumption, KeysDoStay, SinksDoStay
<1> QED
  BY <1>1, EachIsRun, PTL DEF NothingReplaced

=============================================================================
