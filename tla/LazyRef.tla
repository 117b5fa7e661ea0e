------------------------------- MODULE LazyRef -------------------------------
(***************************************************************************)
(* A lazily initialised reference whose value expires:                     *)
(* pkg/util/concurrent/lazyref/lazyref.go.                                 *)
(*                                                                         *)
(* Callers of Get, one timer goroutine and Close share the reference, the  *)
(* flag closed (an atomic), a lock and a wait group. What happens under    *)
(* the lock and shows only at its release is one step; the expiration,     *)
(* which finalizes the value before it resets the reference that others    *)
(* read without the lock, is two. Time is left out: a timer may fire at    *)
(* any moment.                                                             *)
(***************************************************************************)
EXTENDS Naturals, FiniteSets

CONSTANTS
  Values,       \* what the initializer makes; bounds its successful calls
  NoValue,      \* the reference is not set
  Getters,      \* callers of Get
  Closers,      \* callers of Close
  Timers,       \* goroutines for checkTimeStarted
  ExpiryTypes,  \* the expiry types to look at; Never: no expirationProvider
  TimerAtStart  \* whether New starts the timer (initialInit >= 0)

ASSUME RefAssumption ==
  /\ NoValue \notin Values
  /\ IsFiniteSet(Timers) /\ Timers # {}
  /\ ExpiryTypes \subseteq {"LastAccessed", "LastInitialized", "Refreshing", "Never"}
  /\ TimerAtStart \in BOOLEAN

VARIABLES
  expiryType,
  ref,          \* the value
  locked,       \* the lock is held across steps
  closed,
  running,      \* the timer runs; the wait group counts it
  closech,      \* the close event is in its channel
  getter,       \* where a caller of Get is: idle, check, fast, lock, got
  got,          \* what Get returned to it
  closer,       \* where a caller of Close is: idle, notify, wait, finalize, done
  timer,        \* where a timer is: none, start, loop, expire, reset, stop
  made,         \* history: the values the initializer made
  finals        \* history: how often the finalizer got each value

getting == <<getter, got>>
closing == <<closer, closed>>
timing == <<timer, running>>
history == <<made, finals>>
vars == <<expiryType, ref, locked, closech, getting, closing, timing, history>>

Init ==
  /\ expiryType \in ExpiryTypes
  /\ ref = NoValue /\ locked = FALSE /\ closed = FALSE /\ closech = FALSE
  /\ running = FALSE
  /\ getter = [g \in Getters |-> "idle"] /\ got = [g \in Getters |-> NoValue]
  /\ closer = [k \in Closers |-> "idle"]
  /\ timer = [t \in Timers |->
                IF /\ TimerAtStart /\ expiryType # "Never"
                   /\ t = CHOOSE x \in Timers : TRUE
                THEN "start" ELSE "none"]
  /\ made = {} /\ finals = [v \in Values |-> 0]

GetGoes(g, p) == getter' = [getter EXCEPT ![g] = p]
CloseGoes(k, p) == closer' = [closer EXCEPT ![k] = p]
TimerGoes(t, p) == timer' = [timer EXCEPT ![t] = p]
Finalize(v) == finals' = [finals EXCEPT ![v] = @ + 1]

-----------------------------------------------------------------------------
(* Get                                                                     *)

GetCheck(g) ==
  /\ getter[g] = "idle"
  /\ GetGoes(g, IF closed THEN "idle" ELSE "fast")
  /\ UNCHANGED <<expiryType, ref, locked, closech, got, closing, timing, history>>

\* Outside the lock
GetFast(g) ==
  /\ getter[g] = "fast"
  /\ GetGoes(g, IF ref = NoValue THEN "lock" ELSE "got")
  /\ got' = [got EXCEPT ![g] = ref]
  /\ UNCHANGED <<expiryType, ref, locked, closech, closing, timing, history>>

\* ensureTimerStarted: go checkTimeStarted, unless it runs.
EnsureTimerStarted ==
  IF running \/ expiryType = "Never" THEN UNCHANGED timer
  ELSE \E t \in Timers : timer[t] = "none" /\ TimerGoes(t, "start")

\* Inside the lock: the value is there now, or the initializer makes v, or
\* fails (v = NoValue).
\* slip: no second look
GetInitializes(g, v) ==
  /\ getter[g] = "lock" /\ ~locked
  /\ GetGoes(g, IF v = NoValue THEN "idle" ELSE "got")
  /\ got' = [got EXCEPT ![g] = v]
  /\ ref' = IF v = NoValue THEN ref ELSE v
  /\ made' = made \cup ({v} \ {NoValue})
  /\ IF v = NoValue THEN UNCHANGED timer ELSE EnsureTimerStarted
  /\ UNCHANGED <<expiryType, locked, closech, closing, running, finals>>
GetLocked(g, v) ==
  /\ getter[g] = "lock" /\ ~locked
  /\ IF ref # NoValue
     THEN /\ GetGoes(g, "got") /\ got' = [got EXCEPT ![g] = ref]
          /\ UNCHANGED <<ref, made, timer>>
     ELSE /\ GetGoes(g, IF v = NoValue THEN "idle" ELSE "got")
          /\ got' = [got EXCEPT ![g] = v]
          /\ ref' = v /\ made' = made \cup ({v} \ {NoValue})
          /\ IF v = NoValue THEN UNCHANGED timer ELSE EnsureTimerStarted
  /\ UNCHANGED <<expiryType, locked, closech, closing, running, finals>>

\* The caller is done with the value.
GetDone(g) ==
  /\ getter[g] = "got"
  /\ GetGoes(g, "idle") /\ got' = [got EXCEPT ![g] = NoValue]
  /\ UNCHANGED <<expiryType, ref, locked, closech, closing, timing, history>>

-----------------------------------------------------------------------------
(* Close                                                                   *)

SetClosed(k) ==
  /\ closer[k] = "idle"
  /\ CloseGoes(k, IF closed THEN "done" ELSE "notify")
  /\ closed' = TRUE
  /\ UNCHANGED <<expiryType, ref, locked, closech, getting, timing, history>>

\* slip: a timer of a reference that is not set is forgotten
NotifyIfSet(k) ==
  /\ closer[k] = "notify" /\ ~locked
  /\ closech' = (running /\ ref # NoValue)
  /\ CloseGoes(k, "wait")
  /\ UNCHANGED <<expiryType, ref, locked, closed, getting, timing, history>>
NotifyClosing(k) ==
  /\ closer[k] = "notify" /\ ~locked
  /\ closech' = running
  /\ CloseGoes(k, "wait")
  /\ UNCHANGED <<expiryType, ref, locked, closed, getting, timing, history>>

\* wg.Wait
\* slip: not waiting for the timer
NotWaiting(k) ==
  /\ closer[k] = "wait"
  /\ CloseGoes(k, "finalize")
  /\ UNCHANGED <<expiryType, ref, locked, closed, closech, getting, timing,
                 history>>
Wait(k) ==
  /\ closer[k] = "wait" /\ ~running
  /\ CloseGoes(k, "finalize")
  /\ UNCHANGED <<expiryType, ref, locked, closed, closech, getting, timing,
                 history>>

\* finalize: the reference stays set
CloseFinalizes(k) ==
  /\ closer[k] = "finalize" /\ ~locked
  /\ IF ref = NoValue THEN UNCHANGED finals ELSE Finalize(ref)
  /\ CloseGoes(k, "done")
  /\ UNCHANGED <<expiryType, ref, locked, closed, closech, getting, timing, made>>

-----------------------------------------------------------------------------
(* The timer                                                               *)

\* setTimerRunning
\* slip: not looking for another one
StartAnyway(t) ==
  /\ timer[t] = "start" /\ ~locked
  /\ TimerGoes(t, IF closed THEN "none" ELSE "loop")
  /\ running' = (running \/ ~closed)
  /\ UNCHANGED <<expiryType, ref, locked, closech, getting, closing, history>>
TimerStart(t) ==
  /\ timer[t] = "start" /\ ~locked
  /\ TimerGoes(t, IF running \/ closed THEN "none" ELSE "loop")
  /\ running' = (running \/ ~closed)
  /\ UNCHANGED <<expiryType, ref, locked, closech, getting, closing, history>>

TimerClosed(t) ==
  /\ timer[t] = "loop" /\ closech
  /\ closech' = FALSE /\ TimerGoes(t, "stop")
  /\ UNCHANGED <<expiryType, ref, locked, running, getting, closing, history>>

\* It is time to expire; unless refreshing, only what is set does.
TimerFires(t) ==
  /\ timer[t] = "loop" /\ (ref # NoValue \/ expiryType = "Refreshing")
  /\ TimerGoes(t, "expire")
  /\ UNCHANGED <<expiryType, ref, locked, closech, running, getting, closing,
                 history>>

\* refreshValue: the initializer makes v or fails.
Refresh(t, v) ==
  /\ timer[t] = "expire" /\ ~locked /\ expiryType = "Refreshing"
  /\ ref' = IF v = NoValue THEN ref ELSE v
  /\ made' = made \cup ({v} \ {NoValue})
  /\ TimerGoes(t, "loop")
  /\ UNCHANGED <<expiryType, locked, closech, running, getting, closing, finals>>

\* resetValue: the finalizer first ...
ExpireFinalizes(t) ==
  /\ timer[t] = "expire" /\ ~locked /\ expiryType # "Refreshing"
  /\ locked' = TRUE /\ Finalize(ref)
  /\ TimerGoes(t, "reset")
  /\ UNCHANGED <<expiryType, ref, closech, running, getting, closing, made>>

\* ... then the reference.
\* slip: the lock is kept
ResetLocked(t) ==
  /\ timer[t] = "reset"
  /\ ref' = NoValue /\ UNCHANGED locked
  /\ TimerGoes(t, "loop")
  /\ UNCHANGED <<expiryType, closech, running, getting, closing, history>>
Reset(t) ==
  /\ timer[t] = "reset"
  /\ ref' = NoValue /\ locked' = FALSE
  /\ TimerGoes(t, "loop")
  /\ UNCHANGED <<expiryType, closech, running, getting, closing, history>>

\* setTimerStopped
TimerStops(t) ==
  /\ timer[t] = "stop" /\ ~locked
  /\ TimerGoes(t, "none") /\ running' = FALSE
  /\ UNCHANGED <<expiryType, ref, locked, closech, getting, closing, history>>

-----------------------------------------------------------------------------
Fresh == (Values \ made) \cup {NoValue}

Get(g) == GetFast(g) \/ (\E v \in Fresh : GetLocked(g, v)) \/ GetDone(g)
Close(k) == NotifyClosing(k) \/ Wait(k) \/ CloseFinalizes(k)
Timer(t) == \/ TimerStart(t) \/ TimerClosed(t) \/ Reset(t) \/ TimerStops(t)
            \/ ExpireFinalizes(t) \/ \E v \in Fresh : Refresh(t, v)

Next == \/ \E g \in Getters : GetCheck(g) \/ Get(g)
        \/ \E k \in Closers : SetClosed(k) \/ Close(k)
        \/ \E t \in Timers : TimerFires(t) \/ Timer(t)

Spec == Init /\ [][Next]_vars

\* Goroutines run. A select that finds the close event and the timer ready, time
\* and again, takes the close event some time: strong fairness.
FairSpec ==
  /\ Spec
  /\ \A g \in Getters : WF_vars(Get(g))
  /\ \A k \in Closers : WF_vars(Close(k))
  /\ \A t \in Timers : WF_vars(Timer(t)) /\ SF_vars(TimerClosed(t))

-----------------------------------------------------------------------------
(* Properties                                                              *)

\* The shape of the state.
TypeOK ==
  /\ expiryType \in ExpiryTypes /\ ref \in Values \cup {NoValue}
  /\ {locked, closed, running, closech} \subseteq BOOLEAN
  /\ getter \in [Getters -> {"idle", "fast", "lock", "got"}]
  /\ got \in [Getters -> Values \cup {NoValue}]
  /\ closer \in [Closers -> {"idle", "notify", "wait", "finalize", "done"}]
  /\ timer \in [Timers -> {"none", "start", "loop", "expire", "reset", "stop"}]
  /\ made \subseteq Values /\ finals \in [Values -> Nat]
  /\ locked <=> \E t \in Timers : timer[t] = "reset"

\* However Gets that start a timer interleave with one that is ending and with
\* Close, one timer runs at most, and the wait group counts it (setTimerRunning).
InLoop(t) == timer[t] \in {"loop", "expire", "reset", "stop"}
OneTimer == /\ \A t, u \in Timers : InLoop(t) /\ InLoop(u) => t = u
            /\ running <=> \E t \in Timers : InLoop(t)

\* Callers racing for a reference that is not set, or expires, make one value:
\* every value but the current one has been finalized.
OneLiveValue == expiryType # "Refreshing" =>
  \A v \in made : finals[v] = 0 => v = ref

\* Close and the expiration finalize no value twice.
FinalizedOnce == \A v \in Values : finals[v] <= 1

\* One timer, one live value, and one finalizer of each value.
RefSound == OneTimer /\ OneLiveValue /\ FinalizedOnce

\* Close comes to its end: the timer gets its event, whatever it is doing.
CloseReturns == \A k \in Closers : (closer[k] = "notify") ~> (closer[k] = "done")

=============================================================================
