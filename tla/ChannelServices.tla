--------------------------- MODULE ChannelServices ---------------------------
(***************************************************************************)
(* What a client context keeps of a channel, and how it keeps it fresh:    *)
(* the channel configuration (pkg/fab/chconfig), the membership (pkg/fab/  *)
(* channel/membership) and the discovered peers (pkg/client/common/        *)
(* discovery/dynamicdiscovery), in the context cache of pkg/fabsdk/        *)
(* provider/chpvdr. Each is a lazy reference (module LazyRef) with a lock  *)
(* of its own and a timer that refreshes it, and the initializer of one    *)
(* gets the value of the next: peers, membership, config.                  *)
(*                                                                         *)
(* The queries of config and peers may fail, which an error handler of     *)
(* the application hears of while the lock is held; it may close the       *)
(* context. The value of a reference is the number of the configuration    *)
(* block it is based on.                                                   *)
(***************************************************************************)
EXTENDS Integers, Sequences

CONSTANTS
  Users, Closers,     \* goroutines that get values, and that call CloseContext
  Handler,            \* what the error handler does: it may "return", and leave it to
                      \* one of Closers to close the context, or "close" it itself
  MaxGets, MaxVersion, MaxFaults

Refs == {"config", "membership", "peers"}
CloseOrder == <<"membership", "config", "peers">>   \* contextCache.Close
Nobody == -1                  \* the value of peers when none is kept
Actors == Users \cup Refs \cup Closers   \* a reference's timer has its name

ServicesAssumption ==
  /\ Handler \in {"return", "close"} /\ {MaxGets, MaxVersion, MaxFaults} \subseteq Nat
  /\ MaxVersion > 0 /\ "free" \notin Users \cup Closers
  /\ Users \cap Refs = {} /\ Closers \cap Refs = {} /\ Users \cap Closers = {}

VARIABLES
  call,     \* per actor: stack of frames, the newest first; ret: the value the last
            \* Get returned, 0 for an error; gets: how many it began
  world     \* ref: per reference, value (0: none), closed, lock (its holder or "free"),
            \* timer and signal (the close channel); built: the block of ref.mem (0: nil);
            \* version: the channel's; counters

vars == <<call, world>>

GetFrame(r, at) == [do |-> "get", ref |-> r, at |-> at, next |-> 1]
CloseFrame == [do |-> "close", ref |-> "none", at |-> "set", next |-> 1]

\* NewRef: config and membership start their timer at once, peers with its first value.
Init ==
  /\ call = [a \in Actors |-> [stack |-> <<>>, ret |-> 0, gets |-> 0]]
  /\ world = [ref |-> [r \in Refs |->
                        [value |-> 0, closed |-> FALSE, lock |-> "free", signal |-> FALSE,
                         timer |-> IF r = "peers" THEN "none" ELSE "starting"]],
              version |-> 1, built |-> 0, faults |-> 0]

Busy(a) == call[a].stack # <<>>
Frame(a) == Head(call[a].stack)
In(a, do, at) == Busy(a) /\ Frame(a).do = do /\ Frame(a).at = at
Ref(a) == world.ref[Frame(a).ref]
Move(a, at) == call' = [call EXCEPT ![a].stack = <<[Frame(a) EXCEPT !.at = at]>> \o Tail(@)]
Push(a, frame, at) ==
  call' = [call EXCEPT ![a].stack = <<frame, [Frame(a) EXCEPT !.at = at]>> \o Tail(@)]
Return(a, v) ==
  call' = [call EXCEPT ![a].stack = Tail(@),
                       ![a].ret = IF Tail(call[a].stack) = <<>> THEN 0 ELSE v]
Fault == world.faults < MaxFaults

-----------------------------------------------------------------------------
(* Get of a reference                                                      *)

CallGet(u, r) ==
  /\ ~Busy(u) /\ call[u].gets < MaxGets /\ UNCHANGED world
  /\ call' = [call EXCEPT ![u].stack = <<GetFrame(r, "enter")>>, ![u].gets = @ + 1]

Enter(a) ==
  /\ In(a, "get", "enter") /\ UNCHANGED world
  /\ CASE Ref(a).closed -> Return(a, 0)
       [] ~Ref(a).closed /\ Ref(a).value # 0 -> Return(a, Ref(a).value)
       [] OTHER -> Move(a, "lock")

\* The value is looked for again under the lock.
Lock(a) ==
  /\ In(a, "get", "lock") /\ Ref(a).lock = "free"
  /\ IF Ref(a).value # 0
     THEN Return(a, Ref(a).value) /\ UNCHANGED world
     ELSE Move(a, "init") /\ world' = [world EXCEPT !.ref[Frame(a).ref].lock = a]

\* set and unlock; a first value starts the timer
Stored(a, v) == [world EXCEPT !.ref[Frame(a).ref].value = v,
                              !.ref[Frame(a).ref].lock = "free",
                              !.ref[Frame(a).ref].timer = IF @ = "none" THEN "starting" ELSE @]
Store(a, v) == Return(a, v) /\ world' = Stored(a, v)
Fails(a) == Return(a, 0) /\ world' = [world EXCEPT !.ref[Frame(a).ref].lock = "free"]

\* chconfig getConfig: the newest block, of peers that may lag behind
QueryConfig(a) ==
  /\ In(a, "get", "init") /\ Frame(a).ref = "config"
  /\ \/ Store(a, world.version)
     \/ /\ Fault /\ \E v \in 1 .. world.version - 1 :
             /\ Return(a, v)
             /\ world' = [world EXCEPT !.ref["config"].value = v, !.faults = @ + 1,
                                       !.ref["config"].lock = "free"]

\* The membership gets the configuration, from inside its own lock.
NeedConfig(a) ==
  /\ In(a, "get", "init") /\ Frame(a).ref = "membership" /\ UNCHANGED world
  /\ Push(a, GetFrame("config", "enter"), "built")

\* The initializer of membership keeps what it made, ref.mem, beside the value of the lazy
\* reference, and makes another of a newer configuration, or of any when it has none.
\* slip: of any
AnyIsNewer(new) == TRUE
Newer(new) == world.built = 0 \/ new > world.built
BuildMembership(a) ==
  LET new == call[a].ret IN
  /\ In(a, "get", "built") /\ Frame(a).ref = "membership"
  /\ CASE new = 0 -> Fails(a)
       [] new # 0 /\ ~Newer(new) -> Store(a, world.built)
       [] OTHER -> Return(a, new) /\ world' = [Stored(a, new) EXCEPT !.built = new]

\* New fails on the configuration: ref.mem is nil from then on, while the lazy reference
\* keeps the value it has.
BuildFails(a) ==
  /\ In(a, "get", "built") /\ Frame(a).ref = "membership" /\ Fault
  /\ call[a].ret # 0 /\ Newer(call[a].ret) /\ Return(a, 0)
  /\ world' = [world EXCEPT !.ref["membership"].lock = "free", !.built = 0, !.faults = @ + 1]

\* doQueryPeers has an answer: the peers of MSPs that are members are kept, and none
\* while there is no membership.
AskPeers(a) ==
  /\ In(a, "get", "init") /\ Frame(a).ref = "peers" /\ UNCHANGED world
  /\ Push(a, GetFrame("membership", "enter"), "built")
KeepMembers(a) ==
  /\ In(a, "get", "built") /\ Frame(a).ref = "peers"
  /\ Store(a, IF call[a].ret = 0 THEN Nobody ELSE call[a].ret)

\* The query fails, and the error handler is called with the lock held.
QueryFails(a) ==
  /\ In(a, "get", "init") /\ Frame(a).ref \in {"config", "peers"} /\ Fault
  /\ Move(a, "handler") /\ world' = [world EXCEPT !.faults = @ + 1]
\* slip: the handler always closes the context itself
HandleByClosing(a) ==
  In(a, "get", "handler") /\ Push(a, CloseFrame, "failed") /\ UNCHANGED world
Handle(a) ==
  /\ In(a, "get", "handler") /\ UNCHANGED world
  /\ IF Handler = "close" THEN Push(a, CloseFrame, "failed") ELSE Move(a, "failed")
GetFails(a) == In(a, "get", "failed") /\ Fails(a)

-----------------------------------------------------------------------------
(* The timers                                                              *)

\* slip: the reference may be closed
StartTimerAnyway(r) ==
  /\ world.ref[r].timer = "starting" /\ world.ref[r].lock = "free" /\ UNCHANGED call
  /\ world' = [world EXCEPT !.ref[r].timer = "running"]
\* setTimerRunning
StartTimer(r) ==
  /\ world.ref[r].timer = "starting" /\ world.ref[r].lock = "free" /\ UNCHANGED call
  /\ world' = [world EXCEPT !.ref[r].timer =
                              IF world.ref[r].closed THEN "none" ELSE "running"]

\* handleExpiration takes the lock, after those who wait for it already (a mutex is
\* handed over to who waits long), and calls the initializer.
Waits(a, r) == (In(a, "get", "lock") /\ Frame(a).ref = r)
               \/ (In(a, "close", "notify") /\ CloseOrder[Frame(a).next] = r)
Tick(r) ==
  /\ world.ref[r].timer = "running" /\ world.ref[r].lock = "free"
  /\ ~Busy(r) /\ \A a \in Actors : ~Waits(a, r)
  /\ call' = [call EXCEPT ![r].stack = <<GetFrame(r, "init")>>]
  /\ world' = [world EXCEPT !.ref[r].lock = r]

StopTimer(r) ==
  /\ world.ref[r].timer = "running" /\ world.ref[r].signal /\ ~Busy(r)
  /\ world.ref[r].lock = "free" /\ UNCHANGED call
  /\ world' = [world EXCEPT !.ref[r].timer = "ended", !.ref[r].signal = FALSE]

-----------------------------------------------------------------------------
(* CloseContext: Close of one reference after the other                    *)

CloseContext(c) ==
  /\ ~Busy(c) /\ call[c].gets = 0 /\ UNCHANGED world
  /\ call' = [call EXCEPT ![c].stack = <<CloseFrame>>, ![c].gets = 1]

Closing(a) == CloseOrder[Frame(a).next]
CloseNext(a) ==
  IF Frame(a).next = Len(CloseOrder) THEN Return(a, 0)
  ELSE call' = [call EXCEPT ![a].stack =
                  <<[Frame(a) EXCEPT !.at = "set", !.next = @ + 1]>> \o Tail(@)]

SetClosed(a) ==
  /\ In(a, "close", "set")
  /\ IF world.ref[Closing(a)].closed THEN CloseNext(a) /\ UNCHANGED world
     ELSE Move(a, "notify") /\ world' = [world EXCEPT !.ref[Closing(a)].closed = TRUE]

NotifyClosing(a) ==
  /\ In(a, "close", "notify") /\ world.ref[Closing(a)].lock = "free"
  /\ Move(a, "wait")
  /\ world' = [world EXCEPT !.ref[Closing(a)].signal =
                              (world.ref[Closing(a)].timer = "running")]

WaitTimer(a) ==
  /\ In(a, "close", "wait") /\ world.ref[Closing(a)].timer # "running"
  /\ CloseNext(a) /\ UNCHANGED world

-----------------------------------------------------------------------------
\* A configuration block is committed.
Reconfigure ==
  /\ world.version < MaxVersion /\ world' = [world EXCEPT !.version = @ + 1]
  /\ UNCHANGED call

Works(a) ==
  \/ Enter(a) \/ Lock(a) \/ QueryConfig(a) \/ NeedConfig(a) \/ BuildMembership(a)
  \/ AskPeers(a) \/ KeepMembers(a) \/ Handle(a) \/ GetFails(a)
  \/ SetClosed(a) \/ NotifyClosing(a) \/ WaitTimer(a)
Next ==
  \/ \E a \in Actors : Works(a) \/ QueryFails(a) \/ BuildFails(a)
  \/ \E u \in Users, r \in Refs : CallGet(u, r)
  \/ \E c \in Closers : CloseContext(c)
  \/ \E r \in Refs : StartTimer(r) \/ Tick(r) \/ StopTimer(r)
  \/ Reconfigure

\* Goroutines run, and timers tick on until they hear that they are to stop.
Fairness ==
  /\ \A a \in Actors : WF_vars(Works(a))
  /\ \A r \in Refs : WF_vars(StartTimer(r)) /\ WF_vars(Tick(r)) /\ SF_vars(StopTimer(r))

Spec == Init /\ [][Next]_vars
FairSpec == Spec /\ Fairness

-----------------------------------------------------------------------------
(* Properties                                                              *)

\* The shape of the state.
TypeOK ==
  /\ \A a \in Actors :
       /\ call[a].ret \in -1 .. MaxVersion /\ call[a].gets \in 0 .. (MaxGets + 1)
       /\ \A i \in DOMAIN call[a].stack :
            /\ call[a].stack[i].at \in {"enter", "lock", "init", "built", "handler", "failed",
                                        "set", "notify", "wait"}
            /\ call[a].stack[i].next \in DOMAIN CloseOrder
  /\ world.ref \in [Refs -> [value : -1 .. MaxVersion, closed : BOOLEAN,
                             lock : Actors \cup {"free"}, signal : BOOLEAN,
                             timer : {"none", "starting", "running", "ended"}]]
  /\ world.version \in 1 .. MaxVersion /\ world.built \in -1 .. MaxVersion
  /\ world.faults \in 0 .. MaxFaults

\* Once CloseContext has returned, no timer goes on asking the network, whatever Get was
\* in the middle of an initializer meanwhile (setTimerRunning against notifyClosing).
ClosedIsQuiet ==
  \A c \in Closers : call[c].gets = 1 /\ (\A a \in Closers : ~Busy(a)) =>
    \A r \in Refs : world.ref[r].timer # "running"

\* A peer that lags behind answers with an old configuration, but the membership that
\* transactions are verified with does not go back to it (the reference's initializer),
\* unless ref.mem is nil: which it is, once there is a membership, only since a New failed.
WentBack == world'.ref["membership"].value < world.ref["membership"].value
GoesBackOnlyAfterFailure == [][WentBack => world.built = 0]_vars

\* What the comment in the initializer says, "Membership is refreshed only if we have a newer
\* config block", is not so: after a New that failed an older one is as good.
RefreshedOnlyIfNewer == [][~WentBack]_vars

\* Every Get and CloseContext returns, although references get one another inside their
\* locks and the error handler closes them (lazyref Get, Close, the initializers).
AllReturned == \A a \in Users \cup Closers : ~Busy(a)
CallsReturn == <>[]AllReturned

\* The membership and the peers follow the channel: what is committed reaches them,
\* through two or three timers, unless the context is closed (refreshValue).
Follows(r) == world.ref[r].value \in {0, world.version} \/ \E q \in Refs : world.ref[q].closed
FollowsNow == Follows("membership") /\ Follows("peers")
FollowsChannel == <>[]FollowsNow
=============================================================================
