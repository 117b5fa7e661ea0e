-------------------------- MODULE CachingConnector --------------------------
(***************************************************************************)
(* The gRPC connection cache of pkg/fab/comm/connector.go.                 *)
(*                                                                         *)
(* Users (goroutines of the SDK) dial a target, use the connection and     *)
(* release it; a janitor goroutine sweeps the cache; Close flushes it.     *)
(* cc.lock makes one action of each locked region; what runs outside the   *)
(* lock (waitConn, the start of the janitor after a dial, the janitor's    *)
(* hand-back of its token, the first half of Close) is an action of its    *)
(* own, so every interleaving the lock permits is explored.                *)
(***************************************************************************)
EXTENDS Naturals, FiniteSets

CONSTANTS
  Conns,     \* identities of *grpc.ClientConn / *cachedConn; bounds the dials
  Targets,   \* addresses
  Users,     \* goroutines that dial and release
  Janitors,  \* identities of janitor goroutines; bounds the live ones
  Closers,   \* goroutines that call Close, once each
  NoConn, NoTarget

ASSUME ConstantsAssumption ==
  /\ NoConn \notin Conns
  /\ NoTarget \notin Targets
  /\ IsFiniteSet(Users)
  /\ IsFiniteSet(Janitors)
  /\ IsFiniteSet(Closers)

VARIABLES
  conns,          \* cc.conns: target -> connection
  index,          \* keys of cc.index
  target,         \* cachedConn.target; NoTarget: not created yet
  open,           \* cachedConn.open
  idle,           \* lastClose lies more than idleTime in the past
  state,          \* connectivity state of the connection (gRPC's own)
  janitorClosed,  \* channel with one slot: empty, full, closed
  janitorDone,    \* channel with one slot: empty, full; nil once closed
  jpc,            \* where each janitor goroutine is
  upc, uconn,     \* where each user is, and the connection it counts for
  kpc,            \* where each caller of Close is
  panicked        \* a goroutine sent on, or closed, a closed channel

cache == <<conns, index, target, open, idle, state>>
chans == <<janitorClosed, janitorDone>>
vars  == <<conns, index, target, open, idle, state, janitorClosed,
           janitorDone, jpc, upc, uconn, kpc, panicked>>

\* Pending stands for IDLE, CONNECTING and TRANSIENT_FAILURE: waitConn fails at
\* once in the last and when its context ends in all three.
GrpcStates == {"Pending", "Ready", "Shutdown"}
JanitorPc  == {"off", "loop", "select", "selectNil", "sweep", "exiting",
               "returning"}
UserPc     == {"out", "waiting", "opened", "failed", "using"}
CloserPc   == {"idle", "select", "send", "blocked", "wait", "flush", "done"}

Closed     == janitorDone = "nil"
\* Where a goroutine is; a panic ends the program.
UserAt(u, p)     == ~panicked /\ upc[u] = p
JanitorAt(j, ps) == ~panicked /\ jpc[j] \in ps
CloserAt(k, ps)  == ~panicked /\ kpc[k] \in ps

Holders(c) == {u \in Users : uconn[u] = c}
Fresh      == {c \in Conns : target[c] = NoTarget}
Off        == {j \in Janitors : jpc[j] = "off"}

\* What is new takes an identity that is free; which one does not matter, so it
\* is always the same one.
AnyOf(S) == CHOOSE x \in S : TRUE

Init ==
  /\ conns = [t \in Targets |-> NoConn]
  /\ index = {}
  /\ target = [c \in Conns |-> NoTarget]
  /\ open = [c \in Conns |-> 0]
  /\ idle = [c \in Conns |-> FALSE]
  /\ state = [c \in Conns |-> "Pending"]
  /\ janitorClosed = "full"         \* the bootstrap value
  /\ janitorDone = "empty"
  /\ jpc = [j \in Janitors |-> "off"]
  /\ upc = [u \in Users |-> "out"]
  /\ uconn = [u \in Users |-> NoConn]
  /\ kpc = [k \in Closers |-> "idle"]
  /\ panicked = FALSE

-----------------------------------------------------------------------------
(* Helpers shared by the handlers.                                         *)

\* Slip: the token is looked at, not taken.
ensureJanitorStartedKeepingToken ==
  \/ janitorClosed = "empty" /\ UNCHANGED <<janitorClosed, jpc>>
  \/ /\ janitorClosed # "empty" /\ UNCHANGED janitorClosed
     /\ \E j \in Janitors : /\ jpc[j] = "off" /\ j = AnyOf(Off)
                            /\ jpc' = [jpc EXCEPT ![j] = "loop"]

\* A receive from janitorClosed starts the janitor; a closed channel always
\* yields a value, so it starts one too.
ensureJanitorStarted ==
  \/ /\ janitorClosed = "empty"
     /\ UNCHANGED <<janitorClosed, jpc>>
  \/ /\ janitorClosed # "empty"
     /\ janitorClosed' = IF janitorClosed = "full" THEN "empty" ELSE "closed"
     /\ \E j \in Janitors :
          /\ jpc[j] = "off" /\ j = AnyOf(Off)
          /\ jpc' = [jpc EXCEPT ![j] = "loop"]

\* open and idle after setClosed(c): the time of the last close restarts.
setClosed(c) ==
  /\ open' = [open EXCEPT ![c] = IF @ > 0 THEN @ - 1 ELSE @]
  /\ idle' = [idle EXCEPT ![c] = IF open[c] > 0 THEN FALSE ELSE @]

\* Slips: the target keeps its entry; the connection is not closed.
removeConnsFromIndex(R) ==
  /\ index' = index \ R
  /\ state' = [c \in Conns |-> IF c \in R THEN "Shutdown" ELSE state[c]]
  /\ UNCHANGED conns
removeConnsWithoutClosing(R) ==
  /\ index' = index \ R
  /\ conns' = [t \in Targets |->
                 IF \E c \in R : target[c] = t THEN NoConn ELSE conns[t]]
  /\ UNCHANGED state

\* removeConn of every connection in R: both maps forget it (the entry of its
\* target whichever connection it holds) and it is closed.
removeConns(R) ==
  /\ index' = index \ R
  /\ conns' = [t \in Targets |->
                 IF \E c \in R : target[c] = t THEN NoConn ELSE conns[t]]
  /\ state' = [c \in Conns |-> IF c \in R THEN "Shutdown" ELSE state[c]]

-----------------------------------------------------------------------------
(* DialContext and ReleaseConn.                                            *)

\* Slip: the connection is handed out and not counted.
DialCachedUncounted(u, t) ==
  /\ UserAt(u, "out") /\ ~Closed
  /\ conns[t] # NoConn /\ state[conns[t]] # "Shutdown"
  /\ uconn' = [uconn EXCEPT ![u] = conns[t]]
  /\ upc' = [upc EXCEPT ![u] = "waiting"]
  /\ UNCHANGED <<cache, chans, jpc, kpc, panicked>>

\* createConn finds a connection that is not shut down: loadConn counts it.
DialCached(u, t) ==
  /\ UserAt(u, "out") /\ ~Closed
  /\ conns[t] # NoConn /\ state[conns[t]] # "Shutdown"
  /\ open' = [open EXCEPT ![conns[t]] = @ + 1]
  /\ uconn' = [uconn EXCEPT ![u] = conns[t]]
  /\ upc' = [upc EXCEPT ![u] = "waiting"]
  /\ UNCHANGED <<conns, index, target, idle, state, chans, jpc, kpc, panicked>>

\* shutdownConn of the entry loadConn found shut down, which may also start
\* the janitor; without such an entry nothing happens.
dropShutdown(t) ==
  IF conns[t] = NoConn THEN UNCHANGED <<janitorClosed, jpc>>
                       ELSE ensureJanitorStarted

\* createConn dials: the new connection replaces what was cached.
DialNew(u, t, c) ==
  /\ UserAt(u, "out") /\ ~Closed
  /\ conns[t] # NoConn => state[conns[t]] = "Shutdown"
  /\ c \in Fresh /\ c = AnyOf(Fresh)
  /\ dropShutdown(t)
  /\ conns' = [conns EXCEPT ![t] = c]
  /\ index' = (index \ {conns[t]}) \cup {c}
  /\ target' = [target EXCEPT ![c] = t]
  /\ open' = [open EXCEPT ![c] = 1]
  /\ uconn' = [uconn EXCEPT ![u] = c]
  /\ upc' = [upc EXCEPT ![u] = "waiting"]
  /\ UNCHANGED <<idle, state, janitorDone, kpc, panicked>>

\* grpc.DialContext refuses: the shut-down entry is gone all the same.
DialRefused(u, t) ==
  /\ UserAt(u, "out") /\ ~Closed
  /\ conns[t] # NoConn /\ state[conns[t]] = "Shutdown"
  /\ dropShutdown(t)
  /\ conns' = [conns EXCEPT ![t] = NoConn]
  /\ index' = index \ {conns[t]}
  /\ UNCHANGED <<target, open, idle, state, janitorDone, upc, uconn, kpc,
                 panicked>>

\* waitConn outside the lock: the connection is Ready, ...
WaitReady(u) ==
  /\ UserAt(u, "waiting") /\ state[uconn[u]] = "Ready"
  /\ upc' = [upc EXCEPT ![u] = "opened"]
  /\ UNCHANGED <<cache, chans, jpc, uconn, kpc, panicked>>

\* ... or it is in TRANSIENT_FAILURE, or the caller's context ends first.
WaitFails(u) ==
  /\ UserAt(u, "waiting") /\ state[uconn[u]] # "Ready"
  /\ upc' = [upc EXCEPT ![u] = "failed"]
  /\ UNCHANGED <<cache, chans, jpc, uconn, kpc, panicked>>

\* The end of openConn, still outside the lock.
DialReturns(u) ==
  /\ UserAt(u, "opened")
  /\ ensureJanitorStarted
  /\ upc' = [upc EXCEPT ![u] = "using"]
  /\ UNCHANGED <<cache, janitorDone, uconn, kpc, panicked>>

\* The error path of DialContext.
DialFails(u) ==
  /\ UserAt(u, "failed")
  /\ setClosed(uconn[u])
  /\ removeConns({uconn[u]})
  /\ upc' = [upc EXCEPT ![u] = "out"]
  /\ uconn' = [uconn EXCEPT ![u] = NoConn]
  /\ UNCHANGED <<target, chans, jpc, kpc, panicked>>

\* ReleaseConn: after Close it closes the connection, an unknown connection
\* is ignored, a known one is counted down.
ReleaseConn(u) ==
  /\ UserAt(u, "using")
  /\ upc' = [upc EXCEPT ![u] = "out"]
  /\ uconn' = [uconn EXCEPT ![u] = NoConn]
  /\ \/ /\ Closed
        /\ state' = [state EXCEPT ![uconn[u]] = "Shutdown"]
        /\ UNCHANGED <<open, idle, janitorClosed, jpc>>
     \/ /\ ~Closed /\ uconn[u] \notin index
        /\ UNCHANGED <<open, idle, state, janitorClosed, jpc>>
     \/ /\ ~Closed /\ uconn[u] \in index
        /\ setClosed(uconn[u])
        /\ ensureJanitorStarted
        /\ UNCHANGED state
  /\ UNCHANGED <<conns, index, target, janitorDone, kpc, panicked>>

\* The holder closes the connection itself. Nothing in the SDK does so; loadConn
\* and the janitor reckon with it, since DialContext hands the connection out.
HolderCloses(u) ==
  /\ UserAt(u, "using") /\ state[uconn[u]] # "Shutdown"
  /\ state' = [state EXCEPT ![uconn[u]] = "Shutdown"]
  /\ UNCHANGED <<conns, index, target, open, idle, chans, jpc, upc, uconn, kpc,
                 panicked>>

User(u) ==
  \/ \E t \in Targets : \/ DialCached(u, t)
                        \/ DialRefused(u, t)
                        \/ \E c \in Conns : DialNew(u, t, c)
  \/ WaitReady(u) \/ WaitFails(u) \/ DialReturns(u) \/ DialFails(u)
  \/ ReleaseConn(u) \/ HolderCloses(u)

-----------------------------------------------------------------------------
(* The janitor goroutine.                                                  *)

\* The loop reads cc.janitorDone afresh: nil once Close has finished.
EnterSelect(j) ==
  /\ JanitorAt(j, {"loop"})
  /\ jpc' = [jpc EXCEPT ![j] = IF Closed THEN "selectNil" ELSE "select"]
  /\ UNCHANGED <<cache, chans, upc, uconn, kpc, panicked>>

Tick(j) ==
  /\ JanitorAt(j, {"select", "selectNil"})
  /\ jpc' = [jpc EXCEPT ![j] = "sweep"]
  /\ UNCHANGED <<cache, chans, upc, uconn, kpc, panicked>>

\* A value in janitorDone, or its close.
Stopped(j) ==
  /\ JanitorAt(j, {"select"}) /\ janitorDone # "empty"
  /\ janitorDone' = IF Closed THEN "nil" ELSE "empty"
  /\ jpc' = [jpc EXCEPT ![j] = "returning"]
  /\ UNCHANGED <<cache, janitorClosed, upc, uconn, kpc, panicked>>

\* Slip: the time of the last close alone decides.
SweptByTime == {c \in index : idle[c] \/ state[c] = "Shutdown"}
Swept == {c \in index : \/ open[c] = 0 /\ idle[c]
                        \/ state[c] = "Shutdown"}

\* sweepAndRemove and the count of what is left, in one locked region.
Sweep(j) ==
  /\ JanitorAt(j, {"sweep"})
  /\ removeConns(Swept)
  /\ jpc' = [jpc EXCEPT ![j] = IF index = Swept THEN "exiting" ELSE "loop"]
  /\ UNCHANGED <<target, open, idle, chans, upc, uconn, kpc, panicked>>

\* janitorClosed <- true, outside the lock.
HandBack(j) ==
  /\ JanitorAt(j, {"exiting"}) /\ janitorClosed # "full"
  /\ \/ /\ janitorClosed = "empty"
        /\ janitorClosed' = "full"
        /\ jpc' = [jpc EXCEPT ![j] = "returning"]
        /\ UNCHANGED panicked
     \/ /\ janitorClosed = "closed"
        /\ panicked' = TRUE
        /\ UNCHANGED <<janitorClosed, jpc>>
  /\ UNCHANGED <<cache, janitorDone, upc, uconn, kpc>>

\* waitgroup.Done; the wait group counts the janitors that are not off.
JanitorReturns(j) ==
  /\ JanitorAt(j, {"returning"})
  /\ jpc' = [jpc EXCEPT ![j] = "off"]
  /\ UNCHANGED <<cache, chans, upc, uconn, kpc, panicked>>

Janitor(j) == \/ EnterSelect(j) \/ Tick(j) \/ Stopped(j) \/ Sweep(j)
              \/ HandBack(j) \/ JanitorReturns(j)

-----------------------------------------------------------------------------
(* Close.                                                                  *)

CloseCheck(k) ==
  /\ CloserAt(k, {"idle"})
  /\ kpc' = [kpc EXCEPT ![k] = IF Closed THEN "done" ELSE "select"]
  /\ UNCHANGED <<cache, chans, jpc, upc, uconn, panicked>>

\* Take the token if no janitor runs, else prepare to stop the janitor.
CloseSelect(k) ==
  /\ CloserAt(k, {"select"})
  /\ kpc' = [kpc EXCEPT ![k] = IF janitorClosed = "empty" THEN "send"
                                                          ELSE "flush"]
  /\ janitorClosed' = IF janitorClosed = "full" THEN "empty" ELSE janitorClosed
  /\ UNCHANGED <<cache, janitorDone, jpc, upc, uconn, panicked>>

\* Slip: Close waits for a janitor it did not stop.
CloseSendForgotten(k) ==
  /\ CloserAt(k, {"send"})
  /\ kpc' = [kpc EXCEPT ![k] = "wait"]
  /\ UNCHANGED <<cache, chans, jpc, upc, uconn, panicked>>

\* janitorDone <- true: it waits while the slot is full, panics if the channel
\* is closed meanwhile, and never returns if cc.janitorDone was nil by then.
CloseSend(k) ==
  /\ \/ /\ CloserAt(k, {"send", "blocked"}) /\ janitorDone = "empty"
        /\ janitorDone' = "full"
        /\ kpc' = [kpc EXCEPT ![k] = "wait"]
        /\ UNCHANGED panicked
     \/ /\ CloserAt(k, {"send"}) /\ janitorDone = "full"
        /\ kpc' = [kpc EXCEPT ![k] = "blocked"]
        /\ UNCHANGED <<janitorDone, panicked>>
     \/ /\ CloserAt(k, {"blocked"}) /\ Closed
        /\ panicked' = TRUE
        /\ UNCHANGED <<janitorDone, kpc>>
  /\ UNCHANGED <<cache, janitorClosed, jpc, upc, uconn>>

CloseWait(k) ==
  /\ CloserAt(k, {"wait"})
  /\ \A j \in Janitors : jpc[j] = "off"
  /\ kpc' = [kpc EXCEPT ![k] = "flush"]
  /\ UNCHANGED <<cache, chans, jpc, upc, uconn, panicked>>

\* Slip: cc.janitorDone is closed and not reset.
CloseFlushKeepingDone(k) ==
  /\ CloserAt(k, {"flush"})
  /\ state' = [c \in Conns |-> IF c \in index THEN "Shutdown" ELSE state[c]]
  /\ janitorClosed' = "closed" /\ janitorDone' = "closed"
  /\ kpc' = [kpc EXCEPT ![k] = "done"]
  /\ UNCHANGED <<conns, index, target, open, idle, jpc, upc, uconn, panicked>>

\* The locked end of Close: close every cached connection and both channels.
\* flush leaves both maps as they are.
CloseFlush(k) ==
  /\ CloserAt(k, {"flush"})
  /\ state' = [c \in Conns |-> IF c \in index THEN "Shutdown" ELSE state[c]]
  /\ IF janitorClosed = "closed"
     THEN /\ panicked' = TRUE
          /\ UNCHANGED <<chans, kpc>>
     ELSE /\ janitorClosed' = "closed"
          /\ janitorDone' = "nil"
          /\ kpc' = [kpc EXCEPT ![k] = "done"]
          /\ UNCHANGED panicked
  /\ UNCHANGED <<conns, index, target, open, idle, jpc, upc, uconn>>

Closer(k) == \/ CloseCheck(k) \/ CloseSelect(k) \/ CloseSend(k)
             \/ CloseWait(k) \/ CloseFlush(k)

-----------------------------------------------------------------------------
(* gRPC and the clock.                                                     *)

\* A connection that is not shut down changes its connectivity state.
GrpcChanges(c, s) ==
  /\ ~panicked /\ target[c] # NoTarget /\ state[c] # "Shutdown"
  /\ s # "Shutdown" /\ s # state[c]
  /\ state' = [state EXCEPT ![c] = s]
  /\ UNCHANGED <<conns, index, target, open, idle, chans, jpc, upc, uconn, kpc,
                 panicked>>

\* idleTime goes by after the last close.
IdleElapses(c) ==
  /\ ~panicked /\ c \in index /\ open[c] = 0 /\ ~idle[c]
  /\ idle' = [idle EXCEPT ![c] = TRUE]
  /\ UNCHANGED <<conns, index, target, open, state, chans, jpc, upc, uconn, kpc,
                 panicked>>

Environment == \E c \in Conns : \/ \E s \in GrpcStates : GrpcChanges(c, s)
                                \/ IdleElapses(c)

Next ==
  \/ \E u \in Users : User(u)
  \/ \E j \in Janitors : Janitor(j)
  \/ \E k \in Closers : Closer(k)
  \/ Environment

Spec == Init /\ [][Next]_vars

-----------------------------------------------------------------------------
(* Fairness: goroutines are scheduled, timers fire and select is fair      *)
(* between its ready cases. A user may hold a connection as long as it     *)
(* likes, so nothing is assumed of users.                                  *)
Fairness ==
  /\ \A j \in Janitors : /\ WF_vars(Janitor(j))
                         /\ SF_vars(Stopped(j))
  /\ \A k \in Closers : WF_vars(kpc[k] # "idle" /\ Closer(k))
  /\ \A c \in Conns : WF_vars(IdleElapses(c))

FairSpec == Spec /\ Fairness

-----------------------------------------------------------------------------
(* Properties.                                                             *)

\* The shape of the state; cachedConn.open never falls below zero.
TypeOK ==
  /\ conns \in [Targets -> Conns \cup {NoConn}]
  /\ index \subseteq Conns
  /\ target \in [Conns -> Targets \cup {NoTarget}]
  /\ open \in [Conns -> Nat]
  /\ idle \in [Conns -> BOOLEAN]
  /\ state \in [Conns -> GrpcStates]
  /\ janitorClosed \in {"empty", "full", "closed"}
  /\ janitorDone \in {"empty", "full", "nil"}
  /\ jpc \in [Janitors -> JanitorPc]
  /\ upc \in [Users -> UserPc]
  /\ uconn \in [Users -> Conns \cup {NoConn}]
  /\ kpc \in [Closers -> CloserPc]
  /\ panicked \in BOOLEAN

\* Both maps of the cache agree: a target never leads to a connection the
\* index has forgotten (removeConn and shutdownConn delete from both), whose
\* release would not be counted.
CacheConsistent ==
  \A t \in Targets : conns[t] # NoConn =>
    conns[t] \in index /\ target[conns[t]] = t

\* The reference count is exact: until Close, a cached connection's open is
\* the number of callers between loadConn and ReleaseConn (or the error path
\* of DialContext), whatever became of other users of that connection.
OpenCountExact ==
  ~Closed => \A c \in index : open[c] = Cardinality(Holders(c))

\* No connection leaks: one that the connector has dialled and no longer
\* indexes is shut down, and after Close all are, the dials that were in
\* flight included ("The Close method will flush all remaining open
\* connections", connector.go:28).
NothingLeaks ==
  \A c \in Conns \ Fresh : c \notin index \/ Closed => state[c] = "Shutdown"

\* The cache is sound: its two maps agree, its counts are true, and what it forgets is closed.
CacheSound == CacheConsistent /\ OpenCountExact /\ NothingLeaks

\* The janitor's token is conserved: until Close ends there is one token or
\* one janitor that will sweep, never both, and never two janitors.
\* A janitor is counted until it has given the token back or was stopped.
Sweeping == {j \in Janitors : jpc[j] \notin {"off", "returning"}}
OneJanitor ==
  ~Closed => /\ \A i, j \in Sweeping : i = j
             /\ janitorClosed = "full" => Sweeping = {}

\* A step that takes an open connection out of the cache while somebody holds it
\* is the error path of one of its own users' dials: the janitor never does that,
\* whatever else was closed, replaced or released in between, nor does a dial.
JanitorSparesInUse ==
  [][\A c \in index \ index' :
       state[c] # "Shutdown" /\ Holders(c) # {} =>
         \E u \in Holders(c) : upc[u] = "failed" /\ upc'[u] = "out"]_vars

\* Close gets its work done: the running janitor takes janitorDone or goes by
\* itself, dials cannot start janitors for ever while Close waits for them,
\* and a second Close does not block the first.
CloseTerminates ==
  (\E k \in Closers : kpc[k] = "select") ~> (Closed \/ panicked)

(* What the code's comments say and the code does not do.                  *)

\* "When connections has its usages closed for longer than "idleTime", the
\* connection is closed and removed from the connection cache"
\* (connector.go:26-27): only then.
ClosedOnlyWhenUnused ==
  [][\A c \in index \ index' :
       state[c] # "Shutdown" => \A u \in Users : uconn'[u] # c]_vars

=============================================================================
