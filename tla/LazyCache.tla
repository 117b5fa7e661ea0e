------------------------------ MODULE LazyCache ------------------------------
(***************************************************************************)
(* A cache whose entries are made when they are first asked for:           *)
(* pkg/util/concurrent/lazycache/lazycache.go and futurevalue.go beside    *)
(* it. Keys do not touch one another, so there is one key here: entry is   *)
(* the future the map holds for it. Callers of Get, of Delete and of Close *)
(* interleave at every operation of the map, which is a sync.Map.          *)
(***************************************************************************)
EXTENDS Naturals

CONSTANTS Futures, NoFuture, Getters, Deleters, Closers

CacheAssumption == NoFuture \notin Futures /\ Deleters \cap Closers = {}

VARIABLES
  entry,    \* the future in the map
  future,   \* new, locked (the initializer is to run or runs), set, failed
  cclosed,  \* the cache is closed
  getting,  \* where a caller of Get is: idle, store, begin, initialize, forget, wait
  mine,     \* the future it is about
  dropper,  \* where a caller of Delete or Close is: idle, range, drop, done, late
  loaded    \* the future it found

vars == <<entry, future, cclosed, getting, mine, dropper, loaded>>

Init ==
  /\ entry = NoFuture /\ future = [f \in Futures |-> "new"] /\ cclosed = FALSE
  /\ getting = [g \in Getters |-> "idle"] /\ mine = [g \in Getters |-> NoFuture]
  /\ dropper = [d \in Deleters \cup Closers |-> "idle"]
  /\ loaded = [d \in Deleters \cup Closers |-> NoFuture]

Goes(g, p) == getting' = [getting EXCEPT ![g] = p]
Has(g, f) == mine' = [mine EXCEPT ![g] = f]
Drops(d, p) == dropper' = [dropper EXCEPT ![d] = p]

-----------------------------------------------------------------------------
(* Get                                                                     *)

\* Load: there is a future to wait for, or one is made.
Load(g) ==
  /\ getting[g] = "idle"
  /\ Has(g, entry) /\ Goes(g, IF entry = NoFuture THEN "store" ELSE "wait")
  /\ UNCHANGED <<entry, future, cclosed, dropper, loaded>>

\* LoadOrStore: who stored it initializes it.
\* slip: whoever comes second initializes it, too
StoreAndBegin(g) ==
  /\ getting[g] = "store"
  /\ IF entry # NoFuture
     THEN Has(g, entry) /\ UNCHANGED <<entry, future>>
     ELSE \E f \in Futures : /\ future[f] = "new" /\ entry' = f /\ Has(g, f)
                             /\ future' = [future EXCEPT ![f] = "locked"]
  /\ Goes(g, "begin") /\ UNCHANGED <<cclosed, dropper, loaded>>
LoadOrStore(g) ==
  /\ getting[g] = "store"
  /\ IF entry # NoFuture
     THEN Has(g, entry) /\ Goes(g, "wait") /\ UNCHANGED <<entry, future>>
     ELSE /\ \E f \in Futures : /\ future[f] = "new" /\ entry' = f /\ Has(g, f)
                                /\ future' = [future EXCEPT ![f] = "locked"]
          /\ Goes(g, "begin")
  /\ UNCHANGED <<cclosed, dropper, loaded>>

Ends(g, how) == future' = [future EXCEPT ![mine[g]] = how]

\* The initializer looks at closed first ...
\* slip: it does not
BeginAnyway(g) ==
  /\ getting[g] = "begin" /\ Goes(g, "initialize")
  /\ UNCHANGED <<entry, future, cclosed, mine, dropper, loaded>>
Begin(g) ==
  /\ getting[g] = "begin"
  /\ IF cclosed THEN Ends(g, "failed") /\ Goes(g, "forget")
                ELSE Goes(g, "initialize") /\ UNCHANGED future
  /\ UNCHANGED <<entry, cclosed, mine, dropper, loaded>>

\* ... and then makes the value or fails. Initialize unlocks the future.
\* slip: a failure keeps it locked
FailLocked(g) ==
  /\ getting[g] = "initialize"
  /\ \/ Ends(g, "set") /\ Goes(g, "idle")
     \/ Goes(g, "forget") /\ UNCHANGED future
  /\ UNCHANGED <<entry, cclosed, mine, dropper, loaded>>
Initialize(g) ==
  /\ getting[g] = "initialize"
  /\ \/ Ends(g, "set") /\ Goes(g, "idle")
     \/ Ends(g, "failed") /\ Goes(g, "forget")
  /\ UNCHANGED <<entry, cclosed, mine, dropper, loaded>>

\* A failed one deletes the key, whoever's future is there.
Forget(g) ==
  /\ getting[g] = "forget" /\ entry' = NoFuture /\ Goes(g, "idle")
  /\ UNCHANGED <<future, cclosed, mine, dropper, loaded>>

\* Value.Get waits for the lock of a future that is not set.
Wait(g) ==
  /\ getting[g] = "wait" /\ future[mine[g]] # "locked" /\ Goes(g, "idle")
  /\ UNCHANGED <<entry, future, cclosed, mine, dropper, loaded>>

-----------------------------------------------------------------------------
(* Delete, and Close, which is DeleteAll of a cache that is closed         *)

CallClose(d) ==
  /\ d \in Closers /\ dropper[d] = "idle" /\ cclosed' = TRUE
  /\ Drops(d, IF cclosed THEN "late" ELSE "range")
  /\ UNCHANGED <<entry, future, getting, mine, loaded>>

\* Range, or the Load of Delete
Range(d) ==
  /\ dropper[d] = IF d \in Closers THEN "range" ELSE "idle"
  /\ loaded' = [loaded EXCEPT ![d] = entry]
  /\ Drops(d, IF entry = NoFuture THEN "done" ELSE "drop")
  /\ UNCHANGED <<entry, future, cclosed, getting, mine>>

\* The value was closed if it was set; the key goes, whoever's future is there.
Drop(d) ==
  /\ dropper[d] = "drop" /\ entry' = NoFuture /\ Drops(d, "done")
  /\ UNCHANGED <<future, cclosed, getting, mine, loaded>>

-----------------------------------------------------------------------------
Getter(g) == LoadOrStore(g) \/ Begin(g) \/ Initialize(g) \/ Forget(g) \/ Wait(g)

Next == \/ \E g \in Getters : Load(g) \/ Getter(g)
        \/ \E d \in Deleters \cup Closers : CallClose(d) \/ Range(d) \/ Drop(d)

Spec == Init /\ [][Next]_vars

\* Goroutines run, and initializers return.
FairSpec == Spec /\ \A g \in Getters : WF_vars(Getter(g))

-----------------------------------------------------------------------------
(* Properties                                                              *)

\* The shape of the state.
TypeOK ==
  /\ entry \in Futures \cup {NoFuture}
  /\ future \in [Futures -> {"new", "locked", "set", "failed"}] /\ cclosed \in BOOLEAN
  /\ getting \in [Getters -> {"idle", "store", "begin", "initialize", "forget", "wait"}]
  /\ mine \in [Getters -> Futures \cup {NoFuture}]
  /\ dropper \in [Deleters \cup Closers -> {"idle", "range", "drop", "done", "late"}]
  /\ loaded \in [Deleters \cup Closers -> Futures \cup {NoFuture}]

\* Close "prevents further calls to the cache" (lazycache.go:182): when it has
\* returned, no value is in the map any more, and none comes back, although Get
\* does not look at closed when it looks for the key.
NothingCachedAfterClose ==
  (\E d \in Closers : dropper[d] = "done") /\ entry # NoFuture => future[entry] # "set"

\* Whoever initializes a future is the one that stored it, alone: a second
\* Initialize would unlock it twice.
OneInitializer ==
  \A g, h \in Getters :
    /\ getting[g] \in {"begin", "initialize"} => future[mine[g]] = "locked"
    /\ getting[g] \in {"begin", "initialize"} /\ getting[h] \in {"begin", "initialize"}
       /\ mine[g] = mine[h] => g = h

\* Whoever waits for a value that another one initializes gets it, or its error.
GetsAnswered == \A g \in Getters : (getting[g] = "wait") ~> (getting[g] # "wait")

=============================================================================
