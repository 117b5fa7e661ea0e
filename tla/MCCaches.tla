------------------------------- MODULE MCCaches -------------------------------
(* LazyRef and LazyCache in one run: two programs that share nothing, of   *)
(* which a behaviour runs the one that part names.                         *)
EXTENDS LazyRef

CONSTANTS Futures, NoFuture, Deleters, OneCloser

VARIABLES part, entry, future, cclosed, getters, mine, dropper, loaded
cache == <<entry, future, cclosed, getters, mine, dropper, loaded>>

Cache == INSTANCE LazyCache WITH getting <- getters, Closers <- OneCloser
ASSUME CachesAssumption == Cache!CacheAssumption

MCInit == /\ Init /\ Cache!Init
          /\ part = "ref" \/ (part = "cache" /\ expiryType = "Never")
RefSteps == part = "ref" /\ Next /\ UNCHANGED <<cache, part>>
CacheSteps == part = "cache" /\ Cache!Next /\ UNCHANGED <<vars, part>>
MCNext == RefSteps \/ CacheSteps

Ref(A) == part = "ref" /\ A /\ UNCHANGED <<cache, part>>
Cached(A) == part = "cache" /\ A /\ UNCHANGED <<vars, part>>
all == <<vars, cache, part>>

MCSpec ==
  /\ MCInit /\ [][MCNext]_all
  /\ \A g \in Getters : WF_all(Ref(Get(g))) /\ WF_all(Cached(Cache!Getter(g)))
  /\ \A k \in Closers : WF_all(Ref(Close(k)))
  /\ \A t \in Timers : WF_all(Ref(Timer(t))) /\ SF_all(Ref(TimerClosed(t)))

TypesOK == TypeOK /\ Cache!TypeOK

\* One goroutine initializes a value of the cache, and none is kept once it is closed.
CacheSound == Cache!OneInitializer /\ Cache!NothingCachedAfterClose

\* Close of a reference returns, and so does whoever waits for a value of a cache.
EverybodyReturns == CloseReturns /\ Cache!GetsAnswered
=============================================================================
