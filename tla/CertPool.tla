------------------------------- MODULE CertPool -------------------------------
(***************************************************************************)
(* The pool of TLS root certificates, pkg/core/config/comm/tls: Add puts   *)
(* certificates in a queue, the next Get makes a new pool of all of them.  *)
(*                                                                         *)
(* Adders are the channels whose MSPs bring their certificates, getters    *)
(* the dials. A step is what runs under the lock, or an atomic operation   *)
(* on the mark dirty. The system's pool may fail to load.                  *)
(***************************************************************************)
EXTENDS Naturals, Sequences, FiniteSets

CONSTANTS
  Adders, Getters,
  Brings,           \* what each adder adds, sets of certificates
  MaxGets, MaxFailures

CertAssumption == MaxFailures \in Nat /\ \A a \in Adders : IsFiniteSet(Brings[a])

VARIABLES
  queue,    \* certs, as a sequence
  dirty,
  pool,     \* certPool, as a set
  adder,    \* where a caller of Add is: filter, store, done
  toAdd,    \* the certificates it found to be new
  getter,   \* where a caller of Get is: idle, load, swap, read
  gets,     \* calls of Get it made
  due,      \* history: what was added before its call of Get
  loads     \* times the system pool failed to load

vars == <<queue, dirty, pool, adder, toAdd, getter, gets, due, loads>>

Queued == {queue[i] : i \in DOMAIN queue}

Init ==
  /\ queue = <<>> /\ dirty = FALSE /\ pool = {} /\ loads = 0
  /\ adder = [a \in Adders |-> "filter"] /\ toAdd = [a \in Adders |-> {}]
  /\ getter = [g \in Getters |-> "idle"] /\ gets = [g \in Getters |-> 0]
  /\ due = [g \in Getters |-> {}]

adding == <<adder, toAdd, queue>>
getting == <<getter, gets, due, pool, loads>>

-----------------------------------------------------------------------------
(* Add                                                                     *)

FilterCerts(a) ==
  /\ adder[a] = "filter" /\ adder' = [adder EXCEPT ![a] = "store"]
  /\ toAdd' = [toAdd EXCEPT ![a] = Brings[a] \ Queued]
  /\ UNCHANGED <<queue, dirty, getting>>

\* slip: only the first of them marks the pool
MarksFirst(new) == dirty \/ (new # <<>> /\ queue = <<>>)
\* dirty: there is more in the queue than in the pool.
Marks(new) == dirty \/ new # <<>>

\* Two that bring the same certificate may both store it.
Store(a) ==
  /\ adder[a] = "store" /\ adder' = [adder EXCEPT ![a] = "done"]
  /\ \E new \in [1 .. Cardinality(toAdd[a]) -> toAdd[a]] :
       /\ {new[i] : i \in DOMAIN new} = toAdd[a]
       /\ queue' = queue \o new /\ dirty' = Marks(new)
  /\ UNCHANGED <<toAdd, getting>>

-----------------------------------------------------------------------------
(* Get                                                                     *)

Goes(g, p) == getter' = [getter EXCEPT ![g] = p]

CallGet(g) ==
  /\ getter[g] = "idle" /\ gets[g] < MaxGets
  /\ gets' = [gets EXCEPT ![g] = @ + 1] /\ due' = [due EXCEPT ![g] = Queued]
  /\ Goes(g, IF dirty THEN "load" ELSE "read")
  /\ dirty' = FALSE /\ UNCHANGED <<adding, pool, loads>>

\* loadSystemCertPool; when it fails so does Get, and the mark is gone.
Load(g) ==
  /\ getter[g] = "load"
  /\ \/ Goes(g, "swap") /\ UNCHANGED loads
     \/ loads < MaxFailures /\ loads' = loads + 1 /\ Goes(g, "idle")
  /\ UNCHANGED <<adding, dirty, gets, due, pool>>

\* swapCertPool.
Swap(g) ==
  /\ getter[g] = "swap" /\ pool' = Queued /\ Goes(g, "read")
  /\ UNCHANGED <<adding, dirty, gets, due, loads>>

Read(g) ==
  /\ getter[g] = "read" /\ Goes(g, "idle") /\ UNCHANGED <<adding, dirty, gets, due, pool, loads>>

Next ==
  \/ \E a \in Adders : FilterCerts(a) \/ Store(a)
  \/ \E g \in Getters : CallGet(g) \/ Load(g) \/ Swap(g) \/ Read(g)

Spec == Init /\ [][Next]_vars

-----------------------------------------------------------------------------
(* Properties                                                              *)

\* The shape of the state.
TypeOK ==
  /\ queue \in Seq(UNION {Brings[a] : a \in Adders}) /\ dirty \in BOOLEAN
  /\ pool \subseteq Queued
  /\ adder \in [Adders -> {"filter", "store", "done"}]
  /\ getter \in [Getters -> {"idle", "load", "swap", "read"}]
  /\ loads \in 0 .. MaxFailures

\* What was added is in the pool, or the pool is marked so that the next Get puts it
\* there, or a Get is about to, or one could not load the system's pool (the mark is
\* cleared before the pool is swapped, and the two locks are not one).
NothingForgotten ==
  pool = Queued \/ dirty \/ loads > 0 \/ \E g \in Getters : getter[g] \in {"load", "swap"}

\* "if there are any certs in cert queue added by any previous Add() call, it adds those
\* certs to certpool before returning" (pkg/core/config/comm/tls/certpool.go).
GetHasAllAdded ==
  [][\A g \in Getters : getter[g] = "read" /\ getter'[g] = "idle" => due[g] \subseteq pool]_vars
=============================================================================
