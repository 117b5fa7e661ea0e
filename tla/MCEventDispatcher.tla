-------------------------- MODULE MCEventDispatcher --------------------------
(* Instances of EventDispatcher for TLC.                                   *)
EXTENDS EventDispatcher, TLC

CONSTANTS r1, r2, r3,     \* registrations
          tx1, ev1, ev2   \* a transaction and two chaincode events

Want(kind, key, filter, unregisters) ==
  [kind |-> kind, key |-> key, filter |-> filter, unregisters |-> unregisters]

SetupsMC == {
  \* two block listeners and a transaction; the dispatcher waits for them
  [timeout |-> "zero", want |->
     r1 :> Want("block", tx1, {1, 2}, 1) @@ r2 :> Want("block", tx1, {2}, 0)
       @@ r3 :> Want("tx", tx1, {}, 0)],
  \* two owners after the same transaction; a slow consumer misses blocks
  [timeout |-> "positive", want |->
     r1 :> Want("filtered", tx1, {}, 0) @@ r2 :> Want("tx", tx1, {}, 1)
       @@ r3 :> Want("tx", tx1, {}, 0)],
  \* chaincode events
  [timeout |-> "zero", want |->
     r1 :> Want("cc", ev1, {}, 1) @@ r2 :> Want("cc", ev2, {}, 0)
       @@ r3 :> Want("filtered", tx1, {}, 0)]}

\* A transaction that is valid at first and a duplicate the second time
TxsMC == <<<<[id |-> tx1, valid |-> TRUE, event |-> ev1]>>,
           <<[id |-> tx1, valid |-> FALSE, event |-> ev2]>>>>

=============================================================================
