----------------------------- MODULE BlockStream -----------------------------
(***************************************************************************)
(* What the event client promises its registrations, whatever happens to   *)
(* the connections in between: they see the channel's blocks one by one,   *)
(* from a first block on, each one once and none left out                  *)
(* (pkg/fab/events/deliverclient/deliverclient.go:130).                    *)
(***************************************************************************)
EXTENDS Naturals, Sequences

CONSTANT First          \* the first block the registrations are to see

VARIABLES height,       \* the last block the channel has committed
          published     \* the blocks handed to the registrations

Init == /\ height \in Nat /\ First <= height + 1
        /\ published = <<>>

Commit == height' = height + 1 /\ UNCHANGED published

Publish == LET n == First + Len(published)
           IN  /\ n <= height
               /\ published' = Append(published, n)
               /\ UNCHANGED height

Spec == Init /\ [][Commit \/ Publish]_<<height, published>>

=============================================================================
