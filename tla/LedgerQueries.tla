---------------------------- MODULE LedgerQueries ----------------------------
(***************************************************************************)
(* Queries of a channel's ledger: pkg/client/ledger and pkg/fab/channel    *)
(* with the query of the channel configuration of pkg/fab/chconfig.        *)
(*                                                                         *)
(* A query goes to several peers at once, whose answers come in any order. *)
(* A peer may be behind the others, refuse, fail, send what is not signed, *)
(* or sign what is not so (a forger). What is asked for is block 1 or its  *)
(* transaction, the number of the newest configuration block, which every  *)
(* block of the model is, and the height of the chain.                     *)
(***************************************************************************)
EXTENDS Naturals, Sequences, FiniteSets, FiniteSetsExt

CONSTANTS
  Peers, Channel,       \* all peers, and those that discovery knows of the channel
  Own,                  \* the peers of the client's MSP, the default filter
  Given,                \* targets that requests name: sets of [peer, n], n from 1 for the
                        \* first, the second... time that the request names the peer
  Filters,              \* target filters of requests, as sets of peers
  Mins, Maxs,           \* WithMinTargets and WithMaxTargets, 0 for the default
  Forgers, MaxHeight, Attempts, MaxFaults

Ops == {"info", "block", "transaction", "config", "configBlock"}
Forged == MaxHeight + 1

LedgerAssumption ==
  /\ Channel \cup Own \cup Forgers \subseteq Peers /\ Filters \subseteq SUBSET Peers
  /\ Given \subseteq SUBSET [peer : Peers, n : Nat]
  /\ MaxHeight # 0 /\ Mins \cup Maxs \cup {MaxHeight, Attempts, MaxFaults} \subseteq Nat

VARIABLES
  call,     \* op, at; targets; asked: those that have not answered; responses: a
            \* sequence of [peer, value], the accepted ones; min; tries; result, answer
  world     \* height of each peer; faults

vars == <<call, world>>

Idle == [op |-> "none", at |-> "idle", targets |-> {}, asked |-> {}, responses |-> <<>>,
         min |-> 0, tries |-> 0, result |-> "none", answer |-> 0]
Init == call = Idle /\ world = [height |-> [p \in Peers |-> 1], faults |-> 0]

Ends(result, answer) ==
  call' = [call EXCEPT !.at = "done", !.result = result, !.answer = answer]

-----------------------------------------------------------------------------
(* Whom to ask                                                             *)

\* prepareRequestOpts
MinOf(min) == IF min = 0 THEN 1 ELSE min
MaxOf(min, max) == Max({MinOf(min), IF max = 0 THEN 1 ELSE max})

Discovered(filter) == {[peer |-> p, n |-> 1] : p \in Channel \cap filter}

\* getTargetsWithoutDuplicates
\* slip: who is named twice is asked twice
KeepDuplicates(targets) == targets
WithoutDuplicates(targets) == {t \in targets : \A s \in targets : s.peer = t.peer => t.n <= s.n}

\* calculateTargets: some of those there are, after the shuffle
Begin(op, targets, min, max) ==
  /\ call.at = "idle" /\ UNCHANGED world
  /\ IF targets = {} \/ Cardinality(targets) < MinOf(min) THEN Ends("error", 0)
     ELSE \E ts \in kSubset(Min({MaxOf(min, max), Cardinality(targets)}), targets) :
            LET asked == WithoutDuplicates(ts) IN
            call' = [Idle EXCEPT !.op = op, !.at = "asking", !.targets = asked,
                                 !.asked = asked, !.min = MinOf(min)]

-----------------------------------------------------------------------------
(* The answers                                                             *)

\* What a peer has to say of it; 0 for a bad status.
Says(p) ==
  IF p \in Forgers THEN Forged
  ELSE IF call.op \in {"block", "transaction"} THEN IF world.height[p] > 1 THEN 1 ELSE 0
  ELSE world.height[p]

\* Verify: the signature verifier, but none for QueryConfig
Accepts(signed) == signed \/ call.op = "config"

\* SendProposal and filterResponses
Respond(t) ==
  /\ call.at = "asking" /\ t \in call.asked
  /\ LET Accept(v) == call' = [call EXCEPT !.asked = @ \ {t},
                                           !.responses = Append(@, [peer |-> t.peer, value |-> v])]
         Reject == call' = [call EXCEPT !.asked = @ \ {t}]
         Faulty == world.faults < MaxFaults /\ world' = [world EXCEPT !.faults = @ + 1]
     IN \/ /\ UNCHANGED world
           /\ IF Says(t.peer) # 0 THEN Accept(Says(t.peer)) ELSE Reject
        \/ Faulty /\ IF Accepts(FALSE) THEN Accept(Forged) ELSE Reject

Values == {call.responses[i].value : i \in DOMAIN call.responses}

\* matchBlockData, Match and QueryTransaction compare all answers with the first; the
\* configuration block is taken from the first.
\* slip: one that agrees with the first is enough
Some(values) == TRUE
Agree(values) == Cardinality(values) = 1

Enough == Len(call.responses) >= IF call.op = "configBlock" THEN 1 ELSE call.min
\* slip: counts the attempts, not the retries
MayRetryOnceMore == call.op = "config" /\ call.tries <= Attempts
MayRetry == call.op = "config" /\ call.tries < Attempts

Answer ==
  /\ call.at = "asking" /\ call.asked = {} /\ UNCHANGED world
  /\ CASE ~Enough -> Ends("error", 0)
       [] Enough /\ call.op = "info" -> Ends("ok", Max(Values))
       [] Enough /\ call.op = "configBlock" -> Ends("ok", call.responses[1].value)
       [] Enough /\ call.op \in {"block", "transaction", "config"} ->
            IF Agree(Values) THEN Ends("ok", call.responses[1].value)
            ELSE IF MayRetry          \* EndorsementMismatch, ChannelConfigRetryableCodes
            THEN call' = [call EXCEPT !.asked = call.targets, !.responses = <<>>,
                                      !.tries = @ + 1]
            ELSE Ends("error", 0)

Finished == call.at = "done" /\ call' = Idle /\ UNCHANGED world

\* A peer commits a configuration block, no more than one ahead of the others.
Commit(p) ==
  /\ world.height[p] < MaxHeight /\ \A q \in Peers : world.height[p] <= world.height[q]
  /\ world' = [world EXCEPT !.height[p] = @ + 1] /\ UNCHANGED call

Next ==
  \/ \E op \in Ops, min \in Mins, max \in Maxs :
       \/ \E ts \in Given : Begin(op, ts, min, max)
       \/ \E f \in Filters \cup {Own} : Begin(op, Discovered(f), min, max)
  \/ \E t \in call.asked : Respond(t)
  \/ Answer \/ Finished
  \/ \E p \in Peers : Commit(p)

Spec == Init /\ [][Next]_vars

-----------------------------------------------------------------------------
(* Properties                                                              *)

\* The shape of the state.
TypeOK ==
  /\ call.op \in Ops \cup {"none"} /\ call.at \in {"idle", "asking", "done"}
  /\ call.asked \subseteq call.targets /\ call.tries \in 0 .. Attempts
  /\ \A i \in DOMAIN call.responses : call.responses[i] \in [peer : Peers, value : 1 .. Forged]
  /\ call.answer \in 0 .. Forged /\ call.result \in {"none", "ok", "error"}
  /\ world.height \in [Peers -> 1 .. MaxHeight] /\ world.faults \in 0 .. MaxFaults

Liars == {call.responses[i].peer : i \in {j \in DOMAIN call.responses :
                                             call.responses[j].value = Forged}}

\* What a client asks at least n peers about is true unless n of them lie: fewer are
\* outvoted by one who does not, or do not suffice, even if a request names a peer twice
\* (getTargetsWithoutDuplicates, matchBlockData, Match).
TrueUnlessMinLie ==
  call.result = "ok" /\ call.op \in {"block", "transaction", "config"}
    /\ Cardinality(Liars) < call.min => call.answer # Forged

\* "WithMinTargets specifies minimum number of targets that have to respond with no error
\* (or agree on result)" (pkg/client/ledger/opts.go): QueryConfigBlock, too.
ConfigBlockOfMin ==
  call.result = "ok" /\ call.op = "configBlock" => Len(call.responses) >= call.min
=============================================================================
