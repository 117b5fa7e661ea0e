------------------------------- MODULE Lifecycle -------------------------------
(***************************************************************************)
(* The life cycle of a chaincode (pkg/fab/resource/lifecycle.go,           *)
(* pkg/client/resmgmt/lifecycleprocessor.go and lifecycleclient.go): an    *)
(* organization approves a definition, someone commits it, and everyone    *)
(* asks peers for what was approved, for the readiness of a commit and for *)
(* what is committed.                                                      *)
(*                                                                         *)
(* One administrator makes one call after the other; other administrators' *)
(* transactions come in between. The peers are external: each has a prefix *)
(* of the transactions and answers from it, at its own time and in its own *)
(* order. Who the targets are is in ResourceManagement, which also         *)
(* installs.                                                               *)
(***************************************************************************)
EXTENDS Naturals, FiniteSets, Sequences

CONSTANTS
  Orgs, Peers, OrgOf,
  Requests,              \* what is asked for: name, seq, sig and ref, the policy of
                         \* either kind, which may be None
  History,               \* the transactions that every peer has at first
  Default,               \* the reference peers take when there is no policy
  Enough,                \* how many approvals a commit wants
  MaxTransactions, MaxCalls, MaxFaults, None

VARIABLES
  txs,       \* the valid transactions: kind, org, def, and what was asked for
  heights,   \* how many of them each peer has
  call,      \* op, at, org, req, targets, todo, answers, floor (the highest of the
             \* targets when the call began), told, result
  counts     \* calls, faults: to their bounds

vars == <<txs, heights, call, counts>>

Idle == [op |-> None, at |-> "idle", org |-> None, req |-> None, targets |-> {}, todo |-> {},
         answers |-> <<>>, floor |-> 0, told |-> None, result |-> None]
Init ==
  /\ txs = History /\ heights = [p \in Peers |-> Len(History)] /\ call = Idle
  /\ counts = [calls |-> 0, faults |-> 0]

\* The bound on the world: it goes on while there is a call or there can be one.
Goes == call.at # "idle" \/ counts.calls < MaxCalls
Fault == counts.faults < MaxFaults /\ counts' = [counts EXCEPT !.faults = @ + 1]
Writes == {"approve", "commit"}
Reads == {"readiness", "approved", "committed", "all"}

-----------------------------------------------------------------------------
(* What a request says                                                     *)

\* MarshalApplicationPolicy
\* slip: the signature policy is the one that counts
MarshalEither(req) ==
  IF req.sig # None THEN <<"signature", req.sig>>
  ELSE IF req.ref # None THEN <<"reference", req.ref>> ELSE <<"none", None>>
Marshal(req) ==
  IF req.sig # None /\ req.ref # None THEN <<"error", None>>
  ELSE IF req.sig # None THEN <<"signature", req.sig>>
  ELSE IF req.ref # None THEN <<"reference", req.ref>> ELSE <<"none", None>>
\* UnmarshalApplicationPolicy; a definition without a policy would be an error.
Unmarshal(def) ==
  [name |-> def.name, seq |-> def.seq,
   sig |-> IF def.policy[1] = "signature" THEN def.policy[2] ELSE None,
   ref |-> IF def.policy[1] = "reference" THEN def.policy[2] ELSE None]
\* What a peer makes of the arguments
Def(req) ==
  [name |-> req.name, seq |-> req.seq,
   policy |-> IF Marshal(req)[1] = "none" THEN <<"reference", Default>> ELSE Marshal(req)]

\* What was asked for before is what there could be a transaction of.
IsRequest(r) == r = [name |-> r.name, seq |-> r.seq, sig |-> r.sig, ref |-> r.ref]
AsAsked(t) == IsRequest(t.asked) /\ Marshal(t.asked)[1] # "error" /\ t.def = Def(t.asked)
LifecycleAssumption ==
  /\ IsFiniteSet(Peers) /\ None \notin Writes \cup Reads \cup {"ok", "error", "mismatch"}
  /\ \A r \in Requests : IsRequest(r)
  /\ History \in Seq({History[i] : i \in DOMAIN History}) /\ Len(History) <= MaxTransactions
  /\ \A i \in DOMAIN History : AsAsked(History[i])
  /\ {MaxTransactions, MaxCalls, MaxFaults} \subseteq Nat

-----------------------------------------------------------------------------
(* What the peers know                                                     *)

Prefix(h) == SubSeq(txs, 1, h)
Committed(s) == {t.def : t \in {s[i] : i \in {j \in DOMAIN s :
  /\ s[j].kind = "commit"
  /\ \A k \in DOMAIN s : s[k].kind = "commit" /\ s[k].def.name = s[j].def.name => k <= j}}}
Sequence(s, name) ==
  LET of == {d \in Committed(s) : d.name = name}
  IN IF of = {} THEN 0 ELSE (CHOOSE d \in of : TRUE).seq
\* The last approval of an organization, of the newest sequence if none is named
Approvals(s, org, name, seq) ==
  {s[i].def : i \in {j \in DOMAIN s :
     /\ s[j].kind = "approve" /\ s[j].org = org /\ s[j].def.name = name
     /\ seq = 0 \/ s[j].def.seq = seq
     /\ \A k \in DOMAIN s : s[k].kind = "approve" /\ s[k].org = org /\ s[k].def.name = name
          /\ (seq = 0 \/ s[k].def.seq = seq) => k <= j}}
Approvers(s, def) == {o \in Orgs : Approvals(s, o, def.name, def.seq) = {def}}

Accepted(s, kind, org, def) ==
  /\ def.seq = Sequence(s, def.name) + 1
  /\ kind = "approve" => org \notin Approvers(s, def)
  /\ kind = "commit" => Cardinality(Approvers(s, def)) >= Enough

\* The content of an answer, and whether there is one
Answers(s, p) ==
  LET r == call.req IN
  CASE call.op = "readiness" ->
         IF r.seq = Sequence(s, r.name) + 1 THEN {Approvers(s, Def(r))} ELSE {}
    [] call.op = "approved" ->
         IF OrgOf[p] = call.org THEN Approvals(s, call.org, r.name, r.seq) ELSE {}
    [] call.op = "committed" ->
         {<<d, Approvers(s, d)>> : d \in {c \in Committed(s) : c.name = r.name}}
    [] call.op = "all" -> {Committed(s)}

\* Who commits does not matter.
Tx(kind, org, req) ==
  [kind |-> kind, org |-> IF kind = "approve" THEN org ELSE None, def |-> Def(req), asked |-> req]

Deliver(p) ==
  /\ Goes /\ heights[p] < Len(txs) /\ heights' = [heights EXCEPT ![p] = @ + 1]
  /\ UNCHANGED <<txs, call, counts>>
\* Another administrator has a transaction committed.
Others(kind, org, req) ==
  /\ Goes /\ Len(txs) < MaxTransactions /\ Marshal(req)[1] # "error"
  /\ Accepted(txs, kind, org, Def(req))
  /\ txs' = Append(txs, Tx(kind, org, req))
  /\ UNCHANGED <<heights, call, counts>>

-----------------------------------------------------------------------------
(* A call                                                                  *)

At(s) == call.at = s
Highest(ps) == CHOOSE h \in {heights[p] : p \in ps} : \A p \in ps : heights[p] <= h
\* verifyApproveParams and the like, prepare, and the proposal. Only queryApproved insists
\* on one target.
Begin(op, org, req, targets) ==
  /\ At("idle") /\ counts.calls < MaxCalls /\ targets # {}
  /\ counts' = [counts EXCEPT !.calls = @ + 1] /\ UNCHANGED <<txs, heights>>
  /\ LET new == [Idle EXCEPT !.op = op, !.org = IF op \in {"approve", "approved"} THEN org ELSE None,
                             !.req = IF op = "all" THEN None ELSE req, !.targets = targets,
                             !.floor = Highest(targets)]
         fails == \/ op = "approved" /\ Cardinality(targets) # 1
                  \/ op \in Writes \cup {"readiness"} /\ Marshal(req)[1] = "error"
     IN call' = IF fails THEN [new EXCEPT !.result = "error"]
                ELSE [new EXCEPT !.at = "asking", !.todo = targets]

\* In which order a peer lists the definitions is its own affair.
Listings(S) == {s \in [1 .. Cardinality(S) -> S] : {s[i] : i \in DOMAIN s} = S}
\* A peer answers; the responses are in the order they came. Where there is no answer, the
\* message gets lost or the signature is wrong (verifyTPSignature), the call fails.
Endorse(p) ==
  /\ At("asking") /\ p \in call.todo /\ UNCHANGED <<txs, heights, counts>>
  /\ LET s == Prefix(heights[p])
         answers == IF call.op \in Writes
                    THEN IF /\ Accepted(s, call.op, call.org, Def(call.req))
                            /\ call.op = "approve" => OrgOf[p] = call.org
                         THEN {<<"endorsed">>} ELSE {}
                    ELSE IF call.op = "all" THEN Listings(Committed(s)) ELSE Answers(s, p)
     IN \/ answers = {} /\ call' = [call EXCEPT !.at = "idle", !.result = "error"]
        \/ \E a \in answers :
             call' = [call EXCEPT !.todo = @ \ {p}, !.answers = Append(@, a),
                                  !.at = IF call.todo = {p} THEN "asked" ELSE @]
NoAnswer ==
  /\ At("asking") /\ Fault /\ call' = [call EXCEPT !.at = "idle", !.result = "error"]
  /\ UNCHANGED <<txs, heights>>

\* unmarshalInOrderCCDefResults; names are there once.
\* slip: the lists as they come
Unsorted(a) == a
InOrder(a) == IF call.op = "all" THEN {a[i] : i \in DOMAIN a} ELSE a
\* verifyResponsesMatch: each with the one before
\* slip: that there are answers is enough
MatchInLength(as) == \A i, j \in DOMAIN as : call.op = "all" => Len(as[i]) = Len(as[j])
Match(as) == \A i \in 1 .. Len(as) - 1 : InOrder(as[i]) = InOrder(as[i + 1])
\* The first one is told.
Tell ==
  LET a == call.answers[1] IN
  CASE call.op = "readiness" -> a
    [] call.op = "approved" -> Unmarshal(a)
    [] call.op = "committed" -> <<Unmarshal(a[1]), a[2]>>
    [] call.op = "all" -> [i \in DOMAIN a |-> Unmarshal(a[i])]
Report ==
  /\ At("asked") /\ call.op \in Reads /\ UNCHANGED <<txs, heights, counts>>
  /\ call' = IF call.op = "approved" \/ Match(call.answers)
             THEN [call EXCEPT !.at = "idle", !.result = "ok", !.told = Tell]
             ELSE [call EXCEPT !.at = "idle", !.result = "mismatch"]

\* commitTransaction: the orderer takes it, the peers find it valid or not, and the caller
\* hears of it or times out.
Commit ==
  /\ At("asked") /\ call.op \in Writes /\ UNCHANGED heights
  /\ LET def == Def(call.req)
         tx == Tx(call.op, call.org, call.req)
         valid == Accepted(txs, call.op, call.org, def)
     IN /\ Len(txs) < MaxTransactions
        /\ \/ txs' = (IF valid THEN Append(txs, tx) ELSE txs) /\ UNCHANGED counts
              /\ call' = [call EXCEPT !.at = "idle", !.result = IF valid THEN "ok" ELSE "error"]
           \/ Fault /\ txs' \in {txs, IF valid THEN Append(txs, tx) ELSE txs}
              /\ call' = [call EXCEPT !.at = "idle", !.result = "error"]

Next ==
  \/ \E p \in Peers : Deliver(p) \/ Endorse(p)
  \/ \E kind \in Writes, org \in Orgs, req \in Requests : Others(kind, org, req)
  \/ \E op \in Writes \cup Reads, org \in Orgs, req \in Requests, ps \in SUBSET Peers :
       Begin(op, org, req, ps)
  \/ NoAnswer \/ Report \/ Commit
Spec == Init /\ [][Next]_vars

-----------------------------------------------------------------------------
(* Properties                                                              *)

\* The shape of the state; a sequence is committed after the one before, and once.
TypeOK ==
  /\ Len(txs) <= MaxTransactions /\ heights \in [Peers -> 0 .. Len(txs)]
  /\ call.at \in {"idle", "asking", "asked"} /\ call.op \in Writes \cup Reads \cup {None}
  /\ call.result \in {None, "ok", "error", "mismatch"} /\ call.todo \subseteq call.targets
  /\ Len(call.answers) <= Cardinality(Peers)
  /\ \A c, d \in Committed(txs) : c.name = d.name => c = d

Told(op) == call.result = "ok" /\ call.op = op

\* A query of several peers never tells less than the one that was furthest when it began
\* knew: each tells what the channel was at some later moment, or there is an error.
NotOlderThanAsked ==
  /\ Told("all") => \E h \in call.floor .. Len(txs) :
       {call.told[i] : i \in DOMAIN call.told} = {Unmarshal(d) : d \in Committed(Prefix(h))}
  /\ Told("readiness") => \E h \in call.floor .. Len(txs) :
       call.told = Approvers(Prefix(h), Def(call.req))
  /\ Told("committed") => \E h \in call.floor .. Len(txs) : \E d \in Committed(Prefix(h)) :
       call.told = <<Unmarshal(d), Approvers(Prefix(h), d)>>

\* An approval is told as it was asked for: with the policy of the request, or the default
\* where it had none. A request with two is never approved.
ToldAsAskedFor ==
  Told("approved") => \E i \in DOMAIN txs :
    LET r == txs[i].asked IN
    /\ txs[i].kind = "approve" /\ txs[i].org = call.org
    /\ call.told = IF r.sig = None /\ r.ref = None THEN [r EXCEPT !.ref = Default] ELSE r

\* Peers that all know the same are never said to disagree.
SameIsNoMismatch ==
  call.result = "mismatch" => \E i, j \in DOMAIN call.answers :
    IF call.op = "all"
    THEN {call.answers[i][k] : k \in DOMAIN call.answers[i]}
           # {call.answers[j][k] : k \in DOMAIN call.answers[j]}
    ELSE call.answers[i] # call.answers[j]
=============================================================================
