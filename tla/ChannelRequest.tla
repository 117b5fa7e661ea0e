---------------------------- MODULE ChannelRequest ----------------------------
(***************************************************************************)
(* One Query or Execute of a channel client, with its retries:             *)
(* pkg/client/channel/chclient.go and the handlers of its package invoke.  *)
(*                                                                         *)
(* The caller waits in InvokeHandler for a goroutine that runs the chain   *)
(* of handlers, again and again while the retry handler says so, or for    *)
(* the timeout of the request; the goroutine goes on after the timeout.    *)
(* Proposals go to all targets at once, and what the targets answer is one *)
(* step; the orderers are tried one after the other. Each attempt has a    *)
(* transaction ID of its own: transactions are the numbers of attempts.    *)
(* The selection service (see Selection) is any that returns a smallest    *)
(* set of peers that satisfies the policies of the chaincodes it is asked  *)
(* about and passes the filter it is given. Policies ask for one peer of   *)
(* each of some organizations.                                             *)
(***************************************************************************)
EXTENDS Naturals, FiniteSets

CONSTANTS
  Peers, Orderers, Chaincodes, Payloads,
  Orgs, OrgOf,      \* OrgOf[p]: the MSP of a peer
  Policies,         \* Policies[cc]: the sets of organizations that will do
  Touches,          \* Touches[d]: the chaincodes in the read/write set of d
  Requests,         \* the requests to look at: kind, fixed (the targets of the
                    \* caller), called (the chaincode), chain
  Attempts,         \* retries of the retry options
  MaxFaults,        \* bounds what peers, orderers and the ledger refuse
  NoPayload

ASSUME RequestAssumption ==
  /\ IsFiniteSet(Peers)
  /\ OrgOf \in [Peers -> Orgs]
  /\ Policies \in [Chaincodes -> SUBSET SUBSET Orgs]
  /\ Touches \in [Payloads -> SUBSET Chaincodes]
  /\ Requests \subseteq [kind : {"query", "execute"}, fixed : SUBSET Peers,
                         called : Chaincodes, chain : SUBSET Chaincodes]
  /\ Attempts \in Nat /\ MaxFaults \in Nat
  /\ NoPayload \notin Payloads

Tx == 1 .. (Attempts + 1)

VARIABLES
  req,        \* the request; chain is replaced when more chaincodes are found
  pc,         \* where the goroutine is: select, endorse, more, validate, register,
              \* broadcast, wait, failed, complete
  attempt,    \* the number of the attempt; the retry handler's retries plus one
  targets,    \* Opts.Targets
  resps,      \* Response.Responses: peer and payload of each
  payload,    \* of the first response, whose read/write set is looked at
  error,      \* RequestContext.Error
  left,       \* the orderers broadcastEnvelope has not tried
  ctxDone,    \* the request's context is done
  result,     \* what the caller got: none, ok, error, timeout
  grey,       \* the peers on the greylist
  faults,     \* how much was refused; bounded by MaxFaults
  tx,         \* what the channel's ledger says of a transaction: none, sent, a code
  endorsed,   \* history: what was broadcast in a transaction, and by whom endorsed
  lost,       \* history: transactions an orderer took without saying so
  shunned,    \* history: peers that could not be reached, until their entry expires
  unaided     \* history: the selection of additional endorsers failed

client == <<req, attempt, targets, resps, payload, error, left>>
ledger == <<tx, endorsed, lost>>
caller == <<ctxDone, result>>
peers == <<grey, shunned>>
vars == <<client, pc, caller, peers, ledger, faults, unaided>>

NoError == [codes |-> {}, from |-> {}]

Init ==
  /\ req \in Requests /\ pc = "select" /\ attempt = 1
  /\ targets = req.fixed /\ resps = {} /\ payload = NoPayload
  /\ error = NoError /\ left = {}
  /\ ctxDone = FALSE /\ result = "none"
  /\ grey = {} /\ shunned = {} /\ faults = 0 /\ unaided = FALSE
  /\ tx = [t \in Tx |-> "none"] /\ lost = {}
  /\ endorsed = [t \in Tx |-> [orgs |-> {}, payload |-> NoPayload]]

-----------------------------------------------------------------------------
(* Errors: the codes they carry and the peers that sent them. An error     *)
(* that wraps several is one of its own code, MultipleErrors.              *)

Fail(codes, from) == pc' = "failed" /\ error' = [codes |-> codes, from |-> from]

\* ChannelClientRetryableCodes, as far as the codes are told apart here
Retryable == {"ConnectionFailed", "Unavailable", "EndorsementMismatch",
              "ServiceUnavailable", "PolicyFailure", "MVCCConflict"}

Invalid == {"PolicyFailure", "MVCCConflict", "BadPayload"}

OrgsOf(ps) == {OrgOf[p] : p \in ps}
Satisfies(orgs, ccs) == \A cc \in ccs : \E needed \in Policies[cc] : needed \subseteq orgs

-----------------------------------------------------------------------------
(* Selection and endorsement                                               *)

Enough(ps, ccs) == Satisfies(OrgsOf(ps), ccs)
Selection(ccs, accepted) ==
  {ps \in SUBSET accepted : ps # {} /\ Enough(ps, ccs)
                            /\ \A p \in ps : ~Enough(ps \ {p}, ccs)}

\* newInvocationChain
InvocationChain == req.chain \cup {req.called}

\* Targets of the caller are neither selected nor filtered. The peers the
\* greylist rejects are not selected.
Accepted == Peers \ grey

Select ==
  /\ pc = "select"
  /\ \/ /\ targets # {} /\ UNCHANGED targets /\ pc' = "endorse" /\ UNCHANGED error
     \/ /\ targets = {}
        /\ \E ps \in Selection(InvocationChain, Accepted) : targets' = ps
        /\ pc' = "endorse" /\ UNCHANGED error
     \/ /\ targets = {} /\ Selection(InvocationChain, Accepted) = {}
        /\ Fail({"NoPeersFound"}, {}) /\ UNCHANGED targets
  /\ UNCHANGED <<req, attempt, resps, payload, left, caller, peers, ledger, faults,
                 unaided>>

\* What a peer may answer: a payload, or how sending to it fails. When the context
\* is done, dialling fails either way and nothing is answered.
Refusals == {"ConnectionFailed", "Unavailable", "ChaincodeStatus", "Deadline"}
Answers ==
  IF ctxDone THEN {"ConnectionFailed", "Deadline"} ELSE Payloads \cup Refusals

\* SendProposal waits for all that it sent to; the errors of some are the error of all.
Failed(answer) == {p \in DOMAIN answer : answer[p] \in Refusals}
CodesOf(answer) == {answer[p] : p \in Failed(answer)}
Responses(answer) == {[peer |-> p, payload |-> answer[p]] : p \in DOMAIN answer}
Sends(answer) ==
  /\ faults' = IF ctxDone THEN faults ELSE faults + Cardinality(Failed(answer))
  /\ ctxDone \/ faults' <= MaxFaults
  /\ shunned' = IF CodesOf(answer) = {"ConnectionFailed"} /\ Cardinality(Failed(answer)) = 1
                THEN shunned \cup Failed(answer) ELSE shunned

\* EndorsementHandler: a new transaction ID, and the result of some response that
\* came first. Only Execute looks for more endorsers, unless the caller chose.
Proposed(answer) ==
  /\ Sends(answer)
  /\ IF Failed(answer) = {}
     THEN /\ resps' = Responses(answer) /\ UNCHANGED error
          /\ \E r \in resps' : payload' = r.payload
          /\ pc' = IF req.kind = "execute" /\ req.fixed = {} THEN "more" ELSE "validate"
     ELSE Fail(CodesOf(answer), Failed(answer)) /\ UNCHANGED <<resps, payload>>
Endorse ==
  /\ pc = "endorse" /\ \E answer \in [targets -> Answers] : Proposed(answer)
  /\ UNCHANGED <<req, attempt, targets, left, caller, grey, ledger, unaided>>

\* errors.WithMessage hides that there are several.
Wrap(answer) ==
  IF Cardinality(Failed(answer)) > 1 THEN {"MultipleErrors"} ELSE CodesOf(answer)

\* getAdditionalEndorsers: when the response touched chaincodes nobody named, the
\* chain becomes what it touched, for this attempt and the next. A selection that
\* fails is logged.
\* slip: those of the organizations that endorsed already
OldOrgs(ps) == {p \in ps : OrgOf[p] \in OrgsOf(targets)}
NewOrgs(ps) == {p \in ps : OrgOf[p] \notin OrgsOf(targets)}
FindMore ==
  /\ pc = "more"
  /\ IF Touches[payload] \subseteq InvocationChain
     THEN pc' = "validate" /\ UNCHANGED <<req, targets, unaided>>
     ELSE /\ req' = [req EXCEPT !.chain = Touches[payload]]
          /\ \/ pc' = "validate" /\ unaided' = TRUE /\ UNCHANGED targets
             \/ \E ps \in Selection(Touches[payload] \cup {req.called}, Accepted) :
                  IF NewOrgs(ps) = {}
                  THEN pc' = "validate" /\ UNCHANGED <<targets, unaided>>
                  ELSE pc' = "endorseMore" /\ targets' = NewOrgs(ps) /\ UNCHANGED unaided
  /\ UNCHANGED <<attempt, resps, payload, error, left, caller, peers, ledger, faults>>

ProposedMore(answer) ==
  /\ Sends(answer)
  /\ IF Failed(answer) = {}
     THEN resps' = resps \cup Responses(answer) /\ pc' = "validate" /\ UNCHANGED error
     ELSE Fail(Wrap(answer), Failed(answer)) /\ UNCHANGED resps
EndorseMore ==
  /\ pc = "endorseMore" /\ \E answer \in [targets -> Answers] : ProposedMore(answer)
  /\ UNCHANGED <<req, attempt, targets, payload, left, caller, grey, ledger, unaided>>

\* EndorsementValidationHandler, then SignatureValidationHandler, which may fail.
Agree == \A r, s \in resps : r.payload = s.payload
Validate ==
  /\ pc = "validate"
  /\ \/ /\ Agree /\ UNCHANGED <<error, faults>>
        /\ pc' = IF req.kind = "query" THEN "complete" ELSE "register"
     \/ ~Agree /\ Fail({"EndorsementMismatch"}, {}) /\ UNCHANGED faults
     \/ /\ Agree /\ faults < MaxFaults /\ faults' = faults + 1
        /\ Fail({"SignatureVerificationFailed"}, {})
  /\ UNCHANGED <<req, attempt, targets, resps, payload, left, caller, peers, ledger,
                 unaided>>

-----------------------------------------------------------------------------
(* CommitTxHandler                                                         *)

\* Registered before anything is sent; the event service may refuse.
Register ==
  /\ pc = "register"
  /\ \/ pc' = "broadcast" /\ left' = Orderers /\ UNCHANGED <<error, faults>>
     \/ /\ faults < MaxFaults /\ faults' = faults + 1
        /\ Fail({"NotRegistered"}, {}) /\ UNCHANGED left
  /\ UNCHANGED <<req, attempt, targets, resps, payload, caller, peers, ledger, unaided>>

\* An orderer takes the transaction.
Take ==
  /\ tx' = [tx EXCEPT ![attempt] = IF @ = "none" THEN "sent" ELSE @]
  /\ endorsed' = [endorsed EXCEPT ![attempt] =
                    [orgs |-> OrgsOf({r.peer : r \in resps}), payload |-> payload]]

\* The orderer says so, or it ends the stream without a word, which counts as
\* saying so whether it took the transaction or not.
Ordered(o) ==
  /\ pc = "broadcast" /\ o \in left
  /\ \/ ~ctxDone /\ Take /\ UNCHANGED faults
     \/ faults < MaxFaults /\ faults' = faults + 1 /\ UNCHANGED <<tx, endorsed>>
  /\ pc' = "wait" /\ UNCHANGED <<client, caller, peers, lost, unaided>>

\* Sending to it fails, or it refuses, or it takes it and the answer gets lost; the
\* next one is tried, and after the last one the last error is the error.
NotOrdered(o, code) ==
  /\ pc = "broadcast" /\ o \in left
  /\ left' = left \ {o}
  /\ \/ /\ UNCHANGED <<tx, endorsed, lost>>
     \/ /\ code \in {"Unavailable", "Deadline"} /\ Take /\ lost' = lost \cup {attempt}
  /\ IF left' = {} THEN Fail({code}, {}) ELSE UNCHANGED <<pc, error>>
  /\ UNCHANGED <<req, attempt, targets, resps, payload, caller, peers, unaided>>

OrdererRefuses(o) ==
  \/ /\ ~ctxDone /\ faults < MaxFaults /\ faults' = faults + 1
     /\ \E code \in {"ConnectionFailed", "Unavailable", "ServiceUnavailable",
                     "BadRequest", "Deadline"} : NotOrdered(o, code)
  \/ /\ ctxDone /\ UNCHANGED faults
     /\ \E code \in {"ConnectionFailed", "Deadline"} : NotOrdered(o, code)

\* The status of the transaction, or the end of the context
\* slip: any status will do
AnyStatus == /\ tx[attempt] \in Invalid \cup {"VALID"} /\ pc' = "complete"
             /\ UNCHANGED error
TxStatus ==
  \/ tx[attempt] = "VALID" /\ pc' = "complete" /\ UNCHANGED error
  \/ tx[attempt] \in Invalid /\ Fail({tx[attempt]}, {})
\* slip: waiting for the event only
NeverGivesUp == FALSE /\ UNCHANGED <<pc, error>>
GivesUp == ctxDone /\ Fail({"Timeout"}, {})
WaitForStatus ==
  /\ pc = "wait" /\ (TxStatus \/ GivesUp)
  /\ UNCHANGED <<req, attempt, targets, resps, payload, left, caller, peers, ledger,
                 faults, unaided>>

-----------------------------------------------------------------------------
(* The retry                                                               *)

\* Greylist: the peer of one failed connection, and of nothing else.
\* slip: nobody
GreylistNobody == {}
Greylisted ==
  IF error.codes = {"ConnectionFailed"} /\ Cardinality(error.from) = 1
  THEN error.from ELSE {}

\* slip: once too often
RequiredOnceMore == attempt <= Attempts + 1 /\ error.codes \cap Retryable # {}
Required == attempt <= Attempts /\ error.codes \cap Retryable # {}

Retry ==
  /\ pc = "failed" /\ Required
  /\ attempt' = attempt + 1 /\ pc' = "select"
  /\ grey' = grey \cup Greylisted
  /\ targets' = req.fixed /\ error' = NoError /\ resps' = {} /\ payload' = NoPayload
  /\ left' = {}
  /\ UNCHANGED <<req, caller, shunned, ledger, faults, unaided>>

FailForGood ==
  /\ pc = "failed" /\ ~Required /\ pc' = "complete"
  /\ UNCHANGED <<client, caller, peers, ledger, faults, unaided>>

-----------------------------------------------------------------------------
(* InvokeHandler and the rest of the world                                 *)

\* The request times out, or is cancelled when its caller has the answer.
Expires ==
  /\ ~ctxDone /\ ctxDone' = TRUE
  /\ UNCHANGED <<client, pc, result, peers, ledger, faults, unaided>>

CallerReturns ==
  /\ result = "none"
  /\ \/ pc = "complete" /\ result' = IF error = NoError THEN "ok" ELSE "error"
     \/ ctxDone /\ result' = "timeout"
  /\ ctxDone' = TRUE
  /\ UNCHANGED <<client, pc, peers, ledger, faults, unaided>>

\* Accept drops an entry that expired.
GreylistExpires(p) ==
  /\ p \in grey /\ grey' = grey \ {p} /\ shunned' = shunned \ {p}
  /\ UNCHANGED <<client, pc, caller, ledger, faults, unaided>>

\* The committing peers validate a transaction. What it read may have changed.
Commit(t) ==
  /\ tx[t] = "sent"
  /\ LET valid == Satisfies(endorsed[t].orgs, Touches[endorsed[t].payload]) IN
     \/ valid /\ tx' = [tx EXCEPT ![t] = "VALID"] /\ UNCHANGED faults
     \/ ~valid /\ tx' = [tx EXCEPT ![t] = "PolicyFailure"] /\ UNCHANGED faults
     \/ /\ valid /\ faults < MaxFaults /\ faults' = faults + 1
        /\ \E code \in Invalid : tx' = [tx EXCEPT ![t] = code]
  /\ UNCHANGED <<client, pc, caller, peers, endorsed, lost, unaided>>

Handler ==
  \/ Select \/ Endorse \/ FindMore \/ EndorseMore \/ Validate \/ Register
  \/ \E o \in Orderers : Ordered(o) \/ OrdererRefuses(o)
  \/ WaitForStatus \/ Retry \/ FailForGood

Next ==
  \/ Handler \/ Expires \/ CallerReturns
  \/ \E p \in Peers : GreylistExpires(p)
  \/ \E t \in Tx : Commit(t)

Spec == Init /\ [][Next]_vars

\* The goroutine runs, the caller does, and every request has a timeout.
FairSpec == Spec /\ WF_vars(Handler) /\ WF_vars(Expires) /\ WF_vars(CallerReturns)

-----------------------------------------------------------------------------
(* Properties                                                              *)

Codes == Retryable \cup Refusals \cup Invalid
           \cup {"MultipleErrors", "NoPeersFound", "SignatureVerificationFailed",
                 "NotRegistered", "BadRequest", "Timeout"}

\* The shape of the state.
TypeOK ==
  /\ req \in [kind : {"query", "execute"}, fixed : SUBSET Peers,
              called : Chaincodes, chain : SUBSET Chaincodes]
  /\ pc \in {"select", "endorse", "more", "endorseMore", "validate", "register",
             "broadcast", "wait", "failed", "complete"}
  /\ attempt \in Tx /\ targets \subseteq Peers
  /\ resps \subseteq [peer : Peers, payload : Payloads]
  /\ payload \in Payloads \cup {NoPayload}
  /\ error \in [codes : SUBSET Codes, from : SUBSET Peers] /\ left \subseteq Orderers
  /\ ctxDone \in BOOLEAN /\ result \in {"none", "ok", "error", "timeout"}
  /\ grey \subseteq Peers /\ shunned \subseteq Peers /\ faults \in 0 .. MaxFaults
  /\ tx \in [Tx -> {"none", "sent", "VALID"} \cup Invalid]
  /\ endorsed \in [Tx -> [orgs : SUBSET Orgs, payload : Payloads \cup {NoPayload}]]
  /\ lost \subseteq Tx /\ unaided \in BOOLEAN

\* Execute succeeds only when the transaction of its last attempt, with the payload
\* that is returned, is valid on the ledger; what an earlier attempt left under way
\* does not count as this one (CommitTxHandler, InvokeHandler).
SuccessIsCommitted ==
  result = "ok" /\ req.kind = "execute" =>
    tx[attempt] = "VALID" /\ endorsed[attempt].payload = payload

\* A request commits twice only if an orderer took a transaction and its answer got
\* lost: no other failure that is retried, and no timeout, leaves a transaction
\* behind that may still become valid (ChannelClientRetryableCodes).
CommitsTwiceOnlyIfAnswerLost ==
  \A s, t \in Tx : s < t /\ tx[s] = "VALID" /\ tx[t] # "none" => s \in lost

\* What the caller is told is in the ledger, and once unless an answer was lost.
CommitSound == SuccessIsCommitted /\ CommitsTwiceOnlyIfAnswerLost

\* What is broadcast is endorsed as the policies of all chaincodes ask whose data
\* it read or wrote, found while endorsing or named by the caller, unless the
\* caller chose the endorsers or the second selection failed
\* (SelectAndEndorseHandler).
EndorsedWhereNeeded ==
  \A t \in Tx : tx[t] # "none" /\ req.fixed = {} /\ ~unaided =>
    Satisfies(endorsed[t].orgs, Touches[endorsed[t].payload])

\* A peer that could not be reached is not selected again until its greylist entry
\* expires.
UnreachableIsAvoided ==
  [][pc = "select" /\ pc' = "endorse" /\ req.fixed = {} =>
       targets' \cap shunned = {}]_vars

\* The goroutine of a request ends, with or without its caller.
InvocationEnds == <>(pc = "complete")

\* "The channel client will greylist peers that are found to be offline to prevent
\* re-selecting them in subsequent retries" (config.yaml template): also when more
\* than one is offline.
OfflineAreGreylisted ==
  [][pc = "failed" /\ pc' = "select" /\ error.codes = {"ConnectionFailed"} =>
       error.from \subseteq grey']_vars

=============================================================================
