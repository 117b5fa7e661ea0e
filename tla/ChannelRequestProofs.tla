------------------------- MODULE ChannelRequestProofs -------------------------
(***************************************************************************)
(* Proofs about ChannelRequest for every number of peers, orderers,        *)
(* chaincodes and attempts, and for every policy.                          *)
(***************************************************************************)
EXTENDS ChannelRequest, FiniteSetTheorems, TLAPS

(***************************************************************************)
(* The inductive invariant. What is said of a transaction depends on where *)
(* the goroutine is: an attempt has none before it broadcasts, and leaves  *)
(* none behind that may still become valid when it is tried again.         *)
(***************************************************************************)

Early == {"select", "endorse", "more", "endorseMore", "validate", "register"}

\* Attempts to come have no transaction, nor has the one that did not broadcast; what a
\* transaction holds is what the response of its attempt was.
TxIsOfAttempt ==
  /\ \A t \in Tx : t > attempt => tx[t] = "none"
  /\ pc \in Early => tx[attempt] = "none"
  /\ tx[attempt] # "none" => endorsed[attempt].payload = payload

\* Who is told of success is told what is in the ledger.
OkIsTold ==
  /\ pc = "failed" => error.codes # {}
  /\ pc = "complete" /\ error = NoError /\ req.kind = "execute" => tx[attempt] = "VALID"
  /\ result = "ok" => pc = "complete" /\ error = NoError

\* A transaction that is left behind is settled, or it was taken without a word.
Settled(t) == tx[t] \in Invalid \/ t \in lost
AreSettled ==
  /\ \A s \in Tx : s < attempt /\ tx[s] # "none" => Settled(s)
  /\ pc = "broadcast" /\ tx[attempt] # "none" => attempt \in lost
  /\ pc = "failed" /\ error.codes \cap Retryable # {} /\ tx[attempt] # "none" =>
       Settled(attempt)

\* The peers that answered, with those that are asked, are enough.
Chosen == req.fixed = {} /\ ~unaided
Answered == {r.peer : r \in resps}
AreEnough ==
  /\ pc = "select" => targets = req.fixed
  /\ pc \in {"endorse", "more"} /\ Chosen => Enough(targets, InvocationChain)
  /\ pc = "more" => Answered = targets
  /\ pc = "endorseMore" /\ Chosen => Enough(Answered \cup targets, Touches[payload])
  /\ pc \in {"more", "endorseMore", "validate", "register", "broadcast"} =>
       payload # NoPayload
  /\ pc \in {"more", "endorseMore", "register", "broadcast", "wait"} => req.kind = "execute"
  /\ pc \in {"validate", "register", "broadcast"} /\ req.kind = "execute" /\ Chosen =>
       Enough(Answered, Touches[payload])

\* Whoever could not be reached is on the greylist, or will be when it is tried again.
AreGreylisted ==
  pc # "complete" => shunned \subseteq grey \cup (IF pc = "failed" THEN Greylisted ELSE {})

IInv == /\ TypeOK
        /\ TxIsOfAttempt
        /\ OkIsTold
        /\ AreSettled
        /\ AreEnough
        /\ EndorsedWhereNeeded
        /\ AreGreylisted

-----------------------------------------------------------------------------
(* What endorses a set of chaincodes still does with more endorsers.       *)

LEMMA EnoughGrows ==
  ASSUME NEW ps, NEW qs, NEW ccs, Enough(ps, ccs), OrgsOf(ps) \subseteq OrgsOf(qs)
  PROVE  Enough(qs, ccs)
BY DEF Enough, Satisfies

LEMMA EnoughForLess ==
  ASSUME NEW ps, NEW ccs, NEW some, Enough(ps, ccs), some \subseteq ccs
  PROVE  Enough(ps, some)
BY DEF Enough, Satisfies

\* What the peers answer: as many refusals as can be counted, and if there are none
\* responses of all of them.
LEMMA AnswersType ==
  ASSUME TypeOK, NEW answer \in [targets -> Answers]
  PROVE  /\ Cardinality(Failed(answer)) \in Nat
         /\ Failed(answer) \subseteq targets
         /\ CodesOf(answer) \subseteq Refusals /\ Wrap(answer) \subseteq Codes
         /\ Failed(answer) # {} => CodesOf(answer) # {} /\ Wrap(answer) # {}
         /\ Failed(answer) = {} =>
              Responses(answer) \subseteq [peer : Peers, payload : Payloads]
         /\ {r.peer : r \in Responses(answer)} = targets
<1>1. Failed(answer) \subseteq targets
  BY DEF Failed
<1>2. Cardinality(Failed(answer)) \in Nat
  BY <1>1, FS_Subset, FS_CardinalityType, RequestAssumption DEF TypeOK
<1>3. CodesOf(answer) \subseteq Refusals
  BY DEF Failed, CodesOf
<1>4. Failed(answer) # {} => CodesOf(answer) # {}
  BY DEF CodesOf
<1>5. Wrap(answer) \subseteq Codes
  BY <1>3 DEF Wrap, Codes
<1>6. Failed(answer) # {} => Wrap(answer) # {}
  BY <1>4 DEF Wrap
<1>7. Failed(answer) = {} => Responses(answer) \subseteq [peer : Peers, payload : Payloads]
  <2> SUFFICES ASSUME Failed(answer) = {}, NEW p \in targets
               PROVE  [peer |-> p, payload |-> answer[p]] \in
                        [peer : Peers, payload : Payloads]
    BY DEF Responses
  <2>1. answer[p] \in Answers /\ answer[p] \notin Refusals
    BY DEF Failed
  <2>2. answer[p] \in Payloads
    BY <2>1 DEF Answers, Refusals
  <2> QED
    BY <2>2 DEF TypeOK
<1>8. {r.peer : r \in Responses(answer)} = targets
  <2>1. ASSUME NEW p \in targets
        PROVE  \E r \in Responses(answer) : p = r.peer
    <3>1. [peer |-> p, payload |-> answer[p]] \in Responses(answer)
      BY DEF Responses
    <3> QED
      BY <3>1
  <2>2. \A r \in Responses(answer) : r.peer \in targets
    BY DEF Responses
  <2> QED
    BY <2>1, <2>2
<1> QED
  BY <1>1, <1>2, <1>3, <1>4, <1>5, <1>6, <1>7, <1>8

LEMMA SendsType ==
  ASSUME TypeOK, NEW answer \in [targets -> Answers], Sends(answer)
  PROVE  faults' \in 0 .. MaxFaults /\ shunned' \subseteq Peers
<1>1. Cardinality(Failed(answer)) \in Nat /\ Failed(answer) \subseteq targets
  BY AnswersType
<1>2. faults' \in 0 .. MaxFaults
  BY <1>1, RequestAssumption DEF Sends, TypeOK
<1> QED
  BY <1>1, <1>2 DEF Sends, TypeOK

LEMMA FaultsAtInit ==
  ASSUME Init
  PROVE  faults \in 0 .. MaxFaults /\ tx \in [Tx -> {"none", "sent", "VALID"} \cup Invalid]
BY RequestAssumption DEF Init

LEMMA TakenType ==
  ASSUME TypeOK, UNCHANGED endorsed \/ Take
  PROVE  endorsed' \in [Tx -> [orgs : SUBSET Orgs, payload : Payloads \cup {NoPayload}]]
<1>1. OrgsOf({r.peer : r \in resps}) \subseteq Orgs
  BY RequestAssumption DEF TypeOK, OrgsOf
<1> QED
  BY <1>1 DEF Take, TypeOK

\* Where endorsing leads to, and that its failures have codes
LEMMA EndorsingGoes ==
  ASSUME TypeOK, Endorse \/ EndorseMore
  PROVE  /\ pc \in Early \ {"select"} /\ pc' \in {"more", "validate", "failed"}
         /\ pc' = "failed" => error'.codes # {}
         /\ pc' # "failed" => UNCHANGED error
         /\ UNCHANGED <<req, attempt, targets, left, caller, grey, ledger, unaided>>
<1>1. CASE Endorse
  <2>1. PICK answer \in [targets -> Answers] : Proposed(answer)
    BY <1>1 DEF Endorse
  <2>2. Failed(answer) # {} => CodesOf(answer) # {}
    BY AnswersType
  <2> QED
    BY <1>1, <2>1, <2>2 DEF Endorse, Proposed, Fail, Early, caller, ledger
<1>2. CASE EndorseMore
  <2>1. PICK answer \in [targets -> Answers] : ProposedMore(answer)
    BY <1>2 DEF EndorseMore
  <2>2. Failed(answer) # {} => Wrap(answer) # {}
    BY AnswersType
  <2> QED
    BY <1>2, <2>1, <2>2 DEF EndorseMore, ProposedMore, Fail, Early, caller, ledger
<1> QED
  BY <1>1, <1>2

LEMMA InitIInv ==
  ASSUME Init
  PROVE  IInv
<1> USE RequestAssumption DEF Init, NoError
<1>1. TypeOK
  <2>1. /\ req \in [kind : {"query", "execute"}, fixed : SUBSET Peers,
                    called : Chaincodes, chain : SUBSET Chaincodes]
        /\ targets \subseteq Peers
    OBVIOUS
  <2>2. attempt \in Tx
    BY DEF Tx
  <2>3. error \in [codes : SUBSET Codes, from : SUBSET Peers]
    OBVIOUS
  <2>4. endorsed \in [Tx -> [orgs : SUBSET Orgs, payload : Payloads \cup {NoPayload}]]
    OBVIOUS
  <2> QED
    BY <2>1, <2>2, <2>3, <2>4, FaultsAtInit DEF TypeOK
<1>2. TxIsOfAttempt /\ OkIsTold /\ AreSettled /\ AreGreylisted
  BY DEF TxIsOfAttempt, OkIsTold, AreSettled, AreGreylisted, Tx
<1>3. AreEnough /\ EndorsedWhereNeeded
  BY DEF AreEnough, EndorsedWhereNeeded, Chosen
<1> QED
  BY <1>1, <1>2, <1>3 DEF IInv

\* Every step keeps the types; faults are counted because peers are finitely many.
LEMMA TypeStep ==
  ASSUME TypeOK, AreEnough, [Next]_vars
  PROVE  TypeOK'
<1> USE RequestAssumption DEF client, ledger, caller, peers, Fail, TypeOK
<1>1. ASSUME Select
      PROVE  TypeOK'
  BY <1>1 DEF Select, Selection, Accepted, Codes
<1>2. ASSUME Endorse
      PROVE  TypeOK'
  <2>1. PICK answer \in [targets -> Answers] : Proposed(answer)
    BY <1>2 DEF Endorse
  <2>2. faults' \in 0 .. MaxFaults /\ shunned' \subseteq Peers
    BY <2>1, SendsType DEF Proposed
  <2>3. CASE Failed(answer) = {}
    <3>1. resps' \subseteq [peer : Peers, payload : Payloads] /\ payload' \in Payloads
      BY <2>1, <2>3, AnswersType DEF Proposed
    <3> QED
      BY <1>2, <2>1, <2>2, <2>3, <3>1 DEF Endorse, Proposed
  <2>4. CASE Failed(answer) # {}
    <3>1. error' \in [codes : SUBSET Codes, from : SUBSET Peers]
      BY <2>1, <2>4, AnswersType DEF Proposed, Codes
    <3> QED
      BY <1>2, <2>1, <2>2, <2>4, <3>1 DEF Endorse, Proposed
  <2> QED
    BY <2>3, <2>4
<1>3. ASSUME FindMore
      PROVE  TypeOK'
  <2>1. Touches[payload] \subseteq Chaincodes
    BY <1>3, RequestAssumption DEF FindMore, AreEnough
  <2>2. req' \in [kind : {"query", "execute"}, fixed : SUBSET Peers,
                  called : Chaincodes, chain : SUBSET Chaincodes]
    BY <1>3, <2>1 DEF FindMore
  <2>3. targets' \subseteq Peers
    BY <1>3 DEF FindMore, Selection, NewOrgs, Accepted
  <2>4. pc' \in {"validate", "endorseMore"} /\ unaided' \in BOOLEAN
    BY <1>3 DEF FindMore
  <2> QED
    BY <1>3, <2>2, <2>3, <2>4 DEF FindMore
<1>4. ASSUME EndorseMore
      PROVE  TypeOK'
  <2>1. PICK answer \in [targets -> Answers] : ProposedMore(answer)
    BY <1>4 DEF EndorseMore
  <2>2. faults' \in 0 .. MaxFaults /\ shunned' \subseteq Peers
    BY <2>1, SendsType DEF ProposedMore
  <2>3. CASE Failed(answer) = {}
    <3>1. resps' \subseteq [peer : Peers, payload : Payloads]
      BY <2>1, <2>3, AnswersType DEF ProposedMore
    <3> QED
      BY <1>4, <2>1, <2>2, <2>3, <3>1 DEF EndorseMore, ProposedMore
  <2>4. CASE Failed(answer) # {}
    <3>1. error' \in [codes : SUBSET Codes, from : SUBSET Peers]
      BY <2>1, <2>4, AnswersType DEF ProposedMore
    <3> QED
      BY <1>4, <2>1, <2>2, <2>4, <3>1 DEF EndorseMore, ProposedMore
  <2> QED
    BY <2>3, <2>4
<1>5. ASSUME Validate
      PROVE  TypeOK'
  <2>1. error' \in [codes : SUBSET Codes, from : SUBSET Peers]
    BY <1>5 DEF Validate, Codes, Retryable
  <2>2. faults' \in 0 .. MaxFaults
    BY <1>5 DEF Validate
  <2> QED
    BY <1>5, <2>1, <2>2 DEF Validate
<1>6. ASSUME Register
      PROVE  TypeOK'
  BY <1>6 DEF Register, Codes
<1>7. ASSUME NEW o \in Orderers, Ordered(o)
      PROVE  TypeOK'
  <2>1. tx' \in [Tx -> {"none", "sent", "VALID"} \cup Invalid]
    BY <1>7 DEF Ordered, Take
  <2>2. endorsed' \in [Tx -> [orgs : SUBSET Orgs, payload : Payloads \cup {NoPayload}]]
    BY <1>7, TakenType DEF Ordered
  <2>3. faults' \in 0 .. MaxFaults
    BY <1>7 DEF Ordered
  <2> QED
    BY <1>7, <2>1, <2>2, <2>3 DEF Ordered
<1>8. ASSUME NEW o \in Orderers, OrdererRefuses(o)
      PROVE  TypeOK'
  <2>1. PICK code \in {"ConnectionFailed", "Unavailable", "ServiceUnavailable",
                       "BadRequest", "Deadline"} : NotOrdered(o, code)
    BY <1>8 DEF OrdererRefuses
  <2>2. tx' \in [Tx -> {"none", "sent", "VALID"} \cup Invalid] /\ lost' \subseteq Tx
    BY <2>1 DEF NotOrdered, Take
  <2>3. endorsed' \in [Tx -> [orgs : SUBSET Orgs, payload : Payloads \cup {NoPayload}]]
    BY <2>1, TakenType DEF NotOrdered
  <2>4. faults' \in 0 .. MaxFaults
    BY <1>8 DEF OrdererRefuses
  <2>5. error' \in [codes : SUBSET Codes, from : SUBSET Peers]
    BY <2>1 DEF NotOrdered, Codes, Retryable, Refusals
  <2> QED
    BY <2>1, <2>2, <2>3, <2>4, <2>5 DEF NotOrdered
<1>9. ASSUME WaitForStatus
      PROVE  TypeOK'
  BY <1>9 DEF WaitForStatus, TxStatus, GivesUp, Codes
<1>10. ASSUME Retry
      PROVE  TypeOK'
  BY <1>10 DEF Retry, Required, NoError, Tx, Greylisted
<1>11. ASSUME FailForGood
      PROVE  TypeOK'
  BY <1>11 DEF FailForGood
<1>12. ASSUME Expires
      PROVE  TypeOK'
  BY <1>12 DEF Expires
<1>13. ASSUME CallerReturns
      PROVE  TypeOK'
  BY <1>13 DEF CallerReturns
<1>14. ASSUME NEW p \in Peers, GreylistExpires(p)
      PROVE  TypeOK'
  BY <1>14 DEF GreylistExpires
<1>15. ASSUME NEW t \in Tx, Commit(t)
      PROVE  TypeOK'
  BY <1>15 DEF Commit, Invalid
<1>16. CASE UNCHANGED vars
  BY <1>16 DEF vars
<1> QED
  BY <1>1, <1>2, <1>3, <1>4, <1>5, <1>6, <1>7, <1>8, <1>9, <1>10, <1>11, <1>12,
     <1>13, <1>14, <1>15, <1>16
  DEF Next, Handler
\* Transactions are those of attempts, which have one each.
LEMMA TxStep ==
  ASSUME TypeOK, TxIsOfAttempt, [Next]_vars
  PROVE  TxIsOfAttempt'
<1> USE DEF client, ledger, caller, peers, Fail, TypeOK, TxIsOfAttempt, Early
<1>1. ASSUME Select
      PROVE  TxIsOfAttempt'
  BY <1>1 DEF Select
<1>2. ASSUME Endorse
      PROVE  TxIsOfAttempt'
  BY <1>2 DEF Endorse
<1>3. ASSUME FindMore
      PROVE  TxIsOfAttempt'
  BY <1>3 DEF FindMore
<1>4. ASSUME EndorseMore
      PROVE  TxIsOfAttempt'
  BY <1>4 DEF EndorseMore
<1>5. ASSUME Validate
      PROVE  TxIsOfAttempt'
  BY <1>5 DEF Validate
<1>6. ASSUME Register
      PROVE  TxIsOfAttempt'
  BY <1>6 DEF Register
<1>7. ASSUME NEW o \in Orderers, Ordered(o)
      PROVE  TxIsOfAttempt'
  <2>1. UNCHANGED tx \/ tx' = [tx EXCEPT ![attempt] = IF @ = "none" THEN "sent" ELSE @]
    BY <1>7 DEF Ordered, Take
  <2>2. UNCHANGED <<attempt, payload>> /\ pc' = "wait"
    BY <1>7 DEF Ordered
  <2>3. \A t \in Tx : t > attempt => tx'[t] = "none"
    BY <2>1, RequestAssumption DEF Tx
  <2>4. tx'[attempt] # "none" => endorsed'[attempt].payload = payload
    BY <1>7 DEF Ordered, Take
  <2> QED
    BY <2>2, <2>3, <2>4
<1>8. ASSUME NEW o \in Orderers, OrdererRefuses(o)
      PROVE  TxIsOfAttempt'
  <2>1. PICK code : NotOrdered(o, code)
    BY <1>8 DEF OrdererRefuses
  <2>2. UNCHANGED tx \/ tx' = [tx EXCEPT ![attempt] = IF @ = "none" THEN "sent" ELSE @]
    BY <2>1 DEF NotOrdered, Take
  <2>3. UNCHANGED <<attempt, payload>> /\ pc' \in {"broadcast", "failed"}
    BY <2>1 DEF NotOrdered
  <2>4. \A t \in Tx : t > attempt => tx'[t] = "none"
    BY <2>2, RequestAssumption DEF Tx
  <2>5. tx'[attempt] # "none" => endorsed'[attempt].payload = payload
    BY <2>1 DEF NotOrdered, Take
  <2> QED
    BY <2>3, <2>4, <2>5
<1>9. ASSUME WaitForStatus
      PROVE  TxIsOfAttempt'
  BY <1>9 DEF WaitForStatus, TxStatus, GivesUp
<1>10. ASSUME Retry
      PROVE  TxIsOfAttempt'
  BY <1>10, RequestAssumption DEF Retry, Required, Tx
<1>11. ASSUME FailForGood
      PROVE  TxIsOfAttempt'
  BY <1>11 DEF FailForGood
<1>12. ASSUME Expires
      PROVE  TxIsOfAttempt'
  BY <1>12 DEF Expires
<1>13. ASSUME CallerReturns
      PROVE  TxIsOfAttempt'
  BY <1>13 DEF CallerReturns
<1>14. ASSUME NEW p \in Peers, GreylistExpires(p)
      PROVE  TxIsOfAttempt'
  BY <1>14 DEF GreylistExpires
<1>15. ASSUME NEW t \in Tx, Commit(t)
      PROVE  TxIsOfAttempt'
  BY <1>15 DEF Commit
<1>16. CASE UNCHANGED vars
  BY <1>16 DEF vars
<1> QED
  BY <1>1, <1>2, <1>3, <1>4, <1>5, <1>6, <1>7, <1>8, <1>9, <1>10, <1>11, <1>12,
     <1>13, <1>14, <1>15, <1>16
  DEF Next, Handler
\* Success is told at the end of an attempt whose transaction is valid.
LEMMA OkStep ==
  ASSUME TypeOK, OkIsTold, [Next]_vars
  PROVE  OkIsTold'
<1> USE DEF client, ledger, caller, peers, Fail, TypeOK, OkIsTold, NoError, Tx
<1>1. ASSUME Select
      PROVE  OkIsTold'
  BY <1>1 DEF Select
<1>2. ASSUME Endorse
      PROVE  OkIsTold'
  BY <1>2, EndorsingGoes DEF Early
<1>3. ASSUME FindMore
      PROVE  OkIsTold'
  BY <1>3 DEF FindMore
<1>4. ASSUME EndorseMore
      PROVE  OkIsTold'
  BY <1>4, EndorsingGoes DEF Early
<1>5. ASSUME Validate
      PROVE  OkIsTold'
  BY <1>5 DEF Validate
<1>6. ASSUME Register
      PROVE  OkIsTold'
  BY <1>6 DEF Register
<1>7. ASSUME NEW o \in Orderers, Ordered(o)
      PROVE  OkIsTold'
  BY <1>7 DEF Ordered
<1>8. ASSUME NEW o \in Orderers, OrdererRefuses(o)
      PROVE  OkIsTold'
  <2>1. PICK code : NotOrdered(o, code)
    BY <1>8 DEF OrdererRefuses
  <2>2. /\ pc = "broadcast" /\ pc' \in {"broadcast", "failed"} /\ UNCHANGED result
        /\ pc' = "failed" => error'.codes = {code}
    BY <2>1 DEF NotOrdered
  <2> QED
    BY <2>2
<1>9. ASSUME WaitForStatus
      PROVE  OkIsTold'
  <2>1. pc = "wait" /\ UNCHANGED <<req, attempt, tx, result>>
    BY <1>9 DEF WaitForStatus
  <2>2. CASE tx[attempt] = "VALID" /\ pc' = "complete" /\ UNCHANGED error
    BY <2>1, <2>2
  <2>3. CASE pc' = "failed" /\ error'.codes \in {{tx[attempt]}, {"Timeout"}}
    BY <2>1, <2>3
  <2> QED
    BY <1>9, <2>2, <2>3 DEF WaitForStatus, TxStatus, GivesUp
<1>10. ASSUME Retry
      PROVE  OkIsTold'
  BY <1>10 DEF Retry, Required
<1>11. ASSUME FailForGood
      PROVE  OkIsTold'
  BY <1>11 DEF FailForGood
<1>12. ASSUME Expires
      PROVE  OkIsTold'
  BY <1>12 DEF Expires
<1>13. ASSUME CallerReturns
      PROVE  OkIsTold'
  BY <1>13 DEF CallerReturns
<1>14. ASSUME NEW p \in Peers, GreylistExpires(p)
      PROVE  OkIsTold'
  BY <1>14 DEF GreylistExpires
<1>15. ASSUME NEW t \in Tx, Commit(t)
      PROVE  OkIsTold'
  BY <1>15 DEF Commit
<1>16. CASE UNCHANGED vars
  BY <1>16 DEF vars
<1> QED
  BY <1>1, <1>2, <1>3, <1>4, <1>5, <1>6, <1>7, <1>8, <1>9, <1>10, <1>11, <1>12,
     <1>13, <1>14, <1>15, <1>16
  DEF Next, Handler
\* Only what is settled, or was lost, is tried again.
LEMMA SettledStep ==
  ASSUME TypeOK, TxIsOfAttempt, AreSettled, [Next]_vars
  PROVE  AreSettled'
<1> USE DEF client, ledger, caller, peers, Fail, TypeOK, AreSettled, Settled, TxIsOfAttempt,
            Early, Tx, Invalid
<1>1. ASSUME Select
      PROVE  AreSettled'
  BY <1>1 DEF Select
<1>2. ASSUME Endorse
      PROVE  AreSettled'
  BY <1>2, EndorsingGoes
<1>3. ASSUME FindMore
      PROVE  AreSettled'
  BY <1>3 DEF FindMore
<1>4. ASSUME EndorseMore
      PROVE  AreSettled'
  BY <1>4, EndorsingGoes DEF Early
<1>5. ASSUME Validate
      PROVE  AreSettled'
  BY <1>5 DEF Validate
<1>6. ASSUME Register
      PROVE  AreSettled'
  BY <1>6 DEF Register
<1>7. ASSUME NEW o \in Orderers, Ordered(o)
      PROVE  AreSettled'
  BY <1>7, RequestAssumption DEF Ordered, Take
<1>8. ASSUME NEW o \in Orderers, OrdererRefuses(o)
      PROVE  AreSettled'
  BY <1>8 DEF OrdererRefuses, NotOrdered, Take
<1>9. ASSUME WaitForStatus
      PROVE  AreSettled'
  BY <1>9 DEF WaitForStatus, TxStatus, GivesUp, Retryable, Invalid
<1>10. ASSUME Retry
      PROVE  AreSettled'
  BY <1>10 DEF Retry, Required
<1>11. ASSUME FailForGood
      PROVE  AreSettled'
  BY <1>11 DEF FailForGood
<1>12. ASSUME Expires
      PROVE  AreSettled'
  BY <1>12 DEF Expires
<1>13. ASSUME CallerReturns
      PROVE  AreSettled'
  BY <1>13 DEF CallerReturns
<1>14. ASSUME NEW p \in Peers, GreylistExpires(p)
      PROVE  AreSettled'
  BY <1>14 DEF GreylistExpires
<1>15. ASSUME NEW t \in Tx, Commit(t)
      PROVE  AreSettled'
  BY <1>15 DEF Commit
<1>16. CASE UNCHANGED vars
  BY <1>16 DEF vars
<1> QED
  BY <1>1, <1>2, <1>3, <1>4, <1>5, <1>6, <1>7, <1>8, <1>9, <1>10, <1>11, <1>12,
     <1>13, <1>14, <1>15, <1>16
  DEF Next, Handler
\* Endorsements are enough for what is known of the chaincodes.
LEMMA EnoughStep ==
  ASSUME TypeOK, AreEnough, [Next]_vars
  PROVE  AreEnough'
<1> USE DEF client, ledger, caller, peers, Fail, TypeOK, AreEnough, Chosen, Answered,
            InvocationChain
<1>1. ASSUME Select
      PROVE  AreEnough'
  <2>1. targets = req.fixed /\ pc' \in {"endorse", "failed"} /\ UNCHANGED <<req, unaided>>
    BY <1>1 DEF Select
  <2>2. pc' = "endorse" /\ Chosen => Enough(targets', InvocationChain)
    BY <1>1, <2>1 DEF Select, Selection
  <2> QED
    BY <2>1, <2>2
<1>2. ASSUME Endorse
      PROVE  AreEnough'
  <2>1. PICK answer \in [targets -> Answers] : Proposed(answer)
    BY <1>2 DEF Endorse
  <2>2. CASE Failed(answer) = {}
    <3>1. Answered' = targets
      BY <2>1, <2>2, AnswersType DEF Proposed
    <3>2. payload' # NoPayload
      BY <2>1, <2>2, AnswersType, RequestAssumption DEF Proposed
    <3>3. /\ pc = "endorse" /\ pc' = IF req.kind = "execute" /\ req.fixed = {} THEN "more"
                                                                             ELSE "validate"
          /\ UNCHANGED <<req, targets, unaided>>
      BY <1>2, <2>1, <2>2 DEF Endorse, Proposed
    <3> QED
      BY <3>1, <3>2, <3>3
  <2>3. CASE Failed(answer) # {}
    BY <2>1, <2>3 DEF Proposed
  <2> QED
    BY <2>2, <2>3
<1>3. ASSUME FindMore
      PROVE  AreEnough'
  <2>1. /\ Answered' = Answered /\ Answered = targets /\ payload # NoPayload
        /\ req.kind = "execute" /\ req'.kind = "execute" /\ req'.fixed = req.fixed
        /\ pc' \in {"validate", "endorseMore"} /\ UNCHANGED payload
    BY <1>3 DEF FindMore
  <2>2. CASE Touches[payload] \subseteq InvocationChain
    <3>1. Chosen => Enough(targets, Touches[payload])
      BY <1>3, <2>2, EnoughForLess DEF FindMore
    <3> QED
      BY <1>3, <2>1, <2>2, <3>1 DEF FindMore
  <2>3. CASE pc' = "validate" /\ unaided'
    BY <2>1, <2>3
  <2>4. ASSUME NEW ps \in Selection(Touches[payload] \cup {req.called}, Accepted),
               UNCHANGED unaided,
               \/ NewOrgs(ps) = {} /\ pc' = "validate" /\ UNCHANGED targets
               \/ pc' = "endorseMore" /\ targets' = NewOrgs(ps)
        PROVE  AreEnough'
    <3>1. Enough(ps, Touches[payload])
      BY EnoughForLess DEF Selection
    <3>2. pc' = "validate" => OrgsOf(ps) \subseteq OrgsOf(Answered')
      <4>1. pc' = "validate" => NewOrgs(ps) = {}
        BY <2>4
      <4>2. \A p \in ps : p \in NewOrgs(ps) \/ OrgOf[p] \in OrgsOf(targets)
        BY DEF NewOrgs
      <4>3. NewOrgs(ps) = {} => OrgsOf(ps) \subseteq OrgsOf(targets)
        BY <4>2 DEF OrgsOf
      <4>4. Answered' = targets
        BY <2>1
      <4> QED
        BY <4>1, <4>3, <4>4
    <3>3. pc' = "endorseMore" => OrgsOf(ps) \subseteq OrgsOf(Answered' \cup targets')
      <4>1. pc' = "endorseMore" => targets' = NewOrgs(ps)
        BY <2>4
      <4>2. \A p \in ps : p \in NewOrgs(ps) \/ OrgOf[p] \in OrgsOf(Answered')
        BY <2>1 DEF NewOrgs
      <4>3. OrgsOf(ps) \subseteq OrgsOf(NewOrgs(ps)) \cup OrgsOf(Answered')
        BY <4>2 DEF OrgsOf
      <4>4. OrgsOf(NewOrgs(ps)) \cup OrgsOf(Answered') = OrgsOf(Answered' \cup NewOrgs(ps))
        BY DEF OrgsOf
      <4> QED
        BY <4>1, <4>3, <4>4
    <3>4. pc' = "validate" => Enough(Answered', Touches[payload])
      BY <3>1, <3>2, EnoughGrows
    <3>5. pc' = "endorseMore" => Enough(Answered' \cup targets', Touches[payload])
      BY <3>1, <3>3, EnoughGrows
    <3> QED
      BY <2>1, <3>4, <3>5
  <2> QED
    BY <1>3, <2>2, <2>3, <2>4 DEF FindMore
<1>4. ASSUME EndorseMore
      PROVE  AreEnough'
  <2>1. PICK answer \in [targets -> Answers] : ProposedMore(answer)
    BY <1>4 DEF EndorseMore
  <2>2. CASE Failed(answer) = {}
    <3>1. Answered' = Answered \cup {r.peer : r \in Responses(answer)}
      BY <2>1, <2>2 DEF ProposedMore
    <3>2. Answered' = Answered \cup targets
      BY <3>1, AnswersType
    <3>3. pc = "endorseMore" /\ pc' = "validate" /\ UNCHANGED <<req, payload, unaided>>
      BY <1>4, <2>1, <2>2 DEF EndorseMore, ProposedMore
    <3> QED
      BY <3>2, <3>3
  <2>3. CASE Failed(answer) # {}
    BY <2>1, <2>3 DEF ProposedMore
  <2> QED
    BY <2>2, <2>3
<1>5. ASSUME Validate
      PROVE  AreEnough'
  BY <1>5 DEF Validate
<1>6. ASSUME Register
      PROVE  AreEnough'
  BY <1>6 DEF Register
<1>7. ASSUME NEW o \in Orderers, Ordered(o)
      PROVE  AreEnough'
  BY <1>7 DEF Ordered
<1>8. ASSUME NEW o \in Orderers, OrdererRefuses(o)
      PROVE  AreEnough'
  BY <1>8 DEF OrdererRefuses, NotOrdered
<1>9. ASSUME WaitForStatus
      PROVE  AreEnough'
  BY <1>9 DEF WaitForStatus, TxStatus, GivesUp
<1>10. ASSUME Retry
      PROVE  AreEnough'
  BY <1>10 DEF Retry
<1>11. ASSUME FailForGood
      PROVE  AreEnough'
  BY <1>11 DEF FailForGood
<1>12. ASSUME Expires
      PROVE  AreEnough'
  BY <1>12 DEF Expires
<1>13. ASSUME CallerReturns
      PROVE  AreEnough'
  BY <1>13 DEF CallerReturns
<1>14. ASSUME NEW p \in Peers, GreylistExpires(p)
      PROVE  AreEnough'
  BY <1>14 DEF GreylistExpires
<1>15. ASSUME NEW t \in Tx, Commit(t)
      PROVE  AreEnough'
  BY <1>15 DEF Commit
<1>16. CASE UNCHANGED vars
  BY <1>16 DEF vars
<1> QED
  BY <1>1, <1>2, <1>3, <1>4, <1>5, <1>6, <1>7, <1>8, <1>9, <1>10, <1>11, <1>12,
     <1>13, <1>14, <1>15, <1>16
  DEF Next, Handler
\* A transaction that an orderer takes, or does not take
LEMMA TakenIsEnough ==
  ASSUME TypeOK, AreEnough, EndorsedWhereNeeded, pc = "broadcast",
         Take \/ UNCHANGED <<tx, endorsed>>, UNCHANGED <<req, unaided>>
  PROVE  EndorsedWhereNeeded'
<1>1. CASE Take
  <2> SUFFICES ASSUME NEW t \in Tx, tx'[t] # "none", req.fixed = {}, ~unaided
               PROVE  Satisfies(endorsed'[t].orgs, Touches[endorsed'[t].payload])
    BY DEF EndorsedWhereNeeded
  <2>1. CASE t = attempt
    <3>1. Enough(Answered, Touches[payload])
      BY DEF AreEnough, Chosen
    <3>2. endorsed'[t] = [orgs |-> OrgsOf(Answered), payload |-> payload]
      BY <1>1, <2>1 DEF Take, TypeOK, Answered
    <3> QED
      BY <3>1, <3>2 DEF Enough
  <2>2. CASE t # attempt
    BY <1>1, <2>2 DEF Take, TypeOK, EndorsedWhereNeeded
  <2> QED
    BY <2>1, <2>2
<1>2. CASE UNCHANGED <<tx, endorsed>>
  BY <1>2 DEF EndorsedWhereNeeded
<1> QED
  BY <1>1, <1>2

\* What is taken by an orderer has been endorsed by enough.
LEMMA EndorsedStep ==
  ASSUME TypeOK, AreEnough, EndorsedWhereNeeded, TxIsOfAttempt, [Next]_vars
  PROVE  EndorsedWhereNeeded'
<1> USE DEF client, ledger, caller, peers, Fail, TypeOK, EndorsedWhereNeeded
<1>1. ASSUME Select
      PROVE  EndorsedWhereNeeded'
  BY <1>1 DEF Select
<1>2. ASSUME Endorse
      PROVE  EndorsedWhereNeeded'
  BY <1>2 DEF Endorse
<1>3. ASSUME FindMore
      PROVE  EndorsedWhereNeeded'
  BY <1>3 DEF FindMore
<1>4. ASSUME EndorseMore
      PROVE  EndorsedWhereNeeded'
  BY <1>4 DEF EndorseMore
<1>5. ASSUME Validate
      PROVE  EndorsedWhereNeeded'
  BY <1>5 DEF Validate
<1>6. ASSUME Register
      PROVE  EndorsedWhereNeeded'
  BY <1>6 DEF Register
<1>7. ASSUME NEW o \in Orderers, Ordered(o)
      PROVE  EndorsedWhereNeeded'
  BY <1>7, TakenIsEnough DEF Ordered
<1>8. ASSUME NEW o \in Orderers, OrdererRefuses(o)
      PROVE  EndorsedWhereNeeded'
  <2>1. PICK code : NotOrdered(o, code)
    BY <1>8 DEF OrdererRefuses
  <2> QED
    BY <2>1, TakenIsEnough DEF NotOrdered
<1>9. ASSUME WaitForStatus
      PROVE  EndorsedWhereNeeded'
  BY <1>9 DEF WaitForStatus
<1>10. ASSUME Retry
      PROVE  EndorsedWhereNeeded'
  BY <1>10 DEF Retry
<1>11. ASSUME FailForGood
      PROVE  EndorsedWhereNeeded'
  BY <1>11 DEF FailForGood
<1>12. ASSUME Expires
      PROVE  EndorsedWhereNeeded'
  BY <1>12 DEF Expires
<1>13. ASSUME CallerReturns
      PROVE  EndorsedWhereNeeded'
  BY <1>13 DEF CallerReturns
<1>14. ASSUME NEW p \in Peers, GreylistExpires(p)
      PROVE  EndorsedWhereNeeded'
  BY <1>14 DEF GreylistExpires
<1>15. ASSUME NEW t \in Tx, Commit(t)
      PROVE  EndorsedWhereNeeded'
  BY <1>15 DEF Commit
<1>16. CASE UNCHANGED vars
  BY <1>16 DEF vars
<1> QED
  BY <1>1, <1>2, <1>3, <1>4, <1>5, <1>6, <1>7, <1>8, <1>9, <1>10, <1>11, <1>12,
     <1>13, <1>14, <1>15, <1>16
  DEF Next, Handler
\* A failure to reach one peer is what puts it on the greylist.
LEMMA GreylistStep ==
  ASSUME TypeOK, AreGreylisted, [Next]_vars
  PROVE  AreGreylisted'
<1> USE DEF client, ledger, caller, peers, Fail, TypeOK, AreGreylisted, Greylisted
<1>1. ASSUME Select
      PROVE  AreGreylisted'
  BY <1>1 DEF Select
<1>2. ASSUME Endorse
      PROVE  AreGreylisted'
  <2>1. PICK answer \in [targets -> Answers] : Proposed(answer)
    BY <1>2 DEF Endorse
  <2>2. CASE Failed(answer) = {}
    <3>1. UNCHANGED <<shunned, grey>> /\ pc # "failed" /\ pc # "complete"
      BY <1>2, <2>1, <2>2 DEF Endorse, Proposed, Sends, CodesOf
    <3> QED
      BY <3>1
  <2>3. CASE Failed(answer) # {}
    <3>1. pc' = "failed" /\ UNCHANGED grey /\ pc # "failed" /\ pc # "complete"
      BY <1>2, <2>1, <2>3 DEF Endorse, Proposed
    <3>2. \/ shunned' = shunned
          \/ shunned' = shunned \cup Failed(answer) /\ Greylisted' = Failed(answer)
      BY <2>1, <2>3 DEF Proposed, Sends, Wrap
    <3> QED
      BY <3>1, <3>2
  <2> QED
    BY <2>2, <2>3
<1>3. ASSUME FindMore
      PROVE  AreGreylisted'
  BY <1>3 DEF FindMore
<1>4. ASSUME EndorseMore
      PROVE  AreGreylisted'
  <2>1. PICK answer \in [targets -> Answers] : ProposedMore(answer)
    BY <1>4 DEF EndorseMore
  <2>2. CASE Failed(answer) = {}
    <3>1. UNCHANGED <<shunned, grey>> /\ pc # "failed" /\ pc # "complete"
      BY <1>4, <2>1, <2>2 DEF EndorseMore, ProposedMore, Sends, CodesOf
    <3> QED
      BY <3>1
  <2>3. CASE Failed(answer) # {}
    <3>1. pc' = "failed" /\ UNCHANGED grey /\ pc # "failed" /\ pc # "complete"
      BY <1>4, <2>1, <2>3 DEF EndorseMore, ProposedMore
    <3>2. \/ shunned' = shunned
          \/ shunned' = shunned \cup Failed(answer) /\ Greylisted' = Failed(answer)
      BY <2>1, <2>3 DEF ProposedMore, Sends, Wrap
    <3> QED
      BY <3>1, <3>2
  <2> QED
    BY <2>2, <2>3
<1>5. ASSUME Validate
      PROVE  AreGreylisted'
  BY <1>5 DEF Validate
<1>6. ASSUME Register
      PROVE  AreGreylisted'
  BY <1>6 DEF Register
<1>7. ASSUME NEW o \in Orderers, Ordered(o)
      PROVE  AreGreylisted'
  BY <1>7 DEF Ordered
<1>8. ASSUME NEW o \in Orderers, OrdererRefuses(o)
      PROVE  AreGreylisted'
  BY <1>8 DEF OrdererRefuses, NotOrdered
<1>9. ASSUME WaitForStatus
      PROVE  AreGreylisted'
  BY <1>9 DEF WaitForStatus
<1>10. ASSUME Retry
      PROVE  AreGreylisted'
  BY <1>10 DEF Retry
<1>11. ASSUME FailForGood
      PROVE  AreGreylisted'
  BY <1>11 DEF FailForGood
<1>12. ASSUME Expires
      PROVE  AreGreylisted'
  BY <1>12 DEF Expires
<1>13. ASSUME CallerReturns
      PROVE  AreGreylisted'
  BY <1>13 DEF CallerReturns
<1>14. ASSUME NEW p \in Peers, GreylistExpires(p)
      PROVE  AreGreylisted'
  BY <1>14 DEF GreylistExpires
<1>15. ASSUME NEW t \in Tx, Commit(t)
      PROVE  AreGreylisted'
  BY <1>15 DEF Commit
<1>16. CASE UNCHANGED vars
  BY <1>16 DEF vars
<1> QED
  BY <1>1, <1>2, <1>3, <1>4, <1>5, <1>6, <1>7, <1>8, <1>9, <1>10, <1>11, <1>12,
     <1>13, <1>14, <1>15, <1>16
  DEF Next, Handler
-----------------------------------------------------------------------------
LEMMA Invariance == Spec => []IInv
<1>1. Init => IInv
  BY InitIInv
<1>2. IInv /\ [Next]_vars => IInv'
  BY TypeStep, TxStep, OkStep, SettledStep, EnoughStep, EndorsedStep, GreylistStep DEF IInv
<1> QED
  BY <1>1, <1>2, PTL DEF Spec

\* The state of a request keeps its type.
THEOREM TypeCorrect == Spec => []TypeOK
<1>1. IInv => TypeOK
  BY DEF IInv
<1> QED
  BY <1>1, Invariance, PTL

\* What the caller of Execute is told is in the ledger, and a request commits twice only
\* if an orderer took a transaction without saying so (CommitTxHandler, RetryHandler).
THEOREM CommitIsSound == Spec => []CommitSound
<1>1. IInv => CommitSound
  <2>1. IInv => SuccessIsCommitted
    BY DEF IInv, TypeOK, TxIsOfAttempt, OkIsTold, SuccessIsCommitted
  <2>2. IInv => CommitsTwiceOnlyIfAnswerLost
    BY RequestAssumption
    DEF IInv, TypeOK, TxIsOfAttempt, AreSettled, Settled, Invalid, Tx,
        CommitsTwiceOnlyIfAnswerLost
  <2> QED
    BY <2>1, <2>2 DEF CommitSound
<1> QED
  BY <1>1, Invariance, PTL

\* What is broadcast satisfies the policies of all chaincodes it touches
\* (SelectAndEndorseHandler, getAdditionalEndorsers).
THEOREM EndorsedAsNeeded == Spec => []EndorsedWhereNeeded
<1>1. IInv => EndorsedWhereNeeded
  BY DEF IInv
<1> QED
  BY <1>1, Invariance, PTL

\* No attempt selects a peer again that an earlier one could not reach, before its entry
\* of the greylist expires (Greylist, Accept).
THEOREM UnreachableAreAvoided == Spec => UnreachableIsAvoided
<1>1. IInv /\ [Next]_vars =>
        [pc = "select" /\ pc' = "endorse" /\ req.fixed = {} =>
           targets' \cap shunned = {}]_vars
  <2> SUFFICES ASSUME IInv, [Next]_vars, pc = "select", pc' = "endorse", req.fixed = {}
               PROVE  targets' \cap shunned = {}
    OBVIOUS
  <2>1. Select
    <3>1. ~Handler => UNCHANGED pc
      BY DEF Next, Expires, CallerReturns, GreylistExpires, Commit, vars
    <3> QED
      BY <3>1 DEF Handler, Endorse, FindMore, EndorseMore, Validate, Register, Ordered,
                  OrdererRefuses, NotOrdered, WaitForStatus, Retry, FailForGood
  <2>2. targets = {} /\ shunned \subseteq grey
    BY DEF IInv, AreEnough, AreGreylisted
  <2>3. targets' \subseteq Peers \ grey
    BY <2>1, <2>2 DEF Select, Selection, Accepted, Fail
  <2> QED
    BY <2>2, <2>3
<1> QED
  BY <1>1, Invariance, PTL DEF Spec, UnreachableIsAvoided

=============================================================================
