------------------------------- MODULE Discovery -------------------------------
(***************************************************************************)
(* Asking the discovery service of several peers at once: the requests and *)
(* responses of fabric-gm/discovery/client, the fan-out of                 *)
(* pkg/fab/discovery, and how the services of dynamicdiscovery take the    *)
(* first good answer.                                                      *)
(*                                                                         *)
(* A request is a sequence of queries, and a response has the results in   *)
(* the same order; the client keeps where each query is by its type and by *)
(* what else it takes for its identity. What a target answers is, for each *)
(* query, a result or an error; or the whole call fails.                   *)
(***************************************************************************)
EXTENDS Naturals, Sequences, FiniteSets

CONSTANTS
  Targets,
  Queries,       \* records of type (config, peers, endorsers, local), channel, chain
  Local,         \* the consumer is a LocalService
  MaxQueries, MaxFaults, None

\* A query has no more fields than its key tells apart: that of a channel's configuration
\* has no chain.
DiscoveryAssumption ==
  /\ IsFiniteSet(Targets) /\ Local \in BOOLEAN /\ MaxQueries \in Nat /\ MaxFaults \in Nat
  /\ None \notin Queries
  /\ \A q \in Queries : /\ q.type \in {"config", "peers", "endorsers", "local"}
                        /\ q = [type |-> q.type, channel |-> q.channel, chain |-> q.chain]
  /\ \A p, q \in Queries : p.type = "config" /\ q.type = "config" => p.chain = q.chain

VARIABLES
  call,       \* at, request, where (the index kept for each key), wants (the query whose
              \* answer is looked for), responses (in the channel), errors (number), result
  senders,    \* of each target: none, sending, done
  replies     \* of each target: what it said; faults: counted to their bound

vars == <<call, senders, replies>>

NoReply == <<>>
Init ==
  /\ call = [at |-> "request", request |-> <<>>, where |-> <<>>, wants |-> None,
             responses |-> <<>>, errors |-> 0, result |-> <<"none">>]
  /\ senders = [t \in Targets |-> "none"]
  /\ replies = [of |-> [t \in Targets |-> NoReply], faults |-> 0]

At(s) == call.at = s
Fault == replies.faults < MaxFaults

-----------------------------------------------------------------------------
(* Requests and responses                                                  *)

\* addQueryMapping: queries of the same type and key, the last one counts.
\* slip: for peers, the chain is not a part of the key
KeyOfChannel(q) == <<q.type, q.channel>>
Key(q) ==
  IF q.type \in {"peers", "local"} THEN <<q.type, q.channel, q.chain>> ELSE <<q.type, q.channel>>
Map(where, key, i) == [k \in DOMAIN where \cup {key} |-> IF k = key THEN i ELSE where[k]]

\* computeResponse, and what ForChannel and ForLocal read from it: an error of a query of
\* endorsers is there for its channel, a result for its chain only.
NotFound == <<"error">>
Lookup(t, q) ==
  IF Key(q) \notin DOMAIN call.where THEN NotFound
  ELSE LET i == call.where[Key(q)] IN
       IF replies.of[t][i] = "error" THEN NotFound
       ELSE IF q.type = "endorsers" /\ call.request[i].chain # q.chain THEN NotFound
       ELSE <<"found", t, i>>

Add(q) ==
  /\ At("request") /\ Len(call.request) < MaxQueries
  /\ call' = [call EXCEPT !.request = Append(@, q),
                          !.where = Map(@, Key(q), Len(call.request) + 1)]
  /\ UNCHANGED <<senders, replies>>

-----------------------------------------------------------------------------
(* Send                                                                    *)

\* A goroutine for each target
SendAll(targets) ==
  /\ At("request") /\ call.request # <<>>
  /\ \E i \in DOMAIN call.request :
       call' = IF targets = {} THEN [call EXCEPT !.at = "returned", !.result = <<"error">>]
               ELSE [call EXCEPT !.at = "receive", !.wants = call.request[i]]
  /\ senders' = [t \in Targets |-> IF t \in targets THEN "sending" ELSE "none"]
  /\ UNCHANGED replies

\* The channel has room for every target.
\* slip: only for whom the reader takes it from
PutToReader(t, what) ==
  /\ At("receive") /\ senders' = [senders EXCEPT ![t] = "done"]
  /\ call' = [call EXCEPT !.responses = Append(@, [target |-> t, is |-> what])]
Put(t, what) ==
  /\ senders' = [senders EXCEPT ![t] = "done"]
  /\ call' = [call EXCEPT !.responses = Append(@, [target |-> t, is |-> what])]

Reply(t) ==
  /\ senders[t] = "sending" /\ Put(t, "response")
  /\ \E results \in [DOMAIN call.request -> {"result", "error"}] :
       LET wrong == IF "error" \in {results[i] : i \in DOMAIN results} THEN 1 ELSE 0 IN
       /\ replies.faults + wrong <= MaxFaults
       /\ replies' = [of |-> [replies.of EXCEPT ![t] = results],
                      faults |-> replies.faults + wrong]
\* No connection, no answer in time, a refusal, another number of results, or results
\* that are not of the kind of their queries
CallFails(t) ==
  /\ senders[t] = "sending" /\ Fault /\ Put(t, "failure")
  /\ replies' = [replies EXCEPT !.faults = @ + 1]
\* The others are canceled when the first has answered: no error, and no response.
Canceled(t) ==
  /\ senders[t] = "sending" /\ At("returned") /\ Put(t, "nothing") /\ UNCHANGED replies

-----------------------------------------------------------------------------
(* doQueryPeers                                                            *)

Returns(r) == [call EXCEPT !.at = "returned", !.result = r]
Rest == [call EXCEPT !.responses = Tail(@)]
\* evaluate: only the service of a channel asks whether there is a response at all.
Take ==
  /\ At("receive") /\ call.responses # <<>> /\ UNCHANGED <<senders, replies>>
  /\ LET r == Head(call.responses) IN
     IF r.is # "response"
     THEN call' = IF Local THEN Returns(<<"panic">>) ELSE [Rest EXCEPT !.errors = @ + 1]
     ELSE LET found == Lookup(r.target, call.wants) IN
          call' = IF found = NotFound THEN [Rest EXCEPT !.errors = @ + 1] ELSE Returns(found)
\* slip: one error is enough
TakeOne ==
  /\ At("receive") /\ call.errors > 0 /\ call' = Returns(<<"error">>) /\ UNCHANGED <<senders, replies>>
Exhausted ==
  /\ At("receive") /\ call.responses = <<>> /\ \A t \in Targets : senders[t] # "sending"
  /\ call' = Returns(<<"error">>) /\ UNCHANGED <<senders, replies>>

Sender(t) == Reply(t) \/ CallFails(t) \/ Canceled(t)
Next ==
  \/ \E q \in Queries : Add(q)
  \/ \E targets \in SUBSET Targets : SendAll(targets)
  \/ \E t \in Targets : Reply(t) \/ CallFails(t) \/ Canceled(t)
  \/ Take \/ Exhausted
Spec == Init /\ [][Next]_vars
FairSpec == Spec /\ WF_vars(Take \/ Exhausted) /\ \A t \in Targets : WF_vars(Sender(t))

-----------------------------------------------------------------------------
(* Properties                                                              *)

\* The shape of the state.
TypeOK ==
  /\ call.at \in {"request", "receive", "returned"} /\ call.request \in Seq(Queries)
  /\ call.wants \in Queries \cup {None} /\ call.errors \in Nat
  /\ call.errors + Len(call.responses) <= Cardinality(Targets)   \* the channel's capacity
  /\ senders \in [Targets -> {"none", "sending", "done"}] /\ replies.faults \in 0 .. MaxFaults

Found == call.result[1] = "found"
\* What is found is what a target said to the query it was looked for, however the queries
\* of one request are mixed.
AnswersTheQuery ==
  Found => LET t == call.result[2]
               i == call.result[3] IN
           call.request[i] = call.wants /\ replies.of[t][i] = "result"

\* A query that one of the same kind has replaced in the request ("all interests for a given
\* channel should be supplied in an aggregated slice")
Replaced == call.request[call.where[Key(call.wants)]] # call.wants
\* "no successful response received from any peer": an error says that of every target.
ErrorMeansNobody ==
  call.result[1] = "error" /\ call.wants # None /\ ~Replaced =>
    \A t \in Targets : senders[t] = "done" =>
      replies.of[t] = NoReply \/ \E i \in DOMAIN call.request :
                                   call.request[i] = call.wants /\ replies.of[t][i] = "error"

\* Nobody who was asked waits for a reader who has gone.
SendersEnd == \A t \in Targets : senders[t] = "sending" ~> senders[t] = "done"

\* A target that fails is an error among others to a LocalService, too.
NobodyPanics == call.result[1] # "panic"
=============================================================================
