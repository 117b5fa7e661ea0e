----------------------------- MODULE Selection ------------------------------
(***************************************************************************)
(* Who is asked to endorse: pkg/client/common/selection. Two services:     *)
(*                                                                         *)
(*   dynamic  expands the signature policies of the chaincodes, which it   *)
(*            asks peers for and keeps until the resolver expires, into    *)
(*            groups of peers, and picks one group;                        *)
(*   fabric   asks the discovery service of some peer for a descriptor     *)
(*            (layouts: how many of which group), keeps it until it is     *)
(*            refreshed, and fills one layout with discovered peers that   *)
(*            pass the filter, those first who do not lag behind.          *)
(*                                                                         *)
(* Meanwhile peers come and go and chaincodes are upgraded. A policy is    *)
(* [type |-> "signedBy", msp |-> m] or [type |-> "nOutOf", n |-> n,        *)
(* rules |-> <<...>>]. The round robin of groups and peers is any choice.  *)
(***************************************************************************)
EXTENDS Naturals, Sequences, FiniteSets, FiniteSetsExt, Functions

CONSTANTS
  Peers, Org(_), Height(_),   \* of a peer: its organization and its block height
  Chaincodes, Policies,
  Rules,                      \* the policies and all the rules in them
  Descriptors,                \* [groups : [Groups -> SUBSET Peers], layouts : sets of
                              \* functions from some of the groups to their counts]
  Filters,                    \* the peer filters of requests, as sets of peers
  Targets,                    \* peers the discovery query goes to
  LagThreshold,               \* of the block height sorter
  Attempts, MaxCalls, MaxChanges, MaxFaults

AnyMSP == "any"               \* the source's empty MSP ID

\* The rules in a policy, which is a tree of messages: it has an end. The MSP of an
\* identity that is to sign has a name.
Parts(policy) == IF policy.type = "nOutOf" THEN Range(policy.rules) ELSE {}
IsRule(policy) ==
  \/ policy.type = "signedBy" /\ policy.msp # AnyMSP
  \/ policy.type = "nOutOf" /\ policy.n \in Nat /\ policy.rules \in Seq(Rules)
SelectionAssumption ==
  /\ Policies \subseteq Rules /\ \A r \in Rules : IsRule(r)
  /\ \A S \in SUBSET Rules : S # {} => \E r \in S : Parts(r) \cap S = {}
  /\ IsFiniteSet(Peers) /\ \A p \in Peers : Height(p) \in Nat
  /\ \A d \in Descriptors : \A l \in d.layouts : \A x \in DOMAIN l :
       x \in DOMAIN d.groups /\ d.groups[x] \subseteq Peers /\ l[x] \in Nat
  /\ Filters \subseteq SUBSET Peers
  /\ {LagThreshold, Attempts, MaxCalls, MaxChanges, MaxFaults} \subseteq Nat

VARIABLES
  call,    \* op: "none", "dynamic" or "fabric"; at; chaincodes; filter; sorter;
           \* asked: the policies or targets still to ask; policies: what was learnt;
           \* transient: a target's error was; tries; seen: the peers discovered when
           \* it chose; peers: the result; result
  world    \* policy: of each chaincode; descriptor: what the discovery service tells;
           \* discovered peers; resolvers and response: the two caches; counters

vars == <<call, world>>

Keys == (SUBSET Chaincodes) \ {{}}
NoResolver == <<>>
NoDescriptor == [groups |-> <<>>, layouts |-> {}]
Idle == [op |-> "none", at |-> "idle", chaincodes |-> {}, filter |-> Peers,
         sorter |-> "height", asked |-> {}, policies |-> <<>>,
         descriptor |-> NoDescriptor, transient |-> FALSE,
         tries |-> 0, seen |-> {}, peers |-> {}, result |-> "none"]

Init ==
  /\ call = Idle
  /\ \E p \in [Chaincodes -> Policies], d \in Descriptors, ps \in SUBSET Peers :
       world = [policy |-> p, descriptor |-> d, discovered |-> ps,
                resolvers |-> [k \in Keys |-> NoResolver], response |-> NoDescriptor,
                calls |-> 0, changes |-> 0, faults |-> 0]

At(op, s) == call.op = op /\ call.at = s
Returns(r, ps) == [call EXCEPT !.at = "idle", !.result = r, !.peers = ps,
                               !.seen = world.discovered, !.asked = {},
                               !.tries = 0, !.transient = FALSE]
Fault == world.faults < MaxFaults
Faulty == [world EXCEPT !.faults = @ + 1]

-----------------------------------------------------------------------------
(* Policies into groups of peers: the peer group resolver                  *)

\* What is refused when the policy is expanded; the rules of N = 0 are not looked at.
Invalid[policy \in Rules] ==
  /\ policy.type = "nOutOf" /\ policy.n # 0
  /\ \/ policy.n > Len(policy.rules)
     \/ \E r \in Range(policy.rules) : Invalid[r]

\* and: one of each, collapsed to the organizations that occur
Joint(choices) ==
  {UNION Range(f) : f \in {g \in [DOMAIN choices -> UNION Range(choices)] :
                             \A i \in DOMAIN choices : g[i] \in choices[i]}}

\* Nof and Reduce: one of each of n of the rules
\* slip: one of the rules is enough
AnyOf(n, choices) == UNION {choices[i] : i \in DOMAIN choices}
Nof(n, choices) ==
  UNION {Joint([i \in I |-> choices[i]]) : I \in kSubset(n, DOMAIN choices)}

\* compile: the sets of organizations that do
OrgGroups[policy \in Rules] ==
  IF policy.type = "signedBy" THEN {{policy.msp}}
  ELSE IF policy.n = 0 THEN {{AnyMSP}}
  ELSE Nof(policy.n, [i \in DOMAIN policy.rules |-> OrgGroups[policy.rules[i]]])

\* mustGetPeerGroups: a peer for each organization
PeerGroups(orgs, peers) ==
  {Range(f) : f \in {g \in [orgs -> peers] : \A o \in orgs : o \in {AnyMSP, Org(g[o])}}}

\* Resolve, over the policies of all chaincodes together
Resolutions(policies, peers) ==
  UNION {PeerGroups(orgs, peers) :
           orgs \in Joint([c \in DOMAIN policies |-> OrgGroups[policies[c]]])}

(* Descriptors into endorsers: the selection filter                        *)

CutOff(peers) == LET max == Max({Height(p) : p \in peers}) IN
                 IF max <= LagThreshold THEN 0 ELSE max - LagThreshold
Rank(p, peers) == IF Height(p) >= CutOff(peers) THEN CutOff(peers) ELSE Height(p)

\* The first count after sorting by block height; what the balancer does to the
\* preferred ones, and how equals are sorted, is any order.
\* slip: the peers are not sorted
FirstUnsorted(peers, count, sorter) == kSubset(count, peers)
First(peers, count, sorter) ==
  {s \in kSubset(count, peers) :
     sorter = "height" => \A p \in s, q \in peers \ s : Rank(p, peers) >= Rank(q, peers)}

\* The endorsers of a layout, by group
Candidates(group, filter) ==
  call.descriptor.groups[group] \cap world.discovered \cap filter
Fills(layout, filter, sorter) ==
  {UNION Range(f) : f \in
     {g \in [DOMAIN layout -> SUBSET Peers] :
        \A x \in DOMAIN layout : g[x] \in First(Candidates(x, filter), layout[x], sorter)}}
Endorsers == UNION {Fills(l, call.filter, call.sorter) : l \in call.descriptor.layouts}

\* The round robin balancer panics when it gets nobody to balance. A layout is given up
\* with the first group that has too few, in the order of a map, so that another group
\* may keep it from being asked.
Nobody(x) == call.sorter = "balanced" /\ Candidates(x, call.filter) = {}
Panics == \E l \in call.descriptor.layouts : \E x \in DOMAIN l : Nobody(x)
Unfillable ==
  \A l \in call.descriptor.layouts : \E x \in DOMAIN l :
    ~Nobody(x) /\ Cardinality(Candidates(x, call.filter)) < l[x]

-----------------------------------------------------------------------------
(* The dynamic service                                                     *)

BeginDynamic(ccs, filter) ==
  /\ call.at = "idle" /\ world.calls < MaxCalls
  /\ world' = [world EXCEPT !.calls = @ + 1]
  /\ call' = [Idle EXCEPT !.op = "dynamic", !.chaincodes = ccs, !.filter = filter,
                          !.asked = ccs, !.policies = world.resolvers[ccs],
                          !.at = IF world.resolvers[ccs] = NoResolver
                                 THEN "policies" ELSE "resolve"]

Learnt(policies, c, p) ==
  [k \in DOMAIN policies \cup {c} |-> IF k = c THEN p ELSE policies[k]]
\* GetChaincodePolicy: the discovered peers are asked one after the other. Its own
\* cache is written under another key than it is read, so that it is never hit.
AskPolicy(c) ==
  /\ At("dynamic", "policies") /\ c \in call.asked
  /\ \/ /\ world.discovered # {} /\ UNCHANGED world
        /\ LET more == call.asked \ {c} IN
           call' = [call EXCEPT !.asked = more, !.policies = Learnt(@, c, world.policy[c]),
                                !.at = IF more = {} THEN "store" ELSE @]
     \/ world.discovered = {} /\ UNCHANGED world /\ call' = Returns("error", {})
     \/ Fault /\ world' = Faulty /\ call' = Returns("error", {})

\* createPGResolver, in the lazy cache
StoreResolver ==
  /\ At("dynamic", "store")
  /\ world' = [world EXCEPT !.resolvers[call.chaincodes] = call.policies]
  /\ call' = [call EXCEPT !.at = "resolve"]

\* GetEndorsersForChaincode: no group that does is no error, but no endorsers.
Resolve ==
  /\ At("dynamic", "resolve") /\ UNCHANGED world
  /\ LET groups == Resolutions(call.policies, world.discovered \cap call.filter) IN
     \/ /\ \E c \in call.chaincodes : Invalid[call.policies[c]]
        /\ call' = Returns("error", {})
     \/ /\ \A c \in call.chaincodes : ~Invalid[call.policies[c]]
        /\ \/ groups = {} /\ call' = Returns("ok", {})
           \/ \E g \in groups : call' = Returns("ok", g)

ResolverExpires(ccs) ==
  /\ world.resolvers[ccs] # NoResolver
  /\ world' = [world EXCEPT !.resolvers[ccs] = NoResolver]
  /\ UNCHANGED call

-----------------------------------------------------------------------------
(* The fabric service                                                      *)

BeginFabric(filter, sorter) ==
  /\ call.at = "idle" /\ world.calls < MaxCalls
  /\ world' = [world EXCEPT !.calls = @ + 1]
  /\ call' = [Idle EXCEPT !.op = "fabric", !.filter = filter, !.sorter = sorter,
                          !.asked = Targets, !.descriptor = world.response,
                          !.at = IF world.response = NoDescriptor
                                 THEN "query" ELSE "select"]

\* One of the concurrent answers to a query, in the order they come
Response(t) ==
  /\ At("fabric", "query") /\ t \in call.asked
  /\ \/ /\ world' = [world EXCEPT !.response = world.descriptor]
        /\ call' = [call EXCEPT !.at = "select", !.tries = 0,
                                !.descriptor = world.descriptor]
     \/ /\ Fault /\ world' = Faulty
        /\ \E transient \in BOOLEAN :
             call' = [call EXCEPT !.asked = @ \ {t}, !.transient = @ \/ transient]

\* No answer was one: again if the discovery service may know more soon
QueryFails ==
  /\ At("fabric", "query") /\ call.asked = {} /\ UNCHANGED world
  /\ call' = IF call.transient /\ call.tries < Attempts
             THEN [call EXCEPT !.asked = Targets, !.tries = @ + 1, !.transient = FALSE]
             ELSE Returns("error", {})

\* getEndorsers, again while no layout can be filled
Select ==
  /\ At("fabric", "select") /\ UNCHANGED world
  /\ \/ \E ps \in Endorsers : call' = Returns("ok", ps)
     \/ /\ Unfillable
        /\ call' = IF call.tries < Attempts THEN [call EXCEPT !.tries = @ + 1]
                                            ELSE Returns("error", {})
     \/ Panics /\ call' = Returns("panic", {})

ResponseRefreshed ==
  /\ world.response \notin {NoDescriptor, world.descriptor}
  /\ world' = [world EXCEPT !.response = world.descriptor] /\ UNCHANGED call

-----------------------------------------------------------------------------
\* Peers come and go, and a chaincode is upgraded to another policy.
Change(w) == world.changes < MaxChanges /\ world' = [w EXCEPT !.changes = @ + 1]
             /\ UNCHANGED call
PeersChange == \E ps \in SUBSET Peers : Change([world EXCEPT !.discovered = ps])
Upgrade(c, p) == Change([world EXCEPT !.policy[c] = p])
Redeploy(d) == Change([world EXCEPT !.descriptor = d])

Next ==
  \/ \E ccs \in Keys, f \in Filters : BeginDynamic(ccs, f)
  \/ \E f \in Filters, s \in {"height", "balanced"} : BeginFabric(f, s)
  \/ \E c \in Chaincodes : AskPolicy(c) \/ \E p \in Policies : Upgrade(c, p)
  \/ StoreResolver \/ Resolve \/ QueryFails \/ Select \/ ResponseRefreshed \/ PeersChange
  \/ \E k \in Keys : ResolverExpires(k)
  \/ \E t \in Targets : Response(t)
  \/ \E d \in Descriptors : Redeploy(d)

Spec == Init /\ [][Next]_vars

-----------------------------------------------------------------------------
(* Properties                                                              *)

\* The shape of the state.
TypeOK ==
  /\ call.at \in {"idle", "policies", "store", "resolve", "query", "select"}
  /\ call.result \in {"none", "ok", "error", "panic"}
  /\ {call.peers, call.seen, call.filter} \subseteq SUBSET Peers /\ call.tries \in 0 .. Attempts
  /\ world.discovered \subseteq Peers /\ world.policy \in [Chaincodes -> Policies]
  /\ \A k \in Keys : world.resolvers[k] # NoResolver =>
       world.resolvers[k] \in [k -> Policies]

\* What a signature policy asks for, of endorsements by some peers. That N = 0 asks
\* for none and the resolver for one does no harm.
Satisfied[policy \in Rules] ==
  [peers \in SUBSET Peers |->
     IF policy.type = "signedBy" THEN \E p \in peers : Org(p) = policy.msp
     ELSE Cardinality({i \in DOMAIN policy.rules : Satisfied[policy.rules[i]][peers]})
            >= policy.n]

\* The endorsers that the dynamic service names satisfy the policies of all the
\* chaincodes it learnt, and it names none only if all peers it may ask together do
\* not (compile, Nof, Reduce and mustGetPeerGroups against the policy's meaning).
SatisfiesPolicies ==
  call.op = "dynamic" /\ call.result = "ok" =>
    LET usable == call.seen \cap call.filter
        does(ps) == \A c \in call.chaincodes : Satisfied[call.policies[c]][ps]
    IN call.peers \subseteq usable /\ IF call.peers = {} THEN usable = {} \/ ~does(usable)
                                                         ELSE does(call.peers)

\* The endorsers that the fabric service names fill one of the descriptor's layouts,
\* pass the filter and were discovered when it chose; nobody who lags behind is among
\* them in the place of a group's member who does not (Endorsers, blockheightsorter).
FillsLayout ==
  call.op = "fabric" /\ call.result = "ok" =>
    LET usable == call.seen \cap call.filter IN
    /\ call.peers \subseteq usable
    /\ \E l \in call.descriptor.layouts : \A x \in DOMAIN l :
         LET group == call.descriptor.groups[x] \cap usable
             chosen == call.peers \cap group
         IN /\ Cardinality(chosen) >= l[x]
            /\ call.sorter = "height" /\ Cardinality(chosen) = l[x] =>
                 \A p \in chosen, q \in group \ chosen :
                   Height(p) < CutOff(group) => Height(q) <= Height(p)

\* "Execute getEndorsers with retries since the discovered peers may be out of sync
\* with the peers returned from the endorser query and it may take a while for them to
\* sync" (GetEndorsersForChaincode): that they are is no reason to panic.
OutOfSyncIsRetried == call.result # "panic"

=============================================================================
