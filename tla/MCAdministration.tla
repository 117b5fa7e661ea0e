--------------------------- MODULE MCAdministration ---------------------------
(* What administrators and applications ask of a channel, and the          *)
(* configuration it is done by, in one run: resource management, the life  *)
(* cycle of chaincodes, updates of the channel configuration, queries of   *)
(* ledgers, transactions and the browser of blocks, the selection of       *)
(* endorsers, the configuration of endpoints and the MSP. They share       *)
(* nothing here: a behaviour runs the one that part names, with as many of *)
(* the other variables for its own as it has.                              *)
EXTENDS Integers, Sequences, FiniteSets, TLC

CONSTANTS
  None, NoFilter, Attempts, MaxCalls, MaxFaults,
  Peers, Local, Channel, DefaultFilter, Filters, MaxRequests, MaxLosses,  \* ResourceManagement
  Known, Own, Given, OwnFilters, Mins, Maxs, Forgers, MaxHeight,          \* LedgerQueries
  Orgs, OrgPeers, OrgOf, Definitions, History, Reference, EnoughOrgs,
  MaxTransactions,                                                        \* Lifecycle
  LedgerPeers, Users, WithUnit, System, Inputs, MaxOrdered, MaxBlocks, MaxCounts,
  MaxBrowses,                                                             \* Transactions
  EndorserPeers, Organization, Heights, Chaincodes, Policies, Rules, Descriptors, PeerFilters,
  QueriedPeers, LagThreshold, MaxChanges,                                 \* Selection
  Admins, Contents, Groups, Leaves, Root, Application, Parent, Above, Anchors, Profile,
  Needed,                                                                 \* ConfigUpdate
  Files, LookedUp, URLs, Secure, Schemeless, Listen, Default, Override,   \* EndpointConfig
  Path, Identities, MspFiles, Principals                                  \* Msp

VARIABLES part, call, world, chain, heights, browse, counts

Management == INSTANCE ResourceManagement WITH
  MaxCalls <- MaxRequests, MaxFaults <- MaxLosses
Queries == INSTANCE LedgerQueries WITH Channel <- Known, Filters <- OwnFilters
Cycle == INSTANCE Lifecycle WITH
  Peers <- OrgPeers, Requests <- Definitions, Default <- Reference, Enough <- EnoughOrgs,
  txs <- chain
Ledgers == INSTANCE Transactions WITH
  Peers <- LedgerPeers, Requests <- Inputs, MaxTransactions <- MaxOrdered,
  work <- call, asked <- world
OrganizationOf(p) == Organization[p]
HeightOf(p) == Heights[p]
Selections == INSTANCE Selection WITH
  Peers <- EndorserPeers, Targets <- QueriedPeers, Org <- OrganizationOf,
  Height <- HeightOf, Filters <- PeerFilters, MaxFaults <- MaxLosses
Config == INSTANCE ConfigUpdate WITH admins <- call
Endpoints == INSTANCE EndpointConfig WITH Configs <- Files, Keys <- LookedUp
Members == INSTANCE Msp WITH Configs <- MspFiles

ASSUME AdministrationAssumption ==
  /\ Management!ResourceAssumption /\ Queries!LedgerAssumption /\ Cycle!LifecycleAssumption
  /\ Ledgers!TransactionAssumption /\ Selections!SelectionAssumption
  /\ Config!ConfigAssumption /\ Endpoints!EndpointAssumption /\ Members!MspAssumption

unused(x) == x = None
rest == <<chain, heights, browse, counts>>
unusedRest == unused(chain) /\ unused(heights) /\ unused(browse) /\ unused(counts)
MCInit ==
  \/ part = "management" /\ Management!Init /\ unusedRest
  \/ part = "queries" /\ Queries!Init /\ unusedRest
  \/ part = "cycle" /\ Cycle!Init /\ unused(world) /\ unused(browse)
  \/ part = "ledgers" /\ Ledgers!Init
  \/ part = "selections" /\ Selections!Init /\ unusedRest
  \/ part = "config" /\ Config!Init /\ unusedRest
  \/ part = "endpoints" /\ Endpoints!Init /\ unusedRest
  \/ part = "members" /\ Members!Init /\ unusedRest

ManagementSteps == part = "management" /\ Management!Next /\ UNCHANGED <<part, rest>>
QuerySteps == part = "queries" /\ Queries!Next /\ UNCHANGED <<part, rest>>
CycleSteps == part = "cycle" /\ Cycle!Next /\ UNCHANGED <<part, world, browse>>
LedgerSteps == part = "ledgers" /\ Ledgers!Next /\ UNCHANGED part
SelectionSteps == part = "selections" /\ Selections!Next /\ UNCHANGED <<part, rest>>
ConfigSteps == part = "config" /\ Config!Next /\ UNCHANGED <<part, rest>>
EndpointSteps == part = "endpoints" /\ Endpoints!Next /\ UNCHANGED <<part, rest>>
MemberSteps == part = "members" /\ Members!Next /\ UNCHANGED <<part, rest>>

MCNext == ManagementSteps \/ QuerySteps \/ CycleSteps \/ LedgerSteps \/ SelectionSteps
            \/ ConfigSteps \/ EndpointSteps \/ MemberSteps
all == <<part, call, world, rest>>
MCSpec == MCInit /\ [][MCNext]_all

\* Nothing tells two administrators apart; only safety is checked with it.
Symmetry == Permutations(Admins)

\* The state of every part keeps its shape.
TypesOK ==
  /\ (part = "management" => Management!TypeOK) /\ (part = "queries" => Queries!TypeOK)
  /\ (part = "cycle" => Cycle!TypeOK) /\ (part = "ledgers" => Ledgers!TypeOK)
  /\ (part = "selections" => Selections!TypeOK) /\ (part = "config" => Config!TypeOK)
  /\ (part = "endpoints" => Endpoints!TypeOK) /\ (part = "members" => Members!TypeOK)

\* What a caller is told is what the peers and the ledger have: resource management that
\* succeeds has reached everybody it was to reach, and asked nobody else; an answer about a
\* ledger that enough peers agree on is right unless that many of them lie; a definition that
\* peers report is not older than what the call could know of, is what was asked for, and one
\* that is the same is no mismatch; a transaction is ordered as it was endorsed and blocks
\* are browsed as they were committed, each one once; and the endorsers that are selected
\* can satisfy the policies, or the layout that the discovery service proposed.
AnswersSound ==
  /\ part = "management" => Management!SuccessIsDone /\ Management!AskedAsTold
  /\ part = "queries" => Queries!TrueUnlessMinLie
  /\ part = "cycle" => /\ Cycle!NotOlderThanAsked /\ Cycle!ToldAsAskedFor
                       /\ Cycle!SameIsNoMismatch
  /\ part = "ledgers" => /\ Ledgers!OrderedAsEndorsed /\ Ledgers!BrowsedAsAsked
                         /\ Ledgers!NewerOnesOnce
  /\ part = "selections" => Selections!SatisfiesPolicies /\ Selections!FillsLayout

\* What the configuration promises, however its parts complete and override one another: a
\* channel is created as planned; an endpoint that a matcher ignores is found nowhere, the
\* peers of a channel can be resolved, a secure endpoint has certificates; and an identity
\* has one role at most, which makes it a member.
ConfigurationSound ==
  /\ part = "config" => Config!CreatedAsPlanned
  /\ part = "endpoints" => /\ Endpoints!IgnoredIsNowhere /\ Endpoints!ChannelPeersResolve
                           /\ Endpoints!SecureHasCerts
  /\ part = "members" => Members!OneRole /\ Members!RolesAreMembers

\* An update of the channel configuration changes what its administrator edited and nothing
\* that somebody else changed meanwhile, and is based on what the administrator saw.
EditsSound == [][part = "config" => Config!MergesEditsStep /\ Config!SetsWhatItSawStep]_all

-----------------------------------------------------------------------------
(* The constants of the run: three peers to manage and to query, two of    *)
(* the own organization                                                    *)

CONSTANTS p1, p2, p3, o1, o2
Target(p, n) == [peer |-> p, n |-> n]
FiltersMC == {{p1, p3}}
OwnFiltersMC == {{p2, p3}}
GivenMC == {{Target(p3, 1), Target(p3, 2)}, {Target(p1, 1), Target(p2, 1), Target(p3, 1)}}

(* An organization with one of its two peers up, another with one; a       *)
(* definition n1 that was approved and committed before, its successors,   *)
(* and a second name                                                       *)

Definition(n, s, sig, ref) == [name |-> n, seq |-> s, sig |-> sig, ref |-> ref]
First(kind, org) ==
  [kind |-> kind, org |-> org, asked |-> Definition("n1", 1, "s", None),
   def |-> [name |-> "n1", seq |-> 1, policy |-> <<"signature", "s">>]]
OrgOfMC == (p1 :> o1) @@ (p2 :> o1) @@ (p3 :> o2)
DefinitionsMC == {Definition("n1", 2, None, None), Definition("n1", 2, "s", "r"),
                  Definition("n2", 1, None, "r")}
HistoryMC == <<First("approve", o1), First("commit", None)>>

(* Transactions of a chaincode, of a system chaincode, and of no function  *)

Input(cc, fcn, args, transient) ==
  [cc |-> cc, fcn |-> fcn, args |-> args, transient |-> transient]
InputsMC == {Input("cc", "f", <<"x">>, "t"), Input("_lifecycle", "g", <<>>, None),
             Input("cc", None, <<"x">>, None)}

(* Two endorsers of an organization, one of which lags, and one of another *)

By(m) == [type |-> "signedBy", msp |-> m]
NOutOf(n, rules) == [type |-> "nOutOf", n |-> n, rules |-> rules]
Either == NOutOf(1, <<By("A"), By("B")>>)
OrganizationMC == ("a1" :> "A") @@ ("a2" :> "A") @@ ("b1" :> "B")
HeightsMC == ("a1" :> 3) @@ ("a2" :> 1) @@ ("b1" :> 2)
PoliciesMC == {NOutOf(2, <<By("A"), By("B")>>), NOutOf(2, <<By("A")>>),
               NOutOf(2, <<By("A"), By("B"), Either>>)}
RulesMC == PoliciesMC \cup {By("A"), By("B"), Either}
DescriptorsMC ==
  {[groups |-> ("g1" :> {"a1", "a2"} @@ "g2" :> {"b1"}),
    layouts |-> {("g1" :> 1 @@ "g2" :> 1), ("g1" :> 2)}],
   [groups |-> ("g1" :> {"a1", "a2", "b1"}), layouts |-> {("g1" :> 2)}]}
PeerFiltersMC == {{"a1", "a2", "b1"}, {"a2", "b1"}}

(* The configuration of a channel: a root with an application, which has a *)
(* capability and an organization with its anchor peers                    *)

Elements == {"root", "app", "A", "cap", "anc"}
AnchorsMC == "A" :> "anc"
ParentMC == ("app" :> "root") @@ ("cap" :> "app") @@ ("A" :> "app") @@ ("anc" :> "A")
AboveMC == [p \in Elements |->
              (IF p = "root" THEN {} ELSE {"root"})
              \cup (IF p \in {"cap", "A", "anc"} THEN {"app"} ELSE {})
              \cup (IF p = "anc" THEN {"A"} ELSE {})]
ProfileMC == [p \in Elements |-> 1]

(* Configuration files: two peers of an organization and one of another,   *)
(* two orderers and two authorities, some of them ignored or only there by *)
(* a matcher; the channel ch1, by itself or completed by _default          *)

NoPolicy == [i \in {"target", "balancer", "lag", "attempts", "backoff", "codes"} |-> None]
Entry(u, o, t) == [url |-> u, opts |-> o, cert |-> t]
Matcher(keys, ignore, host, url) ==
  [keys |-> keys, ignore |-> ignore, host |-> [k \in keys |-> host],
   url |-> [k \in keys |-> url], override |-> [k \in keys |-> None], literal |-> TRUE]
Insecure == "allow-insecure" :> TRUE
Chan(peers, orderers, policy) == [peers |-> peers, orderers |-> orderers, policy |-> policy]
AllPeers == ("p1" :> <<>>) @@ ("p2" :> ("event" :> FALSE)) @@ ("p3" :> <<>>)
ChannelMatcher(name) == <<[keys |-> {"ch2"}, ignore |-> FALSE, name |-> name]>>
PeerMatchers ==
  {<<>>, <<Matcher({"p2"}, TRUE, None, None)>>,
   <<Matcher({"p3"}, FALSE, "p1", "s://p3"), Matcher({"p2", "p3"}, TRUE, None, None)>>}
BackendFiles ==
  [channels :
     {"ch1" :> Chan(AllPeers, <<"o1", "o2">>, NoPolicy),
      ("ch1" :> Chan(<<>>, <<>>, NoPolicy))
        @@ ("_default" :> Chan(AllPeers, <<"o1">>, [NoPolicy EXCEPT !["lag"] = "set",
                                                                    !["attempts"] = "set"])),
      ("ch1" :> Chan("p1" :> <<>>, <<"o2">>, [NoPolicy EXCEPT !["backoff"] = "own"]))
        @@ ("_default" :> Chan("p2" :> <<>>, <<"o1">>,
                               [NoPolicy EXCEPT !["attempts"] = "set"]))},
   default : {<<>>, "_default" :> Entry(None, Insecure, None),
              "_default" :> Entry(None, Insecure, "cert"), "_default" :> Entry("d", <<>>, None)},
   pool : {<<"cert", FALSE>>, <<None, TRUE>>, <<None, FALSE>>},
   peerMatchers : PeerMatchers,
   channelMatchers : {<<>>, ChannelMatcher("ch1"), ChannelMatcher("gone")}]
Backend(f) ==
  [channels |-> f.channels,
   peers |-> f.default @@ ("p1" :> Entry("s://p1", Insecure, f.pool[1]))
                       @@ ("p2" :> Entry(None, <<>>, None)),
   orderers |-> ("o1" :> Entry("s://o1", Insecure, "cert"))
                @@ ("o2" :> Entry("x", Insecure, None)),
   orgs |-> ("g1" :> [msp |-> "m1", peers |-> {"p1", "p2"}])
            @@ ("g2" :> [msp |-> "m2", peers |-> {"p3"}]),
   peerMatchers |-> f.peerMatchers,
   ordererMatchers |-> IF f.peerMatchers = <<>> THEN <<>>
                       ELSE <<Matcher({"o2"}, TRUE, None, None)>>,
   channelMatchers |-> f.channelMatchers, systemPool |-> f.pool[2],
   cas |-> ("c1" :> Entry("x", Insecure, "cert")) @@ ("c2" :> Entry("x", <<>>, "cert")),
   caMatchers |-> <<[Matcher({"c1", "c2"}, FALSE, "c1", None) EXCEPT
                       !.override = [k \in {"c1", "c2"} |-> k]]>>]
FilesMC == {Backend(f) : f \in BackendFiles}
ListenMC == [n \in {"p1", "p2", "p3", "o1", "o2", "c1", "c2"} |-> "u1"]

(* An MSP with the root r, intermediates i and j, and identities of every  *)
(* kind; s is a root it does not have                                      *)

Id(n, ca, ous, current) ==
  [name |-> n, msp |-> "Org1MSP", issuer |-> ca, ous |-> ous, ca |-> FALSE, current |-> current]
ClientId == Id("2", "i", {"cli"}, TRUE)
AdminId == Id("3", "i", {"adm", "x"}, TRUE)
NodeOU(ou, ca) == [ou |-> ou, ca |-> ca]
NoOU == NodeOU("none", "none")
Nodes(client, peer, admin, orderer) ==
  [client |-> client, peer |-> peer, admin |-> admin, orderer |-> orderer]
Role(r) == [type |-> "role", msp |-> "Org1MSP", role |-> r]
PathMC == [r |-> <<"r">>, s |-> <<"s">>, i |-> <<"i", "r">>, j |-> <<"j", "i", "r">>]
IdentitiesMC ==
  {Id("1", "r", {"cli"}, TRUE), ClientId, AdminId,
   Id("4", "i", {"peer", "cli"}, TRUE), Id("5", "s", {"peer"}, TRUE),
   Id("6", "i", {"ord"}, FALSE), [Id("7", "i", {"adm"}, TRUE) EXCEPT !.ca = TRUE]}
MspFilesMC ==
  [version : {"1.0", "1.1", "1.3", "1.4.3"}, dir : BOOLEAN, roots : {{"r"}},
   intermediates : {{}, {"i"}, {"i", "j"}}, tlsRoots : {{}, {"r"}},
   tlsIntermediates : {{"i"}},
   crl : {{}, {[ca |-> "i", serial |-> "2", genuine |-> TRUE]},
          {[ca |-> "r", serial |-> "i", genuine |-> TRUE]},
          {[ca |-> "i", serial |-> "3", genuine |-> FALSE]}},
   ous : {{}, {NodeOU("cli", "i"), NodeOU("adm", "i")}},
   node : {Nodes(NoOU, NoOU, NoOU, NoOU),
           Nodes(NodeOU("cli", "any"), NodeOU("peer", "i"), NoOU, NoOU),
           Nodes(NodeOU("cli", "missing"), NodeOU("peer", "any"), NodeOU("adm", "i"),
                 NodeOU("ord", "any"))},
   enable : BOOLEAN, admins : {{}, {ClientId}, {AdminId}}]
PrincipalsMC ==
  {Role("member"), Role("admin"), Role("peer"), [type |-> "identity", id |-> ClientId],
   [type |-> "ou", ou |-> "adm", ca |-> "i"], [type |-> "nominal"],
   [type |-> "combined", all |-> {Role("client"), Role("admin")}]}
=============================================================================
