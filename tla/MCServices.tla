------------------------------ MODULE MCServices ------------------------------
(* The services that a channel context runs, in one run: what it keeps of  *)
(* the channel, the peer its event client is connected to, the streams to  *)
(* orderers and the discovery queries. They share nothing here: a          *)
(* behaviour runs the one that part names, with the variables call, world  *)
(* and streams for its own. What the context keeps of the channel is run   *)
(* twice: as "kept" with users and a Close within smaller bounds, and as   *)
(* "refreshed" with its timers only.                                       *)
EXTENDS Integers, Sequences, FiniteSets

CONSTANTS
  Users, Closers, MaxGets, MaxVersion, MaxFaults,             \* ChannelServices
  KeptVersion, KeptFaults,                                    \* its bounds with users
  Peers, Organization, OwnOrg, EventSources, Configs, MaxHeight, MaxLosses,  \* PeerResolver
  Orderers, o1, o2, MaxSent, MaxCalls,                        \* OrdererStreams
  Targets, Queries, MaxQueries, MaxErrors,                    \* Discovery
  None

VARIABLES part, call, world, streams

Kept == INSTANCE ChannelServices WITH Handler <- "return"

OrgOf(p) == Organization[p]
Resolvers == INSTANCE PeerResolver WITH Org <- OrgOf

Streams == INSTANCE OrdererStreams

\* senders and replies of Discovery
Discoveries == INSTANCE Discovery WITH
  Local <- FALSE, MaxFaults <- MaxErrors, senders <- streams, replies <- world

ASSUME ServicesAssumption ==
  /\ Kept!ServicesAssumption /\ Resolvers!ResolverAssumption
  /\ Streams!StreamsAssumption /\ Discoveries!DiscoveryAssumption

MCInit ==
  \/ part \in {"kept", "refreshed"} /\ Kept!Init /\ streams = None
  \/ part = "resolvers" /\ Resolvers!Init /\ streams = None
  \/ part = "streams" /\ Streams!Init
  \/ part = "discoveries" /\ Discoveries!Init

all == <<part, call, world, streams>>
KeptRuns(A) ==
  /\ part = "kept" /\ A /\ UNCHANGED <<part, streams>>
  /\ world'.version <= KeptVersion /\ world'.faults <= KeptFaults
RefreshedRuns(A) ==
  /\ part = "refreshed" /\ A /\ UNCHANGED <<part, streams>>
  /\ \A a \in Users \cup Closers : call'[a] = call[a]
ResolverRuns(A) == part = "resolvers" /\ A /\ UNCHANGED <<part, streams>>
StreamsRun(A) == part = "streams" /\ A /\ UNCHANGED part
DiscoveryRuns(A) == part = "discoveries" /\ A /\ UNCHANGED part

KeptSteps == KeptRuns(Kept!Next)
RefreshedSteps == RefreshedRuns(Kept!Next)
ResolverSteps == ResolverRuns(Resolvers!Next)
StreamSteps == StreamsRun(Streams!Next)
DiscoverySteps == DiscoveryRuns(Discoveries!Next)
MCNext == KeptSteps \/ RefreshedSteps \/ ResolverSteps \/ StreamSteps \/ DiscoverySteps

\* The constants of the run that are no sets of names or numbers: two peers of the own
\* organization and one of another, in every mode, with and without a first block to ask for;
\* and the queries, which name a chaincode or none.
Mode(m, preferred, lag, from) ==
  [mode |-> m, preferred |-> preferred, lag |-> lag, reconnectLag |-> 1, from |-> from]
Query(t, c, i) == [type |-> t, channel |-> c, chain |-> i]
OrganizationMC == [p \in Peers |-> IF p = "b1" THEN "B" ELSE "A"]
ConfigsMC == {Mode("balanced", {}, 0, -1), Mode("minBlockHeight", {}, 1, 0),
              Mode("preferOrg", {}, 1, -1), Mode("preferPeer", {"b1"}, 0, -1)}
QueriesMC == {Query("peers", "c1", "-"), Query("peers", "c1", "cc1"),
              Query("endorsers", "c1", "cc1"), Query("config", "c1", "-"),
              Query("peers", "c2", "-"), Query("local", "-", "-")}

\* The fairness of each of the modules but Discovery, whose runs are safety only. As the
\* parts never mix, one condition serves a step of each part.
CloseOrder == <<"membership", "config", "peers">>
Peer == <<"a1", "a2", "b1">>
Orderer == <<o1, o2, None>>
MCSpec ==
  /\ MCInit /\ [][MCNext]_all
  /\ \A a \in Users : WF_all(KeptRuns(Kept!Works(a)) \/ StreamsRun(Streams!Caller)
                             \/ ResolverRuns(Resolvers!Monitor))
  /\ \A a \in Closers : WF_all(KeptRuns(Kept!Works(a)))
  /\ \A i \in 1 .. 3 :
       LET r == CloseOrder[i]  p == Peer[i] IN
       /\ WF_all(KeptRuns(Kept!Works(r)) \/ ResolverRuns(Resolvers!Grow(p))
                 \/ StreamsRun(\E o \in Orderers : o = Orderer[i] /\ Streams!Goroutine(o)))
       /\ WF_all(KeptRuns(Kept!StartTimer(r)) \/ ResolverRuns(Resolvers!Hear(p))
                 \/ StreamsRun(\E o \in Orderers : o = Orderer[i] /\ Streams!Expire(o)))
       /\ WF_all(KeptRuns(Kept!Tick(r)))
       /\ SF_all(KeptRuns(Kept!StopTimer(r)) \/ ResolverRuns(Resolvers!Connect(p)))
  /\ SF_all(ResolverRuns(Resolvers!Receive))

\* The state of every part keeps its shape.
TypesOK ==
  /\ (part \in {"kept", "refreshed"} => Kept!TypeOK) /\ (part = "resolvers" => Resolvers!TypeOK)
  /\ (part = "streams" => Streams!TypeOK) /\ (part = "discoveries" => Discoveries!TypeOK)

\* No timer outlives a closed context; no error of a stream gets lost on its way to the
\* caller; an answer to a discovery query is one to that query, and an error means that
\* nobody had one.
AnswersSound ==
  /\ part = "kept" => Kept!ClosedIsQuiet
  /\ part = "streams" => Streams!OkIsUndisturbed
  /\ part = "discoveries" => Discoveries!AnswersTheQuery /\ Discoveries!ErrorMeansNobody

\* A membership that is kept is replaced by an older one only since the making of another
\* failed (reference.go, the initializer).
GoesBackOnlyAfterFailure ==
  [][(part \in {"kept", "refreshed"}) /\ Kept!WentBack => world.built = 0]_all

\* Every Get and every CloseContext returns, no goroutine of a stream or of a query is left
\* behind, and a client that lags catches up with the channel; so does what the context
\* keeps of it.
NothingHangs ==
  /\ <>[](part = "kept" => Kept!AllReturned)
  /\ \A o \in Orderers : (part = "streams" /\ streams[o].at = "recv")
                           ~> (part = "streams" /\ Streams!Left(o))
ChannelIsFollowed ==
  /\ <>[](part = "kept" => Kept!FollowsNow)
  /\ (part = "resolvers" /\ Resolvers!MayCatchUp)
       ~> (part = "resolvers" /\ Resolvers!HasCaughtUp)
=============================================================================
