---------------------------- MODULE PeerResolver ----------------------------
(***************************************************************************)
(* To which peer an event client connects, and when it leaves it for a     *)
(* better one: pkg/fab/events/client/peerresolver with the peer monitor of *)
(* pkg/fab/events/client/dispatcher and pkg/fab/events/endpoint.           *)
(*                                                                         *)
(* Peers commit blocks 0, 1, ...; the height of a peer is their number.    *)
(* The discovery service lags behind, and what it said of the connected    *)
(* peer is kept from when the client connected to it. One client receives  *)
(* blocks from one peer, loses it or leaves it, and connects again. Some   *)
(* peers may be stuck at a height. -1 stands for the block number          *)
(* MaxUint64, with which the source says that there is none.               *)
(***************************************************************************)
EXTENDS Integers, FiniteSets, FiniteSetsExt

CONSTANTS
  Peers, Org(_), OwnOrg,
  EventSources,         \* the peers configured as event sources, the others are left out
  Configs,              \* [mode, preferred, lag, reconnectLag, from], see Config
  MaxHeight, MaxLosses

Modes == {"balanced", "minBlockHeight", "preferOrg", "preferPeer"}
NoBlock == -1
Config == [mode : Modes, preferred : SUBSET Peers,
           lag : Int, reconnectLag : Int,
           from : -1 .. MaxHeight]      \* SetFromBlock; -1 without it

ResolverAssumption ==
  /\ Configs \subseteq Config /\ EventSources \subseteq Peers
  /\ {MaxHeight, MaxLosses} \subseteq Nat /\ MaxHeight > 0

VARIABLES
  call,     \* the client: config; peer: connected to, or "none"; told: the height it
            \* had by discovery when the client connected; last: the block received last;
            \* left: the peer the monitor just left; losses
  world     \* height of each peer; seen: what discovery tells of them; stuck peers

vars == <<call, world>>

Init ==
  \E c \in Configs, stuck \in SUBSET Peers, h \in [Peers -> {1, MaxHeight}] :
    /\ stuck # Peers
    /\ call = [config |-> c, peer |-> "none", told |-> 0, last |-> NoBlock, left |-> "none",
               losses |-> 0]
    /\ world = [height |-> h, seen |-> h, stuck |-> stuck]

-----------------------------------------------------------------------------
(* The resolvers                                                           *)

Discovered == EventSources      \* DiscoveryWrapper.GetPeers
MaxSeen == Max({world.seen[p] : p \in Discovered})
AtLeast(h) == {p \in Discovered : world.seen[p] >= h}

\* doFilterByBlockHeight(0, peers)
WithinLag ==
  LET lag == call.config.lag IN
  IF lag < 0 \/ Cardinality(Discovered) = 1 \/ MaxSeen <= lag THEN Discovered
                                                            ELSE AtLeast(MaxSeen - lag)

MinBlockHeight ==
  IF call.config.from = NoBlock THEN 0
  ELSE IF call.config.from + 1 > call.last \/ call.last = NoBlock THEN call.config.from + 1
  ELSE call.last + 1

\* minblockheight Filter
Filter ==
  LET min == MinBlockHeight IN
  IF min = 0 THEN WithinLag
  ELSE IF AtLeast(min) # {} THEN AtLeast(min)
  ELSE IF min > 1 /\ AtLeast(min - 1) # {} THEN AtLeast(min - 1)
  ELSE WithinLag

Preferred == Filter \cap call.config.preferred
OfOwnOrg == {p \in Filter : Org(p) = OwnOrg}

\* Resolve of each: whom the load balancing policy chooses from
ResolveOrg == IF OfOwnOrg # {} THEN OfOwnOrg ELSE Filter
Resolve ==
  CASE call.config.mode = "balanced" -> Discovered
    [] call.config.mode = "minBlockHeight" -> Filter
    [] call.config.mode = "preferOrg" -> ResolveOrg
    [] call.config.mode = "preferPeer" -> IF Preferred # {} THEN Preferred ELSE ResolveOrg

\* slip: while there is something to come from the connected peer
LagsUnderHeight ==
  LET lag == call.config.reconnectLag IN
  lag >= 0 /\ MaxSeen > lag /\ call.last + 1 < call.told /\ call.last + 1 < MaxSeen - lag
\* minblockheight ShouldDisconnect. What is left of the connected peer is what was
\* known of it when the client connected.
Lags ==
  LET lag == call.config.reconnectLag IN
  /\ lag >= 0 /\ MaxSeen > lag              \* a negative one is huge as a uint64
  /\ call.last + 1 >= call.told
  /\ call.last + 1 < MaxSeen - lag

ShouldDisconnectOrg == (Org(call.peer) # OwnOrg /\ OfOwnOrg # {}) \/ Lags
ShouldDisconnect ==
  CASE call.config.mode = "balanced" -> FALSE
    [] call.config.mode = "minBlockHeight" -> Lags
    [] call.config.mode = "preferOrg" -> ShouldDisconnectOrg
    [] call.config.mode = "preferPeer" ->
         (call.peer \notin call.config.preferred /\ Preferred # {}) \/ ShouldDisconnectOrg

-----------------------------------------------------------------------------
(* The client                                                              *)

\* HandleConnectEvent; none is chosen only from nobody
Connect(p) ==
  /\ call.peer = "none" /\ p \in Resolve
  /\ call' = [call EXCEPT !.peer = p, !.told = world.seen[p], !.left = "none"]
  /\ UNCHANGED world

\* The first block is the one the client asks for, or the newest.
Receive ==
  /\ call.peer # "none" /\ call.last + 1 < world.height[call.peer]
  /\ call' = [call EXCEPT !.last = IF @ # NoBlock THEN @ + 1
                                   ELSE IF call.config.from # NoBlock THEN call.config.from
                                   ELSE world.height[call.peer] - 1]
  /\ call.last = NoBlock => call.config.from < world.height[call.peer]
  /\ UNCHANGED world

\* A tick of monitorPeer
Monitor ==
  /\ call.peer # "none" /\ ShouldDisconnect
  /\ call' = [call EXCEPT !.peer = "none", !.left = call.peer] /\ UNCHANGED world

Lose ==
  /\ call.peer # "none" /\ call.losses < MaxLosses
  /\ call' = [call EXCEPT !.peer = "none", !.losses = @ + 1] /\ UNCHANGED world

Grow(p) ==
  /\ p \notin world.stuck /\ world.height[p] < MaxHeight
  /\ world' = [world EXCEPT !.height[p] = @ + 1] /\ UNCHANGED call

\* The discovery service hears of a peer's height.
Hear(p) ==
  /\ world.seen[p] # world.height[p]
  /\ world' = [world EXCEPT !.seen[p] = world.height[p]] /\ UNCHANGED call

Next == \/ \E p \in Peers : Connect(p) \/ Grow(p) \/ Hear(p)
        \/ Receive \/ Monitor \/ Lose

\* The monitor's ticker, the reconnecting client and the stream go on; so do the peers
\* that are not stuck, and gossip.
Fairness ==
  /\ SF_vars(Receive) /\ WF_vars(Monitor)
  /\ \A p \in Peers : SF_vars(Connect(p)) /\ WF_vars(Grow(p)) /\ WF_vars(Hear(p))

Spec == Init /\ [][Next]_vars
FairSpec == Spec /\ Fairness

-----------------------------------------------------------------------------
(* Properties                                                              *)

\* The shape of the state.
TypeOK ==
  /\ call \in [config : Configs, peer : EventSources \cup {"none"}, told : 0 .. MaxHeight,
               last : -1 .. MaxHeight - 1, left : EventSources \cup {"none"},
               losses : 0 .. MaxLosses]
  /\ world.height \in [Peers -> 1 .. MaxHeight] /\ world.seen \in [Peers -> 1 .. MaxHeight]
  /\ world.stuck \in SUBSET Peers

Cautious == call.config.mode # "balanced" /\ call.config.reconnectLag >= call.config.lag
            /\ call.config.lag >= 0
            /\ (call.config.from = NoBlock \/ call.config.mode = "minBlockHeight")

\* A client that is connected to a peer that stopped committing blocks does not stay
\* with it: up to the reconnect threshold, it receives every block that discovery knows
\* some peer to have, whatever it prefers (ShouldDisconnect, Filter, Resolve).
MayCatchUp == Cautious /\ EventSources \ world.stuck # {}
HasCaughtUp == call.last + 1 >= MaxHeight - call.config.reconnectLag
CatchesUp == MayCatchUp ~> HasCaughtUp

\* "ShouldDisconnect determines whether the connected peer should be disconnected and
\* reconnected to the preferred peer" (preferpeer): a preferred peer is not left while
\* it is the one to connect to.
LeftForAnother == call.left # "none" /\ call.config.mode = "preferPeer" /\ Cautious =>
                    Resolve # {call.left}

\* "If the connected peer lags more than the given number of blocks then the client
\* will disconnect from that peer" (minblockheight WithReconnectBlockHeightThreshold):
\* and not from one that has them all.
LeftBecauseItLags ==
  call.config.mode = "minBlockHeight" /\ call.left # "none" =>
    world.height[call.left] < MaxHeight
=============================================================================
