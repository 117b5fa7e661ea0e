----------------------------- MODULE EndpointConfig -----------------------------
(***************************************************************************)
(* The configuration of endpoints and of certificate authorities:          *)
(* pkg/fab/endpointconfig.go and pkg/msp/identityconfig.go.                *)
(*                                                                         *)
(* A configuration is loaded once, and then looked up. What a backend      *)
(* delivers is a record of functions; names are lower-case already, and a  *)
(* matcher is the set of the keys its pattern matches with what its        *)
(* expressions yield for each of them. Files that cannot be read or parsed *)
(* are one way for the load to fail. The order of a Go map is a choice.    *)
(***************************************************************************)
EXTENDS Naturals, FiniteSets, Sequences

CONSTANTS
  Configs,        \* the configurations a backend may deliver
  Keys,           \* what is looked up: names, URLs, names of channels
  URLs,           \* the keys that are URLs (they hold a colon)
  Secure,         \* the URLs with a scheme that asks for TLS,
  Schemeless,     \* the URLs without a scheme
  Listen,         \* the URL of a name: with the default port of its kind
  Default,        \* the name "_default"
  None, Override  \* nothing; the option ssl-target-name-override

VARIABLES
  call,           \* the last lookup: op, key and result
  world           \* at: new, up, failed or panicked; config; net: what was loaded

vars == <<call, world>>

\* Matchers are tried in the order of their list, and so are orderers.
EndpointAssumption ==
  \A c \in Configs :
    /\ \A matchers \in {c.peerMatchers, c.ordererMatchers, c.caMatchers, c.channelMatchers} :
         matchers \in Seq({matchers[i] : i \in DOMAIN matchers})
    /\ \A n \in DOMAIN c.channels : LET os == c.channels[n].orderers
                                   IN os \in Seq({os[i] : i \in DOMAIN os})

NotFound == [url |-> None, opts |-> <<>>, cert |-> None]
Nothing == <<>>
Init == /\ call = [op |-> "none", key |-> None, result |-> NotFound]
        /\ \E c \in Configs : world = [at |-> "new", config |-> c, net |-> Nothing]

Put(f, k, v) == [i \in DOMAIN f \cup {k} |-> IF i = k THEN v ELSE f[i]]
Over(f, g) == [i \in DOMAIN f \cup DOMAIN g |-> IF i \in DOMAIN f THEN f[i] ELSE g[i]]
IsTLSEnabled(url) == url \in Secure
AttemptSecured(e) ==
  e.url \in Secure \/ (e.url \in Schemeless /\ ~e.opts["allow-insecure"])

-----------------------------------------------------------------------------
(* Matchers: the first one whose pattern matches decides                   *)

Deciding(matchers, key) ==
  LET hits == {i \in DOMAIN matchers : key \in matchers[i].keys}
  IN {matchers[i] : i \in {i \in hits : \A j \in hits : i <= j}}
ToBeIgnored(matchers, key) == \E m \in Deciding(matchers, key) : m.ignore
\* The names of a list that are not to be ignored, one after the other
NotIgnored(names, matchers) ==
  LET kept[i \in 0 .. Len(names)] ==
        IF i = 0 THEN <<>>
        ELSE IF ToBeIgnored(matchers, names[i]) THEN kept[i - 1]
        ELSE Append(kept[i - 1], names[i])
  IN kept[Len(names)]

\* matchPeer, matchOrderer: a copy of the mapped host's configuration
Mapped(m, key, known, default) ==
  LET from == IF m.host[key] \in DOMAIN known THEN known[m.host[key]] ELSE default
      url == IF m.url[key] # None THEN m.url[key]
             ELSE IF from.url = None /\ key \in URLs THEN key ELSE from.url
  IN [url |-> url, cert |-> from.cert,
      opts |-> IF m.override[key] = None THEN from.opts
               ELSE Put(from.opts, Override, m.override[key])]

\* tryMatchingPeerConfig, tryMatchingOrdererConfig: the answers it may give
Search(key, matchers, known, listed, default, byURL) ==
  LET same == {e \in listed : e.url = key} IN
  IF Deciding(matchers, key) # {}
  THEN {IF m.ignore THEN NotFound ELSE Mapped(m, key, known, default) :
          m \in Deciding(matchers, key)}
  ELSE IF key \in DOMAIN known THEN {known[key]}
  ELSE IF byURL /\ same # {} THEN same
  ELSE IF byURL /\ key \in URLs THEN {[default EXCEPT !.url = key]}
  ELSE {NotFound}
Values(f) == {f[i] : i \in DOMAIN f}
\* What a lookup by name alone finds is one configuration or none.
Only(S) == CHOOSE e \in S : TRUE

-----------------------------------------------------------------------------
(* Defaults                                                                *)

StandardOptions == [o \in {"keep-alive", "allow-insecure"} |-> FALSE]

\* loadDefaultPeer, loadDefaultOrderer: the URL of the entry is not taken over
DefaultEndpoint(entries) ==
  IF Default \notin DOMAIN entries
  THEN [url |-> None, opts |-> StandardOptions, cert |-> None]
  ELSE [url |-> None, opts |-> Over(entries[Default].opts, StandardOptions),
        cert |-> entries[Default].cert]
\* An entry "_default" without options is a nil map, and options are put into it.
Panics(entries) == Default \in DOMAIN entries /\ entries[Default].opts = <<>>

\* loadAllPeerConfigs with addMissingPeerConfigItems; and those of orderers
Endpoints(entries, matchers, default) ==
  [n \in {n \in DOMAIN entries : n # Default /\ ~ToBeIgnored(matchers, n)} |->
     LET e == entries[n] IN
     [url |-> IF e.url # None THEN e.url
              ELSE IF default.url # None THEN default.url ELSE Listen[n],
      cert |-> IF e.cert = None THEN default.cert ELSE e.cert,
      opts |-> Over(e.opts, default.opts)]]

\* The items of the policies: target stands for all that are handled alike (targets,
\* responses, sorting, resolver and thresholds of the event service).
Items == {"target", "balancer", "lag", "attempts", "backoff", "codes"}
RetryItems == {"attempts", "backoff", "codes"}
Standard == [i \in Items |-> IF i = "balancer" THEN "random" ELSE "sdk"]

\* loadDefaultChannelPolicies
DefaultPolicies(channels) ==
  IF Default \notin DOMAIN channels THEN Standard
  ELSE [i \in Items |->
          IF channels[Default].policy[i] # None THEN channels[Default].policy[i]
          ELSE CASE i = "balancer" -> "roundrobin"
                 [] i \in {"attempts", "backoff"} -> None
                 [] OTHER -> "sdk"]

\* addMissingChannelPoliciesItems: Attempts is filled in only when all of the retry
\* options are missing, the lag threshold of the selection with the SDK's constant.
AddMissing(policy, defaults) ==
  LET noRetry == \A i \in RetryItems : policy[i] = None IN
  [i \in Items |-> IF policy[i] # None THEN policy[i]
                   ELSE CASE i = "lag" -> Standard[i]
                          [] i = "attempts" /\ ~noRetry -> None
                          [] OTHER -> defaults[i]]

-----------------------------------------------------------------------------
(* Load                                                                    *)

Roles == {"endorse", "event"}
RolesOf(told) == [r \in Roles |-> r \in DOMAIN told => told[r]]

\* loadChannelEndpointConfig
\* slip: what is to be ignored is still a peer of the channel
ChannelWithIgnored(c, own, default) ==
  LET peers == IF DOMAIN own.peers = {} THEN default.peers ELSE own.peers
      orderers == IF own.orderers = <<>> THEN default.orderers ELSE own.orderers IN
  [peers |-> [p \in DOMAIN peers |-> RolesOf(peers[p])], orderers |-> orderers,
   policies |-> AddMissing(own.policy, DefaultPolicies(c.channels))]
ChannelEndpoints(c, own, default) ==
  LET peers == IF DOMAIN own.peers = {} THEN default.peers ELSE own.peers
      orderers == IF own.orderers = <<>> THEN default.orderers ELSE own.orderers
      kept == {p \in DOMAIN peers : ~ToBeIgnored(c.peerMatchers, p)} IN
  [peers |-> [p \in kept |-> RolesOf(peers[p])],
   orderers |-> NotIgnored(orderers, c.ordererMatchers),
   policies |-> AddMissing(own.policy, DefaultPolicies(c.channels))]

Empty == [peers |-> <<>>, orderers |-> <<>>, policy |-> [i \in Items |-> None]]
\* The part of loadNetworkConfig about channels: the default channel is one of them.
Channels(c) ==
  LET default == IF Default \in DOMAIN c.channels THEN c.channels[Default] ELSE Empty
  IN [n \in DOMAIN c.channels \cup {Default} |->
        IF n \in DOMAIN c.channels THEN ChannelEndpoints(c, c.channels[n], default)
        ELSE [peers |-> <<>>, orderers |-> <<>>, policies |-> Standard]]

\* verifyPeerConfig; a peer that is not found has no URL.
\* slip: a URL is enough
VerifyLoosely(c, e) == e.url # None
Verified(c, e) ==
  e.url # None /\ (IsTLSEnabled(e.url) /\ e.cert = None => c.systemPool)

\* peerMSPID: the last organization of the map that has the peer decides; only a
\* literal mapped host can be the name of a peer.
MSPs(c, peer) ==
  {c.orgs[o].msp : o \in {o \in DOMAIN c.orgs : \E q \in c.orgs[o].peers :
     q = peer \/ \E m \in Deciding(c.peerMatchers, q) : m.literal /\ m.host[q] = peer}}

Network(c) ==
  LET peer == DefaultEndpoint(c.peers)
      orderer == DefaultEndpoint(c.orderers) IN
  [defaultPeer |-> peer, defaultOrderer |-> orderer, channels |-> Channels(c),
   peers |-> Endpoints(c.peers, c.peerMatchers, peer),
   orderers |-> Endpoints(c.orderers, c.ordererMatchers, orderer)]

Peer(c, net, n) ==
  Only(Search(n, c.peerMatchers, net.peers, {}, net.defaultPeer, FALSE))
Orderer(c, net, n) ==
  Only(Search(n, c.ordererMatchers, net.orderers, {}, net.defaultOrderer, FALSE))

\* loadPeerConfigsByOrg leaves out what is not found or not verified.
PeersByOrg(c, net) ==
  [o \in DOMAIN c.orgs |-> {e \in {Peer(c, net, p) : p \in c.orgs[o].peers} :
                               e # NotFound /\ Verified(c, e)}]
OrdererConfigs(c, net) ==
  {Orderer(c, net, n) : n \in DOMAIN net.orderers} \ {NotFound}

\* loadChannelPeers leaves out what is not found, and fails for what is not verified.
Found(c, net, ch) == {p \in DOMAIN net.channels[ch].peers : Peer(c, net, p) # NotFound}
ChannelPeersOf(c, net, ch, msp) ==
  [p \in Found(c, net, ch) |-> [endpoint |-> Peer(c, net, p), msp |-> msp[p],
                                roles |-> net.channels[ch].peers[p]]]
ChannelOrderersOf(c, net, ch) ==
  LET kept == NotIgnored(net.channels[ch].orderers, c.ordererMatchers)
  IN [i \in DOMAIN kept |-> Orderer(c, net, kept[i])]

\* What makes loadOrdererConfigs, loadChannelPeers and loadChannelOrderers fail
Fails(c, net) ==
  \/ \E e \in OrdererConfigs(c, net) :
       e.cert = None /\ ~c.systemPool /\ AttemptSecured(e)
  \/ \E ch \in DOMAIN net.channels : \E p \in Found(c, net, ch) :
       ~Verified(c, Peer(c, net, p)) \/ MSPs(c, p) = {}
  \/ \E ch \in DOMAIN net.channels :
       \E i \in DOMAIN ChannelOrderersOf(c, net, ch) :
         ChannelOrderersOf(c, net, ch)[i] = NotFound

\* loadDefaultChannel: the default channel leaves the channels, last of all
\* slip: before the peers and orderers of channels are loaded
DefaultChannelFirst(net) == DOMAIN net.channels \ {Default}
ChannelsToLoad(net) == DOMAIN net.channels

-----------------------------------------------------------------------------
(* Certificate authorities                                                 *)

\* tryMatchingCAConfig, findMatchingCAConfig: the certificate authority whose entry is
\* taken, or None
CAHost(c, id) ==
  IF Deciding(c.caMatchers, id) = {} THEN id
  ELSE LET m == Only(Deciding(c.caMatchers, id))
       IN IF m.ignore \/ m.host[id] \notin DOMAIN c.cas THEN None ELSE m.host[id]
CAOverride(c, id) ==
  IF Deciding(c.caMatchers, id) = {} THEN None
  ELSE Only(Deciding(c.caMatchers, id)).override[id]

\* Which override ends up in the options of a host: they are one map for all that are
\* mapped to the host, and the last one in the order of the map wins.
Overrides(c, host) ==
  LET all == {CAOverride(c, id) : id \in {id \in DOMAIN c.cas : CAHost(c, id) = host}}
                \ {None}
  IN IF all = {} THEN {None} ELSE all

\* loadAllCAConfigs with getMSPCAConfig; last: the override that each host ends with.
\* Options that are nil in the entry are a map of the one who asks.
CAConfigs(c, last) ==
  [id \in {id \in DOMAIN c.cas : CAHost(c, id) # None} |->
     LET h == CAHost(c, id)
         e == c.cas[h]
         own == IF e.opts = <<>> THEN CAOverride(c, id) ELSE last[h]
         url == IF Deciding(c.caMatchers, id) = {} THEN None
                ELSE Only(Deciding(c.caMatchers, id)).url[id]
     IN [url |-> IF url # None THEN url ELSE IF e.url # None THEN e.url ELSE Listen[h],
         cert |-> e.cert,
         opts |-> IF own = None THEN e.opts ELSE Put(e.opts, Override, own)]]

CAFails(c) == ~c.systemPool /\ \E id \in DOMAIN c.cas :
                 CAHost(c, id) # None /\ c.cas[CAHost(c, id)].cert = None

-----------------------------------------------------------------------------
(* Actions                                                                 *)

Ends(at) == world' = [world EXCEPT !.at = at] /\ UNCHANGED call

\* A file, a certificate or a pattern that cannot be read
LoadFails == world.at = "new" /\ Ends("failed")

\* loadEndpointConfigEntities and loadIdentityConfigEntities
Load ==
  LET c == world.config
      net == Network(c)
      peers == UNION {Found(c, net, ch) : ch \in DOMAIN net.channels}
  IN /\ world.at = "new"
     /\ \/ (Panics(c.peers) \/ Panics(c.orderers)) /\ Ends("panicked")
        \/ /\ ~Panics(c.peers) /\ ~Panics(c.orderers)
           /\ Fails(c, net) \/ CAFails(c)
           /\ Ends("failed")
        \/ /\ ~Panics(c.peers) /\ ~Panics(c.orderers) /\ ~Fails(c, net) /\ ~CAFails(c)
           /\ \E msp \in [peers -> UNION {MSPs(c, p) : p \in peers}],
                 last \in [DOMAIN c.cas ->
                             UNION {Overrides(c, h) : h \in DOMAIN c.cas}] :
                /\ \A p \in peers : msp[p] \in MSPs(c, p)
                /\ \A h \in DOMAIN c.cas : last[h] \in Overrides(c, h)
                /\ world' = [world EXCEPT !.at = "up", !.net =
                     [peers |-> net.peers, orderers |-> net.orderers,
                      defaultPeer |-> net.defaultPeer,
                      defaultOrderer |-> net.defaultOrderer,
                      channels |-> [ch \in DOMAIN net.channels \ {Default} |->
                                      net.channels[ch]],
                      defaultChannel |-> net.channels[Default],
                      peersByOrg |-> PeersByOrg(c, net),
                      ordererConfigs |-> OrdererConfigs(c, net),
                      channelPeers |-> [ch \in ChannelsToLoad(net) |->
                                          ChannelPeersOf(c, net, ch, msp)],
                      channelOrderers |-> [ch \in ChannelsToLoad(net) |->
                                             ChannelOrderersOf(c, net, ch)],
                      cas |-> CAConfigs(c, last)]]
           /\ UNCHANGED call

\* A lookup changes nothing that was loaded: one after the load stands for any number.
Net == world.net
Answer(op, key, result) ==
  /\ world.at = "up" /\ call.op = "none"
  /\ call' = [op |-> op, key |-> key, result |-> result] /\ UNCHANGED world

PeerConfig(key) ==
  \E e \in Search(key, world.config.peerMatchers, Net.peers, Values(Net.peers),
                  Net.defaultPeer, TRUE) : Answer("peer", key, e)
OrdererConfig(key) ==
  \E e \in Search(key, world.config.ordererMatchers, Net.orderers,
                  Net.ordererConfigs, Net.defaultOrderer, TRUE) :
    Answer("orderer", key, e)
CAConfig(key) ==
  Answer("ca", key, IF key \in DOMAIN Net.cas THEN Net.cas[key] ELSE NotFound)

\* mappedChannelName
MappedChannelName(key) ==
  IF key \in DOMAIN Net.channels \/ Deciding(world.config.channelMatchers, key) = {}
  THEN IF key \in DOMAIN Net.channels THEN key ELSE Default
  ELSE Only(Deciding(world.config.channelMatchers, key)).name
\* A mapped name that is not configured means the default channel to ChannelConfig, and
\* no channel to ChannelPeers and ChannelOrderers.
ConfigOf(key) ==
  LET n == MappedChannelName(key)
  IN IF n \in DOMAIN Net.channels THEN Net.channels[n] ELSE Net.defaultChannel
PeersOf(key) ==
  LET n == MappedChannelName(key)
  IN IF n \in DOMAIN Net.channelPeers THEN Net.channelPeers[n] ELSE <<>>
OrderersOf(key) ==
  LET n == MappedChannelName(key)
  IN IF n \in DOMAIN Net.channelOrderers THEN Net.channelOrderers[n] ELSE <<>>
ChannelConfig(key) ==
  Answer("channel", key, [config |-> ConfigOf(key), peers |-> PeersOf(key),
                          orderers |-> OrderersOf(key)])

Next ==
  \/ Load \/ LoadFails
  \/ world.at = "up" /\ \E k \in Keys : PeerConfig(k)
  \/ world.at = "up" /\ \E k \in Keys : OrdererConfig(k)
  \/ world.at = "up" /\ \E k \in Keys : ChannelConfig(k)
  \/ world.at = "up" /\ \E k \in Keys : CAConfig(k)
Spec == Init /\ [][Next]_vars

-----------------------------------------------------------------------------
(* Properties                                                              *)

TypeOK ==
  /\ world.at \in {"new", "up", "failed", "panicked"} /\ world.config \in Configs
  /\ world.net = Nothing <=> world.at # "up"
  /\ call.op \in {"none", "peer", "orderer", "channel", "ca"}
  /\ call.op # "none" => world.at = "up" /\ call.key \in Keys

\* A peer or an orderer that the entity matchers tell to ignore is nowhere: its name
\* finds nothing, no channel has it, whoever mentions it: the channel itself, the
\* default channel whose peers the channel takes over, or an organization.
IgnoredIsNowhere ==
  LET peers == {k \in Keys : ToBeIgnored(world.config.peerMatchers, k)}
      orderers == {k \in Keys : ToBeIgnored(world.config.ordererMatchers, k)} IN
  /\ (call.op = "peer" /\ call.key \in peers) => call.result = NotFound
  /\ call.op = "orderer" /\ call.key \in orderers => call.result = NotFound
  /\ call.op = "channel" =>
       /\ DOMAIN call.result.config.peers \cap peers = {}
       /\ DOMAIN call.result.peers \cap peers = {}
       /\ \A i \in DOMAIN call.result.config.orderers :
            call.result.config.orderers[i] \notin orderers

\* The peers that ChannelPeers gives for a channel are those of ChannelConfig, in the
\* same roles, and have the configuration that PeerConfig finds for their names: for a
\* channel of the configuration, and for one that is only covered by the default.
ChannelPeersResolve ==
  LET m == MappedChannelName(call.key) IN
  call.op = "channel" /\ m \in DOMAIN Net.channels \cup {Default} =>
    /\ \A p \in DOMAIN call.result.config.peers :
         p \in DOMAIN call.result.peers <=> Peer(world.config, Net, p) # NotFound
    /\ \A p \in DOMAIN call.result.peers :
         /\ p \in DOMAIN call.result.config.peers
         /\ call.result.peers[p].roles = call.result.config.peers[p]
         /\ call.result.peers[p].endpoint = Peer(world.config, Net, p)

\* Nobody is given the configuration of a peer of an organization or a channel whose URL
\* asks for TLS without a certificate to verify it with.
SecureHasCerts ==
  world.at = "up" /\ ~world.config.systemPool =>
    /\ \A o \in DOMAIN Net.peersByOrg : \A e \in Net.peersByOrg[o] :
         IsTLSEnabled(e.url) => e.cert # None
    /\ \A ch \in DOMAIN Net.channelPeers : \A p \in DOMAIN Net.channelPeers[ch] :
         LET e == Net.channelPeers[ch][p].endpoint
         IN IsTLSEnabled(e.url) => e.cert # None

\* An entry "_default" of peers or orderers, which "can contain common configuration",
\* does not make the load panic when it has no options.
LoadsDefaultWithoutOptions == world.at # "panicked"
\* "Org channel is missing polices in config (should be equal to default channel)"
MissingIsDefault ==
  world.at = "up" => \A ch \in DOMAIN Net.channels :
    ch \in DOMAIN world.config.channels
      /\ world.config.channels[ch].policy = [i \in Items |-> None] =>
        Net.channels[ch].policies = Net.defaultChannel.policies
\* The host name override of a certificate authority is the one its matcher yields.
OverrideIsOwn ==
  call.op = "ca" /\ call.result # NotFound /\ CAOverride(world.config, call.key) # None =>
    call.result.opts[Override] = CAOverride(world.config, call.key)
\* A channel that is mapped to a name that is not configured is the default channel.
UnknownIsDefault ==
  call.op = "channel" /\ MappedChannelName(call.key) \notin DOMAIN Net.channels =>
    DOMAIN call.result.peers = {p \in DOMAIN call.result.config.peers :
                                  Peer(world.config, Net, p) # NotFound}
=============================================================================
