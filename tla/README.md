# TLA+ models of fabric-sdk-go-gm

These modules model the SDK from the gRPC connection up to the gateway: its
shared state (connection cache, event clients, lazy references and caches,
session and certificate pools, key and user stores, loggers), the flow of a
transaction, the services behind a channel, resource management, and the
algorithms that choose peers, compute updates of a configuration and validate
identities. TLC checks them on small instances; TLAPS proves every safety
property that the runs check for any number of users, goroutines, connections,
peers, policies and values.

Paths below are under `src/pkg/` unless they begin with `src/`; `fabric-gm/` is
`src/internal/gitee.com/zhaochuninhefei/fabric-gm/`. `PROJECT.json` holds the
machine-readable side: components, runs, mutants, the line ranges each
definition stands for, hazards, findings, theorems.

Contents: [1 The system](#1-the-system) ·
[2 Modules and code](#2-modules-and-code) · [3 Runs](#3-runs) ·
[4 Fairness](#4-fairness) · [5 Proofs](#5-proofs) ·
[6 Where code and documentation disagree](#6-where-code-and-documentation-disagree) ·
[7 What is left out](#7-what-is-left-out) · [8 Plan](#8-plan)

## 1 The system

An application uses the SDK through clients (channel, ledger, event, resource
management, MSP, gateway). They share, per SDK instance, the providers that
`fabsdk` assembles: endpoint configuration, identities, crypto suite, the
infrastructure provider with the **connection cache**, and the channel provider
with its **context cache** (selection, discovery, membership, channel
configuration, **event service**), each a cache of lazily made, expiring
references.

```
application
  | gateway --> fabsdk (crypto suite, stores, endpoint configuration)
  | channel / ledger / event / resmgmt / msp clients
  v                                              '--> certificate authority
handlers: select - endorse - validate - commit (retry, greylist)
  |              |                    '--> orderers (broadcast, deliver)
  v              v
channel provider (context cache: lazy caches of lazy references)
  |- selection, discovery, membership, channel config   (refreshing references)
  '- event service reference (expiring reference) --> event client
                                                      | connect, seek, close
                              peer resolver           v
                              (monitor) --> dispatcher goroutine <-- Receive goroutine
                                                      |            ^ blocks, errors
                                                      v            |
                                     connection cache --> gRPC connection --> peer
```

| component | state | operations | talks to | what is hard | modelled in |
|---|---|---|---|---|---|
| connection cache `fab/comm/connector.go` | two maps, a use count and last close per connection, two one-slot channels, a wait group | DialContext, ReleaseConn, Close, the janitor goroutine | gRPC, every user of a connection | the lock is released while a dial waits; the janitor's token and the channels' closing are outside it | `CachingConnector` |
| connection and stream `fab/comm` | open or closed | dial, stream, Close | connection cache | closed once by whoever has it | in part: `EventClient`, `OrdererStreams` |
| event client `fab/events/client` | atomics `connectionState` and `stopped`, the connection event channel | Connect, reconnect, Close, CloseIfIdle, TransferRegistrations, the connection monitor | its dispatcher, the application's event channel | monitor, reconnecting goroutines, Close and dispatcher interleave; a loss is reported late or in the middle of an attempt | `EventClient` |
| deliver client `fab/events/deliverclient` | seek type and start block, connection, Receive goroutine | seek, resume position, deliver responses | the peer's deliver stream | late blocks and errors of earlier connections; resuming without a gap or a repeat | `EventClient`, `BlockStream` |
| event service and dispatcher `fab/events/service` | registrations (two slices, two maps), last block, queue | Register*, Unregister, publication, Stop, Transfer, snapshots | the consumers' bounded channels | slow consumers stop the only dispatcher goroutine or miss events; channels are closed at three places | `EventDispatcher` |
| peer resolvers `fab/events/client/peerresolver`, `fab/events/endpoint` | the connected peer, heights as told | Resolve, Filter, ShouldDisconnect, the peer monitor | discovery, dispatcher | heights are old when they are compared; a client sent back and forth | `PeerResolver` |
| lazy reference `util/concurrent/lazyref` | the reference, a lock, `closed`, `running`, a wait group, a close channel | Get, Close, the timer goroutine | initializer and finalizer callbacks | the fast path of Get runs without the lock; timers against Get and Close | `LazyRef` |
| lazy cache, future value `util/concurrent` | map of futures | Get, Delete, DeleteAll, Close | initializers | a failing initializer deletes the key, whoever's entry is there | `LazyCache` |
| event client reference `fabsdk/provider/chpvdr/eventserviceref.go` | `closed`, `eventClient`, a lazy reference | Register*, Unregister, Close, initializer, finalizer | lazy reference, event client | the finalizer keeps or closes a client that users hold or reach again later | `EventClientRef` |
| channel provider, context cache `fabsdk/provider/chpvdr` | five caches of references | references with timers, CloseContext | chconfig, membership, discovery | initializers call one another with locks held; Close waits for timers | in part: `ChannelServices` |
| contexts `fabsdk/context.go`, `context/` | none | hand out what others keep | all | nothing | no |
| channel client `client/channel` | the request's context, retry handler, greylist | Query, Execute, the handler chain | selection, endorsers, orderers, event service | a timed out request goes on; a retry of what was committed | `ChannelRequest` |
| retry, multi errors, status `common/errors` | attempts | Required, Invoke, joining of errors | all clients | which status survives the wrapping decides the retry | `ChannelRequest` |
| transactions, endorsers `fab/txn`, `fab/peer` | none between calls | proposal, endorsement at several peers, transaction, broadcast with failover | peers, orderers | answers that differ; an orderer that timed out may have accepted | `Transactions`, `ChannelRequest` |
| orderer client `fab/orderer` | a stream and its goroutine | SendBroadcast, SendDeliver | orderer | two channels report one stream | `OrdererStreams` |
| discovery `client/common/discovery`, `fab/discovery`, `fabric-gm/discovery/client` | the cached answer | request of several queries to several targets | peers | answers matched to queries by index and key | `Discovery` |
| greylist, filters `client/common` | greylist with expiry | Accept, Greylist | channel client | renewed entry deleted as expired | in part: `ChannelRequest` |
| selection `client/common/selection` | resolvers, policies and descriptors that are cached | GetEndorsersForChaincode, two services | discovery, peers' policies | policies expanded to peers, of which some are gone, filtered or behind | `Selection` |
| channel configuration, membership `fab/chconfig`, `fab/channel/membership` | references to a configuration block and what is built from it | Get, refresh, Validate, Verify | ledgers, `fabric-gm/msp` | an older configuration after a newer one | in part: `ChannelServices`, `ConfigUpdate`, `LedgerQueries`, `Msp` |
| membership service provider `fabric-gm/msp` | what Setup keeps | Setup, Validate, SatisfiesPrincipal | membership | roles from node OUs in four versions, or a list | `Msp` |
| ledger and system chaincode queries `client/ledger`, `fab/channel` | none | queries to several peers, verification | peers | lies, lag, duplicates, fewer answers than wanted | `LedgerQueries` |
| event API client `client/event` | none | forwards | event service | nothing | no |
| resource management `client/resmgmt`, `fab/resource` | none between calls | save channel, join, install, instantiate, life cycle | peers, orderers, event service | some targets fail or have it already; answers get lost | `ResourceManagement`, `Lifecycle` |
| channel configuration transactions `fab/resource`, `fabric-gm/sdkinternal` | none | compute, encode and sign an update | orderer | updates computed from an old configuration | in part: `ConfigUpdate` |
| gateway `gateway` | the wallet, transactions, the SDK it makes | Connect, GetNetwork, Submit, Close | fabsdk, channel client | the default suite and the wallet's directory are shared | in part: `Gateway` |
| SDK assembly `fabsdk` | what New made, default suite | New, Close | factories | New of two goroutines | in part: `Gateway`, `Logging` |
| MSP client, CA client, identities `client/msp`, `msp` | none between calls | enroll, reenroll, register, revoke, find | certificate authority, stores | crash or lost answer between the steps | in part: `Identities` |
| key, certificate, user stores `msp`, `fab/keyvaluestore` | files | Store, Load, Delete | file system | a write is cut off, two writers | in part: `Identities` |
| endpoint configuration `fab/endpointconfig.go`, `msp/identityconfig.go` | what was loaded | load with defaults and matchers, lookups | backends | the same rule applied at six places | `EndpointConfig` |
| TLS certificate pool `core/config/comm/tls` | queue, pool, dirty mark | Add, Get | dials, MSPs | the mark and the queue go apart | `CertPool` |
| configuration backends, path variables | none that changes | read and substitute | files, environment | nothing | no |
| PKCS11 sessions `core/cryptosuite/common/pkcs11` | the pool, the context, an RWMutex | GetSession, ReturnSession, recovery | token | the pool is flushed while sessions are lent | in part: `SessionPool` |
| software crypto suite `core/cryptosuite`, `fabric-gm/bccsp` | key stores | KeyGen, KeyImport, GetKey, Encrypt, Decrypt | files | two processes in one directory; two keys with one SKI | in part: `CryptoSuite` |
| block browser `util/chn_browse_util` | the newest block told of | BrowseChannelWithConfig | peers | the chain grows and peers lag while it reads | `Transactions` |
| logging `common/logging`, `core/logging` | provider, loggers, levels | Initialize, loggers' first line | all | a `sync.Once` per logger | `Logging` |
| metrics, chaincode packagers | none | count; pack files | | nothing | no |

What makes the components correct, in the words of the properties:

- **connection cache**: the two maps agree; the use count of a cached connection
  is the number of its users; every connection nobody can reach is closed; the
  janitor closes nothing in use; one janitor at a time; Close ends.
- **event client**: one open connection; one attempt to connect at a time; never
  `Connecting` with nobody connecting; blocks reach the registrations in order,
  once, with no gap; Close and the calls return; a loss leads to a reconnect or,
  without that option, to Close. Its resolver follows the channel and does not
  send it to and fro.
- **event dispatcher**: a channel is never closed twice or sent to after its
  close; a registration has exactly one holder until it is closed; it gets the
  blocks that concern it, in order, once; Unregister closes nobody else's
  channel, as long as the dispatcher still holds the given registration; a slow consumer with a timeout does not keep others from registering.
- **references and caches**: one timer, which the wait group counts; one live
  value; no value finalized twice; one initializer at a time; nothing cached after
  Close; whoever waits is answered; of a channel's event clients one is open,
  what is handed out was not closed for being idle, and whoever is registered can
  be unregistered; membership does not go back to an older configuration, unless building
  it from a new one failed.
- **requests**: who is told of success has a valid transaction in the ledger,
  with what was endorsed; committed once unless an answer was lost; endorsed as
  all chaincodes that it touched ask; unreachable peers are not asked again; the
  goroutine of a request ends.
- **queries and streams**: what is answered is what was asked, by as many peers as
  asked for; an orderer's success followed no error that the goroutine had put.
- **resource management**: what is told as done is done, at the peers that were
  asked for, by the definition that was asked for; an update undoes no update that
  its author did not see.
- **stores and pools**: no session is lent twice, and the pool has none of a former
  context, as far as handles tell sessions apart; no
  certificate is forgotten; what a key store gives is what was asked for; a stored
  certificate has its key; a logger keeps its sink.
- **configuration, identities**: what a matcher ignores is found nowhere; the peers
  of a channel resolve; who has a role is a member and has one role.

`PROJECT.json` lists 40 hazards at the lines where they bite, each with the
properties that guard against it. Many more properties were stated than are kept:
where TLC showed that the code does not have one, either a sentence of the
repository promises it, and it is a finding (section 6), or none does, and the
hazard's note names the path TLC found.

## 2 Modules and code

| module | what it is |
|---|---|
| `CachingConnector`, `CachingConnectorProofs` | `fab/comm/connector.go`: users, the janitor, Close; gRPC's state changes |
| `EventClient`, `EventClientProofs` | `fab/events/client`, `fab/events/deliverclient` and the parts of `fab/events/service` they run on |
| `BlockStream` | the abstract promise of the event client, which `EventClient` implements |
| `EventDispatcher`, `EventDispatcherProofs` | `fab/events/service`: registrations, publication, snapshots |
| `PeerResolver` | `fab/events/client/peerresolver` and the peer monitor |
| `LazyRef` | `util/concurrent/lazyref/lazyref.go` |
| `LazyCache` | `util/concurrent/lazycache`, `futurevalue` |
| `CachesProofs` | proofs about `LazyRef`, `LazyCache` and the run of both |
| `EventClientRef` | `fabsdk/provider/chpvdr/eventserviceref.go`, composed with `LazyRef` by INSTANCE |
| `ChannelServices` | the references of a channel context: `fab/chconfig`, `fab/channel/membership`, `dynamicdiscovery`, `chpvdr` |
| `ChannelRequest`, `ChannelRequestProofs` | one Query or Execute of `client/channel` |
| `Selection` | `client/common/selection`, the dynamic and the fabric service |
| `Discovery` | `fab/discovery`, `fabric-gm/discovery/client` and who takes the answers |
| `Transactions` | `fab/txn` and the block browser |
| `OrdererStreams` | `fab/orderer` and the failover in `fab/txn` |
| `LedgerQueries` | `client/ledger`, `fab/channel`, the query of `fab/chconfig` |
| `ResourceManagement`, `Lifecycle` | `client/resmgmt`, `fab/resource` |
| `ConfigUpdate` | the configuration of a channel: updates, encoder, anchor peers, reading it back |
| `Msp` | `fabric-gm/msp` |
| `EndpointConfig` | `fab/endpointconfig.go`, `msp/identityconfig.go` |
| `Gateway` | `gateway`, `fabsdk`'s New |
| `Identities` | `client/msp`, `msp` and the stores |
| `CryptoSuite` | `fabric-gm/bccsp/sw` |
| `SessionPool` | `core/cryptosuite/common/pkcs11/contextHandle.go` |
| `CertPool` | `core/config/comm/tls/certpool.go` |
| `Logging` | `common/logging`, `core/logging` |
| `SharedStateProofs` | proofs about `EventClientRef`, `Gateway`, `Identities`, `CryptoSuite`, `SessionPool`, `CertPool`, `Logging` and the run of all of them |
| `ServicesProofs` | proofs about `ChannelServices`, `PeerResolver`, `OrdererStreams`, `Discovery` and the run of all of them |
| `AdministrationProofs` | proofs about `ResourceManagement`, `LedgerQueries`, `Lifecycle`, `Transactions`, `Selection`, `ConfigUpdate`, `EndpointConfig`, `Msp` and the run of all of them |
| `MC*` | instances for TLC |

Conventions. A region under a lock is one action, unless another goroutine
reads what it writes without the lock. A channel operation, an access to an
atomic and the entry to a locked region are actions of their own. `pc`-like
variables (`upc`, `jpc`, `pc`, `mon`, `getter`, `timer`, a field `at`) say where
a goroutine is. `panicked` is what Go's panic is: the program ends there, and no
action follows. Definitions whose comment begins with *slip* are not part of the
specification: each is the form that a plausible mistake in that code would take,
and is there to show that a property notices it. Some models keep in their state
what a property compares with and the code does not have (`carried` of the session
pool, `due` of the certificate pool, what the authority or a peer remembers); their
comments say so.

**CachingConnector.** `conns` and `index` are `cc.conns` and `cc.index`;
`open[c]`, `idle[c]` and `state[c]` are `cachedConn.open`, "lastClose is more
than idleTime ago", and gRPC's connectivity state. `janitorClosed` and
`janitorDone` are the two channels with one slot. DialContext is
`DialCached | DialNew | DialRefused` (the locked `createConn`, with
`dropShutdown` for `shutdownConn`), then `WaitReady | WaitFails` (`waitConn`,
unlocked), then `DialReturns` (`openConn`'s start of the janitor) or `DialFails`
(the error path). The janitor is `EnterSelect`, `Tick | Stopped`, `Sweep`
(`sweepAndRemove` and the count, locked), `HandBack` (the send of the token,
unlocked), `JanitorReturns`. Close is `CloseCheck`, `CloseSelect`, `CloseSend`,
`CloseWait`, `CloseFlush`. `HolderCloses` is somebody closing the connection
that DialContext gave out: nothing in the SDK does, but `loadConn` and the
janitor reckon with it.

**EventClient.** A thread is a caller or a goroutine the client spawned;
`pc[t]` is its place. `Call`, `CheckStopped`, `StartConnecting`,
`ConnectReply`, `RegisterOnce`, `RegisterReply`, `StartSeek`, `SeekReply`,
`StartUndo`, `UndoReply`, `SetConnected` are `connect()` between its
compare-and-swaps, its requests (`Submit`: a state check and, later, a send)
and the waits for their replies; `Reconnect`, `GiveUp` the reconnecting
goroutine; `StartClose`, `CloseReply`, `StopReply` are `close`; `InfoReply` is
CloseIfIdle. `Monitor*` is `monitorConnection` with its two compare-and-swaps.
`Handle*` are the handlers of the three stacked dispatchers, by the event they
take from the queue. `StreamDelivers`, `StreamFails`, `StreamEOF`, `Post`,
`ReceiveEnds` are the Receive goroutine with the peer behind it. Messages are
records `[type, th, num]`; a reply goes to the slot of the thread that waits.

**BlockStream** is what the registrations of an event client may rely on: from
a first block on, each block once, in order, none left out, never ahead of the
channel. `EventClient!ResumesStream` is `BlockStream!Spec` under the mapping
`height <- height`, `published <- published` and the first block that the seek
configuration asks for.

**EventDispatcher.** `blockRegs`/`filteredRegs` are the slices, `txRegs`/`ccRegs`
the maps (a key in at most one registration). `HandleBlock` puts the receivers
of a block in `plan`, one set after the other in the order of the code (each of one
receiver, but of those for a chaincode event, which the code finds in a map in any order);
it is the turn of the members of the first set that is not empty. `PublishTo` and
`GiveUpOn` are the sends one by one, so that consumers read, register and stop in between.
`want` and `timeout` are chosen at the start from `Setups`. `Transfer`,
`StopAndTransfer` take a snapshot, `StartFromSnapshot` is New with that snapshot.
`RemoveAt0` is the code's removal, which moves the first into the place.

**PeerResolver.** `Resolve`, `Filter` and `ShouldDisconnect` of the four resolvers
are operators on the heights that discovery told (`Hear`), not those the peers
have (`Grow`); `Connect`, `Receive`, `Monitor`, `Lose` are the client's steps. The
subtractions of the code are on unsigned numbers, which is why a height below the
threshold and the block number that stands for "none" are among the inputs.

**LazyRef.** Get is `GetCheck` (the atomic `closed`), `GetFast` (the unlocked
look), `GetLocked` (second look, initializer, `ensureTimerStarted`). Close is
`SetClosed`, `NotifyClosing`, `Wait`, `CloseFinalizes`. The timer goroutine
`checkTimeStarted` is `TimerStart`, `TimerFires | TimerClosed`, `Refresh` or
`ExpireFinalizes` and `Reset`, `TimerStops`. `Values` are the holders `set`
allocates. `finals` counts the finalizer's calls.

**LazyCache.** `entry` is the future in the map, `future[f]` its state. Get is
`Load` and the steps of `Getter` (LoadOrStore, initialization, the wait, the
deletion of the key when it fails); DeleteAll and Close are a range over the map
in steps (`CallClose`, `Range`, `Drop`).

**EventClientRef.** Every step is a step of `LR == INSTANCE LazyRef` with what
the initializer, the finalizer or the user does to the client, or a step of the
reference's own (`Call`, `CloseClient`, `RefClose`, `Terminates`). The client
itself is reduced to `conn[c]` and `regs[c]`. The finalizer decides
(`CloseIfIdle` asks for the registrations) and closes in two steps, since a
registration may be made in between.

**ChannelServices.** Each of `config`, `membership`, `peers` is a reference with a
lock, a value (the number of a configuration block) and a timer; `call` holds the
stack of every actor (a user, a reference's timer or CloseContext), since the initializer of
`peers` gets the membership, and that one the configuration. `Works` is the next
step on top of that stack, `QueryFails` a query that fails, upon which the
application's error handler runs. `Reconfigure` is the channel that changes. The initializer
of `membership` keeps what it built beside the value of the lazy reference: `built` is
`ref.mem` with `ref.configBlockNumber`, 0 for nil. `BuildMembership` builds if `Newer`;
`BuildFails` is a `membership.New` that fails, which makes `ref.mem` nil while the value
stays (`reference.go:94-98`).

**ChannelRequest.** The goroutine of the request runs `Select`, `Endorse`,
`FindMore`, `EndorseMore`, `Validate`, `Register`, `Ordered | OrdererRefuses`,
`WaitForStatus`, and `Retry | FailForGood` after an error, which is what the chain
of handlers in `invoke` calls one after the other; the caller is `Expires` and
`CallerReturns`. An attempt's transaction is the number of the attempt. `Commit` is
the ledger, and happens also after the caller has gone. `CodesOf`, `Wrap` and
`Refusals` give what wrapping and joining make of the statuses, from which `Required`
and `Greylisted` tell whether there is another attempt and whom it leaves out.

**Selection.** `BeginDynamic`, `AskPolicy`, `StoreResolver`, `Resolve` are the
dynamic service: `GroupsOfAny`, `OrgGroups` and `PeerGroups` expand a policy as
`pgresolver` does, and the property compares with the policy itself (`Satisfied`, the
reference definition). `BeginFabric`, `Response`, `Select` are the fabric
service. Caches (`ResolverExpires`, `ResponseRefreshed`) are states of their own so
that what they hold may be older than `Upgrade`, `Redeploy` and `PeersChange`.

**Discovery.** `Add` builds the request and `where`, the index that is kept for each key
(`queryMapping`; of queries with the same key the last one counts), `SendAll` and the
senders' `Reply | CallFails | Canceled` are the fan-out of `fab/discovery`, `Take`
is the service that reads one response after the other from the channel.

**Transactions.** `Propose`, `Endorse`, `New`, `Send` follow the bytes that matter
from the proposal to the envelope: which header, whose payload, which endorsements.
`Begin`, `Read`, `Stop` are `BrowseChannelWithConfig`, one block of one peer at a
time.

**OrdererStreams.** `Try`, `Dial`, `Send`, `ReadError | ReadResponse | ReadClosed`,
`Drain` are the caller; `Recv`, `PutError`, `CloseResponses`, `Release` the goroutine
of a stream; `Answer`, `HangUp`, `Expire` the orderer and the deadline. The send on
`responses` is a rendezvous.

**LedgerQueries.** `Begin` chooses targets as `calculateTargets` does (filter,
minimum, maximum), `Respond` is a peer that answers, `Answer` the validation,
verification and matching of what came, with the retry of `fab/chconfig`.

**ResourceManagement**, **Lifecycle.** One `Begin` for every operation with its
targets; then the operation's own steps in the order of the code. A message to a
peer is one step with three outcomes: refused, done and answered, done and the
answer lost. `Lifecycle` holds the transactions of `_lifecycle` as a sequence, of
which each peer has a prefix.

**ConfigUpdate.** `Compute` is `configtxlator/update` on trees that are written flat
(a function from paths to content and version); `Acceptable` and `Applied` are what an orderer
makes of it, external to the SDK's code. `CallQuery`, `NewestBlock`,
`ConfigBlock` read the configuration; `Edit`, `Create`, `AnchorPeers` compute an
update; `Sign`, `Submit` send it.

**Msp.** `Setup` takes one configuration out of a set (a version, intermediates,
administrators, node OUs, revocation lists), `Validate` and `SatisfiesPrincipal` are
asked of one identity.

**EndpointConfig.** `Load` is the whole of `loadEndpointConfiguration` with its
defaults, matchers and checks, `LoadFails` its error paths; the lookups give what
the getters return. A map's order is a choice.

**Gateway.** `process` is the default crypto suite, `apps[a]` an application on its
way through `Connect` and `New`, `wallet` the directory. `RegisterCommitEvent`,
`Submit`, `Handle`, `Returns`, `TimesOut` are a transaction with its commit handler.

**Identities.** `world` is the authority, the user store and the key store, `call[c]`
a client's call. `Look`, `GetRegistrar`, `GenCSR`, `Post`, `OpenFile`, `WriteFile`,
`Finished` are the steps of Enroll and Reenroll between which it may `Crash`.

**CryptoSuite.** `store` are the files of the key directory or the map, `calls[u]` a
user's call. A file is opened and written in two steps; `ReadNames`, `LoadKey` are the
search by suffix.

**SessionPool.** `pool` is the channel `sessions`; `given` and `alive` are the handles that
the present context has given out and those that it still knows; `recovery` is the flag and
`readers` the RWMutex. `Renew` is `reLogin`: the next context numbers its sessions anew, so
any handle may come again while somebody has it from before. `ReturnSession` asks the context
for the number only (`contextHandle.go:135`), as the code does. `carried` is a history of
which handles were out when the present context was made.

**CertPool.** `FilterCerts`, `Store` are Add; `Load`, `Swap`, `Read` are Get, with the
compare-and-swap of the mark first. **Logging.** A field `once` of `provider`,
`modlog`, `logger[l]` and `latch[l]` is the `sync.Once` of one of the places a line goes
through.

## 3 Runs

Components that share nothing are checked in one run as a disjoint sum: a variable
`part`, chosen in the initial state, says which module's behaviour this one is, and a
property of the run is the conjunction of the modules' properties.

| run | instance | question |
|---|---|---|
| `connector` | 2 users, 1 target, 2 connections, 2 janitors, 2 closers | maps, counts and users agree, the janitor spares what is in use, Close ends |
| `client_lifecycle` | Connect and Close, 2 connections, 1 fault, reconnect with attempts that may run out | states, connections and attempts stay in step; Connect and Close return |
| `client_stream` | start from a snapshot at block 1, 3 connections, 2 faults, 3 blocks | order and refinement of `BlockStream` |
| `client_ends` | no reconnect: Connect and TransferRegistrations with a fault, or Connect, RegisterXXX, Unregister and CloseIfIdle without | a loss closes the client; the calls are answered; Close stops the dispatcher |
| `event_dispatcher` | 3 registrations in three setups covering all kinds, 2 blocks, 2 dispatchers, channels and queue of one slot | delivery, Unregister, the answer to Register |
| `channel_request` | queries and executions, 3 peers of 2 organizations, 3 chaincodes of which one calls the others, 2 orderers, 2 retries, 3 faults, a context that may end | success is in the ledger, once, endorsed as needed; the goroutine ends |
| `caches` | a reference with 2 Gets, 2 Closes, timers and values in each expiration type; a cache with 2 Gets, Delete and Close | one timer, one live value, one initializer, nothing kept after Close, everybody returns |
| `shared_state` | two users, applications or processes for each of the event service of a channel, the PKCS11 sessions, the certificate pool, gateways, loggers, the key store, identities | safety of shared state |
| `services` | one user and CloseContext over three references; the references' timers alone with more configurations and failures; three peers in four resolver modes; two orderers; two discovery targets | answers are to what was asked, membership goes back after a failed New only, nothing hangs, the channel is followed |
| `administration` | three peers, two organizations, two administrators; hundreds of endpoint configurations and MSPs | what is told is so; configurations keep their promises; updates undo nothing unseen |
| `connector_closed_in_use`, `client_lost_loss` | one counterexample each | section 6 |

The properties of a sum, by module:

- `shared_state`: `EventServiceSound` is `OneClient`, `HandsOutOpen` and
  `RegistrationsReachable` of `EventClientRef`. `StoresSound`:
  `SessionPool!SessionsNotShared`, `PoolOfThisContext`; `CertPool!NothingForgotten`;
  `CryptoSuite!FoundIsAsked`, `PlaintextComesBack`; `Identities!StoredIdentitiesWork`.
  `ProcessWideSound`: `Gateway!KeysOfTheDefault`, `SuccessIsTold`;
  `Logging!OneProvider`. `NothingReplaced`: `CryptoSuite!KeysStay`,
  `Logging!SinksStay`.
- `services`: `AnswersSound`: `ChannelServices!ClosedIsQuiet`,
  `OrdererStreams!OkIsUndisturbed`, `Discovery!AnswersTheQuery`,
  `ErrorMeansNobody`. `NothingHangs`: every Get and Close of `ChannelServices`
  returns, and every call of an orderer. `GoesBackOnlyAfterFailure` is that of
  `ChannelServices`. `ChannelIsFollowed`:
  `ChannelServices!FollowsNow` and `PeerResolver!CatchesUp`.
- `administration`: `AnswersSound`: `ResourceManagement!SuccessIsDone`,
  `AskedAsTold`; `LedgerQueries!TrueUnlessMinLie`; `Lifecycle!NotOlderThanAsked`,
  `ToldAsAskedFor`, `SameIsNoMismatch`; `Transactions!OrderedAsEndorsed`,
  `BrowsedAsAsked`, `NewerOnesOnce`; `Selection!SatisfiesPolicies`, `FillsLayout`.
  `ConfigurationSound`: `ConfigUpdate!CreatedAsPlanned`;
  `EndpointConfig!IgnoredIsNowhere`, `ChannelPeersResolve`, `SecureHasCerts`;
  `Msp!OneRole`, `RolesAreMembers`. `EditsSound`: `ConfigUpdate!MergesEdits`,
  `SetsWhatItSaw`.

Bounds, and why they are enough to be interesting.

- `Conns`, `Clients`, `Values`, `Timers`, `Janitors`, `Threads`, `Futures` bound how
  often something is made. Connector: the target can be dialled twice, so a
  connection is replaced while another user holds the old one; two janitors and two
  closers allow every overlap of pairs. EventClient: two or three connections are a
  first connection, its loss, and late events of the earlier ones at the next. With
  no identity left the code's failing branch is taken (a dial that fails, an
  initializer that fails), so exhaustion is no artificial end, except that a
  janitor, timer or thread that cannot be spawned blocks its spawner; the instances
  have more than can be needed at once.
- `MaxFaults`, `MaxFailures`, `MaxBroken`, `MaxLosses` bound what the environment
  does wrong together. Two faults are a loss during the recovery from a loss, or two
  peers of three that fail; one is enough where the code has no state across calls.
- `MaxHeight`, `MaxBlock`, `MaxVersion`, `MaxBlocks`: enough blocks for one to be
  missed between two others or repeated, and for a configuration to be two behind. The
  references of a channel run twice in `services`: in part `kept` with a user and
  CloseContext, `KeptVersion = 2` configurations and `KeptFaults = 1` failure; in part
  `refreshed` with their timers only, three configurations and two failures, which is what
  it takes for a membership to go back.
- `QueueCap`, `ChanCap`: one slot in the dispatcher run, so that full channels
  are the common case; two or three in the client runs, where a full queue would
  bound the overlap instead.
- `Calls`, `MaxCalls`, `MaxGets`, `MaxStarts`, `MaxSubmits`, `MaxTransactions`,
  `MaxBrowses`, `Attempts` bound calls, so that one call meets what an earlier one or
  another actor's left. Where calls have no memory between them one is enough.
- Two of everything that interleaves, three peers where a majority, a minimum or a
  filter is at stake. The MSPs and endpoint configurations are sets of all
  combinations of the features that override one another.
- The parts of `shared_state` run one at a time: the variable `part` says which takes the
  steps, and the others stay as they are at first. Their users have the same names, so that
  one symmetry permutes all of them.
- Symmetry is used only where safety alone is checked (`shared_state`) or no
  symmetric set occurs in a temporal operator's fairness (`administration`, whose
  temporal property is an action property).
- `CHECK_DEADLOCK FALSE` everywhere: an application may stop calling the SDK, a
  closed component does nothing any more, and the bounds exhaust.

Every property of every passing run has a mutant in `PROJECT.json`: the run finds
the property violated when the named definition is replaced by its slip. In a sum the
mutant is of one of its modules; the other modules have slips of their own beside the
actions their properties are about.

## 4 Fairness

Goroutines are scheduled (weak fairness of each goroutine that can run):
`Janitor(j)`, `Closer(k)` once called; `Thread(t)`, `Dispatcher`, `Monitor`,
`Receive(c)` of the event client; `Handlers` of the dispatcher; `Get(g)`, `Close(k)`,
`Timer(t)` of `LazyRef`, `Getter(g)` of `LazyCache`; `Handler` and `CallerReturns` of
`ChannelRequest`; `Works(a)`, `StartTimer(r)`, `Tick(r)` of `ChannelServices`;
`Caller` and `Goroutine(o)` of `OrdererStreams`; `Monitor` of `PeerResolver`. Go's
scheduler is preemptive, and locks and channels wake a waiter when they are free.

Strong fairness is assumed for two kinds of step. A `select` in a loop whose stop case
is ready again and again takes it some time (`Stopped(j)` of the janitor,
`TimerClosed(t)` of the lazy reference, `StopTimer(r)` of a refreshed one): Go chooses
uniformly among ready cases. And `PeerResolver!ChannelIsFollowed` asks that a client
that can connect to a peer again and again does so, and receives blocks when it is
again and again connected to a peer that has them (`Connect(p)`, `Receive`): without it
a peer may be lost each time before it sends anything. `GetSessionReturns` (a finding)
has the strong fairness of a user, so that it is not the wait for a lock that refutes it.

Of the environment it is assumed that deadlines come (`Expires` of a request's context,
`Expire(o)` of a stream; every context of these has a deadline in the code) and, for
`PeerResolver`, that peers catch up and discovery hears of it (`Grow(p)`, `Hear(p)`),
except for peers that are stuck. `IdleElapses` of the connector is weakly fair: time
goes on; with a positive consumer timeout `GiveUpOn` belongs to the dispatcher's steps.
Nothing else: users need not release, consumers need not read, nobody has to call,
streams need not deliver, ledgers need not grow. `MonitorNotifies` takes the application
to drain its connection event channel: the monitor's send to it has no timeout.

## 5 Proofs

| module | theorems | states |
|---|---|---|
| `CachingConnectorProofs` | `TypeCorrect`, `CacheIsSound`, `OnlyOneJanitor`, `InUseIsSpared` | `TypeOK`, `CacheSound`, `OneJanitor`, `JanitorSparesInUse` |
| `EventClientProofs` | `TypeCorrect`, `OneConnection`, `NoBlockTwice`, `AttemptsAreSound`, `StreamIsResumed` | `TypeOK`, `OneOpenConnection`, `BlocksInOrder`, `AttemptsSound`, `ResumesStream` |
| `EventDispatcherProofs` | `TypeCorrect`, `ChannelsAreSound`, `OthersAreSpared`, `DeliveryIsSound` | `TypeOK`, two conjuncts of `DeliverySound`, `UnregisterSparesOthers`, `DeliverySound` |
| `CachesProofs` | `TypeCorrect`, `OnlyOneTimer`, `OnlyOneLiveValue`, `NoDoubleFinalize`, `ReferenceSound` | `TypeOK` of `LazyRef`, the conjuncts of `RefSound` and `RefSound`, of any lazy reference |
| | `TypesCorrect`, `ReferenceIsSound`, `CacheIsSound`; `InitializesAlone`, `ClosedKeepsNothing` | `TypesOK`, `RefSound`, `CacheSound` of the run; the conjuncts of `CacheSound` of `LazyCache` by itself |
| `ChannelRequestProofs` | `TypeCorrect`, `CommitIsSound`, `EndorsedAsNeeded`, `UnreachableAreAvoided` | `TypeOK`, `CommitSound`, `EndorsedWhereNeeded`, `UnreachableIsAvoided` |
| `SharedStateProofs` | `TypesCorrect`, `ServiceIsSound`, `StoresAreSound`, `ProcessWideIsSound`, `NothingIsReplaced` | all that `shared_state` checks: `TypesOK`, `EventServiceSound`, `StoresSound`, `ProcessWideSound`, `NothingReplaced` |
| | `NoSessionShared`, `PooledIsOfContext`, `NoCertForgotten`, `FoundWasAsked`, `PlaintextsComeBack`, `StoredIdentitiesDoWork`, `KeysAreOfTheDefault`, `SuccessWasTold`, `ProviderIsOne`, `SinksDoStay`, `KeysDoStay` | the conjuncts of these, of each part by itself |
| | `EventServiceIsSound`, `TypeCorrect`, `ImplementsLazyRef`, `LazyRefIsSound` | of `EventClientRef`: `EventServiceSound`, `TypeOK`, the specification of `LazyRef`, its `RefSound` |
| `ServicesProofs` | `TypesCorrect`, `AnswersAreSound`, `MembershipGoesBackOnlyAfterFailure` | all of `services` that is safety: `TypesOK`, `AnswersSound`, `GoesBackOnlyAfterFailure` |
| | `ClosedWasQuiet`, `MembershipIsMonotonic`, `OkWasUndisturbed`, `AnswerIsToTheQuery`, `ErrorMeantNobody` | the conjuncts of these, of each part by itself |
| `AdministrationProofs` | `TypesCorrect`, `AnswersAreSound`, `ConfigurationIsSound`, `EditsAreSound` | all that `administration` checks: `TypesOK`, `AnswersSound`, `ConfigurationSound`, `EditsSound` |
| | `AgreedIsTrue`, `ReportedIsRecent`, `SelectedAreEnough` | conjuncts of `AnswersSound`, of their parts |
| | `EditMerges`, `ResolutionsDo` | of operators: what updates and policies come to |

They assume only the modules' own `ASSUME`s: special values are no members of the sets,
the sets of users, janitors, closers, timers, peers
and targets of discovery are finite, bounds are numbers, and a cipher's block has a size.
For data of unbounded depth the assumption is that it has an end, which a message or a file
that was read has: `SelectionAssumption` (no rule of a policy is inside itself, and whoever is
to sign is of an MSP with a name), `ConfigAssumption` (the groups of a configuration make a
tree, and a profile has what `AddPolicies` and the anchors need to be put somewhere),
`EndpointAssumption` (matchers and orderers are lists), `LifecycleAssumption` (what was
approved before was asked for). Two theorems ask for more.
`StreamIsResumed` is about a client that resumes (`Resumes`: its dispatcher has a last block
and seeks from the one behind it at most, nothing is skipped), which is what `SetSnapshot`
sets (`fab/events/deliverclient/opts.go:86-97`); for one without a last block the property is
false (section 6). `DeliveryIsSound` is about channels whose first block to be fed is not 0
(`MinBlock # 0`): `SetSnapshot` takes a last block 0 for none (`dispatcher.go:116`), after
which the genesis block may be published once more; the hazard's note has the path.
`ChannelsAreSound` and `OthersAreSpared` do without. None of the properties is inductive
alone; what each invariant adds, and why:

*Connection cache.* `CacheSound` is `CacheConsistent`, `OpenCountExact` and
`NothingLeaks`. The invariant adds `UsersHold` (a user counts for a connection exactly
while it is inside dial and release, and the connection was dialled),
`IndexedAreDialled` (what is indexed was dialled, what was not dialled is untouched)
and `ClosedTogether` (`janitorDone` is nil exactly when `janitorClosed` is closed:
`CloseFlush` does both or panics). `OpenCountExact` needs them, since a count may only
be compared with the set of holders if a count never belongs to two connections; the
arithmetic is in the lemmas `HoldersEnter` and `HoldersLeave` over finite sets. There
is one lemma for each conjunct, with one step for each action. `JanitorSparesInUse`
follows: what a sweep takes open out of the cache has count zero, so nobody holds it.

*Lazy reference.* `RefSound` is `OneTimer`, `OneLiveValue` and `FinalizedOnce`. Added are
`CloseIsAlone` (one caller of Close is past `SetClosed`, and when it is past its wait no
timer is in its loop), `ExpiringIsSet` (a timer that is about to expire finds the
reference set, since only it unsets), `SetIsMade` and `FinalizedIsLast` (a finalized
value is in the reference only between finalizer and reset, or after Close), which make
`FinalizedOnce` inductive. `OneLiveValue` and `FinalizedOnce` use that the reference is
changed under the lock by one timer at most, thus need `OneTimer`.

*Lazy cache.* Added are that a caller that initializes owns the locked future it is at,
and `ClosedIsSeen`: once Close has ranged over the map, no caller that has not seen
`closed` can still put an entry there.

The run `caches` has both components side by side. `EachIsRun` shows that a behaviour of
`MCSpec` is one of `LazyRef`'s `Spec` and one of `LazyCache`'s, so that the theorems about
each carry over to the run's own properties.

*Event client.* For one connection and one order of blocks: added are `PublishedIsOld` (nothing published is newer than the last
block, which makes `BlocksInOrder` inductive) and `Shape` (what the queue, the
connections and the blocks are; an event of a block carries a block's number). It says
nothing of threads, of the monitor or of the connection state: one connection and one
order of blocks are the dispatcher's doing alone, whatever the other goroutines ask
for. So the steps of threads, monitor and peers need one lemma each, and only the
handlers are looked at one by one.

`AttemptsSound` is about what these do, and has an invariant of its own, `AInv`:
`OneConnects` (at most one thread is inside the attempt that state Connecting stands for;
the monitor may take that state from a running attempt, but spawns a reconnect only where it
took Connected), `ConnectedIsDone` (who sets Connected is done with its requests),
`FirstConnect` (the application's first Connect finds the client Disconnected and nobody
connecting) and `StopIsTold` (the dispatcher is stopped, and asked to, only after Close has
set `stopped`); `ConnectingIsAnAttempt` is the property's own.

`StreamIsResumed` is the refinement of `BlockStream`, step by step. Its invariant is
`RInv`. `AllReceived`: the last block is the last one published. `QueuedFollow`,
`ItemsFollow`, `StreamsFollow`: every block that is queued, in a Receive goroutine's hands or
yet to be sent by a peer is at most one ahead of the last block or of some block before it in
the queue, so that what the dispatcher takes next is old or is the very next.
`SeeksAreKnown`: a seek asks for the block behind the last one at most. With it
`HandleBlock` is `Publish` or a stutter, growth is `Commit`, and every other step a stutter.
Late blocks of earlier connections are harmless because the queue is in order and the last
block never decreases, not because they do not come.

*Event dispatcher.* `HInv` is about who holds a registration: `Holders` (granted and not
closed: in exactly one list of the dispatcher, or in the snapshot, once), `OnePerKey`,
`QueuedOnce` (a request to register is in the queue once, and is not answered yet; one snapshot is asked
for at a time),
`PublishesToHeld` (while a publication is under way nothing is removed, so that its receivers
are held still), `GrantedIsHeld`. Nothing panics because what is closed or sent to is held,
what is held is open, and what is closed is given up in the same step. `DInv` is about what
was sent: `HandledIsOld` (what was published is not newer than the last block), `Joins`,
`SentIsHandled`, `NoneMissed` (what a registration got and is to get by the publication under
way is what was published since it joined and concerns it), `InOrder`. The lemmas `AppendOnce`
and `WithoutIt` are about slices (the code's removal takes one element out and keeps the
others), `PublicationIs` is about the publication (whom a block is sent to is whom it
concerns).

*Event client reference.* Added are `Shape`, `CloseIsTold`, `VerdictHolds` (the verdict
of the finalizer, that the client is idle, is about the client there is, and the lock is
held meanwhile) and `SetIsThere`. The step from a verdict to the close is where a
registration may come in: `OneClient` and `RegistrationsReachable` survive it,
"an idle close spares a new registration" does not, and is no property (section 1).

*Channel request.* Added are `TxIsOfAttempt` (attempts to come have no transaction; a
transaction holds what its response was), `OkIsTold` (what was told as success is in the
ledger), `AreSettled` (a transaction an attempt left behind is invalid, or its answer
was lost), `AreEnough` (peers that answered plus those that are asked satisfy the
policies) and `AreGreylisted` (unreachable peers are in the greylist, or will be at the
retry). `AreSettled` carries "committed twice only if an answer was lost" over the
attempts; the number of retries does not matter for it.

That `EventClientRef` is a lazy reference with something in it is a theorem,
`ImplementsLazyRef`: each of its steps is a step of `LazyRef` or leaves it alone. So what
`CachesProofs` shows of any lazy reference is cited through an instance (`LRP`, with nobody
at the cache that the module also has), and
`TypeCorrect` gets from there that the lock is held exactly during the two steps of an
expiration.

*Session pool.* Added is `HandlesKnown`: what the context knows it gave, and what users have
it gave too, or it was out when the context was made (`carried`). So a session that is opened
has a handle that nobody has and the pool has not, but for the carried ones, and of the others
each goes from the pool to one user, or from its user to the pool (`SharedStep`, `HandedTo`).
What a renewal gives may coincide with what others kept; just these handles are carried from
then on. That one context gives no handle twice is assumed (section 7).

*Certificate pool.* Added is `AddsBrought`: what a caller of Add is about to queue is of its
own certificates. `NothingForgotten` is inductive with it: a caller of Add queues under the
lock and raises the flag, a caller of Get takes the flag and only then swaps the pool, and
meanwhile it is the one on whose way the certificates are. What an append finds is the lemma
`AppendedIsIn`.

*Gateways.* Added are that an application that imports a key has found or made the default
suite (`AppsFit`), and that nobody replaces it: a second New fails instead. For
`SuccessIsTold` it is `TellsItsChannel`: a handler that has succeeded has told the channel it
has, and what is told of a channel is the handler that told it. `NoAppFits`
and `OneAppFits` are about the record of one application, so that each action is looked at
once.

*Loggers.* Who is inside a `sync.Once` holds it, and whoever is past it finds what it made:
`ProviderIsSet`, `LoggerIsSet`, `CustomIsSet`, `LatchIsHeld`, `HeldByOne`, `SinkIsSet`. The
provider is set once; so is the custom sink, and a logger takes it or leaves it under its
latch. Why no sink ever changes is that `SinkOf` is fixed once both onces are done.

*Key store.* `StoreNamed`: what is in a file, or in memory, is the key the place is named by,
and `Naming`: a key has one name and no other key has it. So writing a file, even in two
steps, puts back the key that was there. `CallsProper`: who stores has a key, who gets an SKI,
and what was found has that SKI. `TextPadded`: the padding of a ciphertext is between one byte
and a block (`PaddingFits`), so that what is taken off is what was put on.

*Identities.* `RequestFits`: what a request is about to write was issued to whom it is
written for, and its key is in the key store; `WorldFits`: so is what was written. The key
store and the authority forget nothing (`OneRequest`), hence steps of others, crashes and
lost answers in between do not matter. `ExchangeFits` is about any request to the authority
and each of its outcomes.

The run `shared_state` has all of these side by side. `EachIsRun` shows that a behaviour of
`MCSpec` is one of every part; `SharedAssumption` is the assumptions of the parts.

*Channel services.* `KeptShape`: who closes the context has at most one frame, of Close, and
everybody else has frames of Get only. `ClosedInOrder`: a caller of CloseContext that is at
one reference has closed those before it, also where it found them closed by another caller.
`RunningIsWaitedFor`: while the timer of a closed reference runs, some caller is in Close of
just that reference and waits for it. So when all have returned no timer runs. What Gets and
timers do is `Quiet`: it opens and closes nothing, starts no timer of what is closed, and puts
the membership back only while nothing is built (`BackOnlyAfterFailure`), which rests on
`BuiltIsKept`: what is built is the value of the reference, unless a New failed since
(`StoredIsQuiet`). For that it is enough to look at each action once, however deep the stack is. The theorems are about an error handler that returns (`Handler <- "return"`, as
in the run). With one that closes the context from inside the initializer the invariant is
another one, and Close waits for the lock that its own goroutine holds (section 6).

*Peer resolvers.* Every resolver chooses among the event sources (`ResolveIsOfSources`), from
which the types follow. That a client catches up is liveness and stays with TLC.

*Orderer streams.* `Received`: nothing is sent after the end of a stream, and its goroutine
comes to an end of its own only when it has received all of it. `Untried`: an orderer that is
left to be asked has no stream. `ErrorsAreTold`: a refusal or a broken stream that the
goroutine has received is on its way (the goroutine is about to put it, or it is in the error
channel) or the caller has read it; when the caller has drained the error channel nothing can
come after. `OkIsUndisturbed` follows at the step that returns.

*Discovery.* `KeysAreKept`: what is kept for a key is the index of a query with that key, so
an answer found by it is to a query of the same kind; `LookupFindsResults` and `KeysTellApart`
are about what the key leaves out. `RepliesAreSaid`: what is in the channel is what its target
said. `AnsweredAreRead`: whoever has answered is in the channel still or said nothing of the
query, from which an error when the channel is exhausted says that of every target. The room
in the channel is counted with the targets that have answered.

*Administration.* The run has one of eight parts take the steps; `AdministrationInv` is that
the part's own invariant holds. These are:

- *Resource management* (`ManagementInv`): `Underway`, whom a call has dealt with without an
  error has what the call is about (it is joined, or the chaincode is installed there), so that
  when nobody is left and nobody failed everybody has it. Peers keep what they have.
- *Ledger queries* (`QueriesInv`): `AskedOnce`, no peer is twice among the targets, so answers
  are of different peers; `AgreedUpon`, what is told was said by as many as were asked for.
  With fewer liars than that one of them told the truth; with different peers, counted twice
  is nobody.
- *Life cycle* (`CycleInv`): `CycleUnderway`, of the targets one had all the transactions that
  any had at the start (`floor`), and it is to be asked yet, or an answer is what a chain at
  least as long says. Chains grow at their end only (`PrefixStays`), and answers that are the
  same as their neighbours are all the same (`CycleMatch`), so what is told is that answer.
- *Transactions and browser* (`LedgersInv`): `WorkSound` and `ChainSound`, header and input of
  what is on its way, and of each transaction in the chain, are of one request, and the
  endorsements are about just these; `BrowseSound`, what the browser has told is the chain from
  the height it began at down to where it is, and it has not gone beyond its limit.
- *Selection* (`SelectionsInv`): resolvers have the policies of their chaincodes, and what is
  told does for the policies that the call has. What carries it is about operators:
  `GroupsDoAll`, the sets of organizations that `OrgGroups` expands a rule to are those whose
  peers satisfy it, by going from a rule to the rules in it; `ResolutionsDo`, the same for the
  policies of several chaincodes joined; `EndorsersFill` for layouts.
- *Configuration updates* (`ConfigInv`): configurations are trees, each `Later` than the ones
  before it: a path's version has not gone back unless a group above it has a new version, and
  with the same versions above, the same version means the same content and members. So an
  update whose versions are those of the newest configuration is about what its administrator
  saw, though many updates came between: `EditMerges`, from `EditAgrees` (all that is touched
  is as it was read) and `MergeOfUpdate` (the two sets of `Compute` are worth the
  difference). The first update of a channel makes what is planned (`CreateMakes`), and only
  one does (`CreatedOnce`); anchor peers fit whatever came between (`AnchorsMerge`).
- *Endpoints* (`EndpointsInv`): what is loaded is computed of one file by the loading functions
  and did not fail, and what a call is told is looked up in that (`EndpointAnswer`).
  `IgnoredNotFound` and `ChannelsIgnore` say that search, and completion by the default
  channel, leave out what a matcher ignores; `KeptAreNotIgnored` the same of lists of orderers.
- *MSP* (`MembersInv`): what is up was set up of a configuration whose administrators are
  sound. The rest is about operators: with node units enforced, who is valid has exactly one
  unit of the roles there are, and satisfies that role by name (`RoleIsSatisfied`).

`Selection` and `EndpointConfig` compute with recursive functions. That the function which the
definition's `CHOOSE` names exists is the lemma `RecursiveFunction`: take the functions that
solve the definition on a set of arguments closed under parts; two of them agree where both are
defined, since a least argument where they differ would have a part where they do; so their
union solves it, and an argument without a solution that is least has solutions at its parts
and gets one. `IsRule` and the end of parts are in the assumptions; well-foundedness is used in
the form that every set of rules has one without parts in it, so that nothing is proved by a
theorem with an operator for its parameter.

*Only model-checked*: liveness (`CloseTerminates`, `AllReturn`, `CallsEnd`,
`LossClosesClient`, `RegisterAnswered`, `InvocationEnds`, `EverybodyReturns`,
`NothingHangs`, `ChannelIsFollowed`), which is out of reach of the prover. All invariants and
action properties that the runs check are theorems.

## 6 Where code and documentation disagree

Each entry of `findings` in `PROJECT.json` quotes the sentence and says what TLC shows.
Two have a run of their own:

- `connector_closed_in_use`: a caller whose dial fails closes the shared connection
  under another caller (`fab/comm/connector.go:127-133`).
- `client_lost_loss`: a loss reported while `connect()` finishes falls between the
  monitor's two compare-and-swaps; the client stays Connected with no connection
  (`fab/events/client/client.go:382-391`).

The others name a property that is defined in its module, with a comment, and that no
configuration lists. To see the counterexample, define in the MC module of the run that
has the module, in a copy, for instance

```
Refuted == CP!GetHasAllAdded
```

and name it as an INVARIANT or, if it is about steps or time, a PROPERTY in a copy of
the configuration.

| where | what the code does | property |
|---|---|---|
| `fab/events/deliverclient/deliverclient.go:139` | a connection lost before the first block: resumes at the newest block, though a start was configured | `EventClient!ResumesStream`, with `LastBlock = NoBlock`, `SeekFrom = 1` |
| `fab/events/service/dispatcher/dispatcher.go:505` | Unregister of a transaction or chaincode event closes whatever is registered under the key now | `EventDispatcher!UnregistersTheGiven` |
| `fabsdk/provider/chpvdr/eventserviceref.go:63` | after an expiration that kept the client, Close finds the reference unset and closes nothing | `EventClientRef!CloseClosesClient` |
| `client/common/discovery/greylist/greylist.go:57` | of two offline peers neither is greylisted | `ChannelRequest!OfflineAreGreylisted` |
| `core/cryptosuite/common/pkcs11/contextHandle.go:511` | two returns keep the read lock: recovery waits for ever | `SessionPool!GetSessionReturns` under `FairSpec` |
| `core/cryptosuite/common/pkcs11/contextHandle.go:135` | a handle from before a recovery is pooled while somebody has a new session of that number, and lent twice | `SessionPool!PooledIsNotLent` |
| `core/config/comm/tls/certpool.go:63` | a second Get gets the pool before the certificates are in it | `CertPool!GetHasAllAdded` |
| `client/resmgmt/resmgmt.go:752` | channel peers that all fail the filter are replaced by local peers | `ResourceManagement!DefaultsAreChannelPeers` with `DefaultFilter <- {p2}` |
| `client/resmgmt/resmgmt.go:418` | one failed installation drops the responses of the others | `ResourceManagement!EveryTargetReported` |
| `client/common/selection/balancer/balancer.go:42` | no peer left: the round robin panics instead of a retry | `Selection!OutOfSyncIsRetried` |
| `fab/events/client/peerresolver/preferpeer/preferpeer.go:86` | leaves a preferred peer of another organization, and returns to it | `PeerResolver!LeftForAnother` |
| `fab/events/client/peerresolver/minblockheight/minblockheight.go:124` | leaves a peer that does not lag, because of what the client received | `PeerResolver!LeftBecauseItLags` |
| `fab/chconfig/reference.go:53` | an error handler that closes the context deadlocks | `ChannelServices!CallsReturn` with `Handler <- "close"` |
| `fab/channel/membership/reference.go:96` | a New that fails drops what was built: the next refresh takes an older configuration too | `ChannelServices!RefreshedOnlyIfNewer`, in the part `refreshed` |
| `client/ledger/ledger.go:352` | QueryConfigBlock ignores the minimum of targets | `LedgerQueries!ConfigBlockOfMin` |
| `fab/keyvaluestore/filekeyvaluestore.go:149` | a user's file is empty for a while | `Identities!EnrolledCanBeRetrieved` |
| `fab/endpointconfig.go:956` | `_default` without options panics | `EndpointConfig!LoadsDefaultWithoutOptions` |
| `fab/endpointconfig.go:701` | some missing policies are not those of the default channel | `EndpointConfig!MissingIsDefault` |
| `fab/endpointconfig.go:275` | a mapped channel that is unknown has no peers of `_default` | `EndpointConfig!UnknownIsDefault` |
| `msp/identityconfig.go:517` | authorities share a map of options: an override shows at another one | `EndpointConfig!OverrideIsOwn` |
| `fab/orderer/orderer.go:312` | a stream that ends without an answer counts as success | `OrdererStreams!OkIsAnswered` |
| `client/common/discovery/dynamicdiscovery/localservice.go:92` | a failed first answer is dereferenced | `Discovery!NobodyPanics` with `Local <- TRUE` |
| `gateway/filesystemwallet.go:54` | a shorter identity leaves the end of the old file | `Gateway!PutCanBeRead` |
| `fabsdk/fabsdk.go:399` | of two New at a time the second may fail | `Gateway!DefaultIsNoError` |
| `gateway/gateway.go:292` | Close closes nothing | `Gateway!ClosedHasNothing` |
| `gateway/transaction.go:199` | a second Submit closes the commit channel again | `Gateway!NobodyPanics` |
| `fabric-gm/bccsp/sw/fileks.go:278` | the public key hides the secret one | `CryptoSuite!StoredCanSign` |
| `fabric-gm/bccsp/sw/sm4.go:114` | Decrypt overwrites the caller's ciphertext | `CryptoSuite!DecryptsAgain` |
| `fabric-gm/bccsp/sw/inmemoryks.go:67` | the second import of a key fails | `CryptoSuite!ImportsAgain` |
| `util/chn_browse_util/chn_browse_util.go:268` | asked of a peer that lags, browsing by hash reads the whole chain | `Transactions!HashIsALimit` |
| `util/chn_browse_util/chn_browse_util.go:385` | a configuration without creator is told as unknown | `Transactions!ConfigurationIsTold` |
| `util/chn_browse_util/chn_browse_util.go:390` | a certificate without a unit panics | `Transactions!NobodyPanics` with `WithUnit <- {}` |

`GetSessionReturns` and `PooledIsNotLent` are seen with two users, `Handles = {1, 2, 3}`,
`PoolSize = 2`, `MaxBroken = 2`: after seven steps of calls and a recovery the pool has the
handle that the user has who recovered. `RefreshedOnlyIfNewer` needs three configurations and
two failures (`MaxVersion = 3`, `MaxFaults = 2`): one is built, New fails on a newer one, and
the next refresh gets an older one from a peer that lags behind.

`CallsEnd` and `RegisterAnswered` hold with exceptions that their definitions name (a
call that races with the stop of the dispatcher is never answered: the request is sent
between the check of the dispatcher's state and its end). The code documents no promise
there.

## 7 What is left out

Everywhere:

- Time: every timer may fire at any moment at which it is armed. Durations, backoff
  and their comparison are not modelled.
- Contents: envelopes, signatures and hashes are what they are computed from; blocks
  beyond what a registration or the browser looks at, certificates beyond what
  validation looks at.
- gRPC, the token, the file system, peers, orderers and the authority are external:
  they do what the code reckons with, in any order.

Components that are not modelled: contexts and the event API client (they forward),
configuration backends (reading and substitution of strings), metrics, chaincode
packagers (files into an archive). Generated code, mocks, protocol buffers and the parts
of fabric that the SDK vendors and does not call are no components.

By module, what somebody who relies on it should know:

- `EventClient`: peer discovery and the resolver are a choice of success or failure;
  Connect of the application makes one attempt (`connectWithRetry` is modelled in full
  for reconnects); a full connection event channel drops the event, as the code does,
  and the application's own channel is taken to be drained. Known and no property:
  an EOF ends the Receive goroutine without an event; each ConnectedEvent replaces
  `peerMonitorDone` without closing the one before; a connect request handled between
  Close's disconnect and its stop opens a connection that nobody closes.
- `CachingConnector`: known and no property: an idle connection whose dial and release
  fall between the last sweep and the return of the token is not swept; a dial in
  flight starts a janitor after Close, and it panics.
- `EventClientRef` keeps of the event client whether it is open and who is registered;
  `EventClient` shows what stands behind "open".
- `LazyCache`: one key; values that are closed with the cache are not distinguished.
- `ChannelServices`: which kind of discovery service there is is decided when the
  reference is made and stays (`contextcache.go:112-122`), which capabilities a channel
  has is compared as strings (`chconfig.go:109-129`), and an error of `ContainsMSP`
  drops all peers; none of these is modelled. The branch of Close that finds the
  reference closed needs two closers, the instance has one.
- `ChannelRequest`: policies ask for one peer of each of some organizations; with two
  of one organization `containsMSP` drops the second. What the last attempt could not
  reach is never greylisted; an error of two additional endorsers is wrapped, so that it
  is not retried. Handlers of the application's own are left out. A closed event
  channel makes the commit handler dereference nil, which is not modelled.
- `Selection`: the cache of policies is read by the chaincode's name and written by
  another key, so that it never hits; a resolver with no group returns no endorsers and no
  error; layouts that name peers which are unknown drop them.
- `Discovery`: the signer's cache (`MemoizeSigner`) evicts only beyond its limit and is
  left out. That senders end (`SendersEnd`) is stated under `FairSpec` and in no run.
- `Transactions`: `New` compares only statuses, as the code does; `WithCreator` is left
  out. The browser takes no notice of validation codes.
- `OrdererStreams`: a new call begins when the streams of the former have ended. A
  broadcast that goes to the next orderer after a lost answer may order a transaction
  twice, which the ledger of `ChannelRequest` resolves.
- `ResourceManagement`, `Lifecycle`: collections and packages are left out.
  `LifecycleInstallCC` drops partial responses like `InstallCC`.
- `ConfigUpdate`: what is deleted is not in the read set, so a concurrent change of it is
  lost; the reference definition `Merge` lets the deletion win. For an orderer given as
  the source the options of the retry are never taken from the configuration.
- `Msp`: the names of the node OUs are distinct in the instances; the certificate is what
  validation asks of it. The cache that gives an identity a second chance keeps results
  and is left out.
- `EndpointConfig`: `ResetNetworkConfig` and the timeouts are left out. The default
  balancer is round robin in the code (`common/providers/fab/network.go:74`), and the
  default URL of a matcher is dropped.
- `Gateway`: after a panic the model goes on, as other goroutines do until the process
  ends. A key of the wallet goes to the default suite before New makes the SDK's own.
- `Identities`: two clients that enroll the registrar use up its enrollments; a lost
  answer to Register loses the secret; HTTP status codes are not looked at by
  `StreamResponse`. The file `priv_sk` wins over the file of the SKI
  (`filekeystore.go:41-53`).
- `CryptoSuite`: the password of a file store becomes zeros, and the ephemeral option
  leads to a store that keeps nothing; a re-import that fails and leaves a torn file counts
  as no replacement, so a key that is lost that way is not seen; decryption of a ciphertext that is only an
  initialization vector panics and is no input of the instance. RSA, ECDSA, AES and
  derived keys are left out.
- `SessionPool`: finding objects and generating keys on the token are calls of the
  library. That the token gives no handle twice within one context, also not of a session
  that was closed, is an assumption of the model, as a token that counts its sessions up grants it; the next context may give any. A user
  validates, signs and returns under the handle's number, whosever session it is by then.
- `Logging`: a provider whose `GetLogger` itself logs waits for its own `sync.Once`; this
  is not modelled. `WithLoggerPkg` after the first line is ignored, as in the code.

## 8 Plan

The order was: first what is shared by all clients and runs concurrently (connection
cache, event client, dispatcher, references and caches, with their proofs), then the flow
of one transaction (`ChannelRequest`, `Transactions`, `OrdererStreams`, `Discovery`,
`Selection`, `PeerResolver`, `ChannelServices`), then what administrators do
(`ResourceManagement`, `Lifecycle`, `ConfigUpdate`, `LedgerQueries`), then the state of a
process (`Gateway`, `Logging`, `CryptoSuite`, `SessionPool`, `CertPool`, `Identities`) and
the configuration (`EndpointConfig`, `Msp`). All of it is there.

What would come next:

1. `EventClient` with `PeerResolver` in the place of the choice of a peer, and
   `ChannelRequest` with `Selection` in the place of any selection.
2. `ChannelServices` with a second closer, and the selection services as references.
3. The reading of the genesis configuration, and the memory stores.
