---------------------------- MODULE MCSharedState ----------------------------
(* The parts whose goroutines, applications or processes share state, in   *)
(* one run: the event service of a channel, the PKCS11 sessions, the pool  *)
(* of TLS certificates, gateways with their wallet, loggers, the key store *)
(* and the MSP clients with their stores. They share nothing with each     *)
(* other: of a behaviour the part that it names takes the steps.           *)
EXTENDS EventClientRef, Integers, Sequences, TLC

CONSTANTS
  Users, Handles, PoolSize, MaxBroken,                        \* SessionPool
  Adders, Readers, Brings, MaxGets, MaxFailures,              \* CertPool
  Apps, Labels, Ids, MaxConnects, MaxSubmits, MaxFaults,      \* Gateway
  Loggers, ModLog, Custom, Levels, Info, MaxLines, Nobody, Done,   \* Logging
  Materials, Kinds, BlockSize, MaxLength, MaxCalls, Torn,     \* CryptoSuite
  Members, UserNames, Registrar, RegistrarSecret, Embedded, Files, MaxKeys,
  MaxEnrollments,                                             \* Identities
  None, a1

VARIABLES
  part,
  pool, given, alive, recovery, stage, session, readers, broken, carried,
  queue, dirty, certPool, adder, toAdd, reader, gets, due, loads,
  apps, process, wallet, txn, limits,
  provider, modlog, logger, latch, levels, run, lines,
  calls, store, text, counts,
  request, world

SP == INSTANCE SessionPool
CP == INSTANCE CertPool WITH Getters <- Readers, pool <- certPool, getter <- reader
GW == INSTANCE Gateway WITH MaxCalls <- MaxConnects, counts <- limits
LG == INSTANCE Logging WITH
  Goroutines <- Users, Providers <- Apps, MaxCalls <- MaxLines, calls <- lines
CS == INSTANCE CryptoSuite
ID == INSTANCE Identities WITH
  Clients <- Members, Names <- UserNames, call <- request
ASSUME SharedAssumption ==
  /\ SP!PoolAssumption /\ CP!CertAssumption /\ GW!GatewayAssumption
  /\ LG!LoggingAssumption /\ CS!CryptoAssumption /\ ID!IdentitiesAssumption

sessions == <<pool, given, alive, recovery, stage, session, readers, broken, carried>>
certs == <<queue, dirty, certPool, adder, toAdd, reader, gets, due, loads>>
gateways == <<apps, process, wallet, txn, limits>>
logs == <<provider, modlog, logger, latch, levels, run, lines>>
crypto == <<calls, store, text, counts>>
identities == <<request, world>>
all == <<part, vars, sessions, certs, gateways, logs, crypto, identities>>

\* What is in the key store at first matters to the key store only.
Parts == {"events", "sessions", "certs", "gateways", "logs", "crypto", "identities"}
MCInit ==
  /\ part \in Parts
  /\ Init /\ SP!Init /\ CP!Init /\ GW!Init /\ LG!Init /\ CS!Init
  /\ ID!Init
  /\ part # "crypto" => store.kind = "dummy" /\ store.others = {}

Runs(p) == part = p /\ UNCHANGED part
\* Values and clients are alike: they are made in the order of their numbers.
InOrder(S) == S = 1 .. Cardinality(S)
EventSteps ==
  /\ Runs("events") /\ Next
  /\ InOrder(made') /\ InOrder({c \in Clients : conn'[c] # "none"})
  /\ UNCHANGED <<sessions, certs, gateways, logs, crypto, identities>>
SessionSteps ==
  Runs("sessions") /\ SP!Next /\ UNCHANGED <<vars, certs, gateways, logs, crypto, identities>>
CertSteps ==
  Runs("certs") /\ CP!Next /\ UNCHANGED <<vars, sessions, gateways, logs, crypto, identities>>
GatewaySteps ==
  Runs("gateways") /\ GW!Next /\ UNCHANGED <<vars, sessions, certs, logs, crypto, identities>>
LogSteps ==
  Runs("logs") /\ LG!Next /\ UNCHANGED <<vars, sessions, certs, gateways, crypto, identities>>
CryptoSteps ==
  Runs("crypto") /\ CS!Next /\ UNCHANGED <<vars, sessions, certs, gateways, logs, identities>>
IdentitySteps ==
  Runs("identities") /\ ID!Next
    /\ UNCHANGED <<vars, sessions, certs, gateways, logs, crypto>>

MCNext == EventSteps \/ SessionSteps \/ CertSteps \/ GatewaySteps \/ LogSteps \/ CryptoSteps
            \/ IdentitySteps
MCSpec == MCInit /\ [][MCNext]_all

\* The constants of the run that are functions: two adders with a certificate in common,
\* and two clients with a user whose certificate and key the configuration names.
BringsMC == [a \in Adders |-> IF a = a1 THEN {"ca", "cb"} ELSE {"cb"}]
EmbeddedMC == [n \in UserNames |-> [cert |-> 0, key |-> 0]]
FilesMC == [n \in UserNames |-> IF n = "u" THEN [cert |-> 101, keys |-> {101}, priv |-> 0]
                                ELSE [cert |-> 0, keys |-> {}, priv |-> 0]]

\* Nothing tells the users apart; only safety is checked with it.
Symmetry == Permutations(Users)

\* The state of every part keeps its shape.
TypesOK ==
  /\ TypeOK /\ SP!TypeOK /\ CP!TypeOK /\ GW!TypeOK /\ LG!TypeOK
  /\ CS!TypeOK /\ ID!TypeOK

\* What is kept for others to find: no session is lent to two users, unless it has the number
\* of one that was out when the context was renewed, and the pool has none that the context
\* does not know of; no certificate is forgotten on its way to the pool, what GetKey finds is
\* what was asked for, what was encrypted is decrypted, and an identity that is found in the
\* stores of two processes can sign.
StoresSound ==
  /\ SP!SessionsNotShared /\ SP!PoolOfThisContext
  /\ CP!NothingForgotten
  /\ CS!FoundIsAsked /\ CS!PlaintextComesBack
  /\ ID!StoredIdentitiesWork

\* What a process has one of: the default crypto suite holds the keys of every gateway, a
\* submitter is told of a commit once it is told of success, and there is one log provider.
ProcessWideSound ==
  /\ GW!KeysOfTheDefault /\ GW!SuccessIsTold
  /\ LG!OneProvider

\* A private key that is stored, and the sink of a logger, are never replaced.
NothingReplaced == CS!KeysStay /\ LG!SinksStay
=============================================================================
