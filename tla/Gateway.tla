-------------------------------- MODULE Gateway --------------------------------
(***************************************************************************)
(* The assembly of an SDK (pkg/fabsdk) and what pkg/gateway makes of it:   *)
(* an application connects with an identity of a wallet, gets a network,   *)
(* and submits a transaction whose commit it may want to be told of.       *)
(*                                                                         *)
(* The applications are goroutines of one process and share its default    *)
(* cryptographic suite, which the first to need it sets, and the directory *)
(* of the wallet. Connect reads an identity (and makes its key a key of    *)
(* the default suite) before New creates the suite of the SDK. What New    *)
(* and the clients of a network read from the configuration is left out:   *)
(* each of these steps may fail.                                           *)
(***************************************************************************)
EXTENDS Naturals, FiniteSets, Sequences

CONSTANTS
  Apps, Labels,
  Ids,            \* identities, by the length of what is written for them
  MaxCalls, MaxSubmits, MaxFaults, None

\* None is neither a suite nor a result.
GatewayAssumption ==
  Ids \subseteq Nat /\ None \notin {"ephemeral", "sdk"} \X Apps /\ None # "ok"

VARIABLES
  apps,     \* of each application: at, label, id (of the wallet), keys (the suite of
            \* its private key), own (the suite of its SDK), sdk, closed (the gateway),
            \* result
  process,  \* suite: the default one; known: initOnce has been done
  wallet,   \* of each label, its file: <<>> or <<the identity, the length of what follows>>
  txn,      \* the transaction: owner, ch (the channel registered), chans (None, open,
            \* told) by number, handlers (number -> at), result
  counts    \* calls, submits, faults: to their bounds

vars == <<apps, process, wallet, txn, counts>>

NoApp == [at |-> "idle", label |-> None, id |-> None, keys |-> None, own |-> None,
          sdk |-> "none", closed |-> FALSE, result |-> None]
Init ==
  /\ apps = [a \in Apps |-> NoApp]
  /\ process = [suite |-> None, known |-> FALSE]
  /\ wallet = [l \in Labels |-> <<>>]
  /\ txn = [owner |-> None, ch |-> 0, told |-> <<>>, handlers |-> <<>>, result |-> None]
  /\ counts = [calls |-> 0, submits |-> 0, faults |-> 0]

At(a, s) == apps[a].at = s
To(a, s) == apps' = [apps EXCEPT ![a].at = s]
Fails(a) == apps' = [apps EXCEPT ![a] = [NoApp EXCEPT !.result = "error"]]
Fault == counts.faults < MaxFaults /\ counts' = [counts EXCEPT !.faults = @ + 1]
Call == counts.calls < MaxCalls /\ counts' = [counts EXCEPT !.calls = @ + 1]

-----------------------------------------------------------------------------
(* The wallet                                                              *)

\* A file is opened without being emptied: what is written replaces as much of it as it
\* is long, and what was longer keeps its end.
Opened(file) == IF file = <<>> THEN <<0, 0>> ELSE file
Length(file) == IF file = <<>> THEN 0 ELSE file[1] + file[2]
Written(file, id) == <<id, IF Length(file) > id THEN Length(file) - id ELSE 0>>
\* Get: no file, or no identity in it
Readable(file) == file # <<>> /\ file[1] > 0 /\ file[2] = 0

PutOpen(a, l, id) ==
  /\ At(a, "idle") /\ Call
  /\ apps' = [apps EXCEPT ![a].at = "write", ![a].label = l, ![a].id = id]
  /\ wallet' = [wallet EXCEPT ![l] = Opened(@)] /\ UNCHANGED <<process, txn>>
PutWrite(a) ==
  /\ At(a, "write") /\ apps' = [apps EXCEPT ![a] = [NoApp EXCEPT !.result = "put"]]
  /\ wallet' = IF apps[a].label = None THEN wallet
               ELSE [wallet EXCEPT ![apps[a].label] = Written(@, apps[a].id)]
  /\ UNCHANGED <<process, txn, counts>>
\* Who has the file open writes to one that has no name then.
Remove(a, l) ==
  /\ At(a, "idle") /\ Call /\ wallet[l] # <<>>
  /\ wallet' = [wallet EXCEPT ![l] = <<>>] /\ UNCHANGED <<process, txn>>
  /\ apps' = [b \in Apps |-> IF At(b, "write") /\ apps[b].label = l
                            THEN [apps[b] EXCEPT !.label = None] ELSE apps[b]]

-----------------------------------------------------------------------------
(* The default suite                                                       *)

EphemeralSuite(a) == <<"ephemeral", a>>
\* slip: without initOnce
InitSuiteAgain(s) == process' = [suite |-> s, known |-> TRUE]
InitSuite(s) ==
  process' = IF process.known THEN process ELSE [suite |-> s, known |-> TRUE]

-----------------------------------------------------------------------------
(* Connect                                                                 *)

\* WithIdentity: Get of the wallet, then GetDefault
ConnectWithIdentity(a, l) ==
  /\ At(a, "idle") /\ Call /\ UNCHANGED <<process, wallet, txn>>
  /\ IF Readable(wallet[l])
     THEN apps' = [apps EXCEPT ![a] =
            [NoApp EXCEPT !.label = l, !.id = wallet[l][1],
                          !.at = IF process.known THEN "key" ELSE "makedefault"]]
     ELSE Fails(a)
MakeDefault(a) ==
  /\ At(a, "makedefault") /\ InitSuite(EphemeralSuite(a)) /\ To(a, "key")
  /\ UNCHANGED <<wallet, txn, counts>>
ImportKey(a) ==
  /\ At(a, "key") /\ apps' = [apps EXCEPT ![a].keys = process.suite, ![a].at = "config"]
  /\ UNCHANGED <<process, wallet, txn, counts>>
ConnectWithUser(a) ==
  /\ At(a, "idle") /\ Call /\ apps' = [apps EXCEPT ![a] = [NoApp EXCEPT !.at = "config"]]
  /\ UNCHANGED <<process, wallet, txn>>

\* WithConfig, and New as far as initializeCryptoSuite: its own suite, and whether there
\* is a default one
CreateSuite(a) ==
  /\ At(a, "config") /\ UNCHANGED <<process, wallet, txn>>
  /\ \/ /\ apps' = [apps EXCEPT ![a].own = <<"sdk", a>>,
                                ![a].at = IF process.known THEN "providers" ELSE "setdefault"]
        /\ UNCHANGED counts
     \/ Fault /\ Fails(a)
\* SetDefault asks again, and it is an error now.
SetDefault(a) ==
  /\ At(a, "setdefault") /\ UNCHANGED <<process, wallet, txn, counts>>
  /\ IF process.known THEN apps' = [apps EXCEPT ![a] = [NoApp EXCEPT !.result = "already set"]]
     ELSE To(a, "initsuite")
SetSuite(a) ==
  /\ At(a, "initsuite") /\ InitSuite(apps[a].own) /\ To(a, "providers")
  /\ UNCHANGED <<wallet, txn, counts>>
\* The providers are made and initialized. When one fails New drops them.
Assemble(a) ==
  /\ At(a, "providers") /\ UNCHANGED <<process, wallet, txn>>
  /\ \/ /\ apps' = [apps EXCEPT ![a].sdk = "open", ![a].at = "connected"] /\ UNCHANGED counts
     \/ Fault /\ Fails(a)

\* A network, by a channel context of the gateway's identity or user
GetNetwork(a) ==
  /\ At(a, "connected") /\ UNCHANGED <<process, wallet, txn>>
  /\ \/ To(a, "network") /\ UNCHANGED counts
     \/ Fault /\ UNCHANGED apps
\* Close does nothing, and the SDK of WithConfig is nobody else's.
Close(a) ==
  /\ apps[a].at \in {"connected", "network"} /\ txn.owner # a
  /\ apps' = [apps EXCEPT ![a].closed = TRUE, ![a].at = "left"]
  /\ UNCHANGED <<process, wallet, txn, counts>>

-----------------------------------------------------------------------------
(* A transaction                                                           *)

CreateTransaction(a) ==
  /\ At(a, "network") /\ txn.owner = None /\ txn' = [txn EXCEPT !.owner = a]
  /\ UNCHANGED <<apps, process, wallet, counts>>
\* A channel of its own for each time
RegisterCommitEvent ==
  /\ txn.owner # None /\ Len(txn.told) < MaxSubmits /\ txn.result # "waits"
  /\ txn' = [txn EXCEPT !.told = Append(@, 0), !.ch = Len(txn.told) + 1]
  /\ UNCHANGED <<apps, process, wallet, counts>>
\* The handler of a submission has the channel that is registered then.
Submit ==
  /\ txn.owner # None /\ counts.submits < MaxSubmits /\ txn.result # "waits"
  /\ counts' = [counts EXCEPT !.submits = @ + 1]
  /\ txn' = [txn EXCEPT !.handlers = Append(@, [at |-> "runs", ch |-> txn.ch]),
                        !.result = "waits"]
  /\ UNCHANGED <<apps, process, wallet>>

Ends(h, at) == [txn EXCEPT !.handlers[h].at = at]
\* What commitTxHandler does with a valid status: the event, and the end of the channel.
\* slip: neither
TellNobody(h) == Ends(h, "valid")
Tell(h) ==
  LET c == txn.handlers[h].ch IN
  IF c = 0 THEN Ends(h, "valid")
  ELSE IF txn.told[c] # 0 THEN Ends(h, "panic")
  ELSE [Ends(h, "valid") EXCEPT !.told[c] = h]
\* Endorsed, ordered and committed; or not, with the retries there are. What comes after
\* the deadline may be taken or not.
Handle(h) ==
  /\ txn.handlers[h].at = "runs" /\ UNCHANGED <<apps, process, wallet>>
  /\ \/ txn' = Tell(h) /\ UNCHANGED counts
     \/ Fault /\ txn' = Ends(h, "failed")
Current(h) == h = Len(txn.handlers) /\ txn.result = "waits"
\* InvokeHandler: what comes first, its handler or the deadline
Returns(h) ==
  /\ Current(h) /\ UNCHANGED <<apps, process, wallet, counts>>
  /\ \/ txn.handlers[h].at = "valid" /\ txn' = [txn EXCEPT !.result = "ok"]
     \/ txn.handlers[h].at = "failed" /\ txn' = [txn EXCEPT !.result = "error"]
TimesOut(h) ==
  /\ Current(h) /\ Fault /\ txn' = [txn EXCEPT !.result = "timeout"]
  /\ UNCHANGED <<apps, process, wallet>>

Next ==
  \/ \E a \in Apps, l \in Labels :
       (\E id \in Ids : PutOpen(a, l, id)) \/ Remove(a, l) \/ ConnectWithIdentity(a, l)
  \/ \E a \in Apps : PutWrite(a) \/ MakeDefault(a) \/ ImportKey(a) \/ ConnectWithUser(a)
                     \/ CreateSuite(a) \/ SetDefault(a) \/ SetSuite(a) \/ Assemble(a)
                     \/ GetNetwork(a) \/ Close(a) \/ CreateTransaction(a)
  \/ RegisterCommitEvent \/ Submit
  \/ \E h \in DOMAIN txn.handlers : Handle(h) \/ Returns(h) \/ TimesOut(h)
Spec == Init /\ [][Next]_vars

-----------------------------------------------------------------------------
(* Properties                                                              *)

\* The shape of the state.
TypeOK ==
  /\ \A a \in Apps : /\ apps[a].at \in {"idle", "write", "makedefault", "key", "config",
                          "setdefault", "initsuite", "providers", "connected", "network", "left"}
                     /\ apps[a].sdk \in {"none", "open"} /\ apps[a].closed \in BOOLEAN
  /\ process.known \in BOOLEAN /\ (process.known <=> process.suite # None)
  /\ txn.ch \in 0 .. Len(txn.told) /\ txn.owner \in Apps \cup {None}
  /\ \A l \in Labels : wallet[l] = <<>> \/ wallet[l] \in (Ids \cup {0}) \X Nat

\* The private key of whoever is connected is a key of the suite that is the default of
\* the process for as long as it is connected, however many connect at a time.
KeysOfTheDefault ==
  \A a \in Apps : apps[a].keys # None => apps[a].keys = process.suite

\* "The channel is closed after the event is queued" (RegisterCommitEvent): when Submit
\* succeeds the channel it was registered with has ended, with an event of this
\* transaction.
SuccessIsTold ==
  txn.result = "ok" =>
    LET h == Len(txn.handlers) IN
    txn.handlers[h].ch # 0 => txn.told[txn.handlers[h].ch] = h

\* An identity that was put can be read again (testInsertionAndLookup), whatever was under
\* its label before.
PutCanBeRead ==
  \A l \in Labels :
    (wallet[l] # <<>> /\ \A a \in Apps : At(a, "write") => apps[a].label # l) =>
      Readable(wallet[l])

\* "default cryptosuite already initialized" (initializeCryptoSuite) is no error of New.
DefaultIsNoError == \A a \in Apps : apps[a].result # "already set"

\* "Close the gateway connection and all associated resources"
ClosedHasNothing == \A a \in Apps : apps[a].closed => apps[a].sdk # "open"

\* A transaction that is submitted again ends the channel of its event once.
NobodyPanics == \A h \in DOMAIN txn.handlers : txn.handlers[h].at # "panic"
=============================================================================
