-------------------------- MODULE ResourceManagement --------------------------
(***************************************************************************)
(* The resource management client: pkg/client/resmgmt, with the requests   *)
(* of pkg/fab/resource it sends.                                           *)
(*                                                                         *)
(* One administrator makes one call after the other: save a channel, join  *)
(* peers, install a chaincode (of either life cycle), have a transaction   *)
(* of the life cycle committed (instantiate, upgrade, approve, commit) or  *)
(* query. What peers and orderers did stays when a call fails. A message   *)
(* to a peer or an orderer is one step: it is refused, it is answered, or  *)
(* it is done and the answer gets lost. What is signed and how a proposal  *)
(* is put together is left out.                                            *)
(***************************************************************************)
EXTENDS Naturals, FiniteSets

CONSTANTS
  Peers,
  Local,            \* what the discovery of the own organization finds
  Channel,          \* what the discovery of the channel finds
  DefaultFilter,    \* the peers the client's filter accepts; all when it has none
  Filters, NoFilter,\* the filters of requests, sets of peers
  Attempts,         \* retries of the retry option
  MaxCalls, MaxFaults

ResourceAssumption ==
  /\ {Local, Channel, DefaultFilter} \cup Filters \subseteq SUBSET Peers
  /\ IsFiniteSet(Peers) /\ NoFilter \notin Filters
  /\ {Attempts, MaxCalls, MaxFaults} \subseteq Nat

VARIABLES
  call,       \* the call: op, at, what its options say (asked, filter), targets,
              \* todo (peers left), told (peers in the responses), bad (peers in
              \* the errors), tries, result
  world       \* channel: it was created; joined and installed peers; tx: the
              \* transactions of the calls; calls, faults: counted to their bounds

vars == <<call, world>>

Ops == {"save", "join", "install", "lifecycleInstall", "transaction", "queryPeer",
        "queryChannel"}
Idle == [op |-> "none", at |-> "idle", asked |-> {}, filter |-> NoFilter,
         targets |-> {}, todo |-> {}, told |-> {}, bad |-> {}, tries |-> 0,
         result |-> "none"]

Init ==
  /\ call = Idle
  /\ world = [channel |-> FALSE, joined |-> {}, installed |-> {},
              tx |-> [c \in 1 .. MaxCalls |-> "none"], calls |-> 0, faults |-> 0]

At(s) == call.at = s
Tx == world.calls       \* a call makes one transaction ID at most
World(w) == world' = w
Returns(r) == [call EXCEPT !.at = "idle", !.result = r]
Fault == world.faults < MaxFaults
Faulty(n) == [world EXCEPT !.faults = @ + n]

-----------------------------------------------------------------------------
(* Who is asked                                                            *)

DefaultTargets(discovered) == discovered \cap DefaultFilter

\* resolveDefaultTargets; that there are none is no error.
ResolveDefaultTargets(asked) == IF asked # {} THEN asked ELSE DefaultTargets(Local)

\* calculateTargets
\* slip: the filter of the client is for the peers the caller names
CalculateUnfiltered(targets, filter) ==
  LET found == IF targets = {} THEN Local ELSE targets IN
  IF filter # NoFilter THEN found \cap filter ELSE found
CalculateTargets(targets, filter) ==
  LET found == IF targets = {} THEN Local ELSE targets IN
  IF filter # NoFilter THEN found \cap filter
  ELSE IF targets = {} THEN found \cap DefaultFilter ELSE found

\* getCCProposalTargets
ProposalTargets(asked, filter) ==
  CalculateTargets(IF asked # {} THEN asked ELSE DefaultTargets(Channel), filter)

Targets(op, asked, filter) ==
  CASE op = "join" -> CalculateTargets(asked, filter)
    [] op \in {"install", "lifecycleInstall"} ->
         CalculateTargets(ResolveDefaultTargets(asked), filter)
    [] op \in {"transaction", "queryChannel"} -> ProposalTargets(asked, filter)
    [] OTHER -> asked

FirstStep(op) ==
  CASE op = "save" -> "update" [] op = "join" -> "genesis"
    [] op \in {"install", "lifecycleInstall"} -> "check"
    [] op = "transaction" -> "propose" [] OTHER -> "query"

\* prepareRequestOpts, and the checks before anything is sent
Begin(op, asked, filter) ==
  LET targets == Targets(op, asked, filter)
      new == [Idle EXCEPT !.op = op, !.asked = asked, !.filter = filter]
      refused == \/ asked # {} /\ filter # NoFilter
                 \/ op = "queryPeer" /\ Cardinality(asked) # 1
                 \/ op # "save" /\ targets = {}
  IN /\ At("idle") /\ world.calls < MaxCalls
     /\ world' = [world EXCEPT !.calls = @ + 1]
     /\ call' = IF refused THEN [new EXCEPT !.result = "error"]
                ELSE [new EXCEPT !.at = FirstStep(op), !.targets = targets,
                                 !.todo = targets]

-----------------------------------------------------------------------------
(* SaveChannel                                                             *)

\* CreateChannel: the same update again while the retry handler says so. An orderer
\* takes an update once; it refuses the second one for good.
Again(retryable) ==
  IF retryable /\ call.tries < Attempts THEN [call EXCEPT !.tries = @ + 1]
                                        ELSE Returns("error")
Update ==
  /\ At("update")
  /\ \/ ~world.channel /\ World([world EXCEPT !.channel = TRUE]) /\ call' = Returns("ok")
     \/ world.channel /\ call' = Again(FALSE) /\ UNCHANGED world
     \/ Fault /\ World(Faulty(1)) /\ \E retryable \in BOOLEAN : call' = Again(retryable)
     \/ /\ Fault /\ World([Faulty(1) EXCEPT !.channel = TRUE]) /\ call' = Again(TRUE)

(* JoinChannel                                                             *)

\* The genesis block, from an orderer
Genesis ==
  /\ At("genesis")
  /\ \/ world.channel /\ call' = [call EXCEPT !.at = "joining"] /\ UNCHANGED world
     \/ ~world.channel /\ call' = Returns("error") /\ UNCHANGED world
     \/ Fault /\ World(Faulty(1)) /\ call' = Returns("error")

\* A goroutine for each target, with retries of its own (bounded by MaxFaults here).
\* A peer refuses to join again: a retry fails when only the answer was lost.
Join(p) ==
  /\ At("joining") /\ p \in call.todo
  /\ \/ /\ p \notin world.joined /\ World([world EXCEPT !.joined = @ \cup {p}])
        /\ call' = [call EXCEPT !.todo = @ \ {p}, !.told = @ \cup {p}]
     \/ /\ p \in world.joined /\ UNCHANGED world
        /\ call' = [call EXCEPT !.todo = @ \ {p}, !.bad = @ \cup {p}]
     \/ /\ Fault
        /\ \E done \in {{}, {p}} : World([Faulty(1) EXCEPT !.joined = @ \cup done])
        /\ \/ Attempts > 0 /\ UNCHANGED call
           \/ call' = [call EXCEPT !.todo = @ \ {p}, !.bad = @ \cup {p}]

Joined ==
  /\ At("joining") /\ call.todo = {}
  /\ call' = Returns(IF call.bad = {} THEN "ok" ELSE "error") /\ UNCHANGED world

-----------------------------------------------------------------------------
(* InstallCC and LifecycleInstallCC                                        *)

\* adjustTargets: the targets are asked one after the other; who has it is left
\* out, and reported by InstallCC only.
\* slip: who cannot be asked has it
CheckLoosely(p) ==
  /\ At("check") /\ p \in call.todo
  /\ \/ /\ p \in world.installed /\ UNCHANGED world
        /\ call' = [call EXCEPT !.todo = @ \ {p}, !.told = @ \cup
                      IF call.op = "install" THEN {p} ELSE {}]
     \/ /\ Fault /\ World(Faulty(1)) /\ call' = [call EXCEPT !.todo = @ \ {p}]
Check(p) ==
  /\ At("check") /\ p \in call.todo
  /\ \/ /\ p \in world.installed /\ UNCHANGED world
        /\ call' = [call EXCEPT !.todo = @ \ {p}, !.told = @ \cup
                      IF call.op = "install" THEN {p} ELSE {}]
     \/ /\ Fault /\ World(Faulty(1))
        /\ call' = [call EXCEPT !.todo = @ \ {p}, !.bad = @ \cup {p}]

\* The rest does not have it. If nobody is left, what was found is returned.
Checked ==
  /\ At("check") /\ call.todo \cap world.installed = {}
  /\ call' = IF call.todo # {} THEN [call EXCEPT !.at = "send"]
             ELSE Returns(IF call.bad = {} THEN "ok" ELSE "error")
  /\ UNCHANGED world

\* The package goes to all at once, and is not sent again. What was found and what
\* the others answered is dropped with the first error.
Send ==
  /\ At("send")
  /\ \E failed \in SUBSET call.todo, lost \in SUBSET call.todo :
       /\ lost \subseteq failed /\ world.faults + Cardinality(failed) <= MaxFaults
       /\ World([Faulty(Cardinality(failed)) EXCEPT
                   !.installed = @ \cup (call.todo \ failed) \cup lost])
       /\ call' = IF failed = {} /\ call.bad = {}
                  THEN [Returns("ok") EXCEPT !.told = @ \cup call.todo]
                  ELSE [Returns("error") EXCEPT
                          !.told = IF failed = {} THEN @ \cup call.todo ELSE {},
                          !.bad = @ \cup failed]

-----------------------------------------------------------------------------
(* Transactions: InstantiateCC, UpgradeCC, LifecycleApproveCC and          *)
(* LifecycleCommitCC                                                       *)

\* The proposal to all targets, whose answers and signatures have to be right
Propose ==
  /\ At("propose")
  /\ \/ call' = [call EXCEPT !.at = "register"] /\ UNCHANGED world
     \/ Fault /\ World(Faulty(1)) /\ call' = Returns("error")

\* RegisterTxStatusEvent comes first.
Register ==
  /\ At("register")
  /\ \/ call' = [call EXCEPT !.at = "order"] /\ UNCHANGED world
     \/ Fault /\ World(Faulty(1)) /\ call' = Returns("error")

Order ==
  /\ At("order")
  /\ \/ World([world EXCEPT !.tx[Tx] = "sent"]) /\ call' = [call EXCEPT !.at = "wait"]
     \/ /\ Fault /\ call' = Returns("error")
        /\ \E taken \in {"none", "sent"} : World([Faulty(1) EXCEPT !.tx[Tx] = taken])

\* slip: a status is a success
WaitForAny ==
  /\ At("wait") /\ UNCHANGED world
  /\ \/ world.tx[Tx] \in {"VALID", "INVALID"} /\ call' = Returns("ok")
     \/ call' = Returns("error")
\* Its status, or the end of the context
Wait ==
  /\ At("wait") /\ UNCHANGED world
  /\ \/ world.tx[Tx] = "VALID" /\ call' = Returns("ok")
     \/ call' = Returns("error")

\* Queries: of one peer, or of all targets, who have to answer the same
Query ==
  /\ At("query")
  /\ \/ call' = [Returns("ok") EXCEPT !.told = call.targets] /\ UNCHANGED world
     \/ Fault /\ World(Faulty(1)) /\ call' = Returns("error")

-----------------------------------------------------------------------------
\* The committing peers
Commit(c) ==
  /\ world.tx[c] = "sent" /\ UNCHANGED call
  /\ \E status \in {"VALID", "INVALID"} : World([world EXCEPT !.tx[c] = status])

Next ==
  \/ \E op \in Ops, asked \in SUBSET Peers, f \in Filters \cup {NoFilter} : Begin(op, asked, f)
  \/ Update \/ Genesis \/ Joined \/ Checked \/ Send
  \/ \E p \in Peers : Join(p) \/ Check(p)
  \/ Propose \/ Register \/ Order \/ Wait \/ Query
  \/ \E c \in 1 .. MaxCalls : Commit(c)

Spec == Init /\ [][Next]_vars

-----------------------------------------------------------------------------
(* Properties                                                              *)

\* The shape of the state.
TypeOK ==
  /\ call \in [op : Ops \cup {"none"},
               at : {"idle", "update", "genesis", "joining", "check", "send", "propose",
                     "register", "order", "wait", "query"},
               asked : SUBSET Peers, filter : Filters \cup {NoFilter},
               targets : SUBSET Peers, todo : SUBSET Peers, told : SUBSET Peers,
               bad : SUBSET Peers, tries : 0 .. Attempts, result : {"none", "ok", "error"}]
  /\ world \in [channel : BOOLEAN, joined : SUBSET Peers, installed : SUBSET Peers,
                tx : [1 .. MaxCalls -> {"none", "sent", "VALID", "INVALID"}],
                calls : 0 .. MaxCalls, faults : 0 .. MaxFaults]

\* A call that returns no error was done to the end, on every target it was for,
\* whatever calls before it left half done (JoinChannel, InstallCC,
\* sendTransactionAndCheckEvent).
SuccessIsDone ==
  call.result = "ok" =>
    CASE call.op = "save" -> world.channel
      [] call.op = "join" -> call.targets \subseteq world.joined
      [] call.op \in {"install", "lifecycleInstall"} -> call.targets \subseteq world.installed
      [] call.op = "transaction" -> world.tx[Tx] = "VALID"
      [] OTHER -> TRUE

\* Nobody is asked whom the options rule out: with a filter, only who passes it;
\* with targets, only them; with neither, only who passes the client's filter
\* (calculateTargets and what its callers pass to it).
AskedAsTold ==
  call.targets \subseteq
    IF call.filter # NoFilter THEN call.filter
    ELSE IF call.asked # {} THEN call.asked ELSE DefaultFilter

\* "If peer(s) are not specified in options it will default to all channel peers"
\* (InstantiateCC, UpgradeCC).
DefaultsAreChannelPeers ==
  call.op = "transaction" /\ call.asked = {} => call.targets \subseteq Channel

\* "For each peer query if chaincode installed. If cc is installed treat as success
\* with message 'already installed'. If cc is not installed try to install, and if
\* that fails add to the list with error and peer name" (InstallCC): every target is
\* in the responses or in the errors.
EveryTargetReported ==
  call.op = "install" /\ call.result # "none" =>
    call.targets \subseteq call.told \cup call.bad

=============================================================================
