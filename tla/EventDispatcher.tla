--------------------------- MODULE EventDispatcher ---------------------------
(***************************************************************************)
(* The event service and its dispatcher: pkg/fab/events/service            *)
(* (service.go, dispatcher/dispatcher.go, dispatcher/registrations.go).    *)
(*                                                                         *)
(* One goroutine handles the queued requests and blocks one at a time and  *)
(* sends every block to the registrations it concerns, on channels of      *)
(* bounded capacity. The owners of the registrations register, read,       *)
(* unregister, and stop the service, with or without taking the            *)
(* registrations over to a new one (a snapshot).                           *)
(***************************************************************************)
EXTENDS Naturals, Sequences, FiniteSets, Functions

CONSTANTS
  Regs,         \* registrations
  NoReg,        \* a queued event that is not about a registration
  Keys,         \* ids of transactions, and chaincode ids with event names
  Setups,       \* what the owners may be after, with a sign of
                \* eventConsumerTimeout: "negative", "zero" or "positive"
  Txs,          \* of each block: its transactions [id, valid, event]
  MinBlock, MaxBlock, \* the blocks the feed holds
  NoBlock,      \* math.MaxUint64
  NoKey,        \* a transaction without a chaincode event
  SkipFirst,    \* UpdateLastBlockInfoOnly
  ChanCap,      \* capacity of a consumer's channel
  QueueCap,     \* capacity of eventch
  MaxStarts     \* bound: dispatchers one after the other

ASSUME ConstantsAssumption ==
  /\ NoReg \notin Regs
  /\ Setups \subseteq
       [want : [Regs -> [kind : {"block", "filtered", "tx", "cc"}, key : Keys,
                         filter : SUBSET Nat, unregisters : Nat]],
        timeout : {"negative", "zero", "positive"}]
  /\ MinBlock \in Nat /\ MaxBlock \in Nat /\ NoBlock \notin Nat
  /\ Txs \in [MinBlock..MaxBlock -> Seq([id : Keys, valid : BOOLEAN,
                                      event : Keys \cup {NoKey}])]
  /\ SkipFirst \in BOOLEAN
  /\ ChanCap \in Nat \ {0} /\ QueueCap \in Nat \ {0} /\ MaxStarts \in Nat \ {0}

VARIABLES
  want,         \* kind, key (of "tx" and "cc"), filter (of "block") and number of
                \* Unregister calls of each registration
  timeout,      \* eventConsumerTimeout
  state,        \* Started or Stopped
  starts,       \* dispatchers started so far
  queue,        \* eventch
  blockRegs, filteredRegs,  \* slices
  txRegs, ccRegs,           \* maps by key: at most one registration per key
  lastBlock, skipNext,
  plan,         \* what is left of the publication under way: sets of receivers,
                \* one after the other
  number,       \* the block being published
  snap,         \* snapshots taken and not used: at most one
  feed,         \* the type of block the deliver service sends
  fed,          \* the block it sends next
  status,       \* what the owner of a registration is doing
  calls,        \* Unregister calls made
  unread,       \* events in a consumer's channel
  closed,       \* whether it has been closed
  panicked,     \* a channel was closed twice or sent to when closed
  sent,         \* history: the blocks sent to a registration
  joined,       \* history: lastBlock when it was registered
  handled       \* history: the blocks that were published

lists == <<blockRegs, filteredRegs, txRegs, ccRegs>>
block == <<lastBlock, skipNext, plan, number, handled>>
owners == <<status, calls>>
chans == <<unread, closed, panicked, sent>>
vars == <<want, timeout, state, starts, queue, lists, block, snap, feed, fed, owners, chans,
          joined>>

Event(type, reg, num) == [type |-> type, reg |-> reg, num |-> num]

Init ==
  /\ \E s \in Setups : want = s.want /\ timeout = s.timeout
  /\ state = "Started" /\ starts = 1 /\ queue = <<>>
  /\ blockRegs = <<>> /\ filteredRegs = <<>> /\ txRegs = {} /\ ccRegs = {}
  /\ lastBlock = NoBlock /\ skipNext = SkipFirst
  /\ plan = <<>> /\ number = MinBlock /\ handled = {}
  /\ snap = {} /\ feed \in {"Block", "FilteredBlock"} /\ fed = MinBlock
  /\ status = [r \in Regs |-> "new"] /\ calls = [r \in Regs |-> 0]
  /\ unread = [r \in Regs |-> 0] /\ closed = [r \in Regs |-> FALSE]
  /\ panicked = FALSE /\ sent = [r \in Regs |-> <<>>]
  /\ joined = [r \in Regs |-> NoBlock]

Held == Range(blockRegs) \cup Range(filteredRegs) \cup txRegs \cup ccRegs
Snapped == UNION {s.regs : s \in snap}

-----------------------------------------------------------------------------
(* The owners' side.                                                       *)

\* Submit: the state check; a send that waits for room.
Submit(type, r, n) ==
  /\ ~panicked /\ state = "Started" /\ Len(queue) < QueueCap
  /\ queue' = Append(queue, Event(type, r, n))

\* RegisterXXX; block events are permitted where full blocks are delivered.
Register(r) ==
  /\ status[r] = "new" /\ (want[r].kind = "block" => feed = "Block")
  /\ Submit("Register", r, NoBlock)
  /\ status' = [status EXCEPT ![r] = "waiting"]
  /\ UNCHANGED <<want, timeout, state, starts, lists, block, snap, feed, fed,
                 calls, chans, joined>>

Unregister(r) ==
  /\ status[r] = "registered" /\ calls[r] < want[r].unregisters
  /\ Submit("Unregister", r, NoBlock)
  /\ calls' = [calls EXCEPT ![r] = @ + 1]
  /\ UNCHANGED <<want, timeout, state, starts, lists, block, snap, feed, fed,
                 status, chans, joined>>

Stops == {"Stop", "Transfer", "StopAndTransfer"}

\* Stop, StopAndTransfer, Transfer; a snapshot is used before the next is taken.
RequestStop(type) ==
  /\ snap = {} /\ \A i \in DOMAIN queue : queue[i].type \notin Stops
  /\ Submit(type, NoReg, NoBlock)
  /\ UNCHANGED <<want, timeout, state, starts, lists, block, snap, feed, fed,
                 owners, chans, joined>>

\* The deliver service: the next block, or once more one it sent before.
Feed(n) ==
  /\ n \in MinBlock..MaxBlock /\ n <= fed
  /\ Submit(feed, NoReg, n)
  /\ fed' = IF n = fed THEN n + 1 ELSE fed
  /\ UNCHANGED <<want, timeout, state, starts, lists, block, snap, feed, owners,
                 chans, joined>>

Read(r) ==
  /\ ~panicked /\ unread[r] > 0
  /\ unread' = [unread EXCEPT ![r] = @ - 1]
  /\ UNCHANGED <<want, timeout, state, starts, queue, lists, block, snap, feed,
                 fed, owners, closed, panicked, sent, joined>>

-----------------------------------------------------------------------------
(* Handlers.                                                               *)

Handle(type) ==
  /\ ~panicked /\ state = "Started" /\ plan = <<>>
  /\ queue # <<>> /\ Head(queue).type = type
  /\ queue' = Tail(queue)

\* close(reg.Eventch) for each of rs.
CloseChans(rs) ==
  /\ closed' = [r \in Regs |-> closed[r] \/ r \in rs]
  /\ panicked' = \E r \in rs : closed[r]
  /\ UNCHANGED <<unread, sent>>

\* A map takes one registration per key.
Taken(r) == \E q \in txRegs \cup ccRegs : want[q].kind = want[r].kind /\ want[q].key = want[r].key

HandleRegister ==
  /\ Handle("Register")
  /\ LET r == Head(queue).reg
     IN  /\ blockRegs' = IF want[r].kind = "block" THEN Append(blockRegs, r)
                                              ELSE blockRegs
         /\ filteredRegs' = IF want[r].kind = "filtered" THEN Append(filteredRegs, r)
                                                    ELSE filteredRegs
         /\ txRegs' = IF want[r].kind = "tx" /\ ~Taken(r)
                      THEN {q \in txRegs : want[q].key # want[r].key} \cup {r} ELSE txRegs
         /\ ccRegs' = IF want[r].kind = "cc" /\ ~Taken(r)
                      THEN {q \in ccRegs : want[q].key # want[r].key} \cup {r} ELSE ccRegs
         /\ status' = [status EXCEPT
                        ![r] = IF Taken(r) THEN "refused" ELSE "registered"]
         /\ joined' = [joined EXCEPT ![r] = lastBlock]
  /\ UNCHANGED <<want, timeout, state, starts, block, snap, feed, fed, calls,
                 chans>>

\* Remove the i-th of a slice: the first takes its place.
\* slip: the first is cut off without taking the place
CutFirst(s, i) == Tail(s)
RemoveAt0(s, i) == Tail([s EXCEPT ![i] = s[1]])
Without(s, r) == IF \E i \in DOMAIN s : s[i] = r
                 THEN RemoveAt0(s, CHOOSE i \in DOMAIN s : s[i] = r) ELSE s

\* The registrations Unregister closes: of a slice the very one given, of a map
\* whatever is there under its key now.
\* slip: of a slice the first, moved to its place already
FoundMoved(r) ==
  LET s == IF want[r].kind = "block" THEN blockRegs ELSE filteredRegs
  IN  IF want[r].kind \in {"tx", "cc"}
      THEN {q \in txRegs \cup ccRegs : want[q].kind = want[r].kind /\ want[q].key = want[r].key}
      ELSE IF r \in Range(s) THEN {s[1]} ELSE {}
Found(r) ==
  IF want[r].kind \in {"tx", "cc"}
  THEN {q \in txRegs \cup ccRegs : want[q].kind = want[r].kind /\ want[q].key = want[r].key}
  ELSE Held \cap {r}

HandleUnregister ==
  /\ Handle("Unregister")
  /\ LET r == Head(queue).reg
     IN  /\ CloseChans(Found(r))
         /\ blockRegs' = Without(blockRegs, r)
         /\ filteredRegs' = Without(filteredRegs, r)
         /\ txRegs' = txRegs \ Found(r) /\ ccRegs' = ccRegs \ Found(r)
  /\ UNCHANGED <<want, timeout, state, starts, block, snap, feed, fed, owners,
                 joined>>

ClearRegistrations ==
  blockRegs' = <<>> /\ filteredRegs' = <<>> /\ txRegs' = {} /\ ccRegs' = {}

HandleStop ==
  /\ Handle("Stop")
  /\ state' = "Stopped" /\ CloseChans(Held) /\ ClearRegistrations
  /\ UNCHANGED <<want, timeout, starts, block, snap, feed, fed, owners, joined>>

\* newSnapshot.
Snapshot == [last |-> lastBlock, blocks |-> blockRegs,
             filtered |-> filteredRegs, regs |-> Held]

HandleTransfer ==
  /\ Handle("Transfer")
  /\ snap' = {Snapshot} /\ ClearRegistrations
  /\ UNCHANGED <<want, timeout, state, starts, block, feed, fed, owners, chans,
                 joined>>

HandleStopAndTransfer ==
  /\ Handle("StopAndTransfer")
  /\ state' = "Stopped" /\ snap' = {Snapshot} /\ ClearRegistrations
  /\ UNCHANGED <<want, timeout, starts, block, feed, fed, owners, chans,
                 joined>>

\* Whom block n is sent to, in order: block registrations whose filter accepts
\* it, filtered block registrations, and per transaction the one waiting for it
\* and, if it is valid, those for its chaincode event (in any order).
Accepting(s, n) == [i \in DOMAIN s |-> {r \in {s[i]} : n \in want[r].filter}]
Singles(s) == [i \in DOMAIN s |-> {s[i]}]
\* slip: chaincode events of transactions that did not commit, too
ReceiversOfAny(tx) ==
  <<{r \in txRegs : want[r].key = tx.id}, {r \in ccRegs : want[r].key = tx.event}>>
Receivers(tx) ==
  <<{r \in txRegs : want[r].key = tx.id},
    {r \in ccRegs : tx.valid /\ want[r].key = tx.event}>>
TxReceivers(n) ==
  [i \in 1..(2 * Len(Txs[n])) |-> Receivers(Txs[n][(i + 1) \div 2])[2 - (i % 2)]]
Rest(p) == IF \A i \in DOMAIN p : p[i] = {} THEN <<>> ELSE p
Publication(type, n) ==
  LET blocks == IF type = "Block" THEN Accepting(blockRegs, n) ELSE <<>>
  IN  Rest(blocks \o Singles(filteredRegs) \o TxReceivers(n))

\* slip: a block that is not newer is let through
NotOlder(n) == lastBlock = NoBlock \/ n >= lastBlock
Newer(n) == lastBlock = NoBlock \/ n > lastBlock

HandleBlock(type) ==
  /\ Handle(type)
  /\ LET n == Head(queue).num
         publish == Newer(n) /\ ~skipNext
     IN  /\ lastBlock' = IF Newer(n) THEN n ELSE lastBlock
         /\ skipNext' = (skipNext /\ ~Newer(n))
         /\ number' = IF publish THEN n ELSE number
         /\ plan' = IF publish THEN Publication(type, n) ELSE <<>>
         /\ handled' = IF publish THEN handled \cup {n} ELSE handled
  /\ UNCHANGED <<want, timeout, state, starts, lists, snap, feed, fed, owners,
                 chans, joined>>

\* The send to a receiver whose turn it is is over.
\* slip: the last one leaves an empty set behind
DoneLeavingRest(r) == \E i \in DOMAIN plan :
  /\ r \in plan[i] /\ \A j \in 1..(i - 1) : plan[j] = {}
  /\ plan' = [plan EXCEPT ![i] = @ \ {r}]
Done(r) == \E i \in DOMAIN plan :
  /\ r \in plan[i] /\ \A j \in 1..(i - 1) : plan[j] = {}
  /\ plan' = Rest([plan EXCEPT ![i] = @ \ {r}])

PublishTo(r) ==
  /\ ~panicked /\ Done(r)
  /\ closed[r] \/ unread[r] < ChanCap
  /\ panicked' = closed[r]
  /\ unread' = [unread EXCEPT ![r] = @ + 1]
  /\ sent' = [sent EXCEPT ![r] = Append(@, number)]
  /\ UNCHANGED <<want, timeout, state, starts, queue, lists, lastBlock,
                 skipNext, number, handled, snap, feed, fed, owners, closed,
                 joined>>

\* With a full channel: at once, after the timeout, or never.
\* slip: with a timeout, never
GiveUpAtOnce(r) ==
  /\ ~panicked /\ Done(r)
  /\ timeout = "negative" /\ ~closed[r] /\ unread[r] = ChanCap
  /\ UNCHANGED <<want, timeout, state, starts, queue, lists, lastBlock,
                 skipNext, number, handled, snap, feed, fed, owners, chans,
                 joined>>
GiveUpOn(r) ==
  /\ ~panicked /\ Done(r)
  /\ timeout # "zero" /\ ~closed[r] /\ unread[r] = ChanCap
  /\ UNCHANGED <<want, timeout, state, starts, queue, lists, lastBlock,
                 skipNext, number, handled, snap, feed, fed, owners, chans,
                 joined>>

-----------------------------------------------------------------------------
(* Snapshots.                                                              *)

\* A new dispatcher with the registrations of a snapshot, once the old one is
\* stopped (New, SetSnapshot, Start). The number of the last block is taken over
\* unless it is 0. What was left in the old queue is never answered. The new
\* deliver client asks for the last block once more and for those behind it.
StartFromSnapshot ==
  /\ ~panicked /\ state = "Stopped" /\ snap # {} /\ starts < MaxStarts
  /\ \E s \in snap :
       /\ blockRegs' = s.blocks /\ filteredRegs' = s.filtered
       /\ txRegs' = {r \in s.regs : want[r].kind = "tx"}
       /\ ccRegs' = {r \in s.regs : want[r].kind = "cc"}
       /\ lastBlock' = IF s.last = 0 THEN NoBlock ELSE s.last
       /\ fed' = IF s.last = NoBlock THEN fed ELSE s.last
  /\ state' = "Started" /\ starts' = starts + 1 /\ queue' = <<>> /\ snap' = {}
  /\ skipNext' = FALSE
  /\ UNCHANGED <<want, timeout, plan, number, handled, feed, owners, chans,
                 joined>>

CloseSnapshot ==
  /\ ~panicked /\ snap # {}
  /\ CloseChans(Snapped) /\ snap' = {}
  /\ UNCHANGED <<want, timeout, state, starts, queue, lists, block, feed, fed,
                 owners, joined>>

-----------------------------------------------------------------------------
Owner == \E r \in Regs : Register(r) \/ Unregister(r)
Control == \E type \in Stops : RequestStop(type)
Handlers ==
  \/ HandleRegister \/ HandleUnregister \/ HandleStop \/ HandleTransfer
  \/ HandleStopAndTransfer \/ HandleBlock("Block") \/ HandleBlock("FilteredBlock")
  \/ \E r \in Regs : PublishTo(r) \/ GiveUpOn(r)

Next ==
  \/ Owner \/ Control \/ Handlers \/ StartFromSnapshot \/ CloseSnapshot
  \/ \E n \in MinBlock..MaxBlock : Feed(n)
  \/ \E r \in Regs : Read(r)

Spec == Init /\ [][Next]_vars

\* The dispatcher's goroutine runs; nobody has to read, register or stop.
FairSpec == Spec /\ WF_vars(Handlers)

-----------------------------------------------------------------------------
(* Properties.                                                             *)

\* The shape of the state.
TypeOK ==
  /\ [want |-> want, timeout |-> timeout] \in Setups /\ state \in {"Started", "Stopped"}
  /\ starts \in 1..MaxStarts /\ Len(queue) <= QueueCap
  /\ {blockRegs, filteredRegs} \subseteq Seq(Regs)
  /\ txRegs \subseteq {r \in Regs : want[r].kind = "tx"}
  /\ ccRegs \subseteq {r \in Regs : want[r].kind = "cc"}
  /\ lastBlock \in Nat \cup {NoBlock} /\ skipNext \in BOOLEAN
  /\ \A i \in DOMAIN plan : plan[i] \subseteq Regs
  /\ plan # <<>> => \E i \in DOMAIN plan : plan[i] # {}
  /\ Cardinality(snap) <= 1 /\ handled \subseteq MinBlock..MaxBlock
  /\ status \in [Regs -> {"new", "waiting", "registered", "refused"}]
  /\ \A r \in Regs : calls[r] <= want[r].unregisters
  /\ \A r \in Regs : unread[r] <= ChanCap
  /\ closed \in [Regs -> BOOLEAN]

\* No consumer's channel is closed twice or sent to after it was closed, by
\* whichever of Unregister, Stop and Close of a snapshot.
ChannelsSound == ~panicked

\* A registration that was granted and not closed is in the hands of exactly one
\* holder: the dispatcher or the snapshot. None is lost in a transfer, and of
\* two with the same key only one is granted.
NothingLost == \A r \in Regs :
  status[r] = "registered" /\ ~closed[r] => (r \in Held) # (r \in Snapped)

\* Unregister closes the channel of the given registration, of no other
\* (service.go:264), as long as the dispatcher holds it. For a listener to blocks
\* that does not matter; a map has another registration under its key by then.
UnregisterSparesOthers ==
  [][\A r \in Regs : closed'[r] /\ ~closed[r] /\ snap' = snap /\ queue # <<>>
       => LET given == Head(queue).reg
          IN  /\ Head(queue).type = "Unregister"
              /\ given \in Held \/ want[given].kind \in {"block", "filtered"}
              => given = r]_vars

\* Unregister closes the channel of the given registration and of no other
\* (service.go:264), whoever holds it. The code has this of listeners to blocks only:
\* of two owners with one key the former, whose registration the dispatcher gave away
\* in a transfer, closes the channel of the latter.
UnregistersTheGiven ==
  [][\A r \in Regs : closed'[r] /\ ~closed[r] /\ snap' = snap /\ queue # <<>>
                     /\ Head(queue).type = "Unregister"
       => Head(queue).reg = r]_vars

\* Which blocks concern a registration.
Concerns(r, n) ==
  \/ want[r].kind = "block" /\ n \in want[r].filter
  \/ want[r].kind = "filtered"
  \/ want[r].kind = "tx" /\ \E i \in DOMAIN Txs[n] : Txs[n][i].id = want[r].key
  \/ want[r].kind = "cc" /\ \E i \in DOMAIN Txs[n] : Txs[n][i].valid
                                                /\ Txs[n][i].event = want[r].key

\* If the dispatcher waits for its consumers, a registration gets every block
\* published since it was made that concerns it, whatever other registrations
\* come and go and although it moves from one dispatcher to another.
NothingMissed == timeout = "zero" => \A r \in Held :
  Range(sent[r]) \cup (IF \E i \in DOMAIN plan : r \in plan[i] THEN {number}
                                                                ELSE {})
    = {n \in handled : /\ lastBlock # NoBlock /\ n <= lastBlock
                       /\ joined[r] = NoBlock \/ n > joined[r]
                       /\ Concerns(r, n)}

\* Blocks reach a listener in their order, none twice.
InOrder == \A r \in Regs : want[r].kind \in {"block", "filtered"} =>
  \A i, j \in DOMAIN sent[r] : i < j => sent[r][i] < sent[r][j]

\* Every registration has one holder, and gets what it asked for in order, on a channel that
\* is closed once.
DeliverySound == ChannelsSound /\ NothingLost /\ NothingMissed /\ InOrder

\* With a timeout a consumer that does not read keeps nobody from registering.
RegisterAnswered == \A r \in Regs :
  (status[r] = "waiting" /\ timeout # "zero")
    ~> (status[r] # "waiting" \/ state = "Stopped" \/ starts > 1 \/ panicked)

=============================================================================
