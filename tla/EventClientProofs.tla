-------------------------- MODULE EventClientProofs --------------------------
(***************************************************************************)
(* Proofs about EventClient for every number of connections, threads and   *)
(* calls, and for every combination of its options. Three invariants carry *)
(* them: IInv, of the connections and of what the dispatcher handed on;    *)
(* AInv, of the threads that connect; and RInv, of the blocks on their way *)
(* to the dispatcher. Each is inductive with what stands before it.        *)
(***************************************************************************)
EXTENDS EventClient, TLAPS

(***************************************************************************)
(* The dispatcher's invariant. It speaks of what the dispatcher and the    *)
(* connections have; where threads and the monitor are does not matter to  *)
(* it, which is the point: whatever they ask for and whenever they do, the *)
(* dispatcher keeps one connection and one order of blocks.                *)
(***************************************************************************)

\* What is queued; the event of a block has the number of a block.
QueueEvents == {e \in Events : e.type = "Block" => e.num \in Nat}

Shape ==
  /\ conn \in [Conns -> {"unused", "open", "closed"}]
  /\ connection \in Conns \cup {NoConn}
  /\ queue \in Seq(QueueEvents)
  /\ item \in [Conns -> QueueEvents]
  /\ stream \in [Conns -> Nat \cup {Newest, NoBlock}]
  /\ seekFrom \in Nat \cup {Newest}
  /\ height \in Nat
  /\ lastBlock \in Nat \cup {NoBlock}
  /\ published \in Seq(Nat)

\* What was published is not newer than the last block.
PublishedIsOld ==
  \A i \in DOMAIN published : lastBlock # NoBlock /\ published[i] <= lastBlock

IInv == Shape /\ OneOpenConnection /\ BlocksInOrder /\ PublishedIsOld

\* The variables the invariant speaks of.
spoken == <<conn, connection, queue, item, stream, seekFrom, height, lastBlock,
            published>>
received == <<item, stream, seekFrom, height, lastBlock, published>>

-----------------------------------------------------------------------------
(* The queue.                                                              *)

\* No thread posts a block.
LEMMA RequestsAreNoBlocks ==
  ASSUME NEW t, pc[t] \in DOMAIN Request
  PROVE  RequestOf(t) \in EventTypes /\ RequestOf(t) # "Block"
<1>1. DOMAIN Request = {"connectSend", "registerSend", "seekSend", "undoSend",
                        "readySend", "closeSend", "stopSend", "infoSend",
                        "listenSend", "unlistenSend", "peerSend", "forcedSend"}
  BY DEF Request
<1>2. \A p \in DOMAIN Request : Request[p] # "Block"
  BY <1>1 DEF Request
<1>3. CASE pc[t] = "stopSend" /\ op[t] = "transfer"
  BY <1>3 DEF RequestOf, EventTypes
<1>4. CASE ~(pc[t] = "stopSend" /\ op[t] = "transfer")
  BY <1>2, <1>4 DEF RequestOf, EventTypes
<1> QED
  BY <1>3, <1>4

\* Events in the queue come from it.
LEMMA HeadIsQueued ==
  ASSUME queue \in Seq(QueueEvents), queue # <<>>
  PROVE  Head(queue) \in QueueEvents /\ Tail(queue) \in Seq(QueueEvents)
OBVIOUS

\* A request that nobody waits for any more is still a request.
LEMMA TimesOutKeepsQueue ==
  ASSUME Shape, NEW t, TimesOut(t)
  PROVE  queue' \in Seq(QueueEvents) /\ height' = height
<1>1. \A i \in DOMAIN queue : queue[i] \in QueueEvents
  BY DEF Shape
<1>2. \A e \in QueueEvents : Event(e.type, Nobody, e.num) \in QueueEvents
  BY DEF QueueEvents, Event, Events
<1>3. \A i \in 1..Len(queue) : queue'[i] \in QueueEvents
  BY <1>1, <1>2 DEF TimesOut, Abandoned, Shape
<1>4. queue' = [i \in 1..Len(queue) |-> queue'[i]] /\ Len(queue) \in Nat
  BY DEF TimesOut, Abandoned, Shape
<1> QED
  BY <1>3, <1>4 DEF TimesOut

-----------------------------------------------------------------------------
(* The steps. Threads, the monitor and the ledger leave the connections    *)
(* and the blocks to the dispatcher.                                       *)

\* What the steps of the invariant's other actions change is the queue, the
\* resume position and the ledger.
Untouched == UNCHANGED <<conn, connection, item, stream, lastBlock, published>>

\* A thread posts requests, gives up on them, or sets the resume position.
LEMMA ThreadStep ==
  ASSUME IInv, NEW t \in Threads,
         Thread(t) \/ Calling(t) \/ ShouldDisconnect(t)
  PROVE  Shape' /\ Untouched
<1> DEFINE Goal == Shape' /\ Untouched
<1> USE DEF client, calls, disp, mons, conns, env, Untouched
<1>1. Shape
  BY DEF IInv
<1>2. ASSUME Send(t) PROVE Goal
  <2> DEFINE e == Event(RequestOf(t),
                        IF pc[t] \in DOMAIN WaitsAt THEN t ELSE Nobody,
                        IF pc[t] = "seekSend" THEN seekFrom ELSE NoBlock)
  <2>1. RequestOf(t) \in EventTypes /\ RequestOf(t) # "Block"
    BY <1>2, RequestsAreNoBlocks DEF Send
  <2>2. e \in QueueEvents
    BY <1>1, <2>1 DEF QueueEvents, Events, Event, Shape
  <2>3. queue' = Append(queue, e)
    BY <1>2 DEF Send
  <2>4. queue' \in Seq(QueueEvents)
    BY <1>1, <2>2, <2>3 DEF Shape
  <2> HIDE DEF e
  <2> QED
    BY <1>1, <1>2, <2>4 DEF Send, Shape
<1>3. ASSUME SeekReply(t) PROVE Goal
  BY <1>1, <1>3, TimesOutKeepsQueue DEF SeekReply, Shape
<1>4. ASSUME UndoReply(t) PROVE Goal
  BY <1>1, <1>4, TimesOutKeepsQueue DEF UndoReply, Shape
<1>5. ASSUME StopReply(t) PROVE Goal
  BY <1>1, <1>5, TimesOutKeepsQueue DEF StopReply, Shape
<1>6. ASSUME Reconnect(t) PROVE Goal
  <2>1. seekFrom' \in Nat \cup {Newest}
    BY <1>1, <1>6 DEF Reconnect, Shape
  <2> QED
    BY <1>1, <1>6, <2>1 DEF Reconnect, Shape
<1>7. ASSUME UNCHANGED spoken PROVE Goal
  BY <1>1, <1>7 DEF spoken, Shape
<1>8. ASSUME \/ CheckStopped(t) \/ StartConnecting(t) \/ ConnectReply(t)
             \/ RegisterOnce(t) \/ RegisterReply(t) \/ StartSeek(t)
             \/ StartUndo(t) \/ SetConnected(t) \/ GiveUp(t)
      PROVE  UNCHANGED spoken
  BY <1>8 DEF CheckStopped, StartConnecting, ConnectReply, RegisterOnce,
              RegisterReply, StartSeek, StartUndo, SetConnected, GiveUp, spoken
<1>9. ASSUME \/ StartClose(t) \/ CloseReply(t) \/ StartRequest(t) \/ InfoReply(t)
             \/ RegisterEventReply(t) \/ PeerMonitorStops(t) \/ PeerReply(t)
      PROVE  UNCHANGED spoken
  BY <1>9 DEF StartClose, CloseReply, StartRequest, InfoReply,
              RegisterEventReply, PeerMonitorStops, PeerReply, spoken
<1>10. ASSUME Calling(t) \/ ShouldDisconnect(t) PROVE UNCHANGED spoken
  BY <1>10 DEF Calling, CallConnect, CallClose, CallTransfer, CallCloseIfIdle,
               CallRegister, CallUnregister, Call, ShouldDisconnect, spoken
<1> QED
  BY <1>2, <1>3, <1>4, <1>5, <1>6, <1>7, <1>8, <1>9, <1>10
  DEF Thread, Connecting, Closing

\* The monitor changes neither, nor does the growth of the ledger.
LEMMA MonitorStep ==
  ASSUME IInv, Monitor \/ Grow
  PROVE  Shape' /\ Untouched
<1> USE DEF client, calls, disp, mons, conns, env, Untouched, IInv, Shape
<1>1. CASE MonitorReceives
  BY <1>1 DEF MonitorReceives
<1>2. CASE MonitorNotifies
  BY <1>2 DEF MonitorNotifies
<1>3. CASE MonitorGivesUp
  BY <1>3 DEF MonitorGivesUp
<1>4. CASE Grow
  BY <1>4 DEF Grow
<1> QED
  BY <1>1, <1>2, <1>3, <1>4 DEF Monitor

\* The Receive goroutines and the peers: what they post is a block with a
\* number, or no block.
LEMMA ReceiveStep ==
  ASSUME IInv, NEW c \in Conns, Receive(c) \/ StreamFails(c) \/ StreamEOF(c)
  PROVE  Shape' /\ UNCHANGED <<conn, connection, lastBlock, published>>
<1> USE DEF client, calls, disp, mons, conns, env, IInv, Shape
<1>1. ASSUME NEW type \in EventTypes \ {"Block"}
      PROVE  Event(type, Nobody, NoBlock) \in QueueEvents
  BY DEF QueueEvents, Events, Event
<1>2. {"none", "Disconnected", "Status", "StatusFatal", "Block"} \subseteq EventTypes
  <2>1. Request.forcedSend = "Disconnected" /\ "forcedSend" \in DOMAIN Request
    BY DEF Request
  <2> QED
    BY <2>1 DEF EventTypes
<1>3. CASE StreamDelivers(c)
  <2> DEFINE n == IF stream[c] = Newest THEN height ELSE stream[c]
  <2>1. n \in Nat
    BY <1>3 DEF StreamDelivers
  <2>2. Event("Block", Nobody, n) \in QueueEvents
    BY <1>2, <2>1 DEF QueueEvents, Events, Event
  <2>3. /\ stream' = [stream EXCEPT ![c] = n + 1]
        /\ item' = [item EXCEPT ![c] = Event("Block", Nobody, n)]
    BY <1>3 DEF StreamDelivers
  <2>4. n + 1 \in Nat
    BY <2>1
  <2> HIDE DEF n
  <2>5. stream' \in [Conns -> Nat \cup {Newest, NoBlock}] /\ item' \in [Conns -> QueueEvents]
    BY <2>2, <2>3, <2>4
  <2> QED
    BY <1>3, <2>5 DEF StreamDelivers
<1>4. CASE StreamFails(c)
  <2>1. PICK type \in {"Disconnected", "Status", "StatusFatal"} :
          item' = [item EXCEPT ![c] = Event(type, Nobody, NoBlock)]
    BY <1>4 DEF StreamFails
  <2>2. Event(type, Nobody, NoBlock) \in QueueEvents
    BY <1>1, <1>2
  <2>3. item' \in [Conns -> QueueEvents]
    BY <2>1, <2>2
  <2> QED
    BY <1>4, <2>3 DEF StreamFails
<1>5. CASE StreamEOF(c)
  BY <1>5 DEF StreamEOF
<1>6. CASE ReceiveEnds(c)
  BY <1>6 DEF ReceiveEnds
<1>7. CASE Post(c)
  <2>1. Event("none", Nobody, NoBlock) \in QueueEvents
    BY <1>1, <1>2
  <2>2. queue' \in Seq(QueueEvents) /\ item' \in [Conns -> QueueEvents]
    BY <1>7, <2>1 DEF Post
  <2> QED
    BY <1>7, <2>2 DEF Post
<1> QED
  BY <1>3, <1>4, <1>5, <1>6, <1>7 DEF Receive

-----------------------------------------------------------------------------
(* The dispatcher.                                                         *)

\* A handler takes the first event.
LEMMA HandleTakes ==
  ASSUME Shape, NEW type, Handle(type)
  PROVE  Head(queue) \in QueueEvents /\ Head(queue).type = type
         /\ queue' \in Seq(QueueEvents)
BY HeadIsQueued DEF Handle, Shape

\* Closing the connection leaves no other one open.
LEMMA CloseConnStep ==
  ASSUME Shape, OneOpenConnection, CloseConn, connection' = NoConn
  PROVE  /\ conn' \in [Conns -> {"unused", "open", "closed"}]
         /\ OneOpenConnection'
BY ConstantsAssumption DEF Shape, OneOpenConnection, CloseConn

\* A handler keeps the shape and leaves the dispatcher with one connection.
LEMMA DispatcherStep ==
  ASSUME IInv, Dispatcher
  PROVE  Shape' /\ OneOpenConnection'
<1> DEFINE Goal == Shape' /\ OneOpenConnection'
<1> USE DEF client, calls, disp, mons, conns, env, IInv
<1>1. CASE HandleConnectEvent
  <2>1. queue' \in Seq(QueueEvents)
    BY <1>1, HandleTakes DEF HandleConnectEvent
  <2>2. CASE UNCHANGED <<connection, conn>>
    BY <1>1, <2>1, <2>2 DEF HandleConnectEvent, Shape, OneOpenConnection
  <2>3. CASE /\ connection = NoConn
             /\ \E c \in Conns : conn[c] = "unused"
             /\ connection' = CHOOSE c \in Conns : conn[c] = "unused"
             /\ conn' = [conn EXCEPT ![connection'] = "open"]
    <3>1. connection' \in Conns
      BY <2>3
    <3>2. \A c \in Conns : conn[c] # "open"
      BY <2>3, ConstantsAssumption DEF OneOpenConnection
    <3>3. /\ conn' \in [Conns -> {"unused", "open", "closed"}]
          /\ \A c \in Conns : conn'[c] = "open" => c = connection'
      BY <2>3, <3>1, <3>2 DEF Shape
    <3> QED
      BY <1>1, <2>1, <3>1, <3>3 DEF HandleConnectEvent, Shape, OneOpenConnection
  <2> QED
    BY <1>1, <2>2, <2>3 DEF HandleConnectEvent
<1>2. ASSUME CloseConn, connection' = NoConn, queue' \in Seq(QueueEvents),
             UNCHANGED <<item, stream, seekFrom, height, lastBlock, published>>
      PROVE  Goal
  BY <1>2, CloseConnStep DEF Shape
<1>3. CASE HandleDisconnectEvent
  <2>1. queue' \in Seq(QueueEvents)
    BY <1>3, HandleTakes DEF HandleDisconnectEvent
  <2> QED
    BY <1>2, <1>3, <2>1 DEF HandleDisconnectEvent
<1>4. CASE HandleDisconnectedEvent
  <2>1. queue' \in Seq(QueueEvents)
    BY <1>4, HandleTakes DEF HandleDisconnectedEvent
  <2> QED
    BY <1>2, <1>4, <2>1 DEF HandleDisconnectedEvent, StopPeerMonitor, Tell
<1>5. ASSUME NEW type, NEW e, HandleDeliverStatus(type, e) PROVE Goal
  <2>1. queue' \in Seq(QueueEvents)
    BY <1>5, HandleTakes DEF HandleDeliverStatus
  <2> QED
    BY <1>2, <1>5, <2>1 DEF HandleDeliverStatus, StopPeerMonitor, Tell
<1>6. CASE HandleSeekEvent
  <2>1. Head(queue) \in QueueEvents /\ queue' \in Seq(QueueEvents)
    BY <1>6, HandleTakes DEF HandleSeekEvent
  <2>2. Head(queue).num \in Nat \cup {Newest, NoBlock}
    BY <2>1 DEF QueueEvents, Events
  <2>3. stream' \in [Conns -> Nat \cup {Newest, NoBlock}]
    BY <1>6, <2>2 DEF HandleSeekEvent, Shape
  <2> QED
    BY <1>6, <2>1, <2>3 DEF HandleSeekEvent, Shape, OneOpenConnection
<1>7. CASE HandleBlock
  <2>1. /\ Head(queue) \in QueueEvents /\ Head(queue).type = "Block"
        /\ queue' \in Seq(QueueEvents)
    BY <1>7, HandleTakes DEF HandleBlock
  <2>2. Head(queue).num \in Nat
    BY <2>1 DEF QueueEvents
  <2>3. lastBlock' \in Nat \cup {NoBlock} /\ published' \in Seq(Nat)
    BY <1>7, <2>2 DEF HandleBlock, Shape
  <2> QED
    BY <1>7, <2>1, <2>3 DEF HandleBlock, Shape, OneOpenConnection
<1>8. ASSUME queue' \in Seq(QueueEvents), UNCHANGED <<conn, connection, received>>
      PROVE  Goal
  BY <1>8 DEF Shape, OneOpenConnection, received
<1>9. CASE HandleConnectedEvent \/ HandleRegisterConnectionEvent
  <2>1. queue' \in Seq(QueueEvents)
    BY <1>9, HandleTakes DEF HandleConnectedEvent, HandleRegisterConnectionEvent
  <2> QED
    BY <1>8, <1>9, <2>1
    DEF HandleConnectedEvent, HandleRegisterConnectionEvent, received
<1>10. CASE HandleStopEvent \/ HandleStopAndTransferEvent
  <2>1. queue' \in Seq(QueueEvents)
    BY <1>10, HandleTakes DEF HandleStopEvent, HandleStopAndTransferEvent
  <2> QED
    BY <1>8, <1>10, <2>1 DEF HandleStopEvent, HandleStopAndTransferEvent, received
<1>11. CASE HandleRegistrations
  <2>1. queue' \in Seq(QueueEvents)
    BY <1>11, HandleTakes DEF HandleRegistrations
  <2> QED
    BY <1>8, <1>11, <2>1 DEF HandleRegistrations, received
<1> QED
  BY <1>1, <1>3, <1>4, <1>5, <1>6, <1>7, <1>9, <1>10, <1>11 DEF Dispatcher

\* Only a newer block is published, and it becomes the last block.
LEMMA BlockStep ==
  ASSUME IInv, Dispatcher
  PROVE  BlocksInOrder' /\ PublishedIsOld'
<1> USE DEF client, calls, disp, mons, conns, env, IInv
<1>1. CASE HandleBlock
  <2> DEFINE n == Head(queue).num
  <2>1. Head(queue) \in QueueEvents /\ Head(queue).type = "Block"
    BY <1>1, HandleTakes DEF HandleBlock
  <2>2. n \in Nat /\ n # NoBlock
    BY <2>1, ConstantsAssumption DEF QueueEvents
  <2>3. /\ lastBlock' = IF Newer(n) THEN n ELSE lastBlock
        /\ published' = IF Newer(n) /\ ~skipNext THEN Append(published, n)
                                                 ELSE published
    BY <1>1 DEF HandleBlock
  <2> HIDE DEF n
  <2>4. CASE ~Newer(n)
    BY <2>3, <2>4 DEF BlocksInOrder, PublishedIsOld
  <2>5. CASE Newer(n)
    <3>1. \A i \in DOMAIN published : published[i] < n
      BY <2>2, <2>5 DEF PublishedIsOld, Newer, Shape
    <3>2. CASE published' = published
      <4>1. \A i \in DOMAIN published : published[i] <= n
        BY <2>2, <3>1 DEF Shape
      <4> QED
        BY <2>2, <2>3, <2>5, <3>2, <4>1 DEF BlocksInOrder, PublishedIsOld
    <3>3. CASE published' = Append(published, n)
      <4>1. /\ DOMAIN published' = 1..Len(published) + 1
            /\ \A i \in 1..Len(published) : published'[i] = published[i]
            /\ published'[Len(published) + 1] = n
            /\ DOMAIN published = 1..Len(published) /\ Len(published) \in Nat
        BY <2>2, <3>3 DEF Shape
      <4>2. BlocksInOrder'
        BY <3>1, <4>1 DEF BlocksInOrder
      <4>3. \A i \in DOMAIN published' : published'[i] <= n
        BY <2>2, <3>1, <4>1 DEF Shape
      <4> QED
        BY <2>2, <2>3, <2>5, <4>2, <4>3 DEF PublishedIsOld
    <3> QED
      BY <2>3, <3>2, <3>3
  <2> QED
    BY <2>4, <2>5
<1>2. CASE UNCHANGED <<lastBlock, published>>
  BY <1>2 DEF BlocksInOrder, PublishedIsOld
<1> QED
  BY <1>1, <1>2
  DEF Dispatcher, HandleConnectEvent, HandleDisconnectEvent,
      HandleConnectedEvent, HandleRegisterConnectionEvent,
      HandleDisconnectedEvent, HandleDeliverStatus, HandleStopEvent,
      HandleStopAndTransferEvent, HandleRegistrations, HandleSeekEvent

-----------------------------------------------------------------------------
(* The shape of the state.                                                 *)

\* The places of a thread, by name.
LEMMA PlacesAre ==
  /\ DOMAIN Request = {"connectSend", "registerSend", "seekSend", "undoSend",
       "readySend", "closeSend", "stopSend", "infoSend", "listenSend",
       "unlistenSend", "peerSend", "forcedSend"}
  /\ DOMAIN WaitsAt = {"connectSend", "registerSend", "seekSend", "undoSend",
       "closeSend", "stopSend", "infoSend", "listenSend", "peerSend"}
  /\ Places = {"idle", "check", "cas", "register", "seek", "undo", "connected",
       "reconnect", "giveUp", "close", "info", "listen", "unlisten", "peer"}
       \cup DOMAIN Request
       \cup {"connectWait", "registerWait", "seekWait", "undoWait", "closeWait",
             "stopWait", "infoWait", "listenWait", "peerWait"}
<1>1. DOMAIN Request = {"connectSend", "registerSend", "seekSend", "undoSend",
       "readySend", "closeSend", "stopSend", "infoSend", "listenSend",
       "unlistenSend", "peerSend", "forcedSend"}
  BY DEF Request
<1>2. DOMAIN WaitsAt = {"connectSend", "registerSend", "seekSend", "undoSend",
       "closeSend", "stopSend", "infoSend", "listenSend", "peerSend"}
  BY DEF WaitsAt
<1>3. {WaitsAt[p] : p \in DOMAIN WaitsAt} =
        {"connectWait", "registerWait", "seekWait", "undoWait", "closeWait",
         "stopWait", "infoWait", "listenWait", "peerWait"}
  BY <1>2 DEF WaitsAt
<1> QED
  BY <1>1, <1>2, <1>3 DEF Places

\* A thread's step moves that thread alone.
Moves(t) == \E p \in Places : pc' = [pc EXCEPT ![t] = p]
Ops == {"none", "reconnect", "peer", "connect"} \cup AppCalls

\* A send leads to the wait for the reply or to the end of the call.
LEMMA SendMoves ==
  ASSUME NEW t \in Threads, pc \in [Threads -> Places], op \in [Threads -> Ops], Send(t)
  PROVE  Moves(t) /\ op' \in [Threads -> Ops]
<1>1. \A p \in DOMAIN WaitsAt : WaitsAt[p] \in Places
  BY DEF Places
<1>2. "idle" \in Places
  BY PlacesAre
<1> QED
  BY <1>1, <1>2 DEF Send, Goto, Ended, Moves, Ops

\* A step of connect() or of a reconnect leads to another of its places.
LEMMA ConnectingMoves ==
  ASSUME NEW t \in Threads, pc \in [Threads -> Places], op \in [Threads -> Ops],
         Connecting(t)
  PROVE  Moves(t) /\ op' \in [Threads -> Ops]
<1> USE PlacesAre DEF Goto, Ended, Moves, Ops
<1> QED
  BY DEF Connecting, CheckStopped, StartConnecting, ConnectReply, RegisterOnce,
         RegisterReply, StartSeek, StartUndo, SetConnected, GiveUp, UndoReply,
         SeekReply, Reconnect, SubmitOrEnd, AttemptFails

\* So does a step of Close, of the other requests and of the peer monitor.
LEMMA ClosingMoves ==
  ASSUME NEW t \in Threads, pc \in [Threads -> Places], op \in [Threads -> Ops],
         Closing(t) \/ PeerMonitorStops(t) \/ PeerReply(t) \/ ShouldDisconnect(t)
  PROVE  Moves(t) /\ op' \in [Threads -> Ops]
<1> USE PlacesAre DEF Goto, Ended, Moves, Ops
<1> QED BY DEF Closing, StartClose, CloseReply, StartRequest, InfoReply, StopReply,
              RegisterEventReply, PeerMonitorStops, PeerReply, SubmitOrEnd, ShouldDisconnect, calls

\* A call leads to its first place.
LEMMA CallMoves ==
  ASSUME NEW t \in Threads, pc \in [Threads -> Places], op \in [Threads -> Ops],
         Calling(t)
  PROVE  Moves(t) /\ op' \in [Threads -> Ops]
<1> USE PlacesAre DEF Goto, Ended, Moves, Ops
<1> QED BY DEF Calling, Call, CallConnect, CallClose, CallTransfer, CallCloseIfIdle,
               CallRegister, CallUnregister, AppCalls

\* Whatever a thread does, it is at one of its places afterwards.
LEMMA ThreadMoves ==
  ASSUME TypeOK, NEW t \in Threads, Thread(t) \/ ShouldDisconnect(t) \/ Calling(t)
  PROVE  Moves(t)
BY ConnectingMoves, ClosingMoves, SendMoves, CallMoves DEF Thread, TypeOK, Ops

\* A goroutine that is spawned was nobody's.
LEMMA SpawnMoves ==
  ASSUME pc \in [Threads -> Places], op \in [Threads -> Ops],
         NEW o \in Ops, NEW p \in Places, Spawn(o, p)
  PROVE  /\ Free \in Idle /\ Idle \subseteq Threads
         /\ pc' = [pc EXCEPT ![Free] = p]
         /\ pc' \in [Threads -> Places] /\ op' \in [Threads -> Ops]
BY DEF Spawn, Free, Idle

\* Of what the dispatcher and the connections have, a thread changes the queue
\* by a request that it posts or gives up on, and, when it reconnects, the
\* position to resume at.
LEMMA ThreadFrame ==
  ASSUME NEW t \in Threads, Thread(t) \/ ShouldDisconnect(t) \/ Calling(t)
  PROVE  /\ UNCHANGED <<lastBlock, height, stream, item, recv, conn, skipNext,
                        published>>
         /\ Reconnect(t) \/ UNCHANGED seekFrom
         /\ TimesOut(t) \/ Send(t) \/ UNCHANGED queue
BY DEF Thread, Connecting, Closing, Send, CheckStopped, StartConnecting,
       ConnectReply, RegisterOnce, RegisterReply, StartSeek, SeekReply, StartUndo,
       UndoReply, SetConnected, Reconnect, GiveUp, StartClose, CloseReply,
       StopReply, StartRequest, InfoReply, RegisterEventReply, PeerMonitorStops,
       PeerReply, ShouldDisconnect, TimesOut, Calling, CallConnect, CallClose,
       CallTransfer, CallCloseIfIdle, CallRegister, CallUnregister, Call,
       client, calls, disp, conns, env

\* A handler takes one event, and leaves to the others what is theirs.
LEMMA HandlerFrame ==
  ASSUME Dispatcher
  PROVE  /\ queue # <<>> /\ queue' = Tail(queue)
         /\ UNCHANGED <<todo, stopped, connState, item, height, seekFrom>>
         /\ UNCHANGED pc \/ Spawn("peer", "peer")
<1> USE DEF client, calls, disp, conns, env
<1>1. queue # <<>> /\ queue' = Tail(queue)
  BY DEF Dispatcher, Handle, HandleConnectEvent, HandleDisconnectEvent,
         HandleConnectedEvent, HandleRegisterConnectionEvent,
         HandleDisconnectedEvent, HandleDeliverStatus, HandleStopEvent,
         HandleStopAndTransferEvent, HandleRegistrations, HandleSeekEvent,
         HandleBlock
<1>2. UNCHANGED <<todo, stopped, connState, item, height, seekFrom>>
  BY DEF Dispatcher, HandleConnectEvent, HandleDisconnectEvent,
         HandleConnectedEvent, HandleRegisterConnectionEvent,
         HandleDisconnectedEvent, HandleDeliverStatus, HandleStopEvent,
         HandleStopAndTransferEvent, HandleRegistrations, HandleSeekEvent,
         HandleBlock
<1>3. UNCHANGED pc \/ Spawn("peer", "peer")
  BY DEF Dispatcher, HandleConnectEvent, HandleDisconnectEvent,
         HandleConnectedEvent, HandleRegisterConnectionEvent,
         HandleDisconnectedEvent, HandleDeliverStatus, HandleStopEvent,
         HandleStopAndTransferEvent, HandleRegistrations, HandleSeekEvent,
         HandleBlock
<1> QED
  BY <1>1, <1>2, <1>3

\* Giving up on a request takes nothing from the queue.
LEMMA TimesOutKeepsEvents ==
  ASSUME TypeOK, NEW t, TimesOut(t)
  PROVE  queue' \in Seq(Events) /\ Len(queue') <= QueueCap /\ faults' \in 0..MaxFaults
         /\ reply' = reply /\ height' = height
<1>1. /\ \A i \in 1..Len(queue) : queue[i] \in Events
      /\ Len(queue) \in Nat /\ Len(queue) <= QueueCap
  BY DEF TypeOK
<1>2. \A e \in Events : Event(e.type, Nobody, e.num) \in Events
  BY DEF Event, Events
<1>3. queue' = [i \in 1..Len(queue) |-> queue'[i]]
      /\ \A i \in 1..Len(queue) : queue'[i] \in Events
  BY <1>1, <1>2 DEF TimesOut, Abandoned, TypeOK
<1>4. queue' \in Seq(Events) /\ Len(queue') = Len(queue)
  BY <1>1, <1>3
<1>5. faults' \in 0..MaxFaults
  BY ConstantsAssumption DEF TimesOut, TypeOK
<1> QED
  BY <1>1, <1>4, <1>5 DEF TimesOut

\* Connecting keeps the shape of the state.
LEMMA ConnectingTypes ==
  ASSUME TypeOK, NEW t \in Threads, Connecting(t)
  PROVE  TypeOK'
<1>1. Moves(t) /\ op' \in [Threads -> Ops]
  BY ConnectingMoves DEF TypeOK, Ops
<1>2. pc' \in [Threads -> Places]
  BY <1>1 DEF Moves, TypeOK
<1> USE <1>1, <1>2 DEF client, disp, mons, conns, env, Ops
<1>3. CASE SeekReply(t) \/ UndoReply(t)
  <2>1. queue' \in Seq(Events) /\ Len(queue') <= QueueCap
        /\ faults' \in 0..MaxFaults /\ height' = height
        /\ reply' \in [Threads -> {"none", "ok", "err"}]
    BY <1>3, TimesOutKeepsEvents DEF SeekReply, UndoReply, Replied, TypeOK
  <2>2. CASE SeekReply(t)
    BY <2>1, <2>2 DEF SeekReply, TypeOK
  <2>3. CASE UndoReply(t)
    BY <2>1, <2>3 DEF UndoReply, LeaveConnecting, TypeOK
  <2> QED
    BY <1>3, <2>2, <2>3
<1>4. CASE Reconnect(t)
  BY <1>4 DEF Reconnect, TypeOK
<1>5. CASE \/ CheckStopped(t) \/ StartConnecting(t) \/ StartSeek(t)
           \/ StartUndo(t) \/ SetConnected(t) \/ GiveUp(t)
  BY <1>5 DEF CheckStopped, StartConnecting, StartSeek, StartUndo, SetConnected,
     GiveUp, TypeOK
<1>6. CASE ConnectReply(t)
  <2>1. /\ reply' \in [Threads -> {"none", "ok", "err"}]
        /\ connState' \in {"Disconnected", "Connecting", "Connected"}
    BY <1>6 DEF ConnectReply, Replied, TypeOK
  <2> QED
    BY <1>6, <2>1 DEF ConnectReply, TypeOK
<1>7. CASE RegisterOnce(t) \/ RegisterReply(t)
  BY <1>7 DEF RegisterOnce, RegisterReply, Replied, TypeOK
<1> QED
  BY <1>3, <1>4, <1>5, <1>6, <1>7 DEF Connecting

\* The other calls keep the shape of the state.
LEMMA ClosingTypes ==
  ASSUME TypeOK, NEW t \in Threads, 
    Closing(t) \/ PeerMonitorStops(t) \/ PeerReply(t) \/ ShouldDisconnect(t) \/ Calling(t)
  PROVE  TypeOK'
<1>1. Moves(t) /\ op' \in [Threads -> Ops]
  BY ClosingMoves, CallMoves DEF TypeOK, Ops
<1>2. pc' \in [Threads -> Places]
  BY <1>1 DEF Moves, TypeOK
<1> USE <1>1, <1>2 DEF client, disp, mons, conns, env, Ops, calls
<1>3. CASE StopReply(t)
  <2>1. queue' \in Seq(Events) /\ Len(queue') <= QueueCap
        /\ faults' \in 0..MaxFaults /\ height' = height
        /\ reply' \in [Threads -> {"none", "ok", "err"}]
    BY <1>3, TimesOutKeepsEvents DEF StopReply, Replied, TypeOK
  <2> QED
    BY <2>1, <1>3 DEF StopReply, TypeOK
<1>4. CASE ShouldDisconnect(t)
  BY <1>4, ConstantsAssumption DEF ShouldDisconnect, TypeOK
<1>5. CASE StartClose(t)
  <2>1. stopped' \in BOOLEAN /\ userChan' \in {"none", "open", "closed"}
    BY <1>5 DEF StartClose, TypeOK
  <2> QED
    BY <1>5, <2>1 DEF StartClose, TypeOK
<1>6. CASE CloseReply(t)
  BY <1>6 DEF CloseReply, Replied, TypeOK
<1>7. CASE StartRequest(t) \/ PeerMonitorStops(t)
  BY <1>7 DEF StartRequest, PeerMonitorStops, TypeOK
<1>8. CASE InfoReply(t) \/ RegisterEventReply(t) \/ PeerReply(t)
  BY <1>8 DEF InfoReply, RegisterEventReply, PeerReply, Replied, TypeOK
<1>9. CASE Calling(t)
  BY <1>9 DEF Calling, Call, CallConnect, CallClose, CallTransfer, CallCloseIfIdle,
               CallRegister, CallUnregister, TypeOK
<1> QED
  BY <1>3, <1>4, <1>5, <1>6, <1>9, <1>7, <1>8 DEF Closing

\* Sending a request keeps the shape of the state.
LEMMA SendTypes ==
  ASSUME TypeOK, NEW t \in Threads, Send(t)
  PROVE  TypeOK'
<1>1. Moves(t) /\ op' \in [Threads -> Ops]
  BY SendMoves DEF TypeOK, Ops
<1>2. pc' \in [Threads -> Places]
  BY <1>1 DEF Moves, TypeOK
<1> DEFINE e == Event(RequestOf(t), IF pc[t] \in DOMAIN WaitsAt THEN t ELSE Nobody,
                      IF pc[t] = "seekSend" THEN seekFrom ELSE NoBlock)
<1>3. e \in Events
  BY RequestsAreNoBlocks DEF Send, Events, Event, TypeOK
<1>4. queue' = Append(queue, e) /\ Len(queue) < QueueCap
  BY DEF Send
<1> HIDE DEF e
<1>5. queue' \in Seq(Events) /\ Len(queue') <= QueueCap
  BY <1>3, <1>4, ConstantsAssumption DEF TypeOK
<1> QED
  BY <1>1, <1>2, <1>5 DEF Send, TypeOK, Ops, client, disp, mons, conns, env

\* The monitor and the ledger keep the shape of the state.
LEMMA MonitorTypes ==
  ASSUME TypeOK, Monitor \/ Grow
  PROVE  TypeOK'
<1> USE DEF client, calls, disp, mons, conns, env
<1>1. CASE MonitorReceives
  <2>1. connEvents # <<>> =>
          /\ Head(connEvents) \in {"connected", "lost", "fatal"}
          /\ Tail(connEvents) \in Seq({"connected", "lost", "fatal"})
          /\ Len(Tail(connEvents)) <= QueueCap
    BY ConstantsAssumption DEF TypeOK
  <2>2. CASE connEvents = <<>>
    BY <1>1, <2>2 DEF MonitorReceives, TypeOK
  <2>3. CASE connEvents # <<>>
    <3>1. /\ mon' \in {"off", "range", "notify", "second"}
          /\ monEvent' \in {"none", "connected", "lost", "fatal"}
          /\ connEvents' \in Seq({"connected", "lost", "fatal"})
          /\ Len(connEvents') <= QueueCap
      BY <1>1, <2>1, <2>3 DEF MonitorReceives, TypeOK
    <3> QED
      BY <1>1, <3>1 DEF MonitorReceives, TypeOK
  <2> QED
    BY <2>2, <2>3
<1>2. CASE MonitorNotifies
  <2>1. pc' \in [Threads -> Places] /\ op' \in [Threads -> Ops]
    BY <1>2, SpawnMoves, PlacesAre DEF MonitorNotifies, TypeOK, Ops, AppCalls
  <2>2. panicked' \in BOOLEAN /\ mon' \in {"off", "range", "notify", "second"}
        /\ connState' \in {"Disconnected", "Connecting", "Connected"}
    BY <1>2 DEF MonitorNotifies, TypeOK
  <2> QED
    BY <1>2, <2>1, <2>2 DEF MonitorNotifies, TypeOK, Ops
<1>3. CASE MonitorGivesUp
  BY <1>3 DEF MonitorGivesUp, LeaveConnecting, TypeOK
<1>4. CASE Grow
  BY <1>4 DEF Grow, TypeOK
<1> QED
  BY <1>1, <1>2, <1>3, <1>4 DEF Monitor

\* The Receive goroutines and the peers keep the shape of the state.
LEMMA ReceiveTypes ==
  ASSUME TypeOK, IInv, NEW c \in Conns, Receive(c) \/ StreamFails(c) \/ StreamEOF(c)
  PROVE  TypeOK'
<1> USE DEF client, calls, disp, mons, conns, env
<1>1. Shape' => /\ stream' \in [Conns -> Nat \cup {Newest, NoBlock}]
                /\ height' \in Nat /\ queue' \in Seq(Events)
                /\ item' \in [Conns -> Events]
  BY DEF Shape, QueueEvents
<1>2. stream' \in [Conns -> Nat \cup {Newest, NoBlock}] /\ height' \in Nat
      /\ item' \in [Conns -> Events] /\ queue' \in Seq(Events) /\ conn' = conn
  BY <1>1, ReceiveStep
<1>3. recv' \in [Conns -> {"off", "recv", "post"}]
  BY DEF Receive, StreamDelivers, ReceiveEnds, Post, StreamFails, StreamEOF, TypeOK
<1>4. Len(queue') <= QueueCap
  BY ConstantsAssumption DEF Receive, StreamDelivers, ReceiveEnds, Post,
     StreamFails, StreamEOF, TypeOK
<1>5. faults' \in 0..MaxFaults
  BY ConstantsAssumption DEF Receive, StreamDelivers, ReceiveEnds, Post,
     StreamFails, StreamEOF, TypeOK
<1> QED
  BY <1>2, <1>3, <1>4, <1>5 DEF Receive, StreamDelivers, ReceiveEnds, Post,
     StreamFails, StreamEOF, TypeOK

\* What a handler leaves in the connection event channel fits into it.
LEMMA TellTypes ==
  ASSUME TypeOK, NEW e \in {"connected", "lost", "fatal"}, Tell(e)
  PROVE  connEvents' \in Seq({"connected", "lost", "fatal"}) /\ Len(connEvents') <= QueueCap
BY ConstantsAssumption DEF Tell, TypeOK

\* What a handler answers is a reply.
LEMMA AnswerTypes ==
  ASSUME TypeOK, NEW type, Handle(type), NEW v \in {"ok", "err"}, Answer(v)
  PROVE  reply' \in [Threads -> {"none", "ok", "err"}]
<1>1. Head(queue) \in Events
  BY DEF Handle, TypeOK
<1> QED
  BY <1>1 DEF Answer, Events, TypeOK

\* The handlers keep the shape of the state.
LEMMA DispatcherTypes ==
  ASSUME TypeOK, IInv, Dispatcher
  PROVE  TypeOK'
<1> USE DEF client, calls, disp, mons, conns, env
<1>1. Shape'
  BY DispatcherStep
<1>2. queue # <<>> /\ queue' = Tail(queue)
  BY HandlerFrame
<1>3. Len(queue') <= QueueCap
  BY <1>2, ConstantsAssumption DEF TypeOK
<1>4. Shape' => /\ conn' \in [Conns -> {"unused", "open", "closed"}]
      /\ connection' \in Conns \cup {NoConn} /\ queue' \in Seq(Events)
      /\ item' \in [Conns -> Events] /\ stream' \in [Conns -> Nat \cup {Newest, NoBlock}]
      /\ seekFrom' \in Nat \cup {Newest} /\ height' \in Nat
      /\ lastBlock' \in Nat \cup {NoBlock} /\ published' \in Seq(Nat)
  BY DEF Shape, QueueEvents
<1> USE <1>1, <1>3, <1>4
<1>5. CASE HandleConnectEvent
  <2>1. reply' \in [Threads -> {"none", "ok", "err"}]
    BY <1>5, AnswerTypes DEF HandleConnectEvent
  <2>2. recv' \in [Conns -> {"off", "recv", "post"}] /\ peer' \in BOOLEAN
    BY <1>5 DEF HandleConnectEvent, TypeOK
  <2>3. faults' \in 0..MaxFaults
    BY <1>5, ConstantsAssumption DEF HandleConnectEvent, TypeOK
  <2> QED
    BY <1>5, <2>1, <2>2, <2>3 DEF HandleConnectEvent, TypeOK
<1>6. CASE HandleDisconnectEvent
  <2>1. reply' \in [Threads -> {"none", "ok", "err"}]
    BY <1>6, AnswerTypes DEF HandleDisconnectEvent
  <2> QED
    BY <1>6, <2>1 DEF HandleDisconnectEvent, TypeOK
<1>7. CASE HandleRegisterConnectionEvent
  <2>1. reply' \in [Threads -> {"none", "ok", "err"}]
    BY <1>7, AnswerTypes DEF HandleRegisterConnectionEvent
  <2> QED
    BY <1>7, <2>1 DEF HandleRegisterConnectionEvent, TypeOK
<1>8. CASE HandleConnectedEvent
  <2>1. connEvents' \in Seq({"connected", "lost", "fatal"}) /\ Len(connEvents') <= QueueCap
    BY <1>8, TellTypes DEF HandleConnectedEvent
  <2>2. pc' \in [Threads -> Places] /\ op' \in [Threads -> Ops]
        /\ peerMon' \in Threads \cup {Nobody} /\ monDone' \subseteq Threads
    BY <1>8, SpawnMoves, PlacesAre DEF HandleConnectedEvent, TypeOK, Ops
  <2> QED
    BY <1>8, <2>1, <2>2 DEF HandleConnectedEvent, TypeOK, Ops
<1>9. CASE HandleDisconnectedEvent
  <2>1. connEvents' \in Seq({"connected", "lost", "fatal"}) /\ Len(connEvents') <= QueueCap
    BY <1>9, TellTypes DEF HandleDisconnectedEvent
  <2> QED
    BY <1>9, <2>1 DEF HandleDisconnectedEvent, StopPeerMonitor, TypeOK
<1>10. ASSUME NEW type, NEW e \in {"lost", "fatal"}, HandleDeliverStatus(type, e) PROVE TypeOK'
  <2>1. connEvents' \in Seq({"connected", "lost", "fatal"}) /\ Len(connEvents') <= QueueCap
    BY <1>10, TellTypes DEF HandleDeliverStatus
  <2> QED
    BY <1>10, <2>1 DEF HandleDeliverStatus, StopPeerMonitor, TypeOK
<1>11. CASE HandleStopEvent
  <2>1. reply' \in [Threads -> {"none", "ok", "err"}]
    BY <1>11, AnswerTypes DEF HandleStopEvent
  <2> QED
    BY <1>11, <2>1 DEF HandleStopEvent, StopPeerMonitor, TypeOK
<1>12. CASE HandleStopAndTransferEvent
  <2>1. reply' \in [Threads -> {"none", "ok", "err"}]
    BY <1>12, AnswerTypes DEF HandleStopAndTransferEvent
  <2> QED
    BY <1>12, <2>1 DEF HandleStopAndTransferEvent, TypeOK
<1>13. CASE HandleRegistrations
  <2>1. reply' \in [Threads -> {"none", "ok", "err"}]
    BY <1>13, AnswerTypes DEF HandleRegistrations, TypeOK
  <2>2. regs' \in Nat
    BY <1>13 DEF HandleRegistrations, TypeOK
  <2> QED
    BY <1>13, <2>1, <2>2 DEF HandleRegistrations, TypeOK
<1>14. CASE HandleSeekEvent
  <2>1. reply' \in [Threads -> {"none", "ok", "err"}]
    BY <1>14, AnswerTypes DEF HandleSeekEvent, TypeOK
  <2> QED
    BY <1>14, <2>1 DEF HandleSeekEvent, TypeOK
<1>15. CASE HandleBlock
  <2>1. skipNext' \in BOOLEAN
    BY <1>15 DEF HandleBlock, TypeOK
  <2> QED
    BY <1>15, <2>1 DEF HandleBlock, TypeOK
<1> QED
  BY <1>5, <1>6, <1>7, <1>8, <1>9, <1>10, <1>11, <1>12, <1>13, <1>14, <1>15
  DEF Dispatcher

-----------------------------------------------------------------------------
(* Attempts to connect. AttemptsSound is not inductive: that one thread is *)
(* inside connect() at a time holds because one thread at a time is on its *)
(* way into it, and the monitor, which may take the state Connecting from  *)
(* a thread in the middle of its attempt, spawns another one only when the *)
(* client is Connected. That somebody connects while the client is         *)
(* Connecting holds because a dispatcher that refuses requests was stopped *)
(* by Close, which had told that the client is stopped before.             *)

\* A thread that connects, from the start of its call or of the goroutine on.
Connects(t) == pc[t] \in {"check", "cas", "reconnect"} \/ InAttempt(t)

\* At most one thread connects at a time; none before the application does,
\* and none once the client is Connected.
OneConnects == \A t, u \in Threads : Connects(t) /\ Connects(u) => t = u
ConnectedIsDone == connState = "Connected" => \A t \in Threads : ~Connects(t)
FirstConnect == "connect" \in todo =>
  connState = "Disconnected" /\ \A t \in Threads : ~Connects(t)

\* The dispatcher is stopped by Close, which told that the client is stopped.
Closes(t) == pc[t] \in {"closeSend", "closeWait", "stopSend", "stopWait"}
Stops(type) == type \in {"Stop", "StopAndTransfer"}
StopIsTold ==
  /\ ~started => stopped
  /\ \A t \in Threads : Closes(t) => stopped
  /\ \A i \in 1..Len(queue) : Stops(queue[i].type) => stopped
  /\ \A c \in Conns : ~Stops(item[c].type)

AInv == /\ OneConnects /\ ConnectedIsDone /\ FirstConnect /\ StopIsTold
        /\ ConnectingIsAnAttempt

\* connect() is entered by its callers only, and left as the connection state
\* tells; Close tells that the client is stopped before it stops anything.
LEMMA AttemptStep ==
  ASSUME TypeOK, StopIsTold, NEW t \in Threads, Thread(t) \/ ShouldDisconnect(t)
  PROVE  /\ Connects(t)' => Connects(t)
         /\ todo' = todo /\ started' = started /\ (stopped => stopped')
         /\ Closes(t)' => stopped'
         /\ \/ connState' = connState /\ (connState = "Connecting" /\ InAttempt(t) => InAttempt(t)')
            \/ connState' = "Disconnected"
            \/ /\ connState = "Disconnected" /\ connState' = "Connecting"
               /\ pc[t] = "cas" /\ (started => InAttempt(t)')
            \/ InAttempt(t) /\ ~Connects(t)' /\ connState' = "Connected"
<1>1. pc \in [Threads -> Places] /\ connState \in {"Disconnected", "Connecting", "Connected"}
      /\ (Closes(t) => stopped) /\ stopped \in BOOLEAN
  BY DEF TypeOK, StopIsTold
<1> USE <1>1 DEF client, disp, mons, conns, env, calls, Goto, Ended, At, AttemptFails, SubmitOrEnd,
     LeaveConnecting, Connects, InAttempt, Closes
<1>2. CASE Send(t)
  <2>1. pc[t] \in DOMAIN Request
    BY <1>2 DEF Send
  <2>2. \A p \in DOMAIN WaitsAt :
          /\ WaitsAt[p] \notin {"check", "cas", "reconnect"}
          /\ (WaitsAt[p] \in {"connectWait", "registerWait", "seekWait", "undoWait"} <=>
             p \in {"connectSend", "registerSend", "seekSend", "undoSend"})
          /\ (WaitsAt[p] \in {"closeWait", "stopWait"} <=> p \in {"closeSend", "stopSend"})
    BY PlacesAre DEF WaitsAt
  <2>3. \A p \in DOMAIN WaitsAt : WaitsAt[p] \in
            {"connectWait", "registerWait", "seekWait", "undoWait", "closeWait",
             "stopWait", "infoWait", "listenWait", "peerWait"}
    BY PlacesAre DEF WaitsAt
  <2>4. CASE pc[t] \in DOMAIN WaitsAt
    <3>1. pc'[t] = WaitsAt[pc[t]]
      BY <1>2, <2>4 DEF Send
    <3> QED
      BY <1>2, <2>2, <2>4, <2>3, <3>1, PlacesAre DEF Send
  <2>5. CASE pc[t] \notin DOMAIN WaitsAt
    <3>1. pc'[t] = "idle"
      BY <1>2, <2>5 DEF Send
    <3> QED
      BY <1>2, <2>1, <2>5, <3>1, PlacesAre DEF Send
  <2> QED
    BY <2>4, <2>5
<1>3. CASE \/ CheckStopped(t) \/ StartConnecting(t)
  BY <1>3 DEF CheckStopped, StartConnecting
<1>4. CASE \/ ConnectReply(t) \/ RegisterOnce(t) \/ RegisterReply(t)
  BY <1>4 DEF ConnectReply, RegisterOnce, RegisterReply
<1>5. CASE \/ StartSeek(t) \/ SeekReply(t) \/ StartUndo(t) \/ UndoReply(t) \/ SetConnected(t)
  BY <1>5 DEF StartSeek, SeekReply, StartUndo, UndoReply, SetConnected
<1>6. CASE Reconnect(t) \/ GiveUp(t)
  BY <1>6 DEF Reconnect, GiveUp
<1>7. CASE Closing(t)
  BY <1>7 DEF Closing, StartClose, CloseReply, StopReply, StartRequest, InfoReply,
     RegisterEventReply
<1>8. CASE PeerMonitorStops(t) \/ PeerReply(t) \/ ShouldDisconnect(t)
  BY <1>8 DEF PeerMonitorStops, PeerReply, ShouldDisconnect
<1> QED
  BY <1>4, <1>2, <1>3, <1>5, <1>6, <1>7, <1>8 DEF Thread, Connecting

\* Only Close posts that the dispatcher is to stop.
LEMMA StopThread ==
  ASSUME TypeOK, StopIsTold, NEW t \in Threads, Thread(t) \/ ShouldDisconnect(t) \/ Calling(t)
  PROVE  StopIsTold'
<1>1. /\ \A u \in Threads : u # t => pc'[u] = pc[u]
      /\ pc' \in [Threads -> Places]
  BY ThreadMoves DEF Moves, TypeOK
<1>2. ASSUME Thread(t) \/ ShouldDisconnect(t)
      PROVE  started' = started /\ (stopped => stopped') /\ (Closes(t)' => stopped')
  BY <1>2, AttemptStep
<1>3. ASSUME Calling(t)
      PROVE  started' = started /\ (stopped => stopped') /\ (Closes(t)' => stopped')
             /\ UNCHANGED <<queue, item>>
  BY <1>3 DEF Calling, CallConnect, CallClose, CallTransfer, CallCloseIfIdle,
        CallRegister, CallUnregister, Call, Goto, client, disp, conns, Closes, TypeOK
<1>4. item' = item
  BY ThreadFrame
<1>5. \A i \in 1..Len(queue') : Stops(queue'[i].type) => stopped'
  <2>1. CASE UNCHANGED queue
    BY <1>2, <1>3, <2>1 DEF StopIsTold
  <2>2. ASSUME TimesOut(t) PROVE \A i \in 1..Len(queue') : Stops(queue'[i].type) => stopped'
    <3>1. Len(queue') = Len(queue)
          /\ \A i \in 1..Len(queue) : queue'[i].type = queue[i].type
      BY <2>2 DEF TimesOut, Abandoned, Event, TypeOK
    <3> QED
      BY <1>2, <1>3, <3>1 DEF StopIsTold
  <2>3. CASE Send(t)
    <3>1. RequestOf(t) \in {"Stop", "StopAndTransfer"} => pc[t] = "stopSend"
      <4>1. \A p \in DOMAIN Request : Request[p] \in {"Stop", "StopAndTransfer"} => p = "stopSend"
        BY PlacesAre DEF Request
      <4> QED
        BY <2>3, <4>1 DEF Send, RequestOf
    <3>2. /\ Len(queue') = Len(queue) + 1
          /\ \A i \in 1..Len(queue) : queue'[i] = queue[i]
          /\ queue'[Len(queue) + 1].type = RequestOf(t)
      BY <2>3 DEF Send, Event, TypeOK
    <3>3. Stops(RequestOf(t)) => stopped
      BY <3>1 DEF StopIsTold, Stops, Closes
    <3>4. Len(queue) \in Nat
      BY DEF TypeOK
    <3> QED
      BY <1>2, <2>3, <3>2, <3>3, <3>4 DEF StopIsTold, Thread
  <2> QED
    BY <2>1, <2>2, <2>3, ThreadFrame
<1>6. \A u \in Threads : Closes(u)' => stopped'
  BY <1>1, <1>2, <1>3 DEF StopIsTold, Closes
<1> QED
  BY <1>2, <1>3, <1>4, <1>5, <1>6 DEF StopIsTold

\* A thread goes on, and is the one that connects if it does so.
LEMMA AttemptsThread ==
  ASSUME TypeOK, AInv, NEW t \in Threads, Thread(t) \/ ShouldDisconnect(t)
  PROVE  OneConnects' /\ ConnectedIsDone' /\ FirstConnect' /\ ConnectingIsAnAttempt'
<1>1. /\ pc \in [Threads -> Places] /\ pc' \in [Threads -> Places]
      /\ \A u \in Threads : u # t => pc'[u] = pc[u]
  BY ThreadMoves DEF Moves, TypeOK
<1>2. \A u \in Threads : u # t => (Connects(u)' <=> Connects(u)) /\ (InAttempt(u)' <=> InAttempt(u))
  BY <1>1 DEF Connects, InAttempt
<1>3. /\ Connects(t)' => Connects(t)
      /\ todo' = todo /\ started' = started /\ (stopped => stopped')
      /\ \/ connState' = connState /\ (connState = "Connecting" /\ InAttempt(t) => InAttempt(t)')
         \/ connState' = "Disconnected"
         \/ /\ connState = "Disconnected" /\ connState' = "Connecting"
            /\ pc[t] = "cas" /\ (started => InAttempt(t)')
         \/ InAttempt(t) /\ ~Connects(t)' /\ connState' = "Connected"
  BY AttemptStep DEF AInv
<1>4. \A u \in Threads : Connects(u)' => Connects(u)
  BY <1>2, <1>3
<1>5. OneConnects'
  BY <1>4 DEF AInv, OneConnects
<1>6. Connects(t) /\ "connect" \in todo => FALSE
  BY DEF AInv, FirstConnect
<1>7. pc[t] = "cas" \/ InAttempt(t) => Connects(t)
  BY DEF Connects
<1>8. FirstConnect'
  BY <1>3, <1>4, <1>6, <1>7 DEF AInv, FirstConnect
<1>9. ConnectedIsDone'
  <2> SUFFICES ASSUME connState' = "Connected", NEW u \in Threads, Connects(u)'
               PROVE  FALSE
    BY DEF ConnectedIsDone
  <2> QED
    BY <1>3, <1>4, <1>7 DEF AInv, ConnectedIsDone, OneConnects
<1>10. ConnectingIsAnAttempt'
  <2> SUFFICES ASSUME connState' = "Connecting", ~stopped'
               PROVE  \E u \in Threads : InAttempt(u)'
    BY DEF ConnectingIsAnAttempt
  <2>1. ~stopped /\ started
    BY <1>3 DEF AInv, StopIsTold
  <2>2. CASE connState = "Connecting" /\ (InAttempt(t) => InAttempt(t)')
    BY <1>2, <2>1, <2>2 DEF AInv, ConnectingIsAnAttempt
  <2> QED
    BY <1>3, <2>1, <2>2
<1> QED
  BY <1>5, <1>8, <1>9, <1>10

\* A call starts; Connect is called once.
LEMMA AttemptsCall ==
  ASSUME TypeOK, AInv, NEW t \in Threads, Calling(t)
  PROVE  OneConnects' /\ ConnectedIsDone' /\ FirstConnect' /\ ConnectingIsAnAttempt'
<1>1. /\ pc \in [Threads -> Places] /\ pc' \in [Threads -> Places]
      /\ \A u \in Threads : u # t => pc'[u] = pc[u]
  BY ThreadMoves DEF Moves, TypeOK
<1>2. \A u \in Threads : u # t => (Connects(u)' <=> Connects(u)) /\ (InAttempt(u)' <=> InAttempt(u))
  BY <1>1 DEF Connects, InAttempt
<1>3. /\ UNCHANGED <<connState, stopped>> /\ ~InAttempt(t)
      /\ todo' \subseteq todo
      /\ Connects(t)' => "connect" \in todo /\ "connect" \notin todo'
  BY <1>1 DEF Calling, CallConnect, CallClose, CallTransfer, CallCloseIfIdle,
        CallRegister, CallUnregister, Call, Goto, client, At, Connects, InAttempt
<1> QED
  BY <1>2, <1>3 DEF AInv, OneConnects, ConnectedIsDone, FirstConnect,
     ConnectingIsAnAttempt

\* A goroutine that is spawned connects only if it is to reconnect.
LEMMA SpawnStep ==
  ASSUME TypeOK, NEW o \in {"close", "peer", "reconnect"}, Spawn(o, o)
  PROVE  \A u \in Threads : 
           /\ InAttempt(u) => InAttempt(u)'
           /\ Connects(u)' => Connects(u) \/ (u = Free /\ o = "reconnect")
           /\ Closes(u)' => Closes(u)
<1>1. /\ Free \in Idle /\ Idle \subseteq Threads
      /\ pc' = [pc EXCEPT ![Free] = o]
  BY SpawnMoves, PlacesAre DEF TypeOK, Ops, AppCalls
<1>2. pc \in [Threads -> Places] /\ pc[Free] = "idle"
  BY <1>1 DEF TypeOK, Idle
<1>3. TAKE u \in Threads
<1>4. pc'[u] = IF u = Free THEN o ELSE pc[u]
  BY <1>1, <1>2
<1> QED
  BY <1>2, <1>4 DEF Connects, InAttempt, Closes

\* The monitor lets somebody reconnect only when nobody connects.
LEMMA AttemptsMonitor ==
  ASSUME TypeOK, AInv, Monitor \/ Grow
  PROVE  AInv'
<1> USE DEF client, calls, disp, mons, conns, env
<1>1. UNCHANGED <<todo, stopped, started, queue, item>>
  BY DEF Monitor, MonitorReceives, MonitorNotifies, MonitorGivesUp, Grow
<1>2. CASE UNCHANGED <<connState, pc>>
  BY <1>1, <1>2 DEF AInv, OneConnects, ConnectedIsDone, FirstConnect, StopIsTold,
                    ConnectingIsAnAttempt, Connects, Closes, InAttempt
<1>3. CASE UNCHANGED pc /\ connState' = "Disconnected"
  BY <1>1, <1>3 DEF AInv, OneConnects, ConnectedIsDone, FirstConnect, StopIsTold,
                    ConnectingIsAnAttempt, Connects, Closes, InAttempt
<1>4. CASE Spawn("close", "close") /\ connState' \in {connState, "Disconnected"}
  BY <1>1, <1>4, SpawnStep DEF AInv, OneConnects, ConnectedIsDone, FirstConnect,
     StopIsTold,
                    ConnectingIsAnAttempt
<1>5. CASE Spawn("reconnect", "reconnect") /\ connState = "Connected" /\ connState' = "Disconnected"
  BY <1>1, <1>5, SpawnStep DEF AInv, OneConnects, ConnectedIsDone, FirstConnect,
     StopIsTold,
                    ConnectingIsAnAttempt
<1> QED
  BY <1>2, <1>3, <1>4, <1>5
  DEF Monitor, MonitorReceives, MonitorNotifies, MonitorGivesUp, LeaveConnecting, WasConnected, Grow

\* No stream tells the dispatcher to stop.
LEMMA AttemptsReceive ==
  ASSUME TypeOK, AInv, NEW c \in Conns, Receive(c) \/ StreamFails(c) \/ StreamEOF(c)
  PROVE  AInv'
<1> USE DEF client, calls, disp, mons, conns, env
<1>1. UNCHANGED <<todo, stopped, started, connState, pc>>
  BY DEF Receive, StreamDelivers, ReceiveEnds, Post, StreamFails, StreamEOF
<1>2. \A d \in Conns : ~Stops(item'[d].type)
  BY DEF Receive, StreamDelivers, ReceiveEnds, Post, StreamFails, StreamEOF, Event,
     Stops, AInv, StopIsTold, TypeOK
<1>3. \A i \in 1..Len(queue') : Stops(queue'[i].type) => stopped'
  <2>1. CASE Post(c)
    <3>1. /\ Len(queue') = Len(queue) + 1 /\ Len(queue) \in Nat
          /\ \A i \in 1..Len(queue) : queue'[i] = queue[i]
          /\ queue'[Len(queue) + 1] = item[c]
      BY <2>1 DEF Post, TypeOK
    <3> QED
      BY <1>1, <3>1 DEF AInv, StopIsTold
  <2>2. CASE UNCHANGED queue
    BY <1>1, <2>2 DEF AInv, StopIsTold
  <2> QED
    BY <2>1, <2>2 DEF Receive, StreamDelivers, ReceiveEnds, StreamFails, StreamEOF
<1> QED
  BY <1>1, <1>2, <1>3 DEF AInv, OneConnects, ConnectedIsDone, FirstConnect, StopIsTold,
                    ConnectingIsAnAttempt, Connects, Closes, InAttempt

\* A handler stops the dispatcher only if it was told to.
LEMMA AttemptsDispatcher ==
  ASSUME TypeOK, AInv, Dispatcher
  PROVE  AInv'
<1> USE DEF client, calls, disp, mons, conns, env
<1>1. \E type : Handle(type) /\ (started' = started \/ (Stops(type) /\ started' = FALSE))
  BY DEF Dispatcher, HandleConnectEvent, HandleDisconnectEvent,
      HandleConnectedEvent, HandleRegisterConnectionEvent,
      HandleDisconnectedEvent, HandleDeliverStatus, HandleStopEvent,
      HandleStopAndTransferEvent, HandleRegistrations, HandleSeekEvent, HandleBlock, Stops
<1>2. UNCHANGED <<todo, stopped, connState, item>> /\ queue # <<>> /\ queue' = Tail(queue)
      /\ (started' = started \/ (Stops(Head(queue).type) /\ started' = FALSE))
  BY <1>1, HandlerFrame DEF Handle
<1>3. UNCHANGED pc \/ Spawn("peer", "peer")
  BY HandlerFrame
<1>4. /\ Len(queue) \in Nat \ {0} /\ Head(queue) = queue[1] /\ Len(queue') = Len(queue) - 1
      /\ \A i \in 1..Len(queue') : queue'[i] = queue[i + 1] /\ i + 1 \in 1..Len(queue)
  BY <1>2 DEF TypeOK
<1>5. /\ ~started' => stopped'
      /\ \A i \in 1..Len(queue') : Stops(queue'[i].type) => stopped'
      /\ \A c \in Conns : ~Stops(item'[c].type)
  BY <1>2, <1>4 DEF AInv, StopIsTold
<1>6. CASE UNCHANGED pc
  BY <1>2, <1>5, <1>6 DEF AInv, OneConnects, ConnectedIsDone, FirstConnect, StopIsTold,
                    ConnectingIsAnAttempt, Connects, Closes, InAttempt
<1>7. CASE Spawn("peer", "peer")
  BY <1>2, <1>5, <1>7, SpawnStep DEF AInv, OneConnects, ConnectedIsDone,
     FirstConnect, StopIsTold,
                    ConnectingIsAnAttempt
<1> QED
  BY <1>3, <1>6, <1>7

-----------------------------------------------------------------------------
(* The stream of blocks. Of every block on its way to the registrations,   *)
(* from whichever connection, the one before it is known or goes before it.*)
(* So the next block that is newer than the last one is the one after it.  *)

\* A client that resumes from a snapshot: it received blocks before, seeks at
\* the last of them (SetSnapshot) or where the application says, leaving none
\* out, and was given a seek type.
Resumes == LastBlock # NoBlock /\ SeekFrom \in 0..(LastBlock + 1) /\ ~SkipFirst

\* The block n is known when the first k events are handled, or next to what is.
Follows(n, k) ==
  \/ n <= lastBlock + 1
  \/ \E j \in 1..k : queue[j].type = "Block" /\ n <= queue[j].num + 1

\* All blocks were handed on, up to the last one.
AllReceived ==
  /\ lastBlock \in Nat /\ ~skipNext /\ LastBlock + Len(published) = lastBlock
\* A seek, whenever it was computed, is not behind the next block.
SeeksAreKnown ==
  /\ seekFrom \in 0..(lastBlock + 1)
  /\ \A i \in 1..Len(queue) : queue[i].type = "Seek" => queue[i].num \in 0..(lastBlock + 1)

\* The blocks that are queued, about to be posted, or yet to be sent follow
\* what goes before them.
QueuedFollow ==
  \A i \in 1..Len(queue) : queue[i].type = "Block" =>
    queue[i].num \in 0..height /\ Follows(queue[i].num, i - 1)
ItemsFollow ==
  \A c \in Conns :
    /\ recv[c] # "post" => item[c].type = "none"
    /\ conn[c] = "unused" => recv[c] = "off"
    /\ item[c].type # "Seek"
    /\ item[c].type = "Block" =>
         item[c].num \in 0..height /\ Follows(item[c].num, Len(queue))
StreamsFollow ==
  \A c \in Conns : stream[c] # NoBlock =>
    /\ stream[c] \in Nat
    /\ \/ Follows(stream[c], Len(queue))
       \/ item[c].type = "Block" /\ stream[c] <= item[c].num + 1

RInv == AllReceived /\ SeeksAreKnown /\ QueuedFollow /\ ItemsFollow /\ StreamsFollow

\* What comes at most next after a block does so after a later one.
LEMMA LaterBlock ==
  \A a, b \in Nat : a <= b =>
    /\ \A n \in Nat : n <= a + 1 => n <= b + 1
    /\ \A n : n \in 0..(a + 1) => n \in 0..(b + 1)
OBVIOUS

\* Whatever is added to the queue, what followed still follows.
LEMMA FollowsMore ==
  ASSUME TypeOK, lastBlock \in Nat, lastBlock' = lastBlock,
         Len(queue') \in Nat, Len(queue') >= Len(queue),
         \A i \in 1..Len(queue) : /\ queue'[i].type = queue[i].type 
                                  /\ queue'[i].num = queue[i].num,
         NEW n \in Nat, NEW k \in 0..Len(queue), Follows(n, k), NEW l \in Nat, k <= l
  PROVE  Follows(n, l)'
<1>1. CASE n <= lastBlock + 1
  BY <1>1 DEF Follows
<1>2. ASSUME NEW j \in 1..k, queue[j].type = "Block", n <= queue[j].num + 1
      PROVE  Follows(n, l)'
  <2>1. j \in 1..l /\ j \in 1..Len(queue)
    BY DEF TypeOK
  <2>2. queue'[j].type = "Block" /\ n <= queue'[j].num + 1
    BY <1>2, <2>1
  <2> QED
    BY <2>1, <2>2 DEF Follows
<1> QED
  BY <1>1, <1>2 DEF Follows

\* A handler takes the head of the queue; the last block does not go back.
Takes ==
  /\ queue # <<>> /\ queue' = Tail(queue)
  /\ lastBlock' \in Nat /\ lastBlock <= lastBlock'
  /\ Head(queue).type = "Block" => Head(queue).num <= lastBlock'

\* What followed the events of which the first is handled follows the others.
LEMMA FollowsTaken ==
  ASSUME TypeOK, RInv, Takes
  PROVE  \A n \in Nat : \A k \in Nat :
           Follows(n, k) /\ k <= Len(queue) => Follows(n, IF k = 0 THEN 0 ELSE k - 1)'
<1>1. /\ Len(queue) \in Nat \ {0} /\ Head(queue) = queue[1] /\ Len(queue') = Len(queue) - 1
      /\ \A i \in 1..Len(queue) : i # 1 => queue[i] = queue'[i - 1]
  BY DEF TypeOK, Takes
<1>2. lastBlock \in Nat /\ lastBlock' \in Nat /\ lastBlock <= lastBlock'
  BY DEF Takes, RInv, AllReceived
<1>3. queue[1].type = "Block" => queue[1].num \in Nat /\ queue[1].num <= lastBlock'
  BY <1>1 DEF Takes, RInv, QueuedFollow
<1>4. TAKE n \in Nat
<1>5. TAKE k \in Nat
<1>6. HAVE Follows(n, k) /\ k <= Len(queue)
<1>7. CASE n <= lastBlock + 1
  <2>1. n <= lastBlock' + 1
    BY <1>7, <1>2, LaterBlock
  <2> QED
    BY <2>1 DEF Follows
<1>8. ASSUME NEW j \in 1..k, queue[j].type = "Block", n <= queue[j].num + 1
      PROVE  Follows(n, IF k = 0 THEN 0 ELSE k - 1)'
  <2>1. CASE j = 1
    <3>1. n <= lastBlock' + 1
      BY <1>8, <1>2, <1>3, <2>1, LaterBlock
    <3> QED
      BY <3>1 DEF Follows
  <2>2. CASE j # 1
    <3>1. j - 1 \in 1..(k - 1) /\ k # 0 /\ queue'[j - 1] = queue[j]
      BY <1>1, <1>6, <2>2
    <3> QED
      BY <1>8, <3>1 DEF Follows
  <2> QED
    BY <2>1, <2>2
<1> QED
  BY <1>6, <1>7, <1>8 DEF Follows

\* Threads seek where the stream was to go on, or before.
LEMMA StreamThread ==
  ASSUME TypeOK, RInv, NEW t \in Threads,
         Thread(t) \/ ShouldDisconnect(t) \/ Calling(t)
  PROVE  RInv' /\ UNCHANGED <<height, published>>
<1> USE DEF client, calls, disp, mons, conns, env
<1>1. UNCHANGED <<lastBlock, height, stream, item, recv, conn, skipNext, published>>
  BY ThreadFrame
<1>2. lastBlock \in Nat /\ lastBlock # NoBlock
  BY ConstantsAssumption DEF RInv, AllReceived
<1>3. seekFrom' \in 0..(lastBlock + 1)
  <2>1. CASE Reconnect(t)
    BY <1>2, <2>1 DEF Reconnect
  <2>2. CASE UNCHANGED seekFrom
    BY <2>2 DEF RInv, SeeksAreKnown
  <2> QED
    BY <2>1, <2>2, ThreadFrame
<1>4. /\ Len(queue') \in Nat /\ Len(queue') >= Len(queue) /\ Len(queue) \in Nat
      /\ \A i \in 1..Len(queue) : queue'[i].type = queue[i].type 
                                  /\ queue'[i].num = queue[i].num
      /\ \A i \in 1..Len(queue') : i > Len(queue) =>
            queue'[i].type # "Block" /\ (queue'[i].type = "Seek" => queue'[i].num = seekFrom)
  <2>1. CASE UNCHANGED queue
    BY <2>1 DEF TypeOK
  <2>2. CASE TimesOut(t)
    <3>1. /\ Len(queue') = Len(queue) /\ Len(queue) \in Nat
          /\ \A i \in 1..Len(queue) : queue'[i].type = queue[i].type /\ queue'[i].num = queue[i].num
      BY <2>2 DEF TimesOut, Abandoned, Event, TypeOK
    <3> QED
      BY <3>1
  <2>3. CASE Send(t)
    <3>1. RequestOf(t) # "Block" /\ (RequestOf(t) = "Seek" => pc[t] = "seekSend")
      <4>1. \A p \in DOMAIN Request : Request[p] = "Seek" => p = "seekSend"
        BY PlacesAre DEF Request
      <4> QED
        BY <2>3, <4>1, RequestsAreNoBlocks DEF Send, RequestOf
    <3>2. /\ Len(queue') = Len(queue) + 1 /\ Len(queue) \in Nat
          /\ \A i \in 1..Len(queue) : queue'[i] = queue[i]
          /\ queue'[Len(queue) + 1].type = RequestOf(t)
          /\ pc[t] = "seekSend" => queue'[Len(queue) + 1].num = seekFrom
      BY <2>3 DEF Send, Event, TypeOK
    <3> QED
      BY <3>1, <3>2
  <2> QED
    BY <2>1, <2>2, <2>3, ThreadFrame
<1>5. \A n \in Nat : \A k \in 0..Len(queue) : \A l \in Nat : k <= l /\ Follows(n, k) => Follows(n, l)'
  BY <1>1, <1>2, <1>4, FollowsMore
<1>6. SeeksAreKnown'
  BY <1>1, <1>2, <1>3, <1>4 DEF RInv, SeeksAreKnown
<1>7. QueuedFollow'
  <2> SUFFICES ASSUME NEW i \in 1..Len(queue'), queue'[i].type = "Block"
               PROVE  queue'[i].num \in 0..height' /\ Follows(queue[i].num, i - 1)' 
    BY DEF QueuedFollow
  <2>1. i \in 1..Len(queue) /\ queue[i].type = "Block" /\ queue'[i].num = queue[i].num
    BY <1>4
  <2> QED
    BY <1>1, <1>4, <1>5, <2>1 DEF RInv, QueuedFollow
<1>8. ItemsFollow' /\ StreamsFollow'
  BY <1>1, <1>4, <1>5 DEF RInv, ItemsFollow, StreamsFollow
<1> QED
  BY <1>1, <1>6, <1>7, <1>8 DEF RInv, AllReceived

\* The monitor does not touch the stream.
LEMMA StreamMonitor ==
  ASSUME TypeOK, RInv, Monitor
  PROVE  RInv' /\ UNCHANGED <<height, published>>
<1>1. UNCHANGED <<queue, lastBlock, height, seekFrom, stream, item, recv, conn, skipNext, published>>
  BY DEF Monitor, MonitorReceives, MonitorNotifies, MonitorGivesUp, client, disp,
     conns, env
<1> QED
  BY <1>1 DEF RInv, AllReceived, SeeksAreKnown, QueuedFollow, ItemsFollow,
     StreamsFollow, Follows

\* The ledger grows, and what was known of it stays true.
LEMMA StreamGrow ==
  ASSUME TypeOK, RInv, Grow
  PROVE  RInv' /\ height' = height + 1 /\ published' = published
<1>1. UNCHANGED <<queue, lastBlock, seekFrom, stream, item, recv, conn, skipNext, published>>
      /\ height' = height + 1 /\ height \in Nat
  BY DEF Grow, client, disp, conns, env, TypeOK
<1>2. \A n, k : Follows(n, k) <=> Follows(n, k)'
  BY <1>1 DEF Follows
<1>3. \A n : n \in 0..height => n \in 0..height'
  BY <1>1
<1>4. QueuedFollow'
  BY <1>1, <1>2, <1>3 DEF RInv, QueuedFollow, Follows
<1>5. ItemsFollow'
  BY <1>1, <1>2, <1>3 DEF RInv, ItemsFollow, Follows
<1>6. AllReceived' /\ SeeksAreKnown' /\ StreamsFollow'
  BY <1>1 DEF RInv, AllReceived, SeeksAreKnown, StreamsFollow, Follows
<1> QED
  BY <1>1, <1>4, <1>5, <1>6 DEF RInv

\* The streams and Receive goroutines keep the order of each connection.
LEMMA StreamReceive ==
  ASSUME TypeOK, RInv, NEW c \in Conns, Receive(c) \/ StreamFails(c) \/ StreamEOF(c)
  PROVE  RInv' /\ UNCHANGED <<height, published>>
<1> USE DEF client, calls, disp, mons, conns, env
<1>1. UNCHANGED <<lastBlock, height, seekFrom, conn, skipNext, published>>
  BY DEF Receive, StreamDelivers, ReceiveEnds, Post, StreamFails, StreamEOF
<1>2. lastBlock \in Nat /\ NoBlock \notin Nat /\ Newest \notin Nat /\ height \in Nat /\ Len(queue) \in Nat
      /\ (item[c].type = "Block" => recv[c] = "post")
  BY ConstantsAssumption DEF RInv, AllReceived, ItemsFollow, TypeOK
<1>3. AllReceived' /\ (queue' = queue => SeeksAreKnown' /\ QueuedFollow')
  BY <1>1 DEF RInv, AllReceived, SeeksAreKnown, QueuedFollow, Follows
<1>4. ASSUME queue' = queue PROVE \A n, k : Follows(n, k) <=> Follows(n, k)'
  BY <1>1, <1>4 DEF Follows
<1>5. CASE StreamDelivers(c)
  <2>1. stream[c] # NoBlock /\ recv[c] = "recv" /\ conn[c] = "open" /\ queue' = queue
    BY <1>5 DEF StreamDelivers, Receiving
  <2>2. stream[c] \in Nat /\ Follows(stream[c], Len(queue))
    BY <1>2, <2>1 DEF RInv, StreamsFollow
  <2>3. /\ stream[c] <= height /\ stream' = [stream EXCEPT ![c] = stream[c] + 1]
        /\ item' = [item EXCEPT ![c] = Event("Block", Nobody, stream[c])]
        /\ recv' = [recv EXCEPT ![c] = "post"]
    BY <1>2, <1>5, <2>2 DEF StreamDelivers
  <2>4. \A d \in Conns : d # c => stream'[d] = stream[d] /\ item'[d] = item[d] /\ recv'[d] = recv[d]
    BY <2>3 DEF TypeOK
  <2>5. /\ stream'[c] = stream[c] + 1 /\ item'[c].type = "Block" /\ item'[c].num = stream[c]
        /\ recv'[c] = "post"
    BY <2>3 DEF TypeOK, Event
  <2>6. ItemsFollow'
    BY <1>1, <1>2, <1>4, <2>1, <2>2, <2>3, <2>4, <2>5 DEF RInv, ItemsFollow
  <2>7. StreamsFollow'
    BY <1>1, <1>2, <1>4, <2>1, <2>2, <2>3, <2>4, <2>5 DEF RInv, StreamsFollow
  <2> QED
    BY <1>1, <1>3, <2>1, <2>6, <2>7 DEF RInv
<1>6. CASE StreamFails(c) \/ StreamEOF(c) \/ ReceiveEnds(c)
  <2>1. queue' = queue /\ stream' = stream /\ recv[c] = "recv" /\ conn[c] \in {"open", "closed"}
    BY <1>6 DEF StreamFails, StreamEOF, ReceiveEnds, Receiving
  <2>2. \A d \in Conns : d # c => item'[d] = item[d] /\ recv'[d] = recv[d]
    BY <1>6 DEF StreamFails, StreamEOF, ReceiveEnds, TypeOK
  <2>3. item[c].type = "none"
    BY <2>1 DEF RInv, ItemsFollow
  <2>4. /\ item'[c].type \notin {"Block", "Seek"} /\ (recv'[c] # "post" => item'[c].type = "none")
    BY <1>6, <2>3 DEF StreamFails, StreamEOF, ReceiveEnds, TypeOK, Event
  <2>5. ItemsFollow'
    BY <1>1, <1>2, <1>4, <2>1, <2>2, <2>4 DEF RInv, ItemsFollow
  <2>6. StreamsFollow'
    BY <1>1, <1>2, <1>4, <2>1, <2>2, <2>3 DEF RInv, StreamsFollow
  <2> QED
    BY <1>1, <1>3, <2>1, <2>5, <2>6 DEF RInv
<1>7. CASE Post(c)
  <2>1. /\ Len(queue') = Len(queue) + 1
        /\ \A i \in 1..Len(queue) : queue'[i] = queue[i]
        /\ queue'[Len(queue) + 1] = item[c]
    BY <1>7 DEF Post, TypeOK
  <2>2. stream' = stream /\ \A d \in Conns : d # c => item'[d] = item[d] /\ recv'[d] = recv[d]
    BY <1>7 DEF Post, TypeOK
  <2>3. item'[c].type = "none" /\ recv[c] = "post" /\ recv'[c] # "post"
    BY <1>7 DEF Post, TypeOK, Event
  <2>4. \A n \in Nat : \A k \in 0..Len(queue) : \A l \in Nat : k <= l /\ Follows(n, k) => Follows(n, l)'
    BY <1>1, <1>2, <2>1, FollowsMore
  <2>5. SeeksAreKnown'
    BY <1>1, <1>2, <2>1 DEF RInv, SeeksAreKnown, ItemsFollow
  <2>6. QueuedFollow'
    <3> SUFFICES ASSUME NEW i \in 1..Len(queue'), queue'[i].type = "Block"
                 PROVE  queue'[i].num \in 0..height' /\ Follows(queue[i].num, i - 1)' 
      BY DEF QueuedFollow
    <3>1. CASE i <= Len(queue)
      BY <1>1, <1>2, <2>1, <2>4, <3>1 DEF RInv, QueuedFollow
    <3>2. CASE i = Len(queue) + 1
      BY <1>1, <1>2, <2>1, <2>4, <3>2 DEF RInv, ItemsFollow
    <3> QED
      BY <1>2, <2>1, <3>1, <3>2
  <2>7. Len(queue') \in Nat /\ Len(queue) <= Len(queue') /\ Len(queue) \in 0..Len(queue)
    BY <1>2, <2>1
  <2>8. ItemsFollow'
    BY <1>1, <1>2, <2>2, <2>3, <2>4, <2>7 DEF RInv, ItemsFollow
  <2>9. StreamsFollow'
    <3> SUFFICES ASSUME NEW d \in Conns, stream[d] # NoBlock
                 PROVE  stream[d] \in Nat /\ (Follows(stream[d], Len(queue))' \/ (item'[d].type = "Block" /\ stream[d] <= item'[d].num + 1))
      BY <2>2 DEF StreamsFollow
    <3>1. stream[d] \in Nat
      BY DEF RInv, StreamsFollow
    <3>2. CASE Follows(stream[d], Len(queue))
      BY <2>4, <2>7, <3>1, <3>2, <2>2
    <3>3. CASE item[d].type = "Block" /\ stream[d] <= item[d].num + 1
      <4>1. CASE d = c
        <5>1. Len(queue') \in 1..Len(queue') /\ queue'[Len(queue')].type = "Block"
              /\ stream'[d] <= queue'[Len(queue')].num + 1
          BY <1>2, <2>1, <2>2, <3>3, <4>1
        <5> QED
          BY <5>1, <2>2, <3>1 DEF Follows
      <4>2. CASE d # c
        BY <2>2, <3>1, <3>3, <4>2
      <4> QED
        BY <4>1, <4>2
    <3> QED
      BY <3>1, <3>2, <3>3 DEF RInv, StreamsFollow
  <2> QED
    BY <1>1, <1>3, <2>5, <2>6, <2>8, <2>9 DEF RInv
<1> QED
  BY <1>5, <1>6, <1>7 DEF Receive

\* A handler takes an event from the queue without a gap behind it.
LEMMA StreamTaken ==
  ASSUME TypeOK, RInv, Takes, UNCHANGED <<height, seekFrom, item>>
  PROVE  /\ SeeksAreKnown' /\ QueuedFollow'
         /\ \A n \in Nat : Follows(n, Len(queue)) => Follows(n, Len(queue))'
<1>1. /\ Len(queue) \in Nat \ {0} /\ Len(queue') = Len(queue) - 1
      /\ \A i \in 1..Len(queue') : queue'[i] = queue[i + 1] /\ i + 1 \in 1..Len(queue)
  BY DEF TypeOK, Takes
<1>2. lastBlock \in Nat /\ lastBlock' \in Nat /\ lastBlock <= lastBlock'
  BY DEF Takes, RInv, AllReceived
<1>3. \A n \in Nat : \A k \in Nat :
        Follows(n, k) /\ k <= Len(queue) => Follows(n, IF k = 0 THEN 0 ELSE k - 1)'
  BY FollowsTaken
<1>4. SeeksAreKnown'
  <2>1. \A m : m \in 0..(lastBlock + 1) => m \in 0..(lastBlock' + 1)
    BY <1>2, LaterBlock
  <2> QED
    BY <1>1, <2>1 DEF RInv, SeeksAreKnown
<1>5. QueuedFollow'
  <2> SUFFICES ASSUME NEW i \in 1..Len(queue'), queue'[i].type = "Block"
               PROVE  queue'[i].num \in 0..height' /\ Follows(queue[i].num, i - 1)' 
    BY DEF QueuedFollow
  <2>1. queue'[i].num \in 0..height /\ Follows(queue'[i].num, i) /\ i \in Nat /\ i <= Len(queue) /\ i # 0
    BY <1>1 DEF RInv, QueuedFollow
  <2> QED
    BY <1>3, <2>1
<1>6. ASSUME NEW n \in Nat, Follows(n, Len(queue)) PROVE Follows(n, Len(queue))'
  BY <1>1, <1>3, <1>6
<1> QED
  BY <1>4, <1>5, <1>6

\* The dispatcher publishes the next block, or nothing.
LEMMA StreamDispatcher ==
  ASSUME TypeOK, RInv, Dispatcher
  PROVE  RInv' /\ height' = height
         /\ \/ published' = published
            \/ /\ lastBlock + 1 \in 0..height
               /\ published' = Append(published, lastBlock + 1)
<1> USE DEF client, calls, disp, mons, conns, env
<1>1. queue # <<>> /\ queue' = Tail(queue)
  BY HandlerFrame
<1>2. UNCHANGED <<height, seekFrom, item>>
  BY HandlerFrame
<1>3. /\ lastBlock \in Nat /\ lastBlock # NoBlock /\ height \in Nat /\ Head(queue) = queue[1] /\ ~skipNext
      /\ Len(queue) \in Nat \ {0} /\ published \in Seq(Nat) /\ LastBlock \in Nat \cup {NoBlock}
      /\ LastBlock + Len(published) = lastBlock
  BY <1>1, ConstantsAssumption DEF RInv, AllReceived, TypeOK
<1>4. CASE HandleBlock
  <2> DEFINE n == Head(queue).num
  <2>1. n \in 0..height /\ Follows(n, 0) /\ Head(queue).type = "Block"
    BY <1>3, <1>4 DEF HandleBlock, Handle, RInv, QueuedFollow
  <2>2. n <= lastBlock + 1
    BY <2>1 DEF Follows
  <2>3. /\ lastBlock' = IF n > lastBlock THEN n ELSE lastBlock
        /\ skipNext' = FALSE
        /\ published' = IF n > lastBlock THEN Append(published, n) ELSE published
    BY <1>3, <1>4 DEF HandleBlock, Newer
  <2>4. UNCHANGED <<stream, item, recv, conn>>
    BY <1>4 DEF HandleBlock
  <2> HIDE DEF n
  <2>5. CASE n > lastBlock
    <3>1. n = lastBlock + 1 /\ lastBlock' = lastBlock + 1 /\ published' = Append(published, n)
      BY <1>3, <2>1, <2>2, <2>3, <2>5
    <3>2. LastBlock + Len(published') = lastBlock'
      BY <1>3, <3>1, ConstantsAssumption
    <3>3. SeeksAreKnown' /\ QueuedFollow'
          /\ \A m \in Nat : Follows(m, Len(queue)) => Follows(m, Len(queue))'
      BY <1>1, <1>2, <1>3, <2>1, <2>3, <3>1, StreamTaken DEF n, Takes
    <3>4. ItemsFollow' /\ StreamsFollow'
      BY <1>2, <2>4, <3>3 DEF RInv, ItemsFollow, StreamsFollow
    <3> QED
      BY <1>2, <1>3, <2>1, <2>3, <3>1, <3>2, <3>3, <3>4 DEF RInv, AllReceived
  <2>6. CASE ~(n > lastBlock)
    <3>1. SeeksAreKnown' /\ QueuedFollow'
          /\ \A m \in Nat : Follows(m, Len(queue)) => Follows(m, Len(queue))'
      BY <1>1, <1>2, <1>3, <2>1, <2>3, <2>6, StreamTaken DEF n, Takes
    <3>2. ItemsFollow' /\ StreamsFollow'
      BY <1>2, <2>4, <3>1 DEF RInv, ItemsFollow, StreamsFollow
    <3> QED
      BY <1>2, <1>3, <2>3, <2>6, <3>1, <3>2 DEF RInv, AllReceived
  <2> QED
    BY <2>5, <2>6
<1>5. CASE ~HandleBlock
  <2>1. UNCHANGED <<lastBlock, skipNext, published>> /\ Head(queue).type # "Block"
    BY <1>5 DEF Dispatcher, Handle, HandleConnectEvent, HandleDisconnectEvent,
      HandleConnectedEvent, HandleRegisterConnectionEvent,
      HandleDisconnectedEvent, HandleDeliverStatus, HandleStopEvent,
      HandleStopAndTransferEvent, HandleRegistrations, HandleSeekEvent
  <2>2. SeeksAreKnown' /\ QueuedFollow'
        /\ \A m \in Nat : Follows(m, Len(queue)) => Follows(m, Len(queue))'
    BY <1>1, <1>2, <1>3, <2>1, StreamTaken DEF Takes
  <2>3. ItemsFollow'
    <3>1. \A c \in Conns : /\ recv'[c] = recv[c] \/ (recv'[c] = "recv" /\ recv[c] = "off")
                           /\ conn'[c] = "unused" => conn[c] = "unused" /\ recv'[c] = recv[c]
      <4>1. CASE HandleConnectEvent
        <5>1. CASE UNCHANGED <<conn, recv>>
          BY <5>1
        <5>2. CASE /\ \E c \in Conns : conn[c] = "unused"
                   /\ connection' = CHOOSE c \in Conns : conn[c] = "unused"
                   /\ conn' = [conn EXCEPT ![connection'] = "open"]
                   /\ recv' = [recv EXCEPT ![connection'] = "recv"]
          <6>1. connection' \in Conns /\ conn[connection'] = "unused"
            BY <5>2
          <6>2. recv[connection'] = "off"
            BY <6>1 DEF RInv, ItemsFollow
          <6> QED
            BY <5>2, <6>1, <6>2 DEF TypeOK
        <5> QED
          BY <4>1, <5>1, <5>2 DEF HandleConnectEvent
      <4>2. CASE CloseConn /\ UNCHANGED recv
        BY <4>2 DEF CloseConn, TypeOK
      <4>3. CASE UNCHANGED <<conn, recv>>
        BY <4>3
      <4> QED
        BY <1>5, <4>1, <4>2, <4>3 DEF Dispatcher, HandleDisconnectEvent,
          HandleConnectedEvent, HandleRegisterConnectionEvent,
          HandleDisconnectedEvent, HandleDeliverStatus, HandleStopEvent,
          HandleStopAndTransferEvent, HandleRegistrations, HandleSeekEvent
    <3> QED
      BY <1>2, <2>2, <3>1 DEF RInv, ItemsFollow
  <2>4. StreamsFollow'
    <3>1. CASE UNCHANGED stream
      BY <1>2, <2>2, <3>1 DEF RInv, StreamsFollow
    <3>2. CASE HandleSeekEvent /\ stream' # stream
      <4> DEFINE m == Head(queue).num
      <4>1. Head(queue).type = "Seek" /\ m \in 0..(lastBlock + 1)
        BY <1>3, <3>2 DEF HandleSeekEvent, Handle, RInv, SeeksAreKnown
      <4>2. connection \in Conns /\ stream' = [stream EXCEPT ![connection] = m]
        BY <3>2 DEF HandleSeekEvent, TypeOK
      <4>3. m \in Nat /\ Follows(m, Len(queue))
        BY <1>3, <4>1 DEF Follows
      <4> HIDE DEF m
      <4>4. \A c \in Conns : stream'[c] = IF c = connection THEN m ELSE stream[c]
        BY <4>2 DEF TypeOK
      <4> QED
        BY <1>2, <2>2, <4>3, <4>4 DEF RInv, StreamsFollow
    <3> QED
      BY <1>5, <3>1, <3>2 DEF Dispatcher, HandleConnectEvent, HandleDisconnectEvent,
        HandleConnectedEvent, HandleRegisterConnectionEvent,
        HandleDisconnectedEvent, HandleDeliverStatus, HandleStopEvent,
        HandleStopAndTransferEvent, HandleRegistrations
  <2> QED
    BY <1>2, <2>1, <2>2, <2>3, <2>4 DEF RInv, AllReceived
<1> QED
  BY <1>4, <1>5

-----------------------------------------------------------------------------
(* The theorems.                                                           *)

\* The invariant is inductive and holds of every behaviour.
LEMMA Invariance == Spec => []IInv
<1>1. Init => IInv
  <2> SUFFICES ASSUME Init PROVE IInv
    OBVIOUS
  <2> USE DEF Init
  <2>1. "none" \in EventTypes
    BY DEF EventTypes
  <2>2. Event("none", Nobody, NoBlock) \in QueueEvents
    BY <2>1 DEF QueueEvents, Events, Event
  <2>3. height \in Nat /\ seekFrom \in Nat \cup {Newest}
    BY ConstantsAssumption
  <2>4. Shape
    BY <2>2, <2>3, ConstantsAssumption DEF Shape
  <2> QED
    BY <2>4 DEF IInv, OneOpenConnection, BlocksInOrder, PublishedIsOld
<1>2. IInv /\ [Next]_vars => IInv'
  <2> SUFFICES ASSUME IInv, [Next]_vars PROVE IInv'
    OBVIOUS
  <2>1. ASSUME Shape', UNCHANGED <<conn, connection, lastBlock, published>>
        PROVE  IInv'
    BY <2>1 DEF IInv, OneOpenConnection, BlocksInOrder, PublishedIsOld
  <2>2. ASSUME NEW t \in Threads, Thread(t) \/ Calling(t) \/ ShouldDisconnect(t)
        PROVE  IInv'
    BY <2>1, <2>2, ThreadStep DEF Untouched
  <2>3. CASE Monitor \/ Grow
    BY <2>1, <2>3, MonitorStep DEF Untouched
  <2>4. ASSUME NEW c \in Conns, Receive(c) \/ StreamFails(c) \/ StreamEOF(c)
        PROVE  IInv'
    BY <2>1, <2>4, ReceiveStep
  <2>5. CASE Dispatcher
    BY <2>5, DispatcherStep, BlockStep DEF IInv
  <2>6. CASE UNCHANGED vars
    BY <2>1, <2>6 DEF IInv, Shape, vars, client, disp, conns, env
  <2> QED
    BY <2>2, <2>3, <2>4, <2>5, <2>6 DEF Next
<1> QED
  BY <1>1, <1>2, PTL DEF Spec

\* So are the shape of the state and what keeps attempts apart.
LEMMA AttemptsInvariance == Spec => [](TypeOK /\ AInv)
<1>1. Init => TypeOK /\ AInv
  <2> SUFFICES ASSUME Init PROVE TypeOK /\ AInv
    OBVIOUS
  <2> USE DEF Init
  <2>1. "none" \in EventTypes /\ "idle" \in Places
    BY PlacesAre DEF EventTypes
  <2>2. Event("none", Nobody, NoBlock) \in Events
    BY <2>1 DEF Events, Event
  <2>3. height \in Nat /\ seekFrom \in Nat \cup {Newest} /\ faults \in 0..MaxFaults
        /\ lastBlock \in Nat \cup {NoBlock} /\ Len(queue) <= QueueCap
        /\ Len(connEvents) <= QueueCap
    BY ConstantsAssumption
  <2>4. /\ {stopped, registered, panicked, started, connReg, peer, skipNext,
             connEventsClosed} \subseteq BOOLEAN
        /\ userChan \in {"none", "open", "closed"}
    BY ConstantsAssumption
  <2>5. /\ op \in [Threads -> Ops] /\ pc \in [Threads -> Places]
        /\ reply \in [Threads -> {"none", "ok", "err"}]
    BY <2>1 DEF Ops
  <2>6. /\ queue \in Seq(Events) /\ published \in Seq(Nat)
        /\ connEvents \in Seq({"connected", "lost", "fatal"})
    OBVIOUS
  <2>7. /\ conn \in [Conns -> {"unused", "open", "closed"}]
        /\ stream \in [Conns -> Nat \cup {Newest, NoBlock}]
        /\ recv \in [Conns -> {"off", "recv", "post"}] /\ item \in [Conns -> Events]
    BY <2>2
  <2>8. TypeOK
    BY <2>3, <2>4, <2>5, <2>6, <2>7 DEF TypeOK, Ops
  <2> QED
    BY <2>8 DEF AInv, OneConnects, ConnectedIsDone, FirstConnect, StopIsTold,
                ConnectingIsAnAttempt, Connects, InAttempt, Closes, Stops, Event
<1>2. IInv /\ TypeOK /\ AInv /\ [Next]_vars => (TypeOK /\ AInv)'
  <2> SUFFICES ASSUME IInv, TypeOK, AInv, [Next]_vars PROVE TypeOK' /\ AInv'
    OBVIOUS
  <2>1. ASSUME NEW t \in Threads, Thread(t) \/ Calling(t) \/ ShouldDisconnect(t)
        PROVE  TypeOK' /\ AInv'
    BY <2>1, ConnectingTypes, ClosingTypes, SendTypes, StopThread, AttemptsThread,
       AttemptsCall DEF Thread, AInv
  <2>2. CASE Monitor \/ Grow
    BY <2>2, MonitorTypes, AttemptsMonitor
  <2>3. ASSUME NEW c \in Conns, Receive(c) \/ StreamFails(c) \/ StreamEOF(c)
        PROVE  TypeOK' /\ AInv'
    BY <2>3, ReceiveTypes, AttemptsReceive
  <2>4. CASE Dispatcher
    BY <2>4, DispatcherTypes, AttemptsDispatcher
  <2>5. CASE UNCHANGED vars
    BY <2>5 DEF TypeOK, AInv, OneConnects, ConnectedIsDone, FirstConnect, StopIsTold,
                ConnectingIsAnAttempt, Connects, InAttempt, Closes, Stops, vars, client, calls, disp, mons, conns, env
  <2> QED
    BY <2>1, <2>2, <2>3, <2>4, <2>5 DEF Next
<1> QED
  BY <1>1, <1>2, Invariance, PTL DEF Spec

\* So is the order of the blocks on their way, for a client that resumes.
LEMMA StreamInvariance ==
  ASSUME Resumes
  PROVE  Spec => []RInv
<1>1. Init => RInv
  <2> SUFFICES ASSUME Init PROVE RInv
    OBVIOUS
  <2> USE DEF Init
  <2>1. LastBlock \in Nat /\ lastBlock = LastBlock /\ Len(queue) = 0 /\ Len(published) = 0
    BY ConstantsAssumption DEF Resumes
  <2>2. AllReceived /\ SeeksAreKnown /\ QueuedFollow
    BY <2>1 DEF Resumes, AllReceived, SeeksAreKnown, QueuedFollow
  <2>3. ItemsFollow /\ StreamsFollow
    BY DEF ItemsFollow, StreamsFollow, Event
  <2> QED
    BY <2>2, <2>3 DEF RInv
<1>2. TypeOK /\ RInv /\ [Next]_vars => RInv'
  <2> SUFFICES ASSUME TypeOK, RInv, [Next]_vars PROVE RInv'
    OBVIOUS
  <2>1. CASE UNCHANGED vars
    BY <2>1 DEF vars, client, calls, disp, mons, conns, env, RInv, AllReceived,
       SeeksAreKnown, QueuedFollow, ItemsFollow, StreamsFollow, Follows
  <2> QED
    BY <2>1, StreamThread, StreamMonitor, StreamGrow, StreamReceive,
       StreamDispatcher DEF Next
<1> QED
  BY <1>1, <1>2, AttemptsInvariance, PTL DEF Spec

\* However connects, losses, late events of earlier connections and Close
\* interleave, a connection that is open is the dispatcher's.
THEOREM OneConnection == Spec => []OneOpenConnection
<1>1. IInv => OneOpenConnection
  BY DEF IInv
<1> QED
  BY <1>1, Invariance, PTL

\* Across any number of connections, the registrations get every block at most
\* once and in the order of the channel.
THEOREM NoBlockTwice == Spec => []BlocksInOrder
<1>1. IInv => BlocksInOrder
  BY DEF IInv
<1> QED
  BY <1>1, Invariance, PTL

\* Every state has the shape that TypeOK tells.
THEOREM TypeCorrect == Spec => []TypeOK
BY AttemptsInvariance, PTL

\* Whatever the monitor, losses and Close do meanwhile: the application's
\* Connect and the reconnects never run connect() side by side, and a client
\* that is not closed is Connecting only while somebody connects.
THEOREM AttemptsAreSound == Spec => []AttemptsSound
<1>1. AInv => AttemptsSound
  BY DEF AInv, AttemptsSound, OneAttempt, OneConnects, Connects
<1> QED
  BY <1>1, AttemptsInvariance, PTL

\* A client that resumes from a snapshot implements BlockStream: across any
\* number of connections, lost at any moment and sought again, its registrations
\* get each block behind the snapshot once, in order, and none is left out.
THEOREM StreamIsResumed ==
  ASSUME Resumes
  PROVE  Spec => ResumesStream
<1>1. LastBlock \in Nat /\ LastBlock # NoBlock
  BY ConstantsAssumption DEF Resumes
<1>2. Init => Stream!Init
  BY <1>1 DEF Init, Stream!Init
<1>3. TypeOK /\ RInv /\ [Next]_vars => [Stream!Commit \/ Stream!Publish]_<<height, published>>
  <2> SUFFICES ASSUME TypeOK, RInv, [Next]_vars
               PROVE  [Stream!Commit \/ Stream!Publish]_<<height, published>>
    OBVIOUS
  <2>1. CASE UNCHANGED <<height, published>>
    BY <2>1
  <2>2. CASE Grow
    BY <2>2, StreamGrow DEF Stream!Commit
  <2>3. CASE Dispatcher
    <3>1. lastBlock = LastBlock + Len(published) /\ Len(published) \in Nat /\ height \in Nat
      BY DEF RInv, AllReceived, TypeOK
    <3>2. LastBlock + 1 + Len(published) = lastBlock + 1
      BY <1>1, <3>1
    <3>3. ASSUME lastBlock + 1 \in 0..height, published' = Append(published, lastBlock + 1),
                 height' = height
          PROVE  Stream!Publish
      BY <1>1, <3>2, <3>3 DEF Stream!Publish
    <3> QED
      BY <2>1, <2>3, <3>3, StreamDispatcher
  <2>4. CASE UNCHANGED vars
    BY <2>4 DEF vars, env, disp
  <2> QED
    BY <2>1, <2>2, <2>3, <2>4, StreamThread, StreamMonitor, StreamReceive DEF Next
<1> QED
  BY <1>2, <1>3, AttemptsInvariance, StreamInvariance, PTL DEF Spec, ResumesStream,
     Stream!Spec

=============================================================================
