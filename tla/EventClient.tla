----------------------------- MODULE EventClient -----------------------------
(***************************************************************************)
(* The deliver event client: pkg/fab/events/client (client.go and its      *)
(* dispatcher), deliverclient (seek, dispatcher, connection) and the parts *)
(* of events/service they run on (Submit, Stop, the dispatcher's loop).    *)
(*                                                                         *)
(* Goroutines:                                                             *)
(*  - Threads: callers of Connect, Close, CloseIfIdle, RegisterXXX,        *)
(*    Unregister and TransferRegistrations, and the goroutines the client  *)
(*    spawns (reconnect, go c.Close(), monitorPeer);                       *)
(*  - the dispatcher, which handles one queued event at a time;            *)
(*  - the connection monitor (monitorConnection);                          *)
(*  - one Receive goroutine per connection, fed by the peer's stream.      *)
(* They share atomics (connectionState, stopped) and two channels (the     *)
(* dispatcher's queue and the connection events); every step between two   *)
(* accesses to these is an action of its own. Only an access and the look  *)
(* at the dispatcher's state that directly follows it are taken together:  *)
(* nobody but Close, once, stops the dispatcher.                           *)
(***************************************************************************)
EXTENDS Naturals, Sequences, FiniteSets

CONSTANTS
  Conns,      \* deliver connections; bounds how often the client connects
  Threads,    \* goroutines that call the client or that it spawns
  Nobody,     \* no thread: the caller of a queued request gave up waiting
  NoConn,     \* ed.connection is nil
  Calls,      \* the calls the application makes, each at most once
  Reconn,     \* option: reconnect when the connection is lost
  Forever,    \* option: maxReconnAttempts = 0
  PeerMonitor,\* option: peerMonitorPeriod > 0
  UserChan,   \* option: the application passed a connection event channel
  SeekFrom,   \* the configured seek: Newest or a block number
  Newest,     \* seek.Newest
  NoBlock,    \* lastBlockNum = math.MaxUint64: nothing received yet
  LastBlock,  \* initial lastBlockNum, NoBlock without a snapshot
  SkipFirst,  \* UpdateLastBlockInfoOnly, set when no seek type is given
  QueueCap,   \* capacity of the event channels (eventConsumerBufferSize)
  MaxHeight,  \* bound: last block of the ledger
  MaxFaults   \* bound: stream errors, error statuses, timeouts, failed dials

AppCalls == {"connect", "close", "closeIfIdle", "transfer", "register",
             "unregister"}

ASSUME ConstantsAssumption ==
  /\ Nobody \notin Threads /\ NoConn \notin Conns
  /\ Calls \subseteq AppCalls
  /\ {Reconn, Forever, PeerMonitor, UserChan, SkipFirst} \subseteq BOOLEAN
  /\ SeekFrom \in Nat \cup {Newest} /\ Newest \notin Nat
  /\ LastBlock \in Nat \cup {NoBlock} /\ NoBlock \notin Nat
  /\ QueueCap \in Nat \ {0} /\ MaxHeight \in Nat /\ MaxFaults \in Nat

VARIABLES
  \* client.Client and deliverclient.Client
  connState,    \* connectionState
  stopped,      \* stopped
  registered,   \* registerOnce has run
  seekFrom,     \* seekType and fromBlock
  userChan,     \* the application's channel: none, open, closed
  panicked,     \* a send on a closed channel
  \* threads
  op, pc,       \* what a thread is doing and where it is in it
  reply,        \* its error channel: none, ok, err
  todo,         \* calls the application has not made yet
  \* the dispatcher
  started,      \* dispatcher state Started (otherwise Stopped)
  queue,        \* eventch
  connection,   \* ed.connection
  connReg,      \* ed.connectionRegistration is set
  peer,         \* ed.peer is set
  peerMon,      \* ed.peerMonitorDone: the thread it stops, or Nobody
  monDone,      \* threads whose peerMonitorDone has been closed
  lastBlock,    \* lastBlockNum
  skipNext,     \* updateLastBlockInfoOnly
  regs,         \* registrations
  published,    \* history: the blocks handed to the registrations
  \* the connection monitor and its channel
  connEvents, connEventsClosed, mon, monEvent,
  \* connections, their Receive goroutines and the peers' streams
  conn,         \* unused, open, closed
  stream,       \* the next block the peer sends; NoBlock before a seek
  recv, item,   \* where Receive is, and the event it is about to post
  height, faults

client == <<connState, stopped, registered, seekFrom, userChan, panicked>>
calls  == <<op, pc, reply, todo>>
disp   == <<started, connection, connReg, peer, peerMon, monDone, lastBlock,
            skipNext, regs, published>>
mons   == <<connEvents, connEventsClosed, mon, monEvent>>
conns  == <<conn, stream, recv, item>>
env    == <<height, faults>>
vars   == <<client, calls, disp, queue, mons, conns, env>>

Event(type, th, num) == [type |-> type, th |-> th, num |-> num]

Init ==
  /\ connState = "Disconnected" /\ stopped = FALSE /\ registered = FALSE
  /\ seekFrom = SeekFrom /\ panicked = FALSE
  /\ userChan = IF UserChan THEN "open" ELSE "none"
  /\ op = [t \in Threads |-> "none"] /\ pc = [t \in Threads |-> "idle"]
  /\ reply = [t \in Threads |-> "none"] /\ todo = Calls
  /\ started = TRUE /\ queue = <<>> /\ connection = NoConn /\ connReg = FALSE
  /\ peer = FALSE /\ peerMon = Nobody /\ monDone = {}
  /\ lastBlock = LastBlock /\ skipNext = SkipFirst /\ regs = 0
  /\ published = <<>>
  /\ connEvents = <<>> /\ connEventsClosed = FALSE /\ mon = "off"
  /\ monEvent = "none"
  /\ conn = [c \in Conns |-> "unused"] /\ stream = [c \in Conns |-> NoBlock]
  /\ recv = [c \in Conns |-> "off"]
  /\ item = [c \in Conns |-> Event("none", Nobody, NoBlock)]
  \* the channel is at least as high as what was received from it before
  /\ height = (IF LastBlock = NoBlock THEN 0 ELSE LastBlock) /\ faults = 0

-----------------------------------------------------------------------------
(* Threads: the shape of every call.                                       *)

At(t, p) == ~panicked /\ pc[t] = p
Goto(t, p) == pc' = [pc EXCEPT ![t] = p]

\* The call is over and the goroutine gone.
Ended(t) == /\ pc' = [pc EXCEPT ![t] = "idle"]
            /\ op' = [op EXCEPT ![t] = "none"]

\* go f(): an idle thread starts at p. Which one does not matter, so it is
\* always the same one. With all threads busy the step waits; the instances
\* have threads enough.
Idle == {t \in Threads : pc[t] = "idle"}
Free == CHOOSE t \in Idle : TRUE
Spawn(o, p) ==
  /\ Idle # {}
  /\ pc' = [pc EXCEPT ![Free] = p]
  /\ op' = [op EXCEPT ![Free] = o]

\* The request each sending place posts, and where its sender waits for the
\* reply; a place without one ends the call.
Request == [connectSend |-> "Connect", registerSend |-> "RegisterConnection",
            seekSend |-> "Seek", undoSend |-> "Disconnect",
            readySend |-> "Connected", closeSend |-> "Disconnect",
            stopSend |-> "Stop", infoSend |-> "RegistrationInfo",
            listenSend |-> "Register", unlistenSend |-> "Unregister",
            peerSend |-> "Disconnect", forcedSend |-> "Disconnected"]
WaitsAt == [connectSend |-> "connectWait", registerSend |-> "registerWait",
            seekSend |-> "seekWait", undoSend |-> "undoWait",
            closeSend |-> "closeWait", stopSend |-> "stopWait",
            infoSend |-> "infoWait", listenSend |-> "listenWait",
            peerSend |-> "peerWait"]

RequestOf(t) ==
  IF pc[t] = "stopSend" /\ op[t] = "transfer" THEN "StopAndTransfer"
                                              ELSE Request[pc[t]]

\* Submit, first half: the state check of EventCh passes and the thread goes to
\* the place of the send, or the call ends with its error.
SubmitOrEnd(t, send) == IF started THEN Goto(t, send) /\ UNCHANGED op
                                   ELSE Ended(t)

\* Submit, second half: the send, which waits while the channel is full. The
\* dispatcher may have stopped since the check: nobody reads the channel then.
Send(t) ==
  /\ ~panicked /\ pc[t] \in DOMAIN Request
  /\ Len(queue) < QueueCap
  /\ queue' = Append(queue,
                     Event(RequestOf(t),
                           IF pc[t] \in DOMAIN WaitsAt THEN t ELSE Nobody,
                           IF pc[t] = "seekSend" THEN seekFrom ELSE NoBlock))
  /\ IF pc[t] \in DOMAIN WaitsAt THEN Goto(t, WaitsAt[pc[t]]) /\ UNCHANGED op
                                 ELSE Ended(t)
  /\ UNCHANGED <<client, reply, todo, disp, mons, conns, env>>

\* A wait on the error channel ends with a value ...
Replied(t, v) == reply[t] = v /\ reply' = [reply EXCEPT ![t] = "none"]

\* ... or, where the code has a timeout, without one: the answer to a request
\* that is still queued will find nobody. The bound is not spent when no
\* answer can come any more.
Abandoned(t) == [i \in DOMAIN queue |->
                   IF queue[i].th = t
                   THEN Event(queue[i].type, Nobody, queue[i].num)
                   ELSE queue[i]]
Pending(t) == started /\ \E i \in DOMAIN queue : queue[i].th = t
\* slip: only while the request is queued, for then it must be slow
TimesOutWhileQueued(t) ==
  /\ reply[t] = "none" /\ Pending(t) /\ faults < MaxFaults
  /\ faults' = faults + 1
  /\ queue' = Abandoned(t)
  /\ UNCHANGED <<reply, height>>
TimesOut(t) ==
  /\ reply[t] = "none"
  /\ IF Pending(t) THEN faults < MaxFaults /\ faults' = faults + 1
                   ELSE UNCHANGED faults
  /\ queue' = Abandoned(t)
  /\ UNCHANGED <<reply, height>>

-----------------------------------------------------------------------------
(* Connect, and connect() as the reconnect goroutine repeats it.           *)

Call(t, c, o, p) ==
  /\ At(t, "idle") /\ t = Free /\ c \in todo
  /\ todo' = todo \ {c}
  /\ op' = [op EXCEPT ![t] = o]
  /\ Goto(t, p)
  /\ UNCHANGED <<client, reply, disp, queue, mons, conns, env>>

CallConnect(t) == Call(t, "connect", "connect", "check")

\* connect() returned an error: Connect reports it, connectWithRetry tries
\* again or, out of attempts, makes reconnect close the client.
AttemptFails(t) ==
  \/ op[t] # "reconnect" /\ Ended(t)
  \/ op[t] = "reconnect" /\ Goto(t, "check") /\ UNCHANGED op
  \/ op[t] = "reconnect" /\ ~Forever /\ Goto(t, "giveUp") /\ UNCHANGED op

\* Giving up the state Connecting, whoever does it.
\* slip: the arguments of the compare-and-swap the wrong way round
LeaveConnectingSwapped ==
  connState' = IF connState = "Disconnected" THEN "Connecting" ELSE connState
LeaveConnecting ==
  connState' = IF connState = "Connecting" THEN "Disconnected" ELSE connState

CheckStopped(t) ==
  /\ At(t, "check")
  /\ IF stopped THEN Ended(t) ELSE Goto(t, "cas") /\ UNCHANGED op
  /\ UNCHANGED <<client, reply, todo, disp, queue, mons, conns, env>>

\* The state moves from Disconnected to Connecting or the attempt fails; it
\* stays Connecting when the dispatcher then refuses the request.
StartConnecting(t) ==
  /\ At(t, "cas")
  /\ connState' = IF connState = "Disconnected" THEN "Connecting" ELSE connState
  /\ IF connState = "Disconnected" /\ started
     THEN Goto(t, "connectSend") /\ UNCHANGED op
     ELSE AttemptFails(t)
  /\ UNCHANGED <<stopped, registered, seekFrom, userChan, panicked, reply, todo,
                 disp, queue, mons, conns, env>>

ConnectReply(t) ==
  /\ At(t, "connectWait")
  /\ \/ /\ Replied(t, "ok")
        /\ Goto(t, IF registered THEN "seek" ELSE "register")
        /\ UNCHANGED <<op, connState>>
     \/ /\ Replied(t, "err")
        /\ connState' = "Disconnected"
        /\ AttemptFails(t)
  /\ UNCHANGED <<stopped, registered, seekFrom, userChan, panicked, todo, disp,
                 queue, mons, conns, env>>

\* registerOnce. If the registration fails the monitor ranges over a nil
\* channel, for the error looked at is not the one returned: it never runs.
RegisterOnce(t) ==
  /\ At(t, "register")
  /\ IF stopped \/ ~started
     THEN registered' = TRUE /\ Goto(t, "seek")
     ELSE UNCHANGED registered /\ Goto(t, "registerSend")
  /\ UNCHANGED <<connState, stopped, seekFrom, userChan, panicked, op, reply,
                 todo, disp, queue, mons, conns, env>>

RegisterReply(t) ==
  /\ At(t, "registerWait") /\ Replied(t, "ok")
  /\ registered' = TRUE /\ mon' = "range"
  /\ Goto(t, "seek")
  /\ UNCHANGED <<connState, stopped, seekFrom, userChan, panicked, op, todo,
                 disp, queue, connEvents, connEventsClosed, monEvent, conns,
                 env>>

\* The afterConnect handler: deliverclient's seek.
StartSeek(t) ==
  /\ At(t, "seek")
  /\ Goto(t, IF started THEN "seekSend" ELSE "undo")
  /\ UNCHANGED <<client, op, reply, todo, disp, queue, mons, conns, env>>

SeekReply(t) ==
  /\ At(t, "seekWait")
  /\ \/ Replied(t, "ok") /\ Goto(t, "connected") /\ UNCHANGED <<queue, env>>
     \/ Replied(t, "err") /\ Goto(t, "undo") /\ UNCHANGED <<queue, env>>
     \/ TimesOut(t) /\ Goto(t, "undo")
  /\ UNCHANGED <<client, op, todo, disp, mons, conns>>

\* The handler failed: disconnect, then give up the state Connecting.
StartUndo(t) ==
  /\ At(t, "undo")
  /\ Goto(t, IF started THEN "undoSend" ELSE "undoWait")
  /\ UNCHANGED <<client, op, reply, todo, disp, queue, mons, conns, env>>

UndoReply(t) ==
  /\ At(t, "undoWait")
  /\ \/ \E v \in {"ok", "err"} : Replied(t, v) /\ UNCHANGED <<queue, env>>
     \/ TimesOut(t)
  /\ LeaveConnecting
  /\ AttemptFails(t)
  /\ UNCHANGED <<stopped, registered, seekFrom, userChan, panicked, todo, disp,
                 mons, conns>>

\* The state moves to Connected if it still is Connecting; connect() does not
\* look whether it did.
SetConnected(t) ==
  /\ At(t, "connected")
  /\ connState' = IF connState = "Connecting" THEN "Connected" ELSE connState
  /\ SubmitOrEnd(t, "readySend")
  /\ UNCHANGED <<stopped, registered, seekFrom, userChan, panicked, reply, todo,
                 disp, queue, mons, conns, env>>

\* reconnect: deliverclient's beforeReconnect handler resumes behind the last
\* block received, or at the newest block if there was none.
\* slip: resume at the last block received, as a snapshot does
ReconnectAtLastBlock(t) ==
  /\ At(t, "reconnect")
  /\ seekFrom' = lastBlock
  /\ Goto(t, "check")
  /\ UNCHANGED <<connState, stopped, registered, userChan, panicked, op, reply,
                 todo, disp, queue, mons, conns, env>>
\* slip: always resume at the newest block
ReconnectAtNewest(t) ==
  /\ At(t, "reconnect")
  /\ seekFrom' = Newest
  /\ Goto(t, "check")
  /\ UNCHANGED <<connState, stopped, registered, userChan, panicked, op, reply,
                 todo, disp, queue, mons, conns, env>>
Reconnect(t) ==
  /\ At(t, "reconnect")
  /\ seekFrom' = IF lastBlock = NoBlock THEN Newest ELSE lastBlock + 1
  /\ Goto(t, "check")
  /\ UNCHANGED <<connState, stopped, registered, userChan, panicked, op, reply,
                 todo, disp, queue, mons, conns, env>>

GiveUp(t) ==
  /\ At(t, "giveUp")
  /\ IF stopped THEN Ended(t) ELSE Goto(t, "close") /\ UNCHANGED op
  /\ UNCHANGED <<client, reply, todo, disp, queue, mons, conns, env>>

Connecting(t) ==
  \/ CheckStopped(t) \/ StartConnecting(t) \/ ConnectReply(t)
  \/ RegisterOnce(t) \/ RegisterReply(t) \/ StartSeek(t) \/ SeekReply(t)
  \/ StartUndo(t) \/ UndoReply(t) \/ SetConnected(t) \/ Reconnect(t)
  \/ GiveUp(t)

-----------------------------------------------------------------------------
(* Close, CloseIfIdle, TransferRegistrations(true), RegisterXXX,           *)
(* Unregister.                                                             *)

CallClose(t)       == Call(t, "close", "close", "close")
CallTransfer(t)    == Call(t, "transfer", "transfer", "close")
CallCloseIfIdle(t) == Call(t, "closeIfIdle", "closeIfIdle", "info")
CallRegister(t)    == Call(t, "register", "register", "listen")
CallUnregister(t)  == regs > 0 /\ Call(t, "unregister", "unregister", "unlisten")

\* setStopped, closeConnectEventChan and the state check of the disconnect
\* request; without the dispatcher Close ends here.
StartClose(t) ==
  /\ At(t, "close")
  /\ IF stopped
     THEN Ended(t) /\ UNCHANGED <<stopped, userChan>>
     ELSE /\ stopped' = TRUE
          /\ userChan' = IF userChan = "open" THEN "closed" ELSE userChan
          /\ SubmitOrEnd(t, "closeSend")
  /\ UNCHANGED <<connState, registered, seekFrom, panicked, reply, todo, disp,
                 queue, mons, conns, env>>

\* The connection is gone, or was: stop the dispatcher (Stop and
\* StopAndTransfer begin with the same check).
\* slip: nothing to stop when there was no connection
CloseReplyOfConnected(t) ==
  /\ At(t, "closeWait")
  /\ \E v \in {"ok", "err"} :
       /\ Replied(t, v)
       /\ IF started /\ v = "ok"
          THEN Goto(t, "stopSend") /\ UNCHANGED <<op, connState>>
          ELSE Ended(t) /\ connState' = "Disconnected"
  /\ UNCHANGED <<stopped, registered, seekFrom, userChan, panicked, todo, disp,
                 queue, mons, conns, env>>
CloseReply(t) ==
  /\ At(t, "closeWait")
  /\ \E v \in {"ok", "err"} : Replied(t, v)
  /\ IF started
     THEN Goto(t, "stopSend") /\ UNCHANGED <<op, connState>>
     ELSE Ended(t) /\ connState' = "Disconnected"
  /\ UNCHANGED <<stopped, registered, seekFrom, userChan, panicked, todo, disp,
                 queue, mons, conns, env>>

StopReply(t) ==
  /\ At(t, "stopWait")
  /\ \/ Replied(t, "ok") /\ UNCHANGED <<queue, env>>
     \/ TimesOut(t)
  /\ connState' = "Disconnected"
  /\ Ended(t)
  /\ UNCHANGED <<stopped, registered, seekFrom, userChan, panicked, todo, disp,
                 mons, conns>>

\* The other requests: the state check, and the reply, where there is one.
StartRequest(t) ==
  /\ \/ At(t, "info") /\ SubmitOrEnd(t, "infoSend")
     \/ At(t, "listen") /\ SubmitOrEnd(t, "listenSend")
     \/ At(t, "unlisten") /\ SubmitOrEnd(t, "unlistenSend")
  /\ UNCHANGED <<client, reply, todo, disp, queue, mons, conns, env>>

\* CloseIfIdle: the answer "no registrations" leads to Close.
InfoReply(t) ==
  /\ At(t, "infoWait")
  /\ \/ Replied(t, "ok") /\ Goto(t, "close") /\ UNCHANGED op
     \/ Replied(t, "err") /\ Ended(t)
  /\ UNCHANGED <<client, todo, disp, queue, mons, conns, env>>

RegisterEventReply(t) ==
  /\ At(t, "listenWait") /\ Replied(t, "ok")
  /\ Ended(t)
  /\ UNCHANGED <<client, todo, disp, queue, mons, conns, env>>

Closing(t) ==
  \/ StartClose(t) \/ CloseReply(t) \/ StopReply(t) \/ StartRequest(t)
  \/ InfoReply(t) \/ RegisterEventReply(t)

Calling(t) ==
  \/ CallConnect(t) \/ CallClose(t) \/ CallTransfer(t) \/ CallCloseIfIdle(t)
  \/ CallRegister(t) \/ CallUnregister(t)

-----------------------------------------------------------------------------
(* monitorPeer: the resolver may decide to leave the connected peer.       *)

PeerMonitorStops(t) ==
  /\ At(t, "peer") /\ t \in monDone
  /\ Ended(t)
  /\ UNCHANGED <<client, reply, todo, disp, queue, mons, conns, env>>

ShouldDisconnect(t) ==
  /\ At(t, "peer") /\ peer /\ started
  /\ faults < MaxFaults /\ faults' = faults + 1
  /\ Goto(t, "peerSend")
  /\ UNCHANGED <<client, op, reply, todo, disp, queue, mons, conns, height>>

\* Disconnected: report it, which triggers the reconnect; else go on.
PeerReply(t) ==
  /\ At(t, "peerWait")
  /\ \/ Replied(t, "ok") /\ Goto(t, "forcedSend")
     \/ Replied(t, "err") /\ Goto(t, "peer")
  /\ UNCHANGED <<client, op, todo, disp, queue, mons, conns, env>>

\* What a thread does once started; ShouldDisconnect is the resolver's choice.
Thread(t) ==
  Connecting(t) \/ Closing(t) \/ PeerMonitorStops(t) \/ PeerReply(t) \/ Send(t)

-----------------------------------------------------------------------------
(* monitorConnection.                                                      *)

\* The next event, or the end: a closed channel, a stopped client.
\* slip: it is also over when the client is not connected
MonitorReceivesConnected ==
  /\ ~panicked /\ mon = "range"
  /\ IF connEvents = <<>>
     THEN connEventsClosed /\ mon' = "off" /\ UNCHANGED <<monEvent, connEvents>>
     ELSE /\ connEvents' = Tail(connEvents)
          /\ IF stopped \/ connState # "Connected"
             THEN mon' = "off" /\ UNCHANGED monEvent
             ELSE mon' = "notify" /\ monEvent' = Head(connEvents)
  /\ UNCHANGED <<client, calls, disp, queue, connEventsClosed, conns, env>>
MonitorReceives ==
  /\ ~panicked /\ mon = "range"
  /\ IF connEvents = <<>>
     THEN connEventsClosed /\ mon' = "off" /\ UNCHANGED <<monEvent, connEvents>>
     ELSE /\ connEvents' = Tail(connEvents)
          /\ IF stopped THEN mon' = "off" /\ UNCHANGED monEvent
                        ELSE mon' = "notify" /\ monEvent' = Head(connEvents)
  /\ UNCHANGED <<client, calls, disp, queue, connEventsClosed, conns, env>>

\* The first compare-and-swap succeeds.
\* slip: also from Connecting
WasConnecting == connState # "Disconnected"
WasConnected == connState = "Connected"

\* notifyConnectEventChan, then the first compare-and-swap. The application
\* is taken to drain its channel, which Close closes.
MonitorNotifies ==
  /\ ~panicked /\ mon = "notify"
  /\ IF userChan = "closed"
     THEN panicked' = TRUE /\ UNCHANGED <<connState, mon, op, pc>>
     ELSE /\ UNCHANGED panicked
          /\ \/ /\ monEvent = "connected"
                /\ mon' = "range" /\ UNCHANGED <<connState, op, pc>>
             \/ /\ monEvent # "connected" /\ ~Reconn
                /\ mon' = "off" /\ UNCHANGED connState
                /\ Spawn("close", "close")
             \/ /\ monEvent # "connected" /\ Reconn /\ WasConnected
                /\ connState' = "Disconnected"
                /\ IF monEvent = "fatal"
                   THEN mon' = "off" /\ Spawn("close", "close")
                   ELSE mon' = "range" /\ Spawn("reconnect", "reconnect")
             \/ /\ monEvent # "connected" /\ Reconn /\ ~WasConnected
                /\ mon' = "second" /\ UNCHANGED <<connState, op, pc>>
  /\ UNCHANGED <<stopped, registered, seekFrom, userChan, reply, todo, disp,
                 queue, connEvents, connEventsClosed, monEvent, conns, env>>

\* The second compare-and-swap: "Reconnect already in progress".
MonitorGivesUp ==
  /\ ~panicked /\ mon = "second"
  /\ LeaveConnecting
  /\ mon' = "range"
  /\ UNCHANGED <<stopped, registered, seekFrom, userChan, panicked, calls, disp,
                 queue, connEvents, connEventsClosed, monEvent, conns, env>>

Monitor == MonitorReceives \/ MonitorNotifies \/ MonitorGivesUp

-----------------------------------------------------------------------------
(* The dispatcher: one handler per event.                                  *)

Handle(type) == /\ ~panicked /\ started
                /\ queue # <<>> /\ Head(queue).type = type
                /\ queue' = Tail(queue)
\* slip: an error is not answered
AnswerSuccess(v) ==
  LET t == Head(queue).th
  IN  reply' = IF t = Nobody \/ v = "err" THEN reply
                                         ELSE [reply EXCEPT ![t] = v]
Answer(v) == LET t == Head(queue).th
             IN  reply' = IF t = Nobody THEN reply ELSE [reply EXCEPT ![t] = v]

\* A non-blocking send to the connection registration.
Tell(e) == connEvents' = IF connReg /\ Len(connEvents) < QueueCap
                         THEN Append(connEvents, e) ELSE connEvents
CloseConn == conn' = IF connection = NoConn THEN conn
                     ELSE [conn EXCEPT ![connection] = "closed"]
\* close(peerMonitorDone), if there is one.
StopPeerMonitor == /\ monDone' = IF peerMon = Nobody THEN monDone
                                 ELSE monDone \cup {peerMon}
                   /\ peerMon' = Nobody

\* Discovery, the resolver and the dial may fail; a new connection gets its
\* Receive goroutine.
HandleConnectEvent ==
  /\ Handle("Connect")
  /\ \/ connection # NoConn /\ Answer("ok")
        /\ UNCHANGED <<connection, peer, conn, recv, faults>>
     \/ /\ connection = NoConn
        /\ IF \A c \in Conns : conn[c] # "unused" THEN UNCHANGED faults
           ELSE faults < MaxFaults /\ faults' = faults + 1
        /\ Answer("err") /\ UNCHANGED <<connection, peer, conn, recv>>
     \/ /\ connection = NoConn
        /\ \E c \in Conns : conn[c] = "unused"
        /\ connection' = CHOOSE c \in Conns : conn[c] = "unused"
        /\ peer' = TRUE
        /\ conn' = [conn EXCEPT ![connection'] = "open"]
        /\ recv' = [recv EXCEPT ![connection'] = "recv"]
        /\ Answer("ok") /\ UNCHANGED faults
  /\ UNCHANGED <<client, op, pc, todo, started, connReg, peerMon, monDone,
                 lastBlock, skipNext, regs, published, mons, stream, item,
                 height>>

HandleDisconnectEvent ==
  /\ Handle("Disconnect")
  /\ Answer(IF connection = NoConn THEN "err" ELSE "ok")
  /\ CloseConn /\ connection' = NoConn
  /\ peer' = (peer /\ connection = NoConn)
  /\ UNCHANGED <<client, op, pc, todo, started, connReg, peerMon, monDone,
                 lastBlock, skipNext, regs, published, mons, stream, recv, item,
                 env>>

HandleRegisterConnectionEvent ==
  /\ Handle("RegisterConnection")
  /\ Answer(IF connReg THEN "err" ELSE "ok")
  /\ connReg' = TRUE
  /\ UNCHANGED <<client, op, pc, todo, started, connection, peer, peerMon,
                 monDone, lastBlock, skipNext, regs, published, mons, conns,
                 env>>

\* A new peer monitor replaces the one before, whether or not that one ended.
HandleConnectedEvent ==
  /\ Handle("Connected")
  /\ Tell("connected")
  /\ IF PeerMonitor
     THEN /\ Spawn("peer", "peer")
          /\ peerMon' = Free /\ monDone' = monDone \ {Free}
     ELSE UNCHANGED <<op, pc, peerMon, monDone>>
  /\ UNCHANGED <<client, reply, todo, started, connection, connReg, peer,
                 lastBlock, skipNext, regs, published, connEventsClosed, mon,
                 monEvent, conns, env>>

\* It closes the connection of now, which need not be the one that was lost.
\* slip: the connection is forgotten, not closed
HandleDisconnectedForgetting ==
  /\ Handle("Disconnected")
  /\ connection' = NoConn
  /\ Tell("lost") /\ StopPeerMonitor
  /\ UNCHANGED <<client, calls, started, connReg, peer, lastBlock, skipNext,
                 regs, published, connEventsClosed, mon, monEvent, conns, env>>
HandleDisconnectedEvent ==
  /\ Handle("Disconnected")
  /\ CloseConn /\ connection' = NoConn
  /\ Tell("lost") /\ StopPeerMonitor
  /\ UNCHANGED <<client, calls, started, connReg, peer, lastBlock, skipNext,
                 regs, published, connEventsClosed, mon, monEvent, stream, recv,
                 item, env>>

\* deliverclient: an error status disconnects and reports; FORBIDDEN is fatal.
HandleDeliverStatus(type, e) ==
  /\ Handle(type)
  /\ CloseConn /\ connection' = NoConn
  /\ peer' = (peer /\ connection = NoConn)
  /\ Tell(e) /\ StopPeerMonitor
  /\ UNCHANGED <<client, calls, started, connReg, lastBlock, skipNext, regs,
                 published, connEventsClosed, mon, monEvent, stream, recv, item,
                 env>>

\* The connection stays as it is.
HandleStopEvent ==
  /\ Handle("Stop")
  /\ started' = FALSE /\ regs' = 0 /\ connReg' = FALSE
  /\ connEventsClosed' = (connEventsClosed \/ connReg)
  /\ StopPeerMonitor
  /\ Answer("ok")
  /\ UNCHANGED <<client, op, pc, todo, connection, peer, lastBlock, skipNext,
                 published, connEvents, mon, monEvent, conns, env>>

\* The service's own handler: it knows neither the connection registration nor
\* the peer monitor.
HandleStopAndTransferEvent ==
  /\ Handle("StopAndTransfer")
  /\ started' = FALSE /\ regs' = 0
  /\ Answer("ok")
  /\ UNCHANGED <<client, op, pc, todo, connection, connReg, peer, peerMon,
                 monDone, lastBlock, skipNext, published, mons, conns, env>>

HandleRegistrations ==
  /\ \/ Handle("RegistrationInfo") /\ Answer(IF regs = 0 THEN "ok" ELSE "err")
        /\ UNCHANGED regs
     \/ Handle("Register") /\ Answer("ok") /\ regs' = regs + 1
     \/ Handle("Unregister") /\ UNCHANGED reply
        /\ regs' = IF regs = 0 THEN 0 ELSE regs - 1
  /\ UNCHANGED <<client, op, pc, todo, started, connection, connReg, peer,
                 peerMon, monDone, lastBlock, skipNext, published, mons, conns,
                 env>>

\* Without a connection nobody answers. A peer serves one seek at a time.
HandleSeekEvent ==
  /\ Handle("Seek")
  /\ IF connection = NoConn
     THEN UNCHANGED <<reply, stream>>
     ELSE IF recv[connection] = "off" \/ item[connection].type = "Disconnected"
     THEN Answer("err") /\ UNCHANGED stream
     ELSE /\ Answer("ok")
          /\ stream' = IF stream[connection] # NoBlock THEN stream
                       ELSE [stream EXCEPT ![connection] = Head(queue).num]
  /\ UNCHANGED <<client, op, pc, todo, disp, mons, conn, recv, item, env>>

\* updateLastBlockNum refuses a block that is not newer than the last one.
\* slip: the last block itself is let through
NotOlder(n) == lastBlock = NoBlock \/ n >= lastBlock
Newer(n) == lastBlock = NoBlock \/ n > lastBlock
HandleBlock ==
  /\ Handle("Block")
  /\ LET n == Head(queue).num
     IN  /\ lastBlock' = IF Newer(n) THEN n ELSE lastBlock
         /\ skipNext' = (skipNext /\ ~Newer(n))
         /\ published' = IF Newer(n) /\ ~skipNext THEN Append(published, n)
                                                  ELSE published
  /\ UNCHANGED <<client, calls, started, connection, connReg, peer, peerMon,
                 monDone, regs, mons, conns, env>>

Dispatcher ==
  \/ HandleConnectEvent \/ HandleDisconnectEvent \/ HandleConnectedEvent
  \/ HandleRegisterConnectionEvent \/ HandleDisconnectedEvent
  \/ HandleDeliverStatus("Status", "lost")
  \/ HandleDeliverStatus("StatusFatal", "fatal")
  \/ HandleStopEvent \/ HandleStopAndTransferEvent \/ HandleRegistrations
  \/ HandleSeekEvent \/ HandleBlock

-----------------------------------------------------------------------------
(* Receive, and the peer at the other end of the stream.                   *)

Receiving(c) == ~panicked /\ recv[c] = "recv"

\* The peer sends the next block it has, waiting until it is ready.
StreamDelivers(c) ==
  /\ Receiving(c) /\ conn[c] = "open" /\ stream[c] # NoBlock
  /\ LET n == IF stream[c] = Newest THEN height ELSE stream[c]
     IN  /\ n <= height
         /\ stream' = [stream EXCEPT ![c] = n + 1]
         /\ item' = [item EXCEPT ![c] = Event("Block", Nobody, n)]
  /\ recv' = [recv EXCEPT ![c] = "post"]
  /\ UNCHANGED <<client, calls, disp, queue, mons, conn, env>>

\* The stream breaks, or the peer answers a seek with an error status.
StreamFails(c) ==
  /\ Receiving(c) /\ conn[c] = "open"
  /\ faults < MaxFaults /\ faults' = faults + 1
  /\ \E type \in {"Disconnected", "Status", "StatusFatal"} :
       /\ type # "Disconnected" => stream[c] # NoBlock
       /\ item' = [item EXCEPT ![c] = Event(type, Nobody, NoBlock)]
  /\ recv' = [recv EXCEPT ![c] = "post"]
  /\ UNCHANGED <<client, calls, disp, queue, mons, conn, stream, height>>

\* io.EOF ends the goroutine without an event, whichever side closed.
StreamEOF(c) ==
  /\ Receiving(c) /\ conn[c] = "open"
  /\ faults < MaxFaults /\ faults' = faults + 1
  /\ recv' = [recv EXCEPT ![c] = "off"]
  /\ UNCHANGED <<client, calls, disp, queue, mons, conn, stream, item, height>>

\* The connection was closed: Recv returns and the loop ends.
ReceiveEnds(c) ==
  /\ Receiving(c) /\ conn[c] = "closed"
  /\ recv' = [recv EXCEPT ![c] = "off"]
  /\ UNCHANGED <<client, calls, disp, queue, mons, conn, stream, item, env>>

\* eventch <- event, to the channel itself: no look at the dispatcher's state,
\* nor again at the connection's.
Post(c) ==
  /\ ~panicked /\ recv[c] = "post" /\ Len(queue) < QueueCap
  /\ queue' = Append(queue, item[c])
  /\ recv' = [recv EXCEPT
                ![c] = IF item[c].type = "Disconnected" THEN "off" ELSE "recv"]
  /\ item' = [item EXCEPT ![c] = Event("none", Nobody, NoBlock)]
  /\ UNCHANGED <<client, calls, disp, mons, conn, stream, env>>

Receive(c) == StreamDelivers(c) \/ ReceiveEnds(c) \/ Post(c)

\* The channel commits a block.
Grow ==
  /\ ~panicked /\ height < MaxHeight
  /\ height' = height + 1
  /\ UNCHANGED <<client, calls, disp, queue, mons, conns, faults>>

-----------------------------------------------------------------------------
Next ==
  \/ \E t \in Threads : Thread(t) \/ Calling(t) \/ ShouldDisconnect(t)
  \/ Monitor
  \/ Dispatcher
  \/ \E c \in Conns : Receive(c) \/ StreamFails(c) \/ StreamEOF(c)
  \/ Grow

Spec == Init /\ [][Next]_vars

\* The scheduler runs every goroutine that can run; which calls are made, what
\* fails and when the ledger grows is up to the environment.
FairSpec ==
  /\ Spec
  /\ \A t \in Threads : WF_vars(Thread(t))
  /\ WF_vars(Dispatcher) /\ WF_vars(Monitor)
  /\ \A c \in Conns : WF_vars(Receive(c))

-----------------------------------------------------------------------------
(* Properties.                                                             *)

Places == {"idle", "check", "cas", "register", "seek", "undo", "connected",
           "reconnect", "giveUp", "close", "info", "listen", "unlisten", "peer"}
          \cup DOMAIN Request \cup {WaitsAt[p] : p \in DOMAIN WaitsAt}
EventTypes == {Request[p] : p \in DOMAIN Request}
  \cup {"none", "StopAndTransfer", "Block", "Status", "StatusFatal"}
Events == [type : EventTypes, th : Threads \cup {Nobody},
           num : Nat \cup {Newest, NoBlock}]

\* The shape of the state.
TypeOK ==
  /\ connState \in {"Disconnected", "Connecting", "Connected"}
  /\ {stopped, registered, panicked, started, connReg, peer, skipNext,
      connEventsClosed} \subseteq BOOLEAN
  /\ seekFrom \in Nat \cup {Newest} /\ userChan \in {"none", "open", "closed"}
  /\ op \in [Threads -> {"none", "reconnect", "peer", "connect"} \cup AppCalls]
  /\ pc \in [Threads -> Places] /\ reply \in [Threads -> {"none", "ok", "err"}]
  /\ todo \subseteq Calls
  /\ queue \in Seq(Events) /\ Len(queue) <= QueueCap
  /\ connection \in Conns \cup {NoConn}
  /\ peerMon \in Threads \cup {Nobody} /\ monDone \subseteq Threads
  /\ lastBlock \in Nat \cup {NoBlock} /\ regs \in Nat /\ published \in Seq(Nat)
  /\ connEvents \in Seq({"connected", "lost", "fatal"})
  /\ Len(connEvents) <= QueueCap
  /\ mon \in {"off", "range", "notify", "second"}
  /\ monEvent \in {"none", "connected", "lost", "fatal"}
  /\ conn \in [Conns -> {"unused", "open", "closed"}]
  /\ stream \in [Conns -> Nat \cup {Newest, NoBlock}]
  /\ recv \in [Conns -> {"off", "recv", "post"}] /\ item \in [Conns -> Events]
  /\ height \in Nat /\ faults \in 0..MaxFaults

\* A connection to a peer is closed before the client forgets it or takes
\* another: every open one is the dispatcher's (HandleConnectEvent, and the two
\* disconnect handlers that late events of earlier connections reach).
OneOpenConnection == \A c \in Conns : conn[c] = "open" => c = connection

\* The places of a thread inside connect(), once its compare-and-swap from
\* Disconnected to Connecting succeeded.
InAttempt(t) == pc[t] \in
  {"connectSend", "connectWait", "register", "registerSend", "registerWait",
   "seek", "seekSend", "seekWait", "undo", "undoSend", "undoWait", "connected"}

\* The connection state keeps attempts apart although the monitor may reset it
\* under a running one: the application's Connect and the reconnects that
\* follow it never run connect() side by side.
OneAttempt == \A t, u \in Threads : InAttempt(t) /\ InAttempt(u) => t = u

\* A client that is not closed is Connecting only while somebody connects;
\* otherwise no attempt could ever start again.
ConnectingIsAnAttempt ==
  connState = "Connecting" /\ ~stopped => \E t \in Threads : InAttempt(t)

\* connState and the goroutines that connect stay in step.
AttemptsSound == OneAttempt /\ ConnectingIsAnAttempt

\* No block reaches the registrations twice or after a later one, from
\* whichever of the connections it comes (updateLastBlockNum).
BlocksInOrder == \A i, j \in DOMAIN published :
                   i < j => published[i] < published[j]

\* Reconnects resume where the stream stopped: the registrations see what they
\* would see on one connection that never breaks.
Stream == INSTANCE BlockStream
            WITH First <- IF LastBlock # NoBlock THEN LastBlock + 1
                          ELSE IF SeekFrom # Newest THEN SeekFrom ELSE 0
ResumesStream == Stream!Spec

\* Whatever the stream, the dispatcher and the other callers are doing, Close
\* comes to its end (it waits for the dispatcher's answer without a timeout).
InClose(t) == pc[t] \in {"close", "closeSend", "closeWait", "stopSend", "stopWait"}
CloseReturns ==
  (\E t \in Threads : InClose(t)) ~> (panicked \/ \A t \in Threads : ~InClose(t))

\* As long as nobody closes the client, a call of Connect, RegisterXXX or
\* CloseIfIdle is answered (all of them wait without a timeout).
Running(c) == \E t \in Threads : op[t] = c
CallsReturn == \A c \in Calls \cap {"connect", "register", "closeIfIdle"} :
                 Running(c) ~> (~Running(c) \/ stopped \/ panicked)

\* Connect and Close come to their end.
AllReturn == CallsReturn /\ CloseReturns

\* A client that was told to stop lets go of its dispatcher, and with it of all
\* registrations, in the end.
StopsDispatcher == stopped ~> (~started \/ panicked)

\* Without the reconnect option a lost connection closes the client: the loss is
\* reported from the stream to the dispatcher, to the monitor, to Close.
LossClosesClient ==
  (~Reconn /\ mon = "range" /\ \E i \in DOMAIN connEvents :
                                 connEvents[i] # "connected")
    ~> (stopped \/ panicked)

-----------------------------------------------------------------------------
(* What the documentation says and the code does not do.                   *)

Quiescent ==
  /\ \A t \in Threads : pc[t] \in {"idle", "peer"}
  /\ queue = <<>> /\ connEvents = <<>> /\ mon = "range"
  /\ \A c \in Conns : recv[c] # "post"

\* With the reconnect option a client that is Connected ("the client is
\* connected to the server", client.go:33) has a connection once nothing is in
\* motion any more: a connection that was lost has been noticed.
LossIsNoticed ==
  Quiescent /\ Reconn /\ ~stopped /\ connState = "Connected"
    => connection # NoConn

=============================================================================
