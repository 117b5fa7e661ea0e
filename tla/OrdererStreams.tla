---------------------------- MODULE OrdererStreams ----------------------------
(***************************************************************************)
(* The streams to the ordering service: SendBroadcast and SendDeliver of   *)
(* pkg/fab/orderer, and the calls of pkg/fab/txn that try one orderer      *)
(* after the other with them (broadcastEnvelope, SendPayload).             *)
(*                                                                         *)
(* Each stream has a goroutine that receives. It hands what it gets to the *)
(* caller over two channels: responses, which is not buffered and is       *)
(* closed at the end, and errs, with room for one. What an orderer sends   *)
(* is kept whole; the stream counts what was received of it. A deadline    *)
(* and a lost connection both break a stream.                              *)
(***************************************************************************)
EXTENDS Naturals, Sequences

CONSTANTS Orderers, MaxSent, MaxCalls, MaxFaults, None

StreamsAssumption ==
  {MaxSent, MaxCalls, MaxFaults} \subseteq Nat /\ None \notin Orderers \cup {"ok", "error"}

VARIABLES
  call,     \* op, at, left (orderers to try), o (the one asked), got (the last
            \* response), failed (an error was read), result
  streams,  \* of the call's orderers: at (of the goroutine), sent, read, errs (in the
            \* channel), closed (the channel of responses), conn (it is held)
  world     \* calls, faults: counted to their bounds

vars == <<call, streams, world>>

NoStream == [at |-> "none", sent |-> <<>>, read |-> 0, errs |-> 0, closed |-> FALSE,
             conn |-> FALSE]
Idle == [op |-> None, at |-> "idle", left |-> {}, o |-> None, got |-> FALSE,
         failed |-> FALSE, result |-> None]
Init == /\ call = Idle
        /\ streams = [o \in Orderers |-> NoStream]
        /\ world = [calls |-> 0, faults |-> 0]

At(s) == call.at = s
O == call.o
S == streams[O]
Stream(o, s) == streams' = [streams EXCEPT ![o] = s]
Fault == world.faults < MaxFaults /\ world' = [world EXCEPT !.faults = @ + 1]
Ended(o) == streams[o].at \in {"none", "ended"}

-----------------------------------------------------------------------------
(* The caller                                                              *)

\* A new call, when the streams of the one before have come to their end
Begin(op) ==
  /\ At("idle") /\ world.calls < MaxCalls /\ \A o \in Orderers : Ended(o)
  /\ call' = [Idle EXCEPT !.op = op, !.at = "next", !.left = Orderers]
  /\ streams' = [o \in Orderers |-> NoStream]
  /\ world' = [world EXCEPT !.calls = @ + 1]

\* The orderers in a random order, until one does it
Try(o) ==
  /\ At("next") /\ o \in call.left
  /\ call' = [call EXCEPT !.at = "dial", !.left = @ \ {o}, !.o = o, !.got = FALSE,
                          !.failed = FALSE]
  /\ UNCHANGED <<streams, world>>
GiveUp ==
  /\ At("next") /\ call.left = {} /\ call' = [call EXCEPT !.at = "idle", !.result = "error"]
  /\ UNCHANGED <<streams, world>>

\* A connection and a stream on it. What SendDeliver finds wrong here it says with its
\* channels.
Dial ==
  /\ At("dial")
  /\ \/ /\ Stream(O, [S EXCEPT !.at = "recv", !.conn = TRUE])
        /\ call' = [call EXCEPT !.at = "send"] /\ UNCHANGED world
     \/ /\ Fault /\ call.op = "broadcast" /\ call' = [call EXCEPT !.at = "next"]
        /\ Stream(O, NoStream)
     \/ /\ Fault /\ call.op = "deliver" /\ call' = [call EXCEPT !.at = "read"]
        /\ Stream(O, [NoStream EXCEPT !.errs = 1, !.closed = TRUE, !.at = "ended"])

\* A stream that is broken cannot be sent to. SendBroadcast leaves then, SendDeliver
\* does not.
Send ==
  /\ At("send") /\ UNCHANGED world
  /\ \/ /\ S.sent = <<>> /\ call' = [call EXCEPT !.at = "read"]
        /\ Stream(O, [S EXCEPT !.sent = <<"envelope">>, !.read = 1])
     \/ /\ S.sent # <<>>
        /\ IF call.op = "deliver" THEN call' = [call EXCEPT !.at = "read"] /\ UNCHANGED streams
           ELSE call' = [call EXCEPT !.at = "next"] /\ Stream(O, [S EXCEPT !.conn = FALSE])

\* wrapStreamStatusRPC and sendEnvelope: both channels are read until the responses end.
\* slip: until there is an error
ReadUntilError ==
  /\ At("read") /\ S.errs > 0 /\ Stream(O, [S EXCEPT !.errs = 0])
  /\ call' = [call EXCEPT !.failed = TRUE, !.at = "drained"] /\ UNCHANGED world
ReadError ==
  /\ At("read") /\ S.errs > 0 /\ Stream(O, [S EXCEPT !.errs = 0])
  /\ call' = [call EXCEPT !.failed = TRUE] /\ UNCHANGED world
ReadResponse ==
  /\ At("read") /\ S.at = "put" /\ Stream(O, [S EXCEPT !.at = "recv"])
  /\ call' = [call EXCEPT !.got = TRUE] /\ UNCHANGED world
ReadClosed ==
  /\ At("read") /\ S.closed
  /\ call' = [call EXCEPT !.at = "drain"] /\ UNCHANGED <<streams, world>>

\* slip: an error that was put before the channel was closed is left in its own
LeaveErrors ==
  /\ At("drain") /\ call' = [call EXCEPT !.at = "drained"] /\ UNCHANGED <<streams, world>>
Drain ==
  /\ At("drain") /\ UNCHANGED world
  /\ call' = [call EXCEPT !.at = "drained", !.failed = @ \/ S.errs > 0]
  /\ Stream(O, [S EXCEPT !.errs = 0])

\* The connection of a broadcast is released when it returns.
Drained ==
  /\ At("drained") /\ UNCHANGED world
  /\ Stream(O, [S EXCEPT !.conn = @ /\ call.op = "deliver"])
  /\ call' = IF call.failed THEN [call EXCEPT !.at = "next"]
             ELSE [call EXCEPT !.at = "idle", !.result = "ok"]

-----------------------------------------------------------------------------
(* The goroutine: broadcastStream and blockStream                          *)

\* A status of success ends nothing, and of a delivery it is no response.
Next1(s, m) ==
  CASE m \in {"success", "block"} -> [s EXCEPT !.at = "put"]
    [] m = "refusal" -> [s EXCEPT !.at = "complain"]
    [] m = "broken" -> [s EXCEPT !.at = "last"]
    [] m = "eof" -> [s EXCEPT !.at = "close"]
    [] OTHER -> s
Recv(o) ==
  LET s == streams[o] IN
  /\ s.at = "recv" /\ s.read < Len(s.sent) /\ UNCHANGED <<call, world>>
  /\ Stream(o, Next1([s EXCEPT !.read = @ + 1], s.sent[s.read + 1]))
\* slip: without waiting for the one before to be read
PutErrorAtOnce(o) ==
  LET s == streams[o] IN
  /\ s.at \in {"complain", "last"} /\ UNCHANGED <<call, world>>
  /\ Stream(o, [s EXCEPT !.errs = @ + 1, !.at = IF s.at = "last" THEN "close" ELSE "recv"])
PutError(o) ==
  LET s == streams[o] IN
  /\ s.at \in {"complain", "last"} /\ s.errs = 0 /\ UNCHANGED <<call, world>>
  /\ Stream(o, [s EXCEPT !.errs = 1, !.at = IF s.at = "last" THEN "close" ELSE "recv"])
CloseResponses(o) ==
  /\ streams[o].at = "close" /\ UNCHANGED <<call, world>>
  /\ Stream(o, [streams[o] EXCEPT !.closed = TRUE, !.at = "release"])
\* The connection of a delivery is the goroutine's.
Release(o) ==
  /\ streams[o].at = "release" /\ UNCHANGED <<call, world>>
  /\ Stream(o, [streams[o] EXCEPT !.at = "ended", !.conn = @ /\ call.op = "broadcast"])

-----------------------------------------------------------------------------
(* The orderer, and what is between it and the client                      *)

Over(s) == s.sent # <<>> /\ s.sent[Len(s.sent)] \in {"eof", "broken"}
Sends(o, m) == Stream(o, [streams[o] EXCEPT !.sent = Append(@, m)])
Answer(o) ==
  /\ ~Ended(o) /\ streams[o].sent # <<>> /\ ~Over(streams[o]) /\ UNCHANGED <<call, world>>
  /\ Len(streams[o].sent) <= MaxSent
  /\ \E m \in {"refusal"} \cup IF call.op = "deliver" THEN {"block", "done"} ELSE {"success"} :
       Sends(o, m)
\* It ends a stream when it has answered; or before that, which is rare.
HangUp(o) ==
  /\ ~Ended(o) /\ streams[o].sent # <<>> /\ ~Over(streams[o]) /\ UNCHANGED call /\ Sends(o, "eof")
  /\ Len(streams[o].sent) = 1 => Fault
  /\ Len(streams[o].sent) > 1 => UNCHANGED world
Expire(o) == ~Ended(o) /\ ~Over(streams[o]) /\ Sends(o, "broken") /\ UNCHANGED <<call, world>>

Caller == \/ \E o \in Orderers : Try(o)
          \/ GiveUp \/ Dial \/ Send \/ ReadError \/ ReadResponse \/ ReadClosed
          \/ Drain \/ Drained
Goroutine(o) == Recv(o) \/ PutError(o) \/ CloseResponses(o) \/ Release(o)
Next ==
  \/ \E op \in {"broadcast", "deliver"} : Begin(op)
  \/ \E o \in Orderers : Try(o) \/ Recv(o) \/ PutError(o) \/ CloseResponses(o) \/ Release(o)
  \/ GiveUp \/ Dial \/ Send \/ ReadError \/ ReadResponse \/ ReadClosed \/ Drain \/ Drained
  \/ \E o \in Orderers : Answer(o) \/ HangUp(o) \/ Expire(o)
Spec == Init /\ [][Next]_vars
\* Every context of a stream has a deadline.
FairSpec == /\ Spec /\ WF_vars(Caller)
            /\ \A o \in Orderers : WF_vars(Goroutine(o)) /\ WF_vars(Expire(o))

-----------------------------------------------------------------------------
(* Properties                                                              *)

\* The shape of the state.
TypeOK ==
  /\ call \in [op : {None, "broadcast", "deliver"},
               at : {"idle", "next", "dial", "send", "read", "drain", "drained"},
               left : SUBSET Orderers, o : Orderers \cup {None}, got : BOOLEAN,
               failed : BOOLEAN, result : {None, "ok", "error"}]
  /\ world \in [calls : 0 .. MaxCalls, faults : 0 .. MaxFaults]
  /\ \A o \in Orderers :
       /\ streams[o].at \in {"none", "recv", "put", "complain", "last", "close", "release",
                             "ended"}
       /\ streams[o].read <= Len(streams[o].sent) /\ Len(streams[o].sent) <= MaxSent + 2
       /\ streams[o].errs \in 0 .. 1                              \* the channel's capacity

Sent(o) == {streams[o].sent[i] : i \in DOMAIN streams[o].sent}
\* No error of a stream gets lost between the two channels: a call that succeeds read its
\* stream to an end that nothing went wrong before.
OkIsUndisturbed ==
  call.result = "ok" => Over(S) /\ Sent(O) \cap {"refusal", "broken"} = {}

\* "Receive Success Response from orderer" (sendBroadcast): what succeeds was answered.
OkIsAnswered ==
  call.result = "ok" => Sent(O) \cap {"success", "block"} # {}

\* No goroutine is left behind, and every connection is released, whichever way the
\* stream and the call end.
Left(o) == Ended(o) /\ ~streams[o].conn
StreamsEnd == \A o \in Orderers : streams[o].at = "recv" ~> Left(o)
=============================================================================
