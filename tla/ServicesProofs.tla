----------------------------- MODULE ServicesProofs -----------------------------
(***************************************************************************)
(* Proofs about the services that a channel context runs, each for every   *)
(* number of users, peers, orderers and targets, and about the run that    *)
(* has one of them take the steps (MCServices). Of each part: its          *)
(* inductive invariant, that it holds at first, that every step keeps it,  *)
(* and what follows from it.                                               *)
(***************************************************************************)
EXTENDS MCServices, FiniteSetTheorems, TLAPS

(***************************************************************************)
(* The streams to orderers. An error that a goroutine has received is on   *)
(* its way until the caller has read it, and a stream that came to its end *)
(* was received to the end.                                                *)
(***************************************************************************)

Messages == {"envelope", "success", "block", "done", "refusal", "broken", "eof"}
Bad == {"refusal", "broken"}
StreamRecord ==
  [at : {"none", "recv", "put", "complain", "last", "close", "release", "ended"},
   sent : Seq(Messages), read : Nat, errs : 0 .. 1, closed : BOOLEAN, conn : BOOLEAN]

\* The state has its types, and who has asked an orderer is at one.
Asking == call.at \in {"dial", "send", "read", "drain", "drained"}
StreamShape ==
  /\ call \in [op : {None, "broadcast", "deliver"},
               at : {"idle", "next", "dial", "send", "read", "drain", "drained"},
               left : SUBSET Orderers, o : Orderers \cup {None}, got : BOOLEAN,
               failed : BOOLEAN, result : {None, "ok", "error"}]
  /\ world \in [calls : 0 .. MaxCalls, faults : 0 .. MaxFaults]
  /\ streams \in [Orderers -> StreamRecord]
  /\ Asking \/ call.result = "ok" => call.o \in Orderers
  /\ call.result # None => call.at = "idle"

\* Nothing is sent after the end of a stream; its goroutine comes to its own end when it has
\* received all of it.
Received(s) ==
  /\ s.read <= Len(s.sent)
  /\ Len(s.sent) <= MaxSent + 1 \/ (Streams!Over(s) /\ Len(s.sent) <= MaxSent + 2)
  /\ s.at \in {"last", "close", "release"} => Streams!Over(s) /\ s.read = Len(s.sent)
  /\ s.at = "ended" => s.sent = <<>> \/ (Streams!Over(s) /\ s.read = Len(s.sent))
  /\ s.closed => s.at \in {"release", "ended"}
  /\ \A i \in 1 .. Len(s.sent) - 1 : s.sent[i] \notin {"eof", "broken"}

\* Of an orderer that is not asked yet there is no stream, and a stream waits for what is
\* sent.
Untried ==
  /\ \A o \in call.left : streams[o] = Streams!NoStream
  /\ Asking => call.o \notin call.left
  /\ call.at = "dial" => streams[call.o] = Streams!NoStream
  /\ call.at = "send" /\ streams[call.o].sent = <<>> => streams[call.o].at = "recv"

\* An error that was received, or that there was before the stream, is going to be read or
\* was read.
Wrong(s) == \E i \in 1 .. s.read : s.sent[i] \in Bad
Underway(s) == s.at \in {"complain", "last"} \/ s.errs > 0
ErrorsAreTold ==
  /\ call.at \in {"send", "read", "drain", "drained"} /\ Wrong(streams[call.o]) =>
       Underway(streams[call.o]) \/ call.failed
  /\ call.at \in {"read", "drain", "drained"} /\ streams[call.o].sent = <<>> =>
       Underway(streams[call.o]) \/ call.failed
  /\ call.at \in {"drain", "drained"} => streams[call.o].closed
  /\ call.at = "drained" => streams[call.o].errs = 0

StreamInv ==
  /\ StreamShape /\ (\A o \in Orderers : Received(streams[o]))
  /\ Untried /\ ErrorsAreTold /\ Streams!OkIsUndisturbed

-----------------------------------------------------------------------------
LEMMA InitStreamInv ==
  ASSUME Streams!StreamsAssumption, Streams!Init
  PROVE  StreamInv
<1> USE DEF Streams!Init, Streams!StreamsAssumption
<1>1. Streams!NoStream \in StreamRecord /\ Received(Streams!NoStream)
  BY DEF StreamRecord, Received, Streams!NoStream
<1>2. StreamShape
  BY <1>1 DEF StreamShape, Asking, Streams!Idle
<1>3. Untried /\ ErrorsAreTold /\ Streams!OkIsUndisturbed
  BY DEF Untried, ErrorsAreTold, Asking, Streams!OkIsUndisturbed, Streams!Idle
<1> QED
  BY <1>1, <1>2, <1>3 DEF StreamInv

\* A message more: what there was stays where it was.
LEMMA SentOneMore ==
  ASSUME NEW s \in StreamRecord, NEW m \in Messages
  PROVE  /\ [s EXCEPT !.sent = Append(@, m)] \in StreamRecord
         /\ Len(Append(s.sent, m)) = Len(s.sent) + 1
         /\ Append(s.sent, m)[Len(s.sent) + 1] = m
         /\ \A i \in 1 .. Len(s.sent) : Append(s.sent, m)[i] = s.sent[i]
         /\ Len(s.sent) \in Nat
BY DEF StreamRecord

\* What an orderer sends ends its stream or is one of a bounded number.
LEMMA SendingKeepsReceived ==
  ASSUME Streams!StreamsAssumption, NEW s \in StreamRecord, NEW m \in Messages, Received(s),
         ~Streams!Over(s), s.at \notin {"none", "ended"},
         Len(s.sent) <= MaxSent \/ m \in {"eof", "broken"}
  PROVE  /\ [s EXCEPT !.sent = Append(@, m)] \in StreamRecord
         /\ Received([s EXCEPT !.sent = Append(@, m)])
<1> DEFINE n == [s EXCEPT !.sent = Append(@, m)]
<1>1. /\ n \in StreamRecord /\ n.sent = Append(s.sent, m) /\ n.at = s.at /\ n.read = s.read
      /\ n.closed = s.closed
  BY SentOneMore DEF StreamRecord
<1>2. /\ Len(n.sent) = Len(s.sent) + 1 /\ n.sent[Len(s.sent) + 1] = m
      /\ \A i \in 1 .. Len(s.sent) : n.sent[i] = s.sent[i]
      /\ Len(s.sent) \in Nat /\ s.read \in Nat
  BY <1>1, SentOneMore DEF StreamRecord
<1>3. n.sent # <<>>
  BY <1>1, <1>2
<1>4. Len(s.sent) > 0 => s.sent[Len(s.sent)] \notin {"eof", "broken"}
  <2>1. s.sent \in Seq(Messages)
    BY DEF StreamRecord
  <2> QED
    BY <2>1 DEF Streams!Over
<1>5. \A i \in 1 .. Len(n.sent) - 1 : n.sent[i] \notin {"eof", "broken"}
  BY <1>2, <1>4 DEF Received
<1>6. s.at \notin {"last", "close", "release", "ended"} /\ ~s.closed
  BY DEF Received
<1>7. MaxSent \in Nat
  BY DEF Streams!StreamsAssumption
<1>8. Len(n.sent) <= MaxSent + 1 \/ (Streams!Over(n) /\ Len(n.sent) <= MaxSent + 2)
  <2>1. Len(s.sent) <= MaxSent + 1
    BY <1>7, <1>2 DEF Received
  <2>2. m \in {"eof", "broken"} => Streams!Over(n)
    BY <1>2, <1>3 DEF Streams!Over
  <2> QED
    BY <2>1, <2>2, <1>2, <1>7
<1> HIDE DEF n
<1>9. Received(n)
  BY <1>1, <1>2, <1>5, <1>6, <1>8 DEF Received
<1> QED
  BY <1>1, <1>9 DEF n

\* What the steps write of a stream is a stream.
Edited(s, b) ==
  {Streams!NoStream, [s EXCEPT !.at = "recv", !.conn = TRUE],
   [Streams!NoStream EXCEPT !.errs = 1, !.closed = TRUE, !.at = "ended"],
   [s EXCEPT !.sent = <<"envelope">>, !.read = 1],
   [s EXCEPT !.conn = FALSE], [s EXCEPT !.errs = 0], [s EXCEPT !.at = "recv"],
   [s EXCEPT !.conn = @ /\ b],
   Streams!Next1([s EXCEPT !.read = @ + 1], s.sent[s.read + 1]),
   [s EXCEPT !.errs = 1, !.at = IF s.at = "last" THEN "close" ELSE "recv"],
   [s EXCEPT !.closed = TRUE, !.at = "release"],
   [s EXCEPT !.at = "ended", !.conn = @ /\ b]}
LEMMA StreamEdits ==
  ASSUME NEW s \in StreamRecord, NEW b \in BOOLEAN
  PROVE  Edited(s, b) \subseteq StreamRecord
<1>1. <<"envelope">> \in Seq(Messages)
  BY DEF Messages
<1>2. /\ [s EXCEPT !.read = @ + 1] \in StreamRecord
      /\ \A n \in StreamRecord, a \in {"put", "complain", "last", "close"} :
           [n EXCEPT !.at = a] \in StreamRecord
  BY DEF StreamRecord
<1>3. Streams!Next1([s EXCEPT !.read = @ + 1], s.sent[s.read + 1]) \in StreamRecord
  BY <1>2 DEF Streams!Next1
<1>4. /\ [s EXCEPT !.conn = FALSE] \in StreamRecord
      /\ [s EXCEPT !.at = "recv"] \in StreamRecord
  BY DEF StreamRecord
<1>8. [s EXCEPT !.at = "recv", !.conn = TRUE] \in StreamRecord
  BY DEF StreamRecord
<1>9. [s EXCEPT !.sent = <<"envelope">>, !.read = 1] \in StreamRecord
  BY <1>1 DEF StreamRecord
<1>10. [s EXCEPT !.errs = 0] \in StreamRecord
  <2>1. 0 \in 0 .. 1
    OBVIOUS
  <2> QED
    BY <2>1, Zenon DEF StreamRecord
<1>5. /\ [s EXCEPT !.conn = @ /\ b] \in StreamRecord
      /\ [s EXCEPT !.at = "ended", !.conn = @ /\ b] \in StreamRecord
      /\ [s EXCEPT !.closed = TRUE, !.at = "release"] \in StreamRecord
  <2>1. (s.conn /\ b) \in BOOLEAN
    BY DEF StreamRecord
  <2> QED
    BY <2>1 DEF StreamRecord
<1>6. [s EXCEPT !.errs = 1, !.at = IF s.at = "last" THEN "close" ELSE "recv"] \in StreamRecord
  <2>1. /\ 1 \in 0 .. 1
        /\ (IF s.at = "last" THEN "close" ELSE "recv") \in {"close", "recv"}
    OBVIOUS
  <2> QED
    BY <2>1 DEF StreamRecord
<1>7. /\ Streams!NoStream \in StreamRecord
      /\ [Streams!NoStream EXCEPT !.errs = 1, !.closed = TRUE, !.at = "ended"] \in StreamRecord
  <2>1. Streams!NoStream \in StreamRecord
    BY DEF StreamRecord, Streams!NoStream
  <2>2. 1 \in 0 .. 1
    OBVIOUS
  <2> QED
    BY <2>1, <2>2 DEF StreamRecord
<1> QED
  BY <1>3, <1>4, <1>5, <1>6, <1>7, <1>8, <1>9, <1>10, Zenon DEF Edited

\* A sequence that is not empty has a last element.
LEMMA SomeLength ==
  ASSUME NEW S, NEW q \in Seq(S), q # <<>>
  PROVE  Len(q) \in Nat /\ Len(q) >= 1 /\ (Len(q) = 1 \/ Len(q) > 1) /\ q[Len(q)] \in S
<1>1. Len(q) \in Nat /\ Len(q) # 0
  OBVIOUS
<1>2. Len(q) >= 1 /\ (Len(q) = 1 \/ Len(q) > 1)
  <2>1. \A n \in Nat : n # 0 => n >= 1 /\ (n = 1 \/ n > 1)
    OBVIOUS
  <2> QED
    BY <1>1, <2>1, Zenon
<1>3. q[Len(q)] \in S
  BY <1>1, <1>2
<1> QED
  BY <1>1, <1>2, <1>3

\* Every step keeps the types.
LEMMA StreamShapeStep ==
  ASSUME Streams!StreamsAssumption, StreamInv, [Streams!Next]_(Streams!vars)
  PROVE  StreamShape'
<1>0. /\ StreamShape /\ \A o \in Orderers : Received(streams[o])
      /\ {MaxSent, MaxCalls, MaxFaults} \subseteq Nat
      /\ None \notin Orderers \cup {"ok", "error"}
  BY DEF StreamInv, Streams!StreamsAssumption
<1>1. Asking => call.o \in Orderers /\ streams[call.o] \in StreamRecord
  BY <1>0 DEF StreamShape
<1>2. Streams!NoStream \in StreamRecord
  BY DEF StreamRecord, Streams!NoStream
<1> USE <1>0, <1>1, <1>2 DEF StreamShape, Asking, Streams!At, Streams!Fault
<1>3. ASSUME NEW op \in {"broadcast", "deliver"}, Streams!Begin(op)
      PROVE  StreamShape'
  <2>1. streams' \in [Orderers -> StreamRecord]
    BY <1>3 DEF Streams!Begin
  <2>2. world' \in [calls : 0 .. MaxCalls, faults : 0 .. MaxFaults]
    BY <1>3 DEF Streams!Begin
  <2> QED
    BY <1>3, <2>1, <2>2 DEF Streams!Begin, Streams!Idle
<1>4. ASSUME NEW o \in Orderers, Streams!Try(o)
      PROVE  StreamShape'
  BY <1>4 DEF Streams!Try
<1>5. ASSUME Streams!GiveUp
      PROVE  StreamShape'
  BY <1>5 DEF Streams!GiveUp
<1>6. ASSUME Streams!Dial \/ Streams!Send \/ Streams!ReadError \/ Streams!ReadResponse
               \/ Streams!ReadClosed \/ Streams!Drain \/ Streams!Drained
      PROVE  StreamShape'
  <2> DEFINE s == streams[call.o]
  <2>1. Asking /\ s \in StreamRecord /\ call.op \in {None, "broadcast", "deliver"}
    BY <1>6 DEF Streams!Dial, Streams!Send, Streams!ReadError, Streams!ReadResponse,
                Streams!ReadClosed, Streams!Drain, Streams!Drained
  <2>2. \E n \in StreamRecord : streams' = [streams EXCEPT ![call.o] = n]
    <3>1. CASE UNCHANGED streams
      BY <2>1, <3>1
    <3>2. CASE ~UNCHANGED streams
      <4>1. PICK n \in Edited(s, call.op = "deliver") : streams' = [streams EXCEPT ![call.o] = n]
        BY <1>6, <3>2, Zenon DEF Streams!Dial, Streams!Send, Streams!ReadError,
           Streams!ReadResponse, Streams!ReadClosed, Streams!Drain, Streams!Drained,
           Streams!Stream, Streams!O, Streams!S, Edited
      <4>2. n \in StreamRecord
        <5>1. (call.op = "deliver") \in BOOLEAN
          OBVIOUS
        <5> QED
          BY <2>1, <4>1, <5>1, StreamEdits, Zenon
      <4> QED
        BY <4>1, <4>2, Zenon
    <3> QED
      BY <3>1, <3>2
  <2>3. streams' \in [Orderers -> StreamRecord]
    BY <2>1, <2>2
  <2>4. /\ call' \in [op : {None, "broadcast", "deliver"},
               at : {"idle", "next", "dial", "send", "read", "drain", "drained"},
               left : SUBSET Orderers, o : Orderers \cup {None}, got : BOOLEAN,
               failed : BOOLEAN, result : {None, "ok", "error"}]
        /\ call'.o = call.o /\ (call'.result # None => call'.at = "idle")
    <3>1. CASE Streams!Dial \/ Streams!Send
      BY <2>1, <3>1 DEF Streams!Dial, Streams!Send
    <3>2. CASE Streams!ReadError \/ Streams!ReadResponse \/ Streams!ReadClosed
      BY <2>1, <3>2 DEF Streams!ReadError, Streams!ReadResponse, Streams!ReadClosed
    <3>3. CASE Streams!Drain
      <4>1. (call.failed \/ streams[call.o].errs > 0) \in BOOLEAN
        OBVIOUS
      <4> QED
        BY <2>1, <3>3, <4>1 DEF Streams!Drain, Streams!S, Streams!O
    <3>4. CASE Streams!Drained
      BY <2>1, <3>4 DEF Streams!Drained
    <3> QED
      BY <1>6, <3>1, <3>2, <3>3, <3>4
  <2>5. world' \in [calls : 0 .. MaxCalls, faults : 0 .. MaxFaults]
    BY <1>6 DEF Streams!Dial, Streams!Send, Streams!ReadError, Streams!ReadResponse,
                Streams!ReadClosed, Streams!Drain, Streams!Drained
  <2> QED
    BY <2>1, <2>3, <2>4, <2>5
<1>10. ASSUME NEW o \in Orderers,
              Streams!Recv(o) \/ Streams!PutError(o) \/ Streams!CloseResponses(o)
                \/ Streams!Release(o) \/ Streams!Answer(o) \/ Streams!HangUp(o)
                \/ Streams!Expire(o)
       PROVE  StreamShape'
  <2> DEFINE s == streams[o]
  <2>1. /\ s \in StreamRecord /\ s.read \in Nat
        /\ \E n \in StreamRecord : streams' = [streams EXCEPT ![o] = n]
    <3>1. s \in StreamRecord /\ s.read \in Nat
      BY DEF StreamRecord
    <3>2. CASE Streams!Recv(o) \/ Streams!PutError(o) \/ Streams!CloseResponses(o)
                 \/ Streams!Release(o)
      <4>1. PICK n \in Edited(s, call.op = "broadcast") : streams' = [streams EXCEPT ![o] = n]
        BY <3>2, Zenon DEF Streams!Recv, Streams!PutError, Streams!CloseResponses,
           Streams!Release, Streams!Stream, Edited
      <4>2. n \in StreamRecord
        <5>1. (call.op = "broadcast") \in BOOLEAN
          OBVIOUS
        <5> QED
          BY <3>1, <4>1, <5>1, StreamEdits, Zenon
      <4> QED
        BY <3>1, <4>1, <4>2, Zenon
    <3>6. CASE Streams!Answer(o) \/ Streams!HangUp(o) \/ Streams!Expire(o)
      <4>1. PICK m \in Messages : streams' = [streams EXCEPT ![o] = [s EXCEPT !.sent = Append(@, m)]]
        BY <3>6, Zenon DEF Streams!Answer, Streams!HangUp, Streams!Expire, Streams!Sends,
           Streams!Stream, Messages
      <4>2. [s EXCEPT !.sent = Append(@, m)] \in StreamRecord
        BY <3>1, SentOneMore
      <4> QED
        BY <3>1, <4>1, <4>2, Zenon
    <3> QED
      BY <1>10, <3>1, <3>2, <3>6
  <2>2. streams' \in [Orderers -> StreamRecord] /\ UNCHANGED call
    BY <1>10, <2>1 DEF Streams!Stream, Streams!Sends, Streams!Recv, Streams!PutError, Streams!CloseResponses, Streams!Release,
                  Streams!Answer, Streams!HangUp, Streams!Expire
  <2>3. world' \in [calls : 0 .. MaxCalls, faults : 0 .. MaxFaults]
    <3>1. UNCHANGED world \/ Streams!Fault
      <4>1. CASE Streams!HangUp(o)
        <5>1. Len(s.sent) = 1 \/ Len(s.sent) > 1
          <6>1. s.sent \in Seq(Messages) /\ s.sent # <<>>
            BY <4>1, <2>1 DEF Streams!HangUp, StreamRecord
          <6> QED
            BY <6>1, SomeLength, Zenon
        <5> QED
          BY <4>1, <5>1 DEF Streams!HangUp
      <4> QED
        BY <1>10, <4>1 DEF Streams!Recv, Streams!PutError, Streams!CloseResponses, Streams!Release,
                           Streams!Answer, Streams!Expire
    <3> QED
      BY <3>1
  <2> QED
    BY <2>2, <2>3
<1>11. CASE UNCHANGED Streams!vars
  BY <1>11 DEF Streams!vars
<1> QED
  BY <1>3, <1>4, <1>5, <1>6, <1>10, <1>11 DEF Streams!Next

\* Of a stream: every step of anybody keeps Received, and none goes on behind its end.
LEMMA EditsKeepReceived ==
  ASSUME Streams!StreamsAssumption, NEW s \in StreamRecord, Received(s), NEW b \in BOOLEAN
  PROVE  /\ Received(Streams!NoStream)
         /\ Received([Streams!NoStream EXCEPT !.errs = 1, !.closed = TRUE, !.at = "ended"])
         /\ Received([s EXCEPT !.conn = b]) /\ Received([s EXCEPT !.errs = 0])
         /\ s.at = "put" => Received([s EXCEPT !.at = "recv"])
         /\ s = Streams!NoStream => Received([s EXCEPT !.at = "recv", !.conn = TRUE])
         /\ s.sent = <<>> /\ s.at = "recv" =>
              Received([s EXCEPT !.sent = <<"envelope">>, !.read = 1])
         /\ s.at \in {"complain", "last"} =>
              Received([s EXCEPT !.errs = 1, !.at = IF s.at = "last" THEN "close" ELSE "recv"])
         /\ s.at = "close" => Received([s EXCEPT !.closed = TRUE, !.at = "release"])
         /\ s.at = "release" => Received([s EXCEPT !.at = "ended", !.conn = b])
<1>0. MaxSent \in Nat /\ s.sent \in Seq(Messages) /\ s.read \in Nat
  BY DEF Streams!StreamsAssumption, StreamRecord
<1>1. /\ Len(<<>>) = 0 /\ Len(<<"envelope">>) = 1 /\ <<"envelope">>[1] = "envelope"
  OBVIOUS
<1>2. Received(Streams!NoStream)
  BY <1>0, <1>1 DEF Received, Streams!NoStream
<1>3. Received([Streams!NoStream EXCEPT !.errs = 1, !.closed = TRUE, !.at = "ended"])
  BY <1>0, <1>1 DEF Received, Streams!NoStream
<1>4. ASSUME NEW n \in StreamRecord, n.sent = s.sent, n.read = s.read, n.closed = s.closed,
             n.at = s.at
      PROVE  Received(n)
  BY <1>4 DEF Received, Streams!Over
<1>5. Received([s EXCEPT !.conn = b]) /\ Received([s EXCEPT !.errs = 0])
  <2>1. [s EXCEPT !.conn = b] \in StreamRecord
    BY DEF StreamRecord
  <2>2. [s EXCEPT !.errs = 0] \in StreamRecord
    BY b \in BOOLEAN, StreamEdits DEF Edited
  <2>3. /\ LET n == [s EXCEPT !.conn = b] IN
             n.sent = s.sent /\ n.read = s.read /\ n.closed = s.closed /\ n.at = s.at
        /\ LET n == [s EXCEPT !.errs = 0] IN
             n.sent = s.sent /\ n.read = s.read /\ n.closed = s.closed /\ n.at = s.at
    BY DEF StreamRecord
  <2> QED
    BY <1>4, <2>1, <2>2, <2>3
<1>6. ASSUME s.at = "put"
      PROVE  Received([s EXCEPT !.at = "recv"])
  BY <1>6 DEF Received, Streams!Over, StreamRecord
<1>7. ASSUME s = Streams!NoStream
      PROVE  Received([s EXCEPT !.at = "recv", !.conn = TRUE])
  BY <1>0, <1>1, <1>7 DEF Received, Streams!NoStream
<1>8. ASSUME s.sent = <<>>, s.at = "recv"
      PROVE  Received([s EXCEPT !.sent = <<"envelope">>, !.read = 1])
  BY <1>0, <1>1, <1>8 DEF Received, StreamRecord
<1>9. ASSUME s.at \in {"complain", "last"}
      PROVE  Received([s EXCEPT !.errs = 1, !.at = IF s.at = "last" THEN "close" ELSE "recv"])
  BY <1>9 DEF Received, Streams!Over, StreamRecord
<1>10. ASSUME s.at = "close"
       PROVE  Received([s EXCEPT !.closed = TRUE, !.at = "release"])
  BY <1>10 DEF Received, Streams!Over, StreamRecord
<1>11. ASSUME s.at = "release"
       PROVE  Received([s EXCEPT !.at = "ended", !.conn = b])
  BY <1>11 DEF Received, Streams!Over, StreamRecord
<1> QED
  BY <1>2, <1>3, <1>5, <1>6, <1>7, <1>8, <1>9, <1>10, <1>11

LEMMA ReceivedStep ==
  ASSUME Streams!StreamsAssumption, StreamInv, [Streams!Next]_(Streams!vars)
  PROVE  \A o \in Orderers : Received(streams'[o])
<1>0. /\ \A o \in Orderers : streams[o] \in StreamRecord /\ Received(streams[o])
      /\ Streams!NoStream \in StreamRecord
      /\ streams \in [Orderers -> StreamRecord]
      /\ Asking => call.o \in Orderers
      /\ (call.op = "deliver") \in BOOLEAN /\ (call.op = "broadcast") \in BOOLEAN
  BY DEF StreamInv, StreamShape, StreamRecord, Streams!NoStream
<1>1. ASSUME NEW o \in Orderers, NEW n, Received(n), streams' = [streams EXCEPT ![o] = n]
      PROVE  \A p \in Orderers : Received(streams'[p])
  BY <1>0, <1>1
<1>2. Received(Streams!NoStream)
  <2>1. MaxSent \in Nat /\ Len(<<>>) = 0
    BY DEF Streams!StreamsAssumption
  <2> QED
    BY <2>1 DEF Received, Streams!NoStream
<1>3. ASSUME NEW op \in {"broadcast", "deliver"}, Streams!Begin(op)
      PROVE  \A o \in Orderers : Received(streams'[o])
  BY <1>2, <1>3 DEF Streams!Begin
<1>4. ASSUME \/ \E o \in Orderers : Streams!Try(o)
             \/ Streams!GiveUp \/ Streams!ReadClosed \/ UNCHANGED Streams!vars
      PROVE  \A o \in Orderers : Received(streams'[o])
  <2>1. UNCHANGED streams
    BY <1>4 DEF Streams!Try, Streams!GiveUp, Streams!ReadClosed, Streams!vars
  <2> QED
    BY <1>0, <2>1
<1>5. ASSUME Streams!Dial \/ Streams!Send \/ Streams!ReadError \/ Streams!ReadResponse
               \/ Streams!Drain \/ Streams!Drained
      PROVE  \A o \in Orderers : Received(streams'[o])
  <2> DEFINE s == streams[call.o]
  <2>1. Asking /\ call.o \in Orderers /\ s \in StreamRecord /\ Received(s)
    <3>1. Asking
      BY <1>5 DEF Streams!Dial, Streams!Send, Streams!ReadError, Streams!ReadResponse,
                  Streams!Drain, Streams!Drained, Streams!At, Asking
    <3> QED
      BY <1>0, <3>1
  <2> SUFFICES \/ UNCHANGED streams
               \/ \E n : Received(n) /\ streams' = [streams EXCEPT ![call.o] = n]
    BY <1>0, <1>1, <2>1
  <2> USE DEF Streams!Stream, Streams!O, Streams!S, Streams!At
  <2>2. CASE Streams!Dial
    <3>1. s = Streams!NoStream
      BY <2>2 DEF Streams!Dial, StreamInv, Untried
    <3>2. /\ Received([s EXCEPT !.at = "recv", !.conn = TRUE])
          /\ Received([Streams!NoStream EXCEPT !.errs = 1, !.closed = TRUE, !.at = "ended"])
      BY <2>1, <3>1, EditsKeepReceived
    <3> QED
      BY <1>2, <2>2, <3>2 DEF Streams!Dial
  <2>3. CASE Streams!Send
    <3>1. s.sent = <<>> => s.at = "recv"
      BY <2>3 DEF Streams!Send, StreamInv, Untried
    <3>2. /\ s.sent = <<>> => Received([s EXCEPT !.sent = <<"envelope">>, !.read = 1])
          /\ Received([s EXCEPT !.conn = FALSE])
      BY <2>1, <3>1, EditsKeepReceived
    <3> QED
      BY <2>3, <3>2 DEF Streams!Send
  <2>4. CASE Streams!ReadError \/ Streams!Drain
    <3>1. Received([s EXCEPT !.errs = 0])
      BY <2>1, EditsKeepReceived
    <3> QED
      BY <2>4, <3>1 DEF Streams!ReadError, Streams!Drain
  <2>5. CASE Streams!ReadResponse
    <3>1. s.at = "put" => Received([s EXCEPT !.at = "recv"])
      BY <2>1, EditsKeepReceived
    <3> QED
      BY <2>5, <3>1 DEF Streams!ReadResponse
  <2>6. CASE Streams!Drained
    <3>1. /\ (s.conn /\ call.op = "deliver") \in BOOLEAN
          /\ [s EXCEPT !.conn = @ /\ call.op = "deliver"]
               = [s EXCEPT !.conn = s.conn /\ call.op = "deliver"]
      BY <2>1 DEF StreamRecord
    <3>2. Received([s EXCEPT !.conn = s.conn /\ call.op = "deliver"])
      BY <2>1, <3>1, EditsKeepReceived
    <3> QED
      BY <2>6, <3>1, <3>2 DEF Streams!Drained
  <2> QED
    BY <1>5, <2>2, <2>3, <2>4, <2>5, <2>6
<1>6. ASSUME NEW o \in Orderers, Streams!Recv(o)
      PROVE  \A p \in Orderers : Received(streams'[p])
  <2> DEFINE s == streams[o]
             n == Streams!Next1([s EXCEPT !.read = @ + 1], s.sent[s.read + 1])
  <2>1. /\ s \in StreamRecord /\ Received(s) /\ s.at = "recv" /\ s.read < Len(s.sent)
        /\ streams' = [streams EXCEPT ![o] = n]
    BY <1>0, <1>6 DEF Streams!Recv, Streams!Stream
  <2>2. /\ s.sent \in Seq(Messages) /\ s.read \in Nat /\ Len(s.sent) \in Nat
        /\ ~s.closed
    BY <2>1 DEF StreamRecord, Received
  <2>3. /\ n.sent = s.sent /\ n.read = s.read + 1 /\ n.closed = s.closed
        /\ n.at \in {"recv", "put", "complain", "last", "close"}
        /\ n.at \in {"last", "close"} => s.sent[s.read + 1] \in {"eof", "broken"}
    BY <2>1, <2>2 DEF StreamRecord, Streams!Next1
  <2>4. n.at \in {"last", "close"} => s.read + 1 = Len(s.sent) /\ Streams!Over(s)
    <3>1. s.read + 1 <= Len(s.sent)
      BY <2>1, <2>2
    <3>2. ASSUME n.at \in {"last", "close"}
          PROVE  s.read + 1 = Len(s.sent)
      BY <2>1, <2>2, <2>3, <3>1, <3>2 DEF Received
    <3>3. s.sent # <<>>
      BY <2>1, <2>2
    <3> QED
      BY <2>3, <3>2, <3>3 DEF Streams!Over
  <2> HIDE DEF n
  <2>5. Received(n)
    BY <2>1, <2>2, <2>3, <2>4 DEF Received, Streams!Over
  <2> QED
    BY <1>1, <2>1, <2>5
<1>7. ASSUME NEW o \in Orderers,
             Streams!PutError(o) \/ Streams!CloseResponses(o) \/ Streams!Release(o)
      PROVE  \A p \in Orderers : Received(streams'[p])
  <2> DEFINE s == streams[o]
  <2>1. s \in StreamRecord /\ Received(s) /\ (s.conn /\ call.op = "broadcast") \in BOOLEAN
    BY <1>0 DEF StreamRecord
  <2>2. /\ s.at \in {"complain", "last"} =>
             Received([s EXCEPT !.errs = 1, !.at = IF s.at = "last" THEN "close" ELSE "recv"])
        /\ s.at = "close" => Received([s EXCEPT !.closed = TRUE, !.at = "release"])
        /\ s.at = "release" =>
             Received([s EXCEPT !.at = "ended", !.conn = s.conn /\ call.op = "broadcast"])
    BY <2>1, EditsKeepReceived
  <2>3. [s EXCEPT !.at = "ended", !.conn = @ /\ call.op = "broadcast"]
          = [s EXCEPT !.at = "ended", !.conn = s.conn /\ call.op = "broadcast"]
    BY <2>1 DEF StreamRecord
  <2>4. \E n : Received(n) /\ streams' = [streams EXCEPT ![o] = n]
    BY <1>7, <2>2, <2>3, Zenon DEF Streams!PutError, Streams!CloseResponses, Streams!Release,
                            Streams!Stream
  <2> QED
    BY <1>1, <2>4
<1>8. ASSUME NEW o \in Orderers, Streams!Answer(o) \/ Streams!HangUp(o) \/ Streams!Expire(o)
      PROVE  \A p \in Orderers : Received(streams'[p])
  <2> DEFINE s == streams[o]
  <2>1. /\ s \in StreamRecord /\ Received(s) /\ s.at \notin {"none", "ended"}
        /\ ~Streams!Over(s)
    BY <1>0, <1>8 DEF Streams!Answer, Streams!HangUp, Streams!Expire, Streams!Ended
  <2>2. PICK m \in Messages :
          /\ streams' = [streams EXCEPT ![o] = [s EXCEPT !.sent = Append(@, m)]]
          /\ Len(s.sent) <= MaxSent \/ m \in {"eof", "broken"}
    BY <1>8 DEF Streams!Answer, Streams!HangUp, Streams!Expire, Streams!Sends, Streams!Stream,
                Messages
  <2>3. Received([s EXCEPT !.sent = Append(@, m)])
    BY <2>1, <2>2, SendingKeepsReceived
  <2> QED
    BY <1>1, <2>2, <2>3
<1> QED
  BY <1>3, <1>4, <1>5, <1>6, <1>7, <1>8 DEF Streams!Next

\* Streams change that are no stream of an orderer that is not asked yet.
LEMMA UntriedStep ==
  ASSUME StreamInv, [Streams!Next]_(Streams!vars)
  PROVE  Untried'
<1>0. /\ Untried /\ streams \in [Orderers -> StreamRecord] /\ call.left \subseteq Orderers
      /\ Asking => call.o \in Orderers
      /\ \A o \in Orderers : Received(streams[o]) /\ streams[o].sent \in Seq(Messages)
                             /\ streams[o].read \in Nat
  BY DEF StreamInv, StreamShape, StreamRecord
<1>1. /\ DOMAIN call = {"op", "at", "left", "o", "got", "failed", "result"}
      /\ call = [op |-> call.op, at |-> call.at, left |-> call.left, o |-> call.o, got |-> call.got,
                 failed |-> call.failed, result |-> call.result]
  BY DEF StreamInv, StreamShape
<1> USE DEF Streams!At, Streams!Stream, Streams!O, Streams!S
<1>2. ASSUME NEW op \in {"broadcast", "deliver"}, Streams!Begin(op)
      PROVE  Untried'
  BY <1>2 DEF Streams!Begin, Streams!Idle, Untried, Asking
<1>3. ASSUME NEW o \in Orderers, Streams!Try(o)
      PROVE  Untried'
  <2>1. /\ call'.at = "dial" /\ call'.o = o /\ call'.left = call.left \ {o}
        /\ o \in call.left /\ streams' = streams
    BY <1>1, <1>3 DEF Streams!Try
  <2> QED
    BY <1>0, <2>1 DEF Untried, Asking
<1>4. ASSUME Streams!GiveUp \/ UNCHANGED Streams!vars
      PROVE  Untried'
  <2>1. /\ call'.left = call.left /\ call'.o = call.o /\ streams' = streams
        /\ call'.at = "idle" \/ call'.at = call.at
    BY <1>1, <1>4 DEF Streams!GiveUp, Streams!vars
  <2> QED
    BY <1>0, <2>1 DEF Untried, Asking
<1>5. ASSUME Streams!Dial \/ Streams!Send \/ Streams!ReadError \/ Streams!ReadResponse
               \/ Streams!ReadClosed \/ Streams!Drain \/ Streams!Drained
      PROVE  Untried'
  <2>1. /\ call'.left = call.left /\ call'.o = call.o
        /\ call'.at \in {"idle", "next", "send", "read", "drain", "drained"}
        /\ Asking
        /\ \A o \in Orderers : o # call.o => streams'[o] = streams[o]
    BY <1>0, <1>1, <1>5 DEF Asking, Streams!Dial, Streams!Send, Streams!ReadError,
       Streams!ReadResponse, Streams!ReadClosed, Streams!Drain, Streams!Drained
  <2>2. call'.at = "send" => Streams!Dial
    BY <1>1, <1>5 DEF Streams!Dial, Streams!Send, Streams!ReadError,
       Streams!ReadResponse, Streams!ReadClosed, Streams!Drain, Streams!Drained
  <2>3. call'.at = "send" => streams'[call.o].at = "recv"
    <3>1. [streams[call.o] EXCEPT !.at = "recv", !.conn = TRUE].at = "recv"
      BY <1>0, <2>1 DEF StreamRecord
    <3>2. call'.at = "send" =>
            streams' = [streams EXCEPT ![call.o] =
                          [streams[call.o] EXCEPT !.at = "recv", !.conn = TRUE]]
      BY <1>1, <2>2 DEF Streams!Dial
    <3> QED
      BY <1>0, <2>1, <3>1, <3>2
  <2> QED
    BY <1>0, <2>1, <2>3 DEF Untried, Asking
<1>6. ASSUME NEW o \in Orderers,
             Streams!Recv(o) \/ Streams!PutError(o) \/ Streams!CloseResponses(o)
               \/ Streams!Release(o) \/ Streams!Answer(o) \/ Streams!HangUp(o)
               \/ Streams!Expire(o)
      PROVE  Untried'
  <2>1. /\ call' = call /\ streams[o].at \notin {"none", "ended"}
        /\ \A p \in Orderers : p # o => streams'[p] = streams[p]
    BY <1>0, <1>6 DEF Streams!Recv, Streams!PutError, Streams!CloseResponses, Streams!Release,
       Streams!Answer, Streams!HangUp, Streams!Expire, Streams!Ended, Streams!Sends
  <2>2. streams[o] # Streams!NoStream
    BY <2>1 DEF Streams!NoStream
  <2>3. ASSUME call.at = "send", call.o = o, streams'[o].sent = <<>>
        PROVE  streams'[o].at = "recv"
    <3>1. streams[o].sent = <<>> /\ streams'[o] = streams[o]
      <4>1. CASE Streams!Recv(o)
        <5>1. streams'[o].sent = streams[o].sent /\ streams[o].read < Len(streams[o].sent)
          BY <1>0, <4>1 DEF Streams!Recv, Streams!Next1, StreamRecord
        <5>2. FALSE
          BY <1>0, <2>3, <5>1
        <5> QED
          BY <5>2
      <4>2. CASE Streams!PutError(o) \/ Streams!CloseResponses(o) \/ Streams!Release(o)
        <5>1. streams[o].sent = <<>> /\ streams[o].at # "recv"
          <6>1. /\ streams[o].at # "recv"
                /\ \E n : /\ streams' = [streams EXCEPT ![o] = n]
                         /\ n.sent = streams[o].sent
            <7> DEFINE s == streams[o]
            <7>1. /\ [s EXCEPT !.errs = 1, !.at = IF s.at = "last" THEN "close" ELSE "recv"].sent
                       = s.sent
                  /\ [s EXCEPT !.closed = TRUE, !.at = "release"].sent = s.sent
                  /\ [s EXCEPT !.at = "ended", !.conn = @ /\ call.op = "broadcast"].sent = s.sent
              BY <1>0 DEF StreamRecord
            <7> QED
              BY <4>2, <7>1 DEF Streams!PutError, Streams!CloseResponses, Streams!Release
          <6> QED
            BY <1>0, <2>3, <6>1
        <5> QED
          BY <1>0, <2>3, <5>1 DEF Untried
      <4>3. CASE Streams!Answer(o) \/ Streams!HangUp(o) \/ Streams!Expire(o)
        <5>1. PICK m \in Messages :
                streams' = [streams EXCEPT ![o] = [streams[o] EXCEPT !.sent = Append(@, m)]]
          BY <4>3 DEF Streams!Answer, Streams!HangUp, Streams!Expire, Streams!Sends, Messages
        <5>2. streams'[o].sent = Append(streams[o].sent, m)
          BY <1>0, <5>1 DEF StreamRecord
        <5>3. streams'[o].sent # <<>>
          BY <1>0, <5>2
        <5> QED
          BY <2>3, <5>3
      <4> QED
        BY <1>6, <4>1, <4>2, <4>3
    <3> QED
      BY <1>0, <2>3, <3>1 DEF Untried
  <2> QED
    BY <1>0, <2>1, <2>2, <2>3 DEF Untried, Asking
<1> QED
  BY <1>2, <1>3, <1>4, <1>5, <1>6 DEF Streams!Next

\* An error that was received is told, and the call succeeds only at the end of a stream.
LEMMA ErrorsStep ==
  ASSUME Streams!StreamsAssumption, StreamInv, [Streams!Next]_(Streams!vars)
  PROVE  ErrorsAreTold' /\ Streams!OkIsUndisturbed'
<1>0. /\ Untried /\ ErrorsAreTold /\ Streams!OkIsUndisturbed
      /\ streams \in [Orderers -> StreamRecord]
      /\ Asking \/ call.result = "ok" => call.o \in Orderers
      /\ call.result # None => call.at = "idle"
      /\ \A o \in Orderers : /\ Received(streams[o]) /\ streams[o].sent \in Seq(Messages)
                             /\ streams[o].read \in Nat /\ streams[o] \in StreamRecord
                             /\ streams[o].errs \in 0 .. 1
      /\ call = [op |-> call.op, at |-> call.at, left |-> call.left, o |-> call.o, got |-> call.got,
                 failed |-> call.failed, result |-> call.result]
      /\ call.failed \in BOOLEAN /\ None # "ok"
  BY DEF StreamInv, StreamShape, StreamRecord, Streams!StreamsAssumption
<1> DEFINE s == streams[call.o]
           p == streams'[call.o]
<1> USE DEF Streams!At, Streams!Stream, Streams!O, Streams!S
<1>1. ASSUME \/ \E op \in {"broadcast", "deliver"} : Streams!Begin(op)
             \/ \E o \in Orderers : Streams!Try(o)
             \/ Streams!GiveUp
      PROVE  ErrorsAreTold' /\ Streams!OkIsUndisturbed'
  <2>1. call'.at \in {"next", "dial", "idle"} /\ call'.result # "ok"
    BY <1>0, <1>1 DEF Streams!Begin, Streams!Try, Streams!GiveUp, Streams!Idle
  <2> QED
    BY <2>1 DEF ErrorsAreTold, Streams!OkIsUndisturbed
<1>2. ASSUME UNCHANGED call, call.o \in Orderers => UNCHANGED (s)
      PROVE  ErrorsAreTold' /\ Streams!OkIsUndisturbed'
  <2>1. UNCHANGED Streams!vars \/ call.o \notin Orderers \/ UNCHANGED s
    BY <1>2
  <2> QED
    BY <1>0, <1>2, <2>1 DEF ErrorsAreTold, Streams!OkIsUndisturbed, Asking, Wrong, Underway,
                            Streams!Over, Streams!Sent
<1>3. ASSUME NEW o \in Orderers,
             Streams!Recv(o) \/ Streams!PutError(o) \/ Streams!CloseResponses(o)
               \/ Streams!Release(o) \/ Streams!Answer(o) \/ Streams!HangUp(o)
               \/ Streams!Expire(o)
      PROVE  ErrorsAreTold' /\ Streams!OkIsUndisturbed'
  <2>1. UNCHANGED call /\ \E n : streams' = [streams EXCEPT ![o] = n]
    BY <1>3 DEF Streams!Recv, Streams!PutError, Streams!CloseResponses, Streams!Release,
                Streams!Answer, Streams!HangUp, Streams!Expire, Streams!Sends
  <2>2. CASE o # call.o
    BY <1>0, <1>2, <2>1, <2>2
  <2>3. CASE o = call.o
    <3>0. s \in StreamRecord /\ Received(s) /\ s.sent \in Seq(Messages) /\ s.read \in Nat
          /\ s.errs \in 0 .. 1
      BY <1>0, <2>3
    <3>1. /\ Underway(s) => Underway(p)
          /\ Wrong(p) => Wrong(s) \/ Underway(p)
          /\ p.sent = <<>> => s.sent = <<>>
          /\ s.closed => p.closed /\ p.errs = s.errs
          /\ Streams!Over(s) => p.sent = s.sent
      <4>1. CASE Streams!Recv(o)
        <5>1. /\ s.at = "recv" /\ p.sent = s.sent /\ p.read = s.read + 1 /\ p.errs = s.errs
              /\ p.closed = s.closed
              /\ s.sent[s.read + 1] \in Bad => p.at \in {"complain", "last"}
          <6>1. p = Streams!Next1([s EXCEPT !.read = @ + 1], s.sent[s.read + 1]) /\ s.at = "recv"
            BY <1>0, <2>3, <4>1 DEF Streams!Recv
          <6> QED
            BY <3>0, <6>1 DEF Streams!Next1, StreamRecord, Bad
        <5>2. \A i \in 1 .. p.read : i \in 1 .. s.read \/ i = s.read + 1
          BY <3>0, <5>1
        <5> QED
          BY <3>0, <5>1, <5>2 DEF Wrong, Underway
      <4>2. CASE Streams!PutError(o)
        <5>1. /\ p.sent = s.sent /\ p.read = s.read /\ p.errs = 1 /\ p.closed = s.closed
              /\ s.at \in {"complain", "last"}
          <6>1. p = [s EXCEPT !.errs = 1, !.at = IF s.at = "last" THEN "close" ELSE "recv"]
                /\ s.at \in {"complain", "last"}
            BY <1>0, <2>3, <4>2 DEF Streams!PutError
          <6> QED
            BY <3>0, <6>1 DEF StreamRecord
        <5> QED
          BY <3>0, <5>1 DEF Wrong, Underway, Received
      <4>3. CASE Streams!CloseResponses(o) \/ Streams!Release(o)
        <5>1. /\ p.sent = s.sent /\ p.read = s.read /\ p.errs = s.errs
              /\ s.closed => p.closed
              /\ s.at \in {"close", "release"}
          <6>1. /\ s.at \in {"close", "release"}
                /\ \/ p = [s EXCEPT !.closed = TRUE, !.at = "release"]
                   \/ p = [s EXCEPT !.at = "ended", !.conn = @ /\ call.op = "broadcast"]
            BY <1>0, <2>3, <4>3 DEF Streams!CloseResponses, Streams!Release
          <6> QED
            BY <3>0, <6>1 DEF StreamRecord
        <5> QED
          BY <3>0, <5>1 DEF Wrong, Underway
      <4>4. CASE Streams!Answer(o) \/ Streams!HangUp(o) \/ Streams!Expire(o)
        <5>1. ~Streams!Over(s)
          BY <2>3, <4>4 DEF Streams!Answer, Streams!HangUp, Streams!Expire
        <5>2. PICK m \in Messages : p = [s EXCEPT !.sent = Append(@, m)]
          BY <1>0, <2>3, <4>4 DEF Streams!Answer, Streams!HangUp, Streams!Expire, Streams!Sends,
                           Messages
        <5>3. /\ p.sent = Append(s.sent, m) /\ p.read = s.read /\ p.errs = s.errs
              /\ p.closed = s.closed /\ p.at = s.at
          BY <3>0, <5>2 DEF StreamRecord
        <5>4. /\ \A i \in 1 .. s.read : p.sent[i] = s.sent[i]
              /\ p.sent # <<>>
          <6>1. /\ Len(p.sent) = Len(s.sent) + 1 /\ Len(s.sent) \in Nat
                /\ \A i \in 1 .. Len(s.sent) : p.sent[i] = s.sent[i]
            BY <3>0, <5>3, SentOneMore
          <6> QED
            BY <3>0, <6>1 DEF Received
        <5> QED
          BY <5>1, <5>3, <5>4 DEF Wrong, Underway
      <4> QED
        BY <1>3, <4>1, <4>2, <4>3, <4>4
    <3>2. ErrorsAreTold'
      BY <1>0, <2>1, <3>1 DEF ErrorsAreTold
    <3>3. Streams!OkIsUndisturbed'
      <4>1. ASSUME call.result = "ok"
            PROVE  p.sent = s.sent /\ Streams!Over(s) /\ Streams!Sent(call.o) \cap Bad = {}
        BY <1>0, <3>1, <4>1 DEF Streams!OkIsUndisturbed, Bad
      <4>2. call' = call
        BY <2>1
      <4> QED
        BY <4>1, <4>2 DEF Streams!OkIsUndisturbed, Bad, Streams!Over, Streams!Sent
    <3> QED
      BY <3>2, <3>3
  <2> QED
    BY <2>2, <2>3
<1>4. ASSUME Streams!Dial \/ Streams!Send \/ Streams!ReadError \/ Streams!ReadResponse
               \/ Streams!ReadClosed \/ Streams!Drain \/ Streams!Drained
      PROVE  ErrorsAreTold' /\ Streams!OkIsUndisturbed'
  <2>1. Asking /\ call'.o = call.o
    BY <1>0, <1>4 DEF Asking, Streams!Dial, Streams!Send, Streams!ReadError,
       Streams!ReadResponse, Streams!ReadClosed, Streams!Drain, Streams!Drained
  <2>2. /\ call.o \in Orderers /\ s \in StreamRecord /\ Received(s) /\ s.sent \in Seq(Messages)
        /\ s.read \in Nat /\ s.errs \in 0 .. 1 /\ call.result # "ok"
    BY <1>0, <2>1 DEF Asking
  <2>3. CASE ~Streams!Drained
    <3>1. call'.result # "ok"
      BY <1>0, <1>4, <2>2, <2>3 DEF Streams!Dial, Streams!Send, Streams!ReadError,
         Streams!ReadResponse, Streams!ReadClosed, Streams!Drain
    <3>2. CASE Streams!Dial
      <4>1. /\ s = Streams!NoStream
            /\ \/ call'.at = "send" /\ p = [s EXCEPT !.at = "recv", !.conn = TRUE]
               \/ call'.at = "next"
               \/ call'.at = "read" /\ p.errs = 1
        BY <1>0, <2>2, <3>2 DEF Streams!Dial, Untried, Streams!NoStream
      <4>2. p = [s EXCEPT !.at = "recv", !.conn = TRUE] => p.read = 0
        BY <4>1 DEF Streams!NoStream
      <4>3. p.read = 0 => ~Wrong(p)
        BY DEF Wrong
      <4> QED
        BY <2>1, <3>1, <4>1, <4>2, <4>3
           DEF ErrorsAreTold, Streams!OkIsUndisturbed, Underway
    <3>3. CASE Streams!Send
      <4>1. \/ call'.at = "read" /\ p = s /\ s.sent # <<>> /\ call'.failed = call.failed
            \/ call'.at = "next"
            \/ call'.at = "read" /\ p.sent = <<"envelope">> /\ p.read = 1
        <5>1. LET n == [s EXCEPT !.sent = <<"envelope">>, !.read = 1] IN
                n.sent = <<"envelope">> /\ n.read = 1
          BY <2>2 DEF StreamRecord
        <5>2. \/ call'.at = "read" /\ p = s /\ s.sent # <<>> /\ call'.failed = call.failed
              \/ call'.at = "next"
              \/ call'.at = "read" /\ p = [s EXCEPT !.sent = <<"envelope">>, !.read = 1]
          BY <1>0, <2>2, <3>3 DEF Streams!Send
        <5> QED
          BY <5>1, <5>2
      <4>2. p.sent = <<"envelope">> /\ p.read = 1 => ~Wrong(p) /\ p.sent # <<>>
        BY DEF Wrong, Bad
      <4>3. call.at = "send"
        BY <3>3 DEF Streams!Send
      <4> QED
        BY <1>0, <2>1, <3>1, <4>1, <4>2, <4>3 DEF ErrorsAreTold, Streams!OkIsUndisturbed
    <3>4. CASE Streams!ReadError
      <4>1. call'.at = "read" /\ call'.failed
        BY <1>0, <3>4 DEF Streams!ReadError
      <4> QED
        BY <2>1, <3>1, <4>1 DEF ErrorsAreTold, Streams!OkIsUndisturbed
    <3>5. CASE Streams!ReadResponse
      <4>1. /\ call'.at = "read" /\ call.at = "read" /\ call'.failed = call.failed /\ s.at = "put"
            /\ p.sent = s.sent /\ p.read = s.read /\ p.errs = s.errs
        BY <1>0, <2>2, <3>5 DEF Streams!ReadResponse, StreamRecord
      <4> QED
        BY <1>0, <2>1, <3>1, <4>1 DEF ErrorsAreTold, Streams!OkIsUndisturbed, Wrong, Underway
    <3>6. CASE Streams!ReadClosed
      <4>1. /\ call'.at = "drain" /\ call.at = "read" /\ call'.failed = call.failed /\ s.closed
            /\ p = s
        BY <1>0, <2>2, <3>6 DEF Streams!ReadClosed
      <4> QED
        BY <1>0, <2>1, <3>1, <4>1 DEF ErrorsAreTold, Streams!OkIsUndisturbed
    <3>7. CASE Streams!Drain
      <4>1. /\ call'.at = "drained" /\ call.at = "drain"
            /\ call'.failed = (call.failed \/ s.errs > 0)
        BY <1>0, <2>2, <3>7 DEF Streams!Drain
      <4>2. /\ p.sent = s.sent /\ p.read = s.read /\ p.errs = 0 /\ p.closed = s.closed
        BY <1>0, <2>2, <3>7 DEF Streams!Drain, StreamRecord
      <4>3. s.closed /\ s.at \notin {"complain", "last"}
        BY <1>0, <2>2, <4>1 DEF ErrorsAreTold, Received
      <4> QED
        BY <1>0, <2>1, <3>1, <4>1, <4>2, <4>3
           DEF ErrorsAreTold, Streams!OkIsUndisturbed, Wrong, Underway
    <3> QED
      BY <1>4, <2>3, <3>2, <3>3, <3>4, <3>5, <3>6, <3>7
  <2>4. CASE Streams!Drained
    <3>1. /\ call.at = "drained" /\ p.sent = s.sent /\ call'.at \in {"next", "idle"}
          /\ call'.result = "ok" => ~call.failed
      BY <1>0, <2>2, <2>4 DEF Streams!Drained, StreamRecord
    <3>2. ASSUME ~call.failed
          PROVE  Streams!Over(s) /\ \A i \in 1 .. Len(s.sent) : s.sent[i] \notin Bad
      <4>1. s.closed /\ s.errs = 0 /\ s.at \in {"release", "ended"}
        BY <1>0, <2>2, <3>1 DEF ErrorsAreTold, Received
      <4>2. ~Underway(s)
        BY <4>1 DEF Underway
      <4>3. s.sent # <<>> /\ ~Wrong(s)
        BY <1>0, <3>1, <3>2, <4>2 DEF ErrorsAreTold
      <4>4. Streams!Over(s) /\ s.read = Len(s.sent)
        BY <2>2, <4>1, <4>3 DEF Received
      <4> QED
        BY <4>3, <4>4 DEF Wrong
    <3>3. Streams!OkIsUndisturbed'
      <4>1. ASSUME call'.result = "ok"
            PROVE  Streams!Over(p) /\ Streams!Sent(call.o)' \cap Bad = {}
        <5>1. DOMAIN p.sent = 1 .. Len(s.sent)
          BY <2>2, <3>1
        <5> QED
          <6>1. Streams!Sent(call.o)' = {p.sent[i] : i \in DOMAIN p.sent}
            BY <2>1 DEF Streams!Sent
          <6>2. \A i \in DOMAIN p.sent : p.sent[i] \notin Bad
            BY <3>1, <3>2, <4>1, <5>1
          <6>3. Streams!Over(p)
            BY <3>1, <3>2, <4>1 DEF Streams!Over
          <6> QED
            BY <6>1, <6>2, <6>3
      <4> QED
        BY <2>1, <4>1 DEF Streams!OkIsUndisturbed, Bad, Streams!Over, Streams!Sent
    <3> QED
      BY <3>1, <3>3 DEF ErrorsAreTold
  <2> QED
    BY <2>3, <2>4
<1>5. ASSUME UNCHANGED Streams!vars
      PROVE  ErrorsAreTold' /\ Streams!OkIsUndisturbed'
  BY <1>2, <1>5 DEF Streams!vars
<1> QED
  BY <1>1, <1>3, <1>4, <1>5 DEF Streams!Next

LEMMA StreamInvStep ==
  ASSUME Streams!StreamsAssumption, StreamInv, [Streams!Next]_(Streams!vars)
  PROVE  StreamInv'
BY StreamShapeStep, ReceivedStep, UntriedStep, ErrorsStep DEF StreamInv

LEMMA StreamTypes ==
  ASSUME Streams!StreamsAssumption, StreamInv
  PROVE  Streams!TypeOK
<1>1. ASSUME NEW o \in Orderers
      PROVE  /\ streams[o].at \in {"none", "recv", "put", "complain", "last", "close", "release",
                                  "ended"}
             /\ streams[o].read <= Len(streams[o].sent) /\ Len(streams[o].sent) <= MaxSent + 2
             /\ streams[o].errs \in 0 .. 1
  <2>1. streams[o] \in StreamRecord /\ Received(streams[o])
    BY DEF StreamInv, StreamShape
  <2>2. MaxSent \in Nat /\ streams[o].sent \in Seq(Messages)
    BY <2>1 DEF StreamRecord, Streams!StreamsAssumption
  <2> QED
    BY <2>1, <2>2 DEF StreamRecord, Received
<1> QED
  BY <1>1 DEF StreamInv, StreamShape, Streams!TypeOK

\* No error of a stream is lost between its two channels: a call succeeds only when its
\* stream came to its end and nothing was wrong with it (sendBroadcast, blockStream,
\* wrapStreamStatusRPC).
THEOREM OkWasUndisturbed ==
  ASSUME Streams!StreamsAssumption
  PROVE  Streams!Spec => []Streams!OkIsUndisturbed
<1>1. Streams!Init => StreamInv
  BY InitStreamInv
<1>2. StreamInv /\ [Streams!Next]_(Streams!vars) => StreamInv'
  BY StreamInvStep
<1>3. StreamInv => Streams!OkIsUndisturbed
  BY DEF StreamInv
<1> QED
  BY <1>1, <1>2, <1>3, PTL DEF Streams!Spec

(***************************************************************************)
(* Discovery queries. The client keeps one index for each key, and targets *)
(* that have answered are in the channel or were read from it.             *)
(***************************************************************************)

Responses == [target : Targets, is : {"response", "failure", "nothing"}]
Results == {"result", "error"}
Answered == {t \in Targets : streams[t] = "done"}

\* What is kept for a key is the index of a query with that key.
KeysAreKept ==
  /\ \A k \in DOMAIN call.where :
       call.where[k] \in DOMAIN call.request /\ Discoveries!Key(call.request[call.where[k]]) = k
  /\ \A i \in DOMAIN call.request : Discoveries!Key(call.request[i]) \in DOMAIN call.where

\* The state has its types, and there is room for every response.
QueryShape ==
  /\ call = [at |-> call.at, request |-> call.request, where |-> call.where, wants |-> call.wants,
             responses |-> call.responses, errors |-> call.errors, result |-> call.result]
  /\ call.at \in {"request", "receive", "returned"} /\ call.request \in Seq(Queries)
  /\ call.wants \in Queries \cup {None} /\ call.responses \in Seq(Responses)
  /\ streams \in [Targets -> {"none", "sending", "done"}]
  /\ world = [of |-> world.of, faults |-> world.faults] /\ world.faults \in 0 .. MaxErrors
  /\ world.of = [t \in Targets |-> world.of[t]]
  /\ call.errors \in Nat
  /\ call.errors + Len(call.responses) <= Cardinality(Answered)

\* Nobody is asked before there is a request.
NobodyYet ==
  /\ call.at = "request" => /\ \A t \in Targets : streams[t] = "none"
                            /\ call.wants = None /\ call.result = <<"none">>
                            /\ call.errors = 0 /\ call.responses = <<>>
  /\ call.wants # None => \E i \in DOMAIN call.request : call.request[i] = call.wants
  /\ call.at = "receive" => call.wants # None /\ call.result = <<"none">>

\* A target says nothing before it has answered, and a response is what it said then.
RepliesAreSaid ==
  /\ \A t \in Targets : streams[t] # "done" => world.of[t] = Discoveries!NoReply
  /\ \A j \in DOMAIN call.responses :
       LET r == call.responses[j] IN
       /\ streams[r.target] = "done"
       /\ r.is = "response" => world.of[r.target] \in [DOMAIN call.request -> Results]
       /\ r.is # "response" => world.of[r.target] = Discoveries!NoReply

\* Whoever has answered is waited for in the channel, or said nothing of the query.
SaidNothing(t) ==
  \/ world.of[t] = Discoveries!NoReply
  \/ Discoveries!Lookup(t, call.wants) = Discoveries!NotFound
AnsweredAreRead ==
  /\ call.at = "receive" =>
       \A t \in Answered : \/ \E j \in DOMAIN call.responses : call.responses[j].target = t
                           \/ SaidNothing(t)
  /\ call.result = <<"error">> =>
       \A t \in Targets : /\ streams[t] # "sending"
                          /\ call.wants = None \/ streams[t] = "none" \/ SaidNothing(t)

\* What was found is there.
FoundIsThere ==
  \/ call.result \in {<<"none">>, <<"error">>}
  \/ \E t \in Targets, i \in DOMAIN call.request :
       /\ call.result = <<"found", t, i>> /\ streams[t] = "done"
       /\ call.request[i] = call.wants /\ world.of[t][i] = "result"

QueryInv == /\ QueryShape /\ KeysAreKept /\ NobodyYet /\ RepliesAreSaid /\ AnsweredAreRead
            /\ FoundIsThere

-----------------------------------------------------------------------------
\* The finite sets of Discovery are those there are.
LEMMA FiniteTargets ==
  ASSUME Discoveries!DiscoveryAssumption
  PROVE  IsFiniteSet(Targets) /\ MaxErrors \in Nat
BY DEF Discoveries!DiscoveryAssumption, Discoveries!IsFiniteSet, IsFiniteSet
LEMMA SameCardinality ==
  ASSUME NEW S
  PROVE  Discoveries!Cardinality(S) = Cardinality(S)
BY DEF Discoveries!Cardinality, Cardinality

LEMMA AnsweredAreFinite ==
  ASSUME Discoveries!DiscoveryAssumption
  PROVE  IsFiniteSet(Answered) /\ Cardinality(Answered) \in Nat
<1>1. Answered \subseteq Targets
  BY DEF Answered
<1> QED
  BY <1>1, FiniteTargets, FS_Subset, FS_CardinalityType

\* Queries with the same key are the same, but for those that ask for endorsers.
LEMMA KeysTellApart ==
  ASSUME Discoveries!DiscoveryAssumption, NEW p \in Queries, NEW q \in Queries,
         Discoveries!Key(p) = Discoveries!Key(q), q.type = "endorsers" => p.chain = q.chain
  PROVE  p = q
<1> USE DEF Discoveries!Key
<1>1. /\ p = [type |-> p.type, channel |-> p.channel, chain |-> p.chain]
      /\ q = [type |-> q.type, channel |-> q.channel, chain |-> q.chain]
      /\ p.type \in {"config", "peers", "endorsers", "local"}
      /\ q.type \in {"config", "peers", "endorsers", "local"}
      /\ p.type = "config" /\ q.type = "config" => p.chain = q.chain
  BY DEF Discoveries!DiscoveryAssumption
<1>2. p.type = q.type
  <2>1. Discoveries!Key(p)[1] = p.type /\ Discoveries!Key(q)[1] = q.type
    OBVIOUS
  <2> QED
    BY <2>1
<1>3. p.channel = q.channel
  <2>1. Discoveries!Key(p)[2] = p.channel /\ Discoveries!Key(q)[2] = q.channel
    OBVIOUS
  <2> QED
    BY <2>1
<1>4. p.type \in {"peers", "local"} => p.chain = q.chain
  BY <1>2
<1> QED
  BY <1>1, <1>2, <1>3, <1>4

\* What a lookup finds is the result of the query.
LEMMA LookupFindsResults ==
  ASSUME Discoveries!DiscoveryAssumption, QueryShape, KeysAreKept, NEW t \in Targets,
         call.wants \in Queries, world.of[t] \in [DOMAIN call.request -> Results],
         Discoveries!Lookup(t, call.wants) # Discoveries!NotFound
  PROVE  \E i \in DOMAIN call.request :
           /\ Discoveries!Lookup(t, call.wants) = <<"found", t, i>>
           /\ call.request[i] = call.wants /\ world.of[t][i] = "result"
<1> DEFINE key == Discoveries!Key(call.wants)
           i == call.where[key]
<1>1. /\ key \in DOMAIN call.where /\ world.of[t][i] # "error"
      /\ call.wants.type = "endorsers" => call.request[i].chain = call.wants.chain
      /\ Discoveries!Lookup(t, call.wants) = <<"found", t, i>>
  BY DEF Discoveries!Lookup
<1>2. i \in DOMAIN call.request /\ Discoveries!Key(call.request[i]) = key
  BY <1>1 DEF KeysAreKept
<1>3. call.request[i] \in Queries
  BY <1>2 DEF QueryShape
<1>4. call.request[i] = call.wants
  BY <1>1, <1>2, <1>3, KeysTellApart
<1>5. world.of[t][i] = "result"
  BY <1>1, <1>2 DEF Results
<1> QED
  BY <1>1, <1>2, <1>4, <1>5

LEMMA InitQueryInv ==
  ASSUME Discoveries!DiscoveryAssumption, Discoveries!Init
  PROVE  QueryInv
<1> USE DEF Discoveries!Init
<1>1. QueryShape
  <2>1. Answered \subseteq Targets
    BY DEF Answered
  <2>4. MaxErrors \in Nat /\ IsFiniteSet(Targets)
    BY FiniteTargets
  <2>2. Cardinality(Answered) \in Nat
    BY <2>1, <2>4, FS_Subset, FS_CardinalityType
  <2>3. Len(<<>>) = 0
    OBVIOUS
  <2> QED
    BY <2>2, <2>3, <2>4 DEF QueryShape
<1>2. KeysAreKept /\ NobodyYet /\ RepliesAreSaid
  BY DEF KeysAreKept, NobodyYet, RepliesAreSaid
<1>3. AnsweredAreRead /\ FoundIsThere
  BY DEF AnsweredAreRead, FoundIsThere, Answered
<1> QED
  BY <1>1, <1>2, <1>3 DEF QueryInv

\* A query more in the request.
LEMMA AddStep ==
  ASSUME QueryInv, NEW q \in Queries, Discoveries!Add(q)
  PROVE  QueryInv'
<1> DEFINE n == Len(call.request) + 1
<1>0. /\ QueryShape /\ KeysAreKept /\ NobodyYet /\ RepliesAreSaid
      /\ call.at = "request" /\ UNCHANGED <<streams, world>>
  BY DEF QueryInv, Discoveries!Add, Discoveries!At
<1>1. call' = [at |-> "request", request |-> Append(call.request, q),
               where |-> Discoveries!Map(call.where, Discoveries!Key(q), n),
               wants |-> call.wants, responses |-> call.responses, errors |-> call.errors,
               result |-> call.result]
  BY <1>0 DEF QueryShape, Discoveries!Add
<1>2. /\ Append(call.request, q) \in Seq(Queries) /\ n \in Nat
      /\ DOMAIN call.request = 1 .. n - 1 /\ DOMAIN Append(call.request, q) = 1 .. n
      /\ Append(call.request, q)[n] = q
      /\ \A i \in 1 .. n - 1 : Append(call.request, q)[i] = call.request[i]
  BY <1>0 DEF QueryShape
<1>3. QueryShape'
  BY <1>0, <1>1, <1>2 DEF QueryShape, Answered
<1>4. KeysAreKept'
  <2> DEFINE w == Discoveries!Map(call.where, Discoveries!Key(q), n)
             r == Append(call.request, q)
  <2>1. /\ DOMAIN w = DOMAIN call.where \cup {Discoveries!Key(q)}
        /\ \A k \in DOMAIN w : w[k] = IF k = Discoveries!Key(q) THEN n ELSE call.where[k]
    BY DEF Discoveries!Map
  <2>2. ASSUME NEW k \in DOMAIN w
        PROVE  w[k] \in 1 .. n /\ Discoveries!Key(r[w[k]]) = k
    <3>1. CASE k = Discoveries!Key(q)
      BY <1>2, <2>1, <3>1
    <3>2. CASE k # Discoveries!Key(q)
      <4>1. /\ w[k] = call.where[k] /\ call.where[k] \in 1 .. n - 1
            /\ Discoveries!Key(call.request[call.where[k]]) = k
        BY <1>0, <1>2, <2>1, <3>2 DEF KeysAreKept
      <4>2. w[k] \in 1 .. n /\ r[w[k]] = call.request[call.where[k]]
        BY <1>2, <4>1
      <4> QED
        BY <4>1, <4>2
    <3> QED
      BY <3>1, <3>2
  <2>3. ASSUME NEW i \in 1 .. n
        PROVE  Discoveries!Key(r[i]) \in DOMAIN w
    <3>1. CASE i = n
      BY <1>2, <2>1, <3>1
    <3>2. CASE i # n
      <4>1. i \in 1 .. n - 1
        BY <1>2, <3>2
      <4>2. r[i] = call.request[i] /\ Discoveries!Key(call.request[i]) \in DOMAIN call.where
        BY <1>0, <1>2, <4>1 DEF KeysAreKept
      <4> QED
        BY <2>1, <4>2
    <3> QED
      BY <3>1, <3>2
  <2>4. call'.where = w /\ call'.request = r
    BY <1>1
  <2> HIDE DEF w, r
  <2> QED
    BY <1>2, <2>2, <2>3, <2>4 DEF KeysAreKept, r
<1>5. NobodyYet' /\ RepliesAreSaid'
  <2>1. /\ call'.at = "request" /\ call'.wants = None /\ call'.result = <<"none">>
        /\ call'.errors = 0 /\ call'.responses = <<>> /\ \A t \in Targets : streams[t] = "none"
    BY <1>0, <1>1 DEF NobodyYet
  <2> QED
    BY <1>0, <2>1 DEF NobodyYet, RepliesAreSaid
<1>6. AnsweredAreRead' /\ FoundIsThere'
  BY <1>0, <1>1 DEF NobodyYet, AnsweredAreRead, FoundIsThere
<1> QED
  BY <1>3, <1>4, <1>5, <1>6 DEF QueryInv

\* The request is sent to some targets, or to nobody.
LEMMA SendAllStep ==
  ASSUME Discoveries!DiscoveryAssumption, QueryInv, NEW targets \in SUBSET Targets,
         Discoveries!SendAll(targets)
  PROVE  QueryInv'
<1>0. /\ QueryShape /\ KeysAreKept /\ NobodyYet /\ RepliesAreSaid
      /\ call.at = "request" /\ UNCHANGED world
      /\ streams' = [t \in Targets |-> IF t \in targets THEN "sending" ELSE "none"]
      /\ call.request \in Seq(Queries) /\ None \notin Queries
  BY DEF QueryInv, QueryShape, Discoveries!SendAll, Discoveries!At, Discoveries!DiscoveryAssumption
<1>1. PICK i \in DOMAIN call.request :
        call' = IF targets = {} THEN [call EXCEPT !.at = "returned", !.result = <<"error">>]
                ELSE [call EXCEPT !.at = "receive", !.wants = call.request[i]]
  BY DEF Discoveries!SendAll
<1>2. /\ call.wants = None /\ call.result = <<"none">> /\ call.errors = 0
      /\ call.responses = <<>> /\ Len(<<>>) = 0 /\ call.request[i] \in Queries
      /\ \A t \in Targets : world.of[t] = Discoveries!NoReply
  BY <1>0 DEF NobodyYet, RepliesAreSaid
<1>3. call' = [at |-> IF targets = {} THEN "returned" ELSE "receive",
               request |-> call.request, where |-> call.where,
               wants |-> IF targets = {} THEN None ELSE call.request[i],
               responses |-> <<>>, errors |-> 0,
               result |-> IF targets = {} THEN <<"error">> ELSE <<"none">>]
  BY <1>0, <1>1, <1>2 DEF QueryShape
<1>4. Answered' = {}
  BY <1>0 DEF Answered
<1>5. QueryShape'
  <2>1. call'.errors + Len(call'.responses) <= Cardinality(Answered')
    BY <1>2, <1>3, <1>4, FS_EmptySet
  <2>2. streams' \in [Targets -> {"none", "sending", "done"}]
    BY <1>0
  <2> QED
    BY <1>0, <1>2, <1>3, <2>1, <2>2 DEF QueryShape
<1>6. KeysAreKept' /\ RepliesAreSaid'
  BY <1>0, <1>2, <1>3 DEF KeysAreKept, RepliesAreSaid
<1>7. NobodyYet'
  BY <1>0, <1>2, <1>3 DEF NobodyYet
<1>8. AnsweredAreRead' /\ FoundIsThere'
  BY <1>0, <1>3, <1>4 DEF AnsweredAreRead, FoundIsThere
<1> QED
  BY <1>5, <1>6, <1>7, <1>8 DEF QueryInv

\* A target's response is put into the channel, which has room for it.
LEMMA PutStep ==
  ASSUME Discoveries!DiscoveryAssumption, QueryInv, NEW t \in Targets, streams[t] = "sending",
         NEW what \in {"response", "failure", "nothing"}, Discoveries!Put(t, what),
         NEW said, world'.of = [world.of EXCEPT ![t] = said],
         world' = [of |-> world'.of, faults |-> world'.faults], world'.faults \in 0 .. MaxErrors,
         what = "response" => said \in [DOMAIN call.request -> Results],
         what # "response" => said = Discoveries!NoReply
  PROVE  QueryInv'
<1> DEFINE r == [target |-> t, is |-> what]
           n == Len(call.responses) + 1
<1>0. /\ QueryShape /\ KeysAreKept /\ NobodyYet /\ RepliesAreSaid /\ AnsweredAreRead
      /\ FoundIsThere
      /\ streams' = [streams EXCEPT ![t] = "done"]
      /\ world.of = [u \in Targets |-> world.of[u]]
      /\ streams \in [Targets -> {"none", "sending", "done"}]
  BY DEF QueryInv, QueryShape, Discoveries!Put
<1>1. call' = [at |-> call.at, request |-> call.request, where |-> call.where,
               wants |-> call.wants, responses |-> Append(call.responses, r),
               errors |-> call.errors, result |-> call.result]
  BY <1>0 DEF QueryShape, Discoveries!Put
<1>2. /\ r \in Responses /\ call.responses \in Seq(Responses)
      /\ Append(call.responses, r) \in Seq(Responses) /\ n \in Nat
      /\ DOMAIN call.responses = 1 .. n - 1 /\ DOMAIN Append(call.responses, r) = 1 .. n
      /\ Append(call.responses, r)[n] = r /\ Len(Append(call.responses, r)) = n
      /\ \A i \in 1 .. n - 1 : Append(call.responses, r)[i] = call.responses[i]
  <2>1. r \in Responses /\ call.responses \in Seq(Responses)
    BY <1>0 DEF Responses, QueryShape
  <2> HIDE DEF r
  <2> QED
    BY <2>1
<1>3. /\ world'.of[t] = said
      /\ \A u \in Targets : u # t => world'.of[u] = world.of[u] /\ streams'[u] = streams[u]
      /\ streams'[t] = "done" /\ world'.of = [u \in Targets |-> world'.of[u]]
  BY <1>0
<1>4. QueryShape'
  <2>1. Answered' = Answered \cup {t} /\ t \notin Answered /\ Answered \subseteq Targets
    BY <1>0, <1>3 DEF Answered
  <2>2. IsFiniteSet(Answered)
    BY <2>1, FiniteTargets, FS_Subset
  <2>3. Cardinality(Answered') = Cardinality(Answered) + 1 /\ Cardinality(Answered) \in Nat
    BY <2>1, <2>2, FS_AddElement, FS_CardinalityType
  <2>4. call'.errors + Len(call'.responses) <= Cardinality(Answered')
    BY <1>0, <1>1, <1>2, <2>3 DEF QueryShape
  <2>5. streams' \in [Targets -> {"none", "sending", "done"}]
    BY <1>0
  <2> QED
    BY <1>0, <1>1, <1>2, <1>3, <2>4, <2>5 DEF QueryShape
<1>5. KeysAreKept'
  BY <1>0, <1>1 DEF KeysAreKept
<1>6. NobodyYet'
  BY <1>0, <1>1 DEF NobodyYet
<1>7. RepliesAreSaid'
  <2>1. ASSUME NEW u \in Targets, streams'[u] # "done"
        PROVE  world'.of[u] = Discoveries!NoReply
    BY <1>0, <1>3, <2>1 DEF RepliesAreSaid
  <2>2. ASSUME NEW j \in 1 .. n
        PROVE  LET q == Append(call.responses, r)[j] IN
               /\ streams'[q.target] = "done"
               /\ q.is = "response" => world'.of[q.target] \in [DOMAIN call.request -> Results]
               /\ q.is # "response" => world'.of[q.target] = Discoveries!NoReply
    <3>1. CASE j = n
      <4>1. Append(call.responses, r)[j] = r
        BY <1>2, <3>1
      <4> QED
        BY <1>3, <4>1
    <3>2. CASE j # n
      <4>1. j \in DOMAIN call.responses /\ Append(call.responses, r)[j] = call.responses[j]
        BY <1>2, <3>2
      <4> DEFINE q == call.responses[j]
      <4>2. /\ streams[q.target] = "done" /\ q.target \in Targets
            /\ q.is = "response" => world.of[q.target] \in [DOMAIN call.request -> Results]
            /\ q.is # "response" => world.of[q.target] = Discoveries!NoReply
        <5>1. q \in Responses
          BY <1>2, <4>1
        <5> QED
          BY <1>0, <4>1, <5>1 DEF RepliesAreSaid, Responses
      <4>3. q.target # t
        BY <4>2
      <4> QED
        BY <1>3, <4>1, <4>2, <4>3
    <3> QED
      BY <3>1, <3>2
  <2> QED
    BY <1>1, <1>2, <2>1, <2>2 DEF RepliesAreSaid
<1>8. AnsweredAreRead'
  <2>1. ASSUME NEW u \in Targets, u # t, SaidNothing(u)
        PROVE  SaidNothing(u)'
    BY <1>1, <1>3, <2>1 DEF SaidNothing, Discoveries!Lookup
  <2>2. ASSUME NEW u \in Targets, streams'[u] = "done", call.at = "receive"
        PROVE  \/ \E j \in 1 .. n : Append(call.responses, r)[j].target = u
               \/ SaidNothing(u)'
    <3>1. CASE u = t
      BY <1>2, <3>1
    <3>2. CASE u # t
      <4>1. u \in Answered
        BY <1>3, <2>2, <3>2 DEF Answered
      <4>2. \/ \E j \in DOMAIN call.responses : call.responses[j].target = u
            \/ SaidNothing(u)
        BY <1>0, <2>2, <4>1 DEF AnsweredAreRead
      <4> QED
        BY <1>2, <2>1, <3>2, <4>2
    <3> QED
      BY <3>1, <3>2
  <2>3. call.result # <<"error">>
    BY <1>0 DEF AnsweredAreRead
  <2> QED
    BY <1>1, <1>2, <2>2, <2>3 DEF AnsweredAreRead, Answered
<1>9. FoundIsThere'
  <2>1. CASE call.result \in {<<"none">>, <<"error">>}
    BY <1>1, <2>1 DEF FoundIsThere
  <2>2. CASE call.result \notin {<<"none">>, <<"error">>}
    <3>1. PICK u \in Targets, i \in DOMAIN call.request :
            /\ call.result = <<"found", u, i>> /\ streams[u] = "done"
            /\ call.request[i] = call.wants /\ world.of[u][i] = "result"
      BY <1>0, <2>2 DEF FoundIsThere
    <3>2. u # t
      BY <3>1
    <3> QED
      BY <1>1, <1>3, <3>1, <3>2 DEF FoundIsThere
  <2> QED
    BY <2>1, <2>2
<1> QED
  BY <1>4, <1>5, <1>6, <1>7, <1>8, <1>9 DEF QueryInv

LEMMA SenderStep ==
  ASSUME Discoveries!DiscoveryAssumption, QueryInv, NEW t \in Targets,
         Discoveries!Reply(t) \/ Discoveries!CallFails(t) \/ Discoveries!Canceled(t)
  PROVE  QueryInv'
<1>0. /\ streams[t] = "sending" /\ MaxErrors \in Nat
      /\ world = [of |-> world.of, faults |-> world.faults] /\ world.faults \in 0 .. MaxErrors
      /\ world.of = [u \in Targets |-> world.of[u]] /\ world.of[t] = Discoveries!NoReply
  BY FiniteTargets DEF QueryInv, QueryShape, RepliesAreSaid, Discoveries!Reply, Discoveries!CallFails,
     Discoveries!Canceled
<1>1. CASE Discoveries!Reply(t)
  <2>1. PICK results \in [DOMAIN call.request -> Results], wrong \in {0, 1} :
          /\ world.faults + wrong <= MaxErrors
          /\ world' = [of |-> [world.of EXCEPT ![t] = results], faults |-> world.faults + wrong]
    BY <1>1 DEF Discoveries!Reply, Results
  <2>2. /\ world'.of = [world.of EXCEPT ![t] = results]
        /\ world'.faults = world.faults + wrong
    BY <2>1
  <2>3. world'.faults \in 0 .. MaxErrors
    BY <1>0, <2>1, <2>2
  <2> QED
    BY <1>0, <1>1, <2>1, <2>2, <2>3, PutStep DEF Discoveries!Reply
<1>2. CASE Discoveries!CallFails(t) \/ Discoveries!Canceled(t)
  <2>1. world'.of = [world.of EXCEPT ![t] = Discoveries!NoReply]
    <3>1. world'.of = world.of
      BY <1>0, <1>2 DEF Discoveries!CallFails, Discoveries!Canceled
    <3>2. world.of = [world.of EXCEPT ![t] = Discoveries!NoReply]
      BY <1>0
    <3> QED
      BY <3>1, <3>2
  <2>2. world' = [of |-> world'.of, faults |-> world'.faults] /\ world'.faults \in 0 .. MaxErrors
    BY <1>0, <1>2 DEF Discoveries!CallFails, Discoveries!Canceled, Discoveries!Fault
  <2>3. \E what \in {"failure", "nothing"} : Discoveries!Put(t, what)
    BY <1>2 DEF Discoveries!CallFails, Discoveries!Canceled
  <2> QED
    BY <1>0, <2>1, <2>2, <2>3, PutStep
<1> QED
  BY <1>1, <1>2

\* The consumer takes a response, or there is none to come.
LEMMA TakeStep ==
  ASSUME Discoveries!DiscoveryAssumption, QueryInv, Discoveries!Take
  PROVE  QueryInv'
<1> DEFINE r == Head(call.responses)
           rest == Tail(call.responses)
           found == Discoveries!Lookup(r.target, call.wants)
<1>0. /\ QueryShape /\ KeysAreKept /\ NobodyYet /\ RepliesAreSaid /\ AnsweredAreRead
      /\ FoundIsThere
      /\ call.at = "receive" /\ call.responses # <<>> /\ UNCHANGED <<streams, world>>
      /\ call.responses \in Seq(Responses) /\ call.errors \in Nat
  BY DEF QueryInv, QueryShape, Discoveries!Take, Discoveries!At
<1>1. /\ rest \in Seq(Responses) /\ Len(rest) = Len(call.responses) - 1 /\ Len(call.responses) \in Nat
      /\ r = call.responses[1] /\ 1 \in DOMAIN call.responses /\ r \in Responses
      /\ Len(call.responses) > 0
      /\ \A j \in DOMAIN call.responses : j # 1 => j - 1 \in DOMAIN rest
      /\ \A j \in DOMAIN rest : rest[j] = call.responses[j + 1] /\ j + 1 \in DOMAIN call.responses
  BY <1>0
<1>2. /\ r.target \in Targets /\ streams[r.target] = "done"
      /\ r.is = "response" => world.of[r.target] \in [DOMAIN call.request -> Results]
      /\ r.is # "response" => world.of[r.target] = Discoveries!NoReply
  BY <1>0, <1>1 DEF RepliesAreSaid, Responses
<1>3. call.wants \in Queries /\ call.wants # None
  BY <1>0 DEF NobodyYet, QueryShape
<1>4. Answered' = Answered
  BY <1>0 DEF Answered
<1> HIDE DEF rest, r
<1>5. CASE /\ call'.at = call.at /\ call'.responses = rest /\ call'.errors = call.errors + 1
           /\ call'.request = call.request /\ call'.where = call.where
           /\ call'.wants = call.wants /\ call'.result = call.result
           /\ call' = [at |-> call'.at, request |-> call'.request, where |-> call'.where,
                       wants |-> call'.wants, responses |-> call'.responses,
                       errors |-> call'.errors, result |-> call'.result]
           /\ SaidNothing(r.target)
  <2>1. QueryShape'
    <3>1. call'.errors + Len(call'.responses) <= Cardinality(Answered')
      BY <1>0, <1>1, <1>4, <1>5, AnsweredAreFinite DEF QueryShape
    <3> QED
      BY <1>0, <1>1, <1>5, <3>1 DEF QueryShape
  <2>2. KeysAreKept' /\ NobodyYet'
    BY <1>0, <1>5 DEF KeysAreKept, NobodyYet
  <2>3. RepliesAreSaid'
    BY <1>0, <1>1, <1>5 DEF RepliesAreSaid
  <2>4. AnsweredAreRead'
    <3>1. \A u \in Targets : SaidNothing(u) => SaidNothing(u)'
      BY <1>0, <1>5 DEF SaidNothing, Discoveries!Lookup
    <3>2. ASSUME NEW u \in Answered
          PROVE  (\E j \in DOMAIN rest : rest[j].target = u) \/ SaidNothing(u)'
      <4>1. CASE \E j \in DOMAIN call.responses : call.responses[j].target = u
        <5>1. PICK j \in DOMAIN call.responses : call.responses[j].target = u
          BY <4>1
        <5>2. CASE j = 1
          BY <1>1, <1>2, <1>5, <3>1, <5>1, <5>2
        <5>3. CASE j # 1
          <6>1. j - 1 \in DOMAIN rest /\ rest[j - 1] = call.responses[j]
            BY <1>0, <1>1, <5>3
          <6> QED
            BY <5>1, <6>1
        <5> QED
          BY <5>2, <5>3
      <4>2. CASE SaidNothing(u)
        BY <3>1, <4>2 DEF Answered
      <4> QED
        BY <1>0, <4>1, <4>2 DEF AnsweredAreRead
    <3>3. call.result # <<"error">>
      BY <1>0 DEF NobodyYet
    <3> QED
      BY <1>0, <1>4, <1>5, <3>2, <3>3 DEF AnsweredAreRead
  <2>5. FoundIsThere'
    BY <1>0, <1>5 DEF FoundIsThere
  <2> QED
    BY <2>1, <2>2, <2>3, <2>4, <2>5 DEF QueryInv
<1>6. CASE \E i \in DOMAIN call.request :
             /\ r.is = "response" /\ call.request[i] = call.wants
             /\ world.of[r.target][i] = "result"
             /\ call' = [call EXCEPT !.at = "returned", !.result = <<"found", r.target, i>>]
  <2>1. PICK i \in DOMAIN call.request :
             /\ call.request[i] = call.wants /\ world.of[r.target][i] = "result"
             /\ call' = [call EXCEPT !.at = "returned", !.result = <<"found", r.target, i>>]
    BY <1>6
  <2>2. call' = [at |-> "returned", request |-> call.request, where |-> call.where,
                 wants |-> call.wants, responses |-> call.responses, errors |-> call.errors,
                 result |-> <<"found", r.target, i>>]
    BY <1>0, <2>1 DEF QueryShape
  <2>3. QueryShape'
    BY <1>0, <1>4, <2>2 DEF QueryShape
  <2>4. KeysAreKept' /\ NobodyYet' /\ RepliesAreSaid'
    BY <1>0, <2>2 DEF KeysAreKept, NobodyYet, RepliesAreSaid
  <2>5. <<"found", r.target, i>> # <<"error">>
    <3>1. <<"found", r.target, i>>[1] # <<"error">>[1]
      OBVIOUS
    <3> QED
      BY <3>1
  <2>6. AnsweredAreRead'
    BY <2>2, <2>5 DEF AnsweredAreRead
  <2>7. FoundIsThere'
    BY <1>0, <1>2, <2>1, <2>2 DEF FoundIsThere
  <2> QED
    BY <2>3, <2>4, <2>6, <2>7 DEF QueryInv
<1>7. CASE r.is # "response"
  <2>1. call' = [[call EXCEPT !.responses = rest] EXCEPT !.errors = @ + 1]
    BY <1>7 DEF Discoveries!Take, Discoveries!Rest, r, rest
  <2>2. SaidNothing(r.target)
    BY <1>2, <1>7 DEF SaidNothing
  <2> QED
    BY <1>0, <1>5, <2>1, <2>2 DEF QueryShape
<1>8. CASE r.is = "response" /\ found = Discoveries!NotFound
  <2>1. call' = [[call EXCEPT !.responses = rest] EXCEPT !.errors = @ + 1]
    BY <1>8 DEF Discoveries!Take, Discoveries!Rest, r, rest
  <2>2. SaidNothing(r.target)
    BY <1>8 DEF SaidNothing
  <2> QED
    BY <1>0, <1>5, <2>1, <2>2 DEF QueryShape
<1>9. CASE r.is = "response" /\ found # Discoveries!NotFound
  <2>1. call' = [call EXCEPT !.at = "returned", !.result = found]
    BY <1>9 DEF Discoveries!Take, Discoveries!Returns, r
  <2>2. PICK i \in DOMAIN call.request :
          /\ found = <<"found", r.target, i>>
          /\ call.request[i] = call.wants /\ world.of[r.target][i] = "result"
    BY <1>0, <1>2, <1>3, <1>9, LookupFindsResults
  <2> QED
    BY <1>6, <1>9, <2>1, <2>2
<1> QED
  BY <1>7, <1>8, <1>9

LEMMA ExhaustedStep ==
  ASSUME QueryInv, Discoveries!Exhausted
  PROVE  QueryInv'
<1>0. /\ QueryShape /\ KeysAreKept /\ NobodyYet /\ RepliesAreSaid /\ AnsweredAreRead
      /\ call.at = "receive" /\ call.responses = <<>> /\ UNCHANGED <<streams, world>>
      /\ \A t \in Targets : streams[t] # "sending"
      /\ streams \in [Targets -> {"none", "sending", "done"}]
  BY DEF QueryInv, QueryShape, Discoveries!Exhausted, Discoveries!At
<1>1. call' = [at |-> "returned", request |-> call.request, where |-> call.where,
               wants |-> call.wants, responses |-> call.responses, errors |-> call.errors,
               result |-> <<"error">>]
  BY <1>0 DEF QueryShape, Discoveries!Exhausted, Discoveries!Returns
<1>2. QueryShape'
  BY <1>0, <1>1 DEF QueryShape, Answered
<1>3. KeysAreKept' /\ NobodyYet' /\ RepliesAreSaid' /\ FoundIsThere'
  BY <1>0, <1>1 DEF KeysAreKept, NobodyYet, RepliesAreSaid, FoundIsThere
<1>4. AnsweredAreRead'
  <2>1. ASSUME NEW t \in Targets
        PROVE  streams[t] = "none" \/ SaidNothing(t)'
    <3>1. CASE streams[t] = "done"
      <4>1. SaidNothing(t)
        BY <1>0, <3>1 DEF AnsweredAreRead, Answered
      <4> QED
        BY <1>0, <1>1, <4>1 DEF SaidNothing, Discoveries!Lookup
    <3> QED
      BY <1>0, <3>1
  <2> QED
    BY <1>0, <1>1, <2>1 DEF AnsweredAreRead
<1> QED
  BY <1>2, <1>3, <1>4 DEF QueryInv

LEMMA QueryInvStep ==
  ASSUME Discoveries!DiscoveryAssumption, QueryInv, [Discoveries!Next]_(Discoveries!vars)
  PROVE  QueryInv'
<1>1. CASE UNCHANGED Discoveries!vars
  <2>1. call' = call /\ streams' = streams /\ world' = world
    BY <1>1 DEF Discoveries!vars
  <2> QED
    BY <2>1 DEF QueryInv, QueryShape, KeysAreKept, NobodyYet, RepliesAreSaid, AnsweredAreRead,
                FoundIsThere, Answered, SaidNothing, Discoveries!Lookup
<1> QED
  BY <1>1, AddStep, SendAllStep, SenderStep, TakeStep, ExhaustedStep DEF Discoveries!Next

LEMMA QueryInvSuffices ==
  ASSUME Discoveries!DiscoveryAssumption, QueryInv
  PROVE  Discoveries!TypeOK /\ Discoveries!AnswersTheQuery /\ Discoveries!ErrorMeansNobody
<1>0. /\ QueryShape /\ KeysAreKept /\ NobodyYet /\ AnsweredAreRead /\ FoundIsThere
      /\ IsFiniteSet(Targets)
  BY FiniteTargets DEF QueryInv
<1>1. Discoveries!TypeOK
  <2>1. Answered \subseteq Targets
    BY DEF Answered
  <2>2. /\ Cardinality(Answered) \in Nat /\ Cardinality(Targets) \in Nat
        /\ Cardinality(Answered) <= Cardinality(Targets)
    BY <1>0, <2>1, FS_Subset, FS_CardinalityType
  <2>3. call.errors + Len(call.responses) <= Cardinality(Targets)
    <3>1. Len(call.responses) \in Nat /\ call.errors \in Nat
      BY <1>0 DEF QueryShape
    <3> QED
      BY <1>0, <2>2, <3>1 DEF QueryShape
  <2> QED
    BY <1>0, <2>3, SameCardinality DEF QueryShape, Discoveries!TypeOK
<1>2. Discoveries!AnswersTheQuery
  <2>1. ASSUME Discoveries!Found
        PROVE  \E t \in Targets, i \in DOMAIN call.request :
                 /\ call.result = <<"found", t, i>>
                 /\ call.request[i] = call.wants /\ world.of[t][i] = "result"
    <3>1. call.result \notin {<<"none">>, <<"error">>}
      BY <2>1 DEF Discoveries!Found
    <3> QED
      BY <1>0, <3>1 DEF FoundIsThere
  <2> QED
    BY <2>1 DEF Discoveries!AnswersTheQuery
<1>3. Discoveries!ErrorMeansNobody
  <2>1. SUFFICES ASSUME call.result[1] = "error", call.wants # None, ~Discoveries!Replaced,
                        NEW t \in Targets, streams[t] = "done"
                 PROVE  \/ world.of[t] = Discoveries!NoReply
                        \/ \E i \in DOMAIN call.request :
                             call.request[i] = call.wants /\ world.of[t][i] = "error"
    BY DEF Discoveries!ErrorMeansNobody
  <2>2. call.result = <<"error">>
    BY <1>0, <2>1 DEF FoundIsThere
  <2>3. SaidNothing(t)
    BY <1>0, <2>1, <2>2 DEF AnsweredAreRead
  <2> DEFINE key == Discoveries!Key(call.wants)
             i == call.where[key]
  <2>4. key \in DOMAIN call.where
    BY <1>0, <2>1 DEF NobodyYet, KeysAreKept
  <2>5. i \in DOMAIN call.request /\ call.request[i] = call.wants
    BY <1>0, <2>1, <2>4 DEF KeysAreKept, Discoveries!Replaced
  <2>6. Discoveries!Lookup(t, call.wants) = Discoveries!NotFound => world.of[t][i] = "error"
    <3>1. <<"found", t, i>> # <<"error">>
      <4>1. <<"found", t, i>>[1] # <<"error">>[1]
        OBVIOUS
      <4> QED
        BY <4>1
    <3> QED
      BY <2>4, <2>5, <3>1 DEF Discoveries!Lookup, Discoveries!NotFound
  <2> QED
    BY <2>3, <2>5, <2>6 DEF SaidNothing
<1> QED
  BY <1>1, <1>2, <1>3

\* What a target is found to have said, it said to the query that was asked for (computeResponse,
\* ForChannel, ForLocal).
THEOREM AnswerIsToTheQuery ==
  ASSUME Discoveries!DiscoveryAssumption
  PROVE  Discoveries!Spec => []Discoveries!AnswersTheQuery
<1>1. Discoveries!Init => QueryInv
  BY InitQueryInv
<1>2. QueryInv /\ [Discoveries!Next]_(Discoveries!vars) => QueryInv'
  BY QueryInvStep
<1>3. QueryInv => Discoveries!AnswersTheQuery
  BY QueryInvSuffices
<1> QED
  BY <1>1, <1>2, <1>3, PTL DEF Discoveries!Spec

\* An error of a query that was not replaced in its request means that nobody had an answer
\* (doQueryPeers).
THEOREM ErrorMeantNobody ==
  ASSUME Discoveries!DiscoveryAssumption
  PROVE  Discoveries!Spec => []Discoveries!ErrorMeansNobody
<1>1. Discoveries!Init => QueryInv
  BY InitQueryInv
<1>2. QueryInv /\ [Discoveries!Next]_(Discoveries!vars) => QueryInv'
  BY QueryInvStep
<1>3. QueryInv => Discoveries!ErrorMeansNobody
  BY QueryInvSuffices
<1> QED
  BY <1>1, <1>2, <1>3, PTL DEF Discoveries!Spec

(***************************************************************************)
(* The references of a channel context, when the error handler leaves it   *)
(* to others to close the context. Who closes it has closed one reference  *)
(* after the other, and waits for each timer that runs.                    *)
(***************************************************************************)

GetFrames ==
  [do : {"get"}, ref : Kept!Refs, at : {"enter", "lock", "init", "built", "handler", "failed"},
   next : {1}]
CloseFrames == [do : {"close"}, ref : {"none"}, at : {"set", "notify", "wait"}, next : 1 .. 3]
FramesOf(a) == IF a \in Closers THEN CloseFrames ELSE GetFrames
CallsOf(a) == [stack : Seq(FramesOf(a)), ret : -1 .. MaxVersion, gets : 0 .. (MaxGets + 1)]
RefRecord ==
  [value : -1 .. MaxVersion, closed : BOOLEAN, lock : Kept!Actors \cup {"free"},
   signal : BOOLEAN, timer : {"none", "starting", "running", "ended"}]
Worlds ==
  [ref : [Kept!Refs -> RefRecord], version : 1 .. MaxVersion, built : -1 .. MaxVersion,
   faults : 0 .. MaxFaults]

\* The membership that the initializer has made last is the one of the lazy reference,
\* unless New failed since.
BuiltIsKept == world.built # 0 => world.built = world.ref["membership"].value
BackOnlyAfterFailure == Kept!WentBack => world.built = 0

\* Only who closes the context has frames of Close, and but one.
KeptShape ==
  /\ call = [a \in Kept!Actors |-> call[a]] /\ \A a \in Kept!Actors : call[a] \in CallsOf(a)
  /\ world \in Worlds /\ BuiltIsKept
  /\ \A c \in Closers : Len(call[c].stack) <= 1

\* Who closes the context has closed the references before the one it is at.
HasClosed(c, i) ==
  \/ call[c].stack = <<>>
  \/ i < Head(call[c].stack).next
  \/ i = Head(call[c].stack).next /\ Head(call[c].stack).at # "set"
ClosedInOrder ==
  \A c \in Closers :
    /\ call[c].stack # <<>> => call[c].gets = 1
    /\ call[c].gets = 1 =>
         \A i \in 1 .. 3 : HasClosed(c, i) => world.ref[Kept!CloseOrder[i]].closed

\* The timer of a closed reference is waited for while it runs.
WaitsFor(c, r) ==
  /\ call[c].stack # <<>> /\ Head(call[c].stack).at \in {"notify", "wait"}
  /\ Kept!CloseOrder[Head(call[c].stack).next] = r
RunningIsWaitedFor ==
  \A r \in Kept!Refs : world.ref[r].closed /\ world.ref[r].timer = "running" =>
    \E c \in Closers : WaitsFor(c, r)

KeptInv == KeptShape /\ ClosedInOrder /\ RunningIsWaitedFor

-----------------------------------------------------------------------------
LEMMA CloseOrderIsOfRefs ==
  /\ \A i \in 1 .. 3 : Kept!CloseOrder[i] \in Kept!Refs
  /\ \A r \in Kept!Refs : \E i \in 1 .. 3 : Kept!CloseOrder[i] = r
  /\ Len(Kept!CloseOrder) = 3 /\ DOMAIN Kept!CloseOrder = 1 .. 3
BY DEF Kept!CloseOrder, Kept!Refs

\* What a step makes of a stack.
LEMMA StackEdits ==
  ASSUME NEW F, NEW s \in Seq(F), s # <<>>, NEW f \in F, NEW g \in F
  PROVE  /\ <<f>> \in Seq(F) /\ <<f>> \o Tail(s) \in Seq(F) /\ <<g, f>> \o Tail(s) \in Seq(F)
         /\ Tail(s) \in Seq(F) /\ Head(s) \in F
         /\ <<f>> \o Tail(s) # <<>> /\ Head(<<f>> \o Tail(s)) = f
         /\ Len(<<f>> \o Tail(s)) = Len(s) /\ Len(Tail(s)) = Len(s) - 1
         /\ Len(s) <= 1 => Tail(s) = <<>>
<1>1. /\ Tail(s) \in Seq(F) /\ Head(s) \in F /\ Len(Tail(s)) = Len(s) - 1 /\ Len(s) \in Nat
      /\ Len(s) > 0
  OBVIOUS
<1>2. <<f>> \in Seq(F) /\ <<g, f>> \in Seq(F)
  OBVIOUS
<1>3. /\ <<f>> \o Tail(s) \in Seq(F) /\ <<g, f>> \o Tail(s) \in Seq(F)
      /\ Len(<<f>> \o Tail(s)) = Len(s)
  BY <1>1, <1>2
<1>4. <<f>> \o Tail(s) # <<>> /\ Head(<<f>> \o Tail(s)) = f
  BY <1>1, <1>2
<1>5. Len(s) <= 1 => Tail(s) = <<>>
  BY <1>1
<1> QED
  BY <1>1, <1>2, <1>3, <1>4, <1>5

LEMMA InitKeptInv ==
  ASSUME Kept!ServicesAssumption, Kept!Init
  PROVE  KeptInv
<1>0. /\ MaxGets \in Nat /\ MaxVersion \in Nat /\ MaxFaults \in Nat /\ MaxVersion > 0
  BY DEF Kept!ServicesAssumption
<1>1. \A a : <<>> \in Seq(FramesOf(a)) /\ Len(<<>>) = 0
  OBVIOUS
<1>2. KeptShape
  <2>1. world \in Worlds
    <3>1. world.ref \in [Kept!Refs -> RefRecord]
      BY <1>0 DEF Kept!Init, RefRecord
    <3> QED
      BY <1>0, <3>1 DEF Kept!Init, Worlds
  <2>2. \A a \in Kept!Actors : call[a] \in CallsOf(a) /\ call[a].stack = <<>>
    BY <1>0, <1>1 DEF Kept!Init, CallsOf
  <2>3. Closers \subseteq Kept!Actors
    BY DEF Kept!Actors
  <2>4. BuiltIsKept
    BY DEF Kept!Init, BuiltIsKept
  <2> QED
    BY <1>1, <2>1, <2>2, <2>3, <2>4 DEF KeptShape, Kept!Init
<1>3. ClosedInOrder /\ RunningIsWaitedFor
  <2>1. \A c \in Closers : call[c].stack = <<>> /\ call[c].gets = 0
    BY DEF Kept!Init, Kept!Actors
  <2>2. \A r \in Kept!Refs : ~world.ref[r].closed
    BY DEF Kept!Init
  <2> QED
    BY <2>1, <2>2 DEF ClosedInOrder, RunningIsWaitedFor
<1> QED
  BY <1>2, <1>3 DEF KeptInv

\* A step of somebody who does not close the context leaves references open that are open,
\* and starts no timer of a closed one.
KeepsQuiet ==
  /\ \A r \in Kept!Refs :
       /\ world'.ref[r].closed = world.ref[r].closed
       /\ world'.ref[r].timer = "running" /\ world.ref[r].closed =>
            world.ref[r].timer = "running"
  /\ BackOnlyAfterFailure /\ BuiltIsKept'

LEMMA QuietStep ==
  ASSUME Kept!ServicesAssumption, KeptInv, NEW a \in Kept!Actors, a \notin Closers,
         NEW n \in CallsOf(a), call' = [call EXCEPT ![a] = n], world' \in Worlds, KeepsQuiet
  PROVE  KeptInv'
<1>0. /\ KeptShape /\ ClosedInOrder /\ RunningIsWaitedFor
      /\ call = [b \in Kept!Actors |-> call[b]] /\ Closers \subseteq Kept!Actors
  BY DEF KeptInv, KeptShape, Kept!Actors
<1>1. /\ \A b \in Kept!Actors : call'[b] = IF b = a THEN n ELSE call[b]
      /\ \A c \in Closers : call'[c] = call[c]
  BY <1>0
<1>2. KeptShape'
  BY <1>0, <1>1 DEF KeptShape, KeepsQuiet
<1>3. ClosedInOrder'
  <2>1. \A i \in 1 .. 3 : world'.ref[Kept!CloseOrder[i]].closed
                            = world.ref[Kept!CloseOrder[i]].closed
    BY CloseOrderIsOfRefs DEF KeepsQuiet
  <2>2. \A c \in Closers, i \in 1 .. 3 : HasClosed(c, i)' = HasClosed(c, i)
    BY <1>1 DEF HasClosed
  <2> QED
    BY <1>0, <1>1, <2>1, <2>2 DEF ClosedInOrder
<1>4. RunningIsWaitedFor'
  <2>1. \A c \in Closers, r \in Kept!Refs : WaitsFor(c, r)' = WaitsFor(c, r)
    BY <1>1 DEF WaitsFor
  <2> QED
    BY <1>0, <2>1 DEF RunningIsWaitedFor, KeepsQuiet
<1> QED
  BY <1>2, <1>3, <1>4 DEF KeptInv

\* What a step of Get makes of its caller.
GetAts == {"enter", "lock", "init", "built", "handler", "failed"}
LEMMA GetCalls ==
  ASSUME KeptShape, NEW a \in Kept!Actors, a \notin Closers, Kept!Busy(a)
  PROVE  /\ call[a].stack \in Seq(GetFrames) /\ Kept!Frame(a) \in GetFrames
         /\ \A at \in GetAts : Kept!Move(a, at) =>
              \E n \in CallsOf(a) : call' = [call EXCEPT ![a] = n]
         /\ \A at \in GetAts, r \in Kept!Refs : Kept!Push(a, Kept!GetFrame(r, "enter"), at) =>
              \E n \in CallsOf(a) : call' = [call EXCEPT ![a] = n]
         /\ \A v \in -1 .. MaxVersion : MaxVersion \in Nat /\ Kept!Return(a, v) =>
              \E n \in CallsOf(a) : call' = [call EXCEPT ![a] = n]
<1> DEFINE s == call[a].stack
<1>1. /\ call[a] \in [stack : Seq(GetFrames), ret : -1 .. MaxVersion, gets : 0 .. (MaxGets + 1)]
      /\ CallsOf(a) = [stack : Seq(GetFrames), ret : -1 .. MaxVersion, gets : 0 .. (MaxGets + 1)]
      /\ call = [b \in Kept!Actors |-> call[b]]
  BY DEF KeptShape, CallsOf, FramesOf
<1>2. s \in Seq(GetFrames) /\ s # <<>> /\ Kept!Frame(a) = Head(s) /\ Head(s) \in GetFrames
  BY <1>1, StackEdits DEF Kept!Busy, Kept!Frame
<1>3. \A q \in Seq(GetFrames) : [call[a] EXCEPT !.stack = q] \in CallsOf(a)
  BY <1>1
<1>4. ASSUME NEW at \in GetAts
      PROVE  [Kept!Frame(a) EXCEPT !.at = at] \in GetFrames
  BY <1>2, <1>4 DEF GetFrames, GetAts
<1>5. ASSUME NEW at \in GetAts, Kept!Move(a, at)
      PROVE  \E n \in CallsOf(a) : call' = [call EXCEPT ![a] = n]
  <2>1. <<[Kept!Frame(a) EXCEPT !.at = at]>> \o Tail(s) \in Seq(GetFrames)
    BY <1>2, <1>4, StackEdits
  <2>2. call' = [call EXCEPT ![a] =
                   [call[a] EXCEPT !.stack = <<[Kept!Frame(a) EXCEPT !.at = at]>> \o Tail(s)]]
    BY <1>1, <1>5 DEF Kept!Move
  <2> QED
    BY <1>3, <2>1, <2>2
<1>6. ASSUME NEW at \in GetAts, NEW r \in Kept!Refs, Kept!Push(a, Kept!GetFrame(r, "enter"), at)
      PROVE  \E n \in CallsOf(a) : call' = [call EXCEPT ![a] = n]
  <2> DEFINE f == [Kept!Frame(a) EXCEPT !.at = at]
             g == Kept!GetFrame(r, "enter")
  <2>1. g \in GetFrames /\ f \in GetFrames
    BY <1>4 DEF Kept!GetFrame, GetFrames
  <2>2. <<g, f>> \o Tail(s) \in Seq(GetFrames)
    BY <1>2, <2>1, StackEdits
  <2>3. call' = [call EXCEPT ![a] = [call[a] EXCEPT !.stack = <<g, f>> \o Tail(s)]]
    BY <1>1, <1>6 DEF Kept!Push
  <2> HIDE DEF f, g
  <2> QED
    BY <1>3, <2>2, <2>3
<1>7. ASSUME NEW v \in -1 .. MaxVersion, MaxVersion \in Nat, Kept!Return(a, v)
      PROVE  \E n \in CallsOf(a) : call' = [call EXCEPT ![a] = n]
  <2> DEFINE ret == IF Tail(s) = <<>> THEN 0 ELSE v
  <2>1. Tail(s) \in Seq(GetFrames) /\ ret \in -1 .. MaxVersion
    BY <1>2, <1>7, StackEdits
  <2>2. call' = [call EXCEPT ![a] = [call[a] EXCEPT !.stack = Tail(s), !.ret = ret]]
    BY <1>1, <1>7 DEF Kept!Return
  <2> HIDE DEF ret
  <2>3. [call[a] EXCEPT !.stack = Tail(s), !.ret = ret] \in CallsOf(a)
    BY <1>1, <2>1
  <2> QED
    BY <2>2, <2>3
<1> QED
  BY <1>2, <1>5, <1>6, <1>7

\* What a step makes of a reference.
LEMMA RefEdits ==
  ASSUME world \in Worlds, BuiltIsKept, NEW r \in Kept!Refs, NEW m \in RefRecord,
         NEW faults \in 0 .. MaxFaults, NEW built \in -1 .. MaxVersion,
         world' = [world EXCEPT !.ref = [@ EXCEPT ![r] = m], !.built = built, !.faults = faults],
         m.closed = world.ref[r].closed,
         m.timer = "running" /\ world.ref[r].closed => world.ref[r].timer = "running",
         IF r = "membership"
         THEN /\ m.value < world.ref[r].value => world.built = 0
              /\ built # 0 => built = m.value
         ELSE built = world.built, MaxVersion \in Nat
  PROVE  world' \in Worlds /\ KeepsQuiet
<1>1. /\ world.ref \in [Kept!Refs -> RefRecord] /\ "membership" \in Kept!Refs
      /\ world'.ref = [world.ref EXCEPT ![r] = m] /\ world'.built = built
  BY DEF Worlds, Kept!Refs
<1>2. world' \in Worlds
  BY <1>1 DEF Worlds
<1>3. world.ref["membership"].value \in -1 .. MaxVersion
  BY <1>1 DEF RefRecord
<1>4. BackOnlyAfterFailure /\ BuiltIsKept'
  <2>1. CASE r = "membership"
    BY <1>1, <2>1 DEF BackOnlyAfterFailure, BuiltIsKept, Kept!WentBack
  <2>2. CASE r # "membership"
    BY <1>1, <1>3, <2>2 DEF BackOnlyAfterFailure, BuiltIsKept, Kept!WentBack
  <2> QED
    BY <2>1, <2>2
<1> QED
  BY <1>1, <1>2, <1>4 DEF KeepsQuiet

LEMMA SameRefs ==
  ASSUME world \in Worlds, BuiltIsKept, world' \in Worlds, world'.ref = world.ref,
         world'.built = world.built, MaxVersion \in Nat
  PROVE  KeepsQuiet
<1>1. world.ref["membership"].value \in -1 .. MaxVersion
  BY DEF Worlds, RefRecord, Kept!Refs
<1> QED
  BY <1>1 DEF KeepsQuiet, BackOnlyAfterFailure, BuiltIsKept, Kept!WentBack

\* What a world is made of
LEMMA WorldParts ==
  ASSUME KeptShape
  PROVE  /\ world \in Worlds /\ BuiltIsKept /\ world.ref \in [Kept!Refs -> RefRecord]
         /\ world.faults \in 0 .. MaxFaults /\ world.built \in -1 .. MaxVersion
         /\ world.version \in 1 .. MaxVersion
         /\ world = [ref |-> world.ref, version |-> world.version, built |-> world.built,
                     faults |-> world.faults]
BY DEF KeptShape, Worlds

\* The steps of somebody who does not close the context.
Quiet(a) ==
  /\ \E n \in CallsOf(a) : call' = [call EXCEPT ![a] = n]
  /\ world' \in Worlds /\ KeepsQuiet

\* A value is stored, with the one of the initializer beside it if it is the membership's.
LEMMA StoredIsQuiet ==
  ASSUME Kept!ServicesAssumption, KeptShape, NEW a \in Kept!Actors, a \notin Closers,
         Kept!Busy(a), NEW v \in -1 .. MaxVersion, NEW built \in -1 .. MaxVersion,
         Kept!Return(a, v), world' = [Kept!Stored(a, v) EXCEPT !.built = built],
         IF Kept!Frame(a).ref = "membership"
         THEN /\ v < world.ref["membership"].value => world.built = 0
              /\ built # 0 => built = v
         ELSE built = world.built
  PROVE  Quiet(a)
<1> DEFINE r == Kept!Frame(a).ref
           R == world.ref[r]
           m == [value |-> v, closed |-> R.closed, lock |-> "free", signal |-> R.signal,
                 timer |-> IF R.timer = "none" THEN "starting" ELSE R.timer]
<1>0. MaxVersion \in Nat /\ world \in Worlds /\ world.faults \in 0 .. MaxFaults /\ BuiltIsKept
  BY WorldParts DEF Kept!ServicesAssumption
<1>1. r \in Kept!Refs
  BY GetCalls DEF GetFrames
<1>2. R \in RefRecord /\ m \in RefRecord
  BY <1>0, <1>1 DEF Worlds, RefRecord
<1>3. world' = [world EXCEPT !.ref = [@ EXCEPT ![r] = m], !.built = built,
                             !.faults = world.faults]
  <2>1. R = [value |-> R.value, closed |-> R.closed, lock |-> R.lock, signal |-> R.signal,
             timer |-> R.timer]
    BY <1>2 DEF RefRecord
  <2>2. /\ world = [ref |-> world.ref, version |-> world.version, built |-> world.built,
                    faults |-> world.faults]
        /\ world.ref \in [Kept!Refs -> RefRecord]
    BY WorldParts
  <2> DEFINE ref == [world.ref EXCEPT ![r].value = v, ![r].lock = "free",
                       ![r].timer = IF @ = "none" THEN "starting" ELSE @]
  <2>3. Kept!Stored(a, v) = [world EXCEPT !.ref = ref]
    BY <2>2 DEF Kept!Stored
  <2>4. ref = [world.ref EXCEPT ![r] = m]
    BY <1>1, <2>1, <2>2
  <2> HIDE DEF m, ref
  <2>5. world' = [[world EXCEPT !.ref = ref] EXCEPT !.built = built]
    BY <2>3
  <2> QED
    BY <2>2, <2>4, <2>5
<1>4. /\ m.closed = R.closed /\ m.value = v
      /\ m.timer = "running" => R.timer = "running"
  OBVIOUS
<1> HIDE DEF m, R, r
<1>5. IF r = "membership"
      THEN /\ m.value < world.ref[r].value => world.built = 0
           /\ built # 0 => built = m.value
      ELSE built = world.built
  BY <1>4 DEF r
<1>6. world' \in Worlds /\ KeepsQuiet
  BY <1>0, <1>1, <1>2, <1>3, <1>4, <1>5, RefEdits DEF R
<1> QED
  BY <1>0, <1>6, GetCalls DEF Quiet

LEMMA StoreIsQuiet ==
  ASSUME Kept!ServicesAssumption, KeptShape, NEW a \in Kept!Actors, a \notin Closers,
         Kept!Busy(a), NEW v \in -1 .. MaxVersion, Kept!Store(a, v),
         Kept!Frame(a).ref = "membership" => v = world.built /\ v # 0
  PROVE  Quiet(a)
<1>1. Kept!Return(a, v) /\ world' = Kept!Stored(a, v)
  BY DEF Kept!Store
<1>2. world' = [Kept!Stored(a, v) EXCEPT !.built = world.built]
  <2>1. world = [ref |-> world.ref, version |-> world.version, built |-> world.built,
                 faults |-> world.faults]
    BY WorldParts
  <2> DEFINE ref == [world.ref EXCEPT ![Kept!Frame(a).ref].value = v,
                       ![Kept!Frame(a).ref].lock = "free",
                       ![Kept!Frame(a).ref].timer = IF @ = "none" THEN "starting" ELSE @]
  <2>2. Kept!Stored(a, v) = [world EXCEPT !.ref = ref]
    BY <2>1 DEF Kept!Stored
  <2> HIDE DEF ref
  <2> QED
    BY <1>1, <2>1, <2>2
<1>3. world.built \in -1 .. MaxVersion /\ BuiltIsKept /\ MaxVersion \in Nat
  BY WorldParts DEF Kept!ServicesAssumption
<1>4. Kept!Frame(a).ref = "membership" => ~(v < world.ref["membership"].value)
  BY <1>3 DEF BuiltIsKept
<1> QED
  BY <1>1, <1>2, <1>3, <1>4, StoredIsQuiet

LEMMA FailsIsQuiet ==
  ASSUME Kept!ServicesAssumption, KeptShape, NEW a \in Kept!Actors, a \notin Closers,
         Kept!Busy(a), Kept!Fails(a)
  PROVE  Quiet(a)
<1> DEFINE r == Kept!Frame(a).ref
           R == world.ref[r]
           m == [R EXCEPT !.lock = "free"]
<1>0. /\ MaxVersion \in Nat /\ world \in Worlds /\ world.faults \in 0 .. MaxFaults
      /\ BuiltIsKept /\ world.built \in -1 .. MaxVersion
  BY WorldParts DEF Kept!ServicesAssumption
<1>1. r \in Kept!Refs
  BY GetCalls DEF GetFrames
<1>2. R \in RefRecord /\ m \in RefRecord
  BY <1>0, <1>1 DEF Worlds, RefRecord
<1>3. world' = [world EXCEPT !.ref = [@ EXCEPT ![r] = m], !.built = world.built,
                             !.faults = world.faults]
  BY <1>0, <1>1, <1>2 DEF Kept!Fails, Worlds
<1>4. m.closed = R.closed /\ m.timer = R.timer /\ m.value = R.value /\ R.value \in -1 .. MaxVersion
  BY <1>2 DEF RefRecord
<1> HIDE DEF m, R, r
<1>6. r = "membership" => ~(m.value < R.value) /\ (world.built # 0 => world.built = m.value)
  BY <1>0, <1>4 DEF BuiltIsKept, R
<1>5. world' \in Worlds /\ KeepsQuiet
  BY <1>0, <1>1, <1>2, <1>3, <1>4, <1>6, RefEdits DEF R
<1>7. 0 \in -1 .. MaxVersion
  BY <1>0
<1> QED
  BY <1>0, <1>5, <1>7, GetCalls DEF Quiet, Kept!Fails

\* Where only the frame changes, or the lock as well
LEMMA LockIsQuiet ==
  ASSUME Kept!ServicesAssumption, KeptShape, NEW a \in Kept!Actors, a \notin Closers,
         Kept!Busy(a), Kept!Enter(a) \/ Kept!Lock(a)
  PROVE  Quiet(a)
<1> DEFINE r == Kept!Frame(a).ref
           R == world.ref[r]
           m == [R EXCEPT !.lock = a]
<1>0. /\ MaxVersion \in Nat /\ world \in Worlds /\ world.faults \in 0 .. MaxFaults
      /\ 0 \in -1 .. MaxVersion /\ BuiltIsKept /\ world.built \in -1 .. MaxVersion
  BY WorldParts DEF Kept!ServicesAssumption
<1>1. r \in Kept!Refs
  BY GetCalls DEF GetFrames
<1>2. R \in RefRecord /\ m \in RefRecord
  BY <1>0, <1>1 DEF Worlds, RefRecord
<1>3. R.value \in -1 .. MaxVersion /\ Kept!Ref(a) = R
  BY <1>2 DEF RefRecord, Kept!Ref
<1>4. CASE /\ UNCHANGED world
           /\ Kept!Move(a, "lock") \/ \E v \in -1 .. MaxVersion : Kept!Return(a, v)
  <2>1. KeepsQuiet
    BY <1>0, <1>4, SameRefs
  <2> QED
    BY <1>0, <1>4, <2>1, GetCalls DEF Quiet, GetAts
<1>5. CASE Kept!Move(a, "init") /\ world' = [world EXCEPT !.ref[r].lock = a]
  <2>1. world' = [world EXCEPT !.ref = [@ EXCEPT ![r] = m], !.built = world.built,
                               !.faults = world.faults]
    BY <1>0, <1>1, <1>2, <1>5 DEF Worlds
  <2>2. m.closed = R.closed /\ m.timer = R.timer /\ m.value = R.value
    BY <1>2 DEF RefRecord
  <2> HIDE DEF m, R, r
  <2>3. r = "membership" => ~(m.value < R.value) /\ (world.built # 0 => world.built = m.value)
    BY <1>0, <1>3, <2>2 DEF BuiltIsKept, R
  <2>4. world' \in Worlds /\ KeepsQuiet
    BY <1>0, <1>1, <1>2, <2>1, <2>2, <2>3, RefEdits DEF R
  <2> QED
    BY <1>0, <1>5, <2>4, GetCalls DEF Quiet, GetAts
<1>6. CASE Kept!Enter(a)
  BY <1>0, <1>3, <1>4, <1>6 DEF Kept!Enter
<1>7. CASE Kept!Lock(a)
  BY <1>3, <1>4, <1>5, <1>7 DEF Kept!Lock
<1> QED
  BY <1>6, <1>7

LEMMA GetIsQuiet ==
  ASSUME Kept!ServicesAssumption, KeptShape, NEW a \in Kept!Actors, a \notin Closers,
         Kept!Works(a) \/ Kept!QueryFails(a) \/ Kept!BuildFails(a)
  PROVE  Quiet(a)
<1>0. /\ MaxVersion \in Nat /\ world \in Worlds /\ world.faults \in 0 .. MaxFaults
      /\ MaxFaults \in Nat /\ world.version \in 1 .. MaxVersion /\ 0 \in -1 .. MaxVersion
      /\ Kept!Nobody \in -1 .. MaxVersion /\ BuiltIsKept /\ world.built \in -1 .. MaxVersion
      /\ world = [ref |-> world.ref, version |-> world.version, built |-> world.built,
                  faults |-> world.faults]
      /\ world.ref \in [Kept!Refs -> RefRecord]
  BY WorldParts DEF Kept!ServicesAssumption, Kept!Nobody
<1>1. Kept!Busy(a)
  BY DEF Kept!Works, Kept!QueryFails, Kept!Enter, Kept!Lock, Kept!QueryConfig, Kept!NeedConfig,
         Kept!BuildMembership, Kept!BuildFails, Kept!AskPeers, Kept!KeepMembers, Kept!Handle,
         Kept!GetFails, Kept!SetClosed, Kept!NotifyClosing, Kept!WaitTimer, Kept!In
<1>2. Kept!Frame(a) \in GetFrames /\ Kept!Frame(a).do = "get" /\ Kept!Frame(a).ref \in Kept!Refs
  BY <1>1, GetCalls DEF GetFrames
<1>3. /\ call[a].ret \in -1 .. MaxVersion
      /\ world.ref[Kept!Frame(a).ref] \in RefRecord
      /\ world.ref[Kept!Frame(a).ref].value \in -1 .. MaxVersion
  BY <1>0, <1>2 DEF KeptShape, CallsOf, Worlds, RefRecord
<1>4. ASSUME UNCHANGED world,
             \/ \E at \in GetAts : Kept!Move(a, at)
             \/ \E at \in GetAts, r \in Kept!Refs : Kept!Push(a, Kept!GetFrame(r, "enter"), at)
      PROVE  Quiet(a)
  <2>1. world' \in Worlds /\ KeepsQuiet
    BY <1>0, <1>4, SameRefs
  <2> QED
    BY <1>1, <1>4, <2>1, GetCalls DEF Quiet
<1>5. CASE Kept!Enter(a) \/ Kept!Lock(a)
  BY <1>1, <1>5, LockIsQuiet
<1>6. CASE Kept!QueryConfig(a)
  <2>1. Kept!Frame(a).ref = "config"
    BY <1>6 DEF Kept!QueryConfig
  <2>2. CASE Kept!Store(a, world.version)
    <3>1. world.version \in -1 .. MaxVersion
      BY <1>0
    <3> QED
      BY <1>1, <2>1, <2>2, <3>1, StoreIsQuiet
  <2>3. CASE ~Kept!Store(a, world.version)
    <3> DEFINE R == world.ref["config"]
    <3>1. PICK v \in 1 .. world.version - 1 :
            /\ Kept!Fault /\ Kept!Return(a, v)
            /\ world' = [world EXCEPT !.ref["config"].value = v, !.faults = @ + 1,
                                      !.ref["config"].lock = "free"]
      BY <1>6, <2>3 DEF Kept!QueryConfig
    <3>2. v \in -1 .. MaxVersion /\ world.faults + 1 \in 0 .. MaxFaults
      BY <1>0, <3>1 DEF Kept!Fault
    <3> DEFINE m == [R EXCEPT !.value = v, !.lock = "free"]
    <3>3. m \in RefRecord /\ R \in RefRecord /\ m.closed = R.closed /\ m.timer = R.timer
      BY <1>3, <2>1, <3>2 DEF RefRecord
    <3>4. world' = [world EXCEPT !.ref = [@ EXCEPT !["config"] = m],
                                 !.built = world.built, !.faults = world.faults + 1]
      <4>1. /\ world = [ref |-> world.ref, version |-> world.version, built |-> world.built,
                        faults |-> world.faults]
            /\ world.ref \in [Kept!Refs -> RefRecord] /\ "config" \in Kept!Refs
        BY <1>0 DEF Worlds, Kept!Refs
      <4> DEFINE ref == [world.ref EXCEPT !["config"].value = v, !["config"].lock = "free"]
      <4>2. world' = [world EXCEPT !.ref = ref, !.faults = world.faults + 1]
        BY <3>1, <4>1
      <4>3. ref = [world.ref EXCEPT !["config"] = m]
        BY <3>3, <4>1
      <4> HIDE DEF m, ref
      <4> QED
        BY <4>1, <4>2, <4>3
    <3> HIDE DEF m
    <3>5. world' \in Worlds /\ KeepsQuiet
      BY <1>0, <1>2, <2>1, <3>2, <3>3, <3>4, RefEdits
    <3> QED
      BY <1>0, <1>1, <3>1, <3>2, <3>5, GetCalls DEF Quiet
  <2> QED
    BY <2>2, <2>3
<1>7. CASE Kept!NeedConfig(a)
  BY <1>4, <1>7 DEF Kept!NeedConfig, GetAts, Kept!Refs
<1>8. CASE Kept!BuildMembership(a)
  <2> DEFINE new == call[a].ret
  <2>1. Kept!Frame(a).ref = "membership"
    BY <1>8 DEF Kept!BuildMembership
  <2>2. CASE new = 0
    BY <1>1, <1>8, <2>2, FailsIsQuiet DEF Kept!BuildMembership
  <2>3. CASE new # 0 /\ ~Kept!Newer(new)
    <3>1. Kept!Store(a, world.built) /\ world.built # 0 /\ world.built \in -1 .. MaxVersion
      BY <1>0, <1>8, <2>3 DEF Kept!BuildMembership, Kept!Newer
    <3> QED
      BY <1>1, <3>1, StoreIsQuiet
  <2>4. CASE new # 0 /\ Kept!Newer(new)
    <3>1. /\ Kept!Return(a, new) /\ world' = [Kept!Stored(a, new) EXCEPT !.built = new]
          /\ world.built = 0 \/ new > world.built
      BY <1>8, <2>4 DEF Kept!BuildMembership, Kept!Newer
    <3>2. new \in -1 .. MaxVersion
      BY <1>3
    <3>3. new < world.ref["membership"].value => world.built = 0
      BY <1>0, <3>1, <3>2 DEF BuiltIsKept
    <3> HIDE DEF new
    <3> QED
      BY <1>1, <2>1, <3>1, <3>2, <3>3, StoredIsQuiet
  <2> QED
    BY <2>2, <2>3, <2>4
<1>9. CASE Kept!AskPeers(a)
  BY <1>4, <1>9 DEF Kept!AskPeers, GetAts, Kept!Refs
<1>10. CASE Kept!KeepMembers(a)
  <2>1. /\ Kept!Frame(a).ref = "peers"
        /\ \E v \in -1 .. MaxVersion : Kept!Store(a, v)
    BY <1>0, <1>3, <1>10 DEF Kept!KeepMembers
  <2> QED
    BY <1>1, <2>1, StoreIsQuiet
<1>11. CASE Kept!Handle(a)
  BY <1>4, <1>11 DEF Kept!Handle, GetAts
<1>12. CASE Kept!GetFails(a)
  BY <1>1, <1>12, FailsIsQuiet DEF Kept!GetFails
<1>13. CASE Kept!QueryFails(a)
  <2>1. Kept!Move(a, "handler") /\ world' = [world EXCEPT !.faults = @ + 1] /\ Kept!Fault
    BY <1>13 DEF Kept!QueryFails
  <2>2. world' \in Worlds /\ world'.ref = world.ref /\ world'.built = world.built
    BY <1>0, <2>1 DEF Worlds, Kept!Fault
  <2>3. KeepsQuiet
    BY <1>0, <2>2, SameRefs
  <2> QED
    BY <1>1, <2>1, <2>2, <2>3, GetCalls DEF Quiet, GetAts
\* Only the lock of the reference changes, and the initializer has nothing any more.
<1>14. CASE Kept!BuildFails(a)
  <2> DEFINE R == world.ref["membership"]
             m == [R EXCEPT !.lock = "free"]
  <2>1. /\ Kept!Frame(a).ref = "membership" /\ Kept!Return(a, 0) /\ Kept!Fault
        /\ world' = [world EXCEPT !.ref["membership"].lock = "free", !.built = 0,
                                  !.faults = @ + 1]
    BY <1>14 DEF Kept!BuildFails
  <2>2. world.faults + 1 \in 0 .. MaxFaults /\ "membership" \in Kept!Refs
        /\ 0 \in -1 .. MaxVersion
    BY <1>0, <2>1 DEF Kept!Fault, Kept!Refs
  <2>3. /\ m \in RefRecord /\ R \in RefRecord /\ m.closed = R.closed /\ m.timer = R.timer
        /\ m.value = R.value /\ R.value \in -1 .. MaxVersion
    BY <1>3, <2>1 DEF RefRecord
  <2>4. world' = [world EXCEPT !.ref = [@ EXCEPT !["membership"] = m], !.built = 0,
                               !.faults = world.faults + 1]
    <3> DEFINE ref == [world.ref EXCEPT !["membership"].lock = "free"]
    <3>1. world' = [world EXCEPT !.ref = ref, !.built = 0, !.faults = world.faults + 1]
      BY <1>0, <2>1
    <3>2. ref = [world.ref EXCEPT !["membership"] = m]
      BY <1>0, <2>2, <2>3
    <3> HIDE DEF m, ref
    <3> QED
      BY <1>0, <3>1, <3>2
  <2> HIDE DEF m
  <2>5. m.value < world.ref["membership"].value => world.built = 0
    BY <1>0, <2>3
  <2>6. world' \in Worlds /\ KeepsQuiet
    BY <1>0, <2>2, <2>3, <2>4, <2>5, RefEdits
  <2> QED
    BY <1>0, <1>1, <2>1, <2>6, GetCalls DEF Quiet
<1>15. ~(Kept!SetClosed(a) \/ Kept!NotifyClosing(a) \/ Kept!WaitTimer(a))
  BY <1>2 DEF Kept!SetClosed, Kept!NotifyClosing, Kept!WaitTimer, Kept!In
<1> QED
  BY <1>5, <1>6, <1>7, <1>8, <1>9, <1>10, <1>11, <1>12, <1>13, <1>14, <1>15 DEF Kept!Works

\* What a step makes of the record of a caller, and of a frame of Close
LEMMA CallEdits ==
  ASSUME NEW S, NEW R, NEW G, NEW m \in [stack : S, ret : R, gets : G],
         NEW q \in S, NEW v \in R, NEW k \in G
  PROVE  /\ [m EXCEPT !.stack = q] \in [stack : S, ret : R, gets : G]
         /\ [m EXCEPT !.stack = q].gets = m.gets /\ [m EXCEPT !.stack = q].stack = q
         /\ [m EXCEPT !.stack = q, !.ret = v] \in [stack : S, ret : R, gets : G]
         /\ [m EXCEPT !.stack = q, !.ret = v].gets = m.gets
         /\ [m EXCEPT !.stack = q, !.ret = v].stack = q
         /\ [m EXCEPT !.stack = q, !.gets = k] \in [stack : S, ret : R, gets : G]
         /\ [m EXCEPT !.stack = q, !.gets = k].gets = k
         /\ [m EXCEPT !.stack = q, !.gets = k].stack = q
OBVIOUS

LEMMA CloseFrameEdits ==
  ASSUME NEW f \in CloseFrames
  PROVE  /\ f.next \in 1 .. 3 /\ f.do = "close" /\ f.at \in {"set", "notify", "wait"}
         /\ \A at \in {"set", "notify", "wait"} :
              /\ [f EXCEPT !.at = at] \in CloseFrames
              /\ [f EXCEPT !.at = at].at = at /\ [f EXCEPT !.at = at].next = f.next
         /\ f.next # 3 =>
              /\ [f EXCEPT !.at = "set", !.next = @ + 1] \in CloseFrames
              /\ [f EXCEPT !.at = "set", !.next = @ + 1].at = "set"
              /\ [f EXCEPT !.at = "set", !.next = @ + 1].next = f.next + 1
<1>1. f.next \in 1 .. 3 /\ f.do = "close" /\ f.at \in {"set", "notify", "wait"}
  BY DEF CloseFrames
<1>2. ASSUME NEW at \in {"set", "notify", "wait"}
      PROVE  /\ [f EXCEPT !.at = at] \in CloseFrames
             /\ [f EXCEPT !.at = at].at = at /\ [f EXCEPT !.at = at].next = f.next
  BY DEF CloseFrames
<1>3. ASSUME f.next # 3
      PROVE  /\ [f EXCEPT !.at = "set", !.next = @ + 1] \in CloseFrames
             /\ [f EXCEPT !.at = "set", !.next = @ + 1].at = "set"
             /\ [f EXCEPT !.at = "set", !.next = @ + 1].next = f.next + 1
  <2>1. f.next + 1 \in 1 .. 3
    BY <1>1, <1>3
  <2> QED
    BY <2>1 DEF CloseFrames
<1> QED
  BY <1>1, <1>2, <1>3

LEMMA OneFrame ==
  ASSUME NEW g
  PROVE  Head(<<g>>) = g /\ <<g>> # <<>> /\ Len(<<g>>) = 1 /\ Len(<<>>) = 0
OBVIOUS

\* The steps of somebody who closes the context
LEMMA CloserCalls ==
  ASSUME KeptShape, NEW c \in Closers, Kept!Busy(c)
  PROVE  /\ call[c].stack \in Seq(CloseFrames) /\ call[c].stack # <<>>
         /\ Kept!Frame(c) = Head(call[c].stack) /\ Kept!Frame(c) \in CloseFrames
         /\ Tail(call[c].stack) = <<>> /\ Len(call[c].stack) = 1
         /\ c \in Kept!Actors /\ call[c] \in CallsOf(c)
<1>1. c \in Kept!Actors /\ call[c] \in CallsOf(c) /\ Len(call[c].stack) <= 1
  BY DEF KeptShape, Kept!Actors
<1>2. call[c].stack \in Seq(CloseFrames) /\ call[c].stack # <<>>
  BY <1>1 DEF CallsOf, FramesOf, Kept!Busy
<1>3. Kept!Frame(c) = Head(call[c].stack)
  BY DEF Kept!Frame
<1>4. Head(call[c].stack) \in CloseFrames
  BY <1>2
<1>5. Tail(call[c].stack) = <<>> /\ Len(call[c].stack) = 1
  <2>1. Tail(call[c].stack) = <<>>
    BY <1>1, <1>2, <1>4, StackEdits
  <2>2. Len(call[c].stack) \in Nat /\ Len(call[c].stack) # 0
    BY <1>2
  <2>3. \A n \in Nat : n # 0 /\ n <= 1 => n = 1
    OBVIOUS
  <2>4. Len(call[c].stack) = 1
    BY <1>1, <2>2, <2>3
  <2> QED
    BY <2>1, <2>4
<1> QED
  BY <1>1, <1>2, <1>3, <1>4, <1>5

\* Its stack becomes empty, or has one frame.
LEMMA CloserMoves ==
  ASSUME KeptShape, NEW c \in Closers, Kept!Busy(c), 0 \in -1 .. MaxVersion
  PROVE  /\ \A at \in {"set", "notify", "wait"} : Kept!Move(c, at) =>
              \E n \in CallsOf(c) :
                /\ call' = [call EXCEPT ![c] = n] /\ n.gets = call[c].gets
                /\ n.stack = <<[Kept!Frame(c) EXCEPT !.at = at]>>
         /\ Kept!CloseNext(c) =>
              \E n \in CallsOf(c) :
                /\ call' = [call EXCEPT ![c] = n] /\ n.gets = call[c].gets
                /\ IF Kept!Frame(c).next = 3 THEN n.stack = <<>>
                   ELSE n.stack = <<[Kept!Frame(c) EXCEPT !.at = "set", !.next = @ + 1]>>
<1> DEFINE f == Kept!Frame(c)
<1>0. /\ call[c].stack \in Seq(CloseFrames) /\ call[c].stack # <<>>
      /\ f \in CloseFrames /\ Tail(call[c].stack) = <<>>
      /\ c \in Kept!Actors /\ call[c] \in CallsOf(c)
      /\ call = [b \in Kept!Actors |-> call[b]]
      /\ CallsOf(c) = [stack : Seq(CloseFrames), ret : -1 .. MaxVersion, gets : 0 .. (MaxGets + 1)]
  BY CloserCalls DEF KeptShape, CallsOf, FramesOf
<1>1. /\ \A q : <<q>> \o <<>> = <<q>>
      /\ \A q \in CloseFrames : <<q>> \in Seq(CloseFrames)
      /\ <<>> \in Seq(CloseFrames)
  OBVIOUS
<1>2. ASSUME NEW q \in Seq(CloseFrames)
      PROVE  /\ [call[c] EXCEPT !.stack = q] \in CallsOf(c)
             /\ [call[c] EXCEPT !.stack = q].gets = call[c].gets
             /\ [call[c] EXCEPT !.stack = q].stack = q
  BY <1>0
<1>3. ASSUME NEW at \in {"set", "notify", "wait"}, Kept!Move(c, at)
      PROVE  \E n \in CallsOf(c) :
                /\ call' = [call EXCEPT ![c] = n] /\ n.gets = call[c].gets
                /\ n.stack = <<[f EXCEPT !.at = at]>>
  <2> DEFINE q == <<[f EXCEPT !.at = at]>>
  <2>1. q \in Seq(CloseFrames)
    BY <1>0, <1>1 DEF CloseFrames
  <2>2. call' = [call EXCEPT ![c] = [call[c] EXCEPT !.stack = q]]
    <3>1. call' = [call EXCEPT ![c].stack = q \o <<>>]
      BY <1>0, <1>3 DEF Kept!Move
    <3>2. q \o <<>> = q
      BY <1>1
    <3> HIDE DEF q
    <3> QED
      BY <1>0, <3>1, <3>2
  <2> HIDE DEF q
  <2>3. \E n \in CallsOf(c) : /\ call' = [call EXCEPT ![c] = n] /\ n.gets = call[c].gets
                              /\ n.stack = q
    BY <1>2, <2>1, <2>2
  <2> QED
    BY <2>3 DEF q
<1>4. ASSUME Kept!CloseNext(c)
      PROVE  \E n \in CallsOf(c) :
                /\ call' = [call EXCEPT ![c] = n] /\ n.gets = call[c].gets
                /\ IF f.next = 3 THEN n.stack = <<>>
                   ELSE n.stack = <<[f EXCEPT !.at = "set", !.next = @ + 1]>>
  <2>1. CASE f.next = 3
    <3>1. call' = [call EXCEPT ![c] = [call[c] EXCEPT !.stack = <<>>, !.ret = 0]]
      BY <1>0, <1>4, <2>1, CloseOrderIsOfRefs DEF Kept!CloseNext, Kept!Return
    <3>2. /\ [call[c] EXCEPT !.stack = <<>>, !.ret = 0] \in CallsOf(c)
          /\ [call[c] EXCEPT !.stack = <<>>, !.ret = 0].gets = call[c].gets
          /\ [call[c] EXCEPT !.stack = <<>>, !.ret = 0].stack = <<>>
      <4>1. /\ call[c] \in [stack : Seq(CloseFrames), ret : -1 .. MaxVersion,
                            gets : 0 .. (MaxGets + 1)]
            /\ <<>> \in Seq(CloseFrames) /\ call[c].gets \in 0 .. (MaxGets + 1)
        BY <1>0, <1>1
      <4> HIDE DEF f
      <4>2. /\ [call[c] EXCEPT !.stack = <<>>, !.ret = 0]
                 \in [stack : Seq(CloseFrames), ret : -1 .. MaxVersion,
                      gets : 0 .. (MaxGets + 1)]
            /\ [call[c] EXCEPT !.stack = <<>>, !.ret = 0].gets = call[c].gets
            /\ [call[c] EXCEPT !.stack = <<>>, !.ret = 0].stack = <<>>
        BY <4>1, CallEdits, Zenon
      <4> QED
        BY <1>0, <4>2
    <3> QED
      BY <2>1, <3>1, <3>2
  <2>2. CASE f.next # 3
    <3> DEFINE q == <<[f EXCEPT !.at = "set", !.next = @ + 1]>>
    <3>1. q \in Seq(CloseFrames)
      <4>1. f.next \in 1 .. 3 /\ f.next + 1 \in 1 .. 3
        BY <1>0, <2>2 DEF CloseFrames
      <4>2. [f EXCEPT !.at = "set", !.next = @ + 1] \in CloseFrames
        BY <1>0, <4>1 DEF CloseFrames
      <4> QED
        BY <1>1, <4>2
    <3>2. call' = [call EXCEPT ![c] = [call[c] EXCEPT !.stack = q]]
      <4>1. call' = [call EXCEPT ![c].stack = q \o <<>>]
        BY <1>0, <1>4, <2>2, CloseOrderIsOfRefs DEF Kept!CloseNext
      <4>2. q \o <<>> = q
        BY <1>1
      <4> HIDE DEF q
      <4> QED
        BY <1>0, <4>1, <4>2
    <3> HIDE DEF q
    <3>3. \E n \in CallsOf(c) : /\ call' = [call EXCEPT ![c] = n] /\ n.gets = call[c].gets
                                /\ n.stack = q
      BY <1>2, <3>1, <3>2
    <3> QED
      BY <2>2, <3>3 DEF q
  <2> QED
    BY <2>1, <2>2
<1> QED
  BY <1>3, <1>4

\* Where a step leaves who closes the context, with a stack that is empty or one frame: what
\* it has closed by then, and whom it waits for
LEMMA HasClosedThen ==
  ASSUME NEW c, NEW i \in 1 .. 3
  PROVE  /\ \A g : call'[c].stack = <<g>> =>
              (HasClosed(c, i)' <=> i < g.next \/ (i = g.next /\ g.at # "set"))
         /\ \A g, r : call'[c].stack = <<g>> =>
              (WaitsFor(c, r)' <=> g.at \in {"notify", "wait"}
                                   /\ Kept!CloseOrder[g.next] = r)
<1>1. ASSUME NEW g, call'[c].stack = <<g>>
      PROVE  call'[c].stack # <<>> /\ Head(call'[c].stack) = g
  BY <1>1
<1>2. ASSUME NEW g, call'[c].stack = <<g>>
      PROVE  HasClosed(c, i)' <=> i < g.next \/ (i = g.next /\ g.at # "set")
  BY <1>1, <1>2 DEF HasClosed
<1>3. ASSUME NEW g, NEW r, call'[c].stack = <<g>>
      PROVE  WaitsFor(c, r)' <=> g.at \in {"notify", "wait"} /\ Kept!CloseOrder[g.next] = r
  BY <1>1, <1>3 DEF WaitsFor
<1> QED
  BY <1>2, <1>3

LEMMA KeptFacts ==
  ASSUME Kept!ServicesAssumption, KeptInv
  PROVE  /\ KeptShape /\ ClosedInOrder /\ RunningIsWaitedFor
         /\ MaxVersion \in Nat /\ 0 \in -1 .. MaxVersion /\ MaxGets \in Nat
         /\ MaxFaults \in Nat /\ Closers \subseteq Kept!Actors
         /\ call = [b \in Kept!Actors |-> call[b]]
         /\ world \in Worlds /\ world.ref \in [Kept!Refs -> RefRecord]
         /\ world = [ref |-> world.ref, version |-> world.version, built |-> world.built,
                     faults |-> world.faults]
         /\ world.ref["membership"].value \in -1 .. MaxVersion
         /\ BuiltIsKept /\ world.built \in -1 .. MaxVersion
<1>1. MaxVersion \in Nat /\ MaxGets \in Nat /\ MaxFaults \in Nat
  BY DEF Kept!ServicesAssumption
<1>2. KeptShape /\ ClosedInOrder /\ RunningIsWaitedFor
  BY DEF KeptInv
<1>3. call = [b \in Kept!Actors |-> call[b]] /\ world \in Worlds
  BY <1>2 DEF KeptShape
<1>4. /\ world.ref \in [Kept!Refs -> RefRecord] /\ BuiltIsKept
      /\ world = [ref |-> world.ref, version |-> world.version, built |-> world.built,
                  faults |-> world.faults]
      /\ world.built \in -1 .. MaxVersion
  BY <1>2, WorldParts
<1>5. world.ref["membership"].value \in -1 .. MaxVersion
  BY <1>4 DEF RefRecord, Kept!Refs
<1>6. Closers \subseteq Kept!Actors /\ 0 \in -1 .. MaxVersion
  BY <1>1 DEF Kept!Actors
<1> QED
  BY <1>1, <1>2, <1>3, <1>4, <1>5, <1>6

\* What a step of who closes the context changes: its call, and the flags of one reference
LEMMA CloserEffect ==
  ASSUME Kept!ServicesAssumption, KeptInv, NEW c \in Closers,
         NEW n \in CallsOf(c), call' = [call EXCEPT ![c] = n], n.gets = 1,
         n.stack = <<>> \/ \E g \in CloseFrames : n.stack = <<g>>, world' \in Worlds,
         world'.built = world.built,
         \A r \in Kept!Refs :
           /\ world.ref[r].closed => world'.ref[r].closed
           /\ world'.ref[r].timer = world.ref[r].timer
           /\ world'.ref[r].value = world.ref[r].value,
         \A i \in 1 .. 3 : HasClosed(c, i)' => world'.ref[Kept!CloseOrder[i]].closed,
         \A r \in Kept!Refs : world'.ref[r].closed /\ world.ref[r].timer = "running" =>
           \/ WaitsFor(c, r)'
           \/ world.ref[r].closed /\ ~WaitsFor(c, r)
  PROVE  KeptInv' /\ BackOnlyAfterFailure
<1>0. /\ KeptShape /\ ClosedInOrder /\ RunningIsWaitedFor
      /\ MaxVersion \in Nat /\ Closers \subseteq Kept!Actors
      /\ call = [b \in Kept!Actors |-> call[b]]
      /\ world.ref["membership"].value \in -1 .. MaxVersion
      /\ BuiltIsKept /\ "membership" \in Kept!Refs
  BY KeptFacts DEF Kept!Refs
<1>1. /\ \A b \in Kept!Actors : call'[b] = IF b = c THEN n ELSE call[b]
      /\ call'[c] = n
  BY <1>0
<1>2. Len(n.stack) <= 1
  <2>1. CASE n.stack = <<>>
    BY <2>1, OneFrame
  <2>2. CASE \E g \in CloseFrames : n.stack = <<g>>
    BY <2>2, OneFrame
  <2> QED
    BY <2>1, <2>2
<1>6. BackOnlyAfterFailure /\ BuiltIsKept'
  BY <1>0 DEF BackOnlyAfterFailure, BuiltIsKept, Kept!WentBack
<1>3. KeptShape'
  BY <1>0, <1>1, <1>2, <1>6 DEF KeptShape
<1>4. ClosedInOrder'
  <2>1. ASSUME NEW d \in Closers, call'[d].gets = 1, NEW i \in 1 .. 3, HasClosed(d, i)'
        PROVE  world'.ref[Kept!CloseOrder[i]].closed
    <3>1. CASE d = c
      BY <2>1, <3>1
    <3>2. CASE d # c
      <4>1. call'[d] = call[d]
        BY <1>0, <1>1, <3>2
      <4>2. HasClosed(d, i) /\ call[d].gets = 1
        BY <2>1, <4>1 DEF HasClosed
      <4>3. world.ref[Kept!CloseOrder[i]].closed
        BY <1>0, <4>2 DEF ClosedInOrder
      <4> QED
        BY <4>3, CloseOrderIsOfRefs
    <3> QED
      BY <3>1, <3>2
  <2>2. \A d \in Closers : call'[d].stack # <<>> => call'[d].gets = 1
    BY <1>0, <1>1 DEF ClosedInOrder
  <2> QED
    BY <2>1, <2>2 DEF ClosedInOrder
<1>5. RunningIsWaitedFor'
  <2>1. ASSUME NEW r \in Kept!Refs, world'.ref[r].closed, world'.ref[r].timer = "running"
        PROVE  \E d \in Closers : WaitsFor(d, r)'
    <3>1. CASE WaitsFor(c, r)'
      BY <3>1
    <3>2. CASE world.ref[r].closed /\ ~WaitsFor(c, r)
      <4>1. PICK d \in Closers : WaitsFor(d, r)
        BY <1>0, <2>1, <3>2 DEF RunningIsWaitedFor
      <4>2. call'[d] = call[d]
        BY <1>0, <1>1, <3>2, <4>1
      <4> QED
        BY <4>1, <4>2 DEF WaitsFor
    <3> QED
      BY <2>1, <3>1, <3>2
  <2> QED
    BY <2>1 DEF RunningIsWaitedFor
<1> QED
  BY <1>3, <1>4, <1>5, <1>6 DEF KeptInv

LEMMA CloseContextStep ==
  ASSUME Kept!ServicesAssumption, KeptInv, NEW c \in Closers, Kept!CloseContext(c)
  PROVE  KeptInv' /\ BackOnlyAfterFailure
<1> DEFINE g == Kept!CloseFrame
           n == [call[c] EXCEPT !.stack = <<g>>, !.gets = 1]
<1>0. /\ KeptShape /\ MaxGets \in Nat /\ c \in Kept!Actors /\ world \in Worlds
      /\ MaxVersion \in Nat /\ call = [b \in Kept!Actors |-> call[b]]
  BY KeptFacts
<1>1. /\ call[c].stack = <<>> /\ UNCHANGED world
      /\ call' = [call EXCEPT ![c].stack = <<g>>, ![c].gets = 1]
  BY DEF Kept!CloseContext, Kept!Busy
<1>2. g \in CloseFrames /\ g.next = 1 /\ g.at = "set" /\ <<g>> \in Seq(CloseFrames)
  <2>1. g \in CloseFrames /\ g.next = 1 /\ g.at = "set"
    BY DEF Kept!CloseFrame, CloseFrames
  <2> QED
    BY <2>1
<1>3. /\ call[c] \in [stack : Seq(CloseFrames), ret : -1 .. MaxVersion, gets : 0 .. (MaxGets + 1)]
      /\ CallsOf(c) = [stack : Seq(CloseFrames), ret : -1 .. MaxVersion, gets : 0 .. (MaxGets + 1)]
      /\ 1 \in 0 .. (MaxGets + 1) /\ call[c].ret \in -1 .. MaxVersion
  <2>1. CallsOf(c) = [stack : Seq(CloseFrames), ret : -1 .. MaxVersion,
                      gets : 0 .. (MaxGets + 1)]
    BY DEF CallsOf, FramesOf
  <2>2. call[c] \in CallsOf(c)
    BY <1>0 DEF KeptShape
  <2>3. 1 \in 0 .. (MaxGets + 1)
    BY <1>0
  <2> QED
    BY <2>1, <2>2, <2>3
<1> HIDE DEF g
<1>4. n \in CallsOf(c) /\ n.gets = 1 /\ n.stack = <<g>>
  <2>1. /\ n \in [stack : Seq(CloseFrames), ret : -1 .. MaxVersion, gets : 0 .. (MaxGets + 1)]
        /\ n.gets = 1 /\ n.stack = <<g>>
    BY <1>2, <1>3, CallEdits, Zenon
  <2> QED
    BY <1>3, <2>1
<1>5. call' = [call EXCEPT ![c] = n]
  BY <1>0, <1>1
<1> HIDE DEF n
<1>6. call'[c].stack = <<g>>
  BY <1>0, <1>4, <1>5
<1>7. \A i \in 1 .. 3 : ~HasClosed(c, i)'
  <2>1. ASSUME NEW i \in 1 .. 3
        PROVE  ~HasClosed(c, i)'
    <3>1. HasClosed(c, i)' <=> i < g.next \/ (i = g.next /\ g.at # "set")
      BY <1>6, HasClosedThen
    <3> QED
      BY <1>2, <3>1
  <2> QED
    BY <2>1
<1>8. \A r \in Kept!Refs : ~WaitsFor(c, r)
  BY <1>1 DEF WaitsFor
<1>9. /\ world' \in Worlds /\ world'.built = world.built
      /\ \A r \in Kept!Refs :
           /\ world.ref[r].closed => world'.ref[r].closed
           /\ world'.ref[r].timer = world.ref[r].timer
           /\ world'.ref[r].value = world.ref[r].value
           /\ world'.ref[r].closed => world.ref[r].closed /\ ~WaitsFor(c, r)
  BY <1>0, <1>1, <1>8
<1>10. n.stack = <<>> \/ \E h \in CloseFrames : n.stack = <<h>>
  BY <1>2, <1>4
<1> QED
  BY <1>4, <1>5, <1>7, <1>9, <1>10, CloserEffect

\* Where who closes the context is
LEMMA CloserAt ==
  ASSUME Kept!ServicesAssumption, KeptInv, NEW c \in Closers, Kept!Busy(c),
         NEW f, f = Kept!Frame(c), NEW r, r = Kept!CloseOrder[f.next]
  PROVE  /\ f \in CloseFrames /\ call[c].gets = 1 /\ f.next \in 1 .. 3
         /\ f.do = "close" /\ f.at \in {"set", "notify", "wait"}
         /\ r \in Kept!Refs /\ Kept!Closing(c) = r
         /\ \A i \in 1 .. 3 : i # f.next => Kept!CloseOrder[i] # r
         /\ \A i \in 1 .. 3 : i < f.next \/ (i = f.next /\ f.at # "set") =>
              world.ref[Kept!CloseOrder[i]].closed
         /\ \A q \in Kept!Refs : WaitsFor(c, q) <=> q = r /\ f.at # "set"
<1>1. KeptShape /\ ClosedInOrder
  BY KeptFacts
<1>2. call[c].stack # <<>> /\ f = Head(call[c].stack) /\ f \in CloseFrames
  BY <1>1, CloserCalls
<1>3. f.next \in 1 .. 3 /\ f.do = "close" /\ f.at \in {"set", "notify", "wait"}
  BY <1>2, CloseFrameEdits
<1>4. r \in Kept!Refs /\ Kept!Closing(c) = r
  BY <1>3, CloseOrderIsOfRefs DEF Kept!Closing
<1>5. \A i \in 1 .. 3 : i # f.next => Kept!CloseOrder[i] # r
  BY <1>3 DEF Kept!CloseOrder
<1>6. call[c].gets = 1
  BY <1>1, <1>2 DEF ClosedInOrder
<1>7. \A i \in 1 .. 3 : i < f.next \/ (i = f.next /\ f.at # "set") =>
        world.ref[Kept!CloseOrder[i]].closed
  BY <1>1, <1>2, <1>6 DEF ClosedInOrder, HasClosed
<1>8. \A q \in Kept!Refs : WaitsFor(c, q) <=> q = r /\ f.at # "set"
  BY <1>2, <1>3 DEF WaitsFor
<1> QED
  BY <1>2, <1>3, <1>4, <1>5, <1>6, <1>7, <1>8

\* The next reference, when the one it is at is closed and has no timer that it waits for
LEMMA CloseNextStep ==
  ASSUME Kept!ServicesAssumption, KeptInv, NEW c \in Closers, Kept!Busy(c),
         NEW f, f = Kept!Frame(c), NEW r, r = Kept!CloseOrder[f.next],
         Kept!CloseNext(c), UNCHANGED world, world.ref[r].closed,
         f.at # "set" => world.ref[r].timer # "running"
  PROVE  KeptInv' /\ BackOnlyAfterFailure
<1> DEFINE g == [f EXCEPT !.at = "set", !.next = @ + 1]
<1>0. /\ KeptShape /\ c \in Kept!Actors /\ world \in Worlds /\ 0 \in -1 .. MaxVersion
      /\ call = [b \in Kept!Actors |-> call[b]]
  BY KeptFacts
<1>1. /\ f \in CloseFrames /\ call[c].gets = 1 /\ f.next \in 1 .. 3 /\ r \in Kept!Refs
      /\ \A q \in Kept!Refs : WaitsFor(c, q) <=> q = r /\ f.at # "set"
      /\ \A i \in 1 .. 3 : i < f.next \/ (i = f.next /\ f.at # "set") =>
           world.ref[Kept!CloseOrder[i]].closed
  BY CloserAt
<1>2. f.next # 3 => g \in CloseFrames /\ g.at = "set" /\ g.next = f.next + 1
  <2>1. f \in CloseFrames
    BY <1>1
  <2>2. \A h \in CloseFrames : h.next # 3 =>
          /\ [h EXCEPT !.at = "set", !.next = @ + 1] \in CloseFrames
          /\ [h EXCEPT !.at = "set", !.next = @ + 1].at = "set"
          /\ [h EXCEPT !.at = "set", !.next = @ + 1].next = h.next + 1
    BY CloseFrameEdits
  <2> QED
    BY <2>1, <2>2
<1>3. \E n \in CallsOf(c) :
        /\ call' = [call EXCEPT ![c] = n] /\ n.gets = call[c].gets
        /\ IF f.next = 3 THEN n.stack = <<>> ELSE n.stack = <<g>>
  BY <1>0, CloserMoves
<1> HIDE DEF g
<1>4. PICK n \in CallsOf(c) :
        /\ call' = [call EXCEPT ![c] = n] /\ n.gets = 1
        /\ IF f.next = 3 THEN n.stack = <<>> ELSE n.stack = <<g>>
  BY <1>1, <1>3
<1>5. call'[c] = n
  BY <1>0, <1>4
<1>6. ASSUME NEW i \in 1 .. 3, HasClosed(c, i)'
      PROVE  world'.ref[Kept!CloseOrder[i]].closed
  <2>1. i <= f.next
    <3>1. CASE f.next = 3
      BY <3>1
    <3>2. CASE f.next # 3
      <4>1. i < g.next \/ (i = g.next /\ g.at # "set")
        BY <1>4, <1>5, <1>6, <3>2, HasClosedThen
      <4> QED
        BY <1>1, <1>2, <3>2, <4>1
    <3> QED
      BY <3>1, <3>2
  <2>2. CASE i = f.next
    BY <2>2
  <2>3. CASE i # f.next
    BY <1>1, <2>1, <2>3
  <2> QED
    BY <2>2, <2>3
<1>7. n.stack = <<>> \/ \E h \in CloseFrames : n.stack = <<h>>
  BY <1>1, <1>2, <1>4
<1>8. /\ world' \in Worlds /\ world'.built = world.built
      /\ \A q \in Kept!Refs :
           /\ world.ref[q].closed => world'.ref[q].closed
           /\ world'.ref[q].timer = world.ref[q].timer
           /\ world'.ref[q].value = world.ref[q].value
           /\ world'.ref[q].closed /\ world.ref[q].timer = "running" =>
                world.ref[q].closed /\ ~WaitsFor(c, q)
  BY <1>0, <1>1
<1> QED
  BY <1>4, <1>6, <1>7, <1>8, CloserEffect

\* A step to another place, that only changes flags of the reference it is at
LEMMA MoveStep ==
  ASSUME Kept!ServicesAssumption, KeptInv, NEW c \in Closers, Kept!Busy(c),
         NEW f, f = Kept!Frame(c), NEW r, r = Kept!CloseOrder[f.next],
         NEW at \in {"notify", "wait"}, Kept!Move(c, at),
         NEW m \in RefRecord, m.closed, m.timer = world.ref[r].timer,
         m.value = world.ref[r].value,
         world' = [world EXCEPT !.ref = [@ EXCEPT ![r] = m]]
  PROVE  KeptInv' /\ BackOnlyAfterFailure
<1> DEFINE g == [f EXCEPT !.at = at]
<1>0. /\ KeptShape /\ c \in Kept!Actors /\ world \in Worlds /\ 0 \in -1 .. MaxVersion
      /\ call = [b \in Kept!Actors |-> call[b]] /\ world.ref \in [Kept!Refs -> RefRecord]
  BY KeptFacts
<1>1. /\ f \in CloseFrames /\ call[c].gets = 1 /\ f.next \in 1 .. 3 /\ r \in Kept!Refs
      /\ \A q \in Kept!Refs : WaitsFor(c, q) <=> q = r /\ f.at # "set"
      /\ \A i \in 1 .. 3 : i < f.next \/ (i = f.next /\ f.at # "set") =>
           world.ref[Kept!CloseOrder[i]].closed
  BY CloserAt
<1>2. g \in CloseFrames /\ g.at = at /\ g.next = f.next
  <2>1. f \in CloseFrames /\ at \in {"set", "notify", "wait"}
    BY <1>1
  <2>2. \A h \in CloseFrames, p \in {"set", "notify", "wait"} :
          /\ [h EXCEPT !.at = p] \in CloseFrames
          /\ [h EXCEPT !.at = p].at = p /\ [h EXCEPT !.at = p].next = h.next
    BY CloseFrameEdits
  <2> QED
    BY <2>1, <2>2
<1>3. \E n \in CallsOf(c) :
        /\ call' = [call EXCEPT ![c] = n] /\ n.gets = call[c].gets /\ n.stack = <<g>>
  <2>1. at \in {"set", "notify", "wait"}
    OBVIOUS
  <2>2. \E n \in CallsOf(c) :
          /\ call' = [call EXCEPT ![c] = n] /\ n.gets = call[c].gets
          /\ n.stack = <<[Kept!Frame(c) EXCEPT !.at = at]>>
    BY <1>0, <2>1, CloserMoves
  <2> QED
    BY <2>2
<1> HIDE DEF g
<1>4. PICK n \in CallsOf(c) : call' = [call EXCEPT ![c] = n] /\ n.gets = 1 /\ n.stack = <<g>>
  BY <1>1, <1>3
<1>5. call'[c].stack = <<g>>
  BY <1>0, <1>4
<1>6. /\ world' \in Worlds /\ world'.built = world.built
      /\ \A q \in Kept!Refs : world'.ref[q] = IF q = r THEN m ELSE world.ref[q]
  <2>1. world'.ref = [world.ref EXCEPT ![r] = m] /\ world'.built = world.built
    BY <1>0 DEF Worlds
  <2>2. world' \in Worlds
    BY <1>0, <1>1, <2>1 DEF Worlds
  <2> QED
    BY <1>0, <1>1, <2>1, <2>2
<1>7. WaitsFor(c, r)'
  BY <1>2, <1>5, HasClosedThen
<1>8. ASSUME NEW i \in 1 .. 3, HasClosed(c, i)'
      PROVE  world'.ref[Kept!CloseOrder[i]].closed
  <2>1. i < f.next \/ i = f.next
    BY <1>2, <1>5, <1>8, HasClosedThen
  <2>2. CASE i = f.next
    BY <1>1, <1>6, <2>2
  <2>3. CASE i < f.next
    BY <1>1, <1>6, <2>3, CloseOrderIsOfRefs
  <2> QED
    BY <2>1, <2>2, <2>3
<1>9. /\ \A q \in Kept!Refs :
           /\ world.ref[q].closed => world'.ref[q].closed
           /\ world'.ref[q].timer = world.ref[q].timer
           /\ world'.ref[q].value = world.ref[q].value
      /\ \A q \in Kept!Refs : world'.ref[q].closed /\ world.ref[q].timer = "running" =>
           WaitsFor(c, q)' \/ (world.ref[q].closed /\ ~WaitsFor(c, q))
  <2>1. ASSUME NEW q \in Kept!Refs
        PROVE  /\ world.ref[q].closed => world'.ref[q].closed
               /\ world'.ref[q].timer = world.ref[q].timer
               /\ world'.ref[q].value = world.ref[q].value
    BY <1>6
  <2>2. ASSUME NEW q \in Kept!Refs, world'.ref[q].closed
        PROVE  WaitsFor(c, q)' \/ (world.ref[q].closed /\ ~WaitsFor(c, q))
    <3>1. CASE q = r
      BY <1>7, <3>1
    <3>2. CASE q # r
      BY <1>1, <1>6, <2>2, <3>2
    <3> QED
      BY <3>1, <3>2
  <2> QED
    BY <2>1, <2>2
<1>10. \E h \in CloseFrames : n.stack = <<h>>
  BY <1>2, <1>4
<1> QED
  BY <1>4, <1>6, <1>8, <1>9, <1>10, CloserEffect

LEMMA CloserStep ==
  ASSUME Kept!ServicesAssumption, KeptInv, NEW c \in Closers,
         Kept!Works(c) \/ Kept!QueryFails(c) \/ Kept!BuildFails(c) \/ Kept!CloseContext(c)
  PROVE  KeptInv' /\ BackOnlyAfterFailure
<1>1. CASE Kept!CloseContext(c)
  BY <1>1, CloseContextStep
<1>2. CASE ~Kept!CloseContext(c)
  <2> DEFINE f == Kept!Frame(c)
             r == Kept!CloseOrder[f.next]
             R == world.ref[r]
  <2>0. Kept!Busy(c)
    BY <1>2 DEF Kept!Works, Kept!QueryFails, Kept!Enter, Kept!Lock, Kept!QueryConfig,
       Kept!NeedConfig, Kept!BuildMembership, Kept!BuildFails, Kept!AskPeers,
       Kept!KeepMembers, Kept!Handle, Kept!GetFails, Kept!SetClosed, Kept!NotifyClosing,
       Kept!WaitTimer, Kept!In
  <2>1. /\ f \in CloseFrames /\ f.next \in 1 .. 3 /\ f.do = "close"
        /\ f.at \in {"set", "notify", "wait"} /\ r \in Kept!Refs /\ Kept!Closing(c) = r
        /\ f.at # "set" => R.closed
    <3>1. /\ f \in CloseFrames /\ f.next \in 1 .. 3 /\ f.do = "close"
          /\ f.at \in {"set", "notify", "wait"} /\ r \in Kept!Refs /\ Kept!Closing(c) = r
      BY <2>0, CloserAt
    <3>2. \A i \in 1 .. 3 : i < f.next \/ (i = f.next /\ f.at # "set") =>
            world.ref[Kept!CloseOrder[i]].closed
      BY <2>0, CloserAt
    <3> QED
      BY <3>1, <3>2
  <2>2. /\ world.ref \in [Kept!Refs -> RefRecord]
        /\ world = [ref |-> world.ref, version |-> world.version, built |-> world.built,
                  faults |-> world.faults]
    BY KeptFacts
  <2>3. R \in RefRecord
    BY <2>1, <2>2
  <2>4. CASE Kept!SetClosed(c)
    <3>1. CASE R.closed
      <4>1. Kept!CloseNext(c) /\ UNCHANGED world /\ f.at = "set"
        BY <2>1, <2>4, <3>1 DEF Kept!SetClosed, Kept!In
      <4> QED
        BY <2>0, <3>1, <4>1, CloseNextStep
    <3>2. CASE ~R.closed
      <4> DEFINE m == [R EXCEPT !.closed = TRUE]
      <4>1. Kept!Move(c, "notify") /\ world' = [world EXCEPT !.ref[r].closed = TRUE]
        BY <2>1, <2>4, <3>2 DEF Kept!SetClosed
      <4>2. m \in RefRecord /\ m.closed /\ m.timer = R.timer /\ m.value = R.value
        BY <2>3 DEF RefRecord
      <4>3. world' = [world EXCEPT !.ref = [@ EXCEPT ![r] = m]]
        BY <2>1, <2>2, <2>3, <4>1
      <4> HIDE DEF m
      <4>4. m.timer = world.ref[r].timer /\ m.value = world.ref[r].value /\ m \in RefRecord
        BY <4>2
      <4>5. m.closed /\ Kept!Move(c, "notify") /\ "notify" \in {"notify", "wait"}
        BY <4>1, <4>2
      <4> QED
        BY <2>0, <4>3, <4>4, <4>5, MoveStep, SMTT(60)
    <3> QED
      BY <3>1, <3>2
  <2>5. CASE Kept!NotifyClosing(c)
    <3> DEFINE b == (R.timer = "running")
               m == [R EXCEPT !.signal = b]
    <3>1. /\ f.at = "notify" /\ Kept!Move(c, "wait")
          /\ world' = [world EXCEPT !.ref[r].signal = b]
      BY <2>1, <2>5 DEF Kept!NotifyClosing, Kept!In
    <3>2. b \in BOOLEAN
      OBVIOUS
    <3> HIDE DEF b
    <3>3. /\ m \in RefRecord /\ m.closed = R.closed /\ m.timer = R.timer
          /\ m.value = R.value
      BY <2>3, <3>2 DEF RefRecord
    <3>4. world' = [world EXCEPT !.ref = [@ EXCEPT ![r] = m]]
      BY <2>1, <2>2, <2>3, <3>1
    <3> HIDE DEF m
    <3> QED
      BY <2>0, <2>1, <3>1, <3>3, <3>4, MoveStep
  <2>6. CASE Kept!WaitTimer(c)
    <3>1. /\ f.at = "wait" /\ Kept!CloseNext(c) /\ UNCHANGED world
          /\ R.timer # "running"
      BY <2>1, <2>6 DEF Kept!WaitTimer, Kept!In
    <3> QED
      BY <2>0, <2>1, <3>1, CloseNextStep
  <2> QED
    BY <1>2, <2>1, <2>4, <2>5, <2>6 DEF Kept!Works, Kept!QueryFails, Kept!Enter, Kept!Lock,
       Kept!QueryConfig, Kept!NeedConfig, Kept!BuildMembership, Kept!BuildFails, Kept!AskPeers,
       Kept!KeepMembers, Kept!Handle, Kept!GetFails, Kept!In
<1> QED
  BY <1>1, <1>2

\* The other steps: calls, timers, and the channel
LEMMA NewCall ==
  ASSUME KeptShape, NEW a \in Kept!Actors, a \notin Closers, NEW r \in Kept!Refs,
         NEW at \in GetAts, NEW k \in 0 .. (MaxGets + 1)
  PROVE  /\ [call[a] EXCEPT !.stack = <<Kept!GetFrame(r, at)>>] \in CallsOf(a)
         /\ [call[a] EXCEPT !.stack = <<Kept!GetFrame(r, at)>>, !.gets = k] \in CallsOf(a)
<1> DEFINE g == Kept!GetFrame(r, at)
<1>1. CallsOf(a) = [stack : Seq(GetFrames), ret : -1 .. MaxVersion, gets : 0 .. (MaxGets + 1)]
  BY DEF CallsOf, FramesOf
<1>2. call[a] \in CallsOf(a)
  BY DEF KeptShape
<1>3. <<g>> \in Seq(GetFrames)
  <2>1. g \in GetFrames
    BY DEF Kept!GetFrame, GetFrames, GetAts
  <2> QED
    BY <2>1
<1> HIDE DEF g
<1>4. /\ [call[a] EXCEPT !.stack = <<g>>]
           \in [stack : Seq(GetFrames), ret : -1 .. MaxVersion, gets : 0 .. (MaxGets + 1)]
      /\ [call[a] EXCEPT !.stack = <<g>>, !.gets = k]
           \in [stack : Seq(GetFrames), ret : -1 .. MaxVersion, gets : 0 .. (MaxGets + 1)]
  <2>1. \A S, R, G : \A m \in [stack : S, ret : R, gets : G], q \in S, j \in G :
          /\ [m EXCEPT !.stack = q] \in [stack : S, ret : R, gets : G]
          /\ [m EXCEPT !.stack = q, !.gets = j] \in [stack : S, ret : R, gets : G]
    OBVIOUS
  <2>2. call[a] \in [stack : Seq(GetFrames), ret : -1 .. MaxVersion, gets : 0 .. (MaxGets + 1)]
    BY <1>1, <1>2
  <2> QED
    BY <1>3, <2>1, <2>2, Zenon
<1> QED
  BY <1>1, <1>4 DEF g

LEMMA CallGetIsQuiet ==
  ASSUME Kept!ServicesAssumption, KeptInv, NEW u \in Users, NEW r \in Kept!Refs,
         Kept!CallGet(u, r)
  PROVE  Quiet(u) /\ u \in Kept!Actors /\ u \notin Closers
<1>0. /\ KeptShape /\ MaxVersion \in Nat /\ MaxGets \in Nat /\ world \in Worlds
      /\ call = [b \in Kept!Actors |-> call[b]] /\ BuiltIsKept
  BY KeptFacts
<1>1. u \in Kept!Actors /\ u \notin Closers
  BY DEF Kept!ServicesAssumption, Kept!Actors
<1>2. /\ UNCHANGED world /\ call[u].gets < MaxGets
      /\ call' = [call EXCEPT ![u].stack = <<Kept!GetFrame(r, "enter")>>, ![u].gets = @ + 1]
  BY DEF Kept!CallGet
<1>3. call[u].gets \in 0 .. (MaxGets + 1) /\ call[u].gets + 1 \in 0 .. (MaxGets + 1)
  <2>1. call[u].gets \in 0 .. (MaxGets + 1)
    BY <1>0, <1>1 DEF KeptShape, CallsOf
  <2> QED
    BY <1>0, <1>2, <2>1
<1> DEFINE n == [call[u] EXCEPT !.stack = <<Kept!GetFrame(r, "enter")>>,
                                !.gets = call[u].gets + 1]
<1>4. n \in CallsOf(u)
  <2>1. "enter" \in GetAts
    BY DEF GetAts
  <2> QED
    BY <1>0, <1>1, <1>3, <2>1, NewCall
<1>5. call' = [call EXCEPT ![u] = n]
  BY <1>0, <1>1, <1>2
<1> HIDE DEF n
<1>6. KeepsQuiet
  BY <1>0, <1>2, SameRefs
<1> QED
  BY <1>0, <1>1, <1>2, <1>4, <1>5, <1>6 DEF Quiet

LEMMA TimerIsQuiet ==
  ASSUME Kept!ServicesAssumption, KeptInv, NEW r \in Kept!Refs,
         Kept!StartTimer(r) \/ Kept!Tick(r) \/ Kept!StopTimer(r)
  PROVE  Quiet(r) /\ r \in Kept!Actors /\ r \notin Closers
<1> DEFINE R == world.ref[r]
<1>0. /\ KeptShape /\ MaxVersion \in Nat /\ MaxGets \in Nat /\ world \in Worlds
      /\ call = [b \in Kept!Actors |-> call[b]] /\ world.ref \in [Kept!Refs -> RefRecord]
      /\ BuiltIsKept /\ world.built \in -1 .. MaxVersion
      /\ world = [ref |-> world.ref, version |-> world.version, built |-> world.built,
                  faults |-> world.faults]
  BY KeptFacts
<1>1. r \in Kept!Actors /\ r \notin Closers
  BY DEF Kept!ServicesAssumption, Kept!Actors
<1>2. R \in RefRecord /\ world.faults \in 0 .. MaxFaults /\ R.value \in -1 .. MaxVersion
  BY <1>0 DEF Worlds, RefRecord
<1>3. call[r] \in CallsOf(r) /\ call = [call EXCEPT ![r] = call[r]]
  BY <1>0, <1>1 DEF KeptShape
\* A step that leaves the reference open or closed, and its value
<1>4. ASSUME NEW m \in RefRecord, m.closed = R.closed, m.value = R.value,
             m.timer = "running" /\ R.closed => R.timer = "running",
             world' = [world EXCEPT !.ref = [@ EXCEPT ![r] = m]]
      PROVE  world' \in Worlds /\ KeepsQuiet
  <2>1. world' = [world EXCEPT !.ref = [@ EXCEPT ![r] = m], !.built = world.built,
                               !.faults = world.faults]
    BY <1>0, <1>4
  <2>2. /\ ~(m.value < world.ref[r].value)
        /\ r = "membership" /\ world.built # 0 => world.built = m.value
    BY <1>0, <1>2, <1>4 DEF BuiltIsKept
  <2> QED
    BY <1>0, <1>2, <1>4, <2>1, <2>2, RefEdits
<1>5. CASE Kept!StartTimer(r)
  <2> DEFINE t == IF R.closed THEN "none" ELSE "running"
             m == [R EXCEPT !.timer = t]
  <2>1. UNCHANGED call /\ world' = [world EXCEPT !.ref[r].timer = t]
    BY <1>5 DEF Kept!StartTimer
  <2>2. /\ t \in {"none", "starting", "running", "ended"}
        /\ t = "running" => ~R.closed
    OBVIOUS
  <2> HIDE DEF t
  <2>3. /\ m \in RefRecord /\ m.closed = R.closed /\ m.value = R.value /\ m.timer = t
        /\ world' = [world EXCEPT !.ref = [@ EXCEPT ![r] = m]]
    <3>1. m \in RefRecord /\ m.closed = R.closed /\ m.value = R.value /\ m.timer = t
      BY <1>2, <2>2 DEF RefRecord
    <3>2. world' = [world EXCEPT !.ref = [@ EXCEPT ![r] = m]]
      BY <1>0, <1>2, <2>1
    <3> QED
      BY <3>1, <3>2
  <2> HIDE DEF m
  <2>4. world' \in Worlds /\ KeepsQuiet
    BY <1>4, <2>2, <2>3
  <2> QED
    BY <1>1, <1>3, <2>1, <2>4 DEF Quiet
<1>6. CASE Kept!Tick(r)
  <2> DEFINE m == [R EXCEPT !.lock = r]
             n == [call[r] EXCEPT !.stack = <<Kept!GetFrame(r, "init")>>]
  <2>1. /\ call' = [call EXCEPT ![r].stack = <<Kept!GetFrame(r, "init")>>]
        /\ world' = [world EXCEPT !.ref[r].lock = r]
    BY <1>6 DEF Kept!Tick
  <2>2. m \in RefRecord /\ m.closed = R.closed /\ m.value = R.value /\ m.timer = R.timer
    BY <1>1, <1>2 DEF RefRecord
  <2>3. world' = [world EXCEPT !.ref = [@ EXCEPT ![r] = m]]
    BY <1>0, <1>2, <2>1
  <2> HIDE DEF m
  <2>4. world' \in Worlds /\ KeepsQuiet
    BY <1>4, <2>2, <2>3
  <2>5. n \in CallsOf(r)
    <3>1. "init" \in GetAts /\ 0 \in 0 .. (MaxGets + 1)
      BY <1>0 DEF GetAts
    <3> QED
      BY <1>0, <1>1, <3>1, NewCall
  <2>6. call' = [call EXCEPT ![r] = n]
    BY <1>0, <1>1, <2>1
  <2> HIDE DEF n
  <2> QED
    BY <1>1, <2>4, <2>5, <2>6 DEF Quiet
<1>7. CASE Kept!StopTimer(r)
  <2> DEFINE m == [R EXCEPT !.timer = "ended", !.signal = FALSE]
  <2>1. /\ UNCHANGED call
        /\ world' = [world EXCEPT !.ref[r].timer = "ended", !.ref[r].signal = FALSE]
    BY <1>7 DEF Kept!StopTimer
  <2>2. m \in RefRecord /\ m.closed = R.closed /\ m.value = R.value /\ m.timer = "ended"
    BY <1>2 DEF RefRecord
  <2>3. world' = [world EXCEPT !.ref = [@ EXCEPT ![r] = m]]
    <3> DEFINE ref == [world.ref EXCEPT ![r].timer = "ended", ![r].signal = FALSE]
    <3>1. world' = [world EXCEPT !.ref = ref]
      BY <1>0, <2>1
    <3>2. ref = [world.ref EXCEPT ![r] = m]
      BY <1>0, <1>2
    <3> HIDE DEF m, ref
    <3> QED
      BY <1>0, <3>1, <3>2
  <2> HIDE DEF m
  <2>4. world' \in Worlds /\ KeepsQuiet
    BY <1>4, <2>2, <2>3
  <2> QED
    BY <1>1, <1>3, <2>1, <2>4 DEF Quiet
<1> QED
  BY <1>5, <1>6, <1>7

LEMMA ReconfigureIsQuiet ==
  ASSUME Kept!ServicesAssumption, KeptInv, Kept!Reconfigure
  PROVE  Quiet("config") /\ "config" \in Kept!Actors /\ "config" \notin Closers
<1>0. /\ KeptShape /\ MaxVersion \in Nat /\ world \in Worlds /\ BuiltIsKept
      /\ call = [b \in Kept!Actors |-> call[b]]
  BY KeptFacts
<1>1. "config" \in Kept!Actors /\ "config" \notin Closers
  BY DEF Kept!ServicesAssumption, Kept!Actors, Kept!Refs
<1>2. /\ UNCHANGED call /\ world.version < MaxVersion
      /\ world' = [world EXCEPT !.version = @ + 1]
  BY DEF Kept!Reconfigure
<1>3. call["config"] \in CallsOf("config") /\ call = [call EXCEPT !["config"] = call["config"]]
  BY <1>0, <1>1 DEF KeptShape
<1>4. world.version \in 1 .. MaxVersion /\ world.version + 1 \in 1 .. MaxVersion
  <2>1. world.version \in 1 .. MaxVersion
    BY <1>0 DEF Worlds
  <2> QED
    BY <1>0, <1>2, <2>1
<1>5. world' \in Worlds /\ world'.ref = world.ref /\ world'.built = world.built
  BY <1>0, <1>2, <1>4 DEF Worlds
<1>6. KeepsQuiet
  BY <1>0, <1>5, SameRefs
<1> QED
  BY <1>1, <1>2, <1>3, <1>5, <1>6 DEF Quiet

-----------------------------------------------------------------------------
LEMMA KeptInvStep ==
  ASSUME Kept!ServicesAssumption, KeptInv, [Kept!Next]_(Kept!vars)
  PROVE  KeptInv' /\ BackOnlyAfterFailure
<1>0. /\ KeptShape /\ MaxVersion \in Nat /\ BuiltIsKept
      /\ world.ref["membership"].value \in -1 .. MaxVersion
  BY KeptFacts
<1>1. ASSUME NEW a \in Kept!Actors, a \notin Closers, Quiet(a)
      PROVE  KeptInv' /\ BackOnlyAfterFailure
  <2>1. PICK n \in CallsOf(a) : call' = [call EXCEPT ![a] = n]
    BY <1>1 DEF Quiet
  <2>2. KeptInv'
    BY <1>1, <2>1, QuietStep DEF Quiet
  <2> QED
    BY <1>1, <2>2 DEF Quiet, KeepsQuiet
<1>2. CASE UNCHANGED Kept!vars
  <2>1. UNCHANGED call /\ UNCHANGED world
    BY <1>2 DEF Kept!vars
  <2>2. KeptInv'
    BY <2>1 DEF KeptInv, KeptShape, ClosedInOrder, RunningIsWaitedFor, HasClosed, WaitsFor,
                BuiltIsKept
  <2> QED
    BY <1>0, <2>1, <2>2 DEF BackOnlyAfterFailure, Kept!WentBack
<1>3. CASE \E a \in Kept!Actors : Kept!Works(a) \/ Kept!QueryFails(a) \/ Kept!BuildFails(a)
  <2>1. PICK a \in Kept!Actors : Kept!Works(a) \/ Kept!QueryFails(a) \/ Kept!BuildFails(a)
    BY <1>3
  <2>2. CASE a \in Closers
    BY <2>1, <2>2, CloserStep
  <2>3. CASE a \notin Closers
    <3>1. Quiet(a)
      BY <1>0, <2>1, <2>3, GetIsQuiet
    <3> QED
      BY <1>1, <2>3, <3>1
  <2> QED
    BY <2>2, <2>3
<1>4. CASE \E u \in Users, r \in Kept!Refs : Kept!CallGet(u, r)
  BY <1>1, <1>4, CallGetIsQuiet
<1>5. CASE \E c \in Closers : Kept!CloseContext(c)
  BY <1>5, CloserStep
<1>6. CASE \E r \in Kept!Refs : Kept!StartTimer(r) \/ Kept!Tick(r) \/ Kept!StopTimer(r)
  BY <1>1, <1>6, TimerIsQuiet
<1>7. CASE Kept!Reconfigure
  BY <1>1, <1>7, ReconfigureIsQuiet
<1> QED
  BY <1>2, <1>3, <1>4, <1>5, <1>6, <1>7 DEF Kept!Next

\* What the invariant says of the state that a reader sees
LEMMA KeptInvSuffices ==
  ASSUME Kept!ServicesAssumption, KeptInv
  PROVE  Kept!TypeOK /\ Kept!ClosedIsQuiet
<1>0. /\ KeptShape /\ ClosedInOrder /\ RunningIsWaitedFor /\ world \in Worlds
      /\ Closers \subseteq Kept!Actors
  BY KeptFacts
<1>1. Kept!TypeOK
  <2>1. ASSUME NEW a \in Kept!Actors
        PROVE  /\ call[a].ret \in -1 .. MaxVersion /\ call[a].gets \in 0 .. (MaxGets + 1)
               /\ call[a].stack \in Seq(FramesOf(a))
    BY <1>0 DEF KeptShape, CallsOf
  <2>2. ASSUME NEW a \in Kept!Actors, NEW i \in DOMAIN call[a].stack
        PROVE  /\ call[a].stack[i].at \in {"enter", "lock", "init", "built", "handler",
                                           "failed", "set", "notify", "wait"}
               /\ call[a].stack[i].next \in DOMAIN Kept!CloseOrder
    <3>1. call[a].stack[i] \in FramesOf(a)
      BY <2>1
    <3>2. call[a].stack[i] \in CloseFrames \/ call[a].stack[i] \in GetFrames
      BY <3>1 DEF FramesOf
    <3> QED
      BY <3>2, CloseOrderIsOfRefs DEF CloseFrames, GetFrames
  <2>3. /\ world.ref \in [Kept!Refs -> RefRecord]
        /\ world.version \in 1 .. MaxVersion /\ world.faults \in 0 .. MaxFaults
        /\ world.built \in -1 .. MaxVersion
    BY <1>0 DEF Worlds
  <2> QED
    BY <2>1, <2>2, <2>3 DEF Kept!TypeOK, RefRecord
<1>2. Kept!ClosedIsQuiet
  <2>1. SUFFICES ASSUME NEW c \in Closers, call[c].gets = 1, \A a \in Closers : ~Kept!Busy(a),
                        NEW r \in Kept!Refs, world.ref[r].timer = "running"
                 PROVE  FALSE
    BY DEF Kept!ClosedIsQuiet
  <2>2. PICK i \in 1 .. 3 : Kept!CloseOrder[i] = r
    BY CloseOrderIsOfRefs
  <2>3. HasClosed(c, i)
    BY <2>1 DEF HasClosed, Kept!Busy
  <2>4. world.ref[r].closed
    BY <1>0, <2>1, <2>2, <2>3 DEF ClosedInOrder
  <2>5. \E d \in Closers : WaitsFor(d, r)
    BY <1>0, <2>1, <2>4 DEF RunningIsWaitedFor
  <2> QED
    BY <2>1, <2>5 DEF WaitsFor, Kept!Busy
<1> QED
  BY <1>1, <1>2

\* After CloseContext no timer of the context goes on, whatever Gets were under way.
THEOREM ClosedWasQuiet ==
  ASSUME Kept!ServicesAssumption
  PROVE  Kept!Spec => []Kept!ClosedIsQuiet
<1>1. Kept!Init => KeptInv
  BY InitKeptInv
<1>2. KeptInv /\ [Kept!Next]_(Kept!vars) => KeptInv'
  BY KeptInvStep
<1>3. KeptInv => Kept!ClosedIsQuiet
  BY KeptInvSuffices
<1> QED
  BY <1>1, <1>2, <1>3, PTL DEF Kept!Spec

\* The membership that transactions are verified with goes back to an older configuration
\* only since New failed on a newer one, whatever peer the configuration was queried from.
THEOREM MembershipIsMonotonic ==
  ASSUME Kept!ServicesAssumption
  PROVE  Kept!Spec => Kept!GoesBackOnlyAfterFailure
<1>1. Kept!Init => KeptInv
  BY InitKeptInv
<1>2. KeptInv /\ [Kept!Next]_(Kept!vars) => KeptInv'
  BY KeptInvStep
<1>3. KeptInv /\ [Kept!Next]_(Kept!vars) => [Kept!WentBack => world.built = 0]_(Kept!vars)
  BY KeptInvStep DEF BackOnlyAfterFailure
<1> QED
  BY <1>1, <1>2, <1>3, PTL DEF Kept!Spec, Kept!GoesBackOnlyAfterFailure

(***************************************************************************)
(* The peer of an event client                                             *)
(***************************************************************************)

\* Every resolver chooses among the event sources.
LEMMA ResolveIsOfSources ==
  ASSUME call.config \in Resolvers!Config
  PROVE  Resolvers!Resolve \subseteq EventSources
<1>1. /\ \A h : Resolvers!AtLeast(h) \subseteq EventSources
      /\ Resolvers!WithinLag \subseteq EventSources
  BY DEF Resolvers!AtLeast, Resolvers!WithinLag, Resolvers!Discovered
<1>2. Resolvers!Filter \subseteq EventSources
  BY <1>1 DEF Resolvers!Filter
<1>3. Resolvers!ResolveOrg \subseteq EventSources
  BY <1>2 DEF Resolvers!ResolveOrg, Resolvers!OfOwnOrg
<1>4. Resolvers!Preferred \subseteq EventSources
  BY <1>2 DEF Resolvers!Preferred
<1>5. call.config.mode \in {"balanced", "minBlockHeight", "preferOrg", "preferPeer"}
  BY DEF Resolvers!Config, Resolvers!Modes
<1> QED
  BY <1>2, <1>3, <1>4, <1>5 DEF Resolvers!Resolve, Resolvers!Discovered

LEMMA InitResolverType ==
  ASSUME Resolvers!ResolverAssumption, Resolvers!Init
  PROVE  Resolvers!TypeOK
<1>1. PICK c \in Configs, stuck \in SUBSET Peers, h \in [Peers -> {1, MaxHeight}] :
        /\ call = [config |-> c, peer |-> "none", told |-> 0, last |-> Resolvers!NoBlock,
                   left |-> "none", losses |-> 0]
        /\ world = [height |-> h, seen |-> h, stuck |-> stuck]
  BY DEF Resolvers!Init
<1>2. MaxHeight \in Nat /\ MaxHeight > 0 /\ MaxLosses \in Nat
  BY DEF Resolvers!ResolverAssumption
<1>3. h \in [Peers -> 1 .. MaxHeight]
  BY <1>2
<1>4. 0 \in 0 .. MaxHeight /\ -1 \in -1 .. MaxHeight - 1 /\ 0 \in 0 .. MaxLosses
  BY <1>2
<1> QED
  BY <1>1, <1>3, <1>4 DEF Resolvers!TypeOK, Resolvers!NoBlock

LEMMA ResolverTypeStep ==
  ASSUME Resolvers!ResolverAssumption, Resolvers!TypeOK, [Resolvers!Next]_(Resolvers!vars)
  PROVE  Resolvers!TypeOK'
<1> DEFINE Calls == [config : Configs, peer : EventSources \cup {"none"}, told : 0 .. MaxHeight,
                     last : -1 .. MaxHeight - 1, left : EventSources \cup {"none"},
                     losses : 0 .. MaxLosses]
<1>0. /\ MaxHeight \in Nat /\ MaxHeight > 0 /\ MaxLosses \in Nat
      /\ EventSources \subseteq Peers /\ Configs \subseteq Resolvers!Config
  BY DEF Resolvers!ResolverAssumption
<1>1. /\ call \in Calls /\ world.height \in [Peers -> 1 .. MaxHeight]
      /\ world.seen \in [Peers -> 1 .. MaxHeight] /\ world.stuck \in SUBSET Peers
  BY DEF Resolvers!TypeOK
<1>2. call.config \in Resolvers!Config
  BY <1>0, <1>1
<1>3. ASSUME call' \in Calls, UNCHANGED world
      PROVE  Resolvers!TypeOK'
  BY <1>1, <1>3 DEF Resolvers!TypeOK
<1>4. ASSUME NEW p \in Peers, Resolvers!Connect(p)
      PROVE  Resolvers!TypeOK'
  <2>1. /\ p \in Resolvers!Resolve /\ UNCHANGED world
        /\ call' = [call EXCEPT !.peer = p, !.told = world.seen[p], !.left = "none"]
    BY <1>4 DEF Resolvers!Connect
  <2>2. p \in EventSources \cup {"none"} /\ "none" \in EventSources \cup {"none"}
    BY <1>2, <2>1, ResolveIsOfSources
  <2>3. world.seen[p] \in 0 .. MaxHeight
    <3>1. world.seen[p] \in 1 .. MaxHeight
      BY <1>1
    <3> QED
      BY <3>1
  <2>4. call' \in Calls
    BY <1>1, <2>1, <2>2, <2>3
  <2> QED
    BY <1>3, <2>1, <2>4
<1>5. ASSUME NEW p \in Peers, Resolvers!Grow(p)
      PROVE  Resolvers!TypeOK'
  <2>1. /\ UNCHANGED call /\ world.height[p] < MaxHeight
        /\ world' = [world EXCEPT !.height[p] = @ + 1]
    BY <1>5 DEF Resolvers!Grow
  <2>2. world.height[p] + 1 \in 1 .. MaxHeight
    <3>1. world.height[p] \in 1 .. MaxHeight
      BY <1>1
    <3> QED
      BY <1>0, <2>1, <3>1
  <2>3. /\ world'.seen = world.seen /\ world'.stuck = world.stuck
        /\ world'.height \in [Peers -> 1 .. MaxHeight]
    BY <1>1, <2>1, <2>2 DEF Resolvers!TypeOK
  <2> QED
    BY <1>1, <2>1, <2>3 DEF Resolvers!TypeOK
<1>6. ASSUME NEW p \in Peers, Resolvers!Hear(p)
      PROVE  Resolvers!TypeOK'
  <2>1. UNCHANGED call /\ world' = [world EXCEPT !.seen[p] = world.height[p]]
    BY <1>6 DEF Resolvers!Hear
  <2>2. /\ world'.height = world.height /\ world'.stuck = world.stuck
        /\ world'.seen \in [Peers -> 1 .. MaxHeight]
    BY <1>1, <2>1 DEF Resolvers!TypeOK
  <2> QED
    BY <1>1, <2>1, <2>2 DEF Resolvers!TypeOK
<1>7. ASSUME Resolvers!Receive
      PROVE  Resolvers!TypeOK'
  <2> DEFINE h == world.height[call.peer]
             b == IF call.last # -1 THEN call.last + 1
                  ELSE IF call.config.from # -1 THEN call.config.from
                  ELSE h - 1
  <2>1. /\ call.peer # "none" /\ call.last + 1 < h /\ UNCHANGED world
        /\ call' = [call EXCEPT !.last = b]
        /\ call.last = -1 => call.config.from < h
    BY <1>7 DEF Resolvers!Receive, Resolvers!NoBlock
  <2>2. h \in 1 .. MaxHeight
    BY <1>0, <1>1, <2>1
  <2>3. call.config.from \in -1 .. MaxHeight /\ call.last \in -1 .. MaxHeight - 1
    BY <1>1, <1>2 DEF Resolvers!Config
  <2> HIDE DEF h
  <2>4. b \in -1 .. MaxHeight - 1
    BY <1>0, <2>1, <2>2, <2>3
  <2> HIDE DEF b
  <2>5. call' \in Calls
    BY <1>1, <2>1, <2>4
  <2> QED
    BY <1>3, <2>1, <2>5
<1>8. ASSUME Resolvers!Monitor
      PROVE  Resolvers!TypeOK'
  <2>1. UNCHANGED world /\ call' = [call EXCEPT !.peer = "none", !.left = call.peer]
    BY <1>8 DEF Resolvers!Monitor
  <2>2. call' \in Calls
    BY <1>1, <2>1
  <2> QED
    BY <1>3, <2>1, <2>2
<1>9. ASSUME Resolvers!Lose
      PROVE  Resolvers!TypeOK'
  <2>1. /\ call.losses < MaxLosses /\ UNCHANGED world
        /\ call' = [call EXCEPT !.peer = "none", !.losses = @ + 1]
    BY <1>9 DEF Resolvers!Lose
  <2>2. call.losses + 1 \in 0 .. MaxLosses
    <3>1. call.losses \in 0 .. MaxLosses
      BY <1>1
    <3> QED
      BY <1>0, <2>1, <3>1
  <2>3. call' \in Calls
    BY <1>1, <2>1, <2>2
  <2> QED
    BY <1>3, <2>1, <2>3
<1>10. CASE UNCHANGED Resolvers!vars
  BY <1>1, <1>3, <1>10 DEF Resolvers!vars
<1> QED
  BY <1>4, <1>5, <1>6, <1>7, <1>8, <1>9, <1>10 DEF Resolvers!Next

(***************************************************************************)
(* The services of a channel context in one run: a behaviour is one of the *)
(* part that it started with.                                              *)
(***************************************************************************)
ServicesInv ==
  /\ part \in {"kept", "refreshed", "resolvers", "streams", "discoveries"}
  /\ (part \in {"kept", "refreshed"} => KeptInv)
  /\ (part = "resolvers" => Resolvers!TypeOK)
  /\ (part = "streams" => StreamInv)
  /\ (part = "discoveries" => QueryInv)

LEMMA Assumptions ==
  /\ Kept!ServicesAssumption /\ Resolvers!ResolverAssumption
  /\ Streams!StreamsAssumption /\ Discoveries!DiscoveryAssumption
BY ServicesAssumption

LEMMA InitServicesInv == MCInit => ServicesInv
<1>1. CASE (part \in {"kept", "refreshed"}) /\ Kept!Init
  BY <1>1, Assumptions, InitKeptInv DEF ServicesInv
<1>2. CASE part = "resolvers" /\ Resolvers!Init
  BY <1>2, Assumptions, InitResolverType DEF ServicesInv
<1>3. CASE part = "streams" /\ Streams!Init
  BY <1>3, Assumptions, InitStreamInv DEF ServicesInv
<1>4. CASE part = "discoveries" /\ Discoveries!Init
  BY <1>4, Assumptions, InitQueryInv DEF ServicesInv
<1> QED
  BY <1>1, <1>2, <1>3, <1>4 DEF MCInit

\* Every part keeps its invariant, and the membership goes back only after a failure.
LEMMA ServicesStep ==
  ASSUME ServicesInv, [MCNext]_all
  PROVE  /\ ServicesInv'
         /\ part \in {"kept", "refreshed"} => BackOnlyAfterFailure
<1>1. ASSUME part \in {"kept", "refreshed"}, part' = part, [Kept!Next]_(Kept!vars)
      PROVE  ServicesInv' /\ BackOnlyAfterFailure
  <2>1. KeptInv
    BY <1>1 DEF ServicesInv
  <2>2. KeptInv' /\ BackOnlyAfterFailure
    BY <1>1, <2>1, Assumptions, KeptInvStep
  <2> QED
    BY <1>1, <2>2 DEF ServicesInv
<1>2. ASSUME part = "resolvers", part' = part, [Resolvers!Next]_(Resolvers!vars)
      PROVE  ServicesInv'
  BY <1>2, Assumptions, ResolverTypeStep DEF ServicesInv
<1>3. ASSUME part = "streams", part' = part, [Streams!Next]_(Streams!vars)
      PROVE  ServicesInv'
  BY <1>3, Assumptions, StreamInvStep DEF ServicesInv
<1>4. ASSUME part = "discoveries", part' = part, [Discoveries!Next]_(Discoveries!vars)
      PROVE  ServicesInv'
  BY <1>4, Assumptions, QueryInvStep DEF ServicesInv
<1>5. CASE KeptSteps
  BY <1>1, <1>5 DEF KeptSteps, KeptRuns
<1>10. CASE RefreshedSteps
  BY <1>1, <1>10 DEF RefreshedSteps, RefreshedRuns
<1>6. CASE ResolverSteps
  BY <1>2, <1>6 DEF ResolverSteps, ResolverRuns
<1>7. CASE StreamSteps
  BY <1>3, <1>7 DEF StreamSteps, StreamsRun
<1>8. CASE DiscoverySteps
  BY <1>4, <1>8 DEF DiscoverySteps, DiscoveryRuns
<1>9. CASE UNCHANGED all
  <2>1. /\ part' = part /\ UNCHANGED Kept!vars /\ UNCHANGED Resolvers!vars
        /\ UNCHANGED Streams!vars /\ UNCHANGED Discoveries!vars
    BY <1>9 DEF all, Kept!vars, Resolvers!vars, Streams!vars, Discoveries!vars
  <2>2. part \in {"kept", "refreshed", "resolvers", "streams", "discoveries"}
    BY DEF ServicesInv
  <2> QED
    BY <1>1, <1>2, <1>3, <1>4, <2>1, <2>2
<1> QED
  BY <1>5, <1>6, <1>7, <1>8, <1>9, <1>10 DEF MCNext

LEMMA ServicesInvHolds == MCSpec => []ServicesInv
<1>1. MCInit => ServicesInv
  BY InitServicesInv
<1>2. ServicesInv /\ [MCNext]_all => ServicesInv'
  BY ServicesStep
<1> QED
  BY <1>1, <1>2, PTL DEF MCSpec

\* The state of what a context keeps of its channel, of the event client's peer, of the
\* streams to orderers and of discovery queries keeps its shape.
THEOREM TypesCorrect == MCSpec => []TypesOK
<1>1. ServicesInv => TypesOK
  BY Assumptions, KeptInvSuffices, StreamTypes, QueryInvSuffices DEF ServicesInv, TypesOK
<1> QED
  BY <1>1, ServicesInvHolds, PTL

\* No timer of a channel context outlives CloseContext; a call to an orderer succeeds only
\* when nothing was wrong with its stream; an answer to a discovery query is one to that
\* query, and an error means that nobody had one.
THEOREM AnswersAreSound == MCSpec => []AnswersSound
<1>1. ServicesInv => AnswersSound
  BY Assumptions, KeptInvSuffices, QueryInvSuffices
     DEF ServicesInv, AnswersSound, StreamInv
<1> QED
  BY <1>1, ServicesInvHolds, PTL

\* The membership that transactions are verified with goes back to an older configuration
\* only since New failed on a newer one (the initializer of the membership's reference).
THEOREM MembershipGoesBackOnlyAfterFailure == MCSpec => GoesBackOnlyAfterFailure
<1>1. ServicesInv /\ [MCNext]_all =>
        [(part \in {"kept", "refreshed"}) /\ Kept!WentBack => world.built = 0]_all
  BY ServicesStep DEF BackOnlyAfterFailure
<1>2. MCSpec => [][MCNext]_all
  BY PTL DEF MCSpec
<1> QED
  BY <1>1, <1>2, ServicesInvHolds, PTL DEF GoesBackOnlyAfterFailure
=============================================================================
