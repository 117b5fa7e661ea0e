------------------------ MODULE EventDispatcherProofs ------------------------
(***************************************************************************)
(* Proofs about EventDispatcher: its types, that no channel is closed      *)
(* twice and no registration lost, that Unregister spares the others, and  *)
(* that a listener misses nothing that is published.                       *)
(*                                                                         *)
(* Two invariants carry the proofs. HInv says who holds a registration:    *)
(* the slices and maps of the dispatcher and of a snapshot have each of    *)
(* their registrations once, nobody is in both, and only who is held is    *)
(* published to. DInv relates what was sent to a registration to what was  *)
(* published since it was made.                                            *)
(***************************************************************************)
EXTENDS EventDispatcher, FiniteSetTheorems, SequenceTheorems, TLAPS

-----------------------------------------------------------------------------
(* The invariants.                                                         *)

\* What is queued.
Events == [type : {"Register", "Unregister", "Block", "FilteredBlock"} \cup Stops,
           reg : Regs \cup {NoReg}, num : Nat \cup {NoBlock}]
QueueIsRight ==
  /\ queue \in Seq(Events)
  /\ \A i \in 1..Len(queue) :
       /\ queue[i].type \in {"Register", "Unregister"} => queue[i].reg \in Regs
       /\ queue[i].type \in {"Block", "FilteredBlock"} =>
            queue[i].type = feed /\ queue[i].num \in MinBlock..MaxBlock

Snapshots == [last : MinBlock..MaxBlock \cup {NoBlock}, blocks : Seq(Regs), filtered : Seq(Regs),
              regs : SUBSET Regs]

\* What TypeOK leaves open.
Shape ==
  /\ TypeOK /\ QueueIsRight
  /\ want \in [Regs -> [kind : {"block", "filtered", "tx", "cc"}, key : Keys,
                        filter : SUBSET Nat, unregisters : Nat]]
  /\ starts \in Nat /\ plan \in Seq(SUBSET Regs) /\ number \in MinBlock..MaxBlock \cup {MinBlock}
  /\ lastBlock \in MinBlock..MaxBlock \cup {NoBlock}
  /\ snap \subseteq Snapshots /\ (snap = {} \/ \E s \in Snapshots : snap = {s})
  /\ feed \in {"Block", "FilteredBlock"} /\ fed \in Nat
  /\ calls \in [Regs -> Nat] /\ unread \in [Regs -> Nat] /\ panicked \in BOOLEAN
  /\ sent \in [Regs -> Seq(Nat)] /\ joined \in [Regs -> Nat \cup {NoBlock}]

\* The slices of a dispatcher or of a snapshot have each of its block and
\* filtered block registrations once, and no others.
Once(s) == \A i, j \in 1..Len(s) : s[i] = s[j] => i = j
Lists(blocks, filtered, regs) ==
  /\ Once(blocks) /\ Range(blocks) = {r \in regs : want[r].kind = "block"}
  /\ Once(filtered) /\ Range(filtered) = {r \in regs : want[r].kind = "filtered"}

\* Who holds a registration.
Holders ==
  /\ Lists(blockRegs, filteredRegs, Held)
  /\ \A s \in snap : Lists(s.blocks, s.filtered, s.regs)
  /\ Held \cap Snapped = {}
  /\ \A r \in Held \cup Snapped : status[r] = "registered" /\ ~closed[r]

\* One registration per key of a map.
OneEach(regs) == \A q, r \in regs :
  want[q].kind \in {"tx", "cc"} /\ want[q].kind = want[r].kind /\ want[q].key = want[r].key
    => q = r
OnePerKey == OneEach(Held) /\ \A s \in snap : OneEach(s.regs)

\* A registration that is not granted yet is queued at most once; only one
\* snapshot is to be taken at a time.
QueuedOnce ==
  /\ \A i \in 1..Len(queue) :
       /\ queue[i].type = "Register" => status[queue[i].reg] = "waiting"
       /\ queue[i].type \in Stops => snap = {}
  /\ \A i, j \in 1..Len(queue) :
       \/ queue[i].type = "Register" /\ queue[j].type = "Register"
          /\ queue[i].reg = queue[j].reg
       \/ queue[i].type \in Stops /\ queue[j].type \in Stops
       => i = j

\* A dispatcher publishes to whom it holds, and holds nobody when it is stopped.
PublishesToHeld ==
  /\ \A i \in 1..Len(plan) : plan[i] \subseteq Held
  /\ state = "Stopped" => Held = {} /\ plan = <<>>

\* Whoever was granted a registration is held until its channel is closed, and block
\* registrations are asked for where full blocks are delivered.
GrantedIsHeld == \A r \in Regs :
  /\ status[r] = "registered" /\ ~closed[r] => r \in Held \cup Snapped
  /\ closed[r] => status[r] = "registered"
  /\ status[r] # "new" /\ want[r].kind = "block" => feed = "Block"

HInv == Holders /\ OnePerKey /\ QueuedOnce /\ PublishesToHeld /\ GrantedIsHeld /\ ~panicked

\* What was handled is not newer than the last block, which is the one that is
\* being published.
HandledIsOld ==
  /\ \A n \in handled : lastBlock # NoBlock /\ n <= lastBlock
  /\ plan # <<>> => lastBlock # NoBlock /\ number = lastBlock /\ number \in handled
  /\ state = "Stopped" => \A s \in snap : s.last = lastBlock

\* Registrations before and when they are granted.
Joins == \A r \in Regs :
  /\ status[r] # "registered" => sent[r] = <<>>
  /\ joined[r] # NoBlock => lastBlock # NoBlock /\ joined[r] <= lastBlock

\* Only what was handled is sent; what is about to be sent is newer.
SentIsHandled == \A r \in Regs :
  /\ Range(sent[r]) \subseteq handled
  /\ want[r].kind \in {"block", "filtered"} => \A i \in 1..Len(plan) : r \in plan[i] =>
       /\ \A k \in 1..Len(sent[r]) : sent[r][k] < number
       /\ \A j \in 1..Len(plan) : r \in plan[j] => i = j

\* NothingMissed, of one registration.
Planned(r) == \E i \in 1..Len(plan) : r \in plan[i]
Due(r) == {n \in handled : (joined[r] = NoBlock \/ n > joined[r]) /\ Concerns(r, n)}
Complete(r) == Range(sent[r]) \cup (IF Planned(r) THEN {number} ELSE {}) = Due(r)
NoneMissed == timeout = "zero" =>
  \A r \in Held \cup (IF state = "Stopped" THEN Snapped ELSE {}) : Complete(r)

DInv == HandledIsOld /\ Joins /\ SentIsHandled /\ NoneMissed /\ InOrder

-----------------------------------------------------------------------------
(* Sequences.                                                              *)

\* What is appended is there once if it was not there.
LEMMA AppendOnce ==
  ASSUME NEW S, NEW s \in Seq(S), Once(s), NEW r \in S, r \notin Range(s)
  PROVE  /\ Append(s, r) \in Seq(S) /\ Once(Append(s, r))
         /\ Range(Append(s, r)) = Range(s) \cup {r}
<1> DEFINE t == Append(s, r)
<1>1. /\ t \in Seq(S) /\ Len(s) \in Nat /\ Len(t) = Len(s) + 1 /\ DOMAIN s = 1..Len(s)
      /\ DOMAIN t = 1..Len(t)
      /\ \A i \in 1..Len(s) : t[i] = s[i]
      /\ t[Len(s) + 1] = r
  OBVIOUS
<1> HIDE DEF t
<1>2. \A i \in 1..Len(s) : s[i] # r
  BY <1>1 DEF Range
<1>3. Once(t)
  BY <1>1, <1>2 DEF Once
<1>4. Range(t) = Range(s) \cup {r}
  BY <1>1 DEF Range
<1> QED
  BY <1>1, <1>3, <1>4 DEF t

\* RemoveAt0 takes the one that is given, and keeps the others.
LEMMA WithoutIt ==
  ASSUME NEW S, NEW s \in Seq(S), Once(s), NEW r
  PROVE  /\ Without(s, r) \in Seq(S) /\ Once(Without(s, r))
         /\ Range(Without(s, r)) = Range(s) \ {r}
<1>1. CASE r \notin Range(s)
  <2>1. DOMAIN s = 1..Len(s) /\ \A i \in DOMAIN s : s[i] # r
    BY <1>1 DEF Range
  <2> QED
    BY <1>1, <2>1 DEF Without
<1>2. CASE r \in Range(s)
  <2> DEFINE k == CHOOSE i \in DOMAIN s : s[i] = r
             u == [s EXCEPT ![k] = s[1]]
             t == Tail(u)
  <2>1. /\ k \in 1..Len(s) /\ s[k] = r /\ Len(s) \in Nat \ {0} /\ DOMAIN s = 1..Len(s)
        /\ Without(s, r) = t
    BY <1>2 DEF Range, Without, RemoveAt0
  <2> HIDE DEF k
  <2>2. /\ u \in Seq(S) /\ Len(u) = Len(s)
        /\ \A i \in 1..Len(s) : u[i] = IF i = k THEN s[1] ELSE s[i]
    BY <2>1
  <2> HIDE DEF u
  <2>3. /\ t \in Seq(S) /\ Len(t) = Len(s) - 1 /\ DOMAIN t = 1..(Len(s) - 1)
        /\ \A i \in 1..(Len(s) - 1) : t[i] = u[i + 1]
    BY <2>1, <2>2
  <2> HIDE DEF t
  <2>4. \A i \in 1..(Len(s) - 1) : t[i] = IF i + 1 = k THEN s[1] ELSE s[i + 1]
    BY <2>1, <2>2, <2>3
  <2>5. Once(t)
    <3> SUFFICES ASSUME NEW i \in 1..(Len(s) - 1), NEW j \in 1..(Len(s) - 1), t[i] = t[j]
                 PROVE  i = j
      BY <2>3 DEF Once
    <3> QED
      BY <2>1, <2>4 DEF Once
  <2>6. Range(t) \subseteq Range(s) \ {r}
    <3> SUFFICES ASSUME NEW i \in 1..(Len(s) - 1)
                 PROVE  t[i] \in Range(s) \ {r}
      BY <2>3 DEF Range
    <3> QED
      BY <2>1, <2>4 DEF Range, Once
  <2>7. Range(s) \ {r} \subseteq Range(t)
    <3> SUFFICES ASSUME NEW i \in 1..Len(s), s[i] # r
                 PROVE  s[i] \in Range(t)
      BY <2>1 DEF Range
    <3>1. CASE i = 1
      <4>1. k - 1 \in 1..(Len(s) - 1) /\ t[k - 1] = s[1]
        BY <2>1, <2>4, <3>1
      <4> QED
        BY <2>3, <3>1, <4>1 DEF Range
    <3>2. CASE i # 1
      <4>1. i - 1 \in 1..(Len(s) - 1) /\ t[i - 1] = s[i]
        BY <2>1, <2>4, <3>2
      <4> QED
        BY <2>3, <4>1 DEF Range
    <3> QED
      BY <3>1, <3>2
  <2> QED
    BY <2>1, <2>3, <2>5, <2>6, <2>7
<1> QED
  BY <1>1, <1>2

\* The first half and the second half of what is sent per transaction.
LEMMA Halves ==
  /\ \A i \in Nat : i % 2 \in {0, 1} /\ (i + 1) \div 2 \in Nat
  /\ \A m \in Nat : \A i \in 1..(2 * m) : (i + 1) \div 2 \in 1..m
  /\ \A k \in Nat \ {0} : /\ 2 * k - 1 \in Nat /\ (2 * k - 1 + 1) \div 2 = k
                          /\ (2 * k - 1) % 2 = 1
                          /\ (2 * k + 1) \div 2 = k /\ (2 * k) % 2 = 0
OBVIOUS

\* A set of one snapshot or none.
LEMMA OneAtMost ==
  ASSUME NEW S, S = {} \/ \E s : S = {s}
  PROVE  Cardinality(S) <= 1
<1>1. CASE S = {}
  BY <1>1, FS_EmptySet
<1>2. ASSUME NEW s, S = {s} PROVE Cardinality(S) <= 1
  <2>1. Cardinality({s}) = 1
    BY FS_Singleton
  <2> QED
    BY <1>2, <2>1
<1> QED
  BY <1>1, <1>2

-----------------------------------------------------------------------------
(* The publication of a block.                                             *)

\* The receivers of transactions.
LEMMA TxStages ==
  ASSUME Shape, NEW n \in MinBlock..MaxBlock
  PROVE  /\ TxReceivers(n) \in Seq(SUBSET Regs)
         /\ \A i \in 1..Len(TxReceivers(n)) : TxReceivers(n)[i] \subseteq txRegs \cup ccRegs
         /\ \A r \in txRegs : (\E i \in 1..Len(TxReceivers(n)) : r \in TxReceivers(n)[i])
                                <=> Concerns(r, n)
         /\ \A r \in ccRegs : (\E i \in 1..Len(TxReceivers(n)) : r \in TxReceivers(n)[i])
                                <=> Concerns(r, n)
<1> DEFINE m == Len(Txs[n])
           t == TxReceivers(n)
<1>1. m \in Nat /\ DOMAIN Txs[n] = 1..m
  BY ConstantsAssumption
<1>2. /\ txRegs \subseteq Regs /\ ccRegs \subseteq Regs
      /\ \A r \in txRegs : want[r].kind = "tx"
      /\ \A r \in ccRegs : want[r].kind = "cc"
  BY DEF Shape, TypeOK
<1>3. \A i \in 1..(2 * m) : i \in Nat /\ i % 2 \in {0, 1} /\ (i + 1) \div 2 \in 1..m
  BY <1>1, Halves
<1>4. /\ DOMAIN t = 1..(2 * m)
      /\ \A i \in 1..(2 * m) : \A k \in 1..m : (i + 1) \div 2 = k =>
           t[i] = IF i % 2 = 1 THEN {r \in txRegs : want[r].key = Txs[n][k].id}
                  ELSE {r \in ccRegs : Txs[n][k].valid /\ want[r].key = Txs[n][k].event}
  <2>1. DOMAIN t = 1..(2 * m)
    BY DEF TxReceivers
  <2>2. ASSUME NEW i \in 1..(2 * m), NEW k \in 1..m, (i + 1) \div 2 = k
        PROVE  t[i] = IF i % 2 = 1 THEN {r \in txRegs : want[r].key = Txs[n][k].id}
                      ELSE {r \in ccRegs : Txs[n][k].valid /\ want[r].key = Txs[n][k].event}
    <3>1. t[i] = Receivers(Txs[n][k])[2 - (i % 2)]
      BY <2>2 DEF TxReceivers
    <3>2. CASE i % 2 = 1
      <4>1. 2 - (i % 2) = 1
        BY <3>2
      <4> QED
        BY <3>1, <3>2, <4>1 DEF Receivers
    <3>3. CASE i % 2 = 0
      <4>1. 2 - (i % 2) = 2
        BY <3>3
      <4>2. ~(i % 2 = 1)
        BY <3>3
      <4> QED
        BY <3>1, <4>1, <4>2 DEF Receivers
    <3> QED
      BY <1>3, <3>2, <3>3
  <2> QED
    BY <2>1, <2>2
<1>5. \A i \in 1..(2 * m) : t[i] \subseteq txRegs \cup ccRegs
  BY <1>3, <1>4
<1>6. t \in Seq(SUBSET Regs) /\ Len(t) = 2 * m
  <2>1. t = [i \in 1..(2 * m) |-> t[i]]
    BY DEF TxReceivers
  <2>2. t \in [1..(2 * m) -> SUBSET Regs]
    BY <1>2, <1>5, <2>1
  <2> QED
    BY <1>1, <2>2
<1>7. ASSUME NEW k \in 1..m
      PROVE  /\ 2 * k - 1 \in 1..(2 * m) /\ 2 * k \in 1..(2 * m)
             /\ t[2 * k - 1] = {r \in txRegs : want[r].key = Txs[n][k].id}
             /\ t[2 * k] = {r \in ccRegs : Txs[n][k].valid /\ want[r].key = Txs[n][k].event}
  <2> DEFINE o == 2 * k - 1
             e == 2 * k
  <2>1. o \in 1..(2 * m) /\ e \in 1..(2 * m) /\ k \in Nat \ {0}
    BY <1>1
  <2>2. (o + 1) \div 2 = k /\ o % 2 = 1 /\ (e + 1) \div 2 = k /\ e % 2 = 0
    BY <2>1, Halves
  <2> HIDE DEF o, e, t
  <2>3. t[o] = {r \in txRegs : want[r].key = Txs[n][k].id}
    BY <1>4, <2>1, <2>2
  <2>4. t[e] = {r \in ccRegs : Txs[n][k].valid /\ want[r].key = Txs[n][k].event}
    <3>1. ~(e % 2 = 1)
      BY <2>2
    <3> QED
      BY <1>4, <2>1, <2>2, <3>1
  <2> QED
    BY <2>1, <2>3, <2>4 DEF o, e
<1>8. ASSUME NEW r \in txRegs PROVE (\E i \in 1..Len(t) : r \in t[i]) <=> Concerns(r, n)
  <2>1. ASSUME NEW i \in 1..(2 * m), r \in t[i] PROVE Concerns(r, n)
    <3>1. PICK k \in 1..m : (i + 1) \div 2 = k
      BY <1>3
    <3>2. t[i] = {q \in txRegs : want[q].key = Txs[n][k].id}
          \/ t[i] = {q \in ccRegs : Txs[n][k].valid /\ want[q].key = Txs[n][k].event}
      BY <1>4, <3>1
    <3> HIDE DEF t
    <3>3. r \notin ccRegs /\ want[r].kind = "tx"
      BY <1>2
    <3>4. want[r].key = Txs[n][k].id
      BY <2>1, <3>2, <3>3
    <3> QED
      BY <1>1, <3>3, <3>4 DEF Concerns
  <2>2. ASSUME Concerns(r, n) PROVE \E i \in 1..(2 * m) : r \in t[i]
    BY <1>1, <1>2, <1>7, <2>2 DEF Concerns
  <2> QED
    BY <1>6, <2>1, <2>2
<1>9. ASSUME NEW r \in ccRegs PROVE (\E i \in 1..Len(t) : r \in t[i]) <=> Concerns(r, n)
  <2>1. ASSUME NEW i \in 1..(2 * m), r \in t[i] PROVE Concerns(r, n)
    <3>1. PICK k \in 1..m : (i + 1) \div 2 = k
      BY <1>3
    <3>2. t[i] = {q \in txRegs : want[q].key = Txs[n][k].id}
          \/ t[i] = {q \in ccRegs : Txs[n][k].valid /\ want[q].key = Txs[n][k].event}
      BY <1>4, <3>1
    <3> HIDE DEF t
    <3>3. r \notin txRegs /\ want[r].kind = "cc"
      BY <1>2
    <3>4. Txs[n][k].valid /\ want[r].key = Txs[n][k].event
      BY <2>1, <3>2, <3>3
    <3> QED
      BY <1>1, <3>3, <3>4 DEF Concerns
  <2>2. ASSUME Concerns(r, n) PROVE \E i \in 1..(2 * m) : r \in t[i]
    BY <1>1, <1>2, <1>7, <2>2 DEF Concerns
  <2> QED
    BY <1>6, <2>1, <2>2
<1> QED
  BY <1>5, <1>6, <1>8, <1>9

\* The block registrations that accept the block.
LEMMA BlockStages ==
  ASSUME Shape, Holders, NEW n \in MinBlock..MaxBlock
  PROVE  /\ Accepting(blockRegs, n) \in Seq(SUBSET Regs)
         /\ \A r : \A i, j \in 1..Len(Accepting(blockRegs, n)) :
              r \in Accepting(blockRegs, n)[i] /\ r \in Accepting(blockRegs, n)[j] => i = j
         /\ \A r : (\E i \in 1..Len(Accepting(blockRegs, n)) : r \in Accepting(blockRegs, n)[i])
                     <=> r \in Held /\ want[r].kind = "block" /\ Concerns(r, n)
<1> DEFINE a == Accepting(blockRegs, n)
<1>1. /\ blockRegs \in Seq(Regs) /\ Len(blockRegs) \in Nat
      /\ DOMAIN blockRegs = 1..Len(blockRegs) /\ Once(blockRegs)
      /\ Range(blockRegs) = {r \in Held : want[r].kind = "block"}
  BY DEF Shape, TypeOK, Holders, Lists
<1>2. /\ DOMAIN a = 1..Len(blockRegs)
      /\ \A i \in 1..Len(blockRegs) : a[i] = {r \in {blockRegs[i]} : n \in want[r].filter}
  BY <1>1 DEF Accepting
<1>3. a \in [1..Len(blockRegs) -> SUBSET Regs]
  BY <1>1 DEF Accepting
<1>4. a \in Seq(SUBSET Regs) /\ Len(a) = Len(blockRegs)
  BY <1>1, <1>3
<1> HIDE DEF a
<1>5. \A r : \A i, j \in 1..Len(a) : r \in a[i] /\ r \in a[j] => i = j
  BY <1>1, <1>2, <1>4 DEF Once
<1>6. ASSUME NEW r
      PROVE  (\E i \in 1..Len(a) : r \in a[i])
               <=> r \in Held /\ want[r].kind = "block" /\ Concerns(r, n)
  <2>1. ASSUME NEW i \in 1..Len(a), r \in a[i]
        PROVE  r \in Held /\ want[r].kind = "block" /\ Concerns(r, n)
    <3>1. r = blockRegs[i] /\ n \in want[r].filter /\ r \in Range(blockRegs)
      BY <1>1, <1>2, <1>4, <2>1 DEF Range
    <3> QED
      BY <1>1, <3>1 DEF Concerns
  <2>2. ASSUME r \in Held, want[r].kind = "block", Concerns(r, n)
        PROVE  \E i \in 1..Len(a) : r \in a[i]
    <3>1. n \in want[r].filter /\ r \in Range(blockRegs)
      BY <1>1, <2>2 DEF Concerns
    <3>2. PICK i \in 1..Len(blockRegs) : r = blockRegs[i]
      BY <1>1, <3>1 DEF Range
    <3>3. r \in a[i]
      BY <1>2, <3>1, <3>2
    <3> QED
      BY <1>4, <3>3
  <2> QED
    BY <2>1, <2>2
<1> QED
  BY <1>4, <1>5, <1>6 DEF a

\* The filtered block registrations.
LEMMA FilteredStages ==
  ASSUME Shape, Holders, NEW n \in MinBlock..MaxBlock
  PROVE  /\ Singles(filteredRegs) \in Seq(SUBSET Regs)
         /\ \A r : \A i, j \in 1..Len(Singles(filteredRegs)) :
              r \in Singles(filteredRegs)[i] /\ r \in Singles(filteredRegs)[j] => i = j
         /\ \A r : (\E i \in 1..Len(Singles(filteredRegs)) : r \in Singles(filteredRegs)[i])
                     <=> r \in Held /\ want[r].kind = "filtered"
<1> DEFINE a == Singles(filteredRegs)
<1>1. /\ filteredRegs \in Seq(Regs) /\ Len(filteredRegs) \in Nat
      /\ DOMAIN filteredRegs = 1..Len(filteredRegs) /\ Once(filteredRegs)
      /\ Range(filteredRegs) = {r \in Held : want[r].kind = "filtered"}
  BY DEF Shape, TypeOK, Holders, Lists
<1>2. /\ DOMAIN a = 1..Len(filteredRegs)
      /\ \A i \in 1..Len(filteredRegs) : a[i] = {filteredRegs[i]}
  BY <1>1 DEF Singles
<1>3. a \in [1..Len(filteredRegs) -> SUBSET Regs]
  BY <1>1 DEF Singles
<1>4. a \in Seq(SUBSET Regs) /\ Len(a) = Len(filteredRegs)
  BY <1>1, <1>3
<1> HIDE DEF a
<1>5. \A r : \A i, j \in 1..Len(a) : r \in a[i] /\ r \in a[j] => i = j
  BY <1>1, <1>2, <1>4 DEF Once
<1>6. ASSUME NEW r
      PROVE  (\E i \in 1..Len(a) : r \in a[i]) <=> r \in Range(filteredRegs)
  BY <1>1, <1>2, <1>4 DEF Range
<1> QED
  BY <1>1, <1>4, <1>5, <1>6 DEF a

\* Two sequences of sets of which no element is in both.
LEMMA InEither ==
  ASSUME NEW S, NEW a \in Seq(SUBSET S), NEW b \in Seq(SUBSET S)
  PROVE  /\ a \o b \in Seq(SUBSET S)
         /\ \A r : (\E i \in 1..Len(a \o b) : r \in (a \o b)[i])
                     <=> (\E i \in 1..Len(a) : r \in a[i]) \/ (\E i \in 1..Len(b) : r \in b[i])
         /\ \A r : /\ \A i, j \in 1..Len(a) : r \in a[i] /\ r \in a[j] => i = j
                   /\ \A i, j \in 1..Len(b) : r \in b[i] /\ r \in b[j] => i = j
                   /\ (\A i \in 1..Len(a) : r \notin a[i]) \/ (\A i \in 1..Len(b) : r \notin b[i])
                   => \A i, j \in 1..Len(a \o b) : r \in (a \o b)[i] /\ r \in (a \o b)[j] => i = j
<1> DEFINE c == a \o b
<1>1. /\ c \in Seq(SUBSET S) /\ Len(c) = Len(a) + Len(b) /\ Len(a) \in Nat /\ Len(b) \in Nat
      /\ \A i \in 1..Len(c) : c[i] = IF i <= Len(a) THEN a[i] ELSE b[i - Len(a)]
  OBVIOUS
<1> HIDE DEF c
<1>2. ASSUME NEW r, NEW i \in 1..Len(c), r \in c[i]
      PROVE  \/ i \in 1..Len(a) /\ r \in a[i]
             \/ i - Len(a) \in 1..Len(b) /\ r \in b[i - Len(a)]
  BY <1>1, <1>2
<1>3. ASSUME NEW r, NEW i \in 1..Len(a), r \in a[i] PROVE \E j \in 1..Len(c) : r \in c[j]
  BY <1>1, <1>3
<1>4. ASSUME NEW r, NEW i \in 1..Len(b), r \in b[i] PROVE \E j \in 1..Len(c) : r \in c[j]
  <2>1. i + Len(a) \in 1..Len(c) /\ (i + Len(a)) - Len(a) = i /\ ~(i + Len(a) <= Len(a))
    BY <1>1
  <2>2. c[i + Len(a)] = b[i]
    BY <1>1, <2>1
  <2> QED
    BY <1>4, <2>1, <2>2
<1>5. ASSUME NEW r,
             \A i, j \in 1..Len(a) : r \in a[i] /\ r \in a[j] => i = j,
             \A i, j \in 1..Len(b) : r \in b[i] /\ r \in b[j] => i = j,
             (\A i \in 1..Len(a) : r \notin a[i]) \/ (\A i \in 1..Len(b) : r \notin b[i]),
             NEW i \in 1..Len(c), NEW j \in 1..Len(c), r \in c[i], r \in c[j]
      PROVE  i = j
  <2>1. \/ i \in 1..Len(a) /\ r \in a[i]
        \/ i - Len(a) \in 1..Len(b) /\ r \in b[i - Len(a)]
    BY <1>2, <1>5
  <2>2. \/ j \in 1..Len(a) /\ r \in a[j]
        \/ j - Len(a) \in 1..Len(b) /\ r \in b[j - Len(a)]
    BY <1>2, <1>5
  <2>3. i - Len(a) = j - Len(a) => i = j
    BY <1>1
  <2> QED
    BY <1>5, <2>1, <2>2, <2>3
<1> QED
  BY <1>1, <1>2, <1>3, <1>4, <1>5 DEF c

\* A publication is for the registrations that are held and that the block concerns;
\* a listener has one turn in it.
LEMMA PublicationIs ==
  ASSUME Shape, Holders, NEW n \in MinBlock..MaxBlock, NEW type,
         \A r \in Held : want[r].kind = "block" => type = "Block",
         NEW p, p = Publication(type, n)
  PROVE  /\ p \in Seq(SUBSET Regs)
         /\ p # <<>> => \E i \in DOMAIN p : p[i] # {}
         /\ \A i \in 1..Len(p) : p[i] \subseteq Held
         /\ \A r \in Held : (\E i \in 1..Len(p) : r \in p[i]) <=> Concerns(r, n)
         /\ \A r \in Held : want[r].kind \in {"block", "filtered"} =>
              \A i, j \in 1..Len(p) : r \in p[i] /\ r \in p[j] => i = j
<1> DEFINE a == IF type = "Block" THEN Accepting(blockRegs, n) ELSE <<>>
           b == Singles(filteredRegs)
           c == TxReceivers(n)
           q == (a \o b) \o c
<1>1. /\ a \in Seq(SUBSET Regs)
      /\ \A r : \A i, j \in 1..Len(a) : r \in a[i] /\ r \in a[j] => i = j
      /\ \A r : (\E i \in 1..Len(a) : r \in a[i])
                  <=> r \in Held /\ want[r].kind = "block" /\ Concerns(r, n)
  <2>1. CASE type = "Block"
    BY <2>1, BlockStages
  <2>2. CASE type # "Block"
    <3>1. a = <<>> /\ Len(a) = 0 /\ a \in Seq(SUBSET Regs)
      BY <2>2
    <3> QED
      BY <2>2, <3>1
  <2> QED
    BY <2>1, <2>2
<1>2. /\ b \in Seq(SUBSET Regs)
      /\ \A r : \A i, j \in 1..Len(b) : r \in b[i] /\ r \in b[j] => i = j
      /\ \A r : (\E i \in 1..Len(b) : r \in b[i]) <=> r \in Held /\ want[r].kind = "filtered"
  BY FilteredStages
<1>3. /\ c \in Seq(SUBSET Regs)
      /\ \A i \in 1..Len(c) : c[i] \subseteq txRegs \cup ccRegs
      /\ \A r \in txRegs \cup ccRegs : (\E i \in 1..Len(c) : r \in c[i]) <=> Concerns(r, n)
  BY TxStages
<1>4. p = Rest(q)
  BY DEF Publication
<1> HIDE DEF a, b, c
<1>5. /\ \A r \in Regs : want[r].kind \in {"block", "filtered", "tx", "cc"}
      /\ \A r \in txRegs : r \in Regs /\ want[r].kind = "tx"
      /\ \A r \in ccRegs : r \in Regs /\ want[r].kind = "cc"
      /\ Held \subseteq Regs
      /\ \A r \in Held : \/ want[r].kind \in {"block", "filtered"}
                         \/ r \in txRegs \cup ccRegs
      /\ txRegs \cup ccRegs \subseteq Held
  <2>1. /\ \A r \in Regs : want[r].kind \in {"block", "filtered", "tx", "cc"}
        /\ \A r \in txRegs : r \in Regs /\ want[r].kind = "tx"
        /\ \A r \in ccRegs : r \in Regs /\ want[r].kind = "cc"
        /\ blockRegs \in Seq(Regs) /\ filteredRegs \in Seq(Regs)
    BY DEF Shape, TypeOK
  <2>2. Range(blockRegs) \subseteq Regs /\ Range(filteredRegs) \subseteq Regs
    BY <2>1 DEF Range
  <2>3. /\ Range(blockRegs) = {r \in Held : want[r].kind = "block"}
        /\ Range(filteredRegs) = {r \in Held : want[r].kind = "filtered"}
    BY DEF Holders, Lists
  <2> QED
    BY <2>1, <2>2, <2>3 DEF Held
<1>6. /\ a \o b \in Seq(SUBSET Regs)
      /\ \A r : (\E i \in 1..Len(a \o b) : r \in (a \o b)[i])
                  <=> r \in Held /\ want[r].kind \in {"block", "filtered"} /\ Concerns(r, n)
      /\ \A r : \A i, j \in 1..Len(a \o b) : r \in (a \o b)[i] /\ r \in (a \o b)[j] => i = j
  <2>1. \A r : want[r].kind = "filtered" => Concerns(r, n)
    BY DEF Concerns
  <2>2. \A r : (\A i \in 1..Len(a) : r \notin a[i]) \/ (\A i \in 1..Len(b) : r \notin b[i])
    BY <1>1, <1>2
  <2>3. /\ a \o b \in Seq(SUBSET Regs)
        /\ \A r : (\E i \in 1..Len(a \o b) : r \in (a \o b)[i])
                   <=> (\E i \in 1..Len(a) : r \in a[i]) \/ (\E i \in 1..Len(b) : r \in b[i])
    BY <1>1, <1>2, InEither
  <2>4. \A r : \A i, j \in 1..Len(a \o b) : r \in (a \o b)[i] /\ r \in (a \o b)[j] => i = j
    BY <1>1, <1>2, <2>2, InEither
  <2>5. \A r : (\E i \in 1..Len(a \o b) : r \in (a \o b)[i])
                <=> r \in Held /\ want[r].kind \in {"block", "filtered"} /\ Concerns(r, n)
    BY <1>1, <1>2, <2>1, <2>3
  <2> QED
    BY <2>3, <2>4, <2>5
<1> DEFINE d == a \o b
<1> HIDE DEF d
<1>7. /\ q \in Seq(SUBSET Regs)
      /\ \A r : (\E i \in 1..Len(q) : r \in q[i]) <=> r \in Held /\ Concerns(r, n)
      /\ \A r \in Held : want[r].kind \in {"block", "filtered"} =>
           \A i, j \in 1..Len(q) : r \in q[i] /\ r \in q[j] => i = j
  <2>1. q = d \o c
    BY DEF d
  <2>2. \A r \in Held : want[r].kind \in {"block", "filtered"} =>
          \A i \in 1..Len(c) : r \notin c[i]
    BY <1>3, <1>5
  <2>3. \A r : (\E i \in 1..Len(c) : r \in c[i])
                 <=> r \in txRegs \cup ccRegs /\ Concerns(r, n)
    BY <1>3
  <2>4. /\ d \in Seq(SUBSET Regs)
        /\ \A r : (\E i \in 1..Len(d) : r \in d[i])
                    <=> r \in Held /\ want[r].kind \in {"block", "filtered"} /\ Concerns(r, n)
        /\ \A r : \A i, j \in 1..Len(d) : r \in d[i] /\ r \in d[j] => i = j
    BY <1>6 DEF d
  <2> HIDE DEF q
  <2>5. q \in Seq(SUBSET Regs)
    BY <1>3, <2>1, <2>4, InEither
  <2>6. \A r : (\E i \in 1..Len(q) : r \in q[i])
          <=> (\E i \in 1..Len(d) : r \in d[i]) \/ (\E i \in 1..Len(c) : r \in c[i])
    BY <1>3, <2>1, <2>4, InEither
  <2>7. \A r \in Held : want[r].kind \in {"block", "filtered"} =>
           \A i, j \in 1..Len(q) : r \in q[i] /\ r \in q[j] => i = j
    <3> SUFFICES ASSUME NEW r \in Held, want[r].kind \in {"block", "filtered"}
                 PROVE  \A i, j \in 1..Len(q) : r \in q[i] /\ r \in q[j] => i = j
      OBVIOUS
    <3>1. /\ \A i \in 1..Len(c) : r \notin c[i]
          /\ \A i, j \in 1..Len(c) : r \in c[i] /\ r \in c[j] => i = j
          /\ \A i, j \in 1..Len(d) : r \in d[i] /\ r \in d[j] => i = j
      BY <2>2, <2>4
    <3> QED
      BY <1>3, <2>1, <2>4, <3>1, InEither
  <2> QED
    BY <1>5, <2>3, <2>4, <2>6, <2>7, <2>5
<1> HIDE DEF q
<1>8. CASE \A i \in DOMAIN q : q[i] = {}
  <2>1. p = <<>> /\ \A r : ~(r \in Held /\ Concerns(r, n))
    BY <1>4, <1>7, <1>8 DEF Rest
  <2> QED
    BY <2>1
<1>9. CASE ~(\A i \in DOMAIN q : q[i] = {})
  <2>1. p = q
    BY <1>4, <1>9 DEF Rest
  <2> QED
    BY <1>7, <1>9, <2>1
<1> QED
  BY <1>8, <1>9

-----------------------------------------------------------------------------
(* The shape of the state.                                                 *)

\* The queue grows by a request or by a block, and shrinks by what is handled.
LEMMA QueueStays ==
  ASSUME Shape, feed' = feed,
         \/ queue' = queue \/ queue' = <<>>
         \/ queue # <<>> /\ queue' = Tail(queue)
         \/ \E e \in Events : /\ queue' = Append(queue, e) /\ Len(queue) < QueueCap
                              /\ e.type \in {"Register", "Unregister"} => e.reg \in Regs
                              /\ e.type \in {"Block", "FilteredBlock"} =>
                                   e.type = feed /\ e.num \in MinBlock..MaxBlock
  PROVE  QueueIsRight' /\ Len(queue') <= QueueCap
<1>1. queue \in Seq(Events) /\ Len(queue) \in Nat /\ Len(queue) <= QueueCap /\ QueueCap \in Nat
  BY ConstantsAssumption DEF Shape, QueueIsRight, TypeOK
<1>2. CASE queue' = queue
  BY <1>1, <1>2 DEF Shape, QueueIsRight
<1>3. CASE queue' = <<>>
  BY <1>1, <1>3 DEF QueueIsRight
<1>4. CASE queue # <<>> /\ queue' = Tail(queue)
  <2>1. /\ queue' \in Seq(Events) /\ Len(queue') = Len(queue) - 1
        /\ \A i \in 1..Len(queue') : queue'[i] = queue[i + 1] /\ i + 1 \in 1..Len(queue)
    BY <1>1, <1>4
  <2>2. ASSUME NEW i \in 1..Len(queue')
        PROVE  /\ queue'[i].type \in {"Register", "Unregister"} => queue'[i].reg \in Regs
               /\ queue'[i].type \in {"Block", "FilteredBlock"} =>
                    queue'[i].type = feed /\ queue'[i].num \in MinBlock..MaxBlock
    BY <2>1 DEF Shape, QueueIsRight
  <2> QED
    BY <1>1, <2>1, <2>2 DEF QueueIsRight
<1>5. ASSUME NEW e \in Events, queue' = Append(queue, e), Len(queue) < QueueCap,
             e.type \in {"Register", "Unregister"} => e.reg \in Regs,
             e.type \in {"Block", "FilteredBlock"} =>
               e.type = feed /\ e.num \in MinBlock..MaxBlock
      PROVE  QueueIsRight' /\ Len(queue') <= QueueCap
  <2>1. /\ queue' \in Seq(Events) /\ Len(queue') = Len(queue) + 1
        /\ \A i \in 1..Len(queue') : queue'[i] = IF i <= Len(queue) THEN queue[i] ELSE e
    BY <1>1, <1>5
  <2>2. ASSUME NEW i \in 1..Len(queue')
        PROVE  /\ queue'[i].type \in {"Register", "Unregister"} => queue'[i].reg \in Regs
               /\ queue'[i].type \in {"Block", "FilteredBlock"} =>
                    queue'[i].type = feed /\ queue'[i].num \in MinBlock..MaxBlock
    <3>1. CASE i <= Len(queue)
      BY <1>1, <2>1, <3>1 DEF Shape, QueueIsRight
    <3>2. CASE ~(i <= Len(queue))
      BY <1>5, <2>1, <3>2
    <3> QED
      BY <3>1, <3>2
  <2> QED
    BY <1>1, <1>5, <2>1, <2>2 DEF QueueIsRight
<1> QED
  BY <1>2, <1>3, <1>4, <1>5

\* The first event, which a handler takes.
LEMMA FirstIsRight ==
  ASSUME Shape, NEW type, Handle(type)
  PROVE  /\ Len(queue) \in Nat \ {0} /\ Head(queue) = queue[1] /\ queue[1] \in Events
         /\ queue[1].type = type
         /\ type \in {"Register", "Unregister"} => queue[1].reg \in Regs
         /\ type \in {"Block", "FilteredBlock"} =>
              type = feed /\ queue[1].num \in MinBlock..MaxBlock
<1>1. queue \in Seq(Events) /\ queue # <<>>
  BY DEF Shape, QueueIsRight, Handle
<1>2. Len(queue) \in Nat \ {0} /\ Head(queue) = queue[1] /\ queue[1] \in Events
  BY <1>1
<1> QED
  BY <1>2 DEF Handle, Shape, QueueIsRight

\* What owners, readers and the deliver service do keeps the shape of the state.
LEMMA OwnersKeepShape ==
  ASSUME Shape, \/ Owner \/ Control \/ \E n \in MinBlock..MaxBlock : Feed(n)
                \/ \E r \in Regs : Read(r)
  PROVE  Shape'
<1> USE ConstantsAssumption DEF lists, block, owners, chans
<1>1. ASSUME NEW r \in Regs, Register(r) PROVE Shape'
  <2>1. Event("Register", r, NoBlock) \in Events
    BY DEF Events, Event
  <2>2. QueueIsRight' /\ Len(queue') <= QueueCap
    BY <1>1, <2>1, QueueStays DEF Register, Submit, Event
  <2>3. status' \in [Regs -> {"new", "waiting", "registered", "refused"}]
    BY <1>1 DEF Register, Shape, TypeOK
  <2> QED
    BY <1>1, <2>2, <2>3 DEF Register, Submit, Shape, TypeOK
<1>2. ASSUME NEW r \in Regs, Unregister(r) PROVE Shape'
  <2>1. Event("Unregister", r, NoBlock) \in Events
    BY DEF Events, Event
  <2>2. QueueIsRight' /\ Len(queue') <= QueueCap
    BY <1>2, <2>1, QueueStays DEF Unregister, Submit, Event
  <2>3. calls' \in [Regs -> Nat] /\ \A q \in Regs : calls'[q] <= want[q].unregisters
    <3>1. /\ calls \in [Regs -> Nat] /\ want[r].unregisters \in Nat /\ want' = want
          /\ calls[r] < want[r].unregisters /\ calls' = [calls EXCEPT ![r] = calls[r] + 1]
          /\ \A q \in Regs : calls[q] <= want[q].unregisters
      BY <1>2 DEF Unregister, Shape, TypeOK
    <3> QED
      BY <3>1
  <2> QED
    BY <1>2, <2>2, <2>3 DEF Unregister, Submit, Shape, TypeOK
<1>3. ASSUME NEW type \in Stops, RequestStop(type) PROVE Shape'
  <2>1. Event(type, NoReg, NoBlock) \in Events
    BY DEF Events, Event
  <2>2. QueueIsRight' /\ Len(queue') <= QueueCap
    BY <1>3, <2>1, QueueStays DEF RequestStop, Submit, Event, Stops
  <2> QED
    BY <1>3, <2>2 DEF RequestStop, Submit, Shape, TypeOK
<1>4. ASSUME NEW n \in MinBlock..MaxBlock, Feed(n) PROVE Shape'
  <2>1. Event(feed, NoReg, n) \in Events
    BY DEF Events, Event, Shape
  <2>2. QueueIsRight' /\ Len(queue') <= QueueCap
    BY <1>4, <2>1, QueueStays DEF Feed, Submit, Event, Shape
  <2>3. fed' \in Nat
    BY <1>4 DEF Feed, Shape
  <2> QED
    BY <1>4, <2>2, <2>3 DEF Feed, Submit, Shape, TypeOK
<1>5. ASSUME NEW r \in Regs, Read(r) PROVE Shape'
  <2>1. QueueIsRight' /\ Len(queue') <= QueueCap
    BY <1>5, QueueStays DEF Read
  <2>2. unread' \in [Regs -> Nat] /\ \A q \in Regs : unread'[q] <= ChanCap
    <3>1. /\ unread \in [Regs -> Nat] /\ \A q \in Regs : unread[q] <= ChanCap
          /\ unread[r] > 0 /\ unread' = [unread EXCEPT ![r] = unread[r] - 1]
      BY <1>5 DEF Read, Shape, TypeOK
    <3> QED
      BY <3>1
  <2> QED
    BY <1>5, <2>1, <2>2 DEF Read, Shape, TypeOK
<1> QED
  BY <1>1, <1>2, <1>3, <1>4, <1>5 DEF Owner, Control

\* What handlers do with registrations keeps the shape of the state.
LEMMA RegistrationsKeepShape ==
  ASSUME Shape, HInv, HandleRegister \/ HandleUnregister
  PROVE  Shape'
<1> USE ConstantsAssumption DEF lists, block, owners, chans
<1>1. CASE HandleRegister
  <2> DEFINE r == queue[1].reg
  <2>1. r \in Regs /\ Head(queue) = queue[1] /\ Handle("Register")
    BY <1>1, FirstIsRight DEF HandleRegister
  <2>2. QueueIsRight' /\ Len(queue') <= QueueCap
    BY <1>1, QueueStays DEF HandleRegister, Handle
  <2>3. {blockRegs', filteredRegs'} \subseteq Seq(Regs)
    BY <1>1, <2>1 DEF HandleRegister, Shape, TypeOK
  <2>4. /\ txRegs' \subseteq {q \in Regs : want'[q].kind = "tx"}
        /\ ccRegs' \subseteq {q \in Regs : want'[q].kind = "cc"}
    BY <1>1, <2>1 DEF HandleRegister, Shape, TypeOK
  <2>5. /\ status' \in [Regs -> {"new", "waiting", "registered", "refused"}]
        /\ joined' \in [Regs -> Nat \cup {NoBlock}]
    BY <1>1, <2>1 DEF HandleRegister, Shape, TypeOK
  <2> QED
    BY <1>1, <2>2, <2>3, <2>4, <2>5 DEF HandleRegister, Handle, Shape, TypeOK
<1>2. CASE HandleUnregister
  <2>1. QueueIsRight' /\ Len(queue') <= QueueCap
    BY <1>2, QueueStays DEF HandleUnregister, Handle
  <2>2. blockRegs' \in Seq(Regs) /\ filteredRegs' \in Seq(Regs)
    BY <1>2, WithoutIt DEF HandleUnregister, Shape, TypeOK, HInv, Holders, Lists
  <2>3. closed' \in [Regs -> BOOLEAN] /\ panicked' \in BOOLEAN
    BY <1>2 DEF HandleUnregister, CloseChans, Shape, TypeOK
  <2>4. /\ txRegs' \subseteq txRegs /\ ccRegs' \subseteq ccRegs
    BY <1>2 DEF HandleUnregister
  <2> QED
    BY <1>2, <2>1, <2>2, <2>3, <2>4 DEF HandleUnregister, Handle, CloseChans, Shape,
       TypeOK
<1> QED
  BY <1>1, <1>2

\* The snapshot that is taken.
LEMMA SnapshotIs ==
  ASSUME Shape
  PROVE  Snapshot \in Snapshots /\ Snapshot.regs = Held /\ Held \subseteq Regs
         /\ Snapshot.last = lastBlock /\ Snapshot.blocks = blockRegs
         /\ Snapshot.filtered = filteredRegs
<1>1. /\ lastBlock \in MinBlock..MaxBlock \cup {NoBlock}
      /\ blockRegs \in Seq(Regs) /\ filteredRegs \in Seq(Regs)
      /\ txRegs \subseteq Regs /\ ccRegs \subseteq Regs
  BY DEF Shape, TypeOK
<1>2. Held \subseteq Regs
  BY <1>1 DEF Held, Range
<1> QED
  BY <1>1, <1>2 DEF Snapshot, Snapshots

\* Stopping and taking snapshots keeps the shape of the state.
LEMMA StopsKeepShape ==
  ASSUME Shape, HandleStop \/ HandleTransfer \/ HandleStopAndTransfer
  PROVE  Shape'
<1> USE ConstantsAssumption DEF lists, block, owners, chans, ClearRegistrations
<1>1. QueueIsRight' /\ Len(queue') <= QueueCap
  BY QueueStays DEF HandleStop, HandleTransfer, HandleStopAndTransfer, Handle
<1>2. CASE HandleStop
  <2>1. closed' \in [Regs -> BOOLEAN] /\ panicked' \in BOOLEAN
    BY <1>2 DEF HandleStop, CloseChans, Shape, TypeOK
  <2> QED
    BY <1>1, <1>2, <2>1 DEF HandleStop, Handle, CloseChans, Shape, TypeOK
<1>3. CASE HandleTransfer \/ HandleStopAndTransfer
  <2>1. snap' = {Snapshot} /\ Snapshot \in Snapshots
    BY <1>3, SnapshotIs DEF HandleTransfer, HandleStopAndTransfer
  <2>2. Cardinality(snap') <= 1
    BY <2>1, OneAtMost
  <2>3. snap' \subseteq Snapshots /\ (snap' = {} \/ \E s \in Snapshots : snap' = {s})
    BY <2>1
  <2>4. /\ blockRegs' = <<>> /\ filteredRegs' = <<>> /\ txRegs' = {} /\ ccRegs' = {}
        /\ want' = want /\ timeout' = timeout /\ starts' = starts /\ feed' = feed /\ fed' = fed
        /\ joined' = joined
        /\ lastBlock' = lastBlock /\ skipNext' = skipNext /\ plan' = plan
        /\ number' = number /\ handled' = handled
        /\ status' = status /\ calls' = calls
        /\ unread' = unread /\ closed' = closed /\ panicked' = panicked /\ sent' = sent
    BY <1>3 DEF HandleTransfer, HandleStopAndTransfer, Handle
  <2>5. state' \in {"Started", "Stopped"}
    BY <1>3 DEF HandleTransfer, HandleStopAndTransfer, Shape, TypeOK
  <2>6. TypeOK'
    BY <1>1, <2>2, <2>4, <2>5 DEF Shape, TypeOK
  <2> QED
    BY <1>1, <2>3, <2>4, <2>6 DEF Shape
<1> QED
  BY <1>2, <1>3

\* So does the end of a snapshot.
LEMMA SnapshotsKeepShape ==
  ASSUME Shape, StartFromSnapshot \/ CloseSnapshot
  PROVE  Shape'
<1> USE ConstantsAssumption DEF lists, block, owners, chans
<1>1. Cardinality({}) <= 1
  BY OneAtMost
<1>2. CASE StartFromSnapshot
  <2>1. PICK s \in snap :
          /\ blockRegs' = s.blocks /\ filteredRegs' = s.filtered
          /\ txRegs' = {r \in s.regs : want[r].kind = "tx"}
          /\ ccRegs' = {r \in s.regs : want[r].kind = "cc"}
          /\ lastBlock' = IF s.last = 0 THEN NoBlock ELSE s.last
          /\ fed' = IF s.last = NoBlock THEN fed ELSE s.last
    BY <1>2 DEF StartFromSnapshot
  <2>2. /\ s \in Snapshots /\ s.last \in MinBlock..MaxBlock \cup {NoBlock} /\ s.blocks \in Seq(Regs)
        /\ s.filtered \in Seq(Regs) /\ s.regs \subseteq Regs
    BY <2>1 DEF Shape, Snapshots
  <2>3. QueueIsRight' /\ Len(queue') <= QueueCap
    BY <1>2, QueueStays DEF StartFromSnapshot
  <2>4. /\ lastBlock' \in MinBlock..MaxBlock \cup {NoBlock} /\ fed' \in Nat
        /\ lastBlock' \in Nat \cup {NoBlock}
    BY <2>1, <2>2 DEF Shape
  <2>5. starts' \in Nat /\ starts' \in 1..MaxStarts
    BY <1>2 DEF StartFromSnapshot, Shape, TypeOK
  <2>6. /\ txRegs' \subseteq {r \in Regs : want'[r].kind = "tx"}
        /\ ccRegs' \subseteq {r \in Regs : want'[r].kind = "cc"}
        /\ blockRegs' \in Seq(Regs) /\ filteredRegs' \in Seq(Regs)
    BY <1>2, <2>1, <2>2 DEF StartFromSnapshot
  <2> QED
    BY <1>1, <1>2, <2>3, <2>4, <2>5, <2>6 DEF StartFromSnapshot, Shape, TypeOK
<1>3. CASE CloseSnapshot
  <2>1. closed' \in [Regs -> BOOLEAN] /\ panicked' \in BOOLEAN
    BY <1>3 DEF CloseSnapshot, CloseChans
  <2>2. QueueIsRight' /\ Len(queue') <= QueueCap
    BY <1>3, QueueStays DEF CloseSnapshot
  <2> QED
    BY <1>1, <1>3, <2>1, <2>2 DEF CloseSnapshot, CloseChans, Shape, TypeOK
<1> QED
  BY <1>2, <1>3

\* A send that is over: one receiver less, everybody else keeps the turn.
LEMMA DoneIs ==
  ASSUME Shape, NEW r, Done(r)
  PROVE  /\ plan # <<>> /\ plan' \in Seq(SUBSET Regs)
         /\ plan' # <<>> => \E j \in DOMAIN plan' : plan'[j] # {}
         /\ \A j \in 1..Len(plan') : j \in 1..Len(plan) /\ plan'[j] \subseteq plan[j]
         /\ \E i \in 1..Len(plan) :
              /\ r \in plan[i] /\ (i \in 1..Len(plan') => r \notin plan'[i])
              /\ \A q : \A j \in 1..Len(plan) : q \in plan[j] /\ ~(q = r /\ j = i) =>
                   j \in 1..Len(plan') /\ q \in plan'[j]
<1>1. plan \in Seq(SUBSET Regs) /\ DOMAIN plan = 1..Len(plan) /\ Len(plan) \in Nat
  BY DEF Shape
<1>2. PICK i \in 1..Len(plan) :
        r \in plan[i] /\ plan' = Rest([plan EXCEPT ![i] = plan[i] \ {r}])
  BY <1>1 DEF Done
<1> DEFINE p == [plan EXCEPT ![i] = plan[i] \ {r}]
<1>3. /\ p \in Seq(SUBSET Regs) /\ Len(p) = Len(plan) /\ DOMAIN p = 1..Len(plan)
      /\ \A j \in 1..Len(plan) : p[j] = IF j = i THEN plan[i] \ {r} ELSE plan[j]
  BY <1>1
<1>4. plan # <<>>
  BY <1>1, <1>2
<1>5. plan' = Rest(p)
  BY <1>2
<1> HIDE DEF p
<1>6. CASE \A j \in DOMAIN p : p[j] = {}
  <2>1. plan' = <<>> /\ Len(plan') = 0 /\ plan' \in Seq(SUBSET Regs)
    BY <1>5, <1>6 DEF Rest
  <2>2. \A q : \A j \in 1..Len(plan) : q \in plan[j] => q = r /\ j = i
    <3> SUFFICES ASSUME NEW q, NEW j \in 1..Len(plan), q \in plan[j]
                 PROVE  q = r /\ j = i
      OBVIOUS
    <3>1. p[j] = {}
      BY <1>3, <1>6
    <3> QED
      BY <1>3, <3>1
  <2>3. \A j : j \notin 1..Len(plan')
    BY <2>1
  <2> QED
    BY <1>2, <1>4, <2>1, <2>2, <2>3
<1>7. CASE ~(\A j \in DOMAIN p : p[j] = {})
  <2>1. plan' = p
    BY <1>5, <1>7 DEF Rest
  <2> QED
    BY <1>2, <1>3, <1>4, <1>7, <2>1
<1> QED
  BY <1>6, <1>7

\* Handling and publishing a block keeps the shape of the state.
LEMMA BlocksKeepShape ==
  ASSUME Shape, HInv, NEW type \in {"Block", "FilteredBlock"}, HandleBlock(type)
  PROVE  Shape'
<1> USE ConstantsAssumption DEF lists, block, owners, chans
<1> DEFINE n == queue[1].num
<1>1. n \in MinBlock..MaxBlock /\ Head(queue) = queue[1] /\ Handle(type) /\ type = feed
  BY FirstIsRight DEF HandleBlock
<1>2. QueueIsRight' /\ Len(queue') <= QueueCap
  BY QueueStays DEF HandleBlock, Handle
<1>3. \A r \in Held : want[r].kind = "block" => type = "Block"
  <2>1. Held \subseteq Regs
    BY SnapshotIs
  <2> QED
    BY <1>1, <2>1 DEF HInv, Holders, GrantedIsHeld
<1>4. /\ lastBlock' \in MinBlock..MaxBlock \cup {NoBlock} /\ lastBlock' \in Nat \cup {NoBlock}
      /\ skipNext' \in BOOLEAN /\ number' \in MinBlock..MaxBlock \cup {MinBlock}
      /\ handled' \subseteq MinBlock..MaxBlock
  <2>1. /\ lastBlock' = IF Newer(n) THEN n ELSE lastBlock
        /\ skipNext' = (skipNext /\ ~Newer(n))
        /\ number' = n \/ number' = number
        /\ handled' = handled \cup {n} \/ handled' = handled
    BY <1>1 DEF HandleBlock
  <2>2. n \in Nat /\ skipNext \in BOOLEAN /\ handled \subseteq MinBlock..MaxBlock
    BY <1>1 DEF Shape, TypeOK
  <2>3. /\ number \in MinBlock..MaxBlock \cup {MinBlock}
        /\ lastBlock \in MinBlock..MaxBlock \cup {NoBlock}
        /\ lastBlock \in Nat \cup {NoBlock}
    BY DEF Shape, TypeOK
  <2> HIDE DEF n
  <2>4. skipNext' \in BOOLEAN
    BY <2>1, <2>2
  <2> QED
    BY <1>1, <2>1, <2>2, <2>3, <2>4
<1>5. /\ plan' \in Seq(SUBSET Regs)
      /\ plan' # <<>> => \E i \in DOMAIN plan' : plan'[i] # {}
  <2>1. plan' = Publication(type, n) \/ plan' = <<>>
    BY <1>1 DEF HandleBlock
  <2>2. CASE plan' = Publication(type, n)
    BY <1>1, <1>3, <2>2, PublicationIs DEF HInv
  <2>3. CASE plan' = <<>>
    BY <2>3
  <2> QED
    BY <2>1, <2>2, <2>3
<1>6. \A i \in DOMAIN plan' : plan'[i] \subseteq Regs
  BY <1>5
<1> QED
  BY <1>2, <1>4, <1>5, <1>6 DEF HandleBlock, Shape, TypeOK

\* A send, or giving it up, keeps the shape of the state.
LEMMA SendsKeepShape ==
  ASSUME Shape, NEW r \in Regs, PublishTo(r) \/ GiveUpOn(r), ~closed[r]
  PROVE  Shape'
<1> USE ConstantsAssumption DEF lists, block, owners, chans
<1>1. /\ plan' \in Seq(SUBSET Regs)
      /\ plan' # <<>> => \E i \in DOMAIN plan' : plan'[i] # {}
      /\ \A i \in DOMAIN plan' : plan'[i] \subseteq Regs
  <2>1. Done(r)
    BY DEF PublishTo, GiveUpOn
  <2>2. /\ plan' \in Seq(SUBSET Regs)
        /\ plan' # <<>> => \E i \in DOMAIN plan' : plan'[i] # {}
    BY <2>1, DoneIs
  <2> QED
    BY <2>2
<1>2. QueueIsRight' /\ Len(queue') <= QueueCap
  BY QueueStays DEF PublishTo, GiveUpOn
<1>3. CASE PublishTo(r)
  <2>1. /\ unread' = [unread EXCEPT ![r] = unread[r] + 1] /\ unread[r] < ChanCap
        /\ unread \in [Regs -> Nat] /\ \A q \in Regs : unread[q] <= ChanCap
    BY <1>3 DEF PublishTo, Shape, TypeOK
  <2>2. unread' \in [Regs -> Nat] /\ \A q \in Regs : unread'[q] <= ChanCap
    BY <2>1
  <2>3. sent' \in [Regs -> Seq(Nat)] /\ panicked' \in BOOLEAN
    <3>1. number \in Nat /\ sent \in [Regs -> Seq(Nat)]
      BY DEF Shape
    <3>2. sent' = [sent EXCEPT ![r] = Append(sent[r], number)]
      BY <1>3 DEF PublishTo
    <3>3. Append(sent[r], number) \in Seq(Nat)
      BY <3>1
    <3>4. panicked' \in BOOLEAN
      BY <1>3 DEF PublishTo, Shape, TypeOK
    <3> QED
      BY <3>1, <3>2, <3>3, <3>4
  <2> QED
    BY <1>1, <1>2, <1>3, <2>2, <2>3 DEF PublishTo, Shape, TypeOK
<1>4. CASE GiveUpOn(r)
  BY <1>1, <1>2, <1>4 DEF GiveUpOn, Shape, TypeOK
<1> QED
  BY <1>3, <1>4

-----------------------------------------------------------------------------
(* Who holds what.                                                         *)

\* The registrations that are held, by their kind.
LEMMA ByKind ==
  ASSUME Shape, Holders
  PROVE  /\ Held \subseteq Regs /\ Snapped \subseteq Regs
         /\ Range(blockRegs) = {r \in Held : want[r].kind = "block"}
         /\ Range(filteredRegs) = {r \in Held : want[r].kind = "filtered"}
         /\ txRegs = {r \in Held : want[r].kind = "tx"}
         /\ ccRegs = {r \in Held : want[r].kind = "cc"}
         /\ \A r \in Regs : want[r].kind \in {"block", "filtered", "tx", "cc"}
<1>1. Held \subseteq Regs
  BY SnapshotIs
<1>2. Snapped \subseteq Regs
  BY DEF Snapped, Shape, Snapshots
<1>3. /\ Range(blockRegs) = {r \in Held : want[r].kind = "block"}
      /\ Range(filteredRegs) = {r \in Held : want[r].kind = "filtered"}
      /\ \A r \in txRegs : want[r].kind = "tx"
      /\ \A r \in ccRegs : want[r].kind = "cc"
      /\ \A r \in Regs : want[r].kind \in {"block", "filtered", "tx", "cc"}
  BY DEF Shape, TypeOK, Holders, Lists
<1>4. txRegs = {r \in Held : want[r].kind = "tx"} /\ ccRegs = {r \in Held : want[r].kind = "cc"}
  BY <1>3 DEF Held
<1> QED
  BY <1>1, <1>2, <1>3, <1>4

\* What is left in the queue when an event has been taken.
LEMMA TailOnce ==
  ASSUME Shape, QueuedOnce, NEW type, Handle(type)
  PROVE  /\ \A i \in 1..Len(queue') :
              /\ queue'[i].type = "Register" =>
                   /\ status[queue'[i].reg] = "waiting"
                   /\ type = "Register" => queue'[i].reg # queue[1].reg
              /\ queue'[i].type \in Stops => snap = {} /\ type \notin Stops
         /\ \A i, j \in 1..Len(queue') :
              \/ queue'[i].type = "Register" /\ queue'[j].type = "Register"
                 /\ queue'[i].reg = queue'[j].reg
              \/ queue'[i].type \in Stops /\ queue'[j].type \in Stops
              => i = j
         /\ type = "Register" => status[queue[1].reg] = "waiting"
         /\ type \in Stops => snap = {}
<1>1. /\ queue \in Seq(Events) /\ queue # <<>> /\ queue' = Tail(queue)
      /\ Len(queue) \in Nat \ {0} /\ queue[1].type = type
  BY FirstIsRight DEF Shape, QueueIsRight, Handle
<1>2. /\ Len(queue') = Len(queue) - 1 /\ 1 \in 1..Len(queue)
      /\ \A i \in 1..Len(queue') : /\ queue'[i] = queue[i + 1] /\ i + 1 \in 1..Len(queue)
                                   /\ i + 1 # 1
      /\ \A i, j \in 1..Len(queue') : i + 1 = j + 1 => i = j
  BY <1>1
<1>3. ASSUME NEW i \in 1..Len(queue')
      PROVE  /\ queue'[i].type = "Register" =>
                   /\ status[queue'[i].reg] = "waiting"
                   /\ type = "Register" => queue'[i].reg # queue[1].reg
             /\ queue'[i].type \in Stops => snap = {} /\ type \notin Stops
  BY <1>1, <1>2 DEF QueuedOnce
<1>4. ASSUME NEW i \in 1..Len(queue'), NEW j \in 1..Len(queue'),
             \/ queue'[i].type = "Register" /\ queue'[j].type = "Register"
                /\ queue'[i].reg = queue'[j].reg
             \/ queue'[i].type \in Stops /\ queue'[j].type \in Stops
      PROVE  i = j
  <2>1. i + 1 = j + 1
    BY <1>2, <1>4 DEF QueuedOnce
  <2> QED
    BY <1>2, <2>1
<1> QED
  BY <1>1, <1>2, <1>3, <1>4 DEF QueuedOnce

\* What stays when lists, snapshots and closed channels do.
LEMMA HoldersStay ==
  ASSUME HInv, want' = want, lists' = lists, snap' = snap, closed' = closed,
         status' = status, feed' = feed
  PROVE  /\ Held' = Held /\ Snapped' = Snapped
         /\ Holders' /\ OnePerKey' /\ GrantedIsHeld'
<1>1. /\ blockRegs' = blockRegs /\ filteredRegs' = filteredRegs /\ txRegs' = txRegs
      /\ ccRegs' = ccRegs
  BY DEF lists
<1>2. Held' = Held /\ Snapped' = Snapped
  BY <1>1 DEF Held, Snapped
<1>3. Holders'
  BY <1>1, <1>2 DEF HInv, Holders, Lists
<1>4. OnePerKey'
  BY <1>2 DEF HInv, OnePerKey, OneEach
<1>5. GrantedIsHeld'
  BY <1>2 DEF HInv, GrantedIsHeld
<1> QED
  BY <1>2, <1>3, <1>4, <1>5

\* An event is queued that is neither about a registration that is queued already nor a
\* second request to stop.
LEMMA AppendIsOnce ==
  ASSUME Shape, QueuedOnce, NEW e \in Events, queue' = Append(queue, e), snap' = snap,
         \A i \in 1..Len(queue) :
           queue[i].type = "Register" => status'[queue[i].reg] = "waiting",
         e.type = "Register" =>
           /\ status'[e.reg] = "waiting"
           /\ \A i \in 1..Len(queue) : queue[i].type = "Register" => queue[i].reg # e.reg,
         e.type \in Stops =>
           snap = {} /\ \A i \in 1..Len(queue) : queue[i].type \notin Stops
  PROVE  QueuedOnce'
<1>1. /\ Len(queue) \in Nat /\ Len(queue') = Len(queue) + 1
      /\ \A i \in 1..Len(queue') : \/ i \in 1..Len(queue) /\ queue'[i] = queue[i]
                                   \/ i = Len(queue) + 1 /\ queue'[i] = e
  BY DEF Shape, QueueIsRight
<1>2. ASSUME NEW i \in 1..Len(queue')
      PROVE  /\ queue'[i].type = "Register" => status'[queue'[i].reg] = "waiting"
             /\ queue'[i].type \in Stops => snap' = {}
  BY <1>1 DEF QueuedOnce
<1>3. ASSUME NEW i \in 1..Len(queue'), NEW j \in 1..Len(queue'),
             \/ queue'[i].type = "Register" /\ queue'[j].type = "Register"
                /\ queue'[i].reg = queue'[j].reg
             \/ queue'[i].type \in Stops /\ queue'[j].type \in Stops
      PROVE  i = j
  <2>1. CASE i \in 1..Len(queue) /\ j \in 1..Len(queue) /\ queue'[i] = queue[i]
             /\ queue'[j] = queue[j]
    BY <1>3, <2>1 DEF QueuedOnce
  <2>2. CASE i = Len(queue) + 1 /\ j = Len(queue) + 1
    BY <2>2
  <2>3. CASE i \in 1..Len(queue) /\ queue'[i] = queue[i] /\ queue'[j] = e
    BY <1>3, <2>3
  <2>4. CASE j \in 1..Len(queue) /\ queue'[j] = queue[j] /\ queue'[i] = e
    BY <1>3, <2>4
  <2> QED
    BY <1>1, <2>1, <2>2, <2>3, <2>4
<1> QED
  BY <1>2, <1>3 DEF QueuedOnce

\* The owners' side.
LEMMA OwnersKeepHolders ==
  ASSUME Shape, HInv, \/ Owner \/ Control \/ \E n \in MinBlock..MaxBlock : Feed(n)
                      \/ \E r \in Regs : Read(r)
  PROVE  HInv'
<1> USE DEF block, owners, chans
<1>1. ASSUME NEW r \in Regs, Register(r) PROVE HInv'
  <2>1. /\ lists' = lists /\ snap' = snap /\ closed' = closed /\ want' = want /\ plan' = plan
        /\ feed' = feed /\ state' = state /\ panicked' = panicked
        /\ status[r] = "new" /\ status' = [status EXCEPT ![r] = "waiting"]
        /\ want[r].kind = "block" => feed = "Block"
    BY <1>1 DEF Register, Submit
  <2>2. Held' = Held /\ Snapped' = Snapped /\ r \notin Held \cup Snapped
    BY <2>1 DEF Held, Snapped, lists, HInv, Holders
  <2>3. \A q : q # r => status'[q] = status[q]
    BY <2>1 DEF Shape, TypeOK
  <2>4. status'[r] = "waiting"
    BY <2>1 DEF Shape, TypeOK
  <2>5. Holders'
    BY <2>1, <2>2, <2>3 DEF HInv, Holders, Lists, lists
  <2>6. OnePerKey'
    BY <2>1, <2>2 DEF HInv, OnePerKey, OneEach
  <2>7. QueuedOnce'
    <3>1. /\ Event("Register", r, NoBlock) \in Events
          /\ queue' = Append(queue, Event("Register", r, NoBlock))
      BY <1>1 DEF Events, Event, Register, Submit
    <3>2. \A i \in 1..Len(queue) : queue[i].type = "Register" =>
            queue[i].reg # r /\ status'[queue[i].reg] = "waiting"
      BY <2>1, <2>3 DEF HInv, QueuedOnce
    <3> QED
      BY <2>1, <2>4, <3>1, <3>2, AppendIsOnce DEF HInv, Event, Stops
  <2>8. PublishesToHeld'
    BY <2>1, <2>2 DEF HInv, PublishesToHeld
  <2>9. GrantedIsHeld'
    BY <2>1, <2>2, <2>3, <2>4 DEF HInv, GrantedIsHeld
  <2> QED
    BY <2>1, <2>5, <2>6, <2>7, <2>8, <2>9 DEF HInv
<1>2. ASSUME NEW r \in Regs, Unregister(r) PROVE HInv'
  <2>1. /\ lists' = lists /\ snap' = snap /\ closed' = closed /\ want' = want /\ plan' = plan
        /\ feed' = feed /\ state' = state /\ panicked' = panicked /\ status' = status
    BY <1>2 DEF Unregister, Submit
  <2>2. Event("Unregister", r, NoBlock) \in Events
        /\ queue' = Append(queue, Event("Unregister", r, NoBlock))
    BY <1>2 DEF Events, Event, Unregister, Submit
  <2>3. QueuedOnce'
    BY <2>1, <2>2, AppendIsOnce DEF HInv, QueuedOnce, Event, Stops
  <2> QED
    BY <2>1, <2>3, HoldersStay DEF HInv, PublishesToHeld
<1>3. ASSUME NEW type \in Stops, RequestStop(type) PROVE HInv'
  <2>1. /\ lists' = lists /\ snap' = snap /\ closed' = closed /\ want' = want /\ plan' = plan
        /\ feed' = feed /\ state' = state /\ panicked' = panicked /\ status' = status
    BY <1>3 DEF RequestStop, Submit
  <2>2. Event(type, NoReg, NoBlock) \in Events
        /\ queue' = Append(queue, Event(type, NoReg, NoBlock))
    BY <1>3 DEF Events, Event, RequestStop, Submit
  <2>3. snap = {} /\ \A i \in 1..Len(queue) : queue[i].type \notin Stops
    BY <1>3 DEF RequestStop, Shape, QueueIsRight
  <2>4. QueuedOnce'
    BY <2>1, <2>2, <2>3, AppendIsOnce DEF HInv, QueuedOnce, Event, Stops
  <2> QED
    BY <2>1, <2>4, HoldersStay DEF HInv, PublishesToHeld
<1>4. ASSUME NEW n \in MinBlock..MaxBlock, Feed(n) PROVE HInv'
  <2>1. /\ lists' = lists /\ snap' = snap /\ closed' = closed /\ want' = want /\ plan' = plan
        /\ feed' = feed /\ state' = state /\ panicked' = panicked /\ status' = status
    BY <1>4 DEF Feed, Submit
  <2>2. /\ Event(feed, NoReg, n) \in Events
        /\ queue' = Append(queue, Event(feed, NoReg, n))
        /\ feed \notin {"Register", "Unregister"} \cup Stops
    BY <1>4, ConstantsAssumption DEF Events, Event, Shape, Stops, Feed, Submit
  <2>3. QueuedOnce'
    BY <2>1, <2>2, AppendIsOnce DEF HInv, QueuedOnce, Event, Stops
  <2> QED
    BY <2>1, <2>3, HoldersStay DEF HInv, PublishesToHeld
<1>5. ASSUME NEW r \in Regs, Read(r) PROVE HInv'
  <2>1. /\ lists' = lists /\ snap' = snap /\ closed' = closed /\ want' = want /\ plan' = plan
        /\ feed' = feed /\ state' = state /\ panicked' = panicked /\ status' = status
        /\ queue' = queue
    BY <1>5 DEF Read
  <2> QED
    BY <2>1, HoldersStay DEF HInv, PublishesToHeld, QueuedOnce
<1> QED
  BY <1>1, <1>2, <1>3, <1>4, <1>5 DEF Owner, Control

\* Registering: the registration that was waiting is held, unless its key is taken.
LEMMA RegisterKeepsHolders ==
  ASSUME Shape, HInv, HandleRegister
  PROVE  /\ HInv' /\ Held' \subseteq Held \cup {queue[1].reg}
         /\ status[queue[1].reg] = "waiting"
         /\ \A q \in Regs : status[q] = "registered" => status'[q] = "registered"
<1> DEFINE r == queue[1].reg
<1>1. /\ Handle("Register") /\ Head(queue) = queue[1] /\ r \in Regs
  BY FirstIsRight DEF HandleRegister
<1>2. /\ snap' = snap /\ closed' = closed /\ want' = want /\ plan' = plan /\ plan = <<>>
      /\ feed' = feed /\ state' = state /\ state = "Started" /\ panicked' = panicked
      /\ blockRegs' = (IF want[r].kind = "block" THEN Append(blockRegs, r) ELSE blockRegs)
      /\ filteredRegs' = (IF want[r].kind = "filtered" THEN Append(filteredRegs, r)
                                                      ELSE filteredRegs)
      /\ txRegs' = (IF want[r].kind = "tx" /\ ~Taken(r)
                    THEN {q \in txRegs : want[q].key # want[r].key} \cup {r} ELSE txRegs)
      /\ ccRegs' = (IF want[r].kind = "cc" /\ ~Taken(r)
                    THEN {q \in ccRegs : want[q].key # want[r].key} \cup {r} ELSE ccRegs)
      /\ status' = [status EXCEPT ![r] = IF Taken(r) THEN "refused" ELSE "registered"]
  BY <1>1 DEF HandleRegister, Handle, chans, block
<1>3. /\ status[r] = "waiting" /\ QueuedOnce'
  <2>1. /\ \A i \in 1..Len(queue') : queue'[i].type = "Register" =>
             status[queue'[i].reg] = "waiting" /\ queue'[i].reg # r
        /\ status[r] = "waiting"
        /\ \A i \in 1..Len(queue') : queue'[i].type \in Stops => snap = {}
        /\ \A i, j \in 1..Len(queue') :
              \/ queue'[i].type = "Register" /\ queue'[j].type = "Register"
                 /\ queue'[i].reg = queue'[j].reg
              \/ queue'[i].type \in Stops /\ queue'[j].type \in Stops
              => i = j
    BY <1>1, TailOnce DEF HInv
  <2>2. \A q : q # r => status'[q] = status[q]
    BY <1>2 DEF Shape, TypeOK
  <2> QED
    BY <1>2, <2>1, <2>2 DEF QueuedOnce
<1> HIDE DEF r
<1>4. /\ status'[r] = (IF Taken(r) THEN "refused" ELSE "registered")
      /\ \A q : q # r => status'[q] = status[q]
      /\ status[r] = "waiting" /\ r \notin Held \cup Snapped
  BY <1>1, <1>2, <1>3 DEF Shape, TypeOK, HInv, Holders
<1>5. /\ Held \subseteq Regs /\ Snapped \subseteq Regs
      /\ Range(blockRegs) = {q \in Held : want[q].kind = "block"}
      /\ Range(filteredRegs) = {q \in Held : want[q].kind = "filtered"}
      /\ txRegs = {q \in Held : want[q].kind = "tx"}
      /\ ccRegs = {q \in Held : want[q].kind = "cc"}
      /\ want[r].kind \in {"block", "filtered", "tx", "cc"}
      /\ blockRegs \in Seq(Regs) /\ filteredRegs \in Seq(Regs)
      /\ Once(blockRegs) /\ Once(filteredRegs)
  BY <1>1, ByKind DEF HInv, Holders, Lists, Shape, TypeOK
<1>6. Taken(r) <=> \E q \in Held : want[q].kind \in {"tx", "cc"} /\ want[q].kind = want[r].kind
                                   /\ want[q].key = want[r].key
  BY <1>5 DEF Taken
<1>7. /\ want[r].kind = "block" =>
           Once(blockRegs') /\ Range(blockRegs') = Range(blockRegs) \cup {r}
      /\ want[r].kind # "block" => blockRegs' = blockRegs
      /\ want[r].kind = "filtered" =>
           Once(filteredRegs') /\ Range(filteredRegs') = Range(filteredRegs) \cup {r}
      /\ want[r].kind # "filtered" => filteredRegs' = filteredRegs
  <2>1. r \notin Range(blockRegs) /\ r \notin Range(filteredRegs)
    BY <1>4, <1>5
  <2> QED
    BY <1>1, <1>2, <1>5, <2>1, AppendOnce
<1>8. /\ txRegs' = IF want[r].kind = "tx" /\ ~Taken(r) THEN txRegs \cup {r} ELSE txRegs
      /\ ccRegs' = IF want[r].kind = "cc" /\ ~Taken(r) THEN ccRegs \cup {r} ELSE ccRegs
  BY <1>2, <1>5, <1>6
<1>9. Held' = IF Taken(r) THEN Held ELSE Held \cup {r}
  <2>1. CASE want[r].kind = "block"
    BY <1>5, <1>6, <1>7, <1>8, <2>1 DEF Held
  <2>2. CASE want[r].kind = "filtered"
    BY <1>5, <1>6, <1>7, <1>8, <2>2 DEF Held
  <2>3. CASE want[r].kind \in {"tx", "cc"}
    BY <1>5, <1>6, <1>7, <1>8, <2>3 DEF Held
  <2> QED
    BY <1>5, <2>1, <2>2, <2>3
<1>10. Snapped' = Snapped
  BY <1>2 DEF Snapped
<1>11. Holders'
  <2>1. Once(blockRegs') /\ Range(blockRegs') = {q \in Held' : want[q].kind = "block"}
    BY <1>4, <1>5, <1>6, <1>7, <1>9
  <2>2. Once(filteredRegs') /\ Range(filteredRegs') = {q \in Held' : want[q].kind = "filtered"}
    BY <1>4, <1>5, <1>6, <1>7, <1>9
  <2>3. Lists(blockRegs, filteredRegs, Held)'
    BY <1>2, <2>1, <2>2 DEF Lists
  <2>4. \A s \in snap' : Lists(s.blocks, s.filtered, s.regs)'
    BY <1>2 DEF HInv, Holders, Lists
  <2>5. Held' \cap Snapped' = {}
    BY <1>4, <1>9, <1>10 DEF HInv, Holders
  <2>6. \A q \in Held' \cup Snapped' : status'[q] = "registered" /\ ~closed'[q]
    <3>1. ~Taken(r) => ~closed[r]
      BY <1>1, <1>4 DEF GrantedIsHeld, HInv
    <3> QED
      BY <1>2, <1>4, <1>9, <1>10, <3>1 DEF HInv, Holders
  <2> QED
    BY <2>3, <2>4, <2>5, <2>6 DEF Holders
<1>12. OnePerKey'
  <2>1. OneEach(Held)'
    BY <1>2, <1>5, <1>6, <1>9 DEF HInv, OnePerKey, OneEach
  <2> QED
    BY <1>2, <2>1 DEF HInv, OnePerKey, OneEach
<1>13. PublishesToHeld'
  BY <1>2 DEF PublishesToHeld
<1>14. GrantedIsHeld'
  BY <1>1, <1>2, <1>4, <1>9, <1>10 DEF HInv, GrantedIsHeld
<1>15. HInv'
  BY <1>2, <1>3, <1>11, <1>12, <1>13, <1>14 DEF HInv
<1> QED
  BY <1>4, <1>9, <1>15 DEF r

\* Closing the channels of who is held: none was closed, those and no others are then.
LEMMA ClosesHeld ==
  ASSUME Shape, HInv, NEW rs, rs \subseteq Held \cup Snapped, CloseChans(rs)
  PROVE  /\ ~panicked'
         /\ \A q \in Regs : closed'[q] <=> closed[q] \/ q \in rs
         /\ \A q \in Regs : closed'[q] => status[q] = "registered"
BY DEF CloseChans, HInv, Holders, GrantedIsHeld

\* Unregistering: what is found is no longer held, and closed.
LEMMA UnregisterKeepsHolders ==
  ASSUME Shape, HInv, HandleUnregister
  PROVE  HInv' /\ Held' \subseteq Held
<1> DEFINE r == queue[1].reg
           rs == Found(r)
<1>1. Handle("Unregister") /\ Head(queue) = queue[1] /\ r \in Regs
  BY FirstIsRight DEF HandleUnregister
<1>2. /\ snap' = snap /\ want' = want /\ plan' = plan /\ plan = <<>> /\ status' = status
      /\ feed' = feed /\ state' = state /\ state = "Started"
      /\ CloseChans(rs)
      /\ blockRegs' = Without(blockRegs, r) /\ filteredRegs' = Without(filteredRegs, r)
      /\ txRegs' = txRegs \ rs /\ ccRegs' = ccRegs \ rs
  BY <1>1 DEF HandleUnregister, Handle, owners, block
<1>3. QueuedOnce'
  BY <1>1, <1>2, TailOnce DEF HInv, QueuedOnce
<1> HIDE DEF r
<1>4. /\ Held \subseteq Regs /\ Snapped \subseteq Regs
      /\ Range(blockRegs) = {q \in Held : want[q].kind = "block"}
      /\ Range(filteredRegs) = {q \in Held : want[q].kind = "filtered"}
      /\ txRegs = {q \in Held : want[q].kind = "tx"}
      /\ ccRegs = {q \in Held : want[q].kind = "cc"}
      /\ want[r].kind \in {"block", "filtered", "tx", "cc"}
      /\ blockRegs \in Seq(Regs) /\ filteredRegs \in Seq(Regs)
      /\ Once(blockRegs) /\ Once(filteredRegs)
  BY <1>1, ByKind DEF HInv, Holders, Lists, Shape, TypeOK
<1>5. /\ Once(blockRegs') /\ Range(blockRegs') = Range(blockRegs) \ {r}
      /\ Once(filteredRegs') /\ Range(filteredRegs') = Range(filteredRegs) \ {r}
  BY <1>2, <1>4, WithoutIt
<1>6. /\ rs \subseteq Held
      /\ want[r].kind \in {"tx", "cc"} => \A q \in rs : want[q].kind \in {"tx", "cc"}
      /\ want[r].kind \notin {"tx", "cc"} => rs = Held \cap {r}
  BY <1>4 DEF Found
<1> HIDE DEF rs
<1>7. /\ Range(blockRegs') = Range(blockRegs) \ rs
      /\ Range(filteredRegs') = Range(filteredRegs) \ rs
  BY <1>4, <1>5, <1>6
<1>8. Held' = Held \ rs /\ Snapped' = Snapped
  BY <1>2, <1>4, <1>7 DEF Held, Snapped
<1>9. /\ ~panicked'
      /\ \A q \in Regs : closed'[q] <=> closed[q] \/ q \in rs
      /\ \A q \in Regs : closed'[q] => status[q] = "registered"
  BY <1>2, <1>6, ClosesHeld
<1>10. Holders'
  <2>1. Lists(blockRegs, filteredRegs, Held)'
    BY <1>2, <1>4, <1>5, <1>7, <1>8 DEF Lists
  <2>2. \A s \in snap' : Lists(s.blocks, s.filtered, s.regs)'
    BY <1>2 DEF HInv, Holders, Lists
  <2>3. Held' \cap Snapped' = {}
    BY <1>8 DEF HInv, Holders
  <2>4. \A q \in Held' \cup Snapped' : status'[q] = "registered" /\ ~closed'[q]
    BY <1>2, <1>4, <1>6, <1>8, <1>9 DEF HInv, Holders
  <2> QED
    BY <2>1, <2>2, <2>3, <2>4 DEF Holders
<1>11. OnePerKey'
  BY <1>2, <1>8 DEF HInv, OnePerKey, OneEach
<1>12. PublishesToHeld'
  BY <1>2 DEF PublishesToHeld
<1>13. GrantedIsHeld'
  BY <1>2, <1>8, <1>9 DEF HInv, GrantedIsHeld
<1> QED
  BY <1>3, <1>8, <1>9, <1>10, <1>11, <1>12, <1>13 DEF HInv

\* Stopping and taking a snapshot: who was held is closed, or handed over.
LEMMA StopsKeepHolders ==
  ASSUME Shape, HInv, HandleStop \/ HandleTransfer \/ HandleStopAndTransfer
  PROVE  HInv' /\ Held' = {} /\ Snapped' \subseteq Held
<1>1. /\ \E type \in Stops : Handle(type)
      /\ ClearRegistrations /\ want' = want /\ plan' = plan /\ plan = <<>> /\ status' = status
      /\ feed' = feed
  BY DEF HandleStop, HandleTransfer, HandleStopAndTransfer, Handle, Stops, owners, block
<1>2. /\ snap = {}
      /\ \A i \in 1..Len(queue') : /\ queue'[i].type = "Register" =>
                                        status[queue'[i].reg] = "waiting"
                                   /\ queue'[i].type \notin Stops
      /\ \A i, j \in 1..Len(queue') :
           queue'[i].type = "Register" /\ queue'[j].type = "Register"
             /\ queue'[i].reg = queue'[j].reg => i = j
  BY <1>1, TailOnce DEF HInv
<1>3. QueuedOnce'
  BY <1>1, <1>2 DEF QueuedOnce
<1>4. /\ blockRegs' = <<>> /\ filteredRegs' = <<>> /\ txRegs' = {} /\ ccRegs' = {}
      /\ Range(blockRegs') = {} /\ Range(filteredRegs') = {} /\ Held' = {}
      /\ Once(blockRegs') /\ Once(filteredRegs')
  BY <1>1 DEF ClearRegistrations, Held, Range, Once
<1>5. Lists(blockRegs, filteredRegs, Held)'
  BY <1>4 DEF Lists
<1>6. OneEach(Held)' /\ PublishesToHeld'
  BY <1>1, <1>4 DEF OneEach, PublishesToHeld
<1>7. Snapped = {} /\ Held \subseteq Regs
  BY <1>2, ByKind DEF Snapped, HInv
<1>8. CASE HandleStop
  <2>1. snap' = {} /\ CloseChans(Held)
    BY <1>2, <1>8 DEF HandleStop
  <2>2. /\ ~panicked'
        /\ \A q \in Regs : closed'[q] <=> closed[q] \/ q \in Held
        /\ \A q \in Regs : closed'[q] => status[q] = "registered"
    BY <2>1, ClosesHeld
  <2>3. Snapped' = {}
    BY <2>1 DEF Snapped
  <2>4. Holders'
    BY <1>4, <1>5, <2>1, <2>3 DEF Holders
  <2>5. OnePerKey'
    BY <1>6, <2>1 DEF OnePerKey
  <2>6. GrantedIsHeld'
    BY <1>1, <1>7, <2>2 DEF HInv, GrantedIsHeld
  <2> QED
    BY <1>3, <1>4, <1>6, <2>2, <2>3, <2>4, <2>5, <2>6 DEF HInv
<1>9. CASE HandleTransfer \/ HandleStopAndTransfer
  <2>1. snap' = {Snapshot} /\ closed' = closed /\ panicked' = panicked
    BY <1>9 DEF HandleTransfer, HandleStopAndTransfer, chans
  <2>2. /\ Snapshot.regs = Held /\ Snapshot.blocks = blockRegs
        /\ Snapshot.filtered = filteredRegs
    BY SnapshotIs
  <2> DEFINE s0 == Snapshot
  <2> HIDE DEF s0
  <2>3. Snapped' = Held
    <3>1. snap' = {s0} /\ s0.regs = Held
      BY <2>1, <2>2 DEF s0
    <3> QED
      BY <3>1 DEF Snapped
  <2>4. Holders'
    <3>1. \A s \in snap' : Lists(s.blocks, s.filtered, s.regs)'
      BY <1>1, <2>1, <2>2 DEF HInv, Holders, Lists
    <3>2. \A q \in Held' \cup Snapped' : status'[q] = "registered" /\ ~closed'[q]
      BY <1>1, <1>4, <2>1, <2>3 DEF HInv, Holders
    <3> QED
      BY <1>4, <1>5, <3>1, <3>2 DEF Holders
  <2>5. OnePerKey'
    <3>1. \A s \in snap' : OneEach(s.regs)'
      BY <1>1, <2>1, <2>2 DEF HInv, OnePerKey, OneEach
    <3> QED
      BY <1>6, <3>1 DEF OnePerKey
  <2>6. GrantedIsHeld'
    BY <1>1, <1>7, <2>1, <2>3 DEF HInv, GrantedIsHeld
  <2> QED
    BY <1>3, <1>4, <1>6, <2>1, <2>3, <2>4, <2>5, <2>6 DEF HInv
<1> QED
  BY <1>8, <1>9

\* A new dispatcher holds what the snapshot held, once.
LEMMA SnapshotsKeepHolders ==
  ASSUME Shape, HInv, StartFromSnapshot \/ CloseSnapshot
  PROVE  /\ HInv' /\ Snapped' = {}
         /\ \/ StartFromSnapshot /\ Held' \subseteq Snapped
            \/ CloseSnapshot /\ Held' = Held
<1>1. PICK s \in Snapshots : snap = {s} /\ Snapped = s.regs
  <2>1. PICK s \in Snapshots : snap = {s}
    BY DEF StartFromSnapshot, CloseSnapshot, Shape
  <2>2. Snapped = s.regs
    BY <2>1 DEF Snapped
  <2> QED
    BY <2>1, <2>2
<1>2. /\ Once(s.blocks) /\ Range(s.blocks) = {r \in s.regs : want[r].kind = "block"}
      /\ Once(s.filtered) /\ Range(s.filtered) = {r \in s.regs : want[r].kind = "filtered"}
      /\ OneEach(s.regs)
      /\ s.regs \subseteq Regs
      /\ \A r \in Regs : want[r].kind \in {"block", "filtered", "tx", "cc"}
  BY <1>1, ByKind DEF HInv, Holders, Lists, OnePerKey
<1>3. snap' = {} /\ Snapped' = {}
  BY DEF StartFromSnapshot, CloseSnapshot, Snapped
<1>4. CASE StartFromSnapshot
  <2>1. /\ blockRegs' = s.blocks /\ filteredRegs' = s.filtered
        /\ txRegs' = {r \in s.regs : want[r].kind = "tx"}
        /\ ccRegs' = {r \in s.regs : want[r].kind = "cc"}
        /\ want' = want /\ status' = status /\ feed' = feed /\ plan' = plan
        /\ closed' = closed /\ panicked' = panicked
        /\ state = "Stopped" /\ state' = "Started" /\ queue' = <<>>
    BY <1>1, <1>4 DEF StartFromSnapshot, owners, chans
  <2>2. Held = {} /\ plan = <<>>
    BY <2>1 DEF HInv, PublishesToHeld
  <2>3. Held' = s.regs
    BY <1>2, <2>1 DEF Held
  <2>4. Holders'
    <3>1. Lists(blockRegs, filteredRegs, Held)'
      BY <1>2, <2>1, <2>3 DEF Lists
    <3> QED
      BY <1>1, <1>3, <2>1, <2>3, <3>1 DEF HInv, Holders
  <2>5. OnePerKey'
    BY <1>2, <1>3, <2>1, <2>3 DEF OnePerKey, OneEach
  <2>6. QueuedOnce'
    BY <2>1 DEF QueuedOnce
  <2>7. PublishesToHeld'
    BY <2>1, <2>2 DEF PublishesToHeld
  <2>8. GrantedIsHeld'
    BY <1>1, <2>1, <2>2, <2>3 DEF HInv, GrantedIsHeld
  <2>9. HInv'
    BY <2>1, <2>4, <2>5, <2>6, <2>7, <2>8 DEF HInv
  <2>10. Held' \subseteq Snapped
    BY <1>1, <2>3
  <2> QED
    BY <1>3, <1>4, <2>9, <2>10
<1>5. CASE CloseSnapshot
  <2>1. /\ CloseChans(Snapped) /\ want' = want /\ status' = status /\ feed' = feed
        /\ plan' = plan /\ lists' = lists /\ state' = state /\ queue' = queue
    BY <1>5 DEF CloseSnapshot, owners, block
  <2>2. /\ ~panicked'
        /\ \A q \in Regs : closed'[q] <=> closed[q] \/ q \in Snapped
        /\ \A q \in Regs : closed'[q] => status[q] = "registered"
    BY <2>1, ClosesHeld
  <2>3. Held' = Held /\ Held \subseteq Regs
    BY <2>1, ByKind DEF Held, lists, HInv
  <2>4. Holders'
    <3>1. Lists(blockRegs, filteredRegs, Held)'
      BY <2>1, <2>3 DEF Lists, lists, HInv, Holders
    <3> QED
      BY <1>3, <2>1, <2>2, <2>3, <3>1 DEF HInv, Holders
  <2>5. OnePerKey'
    BY <1>3, <2>1, <2>3 DEF HInv, OnePerKey, OneEach
  <2>6. QueuedOnce'
    BY <1>3, <2>1 DEF HInv, QueuedOnce
  <2>7. PublishesToHeld'
    BY <2>1, <2>3 DEF HInv, PublishesToHeld
  <2>8. GrantedIsHeld'
    BY <1>1, <2>1, <2>2, <2>3 DEF HInv, GrantedIsHeld
  <2> QED
    BY <1>3, <1>5, <2>2, <2>3, <2>4, <2>5, <2>6, <2>7, <2>8 DEF HInv
<1> QED
  BY <1>4, <1>5

\* Blocks are published to who is held, and to nobody else.
LEMMA BlocksKeepHolders ==
  ASSUME Shape, HInv, \/ HandleBlock("Block") \/ HandleBlock("FilteredBlock")
                      \/ \E r \in Regs : PublishTo(r) \/ GiveUpOn(r)
  PROVE  HInv'
<1>1. ASSUME NEW type \in {"Block", "FilteredBlock"}, HandleBlock(type) PROVE HInv'
  <2> DEFINE n == queue[1].num
  <2>1. n \in MinBlock..MaxBlock /\ Head(queue) = queue[1] /\ Handle(type) /\ type = feed
    BY <1>1, FirstIsRight DEF HandleBlock
  <2>2. /\ lists' = lists /\ snap' = snap /\ closed' = closed /\ want' = want
        /\ feed' = feed /\ state' = state /\ panicked' = panicked /\ status' = status
        /\ state = "Started"
    BY <1>1 DEF HandleBlock, Handle, owners, chans
  <2>3. Held' = Held /\ Holders' /\ OnePerKey' /\ GrantedIsHeld'
    BY <2>2, HoldersStay
  <2>4. QueuedOnce'
    BY <2>1, <2>2, TailOnce DEF HInv, QueuedOnce
  <2>5. \A i \in 1..Len(plan') : plan'[i] \subseteq Held
    <3>1. plan' = Publication(type, n) \/ plan' = <<>>
      BY <1>1, <2>1 DEF HandleBlock
    <3>2. \A r \in Held : want[r].kind = "block" => type = "Block"
      BY <2>1, ByKind DEF HInv, Holders, GrantedIsHeld
    <3>3. CASE plan' = Publication(type, n)
      BY <2>1, <3>2, <3>3, PublicationIs DEF HInv
    <3>4. CASE plan' = <<>>
      BY <3>4
    <3> QED
      BY <3>1, <3>3, <3>4
  <2>6. PublishesToHeld'
    BY <2>2, <2>3, <2>5 DEF PublishesToHeld
  <2> QED
    BY <2>2, <2>3, <2>4, <2>6 DEF HInv
<1>2. ASSUME NEW r \in Regs, PublishTo(r) \/ GiveUpOn(r) PROVE HInv'
  <2>1. /\ lists' = lists /\ snap' = snap /\ closed' = closed /\ want' = want
        /\ feed' = feed /\ state' = state /\ status' = status /\ queue' = queue
        /\ Done(r) /\ (panicked' = closed[r] \/ panicked' = panicked)
    BY <1>2 DEF PublishTo, GiveUpOn, owners, chans
  <2>2. Held' = Held /\ Holders' /\ OnePerKey' /\ GrantedIsHeld'
    BY <2>1, HoldersStay
  <2>3. /\ plan # <<>>
        /\ \A i \in 1..Len(plan') : plan'[i] \subseteq Held
        /\ r \in Held
    <3>1. /\ plan # <<>>
          /\ \A j \in 1..Len(plan') : j \in 1..Len(plan) /\ plan'[j] \subseteq plan[j]
          /\ \E i \in 1..Len(plan) : r \in plan[i]
      BY <2>1, DoneIs
    <3> QED
      BY <3>1 DEF HInv, PublishesToHeld
  <2>4. PublishesToHeld'
    BY <2>1, <2>2, <2>3 DEF HInv, PublishesToHeld
  <2>5. ~panicked'
    BY <2>1, <2>3 DEF HInv, Holders
  <2> QED
    BY <2>1, <2>2, <2>4, <2>5 DEF HInv, QueuedOnce
<1> QED
  BY <1>1, <1>2

\* A receiver's channel is open.
LEMMA ReceiversAreOpen ==
  ASSUME Shape, HInv, NEW r \in Regs, PublishTo(r) \/ GiveUpOn(r)
  PROVE  ~closed[r] /\ r \in Held
<1>1. \E i \in 1..Len(plan) : r \in plan[i]
  BY DoneIs DEF PublishTo, GiveUpOn
<1> QED
  BY <1>1 DEF HInv, Holders, PublishesToHeld

-----------------------------------------------------------------------------
(* What is the case of every reachable state.                              *)

\* Nobody is registered at first.
LEMMA InitIs == Init => Shape /\ HInv
<1> SUFFICES ASSUME Init PROVE Shape /\ HInv
  OBVIOUS
<1> USE ConstantsAssumption
<1>1. PICK s \in Setups : want = s.want /\ timeout = s.timeout
  BY DEF Init
<1>2. /\ want \in [Regs -> [kind : {"block", "filtered", "tx", "cc"}, key : Keys,
                            filter : SUBSET Nat, unregisters : Nat]]
      /\ [want |-> want, timeout |-> timeout] \in Setups
  BY <1>1
<1>3. QueueIsRight /\ Len(queue) = 0
  BY DEF Init, QueueIsRight
<1>4. Held = {} /\ Snapped = {} /\ Range(blockRegs) = {} /\ Range(filteredRegs) = {}
  BY DEF Init, Held, Snapped, Range
<1>5. Cardinality(snap) <= 1
  BY OneAtMost DEF Init
<1>6. /\ calls \in [Regs -> Nat] /\ unread \in [Regs -> Nat] /\ sent \in [Regs -> Seq(Nat)]
      /\ joined \in [Regs -> Nat \cup {NoBlock}] /\ closed \in [Regs -> BOOLEAN]
      /\ status \in [Regs -> {"new", "waiting", "registered", "refused"}]
      /\ \A r \in Regs : calls[r] = 0 /\ unread[r] = 0
  BY DEF Init
<1>7. TypeOK
  BY <1>2, <1>3, <1>5, <1>6 DEF Init, TypeOK
<1>8. Shape
  <2>1. /\ plan \in Seq(SUBSET Regs) /\ number \in MinBlock..MaxBlock \cup {MinBlock}
        /\ snap \subseteq Snapshots /\ snap = {} /\ starts \in Nat /\ fed \in Nat
        /\ feed \in {"Block", "FilteredBlock"} /\ panicked \in BOOLEAN
        /\ lastBlock \in MinBlock..MaxBlock \cup {NoBlock}
    <3>1. /\ plan = <<>> /\ number = MinBlock /\ snap = {} /\ starts = 1 /\ fed = MinBlock
          /\ feed \in {"Block", "FilteredBlock"} /\ panicked = FALSE /\ lastBlock = NoBlock
      BY DEF Init
    <3>2. plan \in Seq(SUBSET Regs)
      BY <3>1
    <3>3. number \in MinBlock..MaxBlock \cup {MinBlock} /\ starts \in Nat /\ fed \in Nat
      BY <3>1
    <3>4. lastBlock \in MinBlock..MaxBlock \cup {NoBlock}
      BY <3>1
    <3> QED
      BY <3>1, <3>2, <3>3, <3>4
  <2> QED
    BY <1>2, <1>3, <1>6, <1>7, <2>1 DEF Shape
<1>9. Holders
  BY <1>4 DEF Init, Holders, Lists, Once
<1>10. HInv
  BY <1>3, <1>4, <1>9
  DEF Init, HInv, OnePerKey, OneEach, QueuedOnce, PublishesToHeld, GrantedIsHeld
<1> QED
  BY <1>8, <1>10

\* Steps that change nothing.
LEMMA NothingChanges ==
  ASSUME Shape, HInv, UNCHANGED vars
  PROVE  Shape' /\ HInv'
<1> USE DEF vars, block, owners, chans
<1>1. QueueIsRight'
  BY DEF Shape, QueueIsRight
<1>2. Shape'
  BY <1>1 DEF Shape, TypeOK, lists
<1>3. Holders' /\ OnePerKey' /\ GrantedIsHeld' /\ Held' = Held
  BY HoldersStay
<1> QED
  BY <1>2, <1>3 DEF HInv, QueuedOnce, PublishesToHeld

\* Every step keeps the shape of the state and who holds what.
LEMMA StepKeeps ==
  ASSUME Shape, HInv, [Next]_vars
  PROVE  Shape' /\ HInv'
<1>1. CASE \/ Owner \/ Control \/ \E n \in MinBlock..MaxBlock : Feed(n)
           \/ \E r \in Regs : Read(r)
  BY <1>1, OwnersKeepShape, OwnersKeepHolders
<1>2. CASE HandleRegister \/ HandleUnregister
  BY <1>2, RegistrationsKeepShape, RegisterKeepsHolders, UnregisterKeepsHolders
<1>3. CASE HandleStop \/ HandleTransfer \/ HandleStopAndTransfer
  BY <1>3, StopsKeepShape, StopsKeepHolders
<1>4. CASE HandleBlock("Block") \/ HandleBlock("FilteredBlock")
  BY <1>4, BlocksKeepShape, BlocksKeepHolders
<1>5. CASE \E r \in Regs : PublishTo(r) \/ GiveUpOn(r)
  BY <1>5, ReceiversAreOpen, SendsKeepShape, BlocksKeepHolders
<1>6. CASE StartFromSnapshot \/ CloseSnapshot
  BY <1>6, SnapshotsKeepShape, SnapshotsKeepHolders
<1>7. CASE UNCHANGED vars
  BY <1>7, NothingChanges
<1> QED
  BY <1>1, <1>2, <1>3, <1>4, <1>5, <1>6, <1>7 DEF Next, Handlers

\* Shape and HInv hold of every reachable state.
LEMMA HoldersAlways == Spec => [](Shape /\ HInv)
<1>1. Shape /\ HInv /\ [Next]_vars => (Shape /\ HInv)'
  BY StepKeeps
<1> QED
  BY <1>1, InitIs, PTL DEF Spec

\* The state has the types it is said to have: the receivers of a publication are
\* registrations, queue and channels are not longer than their capacity, nobody
\* unregisters more often than he wants to.
THEOREM TypeCorrect == Spec => []TypeOK
<1>1. Shape => TypeOK
  BY DEF Shape
<1> QED
  BY <1>1, HoldersAlways, PTL

\* No channel is closed twice or sent to after it was closed; who was granted a
\* registration is held by the dispatcher or by the snapshot, and not by both, until
\* the channel is closed.
THEOREM ChannelsAreSound == Spec => [](ChannelsSound /\ NothingLost)
<1>1. HInv => ChannelsSound /\ NothingLost
  BY DEF HInv, Holders, GrantedIsHeld, ChannelsSound, NothingLost
<1> QED
  BY <1>1, HoldersAlways, PTL

\* Unregister closes the channel of the registration it is given, as long as the dispatcher
\* holds it, and of no other.
THEOREM OthersAreSpared == Spec => UnregisterSparesOthers
<1> DEFINE Spares == \A r \in Regs : closed'[r] /\ ~closed[r] /\ snap' = snap /\ queue # <<>>
                       => LET given == Head(queue).reg
                          IN  /\ Head(queue).type = "Unregister"
                              /\ given \in Held \/ want[given].kind \in {"block", "filtered"}
                              => given = r
<1>1. ASSUME Shape, HInv, Next,
             NEW r \in Regs, closed'[r], ~closed[r], snap' = snap, queue # <<>>,
             NEW given, given = Head(queue).reg, Head(queue).type = "Unregister",
             given \in Held \/ want[given].kind \in {"block", "filtered"}
      PROVE  given = r
  <2>1. HandleUnregister
    <3>1. closed' # closed
      BY <1>1
    <3>2. ~HandleStop
      BY <1>1 DEF HandleStop, Handle
    <3>3. ~CloseSnapshot
      BY <1>1 DEF CloseSnapshot
    <3> QED
      BY <1>1, <3>1, <3>2, <3>3
      DEF Next, Owner, Control, Handlers, Register, Unregister, RequestStop, Feed, Read,
          HandleRegister, HandleTransfer, HandleStopAndTransfer, HandleBlock, PublishTo,
          GiveUpOn, StartFromSnapshot, chans
  <2>2. r \in Found(given)
    BY <1>1, <2>1 DEF HandleUnregister, CloseChans
  <2>3. CASE want[given].kind \in {"tx", "cc"}
    <3>1. /\ given \in Held /\ r \in Held
          /\ want[r].kind = want[given].kind /\ want[r].key = want[given].key
      BY <1>1, <2>2, <2>3 DEF Found, Held
    <3> QED
      BY <1>1, <2>3, <3>1 DEF HInv, OnePerKey, OneEach
  <2>4. CASE want[given].kind \notin {"tx", "cc"}
    BY <2>2, <2>4 DEF Found
  <2> QED
    BY <2>3, <2>4
<1>2. Shape /\ HInv /\ [Next]_vars => [Spares]_vars
  BY <1>1
<1>3. UnregisterSparesOthers <=> [][Spares]_vars
  BY DEF UnregisterSparesOthers
<1> QED
  BY <1>2, <1>3, HoldersAlways, PTL DEF Spec

-----------------------------------------------------------------------------
(* What is delivered.                                                      *)

\* Where whoever may still be published to was so before, and nothing is published,
\* nothing is missed either.
LEMMA DeliveriesStay ==
  ASSUME DInv, want' = want, timeout' = timeout, handled' = handled, lastBlock' = lastBlock,
         plan' = plan, number' = number, sent' = sent, joined' = joined,
         \A r \in Regs : status[r] = "registered" => status'[r] = "registered",
         Held' \cup (IF state' = "Stopped" THEN Snapped' ELSE {})
           \subseteq Held \cup (IF state = "Stopped" THEN Snapped ELSE {}),
         state' = "Stopped" => \A s \in snap' : s.last = lastBlock
  PROVE  DInv'
<1>1. HandledIsOld'
  BY DEF DInv, HandledIsOld
<1>2. Joins'
  BY DEF DInv, Joins
<1>3. SentIsHandled'
  BY DEF DInv, SentIsHandled
<1>4. NoneMissed'
  <2>1. \A r : Complete(r)' <=> Complete(r)
    BY DEF Complete, Planned, Due, Concerns
  <2> QED
    BY <2>1 DEF DInv, NoneMissed
<1>5. InOrder'
  BY DEF DInv, InOrder
<1> QED
  BY <1>1, <1>2, <1>3, <1>4, <1>5 DEF DInv

\* What owners do, unregistering, stopping and taking a snapshot, and nothing at all.
LEMMA OthersMissNothing ==
  ASSUME Shape, HInv, DInv,
         \/ Owner \/ Control \/ \E n \in MinBlock..MaxBlock : Feed(n)
         \/ \E r \in Regs : Read(r)
         \/ HandleUnregister \/ HandleStop \/ HandleTransfer \/ HandleStopAndTransfer
         \/ CloseSnapshot \/ UNCHANGED vars
  PROVE  DInv'
<1> USE DEF block, owners, chans
<1>1. CASE \/ Owner \/ Control \/ \E n \in MinBlock..MaxBlock : Feed(n)
           \/ \E r \in Regs : Read(r)
           \/ UNCHANGED vars
  <2>1. /\ want' = want /\ timeout' = timeout /\ lists' = lists /\ block' = block
        /\ snap' = snap /\ sent' = sent /\ joined' = joined /\ state' = state
    BY <1>1 DEF Owner, Control, Register, Unregister, RequestStop, Feed, Read,
       Submit, vars
  <2>2. \A r \in Regs : status[r] = "registered" => status'[r] = "registered"
    BY <1>1 DEF Owner, Control, Register, Unregister, RequestStop, Feed, Read, vars,
       Shape, TypeOK
  <2>3. Held' = Held /\ Snapped' = Snapped
    BY <2>1 DEF lists, Held, Snapped
  <2> QED
    BY <2>1, <2>2, <2>3, DeliveriesStay DEF DInv, HandledIsOld
<1>2. CASE HandleUnregister
  <2>1. Held' \subseteq Held
    BY <1>2, UnregisterKeepsHolders
  <2>2. Snapped' = Snapped /\ state' = "Started"
    BY <1>2 DEF HandleUnregister, Handle, Snapped
  <2> QED
    BY <1>2, <2>1, <2>2, DeliveriesStay DEF HandleUnregister, CloseChans
<1>3. CASE HandleStop
  <2>1. Held' = {} /\ Snapped' \subseteq Held
    BY <1>3, StopsKeepHolders
  <2>2. snap' = {}
    BY <1>3, TailOnce DEF HandleStop, HInv, Stops
  <2> QED
    BY <1>3, <2>1, <2>2, DeliveriesStay DEF HandleStop, CloseChans
<1>4. CASE HandleTransfer \/ HandleStopAndTransfer
  <2>1. Held' = {} /\ Snapped' \subseteq Held
    BY <1>4, StopsKeepHolders
  <2>2. \A s \in snap' : s.last = lastBlock
    BY <1>4, SnapshotIs DEF HandleTransfer, HandleStopAndTransfer
  <2> QED
    BY <1>4, <2>1, <2>2, DeliveriesStay DEF HandleTransfer, HandleStopAndTransfer
<1>5. CASE CloseSnapshot
  <2>1. Held' = Held /\ Snapped' = {}
    BY <1>5, SnapshotsKeepHolders DEF StartFromSnapshot, CloseSnapshot, HInv,
       PublishesToHeld
  <2> QED
    BY <1>5, <2>1, DeliveriesStay DEF CloseSnapshot, CloseChans
<1> QED
  BY <1>1, <1>2, <1>3, <1>4, <1>5

\* A new dispatcher goes on behind the last block of the old one, unless that is block 0.
LEMMA StartMissesNothing ==
  ASSUME Shape, HInv, DInv, MinBlock # 0, StartFromSnapshot
  PROVE  DInv'
<1>1. Snapped' = {} /\ Held' \subseteq Snapped
  BY SnapshotsKeepHolders DEF StartFromSnapshot, CloseSnapshot, HInv, PublishesToHeld
<1>2. lastBlock' = lastBlock
  <2>1. PICK s \in snap : lastBlock' = IF s.last = 0 THEN NoBlock ELSE s.last
    BY DEF StartFromSnapshot
  <2>2. s.last = lastBlock
    BY <2>1 DEF StartFromSnapshot, DInv, HandledIsOld
  <2>3. lastBlock # 0
    BY ConstantsAssumption DEF Shape
  <2> QED
    BY <2>1, <2>2, <2>3
<1> QED
  BY <1>1, <1>2, DeliveriesStay DEF StartFromSnapshot, owners, chans

\* Whoever registers has missed nothing yet.
LEMMA RegisterMissesNothing ==
  ASSUME Shape, HInv, DInv, HandleRegister
  PROVE  DInv'
<1>1. PICK r \in Regs : r = queue[1].reg
  BY FirstIsRight DEF HandleRegister
<1>2. /\ Held' \subseteq Held \cup {r} /\ status[r] = "waiting"
      /\ \A q \in Regs : status[q] = "registered" => status'[q] = "registered"
  BY <1>1, RegisterKeepsHolders
<1>3. Head(queue).reg = r /\ r \in Regs /\ Handle("Register")
  BY <1>1, FirstIsRight DEF HandleRegister
<1>4. /\ want' = want /\ timeout' = timeout /\ handled' = handled /\ lastBlock' = lastBlock
      /\ plan' = plan /\ plan = <<>> /\ number' = number /\ sent' = sent /\ snap' = snap
      /\ state' = "Started"
      /\ joined' = [joined EXCEPT ![r] = lastBlock]
  BY <1>3 DEF HandleRegister, Handle, block, chans
<1>5. /\ joined'[r] = lastBlock /\ \A q \in Regs : q # r => joined'[q] = joined[q]
      /\ sent[r] = <<>>
  BY <1>2, <1>3, <1>4 DEF Shape, DInv, Joins
<1>6. HandledIsOld'
  BY <1>4 DEF DInv, HandledIsOld
<1>7. Joins'
  <2>1. lastBlock # NoBlock => lastBlock \in Nat
    BY ConstantsAssumption DEF Shape
  <2>2. lastBlock # NoBlock => lastBlock <= lastBlock
    BY <2>1
  <2> QED
    BY <1>2, <1>3, <1>4, <1>5, <2>2 DEF DInv, Joins
<1>8. SentIsHandled'
  BY <1>4 DEF DInv, SentIsHandled
<1>9. NoneMissed'
  <2>1. ASSUME NEW q \in Held', q # r, timeout = "zero" PROVE Complete(q)'
    <3>1. q \in Held /\ q \in Regs
      BY <1>2, <2>1, ByKind DEF HInv
    <3>2. Complete(q)
      BY <2>1, <3>1 DEF DInv, NoneMissed
    <3>3. joined'[q] = joined[q]
      BY <1>5, <2>1, <3>1
    <3> QED
      BY <1>4, <3>2, <3>3 DEF Complete, Planned, Due, Concerns
  <2>2. Complete(r)'
    <3>1. Range(sent[r]) = {} /\ ~Planned(r)'
      BY <1>4, <1>5 DEF Range, Planned
    <3>2. \A n \in handled : ~(lastBlock = NoBlock \/ n > lastBlock)
      <4>1. \A n \in handled : n \in Nat
        BY ConstantsAssumption DEF Shape, TypeOK
      <4>2. \A n \in handled : lastBlock # NoBlock /\ n <= lastBlock
        BY DEF DInv, HandledIsOld
      <4>3. lastBlock # NoBlock => lastBlock \in Nat
        BY ConstantsAssumption DEF Shape
      <4> QED
        BY <4>1, <4>2, <4>3
    <3>3. Due(r)' = {}
      BY <1>4, <1>5, <3>2 DEF Due
    <3> QED
      BY <1>4, <3>1, <3>3 DEF Complete
  <2> QED
    BY <1>4, <2>1, <2>2 DEF NoneMissed
<1>10. InOrder'
  BY <1>4 DEF DInv, InOrder
<1> QED
  BY <1>6, <1>7, <1>8, <1>9, <1>10 DEF DInv

\* A block that is handled is newer than all that were, and goes to whom it concerns.
LEMMA BlockMissesNothing ==
  ASSUME Shape, HInv, DInv, NEW type \in {"Block", "FilteredBlock"}, HandleBlock(type)
  PROVE  DInv'
<1>1. PICK n \in MinBlock..MaxBlock : n = Head(queue).num /\ Handle(type) /\ type = feed
  BY FirstIsRight DEF HandleBlock
<1>2. /\ want' = want /\ timeout' = timeout /\ snap' = snap /\ sent' = sent /\ joined' = joined
      /\ lists' = lists /\ status' = status /\ state' = state /\ state = "Started"
      /\ plan = <<>>
      /\ lastBlock' = (IF Newer(n) THEN n ELSE lastBlock)
      /\ number' = (IF Newer(n) /\ ~skipNext THEN n ELSE number)
      /\ plan' = (IF Newer(n) /\ ~skipNext THEN Publication(type, n) ELSE <<>>)
      /\ handled' = (IF Newer(n) /\ ~skipNext THEN handled \cup {n} ELSE handled)
  BY <1>1 DEF HandleBlock, Handle, owners, chans
<1>3. /\ n \in Nat /\ n # NoBlock /\ lastBlock \in Nat \cup {NoBlock}
      /\ \A m \in handled : m \in Nat
      /\ \A q \in Regs : joined[q] \in Nat \cup {NoBlock}
      /\ sent \in [Regs -> Seq(Nat)]
  BY <1>1, ConstantsAssumption DEF Shape, TypeOK
<1>4. Held' = Held /\ Held \subseteq Regs
  BY <1>2, ByKind DEF lists, Held, HInv
<1>5. /\ Newer(n) => lastBlock' = n
      /\ Newer(n) => \A m \in handled : m < n
      /\ Newer(n) => \A q \in Regs : joined[q] # NoBlock => joined[q] < n
  BY <1>2, <1>3 DEF Newer, DInv, HandledIsOld, Joins
<1>6. CASE ~(Newer(n) /\ ~skipNext)
  <2>1. plan' = plan /\ number' = number /\ handled' = handled
    BY <1>2, <1>6
  <2>2. HandledIsOld'
    <3>1. CASE Newer(n)
      BY <1>2, <1>3, <1>5, <2>1, <3>1 DEF HandledIsOld
    <3>2. CASE ~Newer(n)
      BY <1>2, <2>1, <3>2 DEF DInv, HandledIsOld
    <3> QED
      BY <3>1, <3>2
  <2>3. Joins'
    <3>1. CASE Newer(n)
      BY <1>2, <1>3, <1>5, <3>1 DEF DInv, Joins
    <3>2. CASE ~Newer(n)
      BY <1>2, <3>2 DEF DInv, Joins
    <3> QED
      BY <3>1, <3>2
  <2>4. SentIsHandled'
    BY <1>2, <2>1 DEF DInv, SentIsHandled
  <2>5. NoneMissed'
    <3>1. \A q : Complete(q)' <=> Complete(q)
      BY <1>2, <2>1 DEF Complete, Planned, Due, Concerns
    <3> QED
      BY <1>2, <1>4, <3>1 DEF DInv, NoneMissed
  <2>6. InOrder'
    BY <1>2 DEF DInv, InOrder
  <2> QED
    BY <2>2, <2>3, <2>4, <2>5, <2>6 DEF DInv
<1>7. CASE Newer(n) /\ ~skipNext
  <2>1. /\ plan' = Publication(type, n) /\ number' = n /\ handled' = handled \cup {n}
        /\ lastBlock' = n
    BY <1>2, <1>7
  <2>2. /\ plan' \in Seq(SUBSET Regs)
        /\ \A i \in 1..Len(plan') : plan'[i] \subseteq Held
        /\ \A q \in Held : (\E i \in 1..Len(plan') : q \in plan'[i]) <=> Concerns(q, n)
        /\ \A q \in Held : want[q].kind \in {"block", "filtered"} =>
             \A i, j \in 1..Len(plan') : q \in plan'[i] /\ q \in plan'[j] => i = j
    <3>1. \A q \in Held : want[q].kind = "block" => type = "Block"
      BY <1>1, <1>4 DEF HInv, Holders, GrantedIsHeld
    <3> QED
      BY <2>1, <3>1, PublicationIs DEF HInv
  <2>3. HandledIsOld'
    BY <1>2, <1>3, <1>5, <1>7, <2>1 DEF HandledIsOld
  <2>4. Joins'
    BY <1>2, <1>3, <1>5, <1>7, <2>1 DEF DInv, Joins
  <2>5. SentIsHandled'
    <3>1. ASSUME NEW q \in Regs PROVE Range(sent[q]) \subseteq handled'
      BY <2>1 DEF DInv, SentIsHandled
    <3>2. ASSUME NEW q \in Regs, NEW k \in 1..Len(sent[q]) PROVE sent[q][k] < n
      <4>1. sent[q][k] \in Range(sent[q])
        BY <1>3 DEF Range
      <4> QED
        BY <1>5, <1>7, <4>1 DEF DInv, SentIsHandled
    <3> QED
      BY <1>2, <2>1, <2>2, <3>1, <3>2 DEF SentIsHandled
  <2>6. NoneMissed'
    <3>1. ASSUME NEW q \in Held, timeout = "zero" PROVE Complete(q)'
      <4>1. Range(sent[q]) = Due(q)
        <5>1. Complete(q) /\ ~Planned(q)
          BY <1>2, <3>1 DEF DInv, NoneMissed, Planned
        <5> QED
          BY <5>1 DEF Complete
      <4>2. Due(q)' = Due(q) \cup {m \in {n} : Concerns(q, n)}
        <5>1. joined[q] = NoBlock \/ n > joined[q]
          BY <1>3, <1>4, <1>5, <1>7, <3>1
        <5>2. \A m : Concerns(q, m)' <=> Concerns(q, m)
          BY <1>2 DEF Concerns
        <5> QED
          BY <1>2, <2>1, <5>1, <5>2 DEF Due
      <4>3. Planned(q)' <=> Concerns(q, n)
        BY <2>2, <3>1 DEF Planned
      <4> QED
        BY <1>2, <2>1, <4>1, <4>2, <4>3 DEF Complete
    <3> QED
      BY <1>2, <1>4, <3>1 DEF NoneMissed
  <2>7. InOrder'
    BY <1>2 DEF DInv, InOrder
  <2> QED
    BY <2>3, <2>4, <2>5, <2>6, <2>7 DEF DInv
<1> QED
  BY <1>6, <1>7

\* A block that is sent is the newest the listener gets, and no longer due.
LEMMA SendsMissNothing ==
  ASSUME Shape, HInv, DInv, NEW r \in Regs, PublishTo(r) \/ GiveUpOn(r)
  PROVE  DInv'
<1>1. /\ want' = want /\ timeout' = timeout /\ snap' = snap /\ joined' = joined
      /\ lists' = lists /\ status' = status /\ state' = state /\ handled' = handled
      /\ lastBlock' = lastBlock /\ number' = number /\ Done(r)
  BY DEF PublishTo, GiveUpOn, owners
<1>2. /\ plan # <<>> /\ Planned(r) /\ r \in Held /\ Held' = Held
      /\ \A q : q # r => (Planned(q)' <=> Planned(q))
      /\ \A j \in 1..Len(plan') : j \in 1..Len(plan) /\ plan'[j] \subseteq plan[j]
      /\ want[r].kind \in {"block", "filtered"} => ~Planned(r)'
      /\ state = "Started" \/ Held = {}
  <2>1. /\ plan # <<>>
        /\ \A j \in 1..Len(plan') : j \in 1..Len(plan) /\ plan'[j] \subseteq plan[j]
    BY <1>1, DoneIs
  <2>2. PICK i \in 1..Len(plan) :
          /\ r \in plan[i] /\ (i \in 1..Len(plan') => r \notin plan'[i])
          /\ \A q : \A j \in 1..Len(plan) : q \in plan[j] /\ ~(q = r /\ j = i) =>
               j \in 1..Len(plan') /\ q \in plan'[j]
    BY <1>1, DoneIs
  <2>3. Planned(r) /\ \A q : q # r => (Planned(q)' <=> Planned(q))
    BY <2>1, <2>2 DEF Planned
  <2>4. want[r].kind \in {"block", "filtered"} => ~Planned(r)'
    BY <2>1, <2>2 DEF Planned, DInv, SentIsHandled
  <2>5. r \in Held /\ Held' = Held
    BY <1>1, ReceiversAreOpen DEF lists, Held
  <2>6. state = "Started" \/ Held = {}
    BY DEF Shape, TypeOK, HInv, PublishesToHeld
  <2> QED
    BY <2>1, <2>3, <2>4, <2>5, <2>6
<1>3. /\ number \in Nat /\ number \in handled
      /\ sent \in [Regs -> Seq(Nat)]
  BY <1>2, ConstantsAssumption DEF Shape, DInv, HandledIsOld
<1>4. HandledIsOld'
  BY <1>1, <1>2 DEF DInv, HandledIsOld
<1>5. CASE GiveUpOn(r)
  <2>1. sent' = sent /\ timeout # "zero"
    BY <1>5 DEF GiveUpOn, chans
  <2>2. Joins' /\ InOrder'
    BY <1>1, <2>1 DEF DInv, Joins, InOrder
  <2>3. SentIsHandled'
    BY <1>1, <1>2, <2>1 DEF DInv, SentIsHandled
  <2>4. NoneMissed'
    BY <1>1, <2>1 DEF NoneMissed
  <2> QED
    BY <1>4, <2>2, <2>3, <2>4 DEF DInv
<1>6. CASE PublishTo(r)
  <2>1. sent' = [sent EXCEPT ![r] = Append(sent[r], number)]
    BY <1>6 DEF PublishTo
  <2>2. /\ \A q \in Regs : q # r => sent'[q] = sent[q]
        /\ Len(sent[r]) \in Nat /\ Len(sent'[r]) = Len(sent[r]) + 1
        /\ DOMAIN sent[r] = 1..Len(sent[r]) /\ DOMAIN sent'[r] = 1..Len(sent'[r])
        /\ \A k \in 1..Len(sent[r]) : sent'[r][k] = sent[r][k]
        /\ sent'[r][Len(sent[r]) + 1] = number
    <3>1. sent'[r] = Append(sent[r], number) /\ sent[r] \in Seq(Nat)
      BY <1>3, <2>1
    <3> QED
      BY <1>3, <2>1, <3>1
  <2>3. Range(sent'[r]) = Range(sent[r]) \cup {number}
    BY <2>2 DEF Range
  <2>4. Joins'
    BY <1>1, <1>2, <2>2 DEF DInv, Joins, HInv, Holders
  <2>5. SentIsHandled'
    <3>1. ASSUME NEW q \in Regs PROVE Range(sent'[q]) \subseteq handled
      BY <1>3, <2>2, <2>3 DEF DInv, SentIsHandled
    <3>2. ASSUME NEW q \in Regs, want[q].kind \in {"block", "filtered"},
                 NEW i \in 1..Len(plan'), q \in plan'[i]
          PROVE  /\ \A k \in 1..Len(sent'[q]) : sent'[q][k] < number
                 /\ \A j \in 1..Len(plan') : q \in plan'[j] => i = j
      <4>1. q # r
        BY <1>2, <3>2 DEF Planned
      <4>2. sent'[q] = sent[q] /\ i \in 1..Len(plan) /\ q \in plan[i]
        BY <1>2, <2>2, <3>2, <4>1
      <4> QED
        BY <1>2, <3>2, <4>2 DEF DInv, SentIsHandled
    <3> QED
      BY <1>1, <3>1, <3>2 DEF SentIsHandled
  <2>6. NoneMissed'
    <3>1. ASSUME NEW q \in Held, timeout = "zero" PROVE Complete(q)'
      <4>1. Complete(q) /\ Due(q)' = Due(q) /\ q \in Regs
        BY <1>1, <3>1, ByKind DEF DInv, NoneMissed, Due, Concerns, HInv
      <4>2. CASE q = r
        BY <1>1, <1>2, <2>3, <4>1, <4>2 DEF Complete
      <4>3. CASE q # r
        BY <1>1, <1>2, <2>2, <4>1, <4>3 DEF Complete
      <4> QED
        BY <4>2, <4>3
    <3> QED
      BY <1>1, <1>2, <3>1 DEF NoneMissed
  <2>7. InOrder'
    <3>1. ASSUME want[r].kind \in {"block", "filtered"},
                 NEW i \in DOMAIN sent'[r], NEW j \in DOMAIN sent'[r], i < j
          PROVE  sent'[r][i] < sent'[r][j]
      <4>1. i \in 1..Len(sent[r]) /\ sent'[r][i] = sent[r][i] /\ sent[r][i] < number
        <5>1. i \in 1..Len(sent[r])
          BY <2>2, <3>1
        <5> QED
          BY <1>2, <2>2, <3>1, <5>1 DEF Planned, DInv, SentIsHandled
      <4>2. CASE j = Len(sent[r]) + 1
        BY <2>2, <4>1, <4>2
      <4>3. CASE j # Len(sent[r]) + 1
        <5>1. j \in 1..Len(sent[r])
          BY <2>2, <4>3
        <5> QED
          BY <2>2, <3>1, <4>1, <5>1 DEF DInv, InOrder
      <4> QED
        BY <4>2, <4>3
    <3> QED
      BY <1>1, <2>2, <3>1 DEF DInv, InOrder
  <2> QED
    BY <1>4, <2>4, <2>5, <2>6, <2>7 DEF DInv
<1> QED
  BY <1>5, <1>6

\* If the feed begins behind block 0, whose number a new dispatcher does not take over: every
\* registration has one holder and an open channel until it is closed, a listener gets
\* blocks in their order and none twice, and where the dispatcher waits for its
\* consumers nobody misses a block that concerns him.
THEOREM DeliveryIsSound == ASSUME MinBlock # 0 PROVE Spec => []DeliverySound
<1>1. Init => DInv
  <2> SUFFICES ASSUME Init PROVE DInv
    OBVIOUS
  <2>1. /\ handled = {} /\ plan = <<>> /\ state = "Started" /\ Held = {}
        /\ \A r \in Regs : sent[r] = <<>> /\ joined[r] = NoBlock
    BY DEF Init, Held, Range
  <2>2. HandledIsOld /\ Joins
    BY <2>1 DEF HandledIsOld, Joins
  <2>3. SentIsHandled /\ NoneMissed /\ InOrder
    BY <2>1 DEF SentIsHandled, NoneMissed, InOrder, Range
  <2> QED
    BY <2>2, <2>3 DEF DInv
<1>2. Shape /\ HInv /\ DInv /\ [Next]_vars => DInv'
  <2> SUFFICES ASSUME Shape, HInv, DInv, [Next]_vars PROVE DInv'
    OBVIOUS
  <2>1. CASE \/ Owner \/ Control \/ \E n \in MinBlock..MaxBlock : Feed(n)
             \/ \E r \in Regs : Read(r)
             \/ HandleUnregister \/ HandleStop \/ HandleTransfer \/ HandleStopAndTransfer
             \/ CloseSnapshot \/ UNCHANGED vars
    BY <2>1, OthersMissNothing
  <2>2. CASE HandleRegister
    BY <2>2, RegisterMissesNothing
  <2>3. CASE HandleBlock("Block") \/ HandleBlock("FilteredBlock")
    BY <2>3, BlockMissesNothing
  <2>4. CASE \E r \in Regs : PublishTo(r) \/ GiveUpOn(r)
    BY <2>4, SendsMissNothing
  <2>5. CASE StartFromSnapshot
    BY <2>5, StartMissesNothing
  <2> QED
    BY <2>1, <2>2, <2>3, <2>4, <2>5 DEF Next, Handlers
<1>3. Shape /\ HInv /\ DInv => DeliverySound
  <2> SUFFICES ASSUME Shape, HInv, DInv PROVE DeliverySound
    OBVIOUS
  <2>1. ChannelsSound /\ NothingLost /\ InOrder
    BY DEF HInv, Holders, GrantedIsHeld, DInv, ChannelsSound, NothingLost
  <2>2. NothingMissed
    <3>1. DOMAIN plan = 1..Len(plan)
      BY DEF Shape
    <3>2. ASSUME NEW r \in Held, timeout = "zero" PROVE Complete(r)
      BY <3>2 DEF DInv, NoneMissed
    <3>3. \A r : Due(r) = {n \in handled : /\ lastBlock # NoBlock /\ n <= lastBlock
                                           /\ joined[r] = NoBlock \/ n > joined[r]
                                           /\ Concerns(r, n)}
      BY DEF Due, DInv, HandledIsOld
    <3> QED
      BY <3>1, <3>2, <3>3 DEF NothingMissed, Complete, Planned
  <2> QED
    BY <2>1, <2>2 DEF DeliverySound
<1> QED
  BY <1>1, <1>2, <1>3, HoldersAlways, PTL DEF Spec

=============================================================================
