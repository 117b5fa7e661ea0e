------------------------------ MODULE Transactions ------------------------------
(***************************************************************************)
(* How a transaction is put together (pkg/fab/txn, and what it takes of    *)
(* protoutil), and how the browser of a channel takes it apart again       *)
(* (pkg/util/chn_browse_util).                                             *)
(*                                                                         *)
(* One client makes one transaction after the other. Another reads the     *)
(* chain from its newest block back, each block from any peer, while the   *)
(* chain grows; it keeps the newest block it was told of, and asks for     *)
(* what is newer the next time. Peers and orderers are external: a peer    *)
(* may endorse something else than the others, lag behind, or fail.        *)
(***************************************************************************)
EXTENDS Naturals, FiniteSets, Sequences

CONSTANTS
  Peers,
  Users, WithUnit,     \* the users, and those whose certificate names a unit
  Requests,            \* [cc, fcn, args, transient]
  System,              \* the names of IsSysCC
  MaxTransactions, MaxBlocks, MaxCounts, MaxBrowses, MaxFaults, None

TransactionAssumption ==
  /\ {MaxTransactions, MaxBlocks, MaxCounts, MaxBrowses, MaxFaults} \subseteq Nat
  /\ MaxBlocks # 0 /\ None # "ok"

VARIABLES
  work,      \* the transaction in the making: at, header, payload, answers
  asked,     \* the requests so far, <<user, request>>, by their nonce
  chain,     \* the blocks, each a transaction
  heights,   \* how many of them each peer has
  browse,    \* at, kind and limit (of the configuration), height, next (the block to
             \* read), count, told (newest first), known (the newest block of the last
             \* time), result
  counts     \* browses, faults: to their bounds

vars == <<work, asked, chain, heights, browse, counts>>

NoWork == [at |-> "idle", header |-> None, payload |-> None, answers |-> None]
\* The first block is a configuration; who creates a channel need not say who it is.
Config(creator) == [kind |-> "config", creator |-> creator]
NoBrowse == [at |-> "idle", kind |-> 0, limit |-> 0, height |-> 0, next |-> 0, count |-> 0,
             told |-> <<>>, known |-> 0, result |-> None]
Init ==
  /\ work = NoWork /\ asked = <<>> /\ browse = NoBrowse
  /\ chain \in {<<Config(creator)>> : creator \in {None} \cup WithUnit}
  /\ heights = [p \in Peers |-> 1] /\ counts = [browses |-> 0, faults |-> 0]

Fault == counts.faults < MaxFaults /\ counts' = [counts EXCEPT !.faults = @ + 1]

-----------------------------------------------------------------------------
(* A transaction is made                                                   *)

\* NewHeader: the hash of a new nonce and of the creator
TxnID(nonce, creator) == <<nonce, creator>>
\* slip: the arguments without the function
InputOfArgs(r) == [cc |-> r.cc, args |-> r.args]
Input(r) == [cc |-> r.cc, args |-> <<r.fcn>> \o r.args]

\* A proposal without a chaincode or a function is refused.
Propose(u, r) ==
  /\ work.at = "idle" /\ Len(asked) < MaxTransactions /\ asked' = Append(asked, <<u, r>>)
  /\ work' = IF r.cc = None \/ r.fcn = None THEN work
             ELSE [at |-> "proposed", answers |-> <<>>,
                   header |-> [id |-> TxnID(Len(asked) + 1, u), creator |-> u, cc |-> r.cc],
                   payload |-> [input |-> Input(r), transient |-> r.transient]]
  /\ UNCHANGED <<chain, heights, browse, counts>>

\* What goes into the transaction of the payload of the proposal. 
\* slip: all of it
Everything(payload) == payload
ForTx(payload) == [payload EXCEPT !.transient = None]
\* What is endorsed: the hash of the header and of what goes into the transaction
\* (GetProposalHash1; GetProposalHash2 takes the payload as it is), and the results
Hash(header, payload) == <<header, payload>>
Writes == {"its own", "of the system"}
Answer(hash, writes) == [hash |-> hash, writes |-> writes]
Endorse(p, status, writes) ==
  /\ work.at = "proposed" /\ p \notin {work.answers[i].by : i \in DOMAIN work.answers}
  /\ \/ status = 200 /\ writes = Writes /\ UNCHANGED counts
     \/ (status # 200 \/ writes # Writes) /\ Fault
  /\ work' = [work EXCEPT !.answers = Append(@,
       [by |-> p, status |-> status,
        signed |-> Answer(Hash(work.header, [work.payload EXCEPT !.transient = None]), writes)])]
  /\ UNCHANGED <<asked, chain, heights, browse>>

\* New: an answer at least, none that is not successful; the payload of the first one
Made ==
  [kind |-> "invoke", header |-> work.header, payload |-> ForTx(work.payload),
   answer |-> work.answers[1].signed,
   endorsements |-> {<<a.by, a.signed>> : a \in {work.answers[i] : i \in DOMAIN work.answers}}]
New ==
  /\ work.at = "proposed" /\ UNCHANGED <<asked, chain, heights, browse, counts>>
  /\ work' = IF \/ work.answers = <<>>
                \/ \E i \in DOMAIN work.answers : work.answers[i].status \notin 200 .. 399
             THEN NoWork ELSE [work EXCEPT !.at = "made"]
\* Send, with the header of the proposal: once, or more often when an orderer fails
Send ==
  /\ work.at = "made" /\ UNCHANGED <<asked, heights, browse>>
  /\ \/ chain' = Append(chain, Made) /\ work' = NoWork /\ UNCHANGED counts
     \/ Fault /\ chain' = Append(chain, Made) /\ UNCHANGED work
     \/ Fault /\ work' = NoWork /\ UNCHANGED chain
  /\ Len(chain') <= MaxBlocks

\* A peer gets the next block.
Deliver(p) ==
  /\ heights[p] < Len(chain) /\ heights' = [heights EXCEPT ![p] = @ + 1]
  /\ UNCHANGED <<work, asked, chain, browse, counts>>
\* What the committing peers say of a transaction: everyone signed what it has, for the
\* header and the payload it has; and it was not there before.
Valid(n) ==
  LET tx == chain[n] IN
  \/ tx.kind = "config"
  \/ /\ \A e \in tx.endorsements : e[2] = tx.answer
     /\ tx.answer.hash = Hash(tx.header, tx.payload)
     /\ \A m \in 2 .. n - 1 : chain[m].header.id # tx.header.id

-----------------------------------------------------------------------------
(* The chain is read                                                       *)

\* The kinds of limit of BrowseChannelConfig
ByCount == 0
ByHash == 1
ByNumber == 2
\* QueryInfo of any peer. The caller names the newest block it knows, by its hash or its
\* number. Blocks are numbered from 1 here: a number that is not given is that of the first.
Begin(p, kind, limit) ==
  /\ browse.at = "idle" /\ counts.browses < MaxBrowses
  /\ counts' = [counts EXCEPT !.browses = @ + 1]
  /\ \/ kind = ByCount /\ limit \in 0 .. MaxCounts
     \/ kind = ByHash /\ limit = browse.known /\ limit > 0
     \/ kind = ByNumber /\ limit \in {1, browse.known} /\ limit > 0
  /\ browse' = [NoBrowse EXCEPT !.at = "reading", !.kind = kind, !.limit = limit,
                                !.height = heights[p], !.next = heights[p],
                                !.known = browse.known]
  /\ UNCHANGED <<work, asked, chain, heights>>

\* What there is to stop for before a block is read
\* slip: the number that is known is read again
ReachedAfter(b) ==
  \/ b.kind = ByCount /\ b.limit > 0 /\ b.limit < b.count + 1
  \/ b.kind = ByHash /\ b.next = b.limit
  \/ b.kind = ByNumber /\ b.limit > b.next
Reached(b) ==
  \/ b.kind = ByCount /\ b.limit > 0 /\ b.limit < b.count + 1
  \/ b.kind = ByHash /\ b.next = b.limit
  \/ b.kind = ByNumber /\ b.limit >= b.next

\* UnmarshalBlockData, of one transaction. Where no certificate can be read there is an
\* error, and what was read before stays.
Nothing == [id |-> None, by |-> None, cc |-> None, args |-> <<>>, writes |-> {}, type |-> 0,
            error |-> FALSE]
Panics(tx) == tx.kind = "invoke" /\ tx.header.creator \notin WithUnit
TypeOf(cc) == IF cc \in System THEN 2 ELSE 1
Info(tx) ==
  IF tx.kind = "config"
  THEN [Nothing EXCEPT !.by = tx.creator, !.type = IF tx.creator = None THEN 0 ELSE 3,
                       !.error = (tx.creator = None)]
  ELSE [id |-> tx.header.id, by |-> tx.header.creator, cc |-> tx.payload.input.cc,
        args |-> tx.payload.input.args, type |-> TypeOf(tx.payload.input.cc), error |-> FALSE,
        writes |-> tx.answer.writes \ {"of the system"}]

Returns(r) ==
  browse' = [browse EXCEPT !.at = "idle", !.result = r,
               !.known = IF r = "ok" /\ browse.height > @ THEN browse.height ELSE @]
Stop ==
  /\ browse.at = "reading" /\ Reached(browse) /\ Returns("ok")
  /\ UNCHANGED <<work, asked, chain, heights, counts>>
\* QueryBlockByHash of a peer, which may not have the block; the first block has none
\* before it.
Read(p) ==
  /\ browse.at = "reading" /\ ~Reached(browse)
  /\ UNCHANGED <<work, asked, chain, heights, counts>>
  /\ LET tx == chain[browse.next]
         read == [browse EXCEPT !.told = Append(@, Info(tx)), !.count = @ + 1, !.next = @ - 1]
     IN IF heights[p] < browse.next THEN Returns("error")
        ELSE IF Panics(tx) THEN Returns("panic")
        ELSE IF browse.next > 1 THEN browse' = read
        ELSE browse' = [read EXCEPT !.at = "idle", !.result = "ok",
               !.known = IF browse.height > @ THEN browse.height ELSE @]

Next ==
  \/ \E u \in Users, r \in Requests : Propose(u, r)
  \/ \E p \in Peers, status \in {200, 500}, writes \in SUBSET Writes : Endorse(p, status, writes)
  \/ New \/ Send
  \/ \E p \in Peers : Deliver(p) \/ Read(p)
  \/ \E p \in Peers, kind \in 0 .. 2, limit \in 0 .. MaxBlocks : Begin(p, kind, limit)
  \/ Stop
Spec == Init /\ [][Next]_vars

-----------------------------------------------------------------------------
(* Properties                                                              *)

\* The shape of the state.
TypeOK ==
  /\ work.at \in {"idle", "proposed", "made"} /\ asked \in Seq(Users \X Requests)
  /\ Len(chain) \in 1 .. MaxBlocks /\ heights \in [Peers -> 1 .. Len(chain)]
  /\ browse.at \in {"idle", "reading"} /\ browse.kind \in 0 .. 2
  /\ browse.next <= Len(chain) /\ browse.known <= Len(chain)
  /\ browse.result \in {None, "ok", "error", "panic"}

Ended == browse.at = "idle" /\ browse.result = "ok"

\* The transient data of a proposal is not in its transaction; and that it is not does
\* not make one invalid that all its endorsers endorsed alike, unless it was ordered twice.
OrderedAsEndorsed ==
  \A n \in 2 .. Len(chain) :
    LET tx == chain[n] IN
    /\ tx.payload.transient = None
    /\ (\A d, e \in tx.endorsements : d[2] = e[2]) =>
         Valid(n) \/ \E m \in 2 .. n - 1 : chain[m].header.id = tx.header.id

\* What the browser tells of a transaction is what was asked for under its ID.
BrowsedAsAsked ==
  \A i \in DOMAIN browse.told :
    LET t == browse.told[i] IN
    t.id # None =>
      LET r == asked[t.id[1]][2] IN
      /\ t.by = asked[t.id[1]][1] /\ t.cc = r.cc /\ t.args = <<r.fcn>> \o r.args

\* Who asks with the number of the newest block it knows is told each newer one once, up
\* to the height there was, however the peers lag; and with a count, so many of the newest.
NewerOnesOnce ==
  Ended /\ browse.kind # ByHash =>
    browse.told = [i \in 1 .. Len(browse.told) |-> Info(chain[browse.height - i + 1])]
    /\ Len(browse.told) =
         CASE browse.kind = ByCount /\ browse.limit > 0 /\ browse.limit < browse.height -> browse.limit
           [] browse.kind = ByNumber /\ browse.limit > browse.height -> 0
           [] browse.kind = ByNumber /\ browse.limit <= browse.height -> browse.height - browse.limit
           [] OTHER -> browse.height

\* By hash the blocks that are read go back to the one that is named, and not to it or
\* further (BrowseChannelConfig).
HashIsALimit ==
  browse.kind = ByHash => Len(browse.told) + browse.limit <= browse.height

\* Reading a transaction fails with a message (ErrorMsg), and the browser goes on.
NobodyPanics == browse.result # "panic"

\* "3: data of the creation or configuration of a channel" (TxType)
ConfigurationIsTold ==
  \A i \in DOMAIN browse.told : browse.told[i].id = None => browse.told[i].type = 3
=============================================================================
