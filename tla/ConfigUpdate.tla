------------------------------ MODULE ConfigUpdate ------------------------------
(***************************************************************************)
(* How administrators change the configuration of a channel: the update is *)
(* computed (configtxlator/update, resmgmt.CalculateConfigUpdate, the      *)
(* encoder for a new channel, the anchor peers update of fab/resource),    *)
(* signed and sent to the orderer (resmgmt.SaveChannel), and the           *)
(* configuration that results is read back from its block (fab/chconfig).  *)
(*                                                                         *)
(* A configuration is a tree of groups, of values and policies, each with  *)
(* a version. It is written flat: a function on the paths that exist.      *)
(* Values and policies are treated alike, and are the leaves. The content  *)
(* of a group is its modification policy. Signatures and files are         *)
(* abstracted to who signed and to what they hold.                         *)
(***************************************************************************)
EXTENDS Naturals, FiniteSets, Sequences

CONSTANTS
  Admins, Contents,
  Groups, Leaves, Root, Application,
  Parent,           \* the group that each path but the root is in
  Above,            \* all the groups that a path is in
  Anchors,          \* the leaf with the anchor peers of an organization
  Profile,          \* the contents a profile of the channel yields, by path
  Needed,           \* the signatures that the orderer wants
  Attempts,         \* retries of the retry option
  MaxBlocks, MaxFaults,
  None

Paths == Groups \cup Leaves
\* A configuration, as it is read, sent or encoded from a profile, is a tree.
IsTree(paths) ==
  Root \in paths /\ paths \subseteq Paths /\ \A p \in paths : Above[p] \subseteq paths

\* The paths make a tree, without an end to go up to but the root. A profile is one of
\* them, in which the application's group has policies of its own (AddPolicies insists on
\* them); the organizations, which alone have anchor peers, are groups in that group.
ConfigAssumption ==
  /\ Root \in Groups /\ Above[Root] = {} /\ Groups \cap Leaves = {}
  /\ \A p \in Paths \ {Root} :
       Parent[p] \in Groups /\ Above[p] = Above[Parent[p]] \cup {Parent[p]}
  /\ \A p \in Paths : Above[p] \subseteq Groups
  /\ \A S \in SUBSET Paths : S # {} => \E p \in S : Above[p] \cap S = {}
  /\ IsTree(DOMAIN Profile) /\ \A p \in DOMAIN Profile : Profile[p] \in Contents
  /\ Application \in (Groups \cap DOMAIN Profile) \ {Root}
  /\ \E p \in Leaves \cap DOMAIN Profile : Parent[p] = Application
  /\ \A org \in DOMAIN Anchors :
       /\ org \in Groups \ {Root} /\ Parent[org] = Application
       /\ Anchors[org] \in Leaves /\ Parent[Anchors[org]] = org
  /\ {Needed, Attempts, MaxBlocks, MaxFaults} \subseteq Nat

VARIABLES
  admins,   \* of each: at, original (as read), updated (as wanted), update (the
            \* read set and the write set), by (create, anchor, edit), tries,
            \* seq (of the configuration that was read)
  world     \* configs: the configurations of the channel, in the order of their
            \* blocks; faults: counted to their bound

vars == <<admins, world>>

NoUpdate == [read |-> <<>>, write |-> <<>>]
Idle == [at |-> "idle", original |-> <<>>, updated |-> <<>>, update |-> NoUpdate,
         by |-> None, tries |-> 0, seq |-> 0]
Init == /\ admins = [a \in Admins |-> Idle]
        /\ world = [configs |-> <<>>, faults |-> 0]

Contains(c) == [p \in DOMAIN c |-> c[p].content]
At0(content) == [p \in DOMAIN content |-> [version |-> 0, content |-> content[p]]]
Members(c, g) == {p \in DOMAIN c \ {Root} : Parent[p] = g}
Without(c, gone) ==
  [p \in {p \in DOMAIN c : (Above[p] \cup {p}) \cap gone = {}} |-> c[p]]

-----------------------------------------------------------------------------
(* Compute: the update that makes an original configuration another one    *)

Both(o, u) == DOMAIN o \cap DOMAIN u
Differs(o, u, p) == o[p].content # u[p].content
ChangedLeaves(o, u) == {p \in Leaves \cap Both(o, u) : Differs(o, u, p)}
\* A group gets a new version when members come or go, or with its own policy.
Bumped(o, u) ==
  {g \in Groups \cap Both(o, u) : Members(o, g) # Members(u, g) \/ Differs(o, u, g)}
\* It is in the sets when anything below it changes, too.
Updated(o, u) ==
  Bumped(o, u) \cup {g \in Groups \cap Both(o, u) :
     \E p \in ChangedLeaves(o, u) \cup Bumped(o, u) : g \in Above[p]}
\* Members of a group with a new version that stay what they are
SameMembers(o, u) ==
  {p \in Both(o, u) \ ({Root} \cup ChangedLeaves(o, u) \cup Updated(o, u)) :
     Parent[p] \in Bumped(o, u)}

ReadSet(o, u) == [p \in Updated(o, u) \cup SameMembers(o, u) |-> o[p].version]

NewVersion(o, u, p) ==
  IF p \notin DOMAIN o THEN 0
  ELSE IF p \in ChangedLeaves(o, u) \cup Bumped(o, u) THEN o[p].version + 1
  ELSE o[p].version
\* slip: what stays the same is not among the members of the new group
WriteSetOfChanges(o, u) ==
  [p \in (DOMAIN u \ DOMAIN o) \cup ChangedLeaves(o, u) \cup Updated(o, u) |->
     [version |-> NewVersion(o, u, p), content |-> u[p].content]]
WriteSet(o, u) ==
  [p \in (DOMAIN u \ DOMAIN o) \cup ChangedLeaves(o, u) \cup Updated(o, u)
           \cup SameMembers(o, u) |->
     [version |-> NewVersion(o, u, p),
      content |-> IF p \in SameMembers(o, u) THEN None ELSE u[p].content]]

Compute(o, u) == [read |-> ReadSet(o, u), write |-> WriteSet(o, u)]
NoDifferences(o, u) == Updated(o, u) = {}

\* NewChannelGroup: the tree that a profile is encoded as
ChannelGroup == At0(Profile)

\* DefaultConfigTemplate: the profile without what is the application's own
\* slip: with it
FullTemplate == ChannelGroup
Template ==
  At0([p \in {p \in DOMAIN Profile : p \in Groups \/ Parent[p] # Application} |->
         Profile[p]])

\* CreateAnchorPeersUpdate: the channel as the profile has it, when nothing has changed
\* since it was created
\* slip: as if the application's group were still at its first version
UnchangedProfile == ChannelGroup
CreatedProfile == [ChannelGroup EXCEPT ![Application].version = 1]

-----------------------------------------------------------------------------
(* The orderer, for whom the two sets are made                             *)

Delta(up) ==
  {p \in DOMAIN up.write :
     ~(p \in DOMAIN up.read /\ up.read[p] = up.write[p].version)}
\* A group with a new version has the members that are written with it.
Listed(c, up, p) ==
  p # Root => IF Parent[p] \in Delta(up) THEN p \in DOMAIN up.write ELSE p \in DOMAIN c
Kept(c, up, p) == \A q \in Above[p] \cup {p} : Listed(c, up, q)
Acceptable(c, up) ==
  /\ \A p \in DOMAIN up.read : p \in DOMAIN c /\ c[p].version = up.read[p]
  /\ \A p \in Delta(up) :
       up.write[p].version = IF p \in DOMAIN c THEN c[p].version + 1 ELSE 0
  /\ \A p \in DOMAIN up.write : Kept(c, up, p)
Applied(c, up) ==
  [p \in {p \in DOMAIN c \cup Delta(up) : Kept(c, up, p)} |->
     IF p \in Delta(up) THEN up.write[p] ELSE c[p]]

\* The channel before it exists: the application's group has the organizations of the
\* consortium, which do not know of anchor peers.
Uncreated ==
  Without(Template, {Anchors[o] : o \in DOMAIN Anchors})
Exists == world.configs # <<>>
Current == IF Exists THEN world.configs[Len(world.configs)] ELSE Uncreated
\* Only an update that names the consortium, in both sets, creates a channel.
Fits(me) == Acceptable(Current, me.update) /\ (Exists \/ me.by = "create")

-----------------------------------------------------------------------------
(* Administrators                                                          *)

Is(a, at) == admins[a].at = at
Becomes(a, r) == admins' = [admins EXCEPT ![a] = r]
Returns(a) == Becomes(a, Idle)
Goes == Len(world.configs) < MaxBlocks     \* up to the bound, and no further
Fault == world.faults < MaxFaults
Faulty == [world EXCEPT !.faults = @ + 1]

\* LastConfigFromOrderer: the newest block tells where the last configuration is; the
\* channel may go on before the block is asked for.
CallQuery(a) ==
  /\ Is(a, "idle") /\ Exists /\ Goes
  /\ Becomes(a, [Idle EXCEPT !.at = "newest"]) /\ UNCHANGED world
NewestBlock(a) ==
  /\ Is(a, "newest") /\ Goes
  /\ \/ /\ Becomes(a, [admins[a] EXCEPT !.at = "block", !.seq = Len(world.configs)])
        /\ UNCHANGED world
     \/ Fault /\ world' = Faulty /\ Returns(a)
\* extractConfig: groups, values and policies with their versions
ConfigBlock(a) ==
  /\ Is(a, "block") /\ Goes
  /\ \/ /\ Becomes(a, [admins[a] EXCEPT !.at = "edit",
                               !.original = world.configs[admins[a].seq]])
        /\ UNCHANGED world
     \/ Fault /\ world' = Faulty /\ Returns(a)

Prepared(a, o, u, by) ==
  Becomes(a, [Idle EXCEPT !.at = "sign", !.original = o, !.updated = u, !.by = by,
                          !.update = Compute(o, u)])

\* What an administrator makes of a configuration: a content set, a leaf or a group
\* taken away, one added with what the profile has below it.
Edits(o) ==
  {[o EXCEPT ![p].content = c] : p \in DOMAIN o, c \in Contents}
    \cup {Without(o, {p}) : p \in DOMAIN o \ {Root}}
    \cup {[q \in DOMAIN o \cup {q \in DOMAIN Profile : p \in Above[q] \cup {q}} |->
             IF q \in DOMAIN o THEN o[q] ELSE [version |-> 0, content |-> c]] :
            p \in {p \in DOMAIN Profile \ DOMAIN o : Parent[p] \in DOMAIN o},
            c \in Contents}

\* CalculateConfigUpdate: the current configuration that is passed with the new one is
\* the one that was read for it, or the newest one.
\* slip: whatever the sequence numbers
Disregard(read, passed) == FALSE
SequenceMismatch(read, passed) == read # passed
Edit(a) ==
  /\ Is(a, "edit") /\ Goes /\ UNCHANGED world
  /\ \E u \in Edits(admins[a].original), i \in {admins[a].seq, Len(world.configs)} :
       LET o == world.configs[i] IN
       IF SequenceMismatch(admins[a].seq, i) \/ NoDifferences(o, u) THEN Returns(a)
       ELSE Becomes(a, [Idle EXCEPT !.at = "sign", !.original = admins[a].original,
                          !.updated = u, !.by = "edit", !.update = Compute(o, u)])

\* CreateChannelCreateTx, by the one who is in charge of it, and CreateAnchorPeersUpdate
Create(a) ==
  /\ Is(a, "idle") /\ ~Exists /\ UNCHANGED world
  /\ Prepared(a, Template, ChannelGroup, "create")
AnchorPeers(a, org) ==
  /\ Is(a, "idle") /\ Goes /\ Anchors[org] \in DOMAIN Profile /\ UNCHANGED world
  /\ Prepared(a, Without(CreatedProfile, {Anchors[org]}), CreatedProfile, "anchor")

\* Signatures come from the identities of the call, or with an option, which may hold
\* the ones of another update.
Sign(a) ==
  /\ Is(a, "sign") /\ Goes /\ UNCHANGED world
  /\ \E signers \in SUBSET Admins, forAnother \in BOOLEAN :
       IF Cardinality(signers) >= Needed /\ ~forAnother
       THEN Becomes(a, [admins[a] EXCEPT !.at = "submit"])
       ELSE Returns(a)

\* createOrUpdateChannel: an orderer that is busy refuses for now, an answer may be
\* lost; the retry handler sends the same update once more.
Again(a) ==
  IF admins[a].tries < Attempts
  THEN Becomes(a, [admins[a] EXCEPT !.tries = @ + 1]) ELSE Returns(a)
Take(a, w) ==
  /\ Fits(admins[a])
  /\ world' = [w EXCEPT !.configs = Append(@, Applied(Current, admins[a].update))]
Submit(a) ==
  /\ Is(a, "submit") /\ Goes
  /\ \/ Take(a, world) /\ Returns(a)
     \/ Fault /\ Take(a, Faulty) /\ Again(a)
     \/ ~Fits(admins[a]) /\ Returns(a) /\ UNCHANGED world
     \/ Fault /\ world' = Faulty /\ Again(a)

Next ==
  \/ \E a \in Admins : CallQuery(a) \/ NewestBlock(a) \/ ConfigBlock(a)
  \/ \E a \in Admins : Edit(a) \/ Create(a) \/ Sign(a) \/ Submit(a)
  \/ \E a \in Admins, org \in DOMAIN Anchors : AnchorPeers(a, org)
Spec == Init /\ [][Next]_vars

-----------------------------------------------------------------------------
(* Properties                                                              *)

IsConfig(c) ==
  IsTree(DOMAIN c) /\ \A p \in DOMAIN c : c[p].version \in Nat /\ c[p].content \in Contents
TypeOK ==
  /\ \A a \in Admins : admins[a].at \in {"idle", "newest", "block", "edit", "sign", "submit"}
  /\ \A i \in DOMAIN world.configs : IsConfig(world.configs[i])
  /\ Len(world.configs) <= MaxBlocks /\ world.faults <= MaxFaults

\* What one administrator wants, put on top of what others have done meanwhile
Merge(o, u, c) ==
  LET paths == {p \in DOMAIN c : p \notin DOMAIN o \/ p \in DOMAIN u}
                 \cup (DOMAIN u \ DOMAIN o)
  IN [p \in {p \in paths : Above[p] \subseteq paths} |->
        IF p \in DOMAIN u /\ (p \notin DOMAIN o \/ Differs(o, u, p))
        THEN u[p].content ELSE c[p].content]

Taken(a) == Len(world.configs') > Len(world.configs) /\ admins'[a] # admins[a]
\* The sets that Compute makes are worth the difference, and no more: an update that
\* the orderer takes changes what the administrator changed in what was read, and all
\* that others have done since then stays.
MergesEditsStep ==
  \A a \in Admins : Taken(a) =>
    Contains(Current') = Merge(admins[a].original, admins[a].updated, Current)
MergesEdits == [][MergesEditsStep]_vars

\* And it is not taken over a newer value: what it sets is still at the version that
\* was read, what it adds is not there, even when the path was deleted and created
\* again, at the version 0 that it had.
SetsWhatItSawStep ==
  \A a \in Admins : Taken(a) /\ admins[a].by = "edit" =>
    LET o == admins[a].original
        u == admins[a].updated IN
    \A p \in DOMAIN u :
      /\ p \in Both(o, u) /\ Differs(o, u, p) => p \in DOMAIN Current /\ Current[p] = o[p]
      /\ p \notin DOMAIN o => p \notin DOMAIN Current
SetsWhatItSaw == [][SetsWhatItSawStep]_vars

\* The transaction that creates a channel from a profile is what the orderer expects: the
\* channel has all the profile has but the anchor peers; and the anchor peers update made
\* from the same profile fits the channel as long as nobody has changed it.
CreatedAsPlanned ==
  /\ Exists => Contains(world.configs[1]) =
                 Contains(Without(ChannelGroup, {Anchors[o] : o \in DOMAIN Anchors}))
  /\ Len(world.configs) = 1 =>
       \A a \in Admins : Is(a, "submit") /\ admins[a].by = "anchor" =>
                         Acceptable(Current, admins[a].update)
=============================================================================
