--------------------------- MODULE AdministrationProofs ---------------------------
(***************************************************************************)
(* Proofs about the parts that MCAdministration runs, each for every       *)
(* number of peers, organizations, policies, files and callers: updates of *)
(* the channel configuration, resource management, the MSP, queries of     *)
(* ledgers, the life cycle of chaincodes, transactions and the browser,    *)
(* the selection of endorsers, the configuration of endpoints. Of each     *)
(* part: its inductive invariant, that it holds at first, that every step  *)
(* keeps it, and what follows from it; at the end, the run of them.        *)
(*                                                                         *)
(* Names that a part reaches through its INSTANCE are operators of their   *)
(* own (Config!Cardinality is not Cardinality), so lemmas say that they    *)
(* are the same.                                                           *)
(***************************************************************************)
EXTENDS MCAdministration, FiniteSetTheorems, SequenceTheorems, NaturalsInduction,
        WellFoundedInduction, TLAPS

(***************************************************************************)
(* Numbers                                                                 *)
(***************************************************************************)

\* A set of natural numbers has a least one, and one that is bounded a greatest.
LEMMA LeastNatural ==
  ASSUME NEW S, S \subseteq Nat, S # {}
  PROVE  \E x \in S : \A y \in S : x <= y
<1> DEFINE R == {ss \in Nat \X Nat : ss[1] < ss[2]}
<1>1. IsWellFoundedOn(R, Nat)
  BY NatLessThanWellFounded DEF OpToRel
<1>2. PICK x \in S : \A y \in S : ~(<<y, x>> \in R)
  <2> HIDE DEF R
  <2> QED BY <1>1, WFMin
<1>3. \A y \in S : ~(y < x)
  BY <1>2
<1> QED
  BY <1>2, <1>3

LEMMA GreatestNatural ==
  ASSUME NEW n \in Nat, NEW S, S \subseteq 0 .. n, S # {}
  PROVE  \E x \in S : \A y \in S : x >= y
<1> DEFINE T == {n - x : x \in S}
<1>1. T \subseteq Nat /\ T # {}
  <2>1. \A x \in S : n - x \in Nat
    OBVIOUS
  <2>2. PICK x \in S : TRUE
    OBVIOUS
  <2>3. n - x \in T
    OBVIOUS
  <2> QED
    BY <2>1, <2>3
<1>2. PICK t \in T : \A y \in T : t <= y
  <2> HIDE DEF T
  <2> QED BY <1>1, LeastNatural
<1>3. PICK x \in S : t = n - x
  OBVIOUS
<1>4. ASSUME NEW y \in S
      PROVE  x >= y
  <2>1. n - x <= n - y
    BY <1>2, <1>3
  <2> QED
    BY <2>1, <1>4
<1> QED
  BY <1>4

\* What a sequence has is what it is a sequence of.
LEMMA TypedSequence ==
  ASSUME NEW S, NEW s \in Seq(S)
  PROVE  \A i \in DOMAIN s : s[i] \in S
OBVIOUS

(***************************************************************************)
(* Recursive functions                                                     *)
(***************************************************************************)

\* A function that is defined from what it is at the parts of its argument exists, if
\* going to parts of parts has an end. F[p][h] is what it is at p, when it is h at the
\* parts of p.
Definable(X, V, Sub, F) ==
  /\ \A p \in X : Sub[p] \subseteq X
  /\ \A S \in SUBSET X : S # {} => \E p \in S : Sub[p] \cap S = {}
  /\ \A p \in X : \A h \in [Sub[p] -> V] : F[p][h] \in V
DefinedBy(f, X, V, Sub, F) ==
  f \in [X -> V] /\ \A p \in X : f[p] = F[p][[q \in Sub[p] |-> f[q]]]

\* There is such a function, whatever the argument's parts are: the recursive functions of the
\* models (OrgGroups and Satisfied of rules, NotIgnored of a list) are what they are written as.
LEMMA RecursiveFunction ==
  ASSUME NEW X, NEW V, NEW Sub, NEW F, Definable(X, V, Sub, F)
  PROVE  \E f : DefinedBy(f, X, V, Sub, F)
<1>0. /\ \A p \in X : Sub[p] \subseteq X
      /\ \A S \in SUBSET X : S # {} => \E p \in S : Sub[p] \cap S = {}
      /\ \A p \in X : \A h \in [Sub[p] -> V] : F[p][h] \in V
  BY DEF Definable
<1> DEFINE Solves(D, f) ==
      /\ f \in [D -> V]
      /\ \A p \in D : Sub[p] \subseteq D /\ f[p] = F[p][[q \in Sub[p] |-> f[q]]]
<1>1. ASSUME NEW D \in SUBSET X, NEW f, Solves(D, f), NEW E \in SUBSET X, NEW g, Solves(E, g)
      PROVE  \A p \in D \cap E : f[p] = g[p]
  <2> DEFINE S == {p \in D \cap E : f[p] # g[p]}
  <2> SUFFICES ASSUME S # {} PROVE FALSE
    OBVIOUS
  <2>1. PICK p \in S : Sub[p] \cap S = {}
    <3> HIDE DEF Solves
    <3>1. S \in SUBSET X
      OBVIOUS
    <3> HIDE DEF S
    <3> QED
      BY <1>0, <3>1
  <2>2. \A q \in Sub[p] : f[q] = g[q]
    BY <1>1, <2>1
  <2>3. [q \in Sub[p] |-> f[q]] = [q \in Sub[p] |-> g[q]]
    BY <2>2
  <2> QED
    BY <1>1, <2>1, <2>3
<1> DEFINE Good == {p \in X : \E D \in SUBSET X : p \in D /\ \E f : Solves(D, f)}
           Is(p, v) == \E D \in SUBSET X : p \in D /\ \E f : Solves(D, f) /\ v = f[p]
           h == [p \in Good |-> CHOOSE v : Is(p, v)]
<1>2. ASSUME NEW D \in SUBSET X, NEW f, Solves(D, f), NEW p \in D
      PROVE  p \in Good /\ h[p] = f[p]
  <2>1. p \in Good
    <3> HIDE DEF Solves
    <3> QED
      BY <1>2
  <2>2. Is(p, f[p])
    <3> HIDE DEF Solves
    <3> QED
      BY <1>2
  <2>3. Is(p, h[p])
    <3> HIDE DEF Is, Good
    <3>1. h[p] = CHOOSE v : Is(p, v)
      BY <2>1
    <3> HIDE DEF h
    <3> QED
      BY <2>2, <3>1
  <2>4. PICK E \in SUBSET X : p \in E /\ \E g : Solves(E, g) /\ h[p] = g[p]
    <3> HIDE DEF Solves, h
    <3> QED
      BY <2>3
  <2>5. PICK g : Solves(E, g) /\ h[p] = g[p]
    BY <2>4
  <2>6. f[p] = g[p]
    <3> HIDE DEF Solves, h
    <3> QED
      BY <1>1, <1>2, <2>4, <2>5
  <2> QED
    <3> HIDE DEF Solves, h, Good
    <3> QED
      BY <2>1, <2>5, <2>6
<1>3. Solves(Good, h)
  <2>1. ASSUME NEW p \in Good
        PROVE  /\ h[p] \in V /\ Sub[p] \subseteq Good
               /\ h[p] = F[p][[q \in Sub[p] |-> h[q]]]
    <3> HIDE DEF h
    <3>1. PICK D, f : D \in SUBSET X /\ p \in D /\ Solves(D, f)
      <4> HIDE DEF Solves
      <4> QED
        OBVIOUS
    <3>2. /\ f \in [D -> V] /\ Sub[p] \subseteq D
          /\ f[p] = F[p][[q \in Sub[p] |-> f[q]]]
      BY <3>1
    <3>3. \A q \in D : q \in Good /\ h[q] = f[q]
      <4> HIDE DEF Solves, Good
      <4> QED
        BY <1>2, <3>1
    <3>4. [q \in Sub[p] |-> h[q]] = [q \in Sub[p] |-> f[q]]
      <4> HIDE DEF Good
      <4> QED
        BY <3>2, <3>3
    <3> HIDE DEF Good
    <3> QED
      BY <3>1, <3>2, <3>3, <3>4
  <2>2. h = [p \in Good |-> h[p]]
    OBVIOUS
  <2> HIDE DEF h, Good
  <2>3. h \in [Good -> V]
    BY <2>1, <2>2
  <2> QED
    BY <2>1, <2>3
<1>4. Good = X
  <2> SUFFICES ASSUME X \ Good # {} PROVE FALSE
    OBVIOUS
  <2>1. PICK p \in X \ Good : Sub[p] \cap (X \ Good) = {}
    <3> HIDE DEF Good
    <3> QED
      BY <1>0
  <2>2. Good \in SUBSET X /\ Sub[p] \subseteq Good
    <3>1. Good \subseteq X
      OBVIOUS
    <3> HIDE DEF Good
    <3> QED
      BY <1>0, <2>1, <3>1
  <2> HIDE DEF Good, h
  <2> DEFINE hp == [q \in Sub[p] |-> h[q]]
             E == Good \cup {p}
             g == [q \in E |-> IF q = p THEN F[p][hp] ELSE h[q]]
  <2>3. hp \in [Sub[p] -> V] /\ F[p][hp] \in V
    <3>1. hp \in [Sub[p] -> V]
      BY <1>3, <2>2
    <3> HIDE DEF hp
    <3> QED
      BY <1>0, <3>1
  <2>4. g \in [E -> V]
    <3> HIDE DEF hp
    <3> QED
      BY <1>3, <2>3
  <2>5. ASSUME NEW q \in E
        PROVE  Sub[q] \subseteq E /\ g[q] = F[q][[r \in Sub[q] |-> g[r]]]
    <3>1. Sub[q] \subseteq Good
      BY <1>3, <2>2
    <3>2. \A r \in Good : r # p
      BY <2>1
    <3>3. \A r \in Sub[q] : g[r] = h[r]
      <4> HIDE DEF hp
      <4> QED
        BY <3>1, <3>2
    <3>4. [r \in Sub[q] |-> g[r]] = [r \in Sub[q] |-> h[r]]
      <4> HIDE DEF g
      <4> QED
        BY <3>3
    <3>5. g[q] = F[q][[r \in Sub[q] |-> h[r]]]
      <4>1. CASE q = p
        BY <4>1
      <4>2. CASE q # p
        <5>1. q \in Good /\ g[q] = h[q]
          <6> HIDE DEF hp
          <6> QED
            BY <4>2
        <5> QED
          BY <1>3, <5>1
      <4> QED
        BY <4>1, <4>2
    <3> HIDE DEF g
    <3> QED
      BY <3>1, <3>4, <3>5
  <2>6. Solves(E, g)
    <3> HIDE DEF g, hp
    <3> QED
      BY <2>4, <2>5
  <2>7. p \in Good
    <3>1. E \in SUBSET X /\ p \in E
      BY <2>2
    <3> HIDE DEF Solves, g, E
    <3> QED
      BY <1>2, <2>6, <3>1
  <2> QED
    BY <2>1, <2>7
<1> QED
  <2>1. h \in [X -> V] /\ \A p \in X : h[p] = F[p][[q \in Sub[p] |-> h[q]]]
    <3> HIDE DEF h, Good
    <3> QED
      BY <1>3, <1>4
  <2> HIDE DEF h
  <2> QED
    BY <2>1 DEF DefinedBy
(***************************************************************************)
(* The tree of paths of a configuration                                    *)
(***************************************************************************)

\* What holds of a path whenever it holds of all above it holds of every path.
LEMMA TreeInduction ==
  ASSUME Config!ConfigAssumption, NEW S,
         \A p \in Config!Paths : Above[p] \subseteq S => p \in S
  PROVE  Config!Paths \subseteq S
<1> SUFFICES ASSUME Config!Paths \ S # {}
             PROVE  FALSE
  OBVIOUS
<1>1. \A T \in SUBSET Config!Paths : T # {} => \E p \in T : Above[p] \cap T = {}
  BY DEF Config!ConfigAssumption
<1>2. PICK p \in Config!Paths \ S : Above[p] \cap (Config!Paths \ S) = {}
  BY <1>1, Zenon
<1>3. Above[p] \subseteq Config!Paths
  BY DEF Config!ConfigAssumption, Config!Paths
<1> QED
  BY <1>2, <1>3

\* The groups above a path are in line below the root.
LEMMA AboveAbove ==
  ASSUME Config!ConfigAssumption
  PROVE  /\ \A p \in Config!Paths : Above[p] \subseteq Groups /\ p \notin Above[p]
         /\ \A p \in Config!Paths : \A q \in Above[p] : Above[q] \subseteq Above[p]
         /\ \A p \in Config!Paths \ {Root} : Root \in Above[p]
         /\ \A p \in Config!Paths : \A q, r \in Above[p] \cup {p} :
              q = r \/ q \in Above[r] \/ r \in Above[q]
<1>1. \A p \in Config!Paths \ {Root} :
        Parent[p] \in Groups /\ Above[p] = Above[Parent[p]] \cup {Parent[p]}
  BY DEF Config!ConfigAssumption
<1>2. \A p \in Config!Paths : Above[p] \subseteq Groups
  BY DEF Config!ConfigAssumption
<1>3. Groups \subseteq Config!Paths /\ Above[Root] = {} /\ Root \in Groups
  BY DEF Config!ConfigAssumption, Config!Paths
<1>4. ASSUME NEW p \in Config!Paths
      PROVE  p \notin Above[p]
  <2>1. \A T \in SUBSET Config!Paths : T # {} => \E q \in T : Above[q] \cap T = {}
    BY DEF Config!ConfigAssumption
  <2>2. \E q \in {p} : Above[q] \cap {p} = {}
    BY <2>1, Zenon
  <2> QED
    BY <2>2
<1>5. \A p \in Config!Paths : \A q \in Above[p] : Above[q] \subseteq Above[p]
  <2> DEFINE S == {p \in Config!Paths : \A q \in Above[p] : Above[q] \subseteq Above[p]}
  <2>1. ASSUME NEW p \in Config!Paths, Above[p] \subseteq S
        PROVE  p \in S
    <3>1. CASE p = Root
      BY <3>1, <1>3
    <3>2. CASE p # Root
      <4>1. Parent[p] \in S /\ Above[p] = Above[Parent[p]] \cup {Parent[p]}
        BY <2>1, <3>2, <1>1
      <4> QED
        BY <4>1
    <3> QED
      BY <3>1, <3>2
  <2> HIDE DEF S
  <2>2. Config!Paths \subseteq S
    BY <2>1, TreeInduction
  <2> QED
    BY <2>2 DEF S
<1>6. \A p \in Config!Paths \ {Root} : Root \in Above[p]
  <2> DEFINE S == {p \in Config!Paths : p # Root => Root \in Above[p]}
  <2>1. ASSUME NEW p \in Config!Paths, Above[p] \subseteq S
        PROVE  p \in S
    BY <2>1, <1>1
  <2> HIDE DEF S
  <2>2. Config!Paths \subseteq S
    BY <2>1, TreeInduction
  <2> QED
    BY <2>2 DEF S
<1>7. \A p \in Config!Paths : \A q, r \in Above[p] \cup {p} :
        q = r \/ q \in Above[r] \/ r \in Above[q]
  <2> DEFINE S == {p \in Config!Paths : \A q, r \in Above[p] \cup {p} :
                     q = r \/ q \in Above[r] \/ r \in Above[q]}
  <2>1. ASSUME NEW p \in Config!Paths, Above[p] \subseteq S
        PROVE  p \in S
    <3>1. CASE p = Root
      BY <3>1, <1>3
    <3>2. CASE p # Root
      <4>1. Parent[p] \in S /\ Above[p] = Above[Parent[p]] \cup {Parent[p]}
        BY <2>1, <3>2, <1>1
      <4> QED
        BY <4>1
    <3> QED
      BY <3>1, <3>2
  <2> HIDE DEF S
  <2>2. Config!Paths \subseteq S
    BY <2>1, TreeInduction
  <2> QED
    BY <2>2 DEF S
<1> QED
  BY <1>2, <1>4, <1>5, <1>6, <1>7

\* The trees: with a path they have all above it, so its parent; no leaf is above.
LEMMA TreeFacts ==
  ASSUME Config!ConfigAssumption, NEW T, Config!IsTree(T)
  PROVE  /\ Root \in T /\ T \subseteq Config!Paths
         /\ \A p \in T : Above[p] \subseteq T
         /\ \A p \in T \ {Root} :
              /\ Parent[p] \in T \cap Groups /\ Parent[p] \in Above[p]
              /\ Above[p] = Above[Parent[p]] \cup {Parent[p]}
BY DEF Config!IsTree, Config!ConfigAssumption

(***************************************************************************)
(* Versions: what a later configuration has of an earlier one              *)
(***************************************************************************)

\* From c to d, the version of a path has not gone back; if it is the same, the path is,
\* and so are the members of a group.
Grown(c, d, p) ==
  /\ c[p].version <= d[p].version
  /\ c[p].version = d[p].version =>
       c[p] = d[p] /\ (p \in Groups => Config!Members(c, p) = Config!Members(d, p))
SameAbove(c, d, p) == \A q \in Above[p] : c[q].version = d[q].version

\* A path can be deleted and come back at the version 0; but then a group above it has a
\* new version.
Later(c, d) == \A p \in DOMAIN c \cap DOMAIN d : SameAbove(c, d, p) => Grown(c, d, p)
Follows(c, d) == \A p \in DOMAIN c \cap DOMAIN d : Grown(c, d, p)

\* A configuration is as late as itself.
LEMMA LaterSelf ==
  ASSUME NEW c, Config!IsConfig(c)
  PROVE  Later(c, c)
BY DEF Later, Grown, Config!IsConfig

\* What follows a later configuration is later.
LEMMA LaterFollows ==
  ASSUME Config!ConfigAssumption, NEW c, NEW d, NEW e,
         Config!IsConfig(c), Config!IsConfig(d), Config!IsConfig(e), Later(c, d), Follows(d, e)
  PROVE  Later(c, e)
<1> SUFFICES ASSUME NEW p \in DOMAIN c \cap DOMAIN e, SameAbove(c, e, p)
             PROVE  Grown(c, e, p)
  BY DEF Later
<1>t. /\ Config!IsTree(DOMAIN c) /\ Config!IsTree(DOMAIN d) /\ Config!IsTree(DOMAIN e)
      /\ \A q \in DOMAIN c : c[q].version \in Nat
      /\ \A q \in DOMAIN d : d[q].version \in Nat
      /\ \A q \in DOMAIN e : e[q].version \in Nat
  BY DEF Config!IsConfig
<1>1. p \in Config!Paths /\ Above[p] \subseteq DOMAIN c /\ Above[p] \subseteq DOMAIN e
  BY <1>t, TreeFacts
<1> DEFINE Shared(q) == q \in DOMAIN d /\ (q \in Above[p] => c[q].version = d[q].version)
<1> DEFINE S == {q \in Config!Paths : q \in Above[p] \cup {p} => Shared(q)}
<1>2. ASSUME NEW q \in Config!Paths, Above[q] \subseteq S
      PROVE  q \in S
  <2> SUFFICES ASSUME q \in Above[p] \cup {p}
               PROVE  Shared(q)
    OBVIOUS
  <2>1. Above[q] \subseteq Above[p]
    BY <1>1, AboveAbove
  <2>2. /\ Above[q] \subseteq DOMAIN d
        /\ \A r \in Above[q] : c[r].version = d[r].version
    BY <2>1, <1>2
  <2>3. q \in DOMAIN d
    <3>1. CASE q = Root
      BY <3>1, <1>t, TreeFacts
    <3>2. CASE q # Root
      <4>1. q \in DOMAIN c
        BY <1>1
      <4>2. /\ Parent[q] \in Groups /\ Parent[q] \in Above[q]
            /\ Above[q] = Above[Parent[q]] \cup {Parent[q]} /\ Parent[q] \in DOMAIN c
        BY <4>1, <3>2, <1>t, TreeFacts
      <4>3. Parent[q] \in DOMAIN d /\ SameAbove(c, d, Parent[q])
            /\ c[Parent[q]].version = d[Parent[q]].version
        BY <2>2, <4>2 DEF SameAbove
      <4>4. Config!Members(c, Parent[q]) = Config!Members(d, Parent[q])
        BY <4>2, <4>3 DEF Later, Grown
      <4> QED
        BY <4>1, <4>4, <3>2 DEF Config!Members
    <3> QED
      BY <3>1, <3>2
  <2>4. ASSUME q \in Above[p]
        PROVE  c[q].version = d[q].version
    <3>1. c[q].version <= d[q].version
      BY <2>2, <2>3, <2>4, <1>1 DEF Later, Grown, SameAbove
    <3>2. d[q].version <= e[q].version
      BY <2>3, <2>4, <1>1 DEF Follows, Grown
    <3>3. c[q].version = e[q].version
      BY <2>4 DEF SameAbove
    <3> QED
      BY <3>1, <3>2, <3>3, <2>3, <2>4, <1>1, <1>t
  <2> QED
    BY <2>3, <2>4
<1> HIDE DEF S
<1>3. Config!Paths \subseteq S
  BY <1>2, TreeInduction
<1>4. p \in DOMAIN d /\ SameAbove(c, d, p)
  <2>1. \A q \in Above[p] : q \in Config!Paths
    BY <1>t, <1>1, TreeFacts
  <2> QED
    BY <1>1, <1>3, <2>1 DEF S, SameAbove
<1>5. Grown(c, d, p) /\ Grown(d, e, p)
  BY <1>4 DEF Later, Follows
<1> QED
  BY <1>5, <1>4, <1>t DEF Grown

(***************************************************************************)
(* What the orderer does with an update: the next configuration            *)
(***************************************************************************)

\* What is changed by the sets of an update has contents and versions.
IsUpdate(up) ==
  /\ DOMAIN up.write \subseteq Config!Paths
  /\ \A p \in Config!Delta(up) : up.write[p].version \in Nat /\ up.write[p].content \in Contents

\* An acceptable update makes a configuration of a configuration.
LEMMA AppliedIsConfig ==
  ASSUME Config!ConfigAssumption, NEW c, NEW up,
         Config!IsConfig(c), IsUpdate(up), Config!Acceptable(c, up)
  PROVE  Config!IsConfig(Config!Applied(c, up))
<1> DEFINE e == Config!Applied(c, up)
<1>t. Config!IsTree(DOMAIN c)
  BY DEF Config!IsConfig
<1>d. DOMAIN e = {p \in DOMAIN c \cup Config!Delta(up) : Config!Kept(c, up, p)}
  BY DEF Config!Applied
<1>1. Config!Delta(up) \subseteq Config!Paths /\ Config!Delta(up) \subseteq DOMAIN up.write
  BY DEF IsUpdate, Config!Delta
<1>2. Root \in DOMAIN e
  BY <1>t, <1>d, TreeFacts DEF Config!Kept, Config!Listed, Config!ConfigAssumption
<1>3. DOMAIN e \subseteq Config!Paths
  BY <1>t, <1>d, <1>1, TreeFacts
<1>4. ASSUME NEW p \in DOMAIN e, NEW q \in Above[p]
      PROVE  q \in DOMAIN e
  <2>1. Config!Kept(c, up, p) /\ p \in Config!Paths
    BY <1>d, <1>3
  <2>2. q \in Config!Paths /\ Above[q] \subseteq Above[p]
    BY <2>1, <1>4, AboveAbove DEF Config!Paths
  <2>3. Config!Kept(c, up, q)
    BY <2>1, <2>2, <1>4 DEF Config!Kept
  <2>4. q \in DOMAIN c \cup DOMAIN up.write
    <3>1. q = Root \/ Config!Listed(c, up, q)
      BY <2>3 DEF Config!Kept
    <3> QED
      BY <3>1, <1>t, TreeFacts DEF Config!Listed
  <2>5. q \in DOMAIN c \cup Config!Delta(up)
    BY <2>4 DEF Config!Acceptable, Config!Delta
  <2> QED
    BY <2>3, <2>5, <1>d
<1>5. ASSUME NEW p \in DOMAIN e
      PROVE  e[p].version \in Nat /\ e[p].content \in Contents
  <2>1. e[p] = IF p \in Config!Delta(up) THEN up.write[p] ELSE c[p]
    BY <1>d DEF Config!Applied
  <2> QED
    BY <2>1, <1>d DEF IsUpdate, Config!IsConfig
<1> QED
  BY <1>2, <1>3, <1>4, <1>5 DEF Config!IsConfig, Config!IsTree

\* No version goes back by an acceptable update.
LEMMA AppliedFollows ==
  ASSUME Config!ConfigAssumption, NEW c, NEW up,
         Config!IsConfig(c), IsUpdate(up), Config!Acceptable(c, up)
  PROVE  Follows(c, Config!Applied(c, up))
<1> DEFINE e == Config!Applied(c, up)
<1> SUFFICES ASSUME NEW p \in DOMAIN c \cap DOMAIN e
             PROVE  Grown(c, e, p)
  BY DEF Follows
<1>t. Config!IsTree(DOMAIN c) /\ \A q \in DOMAIN c : c[q].version \in Nat
  BY DEF Config!IsConfig
<1>d. /\ DOMAIN e = {q \in DOMAIN c \cup Config!Delta(up) : Config!Kept(c, up, q)}
      /\ e[p] = IF p \in Config!Delta(up) THEN up.write[p] ELSE c[p]
  BY DEF Config!Applied
<1>1. CASE p \in Config!Delta(up)
  <2>1. e[p].version = c[p].version + 1
    BY <1>1, <1>d DEF Config!Acceptable
  <2> QED
    BY <2>1, <1>t DEF Grown
<1>2. CASE p \notin Config!Delta(up)
  <2>1. e[p] = c[p]
    BY <1>2, <1>d
  <2>2. ASSUME p \in Groups
        PROVE  Config!Members(c, p) = Config!Members(e, p)
    <3>1. ASSUME NEW q \in Config!Members(c, p)
          PROVE  q \in Config!Members(e, p)
      <4>1. q \in DOMAIN c \ {Root} /\ Parent[q] = p
        BY <3>1 DEF Config!Members
      <4>2. Above[q] = Above[p] \cup {p}
        BY <4>1, <1>t, TreeFacts
      <4>3. Config!Kept(c, up, p)
        BY <1>d
      <4>4. Config!Kept(c, up, q)
        BY <4>1, <4>2, <4>3, <1>2 DEF Config!Kept, Config!Listed
      <4> QED
        BY <4>1, <4>4, <1>d DEF Config!Members
    <3>2. ASSUME NEW q \in Config!Members(e, p)
          PROVE  q \in Config!Members(c, p)
      <4>1. q \in DOMAIN e \ {Root} /\ Parent[q] = p
        BY <3>2 DEF Config!Members
      <4>2. Config!Listed(c, up, q)
        BY <4>1, <1>d DEF Config!Kept
      <4> QED
        BY <4>1, <4>2, <1>2 DEF Config!Listed, Config!Members
    <3> QED
      BY <3>1, <3>2
  <2> QED
    BY <2>1, <2>2, <1>t DEF Grown
<1> QED
  BY <1>1, <1>2

(***************************************************************************)
(* The two sets of Compute are worth the difference                        *)
(***************************************************************************)

\* What is read and written: all that is in an update is in one of the configurations.
LEMMA ComputeSets ==
  ASSUME Config!ConfigAssumption, NEW o, NEW u,
         Config!IsTree(DOMAIN o), Config!IsTree(DOMAIN u),
         \A p \in DOMAIN o : o[p].version \in Nat,
         NEW up, up = Config!Compute(o, u)
  PROVE  /\ DOMAIN up.read = Config!Updated(o, u) \cup Config!SameMembers(o, u)
         /\ \A p \in DOMAIN up.read : up.read[p] = o[p].version /\ p \in DOMAIN o \cap DOMAIN u
         /\ DOMAIN up.write = (DOMAIN u \ DOMAIN o) \cup Config!ChangedLeaves(o, u)
                                \cup Config!Updated(o, u) \cup Config!SameMembers(o, u)
         /\ DOMAIN up.write \subseteq DOMAIN u
         /\ Config!Delta(up) = (DOMAIN u \ DOMAIN o) \cup Config!ChangedLeaves(o, u)
                                 \cup Config!Bumped(o, u)
         /\ \A p \in Config!Delta(up) :
              /\ up.write[p].content = u[p].content
              /\ up.write[p].version = IF p \in DOMAIN o THEN o[p].version + 1 ELSE 0
<1> DEFINE CL == Config!ChangedLeaves(o, u)
           BU == Config!Bumped(o, u)
           UD == Config!Updated(o, u)
           SM == Config!SameMembers(o, u)
           AD == DOMAIN u \ DOMAIN o
<1>1. /\ CL \subseteq DOMAIN o \cap DOMAIN u /\ CL \subseteq Leaves
      /\ BU \subseteq DOMAIN o \cap DOMAIN u /\ BU \subseteq Groups
      /\ UD \subseteq DOMAIN o \cap DOMAIN u /\ UD \subseteq Groups
      /\ BU \subseteq UD
      /\ SM \subseteq (DOMAIN o \cap DOMAIN u) \ (CL \cup UD)
  BY DEF Config!ChangedLeaves, Config!Bumped, Config!Updated, Config!SameMembers, Config!Both
<1>2. CL \cap UD = {}
  BY <1>1 DEF Config!ConfigAssumption
<1>3. /\ DOMAIN up.read = UD \cup SM
      /\ \A p \in UD \cup SM : up.read[p] = o[p].version
  BY DEF Config!Compute, Config!ReadSet
<1>4. /\ DOMAIN up.write = AD \cup CL \cup UD \cup SM
      /\ \A p \in AD \cup CL \cup UD \cup SM :
           /\ up.write[p].version = Config!NewVersion(o, u, p)
           /\ up.write[p].content = IF p \in SM THEN None ELSE u[p].content
  BY DEF Config!Compute, Config!WriteSet
<1> HIDE DEF CL, BU, UD, SM
<1>5. \A p \in AD \cup CL \cup UD \cup SM :
        up.write[p].version = IF p \notin DOMAIN o THEN 0
                              ELSE IF p \in CL \cup BU THEN o[p].version + 1
                              ELSE o[p].version
  BY <1>4 DEF Config!NewVersion, CL, BU
<1>6. Config!Delta(up) = AD \cup CL \cup BU
  <2>1. ASSUME NEW p \in AD \cup CL \cup BU
        PROVE  p \in Config!Delta(up)
    <3>1. p \in DOMAIN up.write
      BY <1>1, <1>4
    <3>2. CASE p \in BU
      <4>1. up.write[p].version = o[p].version + 1 /\ up.read[p] = o[p].version
        BY <3>2, <1>1, <1>3, <1>5
      <4>2. o[p].version \in Nat
        BY <3>2, <1>1
      <4> QED
        BY <3>1, <4>1, <4>2 DEF Config!Delta
    <3>3. CASE p \notin BU
      <4>1. p \notin DOMAIN up.read
        BY <3>3, <1>1, <1>2, <1>3
      <4> QED
        BY <3>1, <4>1 DEF Config!Delta
    <3> QED
      BY <3>2, <3>3
  <2>2. ASSUME NEW p \in Config!Delta(up), p \notin AD \cup CL \cup BU
        PROVE  FALSE
    <3>1. p \in UD \cup SM
      BY <2>2, <1>4 DEF Config!Delta
    <3>2. up.read[p] = o[p].version /\ up.write[p].version = o[p].version /\ p \in DOMAIN up.read
      BY <3>1, <2>2, <1>1, <1>3, <1>5
    <3> QED
      BY <3>2 DEF Config!Delta
  <2> QED
    BY <2>1, <2>2
<1>7. \A p \in AD \cup CL \cup BU :
        /\ up.write[p].content = u[p].content
        /\ up.write[p].version = IF p \in DOMAIN o THEN o[p].version + 1 ELSE 0
  <2>1. \A p \in AD \cup CL \cup BU : p \notin SM /\ p \in AD \cup CL \cup UD \cup SM
    BY <1>1
  <2>2. \A p \in AD : p \notin DOMAIN o
    OBVIOUS
  <2> QED
    BY <2>1, <2>2, <1>1, <1>4, <1>5
<1>8. DOMAIN up.write \subseteq DOMAIN u /\ \A p \in DOMAIN up.read : p \in DOMAIN o \cap DOMAIN u
  BY <1>1, <1>3, <1>4
<1> QED
  BY <1>3, <1>4, <1>6, <1>7, <1>8 DEF CL, BU, UD, SM

\* What is above an added path and was there is updated.
LEMMA AddedBelowUpdated ==
  ASSUME Config!ConfigAssumption, NEW o, NEW u,
         Config!IsTree(DOMAIN o), Config!IsTree(DOMAIN u),
         NEW p \in DOMAIN u \ DOMAIN o, NEW q \in Above[p], q \in DOMAIN o
  PROVE  q \in Config!Updated(o, u)
<1>1. p \in Config!Paths /\ Above[p] \subseteq DOMAIN u
  BY TreeFacts
<1> DEFINE S == {t \in Above[p] \cup {p} : t \notin DOMAIN o}
<1>2. S \in SUBSET Config!Paths /\ S # {}
  BY <1>1, TreeFacts
<1>3. PICK t \in S : Above[t] \cap S = {}
  <2> HIDE DEF S
  <2>1. \A T \in SUBSET Config!Paths : T # {} => \E r \in T : Above[r] \cap T = {}
    BY DEF Config!ConfigAssumption
  <2> QED
    BY <1>2, <2>1, Zenon
<1>4. t \in DOMAIN u /\ t \notin DOMAIN o /\ t \in Above[p] \cup {p} /\ t # Root
  BY <1>1, TreeFacts
<1>5. q \in Above[t]
  <2>1. q = t \/ q \in Above[t] \/ t \in Above[q]
    BY <1>1, <1>4, AboveAbove
  <2>2. t \notin Above[q]
    BY <1>4, TreeFacts
  <2> QED
    BY <2>1, <2>2, <1>4
<1>6. Above[t] \subseteq Above[p]
  BY <1>1, <1>4, AboveAbove
<1>7. Above[t] \subseteq DOMAIN o
  BY <1>3, <1>6
<1>8. /\ Parent[t] \in Above[t] /\ Above[t] = Above[Parent[t]] \cup {Parent[t]}
      /\ Parent[t] \in Groups /\ Parent[t] \in DOMAIN u
  BY <1>4, TreeFacts
<1>9. Parent[t] \in Config!Bumped(o, u)
  <2>1. t \in Config!Members(u, Parent[t]) /\ t \notin Config!Members(o, Parent[t])
    BY <1>4 DEF Config!Members
  <2> QED
    BY <2>1, <1>7, <1>8 DEF Config!Bumped, Config!Both
<1>10. q \in Groups \cap Config!Both(o, u)
  BY <1>1, AboveAbove DEF Config!Both
<1> QED
  BY <1>5, <1>8, <1>9, <1>10 DEF Config!Updated

\* An update that is acceptable merges the edit it was computed of, if the groups it sets have
\* no members, and no content, that the edit does not know of.
LEMMA MergeOfUpdate ==
  ASSUME Config!ConfigAssumption, NEW o, NEW u, NEW c,
         Config!IsTree(DOMAIN o), Config!IsTree(DOMAIN u), Config!IsConfig(c),
         \A p \in DOMAIN o : o[p].version \in Nat,
         NEW up, up = Config!Compute(o, u), Config!Acceptable(c, up),
         \A g \in Config!Bumped(o, u) :
           /\ Config!Members(c, g) \subseteq DOMAIN o \cup DOMAIN u
           /\ ~Config!Differs(o, u, g) => c[g].content = u[g].content
  PROVE  Config!Contains(Config!Applied(c, up)) = Config!Merge(o, u, c)
<1> DEFINE CL == Config!ChangedLeaves(o, u)
           BU == Config!Bumped(o, u)
           UD == Config!Updated(o, u)
           SM == Config!SameMembers(o, u)
           AD == DOMAIN u \ DOMAIN o
           GONE == DOMAIN o \ DOMAIN u
           De == Config!Delta(up)
           M == {p \in DOMAIN c : p \notin DOMAIN o \/ p \in DOMAIN u} \cup AD
<1>t. Config!IsTree(DOMAIN c) /\ \A p \in DOMAIN c : c[p].version \in Nat
  BY DEF Config!IsConfig
<1>1. /\ DOMAIN up.read = UD \cup SM
      /\ DOMAIN up.write = AD \cup CL \cup UD \cup SM
      /\ DOMAIN up.write \subseteq DOMAIN u
      /\ De = AD \cup CL \cup BU
      /\ \A p \in De :
           /\ up.write[p].content = u[p].content
           /\ up.write[p].version = IF p \in DOMAIN o THEN o[p].version + 1 ELSE 0
  BY ComputeSets
<1>2. /\ CL = {p \in Leaves \cap DOMAIN o \cap DOMAIN u : Config!Differs(o, u, p)}
      /\ BU = {g \in Groups \cap DOMAIN o \cap DOMAIN u :
                 Config!Members(o, g) # Config!Members(u, g) \/ Config!Differs(o, u, g)}
      /\ BU \subseteq UD
      /\ SM = {p \in (DOMAIN o \cap DOMAIN u) \ ({Root} \cup CL \cup UD) : Parent[p] \in BU}
  BY DEF Config!ChangedLeaves, Config!Bumped, Config!Updated, Config!SameMembers, Config!Both
<1> HIDE DEF CL, BU, UD, SM, De
<1>3. UD \subseteq DOMAIN c /\ SM \subseteq DOMAIN c
  BY <1>1 DEF Config!Acceptable
<1>4. \A p \in De : up.write[p].version = IF p \in DOMAIN c THEN c[p].version + 1 ELSE 0
  BY DEF Config!Acceptable, De
<1>5. AD \cap DOMAIN c = {} /\ CL \subseteq DOMAIN c /\ BU \subseteq DOMAIN c
  <2>1. ASSUME NEW p \in AD
        PROVE  p \notin DOMAIN c
    <3>1. up.write[p].version = 0
      BY <1>1
    <3> QED
      BY <3>1, <1>1, <1>4, <1>t
  <2>2. ASSUME NEW p \in CL
        PROVE  p \in DOMAIN c
    <3>1. up.write[p].version = o[p].version + 1 /\ o[p].version \in Nat
      BY <1>1, <1>2
    <3> QED
      BY <3>1, <1>1, <1>4
  <2> QED
    BY <2>1, <2>2, <1>2, <1>3
\* what is added stays, and what is above it is there
<1>6. ASSUME NEW p \in AD
      PROVE  Config!Kept(c, up, p) /\ Above[p] \subseteq M
  <2>1. Above[p] \subseteq DOMAIN u /\ p \in Config!Paths
    BY TreeFacts
  <2>2. \A q \in Above[p] : q \in DOMAIN o => q \in UD
    BY AddedBelowUpdated DEF UD
  <2>3. Above[p] \subseteq M
    BY <2>1, <2>2, <1>3
  <2>4. ASSUME NEW q \in Above[p] \cup {p}, q # Root
        PROVE  Config!Listed(c, up, q)
    <3>1. q \in DOMAIN u /\ Parent[q] \in DOMAIN u /\ Parent[q] \in Groups
      BY <2>1, <2>4, TreeFacts
    <3>2. CASE q \notin DOMAIN o
      <4>1. q \in DOMAIN up.write
        BY <3>1, <3>2, <1>1
      <4>2. Parent[q] \in De
        <5>1. CASE Parent[q] \notin DOMAIN o
          BY <5>1, <3>1, <1>1
        <5>2. CASE Parent[q] \in DOMAIN o
          <6>1. q \in Config!Members(u, Parent[q]) /\ q \notin Config!Members(o, Parent[q])
            BY <3>1, <3>2, <2>4 DEF Config!Members
          <6> QED
            BY <6>1, <5>2, <3>1, <1>1, <1>2
        <5> QED
          BY <5>1, <5>2
      <4> QED
        BY <4>1, <4>2 DEF Config!Listed, De
    <3>3. CASE q \in DOMAIN o
      <4>1. q \in UD
        BY <2>2, <2>4, <3>3
      <4> QED
        BY <4>1, <1>1, <1>3 DEF Config!Listed
    <3> QED
      BY <3>2, <3>3
  <2>5. Config!Kept(c, up, p)
    BY <2>4 DEF Config!Kept, Config!Listed
  <2> QED
    BY <2>3, <2>5
\* what was there stays unless it, or a group above it, was taken away
<1>7. ASSUME NEW p \in DOMAIN c, Config!Kept(c, up, p)
      PROVE  (Above[p] \cup {p}) \cap GONE = {}
  <2> SUFFICES ASSUME (Above[p] \cup {p}) \cap GONE # {}
               PROVE  FALSE
    OBVIOUS
  <2>0. p \in Config!Paths
    BY <1>t, TreeFacts
  <2>1. (Above[p] \cup {p}) \cap GONE \in SUBSET Config!Paths
    BY TreeFacts
  <2>2. PICK q \in (Above[p] \cup {p}) \cap GONE : Above[q] \cap ((Above[p] \cup {p}) \cap GONE) = {}
    <3>1. \A T \in SUBSET Config!Paths : T # {} => \E r \in T : Above[r] \cap T = {}
      BY DEF Config!ConfigAssumption
    <3> HIDE DEF GONE
    <3> QED
      BY <3>1, <2>1, Zenon
  <2>3. Above[q] \subseteq Above[p] /\ Above[q] \subseteq DOMAIN o /\ q # Root
    BY <2>0, AboveAbove, TreeFacts
  <2>4. Above[q] \subseteq DOMAIN u
    BY <2>2, <2>3
  <2>5. Parent[q] \in Above[q] /\ Parent[q] \in Groups
    BY <2>3, TreeFacts
  <2>6. Parent[q] \in BU
    <3>1. q \in Config!Members(o, Parent[q]) /\ q \notin Config!Members(u, Parent[q])
      BY <2>3 DEF Config!Members
    <3> QED
      BY <3>1, <2>3, <2>4, <2>5, <1>2
  <2>7. q \notin DOMAIN up.write
    BY <1>1
  <2>8. Parent[q] \in De
    BY <2>6, <1>1
  <2> QED
    BY <2>3, <2>7, <2>8, <1>7 DEF Config!Kept, Config!Listed, De
<1>8. ASSUME NEW p \in DOMAIN c, (Above[p] \cup {p}) \cap GONE = {}
      PROVE  Config!Kept(c, up, p)
  <2> SUFFICES ASSUME NEW q \in Above[p] \cup {p}, q # Root, Parent[q] \in De
               PROVE  q \in DOMAIN up.write
    <3>1. Above[p] \subseteq DOMAIN c
      BY <1>t, TreeFacts
    <3> QED
      BY <3>1 DEF Config!Kept, Config!Listed, De
  <2>1. q \in DOMAIN c /\ Parent[q] \in DOMAIN c /\ Parent[q] \in Groups
    BY <1>t, TreeFacts
  <2>2. Parent[q] \in BU
    BY <2>1, <1>1, <1>2, <1>5 DEF Config!ConfigAssumption
  <2>3. q \in Config!Members(c, Parent[q])
    BY <2>1 DEF Config!Members
  <2>4. q \in DOMAIN o \cup DOMAIN u
    BY <2>2, <2>3 DEF BU
  <2>5. q \in DOMAIN o /\ q \in DOMAIN u
    BY <2>1, <2>4, <1>5, <1>8
  <2> QED
    BY <2>2, <2>5, <1>1, <1>2
<1>9. DOMAIN Config!Applied(c, up) = {p \in M : Above[p] \subseteq M}
  <2>1. DOMAIN Config!Applied(c, up) = {p \in DOMAIN c \cup AD : Config!Kept(c, up, p)}
    BY <1>1, <1>5 DEF Config!Applied, De
  <2>2. \A p \in DOMAIN c : Above[p] \subseteq DOMAIN c
    BY <1>t, TreeFacts
  <2>3. \A p \in DOMAIN c : Config!Kept(c, up, p) <=> (p \in M /\ Above[p] \subseteq M)
    <3> SUFFICES ASSUME NEW p \in DOMAIN c
                 PROVE  ((Above[p] \cup {p}) \cap GONE = {}) <=> (p \in M /\ Above[p] \subseteq M)
      BY <1>7, <1>8
    <3> QED
      BY <2>2
  <2>4. \A p \in AD : Config!Kept(c, up, p) /\ p \in M /\ Above[p] \subseteq M
    BY <1>6
  <2>5. M \subseteq DOMAIN c \cup AD
    OBVIOUS
  <2> QED
    BY <2>1, <2>3, <2>4, <2>5
<1>10. ASSUME NEW p \in DOMAIN Config!Applied(c, up)
       PROVE  Config!Applied(c, up)[p].content =
                IF p \in DOMAIN u /\ (p \notin DOMAIN o \/ Config!Differs(o, u, p))
                THEN u[p].content ELSE c[p].content
  <2>1. /\ Config!Applied(c, up)[p] = IF p \in De THEN up.write[p] ELSE c[p]
        /\ p \in DOMAIN c \cup De
    BY DEF Config!Applied, De
  <2>2. CASE p \in De
    <3>1. CASE p \in AD
      BY <3>1, <2>1, <2>2, <1>1
    <3>2. CASE p \in CL
      BY <3>2, <2>1, <2>2, <1>1, <1>2
    <3>3. CASE p \in BU
      <4>1. ~Config!Differs(o, u, p) => c[p].content = u[p].content
        BY <3>3 DEF BU
      <4>2. Config!Applied(c, up)[p].content = u[p].content /\ p \in DOMAIN o /\ p \in DOMAIN u
        BY <3>3, <2>1, <2>2, <1>1, <1>2
      <4> QED
        BY <4>1, <4>2
    <3> QED
      BY <3>1, <3>2, <3>3, <2>2, <1>1
  <2>3. CASE p \notin De
    <3>1. p \notin AD /\ p \notin CL /\ p \notin BU
      BY <2>3, <1>1
    <3>2. p \in Groups \cup Leaves
      BY <2>1, <2>3, <1>t, TreeFacts DEF Config!Paths
    <3>3. ~(p \in DOMAIN u /\ (p \notin DOMAIN o \/ Config!Differs(o, u, p)))
      BY <3>1, <3>2, <1>2
    <3> QED
      BY <3>3, <2>1, <2>3
  <2> QED
    BY <2>2, <2>3
<1> QED
  BY <1>9, <1>10 DEF Config!Contains, Config!Merge

(***************************************************************************)
(* What administrators put together: edits, a new channel, anchor peers    *)
(***************************************************************************)

\* The first configuration of a channel: what the profile has but the anchor peers, with
\* the application's group in its version 1.
AllAnchors == {Anchors[o] : o \in DOMAIN Anchors}
FirstConfig == Config!Without(Config!CreatedProfile, AllAnchors)

\* Without some paths, and what is below them, a configuration stays one.
LEMMA WithoutIsConfig ==
  ASSUME Config!ConfigAssumption, NEW c, Config!IsConfig(c), NEW gone, Root \notin gone
  PROVE  /\ Config!IsConfig(Config!Without(c, gone))
         /\ DOMAIN Config!Without(c, gone) = {p \in DOMAIN c : (Above[p] \cup {p}) \cap gone = {}}
         /\ \A p \in DOMAIN Config!Without(c, gone) : Config!Without(c, gone)[p] = c[p]
<1> DEFINE d == Config!Without(c, gone)
<1>t. Config!IsTree(DOMAIN c)
  BY DEF Config!IsConfig
<1>1. /\ DOMAIN d = {p \in DOMAIN c : (Above[p] \cup {p}) \cap gone = {}}
      /\ \A p \in DOMAIN d : d[p] = c[p]
  BY DEF Config!Without
<1>2. Root \in DOMAIN d
  BY <1>1, <1>t, TreeFacts DEF Config!ConfigAssumption
<1>3. ASSUME NEW p \in DOMAIN d, NEW q \in Above[p]
      PROVE  q \in DOMAIN d
  <2>1. p \in Config!Paths /\ q \in DOMAIN c
    BY <1>1, <1>3, <1>t, TreeFacts
  <2>2. Above[q] \subseteq Above[p]
    BY <2>1, <1>3, AboveAbove
  <2> QED
    BY <2>1, <2>2, <1>1, <1>3
<1>4. DOMAIN d \subseteq Config!Paths
  BY <1>1, <1>t, TreeFacts
<1>5. Config!IsTree(DOMAIN d)
  BY <1>2, <1>3, <1>4 DEF Config!IsTree
<1>6. Config!IsConfig(d)
  BY <1>1, <1>5 DEF Config!IsConfig
<1> QED
  BY <1>1, <1>6

\* What an administrator makes of a configuration is one.
LEMMA EditsAreConfigs ==
  ASSUME Config!ConfigAssumption, NEW o, Config!IsConfig(o), NEW u \in Config!Edits(o)
  PROVE  Config!IsConfig(u)
<1>t. Config!IsTree(DOMAIN o) /\ Config!IsTree(DOMAIN Profile)
  BY DEF Config!IsConfig, Config!ConfigAssumption
<1>1. CASE \E p \in DOMAIN o, c \in Contents : u = [o EXCEPT ![p].content = c]
  <2>1. PICK p \in DOMAIN o, c \in Contents : u = [o EXCEPT ![p].content = c]
    BY <1>1
  <2>2. DOMAIN u = DOMAIN o
    BY <2>1
  <2>3. ASSUME NEW q \in DOMAIN u
        PROVE  u[q].version \in Nat /\ u[q].content \in Contents
    <3>1. CASE q # p
      BY <3>1, <2>1, <2>3 DEF Config!IsConfig
    <3>2. CASE q = p
      <4>1. u[q] = [o[q] EXCEPT !.content = c]
        BY <3>2, <2>1
      <4>2. o[q].version \in Nat /\ o[q].content \in Contents
        BY <2>3, <2>2 DEF Config!IsConfig
      <4>3. u[q].version = o[q].version
        BY <4>1
      <4>4. u[q].content \in Contents
        BY <4>1, <4>2
      <4> QED
        BY <4>2, <4>3, <4>4
    <3> QED
      BY <3>1, <3>2
  <2> QED
    BY <2>2, <2>3, <1>t DEF Config!IsConfig
<1>2. CASE \E p \in DOMAIN o \ {Root} : u = Config!Without(o, {p})
  <2>1. PICK p \in DOMAIN o \ {Root} : u = Config!Without(o, {p})
    BY <1>2
  <2>2. Root \notin {p}
    OBVIOUS
  <2> QED
    BY <2>1, <2>2, WithoutIsConfig
<1>3. CASE \E p \in {p \in DOMAIN Profile \ DOMAIN o : Parent[p] \in DOMAIN o}, c \in Contents :
             u = [q \in DOMAIN o \cup {q \in DOMAIN Profile : p \in Above[q] \cup {q}} |->
                    IF q \in DOMAIN o THEN o[q] ELSE [version |-> 0, content |-> c]]
  <2>1. PICK p \in DOMAIN Profile \ DOMAIN o, c \in Contents :
          /\ Parent[p] \in DOMAIN o
          /\ u = [q \in DOMAIN o \cup {q \in DOMAIN Profile : p \in Above[q] \cup {q}} |->
                    IF q \in DOMAIN o THEN o[q] ELSE [version |-> 0, content |-> c]]
    BY <1>3
  <2>2. DOMAIN u = DOMAIN o \cup {q \in DOMAIN Profile : p \in Above[q] \cup {q}}
    BY <2>1
  <2>3. Root \in DOMAIN u /\ DOMAIN u \subseteq Config!Paths
    BY <2>2, <1>t, TreeFacts
  <2>4. Above[p] \subseteq DOMAIN o
    <3>1. p # Root
      BY <2>1, <1>t, TreeFacts
    <3>2. Above[p] = Above[Parent[p]] \cup {Parent[p]}
      BY <3>1, <2>1, <1>t, TreeFacts
    <3> QED
      BY <3>2, <2>1, <1>t, TreeFacts
  <2>5. ASSUME NEW q \in DOMAIN u, NEW r \in Above[q]
        PROVE  r \in DOMAIN u
    <3>1. CASE q \in DOMAIN o
      BY <3>1, <2>2, <2>5, <1>t, TreeFacts
    <3>2. CASE q \notin DOMAIN o
      <4>1. q \in DOMAIN Profile /\ p \in Above[q] \cup {q}
        BY <3>2, <2>2
      <4>2. q \in Config!Paths /\ r \in DOMAIN Profile
        BY <4>1, <2>5, <1>t, TreeFacts
      <4>3. r = p \/ r \in Above[p] \/ p \in Above[r]
        BY <4>1, <4>2, <2>5, AboveAbove
      <4> QED
        BY <4>2, <4>3, <2>2, <2>4
    <3> QED
      BY <3>1, <3>2
  <2>6. \A q \in DOMAIN u : u[q].version \in Nat /\ u[q].content \in Contents
    BY <2>1, <2>2 DEF Config!IsConfig
  <2> QED
    BY <2>3, <2>5, <2>6 DEF Config!IsConfig, Config!IsTree
<1> DEFINE Added(p, c) == [q \in DOMAIN o \cup {q \in DOMAIN Profile : p \in Above[q] \cup {q}} |->
                              IF q \in DOMAIN o THEN o[q] ELSE [version |-> 0, content |-> c]]
           Roots == {p \in DOMAIN Profile \ DOMAIN o : Parent[p] \in DOMAIN o}
           Set(p, c) == [o EXCEPT ![p].content = c]
           EA == {Set(p, c) : p \in DOMAIN o, c \in Contents}
           EB == {Config!Without(o, {p}) : p \in DOMAIN o \ {Root}}
           EC == {Added(p, c) : p \in Roots, c \in Contents}
<1>4. Config!Edits(o) = EA \cup EB \cup EC
  BY DEF Config!Edits
<1>5. u \in EA \/ u \in EB \/ u \in EC
  <2> HIDE DEF EA, EB, EC
  <2> QED
    BY <1>4
<1>6. u \in EA => \E p \in DOMAIN o, c \in Contents : u = Set(p, c)
  <2> HIDE DEF Set
  <2> QED
    OBVIOUS
<1>7. u \in EB => \E p \in DOMAIN o \ {Root} : u = Config!Without(o, {p})
  OBVIOUS
<1>8. u \in EC => \E p \in Roots, c \in Contents : u = Added(p, c)
  <2> HIDE DEF Added, Roots
  <2> QED
    OBVIOUS
<1> HIDE DEF EA, EB, EC
<1> QED
  BY <1>1, <1>2, <1>3, <1>5, <1>6, <1>7, <1>8

\* What is computed of two configurations is an update.
LEMMA ComputeIsUpdate ==
  ASSUME Config!ConfigAssumption, NEW o, NEW u, Config!IsConfig(o), Config!IsConfig(u),
         NEW up, up = Config!Compute(o, u)
  PROVE  IsUpdate(up)
<1>1. /\ Config!IsTree(DOMAIN o) /\ Config!IsTree(DOMAIN u)
      /\ \A p \in DOMAIN o : o[p].version \in Nat
      /\ \A p \in DOMAIN u : u[p].content \in Contents
  BY DEF Config!IsConfig
<1>2. /\ DOMAIN up.write \subseteq DOMAIN u
      /\ \A p \in Config!Delta(up) :
           /\ up.write[p].content = u[p].content
           /\ up.write[p].version = IF p \in DOMAIN o THEN o[p].version + 1 ELSE 0
  BY <1>1, ComputeSets
<1>3. Config!Delta(up) \subseteq DOMAIN up.write
  BY DEF Config!Delta
<1>4. DOMAIN u \subseteq Config!Paths
  BY <1>1, TreeFacts
<1> QED
  BY <1>1, <1>2, <1>3, <1>4 DEF IsUpdate

\* What is above an updated group, or a changed leaf, is updated.
LEMMA AboveUpdated ==
  ASSUME Config!ConfigAssumption, NEW o, NEW u,
         Config!IsTree(DOMAIN o), Config!IsTree(DOMAIN u),
         NEW p \in Config!Updated(o, u) \cup Config!ChangedLeaves(o, u), NEW q \in Above[p]
  PROVE  q \in Config!Updated(o, u)
<1>1. Config!Bumped(o, u) \subseteq Config!Both(o, u)
  BY DEF Config!Bumped
<1>2. Config!ChangedLeaves(o, u) \subseteq Config!Both(o, u)
  BY DEF Config!ChangedLeaves
<1>3. p \in Config!Both(o, u)
  BY <1>1, <1>2 DEF Config!Updated
<1>4. p \in Config!Paths /\ q \in Config!Both(o, u)
  BY <1>3, TreeFacts DEF Config!Both
<1>5. q \in Groups /\ Above[q] \subseteq Above[p]
  BY <1>4, AboveAbove
<1>6. CASE p \in Config!ChangedLeaves(o, u) \cup Config!Bumped(o, u)
  BY <1>6, <1>4, <1>5 DEF Config!Updated
<1>7. CASE p \notin Config!ChangedLeaves(o, u) \cup Config!Bumped(o, u)
  <2>1. PICK t \in Config!ChangedLeaves(o, u) \cup Config!Bumped(o, u) : p \in Above[t]
    BY <1>7 DEF Config!Updated
  <2>2. t \in Config!Paths
    BY <2>1, <1>1, <1>2, TreeFacts DEF Config!Both
  <2>3. q \in Above[t]
    BY <2>1, <2>2, AboveAbove
  <2> QED
    BY <2>1, <2>3, <1>4, <1>5 DEF Config!Updated
<1> QED
  BY <1>6, <1>7

\* When an edit is accepted, all it touches is as it was read.
LEMMA EditAgrees ==
  ASSUME Config!ConfigAssumption, NEW o, NEW u, NEW c,
         Config!IsConfig(o), Config!IsConfig(u), Config!IsConfig(c), Later(o, c),
         NEW up, up = Config!Compute(o, u), Config!Acceptable(c, up)
  PROVE  /\ \A g \in Config!Updated(o, u) : c[g] = o[g] /\ Config!Members(c, g) = Config!Members(o, g)
         /\ \A p \in Config!ChangedLeaves(o, u) \cup Config!Bumped(o, u) :
              p \in DOMAIN c /\ c[p] = o[p]
         /\ \A p \in DOMAIN u \ DOMAIN o : p \notin DOMAIN c
<1> DEFINE CL == Config!ChangedLeaves(o, u)
           BU == Config!Bumped(o, u)
           UD == Config!Updated(o, u)
           De == Config!Delta(up)
<1>t. /\ Config!IsTree(DOMAIN o) /\ Config!IsTree(DOMAIN u) /\ Config!IsTree(DOMAIN c)
      /\ \A p \in DOMAIN o : o[p].version \in Nat
      /\ \A p \in DOMAIN c : c[p].version \in Nat
  BY DEF Config!IsConfig
<1>1. /\ DOMAIN up.read = UD \cup Config!SameMembers(o, u)
      /\ \A p \in DOMAIN up.read : up.read[p] = o[p].version /\ p \in DOMAIN o \cap DOMAIN u
      /\ De = (DOMAIN u \ DOMAIN o) \cup CL \cup BU
      /\ \A p \in De :
           up.write[p].version = IF p \in DOMAIN o THEN o[p].version + 1 ELSE 0
  BY <1>t, ComputeSets
<1>2. BU \subseteq UD /\ UD \subseteq Groups /\ CL \subseteq DOMAIN o
  BY DEF Config!Updated, Config!Bumped, Config!ChangedLeaves, Config!Both
<1>3. \A p \in UD \cup CL : Above[p] \subseteq UD
  BY <1>t, AboveUpdated
<1> HIDE DEF CL, BU, UD, De
<1>4. \A p \in UD : p \in DOMAIN c /\ c[p].version = o[p].version /\ p \in DOMAIN o
  BY <1>1 DEF Config!Acceptable
<1>5. \A p \in UD \cup CL : SameAbove(o, c, p)
  BY <1>3, <1>4 DEF SameAbove
<1>6. \A p \in De : up.write[p].version = IF p \in DOMAIN c THEN c[p].version + 1 ELSE 0
  BY DEF Config!Acceptable, De
<1>7. ASSUME NEW g \in UD
      PROVE  c[g] = o[g] /\ Config!Members(c, g) = Config!Members(o, g)
  BY <1>2, <1>4, <1>5 DEF Later, Grown
<1>8. ASSUME NEW p \in CL
      PROVE  p \in DOMAIN c /\ c[p] = o[p]
  <2>1. p \in DOMAIN o /\ o[p].version \in Nat /\ p \in De
    BY <1>1, <1>2, <1>t
  <2>2. up.write[p].version = o[p].version + 1
    BY <2>1, <1>1
  <2>3. p \in DOMAIN c
    BY <2>1, <2>2, <1>6
  <2>4. c[p].version + 1 = o[p].version + 1 /\ c[p].version \in Nat
    BY <2>1, <2>2, <2>3, <1>6, <1>t
  <2>5. c[p].version = o[p].version
    BY <2>1, <2>4
  <2> QED
    BY <2>1, <2>3, <2>5, <1>5 DEF Later, Grown
<1>9. ASSUME NEW p \in DOMAIN u \ DOMAIN o
      PROVE  p \notin DOMAIN c
  <2>1. p \in De /\ up.write[p].version = 0
    BY <1>1
  <2> QED
    BY <2>1, <1>6, <1>t
<1> QED
  BY <1>2, <1>4, <1>7, <1>8, <1>9 DEF CL, BU, UD

\* An update that was computed of what an administrator saw and what it made of it, when it is
\* accepted later: it changes what was edited and leaves the rest as others made it, and what
\* was edited was still what the administrator saw (update.Compute and the check of versions).
THEOREM EditMerges ==
  ASSUME Config!ConfigAssumption, NEW o, NEW u, NEW c,
         Config!IsConfig(o), Config!IsConfig(u), Config!IsConfig(c), Later(o, c),
         NEW up, up = Config!Compute(o, u), Config!Acceptable(c, up)
  PROVE  /\ Config!Contains(Config!Applied(c, up)) = Config!Merge(o, u, c)
         /\ \A p \in DOMAIN u :
              /\ p \in Config!Both(o, u) /\ Config!Differs(o, u, p) =>
                   p \in DOMAIN c /\ c[p] = o[p]
              /\ p \notin DOMAIN o => p \notin DOMAIN c
<1>t. /\ Config!IsTree(DOMAIN o) /\ Config!IsTree(DOMAIN u)
      /\ \A p \in DOMAIN o : o[p].version \in Nat
  BY DEF Config!IsConfig
<1>1. /\ \A g \in Config!Updated(o, u) : c[g] = o[g] /\ Config!Members(c, g) = Config!Members(o, g)
      /\ \A p \in Config!ChangedLeaves(o, u) \cup Config!Bumped(o, u) :
           p \in DOMAIN c /\ c[p] = o[p]
      /\ \A p \in DOMAIN u \ DOMAIN o : p \notin DOMAIN c
  BY EditAgrees
<1>2. \A g \in Config!Bumped(o, u) :
        /\ Config!Members(c, g) \subseteq DOMAIN o \cup DOMAIN u
        /\ ~Config!Differs(o, u, g) => c[g].content = u[g].content
  <2> SUFFICES ASSUME NEW g \in Config!Bumped(o, u)
               PROVE  /\ Config!Members(c, g) \subseteq DOMAIN o \cup DOMAIN u
                      /\ ~Config!Differs(o, u, g) => c[g].content = u[g].content
    OBVIOUS
  <2>1. g \in Config!Updated(o, u)
    BY DEF Config!Updated
  <2>2. Config!Members(c, g) = Config!Members(o, g) /\ c[g] = o[g]
    BY <2>1, <1>1
  <2> QED
    BY <2>2 DEF Config!Members, Config!Differs
<1>3. Config!Contains(Config!Applied(c, up)) = Config!Merge(o, u, c)
  BY <1>t, <1>2, MergeOfUpdate
<1>4. ASSUME NEW p \in DOMAIN u, p \in Config!Both(o, u), Config!Differs(o, u, p)
      PROVE  p \in DOMAIN c /\ c[p] = o[p]
  <2>1. p \in Groups \cup Leaves
    BY <1>t, TreeFacts DEF Config!Paths
  <2>2. p \in Config!ChangedLeaves(o, u) \cup Config!Bumped(o, u)
    BY <2>1, <1>4 DEF Config!ChangedLeaves, Config!Bumped
  <2> QED
    BY <2>2, <1>1
<1> QED
  BY <1>1, <1>3, <1>4

\* The profile as a configuration, without the application's own leaves, and as it is
\* after the creation of the channel.
LEMMA ProfileConfigs ==
  ASSUME Config!ConfigAssumption
  PROVE  /\ Config!IsConfig(Config!ChannelGroup) /\ Config!IsConfig(Config!Template)
         /\ Config!IsConfig(Config!CreatedProfile)
         /\ DOMAIN Config!ChannelGroup = DOMAIN Profile
         /\ \A p \in DOMAIN Profile :
              Config!ChannelGroup[p] = [version |-> 0, content |-> Profile[p]]
         /\ DOMAIN Config!CreatedProfile = DOMAIN Profile
         /\ \A p \in DOMAIN Profile :
              Config!CreatedProfile[p] = [version |-> IF p = Application THEN 1 ELSE 0,
                                          content |-> Profile[p]]
         /\ DOMAIN Config!Template =
              {p \in DOMAIN Profile : p \in Groups \/ Parent[p] # Application}
         /\ \A p \in DOMAIN Config!Template :
              Config!Template[p] = [version |-> 0, content |-> Profile[p]]
<1>1. /\ DOMAIN Config!ChannelGroup = DOMAIN Profile
      /\ \A p \in DOMAIN Profile :
           Config!ChannelGroup[p] = [version |-> 0, content |-> Profile[p]]
  BY DEF Config!ChannelGroup, Config!At0
<1>2. /\ DOMAIN Config!CreatedProfile = DOMAIN Profile
      /\ \A p \in DOMAIN Profile :
           Config!CreatedProfile[p] = [version |-> IF p = Application THEN 1 ELSE 0,
                                       content |-> Profile[p]]
  <2>1. Application \in DOMAIN Profile
    BY DEF Config!ConfigAssumption
  <2>2. DOMAIN Config!CreatedProfile = DOMAIN Profile
    BY <1>1 DEF Config!CreatedProfile
  <2>3. \A p \in DOMAIN Profile \ {Application} :
          Config!CreatedProfile[p] = Config!ChannelGroup[p]
    BY <1>1 DEF Config!CreatedProfile
  <2>4. Config!CreatedProfile[Application] =
          [Config!ChannelGroup[Application] EXCEPT !.version = 1]
    BY <1>1, <2>1 DEF Config!CreatedProfile
  <2>5. Config!CreatedProfile[Application] = [version |-> 1, content |-> Profile[Application]]
    BY <1>1, <2>1, <2>4
  <2> QED
    BY <1>1, <2>2, <2>3, <2>5
<1>3. /\ DOMAIN Config!Template =
           {p \in DOMAIN Profile : p \in Groups \/ Parent[p] # Application}
      /\ \A p \in DOMAIN Config!Template :
           Config!Template[p] = [version |-> 0, content |-> Profile[p]]
  BY DEF Config!Template, Config!At0
<1>4. Config!IsTree(DOMAIN Profile) /\ \A p \in DOMAIN Profile : Profile[p] \in Contents
  BY DEF Config!ConfigAssumption
<1>5. Config!IsConfig(Config!ChannelGroup)
  BY <1>1, <1>4 DEF Config!IsConfig
<1>6. Config!IsConfig(Config!CreatedProfile)
  <2>1. \A p \in DOMAIN Profile : (IF p = Application THEN 1 ELSE 0) \in Nat
    OBVIOUS
  <2> QED
    BY <2>1, <1>2, <1>4 DEF Config!IsConfig
<1>7. Config!IsConfig(Config!Template)
  <2>1. Root \in Groups /\ \A p \in Config!Paths : Above[p] \subseteq Groups
    BY DEF Config!ConfigAssumption
  <2>2. Config!IsTree(DOMAIN Config!Template)
    BY <1>3, <1>4, <2>1 DEF Config!IsTree
  <2>3. ASSUME NEW p \in DOMAIN Config!Template
        PROVE  Config!Template[p].version \in Nat /\ Config!Template[p].content \in Contents
    <3>1. p \in DOMAIN Profile /\ Profile[p] \in Contents
      BY <1>3, <1>4
    <3>2. Config!Template[p] = [version |-> 0, content |-> Profile[p]]
      BY <1>3
    <3> QED
      BY <3>1, <3>2
  <2> QED
    BY <2>2, <2>3 DEF Config!IsConfig
<1> QED
  BY <1>1, <1>2, <1>3, <1>5, <1>6, <1>7

\* An anchor peers leaf is in the group of its organization, and above nothing.
LEMMA AnchorFacts ==
  ASSUME Config!ConfigAssumption
  PROVE  /\ \A l \in AllAnchors :
              /\ l \in Leaves /\ l \notin Groups /\ l # Root
              /\ Parent[l] # Application /\ Parent[l] \in Groups
         /\ \A p \in Config!Paths : Above[p] \cap AllAnchors = {}
         /\ \A org \in DOMAIN Anchors :
              /\ org \in Groups /\ org # Root /\ org # Application /\ Parent[org] = Application
              /\ Anchors[org] \in AllAnchors /\ Parent[Anchors[org]] = org
         /\ Application \in Groups /\ Application # Root /\ Application \in DOMAIN Profile
<1>1. \A org \in DOMAIN Anchors :
        /\ org \in Groups \ {Root} /\ Parent[org] = Application
        /\ Anchors[org] \in Leaves /\ Parent[Anchors[org]] = org
  BY DEF Config!ConfigAssumption
<1>2. Root \in Groups /\ Groups \cap Leaves = {} /\ Application \in (Groups \cap DOMAIN Profile) \ {Root}
  BY DEF Config!ConfigAssumption
<1>3. \A org \in DOMAIN Anchors : org # Application
  <2>1. \A p \in Config!Paths : p \notin Above[p]
    BY AboveAbove
  <2>2. Application \in Config!Paths /\ Parent[Application] \in Above[Application]
    BY DEF Config!ConfigAssumption, Config!Paths
  <2>3. Parent[Application] # Application
    BY <2>1, <2>2
  <2> QED
    BY <2>3, <1>1
<1>4. \A p \in Config!Paths : Above[p] \subseteq Groups
  BY AboveAbove
<1> QED
  BY <1>1, <1>2, <1>3, <1>4 DEF AllAnchors

\* The profile without anchors, and the template it is created from, are configurations.
LEMMA FirstIsConfig ==
  ASSUME Config!ConfigAssumption
  PROVE  /\ Config!IsConfig(FirstConfig) /\ Config!IsConfig(Config!Uncreated)
         /\ DOMAIN FirstConfig = DOMAIN Profile \ AllAnchors
         /\ \A p \in DOMAIN FirstConfig : FirstConfig[p] = Config!CreatedProfile[p]
         /\ DOMAIN Config!Uncreated = DOMAIN Config!Template \ AllAnchors
         /\ \A p \in DOMAIN Config!Uncreated : Config!Uncreated[p] = Config!Template[p]
<1>1. Root \notin AllAnchors
  BY AnchorFacts
<1>2. /\ Config!IsConfig(Config!CreatedProfile) /\ Config!IsConfig(Config!Template)
      /\ DOMAIN Config!CreatedProfile = DOMAIN Profile
  BY ProfileConfigs
<1>3. /\ Config!IsConfig(FirstConfig)
      /\ DOMAIN FirstConfig = {p \in DOMAIN Config!CreatedProfile :
                                  (Above[p] \cup {p}) \cap AllAnchors = {}}
      /\ \A p \in DOMAIN FirstConfig : FirstConfig[p] = Config!CreatedProfile[p]
  <2> DEFINE c == Config!CreatedProfile
             gone == AllAnchors
  <2>1. Config!IsConfig(c) /\ Root \notin gone
    BY <1>1, <1>2
  <2> HIDE DEF c, gone
  <2>2. /\ Config!IsConfig(Config!Without(c, gone))
        /\ DOMAIN Config!Without(c, gone) = {p \in DOMAIN c : (Above[p] \cup {p}) \cap gone = {}}
        /\ \A p \in DOMAIN Config!Without(c, gone) : Config!Without(c, gone)[p] = c[p]
    BY <2>1, WithoutIsConfig
  <2> QED
    BY <2>2 DEF c, gone, FirstConfig
<1>4. Config!Uncreated = Config!Without(Config!Template, AllAnchors)
  BY DEF Config!Uncreated, AllAnchors
<1>5. /\ Config!IsConfig(Config!Uncreated)
      /\ DOMAIN Config!Uncreated =
           {p \in DOMAIN Config!Template : (Above[p] \cup {p}) \cap AllAnchors = {}}
      /\ \A p \in DOMAIN Config!Uncreated : Config!Uncreated[p] = Config!Template[p]
  <2> DEFINE c == Config!Template
             gone == AllAnchors
  <2>1. Config!IsConfig(c) /\ Root \notin gone
    BY <1>1, <1>2
  <2> HIDE DEF c, gone
  <2>2. /\ Config!IsConfig(Config!Without(c, gone))
        /\ DOMAIN Config!Without(c, gone) = {p \in DOMAIN c : (Above[p] \cup {p}) \cap gone = {}}
        /\ \A p \in DOMAIN Config!Without(c, gone) : Config!Without(c, gone)[p] = c[p]
    BY <2>1, WithoutIsConfig
  <2> QED
    BY <2>2, <1>4 DEF c, gone
<1>6. DOMAIN Profile \subseteq Config!Paths /\ DOMAIN Config!Template \subseteq Config!Paths
  BY <1>2, TreeFacts DEF Config!IsConfig
<1>7. \A p \in Config!Paths : Above[p] \cap AllAnchors = {}
  BY AnchorFacts
<1>8. DOMAIN FirstConfig = DOMAIN Profile \ AllAnchors
  <2> HIDE DEF AllAnchors, FirstConfig
  <2> QED
    BY <1>2, <1>3, <1>6, <1>7
<1>9. DOMAIN Config!Uncreated = DOMAIN Config!Template \ AllAnchors
  <2> HIDE DEF AllAnchors
  <2> QED
    BY <1>5, <1>6, <1>7
<1> QED
  BY <1>3, <1>5, <1>8, <1>9

\* The update that creates a channel, of the application's group and its leaves
LEMMA CreateSets ==
  ASSUME Config!ConfigAssumption
  PROVE  /\ Config!ChangedLeaves(Config!Template, Config!ChannelGroup) = {}
         /\ Config!Bumped(Config!Template, Config!ChannelGroup) = {Application}
         /\ Application \in Config!Updated(Config!Template, Config!ChannelGroup)
         /\ \A q \in Above[Application] :
              q \in Config!Updated(Config!Template, Config!ChannelGroup)
<1> DEFINE o == Config!Template
           u == Config!ChannelGroup
<1>1. /\ Config!IsConfig(u) /\ Config!IsConfig(o) /\ DOMAIN u = DOMAIN Profile
      /\ DOMAIN o = {p \in DOMAIN Profile : p \in Groups \/ Parent[p] # Application}
      /\ \A p \in DOMAIN o : o[p] = u[p]
  BY ProfileConfigs
<1>2. Config!IsTree(DOMAIN o) /\ Config!IsTree(DOMAIN u)
  BY <1>1 DEF Config!IsConfig
<1> HIDE DEF o, u
<1>3. \A p : ~(p \in Config!Both(o, u) /\ Config!Differs(o, u, p))
  BY <1>1 DEF Config!Both, Config!Differs
<1>4. Config!ChangedLeaves(o, u) = {}
  BY <1>3 DEF Config!ChangedLeaves
<1>5. Application \in Groups /\ Application # Root /\ Application \in DOMAIN Profile
  BY AnchorFacts
<1>6. PICK l \in Leaves \cap DOMAIN Profile : Parent[l] = Application
  BY DEF Config!ConfigAssumption
<1>7. l \notin Groups /\ l # Root
  BY DEF Config!ConfigAssumption
<1>8. Config!Members(o, Application) # Config!Members(u, Application)
  <2>1. l \in Config!Members(u, Application) /\ l \notin Config!Members(o, Application)
    BY <1>1, <1>6, <1>7 DEF Config!Members
  <2> QED
    BY <2>1
<1>9. Application \in Config!Bumped(o, u)
  BY <1>1, <1>5, <1>8 DEF Config!Bumped, Config!Both
<1>10. ASSUME NEW g \in Config!Bumped(o, u)
       PROVE  g = Application
  <2>1. Config!Members(o, g) # Config!Members(u, g)
    BY <1>3 DEF Config!Bumped
  <2>2. DOMAIN o \subseteq DOMAIN u
    BY <1>1
  <2>3. PICK p \in DOMAIN u \ {Root} : Parent[p] = g /\ p \notin DOMAIN o
    BY <2>1, <2>2 DEF Config!Members
  <2> QED
    BY <2>3, <1>1
<1>11. Application \in Config!Updated(o, u)
  BY <1>9 DEF Config!Updated
<1>12. \A q \in Above[Application] : q \in Config!Updated(o, u)
  BY <1>2, <1>11, AboveUpdated
<1>13. Config!Bumped(o, u) = {Application}
  BY <1>9, <1>10
<1> QED
  BY <1>4, <1>11, <1>12, <1>13 DEF o, u

\* It creates the channel as it was planned,
LEMMA CreateMakes ==
  ASSUME Config!ConfigAssumption,
         NEW up, up = Config!Compute(Config!Template, Config!ChannelGroup),
         Config!Acceptable(Config!Uncreated, up)
  PROVE  /\ Config!Applied(Config!Uncreated, up) = FirstConfig
         /\ Config!Contains(Config!Applied(Config!Uncreated, up)) =
              Config!Merge(Config!Template, Config!ChannelGroup, Config!Uncreated)
<1> DEFINE o == Config!Template
           u == Config!ChannelGroup
           c == Config!Uncreated
           e == Config!Applied(c, up)
<1>1. /\ Config!IsConfig(u) /\ Config!IsConfig(o) /\ DOMAIN u = DOMAIN Profile
      /\ DOMAIN o = {p \in DOMAIN Profile : p \in Groups \/ Parent[p] # Application}
      /\ \A p \in DOMAIN o : o[p] = u[p]
      /\ \A p \in DOMAIN Profile : u[p] = [version |-> 0, content |-> Profile[p]]
      /\ \A p \in DOMAIN Profile :
           Config!CreatedProfile[p] = [version |-> IF p = Application THEN 1 ELSE 0,
                                       content |-> Profile[p]]
  BY ProfileConfigs
<1>2. /\ Config!IsTree(DOMAIN o) /\ Config!IsTree(DOMAIN u)
      /\ \A p \in DOMAIN o : o[p].version \in Nat
  BY <1>1 DEF Config!IsConfig
<1>3. /\ Config!IsConfig(c) /\ DOMAIN c = DOMAIN o \ AllAnchors
      /\ \A p \in DOMAIN c : c[p] = o[p]
      /\ DOMAIN FirstConfig = DOMAIN Profile \ AllAnchors
      /\ \A p \in DOMAIN FirstConfig : FirstConfig[p] = Config!CreatedProfile[p]
  BY FirstIsConfig
<1>4. Config!ChangedLeaves(o, u) = {} /\ Config!Bumped(o, u) = {Application}
  BY CreateSets
<1>5. up = Config!Compute(o, u) /\ Config!Acceptable(c, up)
  OBVIOUS
<1> HIDE DEF o, u, c
<1>6. /\ Config!Delta(up) = (DOMAIN u \ DOMAIN o) \cup {Application}
      /\ \A p \in Config!Delta(up) :
           up.write[p].version = IF p \in DOMAIN o THEN o[p].version + 1 ELSE 0
  BY <1>2, <1>4, <1>5, ComputeSets
<1>7. Application \in Groups /\ Application # Root /\ Application \in DOMAIN Profile
  BY AnchorFacts
<1>8. \A g \in Config!Bumped(o, u) :
        /\ Config!Members(c, g) \subseteq DOMAIN o \cup DOMAIN u
        /\ ~Config!Differs(o, u, g) => c[g].content = u[g].content
  <2>1. Config!Members(c, Application) \subseteq DOMAIN c
    BY DEF Config!Members
  <2>2. Application \in DOMAIN o /\ Application \notin AllAnchors
    BY <1>1, <1>7, AnchorFacts
  <2>3. c[Application] = u[Application]
    BY <2>2, <1>1, <1>3
  <2> QED
    BY <2>1, <2>3, <1>3, <1>4
<1>9. Config!Contains(e) = Config!Merge(o, u, c)
  BY <1>2, <1>3, <1>5, <1>8, MergeOfUpdate
<1> HIDE DEF e
<1>10. DOMAIN e = DOMAIN Config!Merge(o, u, c)
  BY <1>9 DEF Config!Contains
<1> DEFINE M == {p \in DOMAIN c : p \notin DOMAIN o \/ p \in DOMAIN u} \cup (DOMAIN u \ DOMAIN o)
<1>11. DOMAIN e = {p \in M : Above[p] \subseteq M}
  BY <1>10 DEF Config!Merge
<1>12. M = DOMAIN Profile \ AllAnchors
  <2>1. \A p \in AllAnchors : Parent[p] # Application
    BY AnchorFacts
  <2> QED
    BY <2>1, <1>1, <1>3
<1>13. DOMAIN e = DOMAIN Profile \ AllAnchors
  <2>1. \A p \in DOMAIN Profile : Above[p] \subseteq DOMAIN Profile /\ p \in Config!Paths
    BY <1>1, <1>2, TreeFacts
  <2>2. \A p \in Config!Paths : Above[p] \cap AllAnchors = {}
    BY AnchorFacts
  <2> HIDE DEF M
  <2> QED
    BY <2>1, <2>2, <1>11, <1>12
<1>14. ASSUME NEW p \in DOMAIN e
       PROVE  e[p] = FirstConfig[p]
  <2>1. /\ e[p] = IF p \in Config!Delta(up) THEN up.write[p] ELSE c[p]
        /\ p \in DOMAIN c \cup Config!Delta(up)
    BY DEF e, Config!Applied
  <2>2. FirstConfig[p] = [version |-> IF p = Application THEN 1 ELSE 0, content |-> Profile[p]]
        /\ p \in DOMAIN Profile
    BY <1>1, <1>3, <1>13
  <2>3. CASE p \in Config!Delta(up)
    <3>1. /\ p \in DOMAIN up.write /\ p \notin Config!SameMembers(o, u)
          /\ up.write[p] = [version |-> Config!NewVersion(o, u, p), content |-> u[p].content]
      <4>1. up.write = Config!WriteSet(o, u)
        BY <1>5 DEF Config!Compute
      <4>2. p \in DOMAIN up.write
        BY <2>3 DEF Config!Delta
      <4>3. p \notin Config!SameMembers(o, u)
        BY <2>3, <1>4, <1>6 DEF Config!SameMembers, Config!Both, Config!Updated
      <4> QED
        BY <4>1, <4>2, <4>3 DEF Config!WriteSet
    <3>2. up.write[p].version = IF p \in DOMAIN o THEN o[p].version + 1 ELSE 0
      BY <2>3, <1>6
    <3>3. up.write[p].version = Config!NewVersion(o, u, p)
      BY <3>1
    <3>4. u[p].content = Profile[p]
      BY <2>2, <1>1
    <3>5. (IF p \in DOMAIN o THEN o[p].version + 1 ELSE 0) = IF p = Application THEN 1 ELSE 0
      <4>1. CASE p = Application
        BY <4>1, <1>1, <1>7
      <4>2. CASE p # Application
        BY <4>2, <2>3, <1>6
      <4> QED
        BY <4>1, <4>2
    <3> QED
      BY <2>1, <2>2, <2>3, <3>1, <3>2, <3>3, <3>4, <3>5
  <2>4. CASE p \notin Config!Delta(up)
    <3>1. p # Application /\ p \in DOMAIN c
      BY <2>1, <2>4, <1>6
    <3> QED
      BY <3>1, <2>1, <2>2, <2>4, <1>1, <1>3
  <2> QED
    BY <2>3, <2>4
<1>15. e = FirstConfig
  <2>1. e = [p \in DOMAIN e |-> e[p]]
    BY DEF e, Config!Applied
  <2>2. FirstConfig = [p \in DOMAIN FirstConfig |-> FirstConfig[p]]
    BY DEF FirstConfig, Config!Without
  <2> HIDE DEF FirstConfig
  <2> QED
    BY <2>1, <2>2, <1>3, <1>13, <1>14
<1> QED
  BY <1>9, <1>15 DEF e, o, u, c

\* and only once.
LEMMA CreatedOnce ==
  ASSUME Config!ConfigAssumption, NEW c, Config!IsConfig(c), Later(FirstConfig, c),
         NEW up, up = Config!Compute(Config!Template, Config!ChannelGroup),
         Config!Acceptable(c, up)
  PROVE  FALSE
<1> DEFINE o == Config!Template
           u == Config!ChannelGroup
<1>1. /\ Config!IsConfig(u) /\ Config!IsConfig(o)
      /\ \A p \in DOMAIN o : o[p].version = 0 /\ p \in DOMAIN Profile
      /\ \A p \in DOMAIN Profile :
           Config!CreatedProfile[p] = [version |-> IF p = Application THEN 1 ELSE 0,
                                       content |-> Profile[p]]
  BY ProfileConfigs
<1>2. /\ Config!IsTree(DOMAIN o) /\ Config!IsTree(DOMAIN u)
      /\ \A p \in DOMAIN o : o[p].version \in Nat
  BY <1>1 DEF Config!IsConfig
<1>3. Application \in Config!Updated(o, u) /\ \A q \in Above[Application] : q \in Config!Updated(o, u)
  BY CreateSets
<1>4. up = Config!Compute(o, u)
  OBVIOUS
<1> HIDE DEF o, u
<1>5. /\ Config!Updated(o, u) \subseteq DOMAIN up.read
      /\ \A p \in DOMAIN up.read : up.read[p] = o[p].version /\ p \in DOMAIN o
  BY <1>2, <1>4, ComputeSets
<1>6. \A p \in Above[Application] \cup {Application} :
        p \in DOMAIN c /\ c[p].version = 0 /\ p \in DOMAIN Profile
  BY <1>1, <1>3, <1>5 DEF Config!Acceptable
<1>7. /\ DOMAIN FirstConfig = DOMAIN Profile \ AllAnchors
      /\ \A p \in DOMAIN FirstConfig : FirstConfig[p] = Config!CreatedProfile[p]
  BY FirstIsConfig
<1>8. /\ Application \in Groups /\ Application \in Config!Paths
      /\ Application \notin AllAnchors /\ Above[Application] \cap AllAnchors = {}
      /\ Application \notin Above[Application]
  BY AnchorFacts, AboveAbove DEF Config!Paths
<1>9. \A p \in Above[Application] \cup {Application} :
        /\ p \in DOMAIN FirstConfig
        /\ FirstConfig[p].version = IF p = Application THEN 1 ELSE 0
  <2> SUFFICES ASSUME NEW p \in Above[Application] \cup {Application}
               PROVE  /\ p \in DOMAIN FirstConfig
                      /\ FirstConfig[p].version = IF p = Application THEN 1 ELSE 0
    OBVIOUS
  <2>1. p \in DOMAIN FirstConfig
    BY <1>6, <1>7, <1>8
  <2>2. FirstConfig[p] = [version |-> IF p = Application THEN 1 ELSE 0, content |-> Profile[p]]
    BY <2>1, <1>1, <1>6, <1>7
  <2> QED
    BY <2>1, <2>2
<1> HIDE DEF FirstConfig
<1>10. SameAbove(FirstConfig, c, Application)
  BY <1>6, <1>8, <1>9 DEF SameAbove
<1>11. Grown(FirstConfig, c, Application)
  BY <1>6, <1>9, <1>10 DEF Later
<1> QED
  BY <1>6, <1>9, <1>11 DEF Grown

\* The update with the anchor peers of an organization, of its group and their leaf
AnchorUpdate(org, o, u) ==
  /\ Config!IsConfig(o) /\ Config!IsConfig(u)
  /\ DOMAIN u = DOMAIN Profile /\ DOMAIN o = DOMAIN Profile \ {Anchors[org]}
  /\ \A p \in DOMAIN o : o[p] = u[p]
  /\ \A p \in DOMAIN FirstConfig : FirstConfig[p] = u[p]
  /\ Config!ChangedLeaves(o, u) = {} /\ Config!Bumped(o, u) = {org}
  /\ Config!Updated(o, u) = {org} \cup Above[org]

\* Setting the anchors of an organization updates the organization, and nothing else.
LEMMA AnchorSets ==
  ASSUME Config!ConfigAssumption, NEW org \in DOMAIN Anchors, Anchors[org] \in DOMAIN Profile
  PROVE  AnchorUpdate(org, Config!Without(Config!CreatedProfile, {Anchors[org]}),
                      Config!CreatedProfile)
<1> DEFINE leaf == Anchors[org]
           gone == {leaf}
           u == Config!CreatedProfile
           o == Config!Without(u, gone)
<1>1. Config!IsConfig(u) /\ DOMAIN u = DOMAIN Profile
  BY ProfileConfigs
<1>f. \A p \in DOMAIN FirstConfig : FirstConfig[p] = u[p]
  BY FirstIsConfig
<1>2. /\ leaf \in AllAnchors /\ leaf # Root /\ leaf \in Leaves /\ leaf \notin Groups
      /\ org \in Groups /\ org # Root /\ Parent[leaf] = org
  BY AnchorFacts
<1>3. /\ Config!IsConfig(o)
      /\ DOMAIN o = {p \in DOMAIN u : (Above[p] \cup {p}) \cap gone = {}}
      /\ \A p \in DOMAIN o : o[p] = u[p]
  <2>1. Root \notin gone
    BY <1>2
  <2> HIDE DEF gone, u
  <2> QED
    BY <2>1, <1>1, WithoutIsConfig
<1>g. leaf \in DOMAIN Profile
  OBVIOUS
<1> HIDE DEF leaf, u, o
<1>t. Config!IsTree(DOMAIN o) /\ Config!IsTree(DOMAIN u)
  BY <1>1, <1>3 DEF Config!IsConfig
<1>4. DOMAIN o = DOMAIN Profile \ {leaf}
  <2>1. \A p \in DOMAIN u : p \in Config!Paths
    BY <1>t, TreeFacts
  <2>2. \A p \in Config!Paths : leaf \notin Above[p]
    BY <1>2, AboveAbove
  <2> QED
    BY <2>1, <2>2, <1>1, <1>3
<1>5. \A p : ~(p \in Config!Both(o, u) /\ Config!Differs(o, u, p))
  BY <1>3 DEF Config!Both, Config!Differs
<1>6. Config!ChangedLeaves(o, u) = {}
  BY <1>5 DEF Config!ChangedLeaves
<1>7. leaf \in DOMAIN u
  BY <1>1, <1>g
<1>8. org \in DOMAIN u /\ Above[leaf] = Above[org] \cup {org} /\ Above[leaf] \subseteq DOMAIN u
  BY <1>2, <1>7, <1>t, TreeFacts
<1>9. org \in Config!Bumped(o, u)
  <2>1. leaf \in Config!Members(u, org) /\ leaf \notin Config!Members(o, org)
    BY <1>2, <1>4, <1>7 DEF Config!Members
  <2>2. org \in DOMAIN o
    BY <1>1, <1>2, <1>4, <1>8
  <2> QED
    BY <2>1, <2>2, <1>2, <1>8 DEF Config!Bumped, Config!Both
<1>10. ASSUME NEW g \in Config!Bumped(o, u)
       PROVE  g = org
  <2>1. Config!Members(o, g) # Config!Members(u, g)
    BY <1>5 DEF Config!Bumped
  <2>2. PICK p \in DOMAIN u \ {Root} : Parent[p] = g /\ p \notin DOMAIN o
    BY <2>1, <1>1, <1>4 DEF Config!Members
  <2> QED
    BY <2>2, <1>1, <1>2, <1>4
<1>11. Config!Bumped(o, u) = {org}
  BY <1>9, <1>10
<1>12. Config!Updated(o, u) = {org} \cup Above[org]
  <2>1. Above[org] \subseteq Groups /\ Above[org] \subseteq DOMAIN u
    BY <1>t, <1>8, TreeFacts, AboveAbove
  <2>2. Above[org] \subseteq DOMAIN o
    BY <2>1, <1>1, <1>2, <1>4
  <2> QED
    BY <2>1, <2>2, <1>6, <1>11 DEF Config!Updated, Config!Both
<1>13. DOMAIN o = DOMAIN Profile \ {Anchors[org]}
  BY <1>4 DEF leaf
<1> QED
  BY <1>1, <1>f, <1>3, <1>6, <1>11, <1>12, <1>13 DEF AnchorUpdate, u, o, leaf

\* It is worth the difference even where others have changed the channel.
LEMMA AnchorsMerge ==
  ASSUME Config!ConfigAssumption, NEW org \in DOMAIN Anchors, Anchors[org] \in DOMAIN Profile,
         NEW o, NEW u, AnchorUpdate(org, o, u), NEW up, up = Config!Compute(o, u),
         NEW c, Config!IsConfig(c), Later(FirstConfig, c), Config!Acceptable(c, up)
  PROVE  Config!Contains(Config!Applied(c, up)) = Config!Merge(o, u, c)
<1>1. /\ Config!IsConfig(o) /\ Config!IsConfig(u)
      /\ DOMAIN u = DOMAIN Profile /\ DOMAIN o = DOMAIN Profile \ {Anchors[org]}
      /\ \A p \in DOMAIN o : o[p] = u[p]
      /\ Config!Bumped(o, u) = {org}
      /\ Config!Updated(o, u) = {org} \cup Above[org]
  BY DEF AnchorUpdate
<1>t. /\ Config!IsTree(DOMAIN o) /\ Config!IsTree(DOMAIN u)
      /\ \A p \in DOMAIN o : o[p].version \in Nat
  BY <1>1 DEF Config!IsConfig
<1>2. /\ {org} \cup Above[org] \subseteq DOMAIN up.read
      /\ \A p \in DOMAIN up.read : up.read[p] = o[p].version /\ p \in DOMAIN o \cap DOMAIN u
  BY <1>1, <1>t, ComputeSets
<1>3. \A p \in {org} \cup Above[org] :
        p \in DOMAIN c /\ p \in DOMAIN o /\ c[p].version = o[p].version
  BY <1>2 DEF Config!Acceptable
<1>4. /\ DOMAIN FirstConfig = DOMAIN Profile \ AllAnchors
      /\ \A p \in DOMAIN FirstConfig : FirstConfig[p] = u[p]
  BY FirstIsConfig DEF AnchorUpdate
<1>5. /\ org \in Groups /\ org \in Config!Paths /\ org \notin AllAnchors
      /\ Above[org] \cap AllAnchors = {}
  <2>1. org \in Groups /\ org \in Config!Paths
    BY AnchorFacts DEF Config!Paths
  <2> QED
    BY <2>1, AnchorFacts
<1>6. \A p \in {org} \cup Above[org] : p \in DOMAIN FirstConfig /\ FirstConfig[p] = o[p]
  BY <1>1, <1>3, <1>4, <1>5
<1>7. Grown(FirstConfig, c, org)
  <2>1. SameAbove(FirstConfig, c, org)
    BY <1>3, <1>6 DEF SameAbove
  <2> QED
    BY <2>1, <1>3, <1>6 DEF Later
<1>8. c[org] = o[org] /\ Config!Members(c, org) = Config!Members(FirstConfig, org)
  BY <1>3, <1>5, <1>6, <1>7 DEF Grown
<1>9. \A g \in Config!Bumped(o, u) :
        /\ Config!Members(c, g) \subseteq DOMAIN o \cup DOMAIN u
        /\ ~Config!Differs(o, u, g) => c[g].content = u[g].content
  <2>1. Config!Members(FirstConfig, org) \subseteq DOMAIN FirstConfig
    BY DEF Config!Members
  <2>2. Config!Members(c, org) \subseteq DOMAIN u
    BY <2>1, <1>1, <1>4, <1>8
  <2>3. c[org] = u[org]
    BY <1>1, <1>3, <1>8
  <2> QED
    BY <2>2, <2>3, <1>1
<1> QED
  BY <1>1, <1>t, <1>9, MergeOfUpdate

\* And it fits the channel as it was created.
LEMMA AnchorsFit ==
  ASSUME Config!ConfigAssumption, NEW org \in DOMAIN Anchors, Anchors[org] \in DOMAIN Profile,
         NEW o, NEW u, AnchorUpdate(org, o, u), NEW up, up = Config!Compute(o, u)
  PROVE  Config!Acceptable(FirstConfig, up)
<1> DEFINE c == FirstConfig
           leaf == Anchors[org]
<1>1. /\ Config!IsConfig(o) /\ Config!IsConfig(u)
      /\ DOMAIN u = DOMAIN Profile /\ DOMAIN o = DOMAIN Profile \ {leaf}
      /\ \A p \in DOMAIN o : o[p] = u[p]
      /\ Config!ChangedLeaves(o, u) = {}
      /\ Config!Bumped(o, u) = {org}
      /\ Config!Updated(o, u) = {org} \cup Above[org]
  BY DEF AnchorUpdate
<1>t. /\ Config!IsTree(DOMAIN o) /\ Config!IsTree(DOMAIN u)
      /\ \A p \in DOMAIN o : o[p].version \in Nat
  BY <1>1 DEF Config!IsConfig
<1>2. /\ DOMAIN up.read = Config!Updated(o, u) \cup Config!SameMembers(o, u)
      /\ \A p \in DOMAIN up.read : up.read[p] = o[p].version /\ p \in DOMAIN o \cap DOMAIN u
      /\ DOMAIN up.write = (DOMAIN u \ DOMAIN o) \cup Config!ChangedLeaves(o, u)
                             \cup Config!Updated(o, u) \cup Config!SameMembers(o, u)
      /\ DOMAIN up.write \subseteq DOMAIN u
      /\ Config!Delta(up) = (DOMAIN u \ DOMAIN o) \cup Config!ChangedLeaves(o, u)
                              \cup Config!Bumped(o, u)
      /\ \A p \in Config!Delta(up) :
           up.write[p].version = IF p \in DOMAIN o THEN o[p].version + 1 ELSE 0
  BY <1>t, ComputeSets
<1>3. /\ DOMAIN c = DOMAIN Profile \ AllAnchors
      /\ \A p \in DOMAIN c : c[p] = u[p]
  BY FirstIsConfig DEF AnchorUpdate
<1>4. /\ org \in Groups /\ org # Root /\ Parent[leaf] = org /\ leaf \in AllAnchors
      /\ \A l \in AllAnchors : l \notin Groups /\ l # Root
      /\ \A l \in AllAnchors : Parent[l] = org => l = leaf
  <2>1. \A l \in AllAnchors : Parent[l] = org => l = leaf
    <3> SUFFICES ASSUME NEW other \in DOMAIN Anchors, Parent[Anchors[other]] = org
                 PROVE  Anchors[other] = leaf
      BY DEF AllAnchors
    <3> QED
      BY AnchorFacts
  <2> QED
    BY <2>1, AnchorFacts
<1> HIDE DEF c, leaf
<1>5. DOMAIN u \ DOMAIN o = {leaf} /\ leaf \in DOMAIN u
  BY <1>1 DEF leaf
<1>6. \A p \in DOMAIN u \cap Groups : p \in DOMAIN c /\ p \in DOMAIN o
  BY <1>1, <1>3, <1>4
<1>7. {org} \cup Above[org] \subseteq Groups
  <2>1. org \in Config!Paths
    BY <1>4 DEF Config!Paths
  <2> QED
    BY <2>1, <1>4, AboveAbove
<1>8. ASSUME NEW p \in DOMAIN up.read
      PROVE  p \in DOMAIN c /\ c[p].version = up.read[p]
  <2>1. p \in DOMAIN o \cap DOMAIN u /\ up.read[p] = o[p].version
    BY <1>2
  <2>2. p \in DOMAIN c
    <3>1. CASE p \in Config!Updated(o, u)
      BY <3>1, <2>1, <1>1, <1>6, <1>7
    <3>2. CASE p \in Config!SameMembers(o, u)
      <4>1. Parent[p] = org
        BY <3>2, <1>1 DEF Config!SameMembers
      <4>2. p # leaf
        BY <2>1, <1>1
      <4> QED
        BY <4>1, <4>2, <2>1, <1>1, <1>3, <1>4
    <3> QED
      BY <3>1, <3>2, <1>2
  <2> QED
    BY <2>1, <2>2, <1>1, <1>3
<1>9. Config!Delta(up) = {leaf, org}
  BY <1>1, <1>2, <1>5
<1>10. ASSUME NEW p \in Config!Delta(up)
       PROVE  up.write[p].version = IF p \in DOMAIN c THEN c[p].version + 1 ELSE 0
  <2>1. CASE p = leaf
    <3>1. leaf \notin DOMAIN c /\ leaf \notin DOMAIN o
      BY <1>1, <1>3, <1>4
    <3> QED
      BY <3>1, <2>1, <1>2
  <2>2. CASE p = org
    <3>1. org \in DOMAIN u
      BY <1>1, <1>2, <1>8
    <3>2. org \in DOMAIN o /\ org \in DOMAIN c
      BY <3>1, <1>4, <1>6
    <3>3. c[org].version = o[org].version
      BY <3>2, <1>1, <1>3
    <3>4. up.write[org].version = o[org].version + 1
      BY <3>2, <1>2, <1>9
    <3> QED
      BY <3>2, <3>3, <3>4, <2>2
  <2> QED
    BY <2>1, <2>2, <1>9
<1>11. ASSUME NEW p \in DOMAIN up.write, NEW q \in Above[p] \cup {p}, q # Root
       PROVE  Config!Listed(c, up, q)
  <2>0. p \in DOMAIN u
    BY <1>2
  <2>1. p \in DOMAIN u /\ q \in DOMAIN u /\ p \in Config!Paths
    BY <2>0, <1>11, <1>t, TreeFacts
  <2>2. CASE Parent[q] \in Config!Delta(up)
    <3>1. Parent[q] = org
      <4>1. Parent[q] \in Groups
        BY <2>1, <1>11, <1>t, TreeFacts
      <4> QED
        BY <4>1, <2>2, <1>4, <1>9
    <3>2. q \in Config!Updated(o, u) \cup Config!SameMembers(o, u) \cup (DOMAIN u \ DOMAIN o)
      <4>1. CASE q = leaf
        BY <4>1, <1>5
      <4>2. CASE q # leaf
        <5>1. q \in DOMAIN o
          BY <4>2, <2>1, <1>1
        <5> QED
          BY <5>1, <3>1, <2>1, <1>1, <1>11 DEF Config!SameMembers, Config!Both
      <4> QED
        BY <4>1, <4>2
    <3> QED
      BY <3>2, <2>2, <1>2 DEF Config!Listed
  <2>3. CASE Parent[q] \notin Config!Delta(up)
    <3>1. q \in DOMAIN c
      <4>1. CASE q \in Above[p]
        <5>1. q \in Groups
          BY <4>1, <2>1, AboveAbove
        <5> QED
          BY <5>1, <2>1, <1>6
      <4>2. CASE q = p
        <5>1. q # leaf
          BY <2>3, <1>4, <1>9
        <5>2. q \in DOMAIN up.read
          BY <5>1, <4>2, <1>1, <1>2, <1>5
        <5> QED
          BY <5>2, <1>8
      <4> QED
        BY <4>1, <4>2, <1>11
    <3> QED
      BY <3>1, <2>3 DEF Config!Listed
  <2> QED
    BY <2>2, <2>3
<1>12. \A p \in DOMAIN up.write : Config!Kept(c, up, p)
  BY <1>11 DEF Config!Kept, Config!Listed
<1> QED
  BY <1>8, <1>10, <1>12 DEF Config!Acceptable, c

(***************************************************************************)
(* Updates of the configuration: the invariant                             *)
(***************************************************************************)

\* Every configuration is one, and later than the ones before it; the first is as planned.
ConfigsOK(w) ==
  /\ DOMAIN w = {"configs", "faults"}
  /\ \E S : w.configs \in Seq(S)
  /\ Len(w.configs) <= MaxBlocks /\ w.faults \in Nat /\ w.faults <= MaxFaults
  /\ \A i \in 1..Len(w.configs) : Config!IsConfig(w.configs[i])
  /\ \A i, j \in 1..Len(w.configs) : i <= j => Later(w.configs[i], w.configs[j])
  /\ Len(w.configs) > 0 => w.configs[1] = FirstConfig

\* What an administrator wants, and the sets for it: a channel, anchor peers, or an edit of
\* a configuration that the channel has had.
Wants(r, w) ==
  /\ r.update = Config!Compute(r.original, r.updated)
  /\ \/ r.by = "create" /\ r.original = Config!Template /\ r.updated = Config!ChannelGroup
     \/ r.by = "anchor" /\ \E org \in DOMAIN Anchors :
          /\ Anchors[org] \in DOMAIN Profile
          /\ r.original = Config!Without(Config!CreatedProfile, {Anchors[org]})
          /\ r.updated = Config!CreatedProfile
     \/ /\ r.by = "edit" /\ Config!IsConfig(r.updated)
        /\ \E i \in 1..Len(w.configs) : r.original = w.configs[i]

AdminFields == {"at", "original", "updated", "update", "by", "tries", "seq"}
AdminOK(r, w) ==
  /\ DOMAIN r = AdminFields
  /\ r.at \in {"idle", "newest", "block", "edit", "sign", "submit"}
  /\ r.at = "newest" => Len(w.configs) > 0
  /\ r.at \in {"block", "edit"} => r.seq \in 1..Len(w.configs)
  /\ r.at = "edit" => r.original = w.configs[r.seq]
  /\ r.at \in {"sign", "submit"} => Wants(r, w)

ConfigInv ==
  /\ ConfigsOK(world)
  /\ DOMAIN call = Admins
  /\ \A a \in Admins : AdminOK(call[a], world)

\* A step that leaves the configurations alone leaves the ones that were read.
LEMMA AdminStays ==
  ASSUME NEW r, NEW w, NEW x, AdminOK(r, w), x.configs = w.configs
  PROVE  AdminOK(r, x)
<1>1. Wants(r, w) => Wants(r, x)
  BY DEF Wants
<1> QED
  BY <1>1 DEF AdminOK

\* A configuration more, after the newest
Extends(x, w, c, up) ==
  /\ c = IF w.configs # <<>> THEN w.configs[Len(w.configs)] ELSE Config!Uncreated
  /\ w.configs = <<>> => Config!Applied(c, up) = FirstConfig
  /\ Len(w.configs) < MaxBlocks
  /\ DOMAIN x = {"configs", "faults"} /\ x.faults \in Nat /\ x.faults <= MaxFaults
  /\ x.configs = Append(w.configs, Config!Applied(c, up))

\* A configuration more keeps what is known of the configurations, and of who read them.
LEMMA AppendedConfigs ==
  ASSUME Config!ConfigAssumption, NEW w, NEW x, NEW c, NEW up, ConfigsOK(w),
         IsUpdate(up), Config!Acceptable(c, up), Extends(x, w, c, up)
  PROVE  /\ ConfigsOK(x)
         /\ \A r : AdminOK(r, w) => AdminOK(r, x)
         /\ Len(x.configs) = Len(w.configs) + 1
         /\ x.configs[Len(x.configs)] = Config!Applied(c, up)
<1> DEFINE s == w.configs
           n == Len(s)
           e == Config!Applied(c, up)
           t == x.configs
<1>e. /\ c = IF s # <<>> THEN s[n] ELSE Config!Uncreated
      /\ s = <<>> => e = FirstConfig
      /\ n < MaxBlocks
      /\ DOMAIN x = {"configs", "faults"} /\ x.faults \in Nat /\ x.faults <= MaxFaults
      /\ t = Append(s, e)
  BY DEF Extends
<1>1. PICK S : s \in Seq(S)
  BY DEF ConfigsOK
<1>2. n \in Nat /\ (s = <<>> <=> n = 0) /\ MaxBlocks \in Nat
  BY <1>1 DEF Config!ConfigAssumption
<1>3. /\ t \in Seq(S \cup {e}) /\ Len(t) = n + 1 /\ t[n + 1] = e
      /\ \A i \in 1..n : t[i] = s[i]
  <2>1. s \in Seq(S \cup {e})
    BY <1>1
  <2>2. e \in S \cup {e} /\ t = Append(s, e)
    BY <1>e
  <2> HIDE DEF s, e, t
  <2> QED
    BY <2>1, <2>2 DEF n
<1>4. /\ \A i \in 1..n : Config!IsConfig(s[i])
      /\ \A i, j \in 1..n : i <= j => Later(s[i], s[j])
      /\ n > 0 => s[1] = FirstConfig
  BY DEF ConfigsOK
<1>5. Config!IsConfig(c)
  <2>1. Config!IsConfig(Config!Uncreated)
    BY FirstIsConfig
  <2> QED
    BY <2>1, <1>e, <1>2, <1>4
<1>6. Config!IsConfig(e) /\ Follows(c, e)
  BY <1>5, AppliedIsConfig, AppliedFollows
<1>7. n = 0 => e = FirstConfig
  BY <1>e, <1>2
<1>8. n > 0 => c = s[n]
  BY <1>e, <1>2
<1> HIDE DEF s, e, t
<1>9. \A i \in 1..Len(t) : Config!IsConfig(t[i])
  <2> SUFFICES ASSUME NEW i \in 1..Len(t)
               PROVE  Config!IsConfig(t[i])
    OBVIOUS
  <2>1. CASE i \in 1..n
    BY <2>1, <1>3, <1>4
  <2>2. CASE i = n + 1
    BY <2>2, <1>3, <1>6
  <2> HIDE DEF n
  <2> QED
    BY <2>1, <2>2, <1>2, <1>3
<1>10. ASSUME NEW i \in 1..Len(t), NEW j \in 1..Len(t), i <= j
       PROVE  Later(t[i], t[j])
  <2> HIDE DEF n
  <2>1. CASE j \in 1..n
    BY <2>1, <1>2, <1>3, <1>4, <1>10
  <2>2. CASE j = n + 1 /\ i \in 1..n
    <3>1. Config!IsConfig(s[i]) /\ Later(s[i], c)
      BY <2>2, <1>2, <1>4, <1>8
    <3>2. Later(s[i], e)
      BY <3>1, <1>5, <1>6, LaterFollows
    <3> QED
      BY <3>2, <2>2, <1>3
  <2>3. CASE i = n + 1 /\ j = n + 1
    BY <2>3, <1>3, <1>6, LaterSelf
  <2> QED
    BY <2>1, <2>2, <2>3, <1>2, <1>3, <1>10
<1>11. t[1] = FirstConfig
  <2> HIDE DEF n
  <2> QED
    BY <1>2, <1>3, <1>4, <1>7
<1>12. ConfigsOK(x)
  <2>1. Len(t) <= MaxBlocks
    BY <1>e, <1>2, <1>3
  <2>2. \E T : t \in Seq(T)
    BY <1>3
  <2> QED
    BY <2>1, <2>2, <1>e, <1>9, <1>10, <1>11 DEF ConfigsOK, t
<1>13. ASSUME NEW r, AdminOK(r, w)
       PROVE  AdminOK(r, x)
  <2>1. \A i \in 1..Len(w.configs) : i \in 1..Len(x.configs) /\ x.configs[i] = w.configs[i]
    BY <1>2, <1>3 DEF s, t
  <2>2. Len(w.configs) > 0 => Len(x.configs) > 0
    BY <1>2, <1>3 DEF s, t
  <2>3. Wants(r, w) => Wants(r, x)
    BY <2>1 DEF Wants
  <2> QED
    BY <1>13, <2>1, <2>2, <2>3 DEF AdminOK
<1> QED
  BY <1>3, <1>12, <1>13 DEF s, e, t

\* What is wanted is an update for the orderer to judge.
LEMMA WantsUpdate ==
  ASSUME Config!ConfigAssumption, NEW w, ConfigsOK(w), NEW r, Wants(r, w)
  PROVE  IsUpdate(r.update)
<1> DEFINE o == r.original
           u == r.updated
<1>1. CASE r.by = "create" /\ o = Config!Template /\ u = Config!ChannelGroup
  <2>1. Config!IsConfig(o) /\ Config!IsConfig(u)
    BY <1>1, ProfileConfigs
  <2> QED
    BY <2>1, ComputeIsUpdate DEF Wants
<1>2. ASSUME NEW org \in DOMAIN Anchors, Anchors[org] \in DOMAIN Profile,
             o = Config!Without(Config!CreatedProfile, {Anchors[org]}), u = Config!CreatedProfile
      PROVE  IsUpdate(r.update)
  <2>1. Config!IsConfig(o) /\ Config!IsConfig(u)
    BY <1>2, AnchorSets DEF AnchorUpdate
  <2> QED
    BY <2>1, ComputeIsUpdate DEF Wants
<1>3. CASE Config!IsConfig(u) /\ \E i \in 1..Len(w.configs) : o = w.configs[i]
  <2>1. Config!IsConfig(o) /\ Config!IsConfig(u)
    BY <1>3 DEF ConfigsOK
  <2> QED
    BY <2>1, ComputeIsUpdate DEF Wants
<1> QED
  BY <1>1, <1>2, <1>3 DEF Wants

\* The orderer takes what is wanted: the first configuration, then what was edited on top of
\* the newest one.
LEMMA TakenUpdate ==
  ASSUME Config!ConfigAssumption, NEW w, ConfigsOK(w), NEW r, Wants(r, w), NEW c,
         c = IF w.configs # <<>> THEN w.configs[Len(w.configs)] ELSE Config!Uncreated,
         Config!Acceptable(c, r.update), w.configs # <<>> \/ r.by = "create"
  PROVE  /\ w.configs = <<>> => Config!Applied(c, r.update) = FirstConfig
         /\ Config!Contains(Config!Applied(c, r.update)) =
              Config!Merge(r.original, r.updated, c)
         /\ r.by = "edit" =>
              \A p \in DOMAIN r.updated :
                /\ p \in Config!Both(r.original, r.updated)
                     /\ Config!Differs(r.original, r.updated, p) =>
                     p \in DOMAIN c /\ c[p] = r.original[p]
                /\ p \notin DOMAIN r.original => p \notin DOMAIN c
<1> DEFINE o == r.original
           u == r.updated
           up == r.update
           s == w.configs
           n == Len(s)
<1>0. PICK S : s \in Seq(S)
  BY DEF ConfigsOK
<1>1. n \in Nat /\ (s = <<>> <=> n = 0)
  BY <1>0
<1>2. /\ \A i \in 1..n : Config!IsConfig(s[i])
      /\ \A i, j \in 1..n : i <= j => Later(s[i], s[j])
      /\ n > 0 => s[1] = FirstConfig
  BY DEF ConfigsOK
<1>3. /\ up = Config!Compute(o, u)
      /\ \/ r.by = "create" /\ o = Config!Template /\ u = Config!ChannelGroup
         \/ r.by = "anchor" /\ \E org \in DOMAIN Anchors :
              /\ Anchors[org] \in DOMAIN Profile
              /\ o = Config!Without(Config!CreatedProfile, {Anchors[org]})
              /\ u = Config!CreatedProfile
         \/ r.by = "edit" /\ Config!IsConfig(u) /\ \E i \in 1..n : o = s[i]
  BY DEF Wants
<1>4. n > 0 => c = s[n] /\ Config!IsConfig(c) /\ Later(FirstConfig, c)
  <2> SUFFICES ASSUME n > 0
               PROVE  c = s[n] /\ Config!IsConfig(c) /\ Later(FirstConfig, c)
    OBVIOUS
  <2>1. c = s[n] /\ 1 \in 1..n /\ n \in 1..n /\ 1 <= n
    BY <1>1
  <2> HIDE DEF n, s
  <2>2. Later(s[1], s[n])
    BY <2>1, <1>2
  <2> QED
    BY <2>1, <2>2, <1>2
<1>5. /\ n = 0 => c = Config!Uncreated /\ r.by = "create"
      /\ Config!Acceptable(c, up)
  BY <1>1
<1> HIDE DEF o, u, up, s, n
<1>6. CASE r.by = "create" /\ o = Config!Template /\ u = Config!ChannelGroup
  <2>1. n = 0
    <3> SUFFICES ASSUME n > 0
                 PROVE  FALSE
      BY <1>1
    <3> QED
      BY <1>3, <1>4, <1>5, <1>6, CreatedOnce
  <2>2. c = Config!Uncreated /\ s = <<>>
    BY <2>1, <1>1, <1>5
  <2>3. /\ Config!Applied(c, up) = FirstConfig
        /\ Config!Contains(Config!Applied(c, up)) = Config!Merge(o, u, c)
    BY <2>2, <1>3, <1>5, <1>6, CreateMakes
  <2> QED
    BY <2>3, <1>6 DEF o, u, up
<1>7. CASE r.by = "anchor" /\ \E org \in DOMAIN Anchors :
              /\ Anchors[org] \in DOMAIN Profile
              /\ o = Config!Without(Config!CreatedProfile, {Anchors[org]})
              /\ u = Config!CreatedProfile
  <2>1. n > 0 /\ s # <<>>
    BY <1>1, <1>5, <1>7
  <2>2. PICK org \in DOMAIN Anchors :
              /\ Anchors[org] \in DOMAIN Profile
              /\ o = Config!Without(Config!CreatedProfile, {Anchors[org]})
              /\ u = Config!CreatedProfile
    BY <1>7
  <2>3. AnchorUpdate(org, o, u)
    BY <2>2, AnchorSets
  <2>4. Config!IsConfig(c) /\ Later(FirstConfig, c) /\ Config!Acceptable(c, up)
    BY <2>1, <1>4, <1>5
  <2>5. up = Config!Compute(o, u) /\ Anchors[org] \in DOMAIN Profile
    BY <1>3, <2>2
  <2>6. Config!Contains(Config!Applied(c, up)) = Config!Merge(o, u, c)
    BY <2>3, <2>4, <2>5, AnchorsMerge
  <2> QED
    BY <2>1, <2>6, <1>7 DEF o, u, up, s
<1>8. CASE r.by = "edit" /\ Config!IsConfig(u) /\ \E i \in 1..n : o = s[i]
  <2>1. PICK i \in 1..n : o = s[i]
    BY <1>8
  <2>2. n > 0 /\ s # <<>> /\ n \in 1..n /\ i <= n
    BY <2>1, <1>1
  <2>3. Config!IsConfig(o) /\ Later(o, c) /\ Config!IsConfig(c)
    BY <2>1, <2>2, <1>2, <1>4
  <2>4. /\ Config!Contains(Config!Applied(c, up)) = Config!Merge(o, u, c)
        /\ \A p \in DOMAIN u :
              /\ p \in Config!Both(o, u) /\ Config!Differs(o, u, p) =>
                   p \in DOMAIN c /\ c[p] = o[p]
              /\ p \notin DOMAIN o => p \notin DOMAIN c
    BY <2>3, <1>3, <1>5, <1>8, EditMerges
  <2> QED
    BY <2>2, <2>4 DEF o, u, up, s
<1> QED
  BY <1>3, <1>6, <1>7, <1>8

\* Who does nothing has nothing to go wrong.
LEMMA IdleOK ==
  ASSUME NEW w
  PROVE  AdminOK(Config!Idle, w) /\ DOMAIN Config!Idle = AdminFields /\ Config!Idle.at = "idle"
BY DEF AdminOK, Config!Idle, AdminFields

\* One administrator goes on.
LEMMA OneGoesOn ==
  ASSUME DOMAIN call = Admins, NEW a \in Admins, NEW r, NEW w, Config!Becomes(a, r),
         AdminOK(r, w), \A b \in Admins : AdminOK(call[b], w)
  PROVE  DOMAIN call' = Admins /\ \A b \in Admins : AdminOK(call'[b], w)
BY DEF Config!Becomes

\* A step in which the world is as it was, or counts a fault
LEMMA ConfigsStay ==
  ASSUME ConfigInv, NEW w, w = world \/ (Config!Fault /\ w = Config!Faulty),
         Config!ConfigAssumption
  PROVE  /\ ConfigsOK(w) /\ w.configs = world.configs
         /\ \A b \in Admins : AdminOK(call[b], w)
<1>1. CASE w = world
  BY <1>1 DEF ConfigInv
<1>2. CASE Config!Fault /\ w = Config!Faulty
  <2>1. DOMAIN world = {"configs", "faults"} /\ world.faults \in Nat /\ MaxFaults \in Nat
    BY DEF ConfigInv, ConfigsOK, Config!ConfigAssumption
  <2>2. w = [world EXCEPT !.faults = @ + 1] /\ world.faults < MaxFaults
    BY <1>2 DEF Config!Fault, Config!Faulty
  <2>3. /\ DOMAIN w = {"configs", "faults"} /\ w.configs = world.configs
        /\ w.faults = world.faults + 1
    BY <2>1, <2>2
  <2>4. w.faults \in Nat /\ w.faults <= MaxFaults
    BY <2>1, <2>2, <2>3
  <2>5. ConfigsOK(w)
    BY <2>3, <2>4 DEF ConfigInv, ConfigsOK
  <2>6. \A b \in Admins : AdminOK(call[b], world)
    BY DEF ConfigInv
  <2> QED
    BY <2>3, <2>5, <2>6, AdminStays
<1> QED
  BY <1>1, <1>2

\* What a step that takes an update shows of it
TakesSoundly(a) ==
  /\ Config!Contains(Config!Current') =
       Config!Merge(call[a].original, call[a].updated, Config!Current)
  /\ call[a].by = "edit" =>
       \A p \in DOMAIN call[a].updated :
         /\ p \in Config!Both(call[a].original, call[a].updated)
              /\ Config!Differs(call[a].original, call[a].updated, p) =>
              p \in DOMAIN Config!Current /\ Config!Current[p] = call[a].original[p]
         /\ p \notin DOMAIN call[a].original => p \notin DOMAIN Config!Current

\* What the orderer takes merges soundly, and keeps everybody's view of the configurations.
LEMMA Takes ==
  ASSUME Config!ConfigAssumption, ConfigInv, NEW a \in Admins, call[a].at = "submit",
         Config!Goes, NEW w, w = world \/ (Config!Fault /\ w = Config!Faulty), Config!Take(a, w)
  PROVE  /\ ConfigsOK(world') /\ \A b \in Admins : AdminOK(call[b], world')
         /\ TakesSoundly(a)
<1> DEFINE r == call[a]
           c == Config!Current
           e == Config!Applied(c, r.update)
<1>1. ConfigsOK(w) /\ w.configs = world.configs /\ \A b \in Admins : AdminOK(call[b], w)
  BY ConfigsStay
<1>2. /\ Config!Acceptable(c, r.update) /\ (world.configs # <<>> \/ r.by = "create")
      /\ world' = [w EXCEPT !.configs = Append(@, e)]
  BY DEF Config!Take, Config!Fits, Config!Exists
<1>3. Wants(r, w)
  BY <1>1 DEF AdminOK
<1>4. c = IF w.configs # <<>> THEN w.configs[Len(w.configs)] ELSE Config!Uncreated
  BY <1>1 DEF Config!Current, Config!Exists
<1>5. DOMAIN w = {"configs", "faults"} /\ w.faults \in Nat /\ w.faults <= MaxFaults
  BY <1>1 DEF ConfigsOK
<1>6. /\ DOMAIN world' = {"configs", "faults"} /\ world'.faults \in Nat
      /\ world'.faults <= MaxFaults /\ world'.configs = Append(w.configs, e)
  BY <1>2, <1>5
<1>7. Len(w.configs) < MaxBlocks
  BY <1>1 DEF Config!Goes
<1> HIDE DEF c, r
<1>8. IsUpdate(r.update)
  BY <1>1, <1>3, WantsUpdate
<1>9. /\ w.configs = <<>> => e = FirstConfig
      /\ Config!Contains(e) = Config!Merge(r.original, r.updated, c)
      /\ r.by = "edit" =>
           \A p \in DOMAIN r.updated :
             /\ p \in Config!Both(r.original, r.updated)
                  /\ Config!Differs(r.original, r.updated, p) =>
                  p \in DOMAIN c /\ c[p] = r.original[p]
             /\ p \notin DOMAIN r.original => p \notin DOMAIN c
  BY <1>1, <1>2, <1>3, <1>4, TakenUpdate
<1>10. /\ ConfigsOK(world')
       /\ \A q : AdminOK(q, w) => AdminOK(q, world')
       /\ Len(world'.configs) = Len(w.configs) + 1
       /\ world'.configs[Len(world'.configs)] = e
  <2> DEFINE x == world'
             up == r.update
  <2>1. ConfigsOK(w) /\ IsUpdate(up) /\ Config!Acceptable(c, up)
    BY <1>1, <1>2, <1>8
  <2>2. Extends(x, w, c, up)
    BY <1>4, <1>6, <1>7, <1>9 DEF Extends
  <2> HIDE DEF x, up
  <2>3. /\ ConfigsOK(x) /\ \A q : AdminOK(q, w) => AdminOK(q, x)
        /\ Len(x.configs) = Len(w.configs) + 1
        /\ x.configs[Len(x.configs)] = Config!Applied(c, up)
    BY <2>1, <2>2, AppendedConfigs
  <2> QED
    BY <2>3 DEF x, up
<1>11. Config!Current' = e
  <2>1. world'.configs # <<>>
    <3>1. PICK S : w.configs \in Seq(S)
      BY <1>1 DEF ConfigsOK
    <3>2. Len(w.configs) \in Nat
      BY <3>1
    <3>3. Len(world'.configs) # 0
      BY <3>2, <1>10
    <3> QED
      BY <3>3
  <2> QED
    BY <2>1, <1>10 DEF Config!Current, Config!Exists
<1> QED
  BY <1>1, <1>9, <1>10, <1>11 DEF TakesSoundly, c, r

\* Every step of updates of the channel configuration keeps the invariant, and what is taken is
\* taken soundly.
LEMMA ConfigStep ==
  ASSUME Config!ConfigAssumption, ConfigInv, Config!Next
  PROVE  /\ ConfigInv'
         /\ \A a \in Admins : Config!Taken(a) => TakesSoundly(a)
<1>1. /\ DOMAIN call = Admins /\ \A b \in Admins : AdminOK(call[b], world)
      /\ ConfigsOK(world)
  BY DEF ConfigInv
<1>s. PICK S : world.configs \in Seq(S)
  BY <1>1 DEF ConfigsOK
<1>n. Len(world.configs) \in Nat /\ (world.configs # <<>> => Len(world.configs) \in 1..Len(world.configs))
  BY <1>s
<1>2. ASSUME NEW a \in Admins, NEW r, Config!Becomes(a, r), AdminOK(r, world), UNCHANGED world
      PROVE  ConfigInv' /\ \A b \in Admins : ~Config!Taken(b)
  <2>1. DOMAIN call' = Admins /\ \A b \in Admins : AdminOK(call'[b], world')
    BY <1>1, <1>2, OneGoesOn
  <2>2. \A b \in Admins : ~Config!Taken(b)
    BY <1>2, <1>n DEF Config!Taken
  <2> QED
    BY <2>1, <2>2, <1>1, <1>2 DEF ConfigInv
<1>3. ASSUME NEW a \in Admins, NEW r, Config!Becomes(a, r), AdminOK(r, world),
             Config!Fault, world' = Config!Faulty
      PROVE  ConfigInv' /\ \A b \in Admins : ~Config!Taken(b)
  <2>1. /\ ConfigsOK(world') /\ world'.configs = world.configs
        /\ \A b \in Admins : AdminOK(call[b], world')
    BY <1>3, ConfigsStay
  <2>2. AdminOK(r, world')
    BY <2>1, <1>3, AdminStays
  <2>3. DOMAIN call' = Admins /\ \A b \in Admins : AdminOK(call'[b], world')
    BY <2>1, <2>2, <1>1, <1>3, OneGoesOn
  <2>4. \A b \in Admins : ~Config!Taken(b)
    BY <2>1, <1>n DEF Config!Taken
  <2> QED
    BY <2>1, <2>3, <2>4 DEF ConfigInv
<1>4. ASSUME NEW a \in Admins, Config!CallQuery(a)
      PROVE  ConfigInv' /\ \A b \in Admins : ~Config!Taken(b)
  <2> DEFINE r == [Config!Idle EXCEPT !.at = "newest"]
  <2>1. Config!Becomes(a, r) /\ UNCHANGED world /\ world.configs # <<>>
    BY <1>4 DEF Config!CallQuery, Config!Exists
  <2>2. r.at = "newest" /\ DOMAIN r = AdminFields /\ Len(world.configs) > 0
    BY <2>1, <1>n DEF Config!Idle, AdminFields
  <2>3. AdminOK(r, world)
    BY <2>2 DEF AdminOK
  <2> HIDE DEF r
  <2> QED
    BY <2>1, <2>3, <1>2
<1>5. ASSUME NEW a \in Admins, Config!NewestBlock(a)
      PROVE  ConfigInv' /\ \A b \in Admins : ~Config!Taken(b)
  <2> DEFINE r == [call[a] EXCEPT !.at = "block", !.seq = Len(world.configs)]
  <2>1. CASE Config!Becomes(a, r) /\ UNCHANGED world
    <3>1. call[a].at = "newest" /\ DOMAIN call[a] = AdminFields /\ Len(world.configs) > 0
      BY <1>1, <1>5 DEF Config!NewestBlock, Config!Is, AdminOK
    <3>2. r.at = "block" /\ DOMAIN r = AdminFields /\ r.seq = Len(world.configs)
      BY <3>1 DEF AdminFields
    <3>3. AdminOK(r, world)
      BY <3>1, <3>2, <1>n DEF AdminOK
    <3> HIDE DEF r
    <3> QED
      BY <2>1, <3>3, <1>2
  <2>2. CASE Config!Fault /\ world' = Config!Faulty /\ Config!Returns(a)
    BY <2>2, <1>3, IdleOK DEF Config!Returns
  <2> QED
    BY <2>1, <2>2, <1>5 DEF Config!NewestBlock
<1>6. ASSUME NEW a \in Admins, Config!ConfigBlock(a)
      PROVE  ConfigInv' /\ \A b \in Admins : ~Config!Taken(b)
  <2> DEFINE r == [call[a] EXCEPT !.at = "edit", !.original = world.configs[call[a].seq]]
  <2>1. CASE Config!Becomes(a, r) /\ UNCHANGED world
    <3>1. /\ call[a].at = "block" /\ DOMAIN call[a] = AdminFields
          /\ call[a].seq \in 1..Len(world.configs)
      BY <1>1, <1>6 DEF Config!ConfigBlock, Config!Is, AdminOK
    <3>2. /\ r.at = "edit" /\ DOMAIN r = AdminFields /\ r.seq = call[a].seq
          /\ r.original = world.configs[call[a].seq]
      BY <3>1 DEF AdminFields
    <3>3. AdminOK(r, world)
      BY <3>1, <3>2 DEF AdminOK
    <3> HIDE DEF r
    <3> QED
      BY <2>1, <3>3, <1>2
  <2>2. CASE Config!Fault /\ world' = Config!Faulty /\ Config!Returns(a)
    BY <2>2, <1>3, IdleOK DEF Config!Returns
  <2> QED
    BY <2>1, <2>2, <1>6 DEF Config!ConfigBlock
<1>7. ASSUME NEW a \in Admins, Config!Edit(a)
      PROVE  ConfigInv' /\ \A b \in Admins : ~Config!Taken(b)
  <2>1. /\ UNCHANGED world /\ call[a].at = "edit"
        /\ call[a].seq \in 1..Len(world.configs)
        /\ call[a].original = world.configs[call[a].seq]
    <3>1. UNCHANGED world /\ call[a].at = "edit"
      BY <1>7 DEF Config!Edit, Config!Is
    <3>2. AdminOK(call[a], world)
      BY <1>1
    <3> QED
      BY <3>1, <3>2 DEF AdminOK
  <2>2. PICK u \in Config!Edits(call[a].original), i \in {call[a].seq, Len(world.configs)} :
          IF Config!SequenceMismatch(call[a].seq, i) \/ Config!NoDifferences(world.configs[i], u)
          THEN Config!Returns(a)
          ELSE Config!Becomes(a, [Config!Idle EXCEPT !.at = "sign",
                                    !.original = call[a].original, !.updated = u,
                                    !.by = "edit", !.update = Config!Compute(world.configs[i], u)])
    BY <1>7 DEF Config!Edit
  <2>3. CASE Config!Returns(a)
    BY <2>1, <2>3, <1>2, IdleOK DEF Config!Returns
  <2>4. CASE ~Config!Returns(a)
    <3> DEFINE o == world.configs[i]
               r == [Config!Idle EXCEPT !.at = "sign", !.original = call[a].original,
                       !.updated = u, !.by = "edit", !.update = Config!Compute(o, u)]
    <3>1. i = call[a].seq /\ Config!Becomes(a, r)
      BY <2>2, <2>4 DEF Config!SequenceMismatch
    <3>2. /\ o = call[a].original /\ Config!IsConfig(o)
      BY <3>1, <2>1, <1>1 DEF ConfigsOK
    <3>3. Config!IsConfig(u)
      BY <3>2, EditsAreConfigs
    <3>4. /\ r.at = "sign" /\ r.original = o /\ r.updated = u /\ r.by = "edit"
          /\ r.update = Config!Compute(o, u) /\ DOMAIN r = AdminFields
      BY <3>2 DEF Config!Idle, AdminFields
    <3>5. Wants(r, world)
      BY <3>1, <3>3, <3>4, <2>1 DEF Wants
    <3>6. AdminOK(r, world)
      BY <3>4, <3>5 DEF AdminOK
    <3> HIDE DEF r
    <3> QED
      BY <2>1, <3>1, <3>6, <1>2
  <2> QED
    BY <2>3, <2>4
<1>8. ASSUME NEW a \in Admins, NEW o, NEW u, NEW by, Config!Prepared(a, o, u, by), UNCHANGED world,
             \A r : r.original = o /\ r.updated = u /\ r.by = by
                      /\ r.update = Config!Compute(o, u) => Wants(r, world)
      PROVE  ConfigInv' /\ \A b \in Admins : ~Config!Taken(b)
  <2> DEFINE r == [Config!Idle EXCEPT !.at = "sign", !.original = o, !.updated = u, !.by = by,
                                      !.update = Config!Compute(o, u)]
  <2>1. Config!Becomes(a, r)
    BY <1>8 DEF Config!Prepared
  <2>2. /\ r.at = "sign" /\ r.original = o /\ r.updated = u /\ r.by = by
        /\ r.update = Config!Compute(o, u) /\ DOMAIN r = AdminFields
    BY DEF Config!Idle, AdminFields
  <2> HIDE DEF r
  <2>3. AdminOK(r, world)
    BY <2>2, <1>8 DEF AdminOK
  <2> QED
    BY <2>1, <2>3, <1>2, <1>8
<1>9. ASSUME NEW a \in Admins, Config!Create(a)
      PROVE  ConfigInv' /\ \A b \in Admins : ~Config!Taken(b)
  <2>1. UNCHANGED world /\ Config!Prepared(a, Config!Template, Config!ChannelGroup, "create")
    BY <1>9 DEF Config!Create
  <2>2. \A r : r.original = Config!Template /\ r.updated = Config!ChannelGroup /\ r.by = "create"
                 /\ r.update = Config!Compute(Config!Template, Config!ChannelGroup)
                 => Wants(r, world)
    BY DEF Wants
  <2> QED
    BY <2>1, <2>2, <1>8
<1>10. ASSUME NEW a \in Admins, NEW org \in DOMAIN Anchors, Config!AnchorPeers(a, org)
       PROVE  ConfigInv' /\ \A b \in Admins : ~Config!Taken(b)
  <2> DEFINE o == Config!Without(Config!CreatedProfile, {Anchors[org]})
             u == Config!CreatedProfile
  <2>1. UNCHANGED world /\ Config!Prepared(a, o, u, "anchor") /\ Anchors[org] \in DOMAIN Profile
    BY <1>10 DEF Config!AnchorPeers
  <2>2. ASSUME NEW r, r.original = o, r.updated = u, r.by = "anchor", r.update = Config!Compute(o, u)
        PROVE  Wants(r, world)
    BY <2>1, <2>2 DEF Wants
  <2> HIDE DEF o, u
  <2> QED
    BY <2>1, <2>2, <1>8
<1>11. ASSUME NEW a \in Admins, Config!Sign(a)
       PROVE  ConfigInv' /\ \A b \in Admins : ~Config!Taken(b)
  <2> DEFINE r == [call[a] EXCEPT !.at = "submit"]
  <2>1. UNCHANGED world /\ call[a].at = "sign" /\ (Config!Becomes(a, r) \/ Config!Returns(a))
    BY <1>11 DEF Config!Sign, Config!Is
  <2>2. AdminOK(r, world)
    <3>1. DOMAIN call[a] = AdminFields /\ Wants(call[a], world)
      BY <2>1, <1>1 DEF AdminOK
    <3>2. /\ DOMAIN r = AdminFields /\ r.at = "submit" /\ r.original = call[a].original
          /\ r.updated = call[a].updated /\ r.update = call[a].update /\ r.by = call[a].by
      BY <3>1 DEF AdminFields
    <3> HIDE DEF r
    <3>3. Wants(r, world)
      BY <3>1, <3>2 DEF Wants
    <3> QED
      BY <3>2, <3>3 DEF AdminOK
  <2> HIDE DEF r
  <2>3. CASE Config!Becomes(a, r)
    BY <2>1, <2>2, <2>3, <1>2
  <2>4. CASE Config!Returns(a)
    BY <2>1, <2>4, <1>2, IdleOK DEF Config!Returns
  <2> QED
    BY <2>1, <2>3, <2>4
<1>12. ASSUME NEW a \in Admins, call[a].at = "submit", NEW w, AdminOK(call[a], w), Config!Again(a)
       PROVE  \E r : AdminOK(r, w) /\ Config!Becomes(a, r)
  <2> DEFINE r == [call[a] EXCEPT !.tries = @ + 1]
  <2>1. AdminOK(r, w)
    <3>1. DOMAIN call[a] = AdminFields /\ Wants(call[a], w)
      BY <1>12 DEF AdminOK
    <3>2. /\ DOMAIN r = AdminFields /\ r.at = "submit" /\ r.original = call[a].original
          /\ r.updated = call[a].updated /\ r.update = call[a].update /\ r.by = call[a].by
      BY <3>1, <1>12 DEF AdminFields
    <3> HIDE DEF r
    <3>3. Wants(r, w)
      BY <3>1, <3>2 DEF Wants
    <3> QED
      BY <3>2, <3>3 DEF AdminOK
  <2>2. AdminOK(Config!Idle, w)
    BY IdleOK
  <2>3. Config!Becomes(a, r) \/ Config!Becomes(a, Config!Idle)
    BY <1>12 DEF Config!Again, Config!Returns
  <2> HIDE DEF r
  <2> QED
    BY <2>1, <2>2, <2>3
<1>13. ASSUME NEW a \in Admins, Config!Submit(a)
       PROVE  ConfigInv' /\ \A b \in Admins : Config!Taken(b) => TakesSoundly(b)
  <2>1. call[a].at = "submit" /\ Config!Goes
    BY <1>13 DEF Config!Submit, Config!Is
  <2>2. ASSUME NEW w, w = world \/ (Config!Fault /\ w = Config!Faulty), Config!Take(a, w),
               Config!Returns(a) \/ Config!Again(a)
        PROVE  ConfigInv' /\ \A b \in Admins : Config!Taken(b) => TakesSoundly(b)
    <3>1. /\ ConfigsOK(world') /\ \A b \in Admins : AdminOK(call[b], world')
          /\ TakesSoundly(a)
      BY <2>1, <2>2, Takes
    <3>2. PICK r : AdminOK(r, world') /\ Config!Becomes(a, r)
      BY <2>1, <2>2, <3>1, <1>12, IdleOK DEF Config!Returns
    <3>3. DOMAIN call' = Admins /\ \A b \in Admins : AdminOK(call'[b], world')
      BY <3>1, <3>2, <1>1, OneGoesOn
    <3>4. \A b \in Admins \ {a} : ~Config!Taken(b)
      BY <3>2, <1>1 DEF Config!Taken, Config!Becomes
    <3> QED
      BY <3>1, <3>3, <3>4 DEF ConfigInv
  <2>3. CASE Config!Take(a, world) /\ Config!Returns(a)
    BY <2>2, <2>3
  <2>4. CASE Config!Fault /\ Config!Take(a, Config!Faulty) /\ Config!Again(a)
    BY <2>2, <2>4
  <2>5. CASE Config!Returns(a) /\ UNCHANGED world
    BY <2>5, <1>2, IdleOK DEF Config!Returns
  <2>6. CASE Config!Fault /\ world' = Config!Faulty /\ Config!Again(a)
    <3>1. PICK r : AdminOK(r, world) /\ Config!Becomes(a, r)
      BY <2>1, <2>6, <1>1, <1>12
    <3> QED
      BY <2>6, <3>1, <1>3
  <2> QED
    BY <2>3, <2>4, <2>5, <2>6, <1>13 DEF Config!Submit
<1> QED
  BY <1>4, <1>5, <1>6, <1>7, <1>9, <1>10, <1>11, <1>13 DEF Config!Next

\* The start of updates of the channel configuration
LEMMA ConfigStart ==
  ASSUME Config!ConfigAssumption, Config!Init
  PROVE  ConfigInv
<1>1. call = [a \in Admins |-> Config!Idle] /\ world = [configs |-> <<>>, faults |-> 0]
  BY DEF Config!Init
<1>2. ConfigsOK(world)
  <2>1. MaxBlocks \in Nat /\ MaxFaults \in Nat
    BY DEF Config!ConfigAssumption
  <2>2. world.configs \in Seq({}) /\ Len(world.configs) = 0 /\ world.faults = 0
    BY <1>1
  <2>3. DOMAIN world = {"configs", "faults"}
    BY <1>1
  <2> QED
    BY <2>1, <2>2, <2>3 DEF ConfigsOK
<1> QED
  BY <1>1, <1>2, IdleOK DEF ConfigInv

\* What the invariant says of the properties
LEMMA ConfigSound ==
  ASSUME Config!ConfigAssumption, ConfigInv
  PROVE  Config!TypeOK /\ Config!CreatedAsPlanned
<1>1. ConfigsOK(world) /\ \A b \in Admins : AdminOK(call[b], world)
  BY DEF ConfigInv
<1>s. PICK S : world.configs \in Seq(S)
  BY <1>1 DEF ConfigsOK
<1>n. /\ Len(world.configs) \in Nat /\ DOMAIN world.configs = 1..Len(world.configs)
      /\ (world.configs # <<>> => Len(world.configs) > 0)
  BY <1>s
<1>2. Config!TypeOK
  BY <1>1, <1>n DEF Config!TypeOK, ConfigsOK, AdminOK
<1>3. ASSUME Config!Exists
      PROVE  Config!Contains(world.configs[1]) =
               Config!Contains(Config!Without(Config!ChannelGroup, AllAnchors))
  <2>1. world.configs[1] = FirstConfig
    BY <1>1, <1>3, <1>n DEF ConfigsOK, Config!Exists
  <2> DEFINE u == Config!ChannelGroup
             v == Config!CreatedProfile
             d == Config!Without(u, AllAnchors)
             e == Config!Without(v, AllAnchors)
  <2>2. /\ DOMAIN u = DOMAIN v /\ \A p \in DOMAIN u : u[p].content = v[p].content
    BY ProfileConfigs
  <2> HIDE DEF u, v
  <2>3. DOMAIN d = DOMAIN e /\ \A p \in DOMAIN d : d[p].content = e[p].content
    BY <2>2 DEF Config!Without
  <2> HIDE DEF d, e
  <2>4. Config!Contains(d) = Config!Contains(e)
    BY <2>3 DEF Config!Contains
  <2> QED
    BY <2>1, <2>4 DEF d, e, u, v, FirstConfig
<1>4. ASSUME Len(world.configs) = 1, NEW a \in Admins, call[a].at = "submit", call[a].by = "anchor"
      PROVE  Config!Acceptable(Config!Current, call[a].update)
  <2>1. world.configs # <<>> /\ world.configs[1] = FirstConfig
    BY <1>1, <1>4, <1>n, <1>s DEF ConfigsOK
  <2>2. Config!Current = FirstConfig
    BY <2>1, <1>4 DEF Config!Current, Config!Exists
  <2>3. Wants(call[a], world)
    BY <1>1, <1>4 DEF AdminOK
  <2>4. PICK org \in DOMAIN Anchors :
          /\ Anchors[org] \in DOMAIN Profile
          /\ call[a].original = Config!Without(Config!CreatedProfile, {Anchors[org]})
          /\ call[a].updated = Config!CreatedProfile
    BY <2>3, <1>4 DEF Wants
  <2>5. AnchorUpdate(org, call[a].original, call[a].updated)
    BY <2>4, AnchorSets
  <2>6. call[a].update = Config!Compute(call[a].original, call[a].updated)
    BY <2>3 DEF Wants
  <2>7. Config!Acceptable(FirstConfig, call[a].update)
    BY <2>4, <2>5, <2>6, AnchorsFit
  <2> QED
    BY <2>2, <2>7
<1> QED
  BY <1>2, <1>3, <1>4 DEF Config!CreatedAsPlanned, Config!Is, AllAnchors

\* So edits are merged, and what is set was seen.
LEMMA ConfigEdits ==
  ASSUME \A a \in Admins : Config!Taken(a) => TakesSoundly(a)
  PROVE  Config!MergesEditsStep /\ Config!SetsWhatItSawStep
<1>1. Config!MergesEditsStep
  BY DEF Config!MergesEditsStep, TakesSoundly
<1>2. Config!SetsWhatItSawStep
  BY DEF Config!SetsWhatItSawStep, TakesSoundly
<1> QED
  BY <1>1, <1>2

(***************************************************************************)
(* Resource management                                                     *)
(***************************************************************************)

\* Cardinalities in the instance are cardinalities.
LEMMA ManagementCounts ==
  ASSUME NEW S
  PROVE  Management!Cardinality(S) = Cardinality(S) /\ Management!IsFiniteSet(S) = IsFiniteSet(S)
BY DEF Management!Cardinality, Cardinality, Management!IsFiniteSet, IsFiniteSet

CallType ==
  [op : Management!Ops \cup {"none"},
   at : {"idle", "update", "genesis", "joining", "check", "send", "propose",
         "register", "order", "wait", "query"},
   asked : SUBSET Peers, filter : Filters \cup {NoFilter},
   targets : SUBSET Peers, todo : SUBSET Peers, told : SUBSET Peers,
   bad : SUBSET Peers, tries : 0 .. Attempts, result : {"none", "ok", "error"}]
WorldType ==
  [channel : BOOLEAN, joined : SUBSET Peers, installed : SUBSET Peers,
   tx : [1 .. MaxRequests -> {"none", "sent", "VALID", "INVALID"}],
   calls : 0 .. MaxRequests, faults : 0 .. MaxLosses]

\* Whom a call has dealt with, without an error: it was done there.
Underway ==
  /\ call.at # "idle" => call.result = "none"
  /\ call.op # "none" => world.calls > 0
  /\ call.at = "update" => call.op = "save"
  /\ call.at = "genesis" => call.op = "join" /\ call.todo = call.targets
  /\ call.at = "joining" => call.op = "join" /\ call.targets \ (call.todo \cup call.bad) \subseteq world.joined
  /\ call.at \in {"check", "send"} =>
       /\ call.op \in {"install", "lifecycleInstall"}
       /\ call.targets \ (call.todo \cup call.bad) \subseteq world.installed
  /\ call.at \in {"propose", "register", "order", "wait"} => call.op = "transaction"
  /\ call.at = "query" => call.op \in {"queryPeer", "queryChannel"}

ManagementInv ==
  /\ call \in CallType /\ world \in WorldType /\ Underway
  /\ Management!SuccessIsDone /\ Management!AskedAsTold

\* The start of resource management
LEMMA ManagementStart ==
  ASSUME Management!ResourceAssumption, Management!Init
  PROVE  ManagementInv
<1>1. call = Management!Idle /\ MaxRequests \in Nat /\ MaxLosses \in Nat /\ Attempts \in Nat
  BY DEF Management!Init, Management!ResourceAssumption
<1>2. world = [channel |-> FALSE, joined |-> {}, installed |-> {},
               tx |-> [c \in 1 .. MaxRequests |-> "none"], calls |-> 0, faults |-> 0]
  BY DEF Management!Init
<1>3. call \in CallType
  BY <1>1 DEF Management!Idle, CallType, Management!Ops
<1>4. world \in WorldType
  BY <1>1, <1>2 DEF WorldType
<1>5. Underway /\ Management!SuccessIsDone /\ Management!AskedAsTold
  BY <1>1 DEF Underway, Management!Idle, Management!SuccessIsDone, Management!AskedAsTold
<1> QED
  BY <1>3, <1>4, <1>5 DEF ManagementInv

\* Who is asked is among the peers, and not ruled out by the options.
LEMMA TargetsAsTold ==
  ASSUME Management!ResourceAssumption, NEW op \in Management!Ops, NEW asked \in SUBSET Peers,
         NEW f \in Filters \cup {NoFilter}, ~(asked # {} /\ f # NoFilter)
  PROVE  /\ Management!Targets(op, asked, f) \subseteq Peers
         /\ Management!Targets(op, asked, f) \subseteq
              IF f # NoFilter THEN f ELSE IF asked # {} THEN asked ELSE DefaultFilter
<1>1. Local \subseteq Peers /\ Channel \subseteq Peers /\ f # NoFilter => f \subseteq Peers
  BY DEF Management!ResourceAssumption
<1> DEFINE Fine(S) == S \subseteq IF f # NoFilter THEN f ELSE IF asked # {} THEN asked ELSE DefaultFilter
<1>2. Fine(asked)
  BY <1>1
<1>3. Fine(Management!CalculateTargets(asked, f))
  BY DEF Management!CalculateTargets
<1>4. Fine(Management!CalculateTargets(Management!ResolveDefaultTargets(asked), f))
  BY DEF Management!CalculateTargets, Management!ResolveDefaultTargets, Management!DefaultTargets
<1>5. Fine(Management!ProposalTargets(asked, f))
  BY DEF Management!CalculateTargets, Management!ProposalTargets, Management!DefaultTargets
<1>6. Fine(Management!Targets(op, asked, f))
  BY <1>2, <1>3, <1>4, <1>5 DEF Management!Targets
<1>7. Management!CalculateTargets(asked, f) \subseteq Peers
  BY <1>1 DEF Management!ResourceAssumption, Management!CalculateTargets
<1>8. Management!CalculateTargets(Management!ResolveDefaultTargets(asked), f) \subseteq Peers
  BY <1>1 DEF Management!ResourceAssumption, Management!CalculateTargets,
              Management!ResolveDefaultTargets, Management!DefaultTargets
<1>9. Management!ProposalTargets(asked, f) \subseteq Peers
  BY <1>1 DEF Management!ResourceAssumption, Management!CalculateTargets,
              Management!ProposalTargets, Management!DefaultTargets
<1>10. Management!Targets(op, asked, f) \subseteq Peers
  BY <1>7, <1>8, <1>9 DEF Management!Targets
<1> QED
  BY <1>6, <1>10

\* Every step of resource management keeps the invariant.
LEMMA ManagementStep ==
  ASSUME Management!ResourceAssumption, ManagementInv, Management!Next
  PROVE  ManagementInv'
<1>0. /\ call \in CallType /\ world \in WorldType /\ Underway
      /\ Management!SuccessIsDone /\ Management!AskedAsTold
      /\ MaxRequests \in Nat /\ MaxLosses \in Nat /\ Attempts \in Nat
      /\ IsFiniteSet(Peers)
  BY ManagementCounts DEF ManagementInv, Management!ResourceAssumption
<1> USE DEF CallType, WorldType
\* a call that goes on, or returns an error, asks whom it asked
<1>1. ASSUME call'.targets = call.targets, call'.filter = call.filter, call'.asked = call.asked
      PROVE  Management!AskedAsTold'
  BY <1>0, <1>1 DEF Management!AskedAsTold
<1>2. ASSUME NEW op \in Management!Ops, NEW asked \in SUBSET Peers, NEW f \in Filters \cup {NoFilter},
             Management!Begin(op, asked, f)
      PROVE  ManagementInv'
  <2> DEFINE new == [Management!Idle EXCEPT !.op = op, !.asked = asked, !.filter = f]
             T == Management!Targets(op, asked, f)
             refused == \/ asked # {} /\ f # NoFilter
                        \/ op = "queryPeer" /\ Management!Cardinality(asked) # 1
                        \/ op # "save" /\ T = {}
  <2>1. /\ world.calls < MaxRequests /\ world' = [world EXCEPT !.calls = @ + 1]
        /\ call' = IF refused THEN [new EXCEPT !.result = "error"]
                   ELSE [new EXCEPT !.at = Management!FirstStep(op), !.targets = T, !.todo = T]
    BY <1>2 DEF Management!Begin
  <2>2. world' \in WorldType /\ world'.calls > 0
    BY <2>1, <1>0
  <2>3. CASE refused
    <3>1. call' = [op |-> op, at |-> "idle", asked |-> asked, filter |-> f, targets |-> {},
                   todo |-> {}, told |-> {}, bad |-> {}, tries |-> 0, result |-> "error"]
      BY <2>1, <2>3 DEF Management!Idle
    <3>2. call' \in CallType
      BY <3>1, <1>0
    <3>3. Underway' /\ Management!SuccessIsDone' /\ Management!AskedAsTold'
      BY <2>2, <3>1 DEF Underway, Management!SuccessIsDone, Management!AskedAsTold
    <3> QED
      BY <2>2, <3>2, <3>3 DEF ManagementInv
  <2>4. CASE ~refused
    <3>1. call' = [op |-> op, at |-> Management!FirstStep(op), asked |-> asked, filter |-> f,
                   targets |-> T, todo |-> T, told |-> {}, bad |-> {}, tries |-> 0,
                   result |-> "none"]
      BY <2>1, <2>4 DEF Management!Idle
    <3>2. /\ T \subseteq Peers
          /\ T \subseteq IF f # NoFilter THEN f ELSE IF asked # {} THEN asked ELSE DefaultFilter
      BY <2>4, TargetsAsTold
    <3> HIDE DEF T
    <3>3. Management!FirstStep(op) \in {"update", "genesis", "check", "propose", "query"}
      BY DEF Management!FirstStep
    <3>4. call' \in CallType
      BY <3>1, <3>2, <3>3, <1>0
    <3>5. Underway'
      BY <3>1, <3>3, <2>2 DEF Underway, Management!FirstStep, Management!Ops
    <3>6. Management!SuccessIsDone' /\ Management!AskedAsTold'
      BY <3>1, <3>2 DEF Management!SuccessIsDone, Management!AskedAsTold
    <3> QED
      BY <2>2, <3>4, <3>5, <3>6 DEF ManagementInv
  <2> QED
    BY <2>3, <2>4
\* a call that fails
<1>3. ASSUME call' = Management!Returns("error"), world' \in WorldType, world'.calls = world.calls
      PROVE  ManagementInv'
  <2>1. call' = [call EXCEPT !.at = "idle", !.result = "error"]
    BY <1>3 DEF Management!Returns
  <2>2. call' \in CallType
    BY <2>1, <1>0
  <2>3. Underway' /\ Management!SuccessIsDone'
    BY <2>1, <1>0, <1>3 DEF Underway, Management!SuccessIsDone
  <2>4. Management!AskedAsTold'
    BY <2>1, <1>0, <1>1
  <2> QED
    BY <2>2, <2>3, <2>4, <1>3 DEF ManagementInv
\* a step in which something is lost
<1>a. ASSUME NEW n \in Nat, world.faults + n <= MaxLosses
      PROVE  /\ Management!Faulty(n) \in WorldType /\ Management!Faulty(n).calls = world.calls
             /\ Management!Faulty(n).joined = world.joined
             /\ Management!Faulty(n).installed = world.installed
  <2> DEFINE f == world.faults + n
  <2>1. world.faults \in 0 .. MaxLosses
    BY <1>0
  <2>2. f \in 0 .. MaxLosses
    BY <2>1, <1>0, <1>a
  <2>3. Management!Faulty(n) = [world EXCEPT !.faults = f]
    BY DEF Management!Faulty
  <2> HIDE DEF f
  <2> QED
    BY <2>2, <2>3, <1>0
<1>b. Management!Fault => world.faults + 1 <= MaxLosses
  BY <1>0 DEF Management!Fault
<1>c. ASSUME Management!Fault
      PROVE  /\ Management!Faulty(1) \in WorldType /\ Management!Faulty(1).calls = world.calls
             /\ Management!Faulty(1).joined = world.joined
             /\ Management!Faulty(1).installed = world.installed
  BY <1>a, <1>b, <1>c
<1>4. ASSUME Management!Update
      PROVE  ManagementInv'
  <2>0. call.at = "update" /\ call.op = "save" /\ call.result = "none"
    BY <1>0, <1>4 DEF Management!Update, Management!At, Underway
  <2>1. CASE world' = [world EXCEPT !.channel = TRUE] /\ call' = Management!Returns("ok")
    <3>1. call' = [call EXCEPT !.at = "idle", !.result = "ok"]
      BY <2>1 DEF Management!Returns
    <3>2. call' \in CallType /\ world' \in WorldType
      BY <3>1, <2>1, <1>0
    <3>3. Underway'
      BY <3>1, <2>1, <1>0 DEF Underway
    <3>4. Management!SuccessIsDone'
      BY <3>1, <2>0, <2>1, <1>0 DEF Management!SuccessIsDone
    <3>5. Management!AskedAsTold'
      BY <3>1, <1>0, <1>1
    <3> QED
      BY <3>2, <3>3, <3>4, <3>5 DEF ManagementInv
  <2>2. ASSUME NEW retryable \in BOOLEAN, call' = Management!Again(retryable), world' \in WorldType,
               world'.calls = world.calls
        PROVE  ManagementInv'
    <3>1. CASE call' = Management!Returns("error")
      BY <3>1, <2>2, <1>3
    <3>2. CASE call' = [call EXCEPT !.tries = @ + 1] /\ call.tries < Attempts
      <4>1. call' \in CallType
        BY <3>2, <1>0
      <4>2. Underway' /\ Management!SuccessIsDone'
        BY <3>2, <2>0, <2>2, <1>0 DEF Underway, Management!SuccessIsDone
      <4>3. Management!AskedAsTold'
        BY <3>2, <1>0, <1>1
      <4> QED
        BY <4>1, <4>2, <4>3, <2>2 DEF ManagementInv
    <3> QED
      BY <3>1, <3>2, <2>2 DEF Management!Again
  <2>3. CASE call' = Management!Again(FALSE) /\ UNCHANGED world
    BY <2>2, <2>3, <1>0
  <2>4. CASE /\ Management!Fault /\ world' = Management!Faulty(1)
             /\ \E retryable \in BOOLEAN : call' = Management!Again(retryable)
    BY <2>2, <2>4, <1>c
  <2>5. CASE /\ Management!Fault /\ world' = [Management!Faulty(1) EXCEPT !.channel = TRUE]
             /\ call' = Management!Again(TRUE)
    <3>1. world' \in WorldType /\ world'.calls = world.calls
      BY <2>5, <1>c
    <3> QED
      BY <2>2, <2>5, <3>1
  <2> QED
    BY <1>4, <2>1, <2>3, <2>4, <2>5 DEF Management!Update, Management!World
<1>5. ASSUME Management!Genesis
      PROVE  ManagementInv'
  <2>0. call.at = "genesis" /\ call.op = "join" /\ call.result = "none" /\ world.calls > 0
          /\ call.todo = call.targets
    BY <1>0, <1>5 DEF Management!Genesis, Management!At, Underway
  <2>1. CASE call' = [call EXCEPT !.at = "joining"] /\ UNCHANGED world
    <3>1. call' \in CallType /\ world' \in WorldType
      BY <2>1, <1>0
    <3>2. Underway' /\ Management!SuccessIsDone'
      BY <2>0, <2>1, <1>0 DEF Underway, Management!SuccessIsDone
    <3>3. Management!AskedAsTold'
      BY <2>1, <1>0, <1>1
    <3> QED
      BY <3>1, <3>2, <3>3 DEF ManagementInv
  <2>2. CASE call' = Management!Returns("error") /\ UNCHANGED world
    BY <2>2, <1>0, <1>3
  <2>3. CASE Management!Fault /\ world' = Management!Faulty(1) /\ call' = Management!Returns("error")
    BY <2>3, <1>3, <1>c
  <2> QED
    BY <1>5, <2>1, <2>2, <2>3 DEF Management!Genesis, Management!World
\* a target is dealt with
<1>6. ASSUME NEW p \in Peers, Management!Join(p)
      PROVE  ManagementInv'
  <2>0. call.at = "joining" /\ call.op = "join" /\ call.result = "none" /\ world.calls > 0
          /\ call.targets \ (call.todo \cup call.bad) \subseteq world.joined
    BY <1>0, <1>6 DEF Management!Join, Management!At, Underway
  <2>1. ASSUME NEW t \in SUBSET Peers, NEW b \in SUBSET Peers, world' \in WorldType,
               world'.calls = world.calls, world.joined \subseteq world'.joined,
               call' = [call EXCEPT !.todo = @ \ {p}, !.told = t, !.bad = b],
               call.bad \subseteq b, p \in b \/ p \in world'.joined
        PROVE  ManagementInv'
    <3>1. call' \in CallType
      BY <2>1, <1>0
    <3>2. Underway' /\ Management!SuccessIsDone'
      BY <2>0, <2>1, <1>0 DEF Underway, Management!SuccessIsDone
    <3>3. Management!AskedAsTold'
      BY <2>1, <1>0, <1>1
    <3> QED
      BY <3>1, <3>2, <3>3, <2>1 DEF ManagementInv
  <2>2. CASE /\ world' = [world EXCEPT !.joined = @ \cup {p}]
             /\ call' = [call EXCEPT !.todo = @ \ {p}, !.told = @ \cup {p}]
    <3>1. world' \in WorldType /\ world'.calls = world.calls
            /\ world'.joined = world.joined \cup {p}
      BY <2>2, <1>0
    <3>2. call' = [call EXCEPT !.todo = @ \ {p}, !.told = call.told \cup {p}, !.bad = call.bad]
      BY <2>2, <1>0
    <3>3. call.told \cup {p} \in SUBSET Peers /\ call.bad \in SUBSET Peers
      BY <1>0
    <3> QED
      BY <2>1, <3>1, <3>2, <3>3
  <2>3. CASE world' \in WorldType /\ world'.calls = world.calls /\ world.joined \subseteq world'.joined
             /\ call' = [call EXCEPT !.todo = @ \ {p}, !.bad = @ \cup {p}]
    <3>1. call' = [call EXCEPT !.todo = @ \ {p}, !.told = call.told, !.bad = call.bad \cup {p}]
      BY <2>3, <1>0
    <3>2. call.bad \cup {p} \in SUBSET Peers /\ call.told \in SUBSET Peers
      BY <1>0
    <3> QED
      BY <2>1, <2>3, <3>1, <3>2
  <2>4. CASE world' \in WorldType /\ world'.calls = world.calls /\ world.joined \subseteq world'.joined
             /\ UNCHANGED call
    <3>1. Underway' /\ Management!SuccessIsDone'
      BY <2>0, <2>4, <1>0 DEF Underway, Management!SuccessIsDone
    <3>2. Management!AskedAsTold'
      BY <2>4, <1>0, <1>1
    <3> QED
      BY <3>1, <3>2, <2>4, <1>0 DEF ManagementInv
  <2>5. ASSUME Management!Fault, NEW done \in {{}, {p}},
               world' = [Management!Faulty(1) EXCEPT !.joined = @ \cup done]
        PROVE  world' \in WorldType /\ world'.calls = world.calls
                 /\ world.joined \subseteq world'.joined
    BY <2>5, <1>c
  <2>6. CASE UNCHANGED world /\ call' = [call EXCEPT !.todo = @ \ {p}, !.bad = @ \cup {p}]
    BY <2>3, <2>6, <1>0
  <2> QED
    BY <1>6, <2>2, <2>3, <2>4, <2>5, <2>6 DEF Management!Join, Management!World
<1>7. ASSUME Management!Joined
      PROVE  ManagementInv'
  <2>0. call.at = "joining" /\ call.op = "join" /\ call.todo = {}
          /\ call.targets \ (call.todo \cup call.bad) \subseteq world.joined
    BY <1>0, <1>7 DEF Management!Joined, Management!At, Underway
  <2>1. CASE call.bad = {}
    <3>1. call' = [call EXCEPT !.at = "idle", !.result = "ok"] /\ UNCHANGED world
      BY <2>1, <1>7 DEF Management!Joined, Management!Returns
    <3>2. call' \in CallType /\ world' \in WorldType
      BY <3>1, <1>0
    <3>3. Underway'
      BY <3>1, <3>1, <1>0 DEF Underway
    <3>4. Management!SuccessIsDone'
      BY <3>1, <2>0, <2>1, <1>0 DEF Management!SuccessIsDone
    <3>5. Management!AskedAsTold'
      BY <3>1, <1>0, <1>1
    <3> QED
      BY <3>2, <3>3, <3>4, <3>5 DEF ManagementInv
  <2>2. CASE call.bad # {}
    BY <2>2, <1>0, <1>3, <1>7 DEF Management!Joined
  <2> QED
    BY <2>1, <2>2
<1>8. ASSUME NEW p \in Peers, Management!Check(p)
      PROVE  ManagementInv'
  <2>0. call.at = "check" /\ call.result = "none" /\ world.calls > 0
          /\ call.op \in {"install", "lifecycleInstall"}
          /\ call.targets \ (call.todo \cup call.bad) \subseteq world.installed
    BY <1>0, <1>8 DEF Management!Check, Management!At, Underway
  <2>1. ASSUME NEW t \in SUBSET Peers, NEW b \in SUBSET Peers, world' \in WorldType,
               world'.calls = world.calls, world.installed = world'.installed,
               call' = [call EXCEPT !.todo = @ \ {p}, !.told = t, !.bad = b],
               call.bad \subseteq b, p \in b \/ p \in world.installed
        PROVE  ManagementInv'
    <3>1. call' \in CallType
      BY <2>1, <1>0
    <3>2. Underway' /\ Management!SuccessIsDone'
      BY <2>0, <2>1, <1>0 DEF Underway, Management!SuccessIsDone
    <3>3. Management!AskedAsTold'
      BY <2>1, <1>0, <1>1
    <3> QED
      BY <3>1, <3>2, <3>3, <2>1 DEF ManagementInv
  <2>2. CASE /\ p \in world.installed /\ UNCHANGED world
             /\ call' = [call EXCEPT !.todo = @ \ {p},
                                    !.told = @ \cup IF call.op = "install" THEN {p} ELSE {}]
    <3> DEFINE extra == IF call.op = "install" THEN {p} ELSE {}
               t == call.told \cup extra
    <3>0. extra \in SUBSET Peers
      OBVIOUS
    <3> HIDE DEF extra
    <3>1. t \in SUBSET Peers
      BY <3>0, <1>0
    <3>2. call' = [call EXCEPT !.todo = @ \ {p}, !.told = t, !.bad = call.bad]
      BY <2>2, <1>0 DEF extra
    <3>3. call.bad \in SUBSET Peers
      BY <1>0
    <3> HIDE DEF t
    <3> QED
      BY <2>1, <2>2, <3>1, <3>2, <3>3, <1>0
  <2>3. CASE /\ Management!Fault /\ world' = Management!Faulty(1)
             /\ call' = [call EXCEPT !.todo = @ \ {p}, !.bad = @ \cup {p}]
    <3>1. call' = [call EXCEPT !.todo = @ \ {p}, !.told = call.told, !.bad = call.bad \cup {p}]
      BY <2>3, <1>0
    <3>2. call.bad \cup {p} \in SUBSET Peers /\ call.told \in SUBSET Peers
      BY <1>0
    <3>3. world' \in WorldType /\ world'.calls = world.calls /\ world.installed = world'.installed
      BY <2>3, <1>c
    <3> QED
      BY <2>1, <3>1, <3>2, <3>3
  <2> QED
    BY <1>8, <2>2, <2>3 DEF Management!Check, Management!World
<1>9. ASSUME Management!Checked
      PROVE  ManagementInv'
  <2>0. call.at = "check" /\ call.result = "none" /\ world.calls > 0
          /\ call.op \in {"install", "lifecycleInstall"}
          /\ call.targets \ (call.todo \cup call.bad) \subseteq world.installed
          /\ UNCHANGED world
    BY <1>0, <1>9 DEF Management!Checked, Management!At, Underway
  <2>1. CASE call.todo # {}
    <3>1. call' = [call EXCEPT !.at = "send"]
      BY <2>1, <1>9 DEF Management!Checked
    <3>2. call' \in CallType /\ world' \in WorldType
      BY <3>1, <2>0, <1>0
    <3>3. Underway' /\ Management!SuccessIsDone'
      BY <3>1, <2>0, <1>0 DEF Underway, Management!SuccessIsDone
    <3>4. Management!AskedAsTold'
      BY <3>1, <1>0, <1>1
    <3> QED
      BY <3>2, <3>3, <3>4 DEF ManagementInv
  <2>2. CASE call.todo = {} /\ call.bad = {}
    <3>1. call' = [call EXCEPT !.at = "idle", !.result = "ok"]
      BY <2>2, <1>9 DEF Management!Checked, Management!Returns
    <3>2. call' \in CallType /\ world' \in WorldType
      BY <3>1, <2>0, <1>0
    <3>3. Underway'
      BY <3>1, <2>0, <1>0 DEF Underway
    <3>4. Management!SuccessIsDone'
      BY <3>1, <2>0, <2>2, <1>0 DEF Management!SuccessIsDone
    <3>5. Management!AskedAsTold'
      BY <3>1, <1>0, <1>1
    <3> QED
      BY <3>2, <3>3, <3>4, <3>5 DEF ManagementInv
  <2>3. CASE call.todo = {} /\ call.bad # {}
    BY <2>0, <2>3, <1>0, <1>3, <1>9 DEF Management!Checked
  <2> QED
    BY <2>1, <2>2, <2>3
<1>10. ASSUME Management!Send
       PROVE  ManagementInv'
  <2>0. call.at = "send" /\ call.result = "none" /\ world.calls > 0
          /\ call.op \in {"install", "lifecycleInstall"}
          /\ call.targets \ (call.todo \cup call.bad) \subseteq world.installed
    BY <1>0, <1>10 DEF Management!Send, Management!At, Underway
  <2>1. PICK failed \in SUBSET call.todo, lost \in SUBSET call.todo :
          /\ world.faults + Cardinality(failed) <= MaxLosses
          /\ world' = [Management!Faulty(Cardinality(failed)) EXCEPT
                        !.installed = @ \cup (call.todo \ failed) \cup lost]
          /\ call' = IF failed = {} /\ call.bad = {}
                     THEN [Management!Returns("ok") EXCEPT !.told = @ \cup call.todo]
                     ELSE [Management!Returns("error") EXCEPT
                             !.told = IF failed = {} THEN @ \cup call.todo ELSE {},
                             !.bad = @ \cup failed]
    BY <1>10, ManagementCounts DEF Management!Send, Management!World
  <2>2. failed \subseteq Peers /\ Cardinality(failed) \in Nat
    <3>1. failed \subseteq Peers
      BY <1>0
    <3>2. IsFiniteSet(failed)
      BY <3>1, <1>0, FS_Subset
    <3> QED
      BY <3>1, <3>2, FS_CardinalityType
  <2>3. /\ Management!Faulty(Cardinality(failed)) \in WorldType
        /\ Management!Faulty(Cardinality(failed)).calls = world.calls
        /\ Management!Faulty(Cardinality(failed)).installed = world.installed
    BY <2>1, <2>2, <1>a
  <2>4. /\ world' \in WorldType /\ world'.calls = world.calls
        /\ world'.installed = world.installed \cup (call.todo \ failed) \cup lost
    BY <2>1, <2>2, <2>3, <1>0
  <2>5. CASE failed = {} /\ call.bad = {}
    <3>1. call' = [call EXCEPT !.at = "idle", !.result = "ok", !.told = @ \cup call.todo]
      BY <2>1, <2>5, <1>0 DEF Management!Returns
    <3>2. call' \in CallType
      BY <3>1, <1>0
    <3>3. Underway'
      BY <3>1, <2>4, <1>0 DEF Underway
    <3>4. Management!SuccessIsDone'
      BY <3>1, <2>0, <2>4, <2>5, <1>0 DEF Management!SuccessIsDone
    <3>5. Management!AskedAsTold'
      BY <3>1, <1>0, <1>1
    <3> QED
      BY <2>4, <3>2, <3>3, <3>4, <3>5 DEF ManagementInv
  <2>6. CASE ~(failed = {} /\ call.bad = {})
    <3>1. PICK t \in SUBSET Peers : t = IF failed = {} THEN call.told \cup call.todo ELSE {}
      BY <1>0
    <3>2. call' = [call EXCEPT !.at = "idle", !.result = "error", !.told = t,
                               !.bad = @ \cup failed]
      BY <2>1, <2>6, <3>1, <1>0 DEF Management!Returns
    <3>3. call' \in CallType
      BY <3>2, <2>2, <1>0
    <3>4. Underway' /\ Management!SuccessIsDone'
      BY <3>2, <2>4, <1>0 DEF Underway, Management!SuccessIsDone
    <3>5. Management!AskedAsTold'
      BY <3>2, <1>0, <1>1
    <3> QED
      BY <2>4, <3>3, <3>4, <3>5 DEF ManagementInv
  <2> QED
    BY <2>5, <2>6
\* a transaction goes on
<1>11. ASSUME call.op = "transaction", NEW at \in {"register", "order", "wait"}, call.at # "idle",
              call' = [call EXCEPT !.at = at], world' \in WorldType, world'.calls = world.calls
       PROVE  ManagementInv'
  <2>1. call' \in CallType
    BY <1>0, <1>11
  <2>2. Underway' /\ Management!SuccessIsDone'
    BY <1>0, <1>11 DEF Underway, Management!SuccessIsDone
  <2>3. Management!AskedAsTold'
    BY <1>0, <1>1, <1>11
  <2> QED
    BY <2>1, <2>2, <2>3, <1>11 DEF ManagementInv
<1>12. ASSUME Management!Propose \/ Management!Register
       PROVE  ManagementInv'
  <2>0. call.at \in {"propose", "register"} /\ call.op = "transaction"
    BY <1>0, <1>12 DEF Management!Propose, Management!Register, Management!At, Underway
  <2>1. CASE call' = [call EXCEPT !.at = "register"] /\ UNCHANGED world
    BY <2>0, <2>1, <1>0, <1>11
  <2>2. CASE call' = [call EXCEPT !.at = "order"] /\ UNCHANGED world
    BY <2>0, <2>2, <1>0, <1>11
  <2>3. CASE Management!Fault /\ world' = Management!Faulty(1) /\ call' = Management!Returns("error")
    BY <2>3, <1>3, <1>c
  <2> QED
    BY <2>1, <2>2, <2>3, <1>12 DEF Management!Propose, Management!Register, Management!World
<1>13. ASSUME Management!Order
       PROVE  ManagementInv'
  <2>0. call.at = "order" /\ call.op = "transaction" /\ world.calls \in 1 .. MaxRequests
    BY <1>0, <1>13 DEF Management!Order, Management!At, Underway
  <2>1. CASE world' = [world EXCEPT !.tx[Management!Tx] = "sent"] /\ call' = [call EXCEPT !.at = "wait"]
    <3>1. world' \in WorldType /\ world'.calls = world.calls
      BY <2>0, <2>1, <1>0 DEF Management!Tx
    <3> QED
      BY <2>0, <2>1, <3>1, <1>11
  <2>2. ASSUME Management!Fault, call' = Management!Returns("error"), NEW taken \in {"none", "sent"},
               world' = [Management!Faulty(1) EXCEPT !.tx[Management!Tx] = taken]
        PROVE  ManagementInv'
    <3>1. world.calls \in 1 .. MaxRequests
      BY <2>0
    <3>2. world' \in WorldType /\ world'.calls = world.calls
      BY <2>2, <3>1, <1>c DEF Management!Tx
    <3> QED
      BY <2>2, <3>2, <1>3
  <2> QED
    BY <2>1, <2>2, <1>13 DEF Management!Order, Management!World
<1>14. ASSUME Management!Wait
       PROVE  ManagementInv'
  <2>0. call.at = "wait" /\ call.op = "transaction" /\ UNCHANGED world
    BY <1>0, <1>14 DEF Management!Wait, Management!At, Underway
  <2>1. CASE world.tx[Management!Tx] = "VALID" /\ call' = Management!Returns("ok")
    <3>1. call' = [call EXCEPT !.at = "idle", !.result = "ok"]
      BY <2>1 DEF Management!Returns
    <3>2. call' \in CallType /\ world' \in WorldType
      BY <3>1, <2>0, <1>0
    <3>3. Underway'
      BY <3>1, <2>0, <1>0 DEF Underway
    <3>4. Management!SuccessIsDone'
      BY <3>1, <2>0, <2>1, <1>0 DEF Management!SuccessIsDone, Management!Tx
    <3>5. Management!AskedAsTold'
      BY <3>1, <1>0, <1>1
    <3> QED
      BY <3>2, <3>3, <3>4, <3>5 DEF ManagementInv
  <2>2. CASE call' = Management!Returns("error")
    BY <2>0, <2>2, <1>0, <1>3
  <2> QED
    BY <2>1, <2>2, <1>14 DEF Management!Wait
<1>15. ASSUME Management!Query
       PROVE  ManagementInv'
  <2>0. call.at = "query" /\ call.op \in {"queryPeer", "queryChannel"}
    BY <1>0, <1>15 DEF Management!Query, Management!At, Underway
  <2>1. CASE call' = [Management!Returns("ok") EXCEPT !.told = call.targets] /\ UNCHANGED world
    <3>1. call' = [call EXCEPT !.at = "idle", !.result = "ok", !.told = call.targets]
      BY <2>1, <1>0 DEF Management!Returns
    <3>2. call' \in CallType /\ world' \in WorldType
      BY <3>1, <2>1, <1>0
    <3>3. Underway'
      BY <3>1, <2>1, <1>0 DEF Underway
    <3>4. Management!SuccessIsDone'
      BY <3>1, <2>0, <1>0 DEF Management!SuccessIsDone
    <3>5. Management!AskedAsTold'
      BY <3>1, <1>0, <1>1
    <3> QED
      BY <3>2, <3>3, <3>4, <3>5 DEF ManagementInv
  <2>2. CASE Management!Fault /\ world' = Management!Faulty(1) /\ call' = Management!Returns("error")
    BY <2>2, <1>3, <1>c
  <2> QED
    BY <2>1, <2>2, <1>15 DEF Management!Query, Management!World
<1>16. ASSUME NEW c \in 1 .. MaxRequests, Management!Commit(c)
       PROVE  ManagementInv'
  <2>1. PICK status \in {"VALID", "INVALID"} : world' = [world EXCEPT !.tx[c] = status]
    BY <1>16 DEF Management!Commit, Management!World
  <2>2. UNCHANGED call /\ world.tx[c] = "sent"
    BY <1>16 DEF Management!Commit
  <2>3. /\ world' \in WorldType /\ world'.calls = world.calls /\ world'.joined = world.joined
        /\ world'.installed = world.installed /\ world'.channel = world.channel
        /\ \A d \in 1 .. MaxRequests : world.tx[d] = "VALID" => world'.tx[d] = "VALID"
    BY <2>1, <2>2, <1>0
  <2>4. Underway'
    BY <2>2, <2>3, <1>0 DEF Underway
  <2>5. Management!SuccessIsDone'
    <3>1. ASSUME call.result = "ok", call.op = "transaction"
          PROVE  world.calls \in 1 .. MaxRequests
      <4>1. world.tx[world.calls] = "VALID"
        BY <3>1, <1>0 DEF Management!SuccessIsDone, Management!Tx
      <4>2. world.calls > 0
        BY <3>1, <1>0 DEF Underway
      <4> QED
        BY <4>2, <1>0
    <3> QED
      BY <2>2, <2>3, <3>1, <1>0 DEF Management!SuccessIsDone, Management!Tx
  <2>6. Management!AskedAsTold'
    BY <2>2, <1>0, <1>1
  <2> QED
    BY <2>2, <2>3, <2>4, <2>5, <2>6, <1>0 DEF ManagementInv
<1> QED
  BY <1>2, <1>4, <1>5, <1>6, <1>7, <1>8, <1>9, <1>10, <1>12, <1>13, <1>14, <1>15, <1>16
  DEF Management!Next

\* What the invariant of resource management says for its properties
LEMMA ManagementSound ==
  ASSUME ManagementInv
  PROVE  Management!TypeOK /\ Management!SuccessIsDone /\ Management!AskedAsTold
BY DEF ManagementInv, Management!TypeOK, CallType, WorldType

(***************************************************************************)
(* The membership service provider                                         *)
(***************************************************************************)

\* Cardinalities in the instance are cardinalities.
LEMMA MembersCounts ==
  ASSUME NEW S
  PROVE  Members!Cardinality(S) = Cardinality(S)
BY DEF Members!Cardinality, Cardinality

\* What is up was set up: from a configuration, whose administrators are sound.
SetUp(w) ==
  \E cf : /\ cf.version \in Members!Versions
          /\ w = Members!MspOf(cf) /\ Members!AdminsSound(w)
MembersInv ==
  /\ world.at \in {"none", "up", "failed"}
  /\ world.at = "up" => SetUp(world)
  /\ call # Members!Idle => call.id \in Identities /\ call.result \in BOOLEAN

\* The start of the MSP
LEMMA MembersStart ==
  ASSUME Members!Init
  PROVE  MembersInv
BY DEF Members!Init, MembersInv

\* Every step of the MSP keeps the invariant.
LEMMA MembersStep ==
  ASSUME Members!MspAssumption, MembersInv, Members!Next
  PROVE  MembersInv'
<1>0. /\ world.at \in {"none", "up", "failed"} /\ (world.at = "up" => SetUp(world))
      /\ (call # Members!Idle => call.id \in Identities /\ call.result \in BOOLEAN)
  BY DEF MembersInv
<1>1. CASE Members!Setup
  <2>1. UNCHANGED call
    BY <1>1 DEF Members!Setup
  <2>2. PICK c \in MspFiles :
          world' = IF /\ Members!CAsSound(Members!Loaded(c)) /\ Members!TLSCAsSound(Members!Loaded(c))
                      /\ \A o \in Members!Loaded(c).ous : Members!Certifier(Members!Loaded(c), o.ca)
                      /\ Members!NodeOUsSound(Members!Loaded(c))
                      /\ Members!AdminsSound(Members!MspOf(Members!Loaded(c)))
                   THEN Members!MspOf(Members!Loaded(c))
                   ELSE [at |-> "failed", config |-> Members!Loaded(c)]
    BY <1>1 DEF Members!Setup
  <2>3. Members!Loaded(c).version \in Members!Versions
    BY DEF Members!Loaded, Members!MspAssumption
  <2> DEFINE cf == Members!Loaded(c)
  <2>4. \/ world' = Members!MspOf(cf) /\ Members!AdminsSound(Members!MspOf(cf))
        \/ world' = [at |-> "failed", config |-> cf]
    BY <2>2
  <2> HIDE DEF cf
  <2>5. world'.at \in {"up", "failed"} /\ (world'.at = "up" => SetUp(world'))
    <3>1. CASE world' = [at |-> "failed", config |-> cf]
      BY <3>1
    <3>2. CASE world' = Members!MspOf(cf) /\ Members!AdminsSound(Members!MspOf(cf))
      <4>1. world'.at = "up"
        BY <3>2 DEF Members!MspOf
      <4>2. cf.version \in Members!Versions
        BY <2>3 DEF cf
      <4> QED
        BY <3>2, <4>1, <4>2 DEF SetUp
    <3> QED
      BY <2>4, <3>1, <3>2
  <2> QED
    BY <2>1, <2>5, <1>0 DEF MembersInv
<1>2. CASE Members!Validate
  <2>1. PICK id \in Identities :
          call' = [op |-> "validate", id |-> id, result |-> Members!IsMember(world, id)]
    BY <1>2 DEF Members!Validate
  <2>2. Members!IsMember(world, id) \in BOOLEAN
    BY DEF Members!IsMember
  <2>3. UNCHANGED world /\ call'.id \in Identities /\ call'.result \in BOOLEAN
    BY <1>2, <2>1, <2>2 DEF Members!Validate
  <2> QED
    BY <2>3, <1>0 DEF MembersInv
<1>3. CASE Members!SatisfiesPrincipal
  <2>1. PICK id \in Identities, p \in Principals :
          call' = [op |-> "satisfies", id |-> id, principal |-> p,
                   result |-> Members!Satisfies(world, id, p)]
    BY <1>3 DEF Members!SatisfiesPrincipal
  <2>2. Members!Satisfies(world, id, p) \in BOOLEAN
    BY DEF Members!Satisfies, Members!SatisfiesOne
  <2>3. UNCHANGED world /\ call'.id \in Identities /\ call'.result \in BOOLEAN
    BY <1>3, <2>1, <2>2 DEF Members!SatisfiesPrincipal
  <2> QED
    BY <2>3, <1>0 DEF MembersInv
<1>4. CASE call' = Members!Idle /\ UNCHANGED world
  BY <1>4, <1>0 DEF MembersInv
<1> QED
  BY <1>1, <1>2, <1>3, <1>4 DEF Members!Next

\* What satisfying a role comes to: in the version 1.4.3 one thing, before it another.
LEMMA RoleIsSatisfied ==
  ASSUME NEW id, NEW r
  PROVE  Members!Satisfies(world, id, [type |-> "role", msp |-> Members!Name, role |-> r])
           = IF world.config.version = "1.4.3" THEN Members!RoleV142(world, id, r)
             ELSE Members!RolePreV13(world, id, r)
<1> DEFINE p == [type |-> "role", msp |-> Members!Name, role |-> r]
<1>1. p.type = "role" /\ p.msp = Members!Name /\ p.role = r
  OBVIOUS
<1> HIDE DEF p
<1>2. Members!Satisfies(world, id, p) = Members!SatisfiesOne(world, id, p)
  BY <1>1 DEF Members!Satisfies
<1>3. Members!SatisfiesOne(world, id, p) <=>
        IF world.config.version = "1.4.3" THEN Members!RoleV142(world, id, r)
        ELSE Members!RolePreV13(world, id, r)
  BY <1>1 DEF Members!SatisfiesOne
<1>4. Members!RoleV142(world, id, r) \in BOOLEAN /\ Members!RolePreV13(world, id, r) \in BOOLEAN
        /\ Members!SatisfiesOne(world, id, p) \in BOOLEAN
  BY DEF Members!RoleV142, Members!RolePreV13, Members!SatisfiesOne
<1> QED
  BY <1>2, <1>3, <1>4 DEF p

\* What the invariant of the MSP says for its properties
LEMMA MembersSound ==
  ASSUME Members!MspAssumption, MembersInv
  PROVE  Members!TypeOK /\ Members!OneRole /\ Members!RolesAreMembers
<1> DEFINE Sat(id, r) == Members!Satisfies(world, id, [type |-> "role", msp |-> Members!Name, role |-> r])
<1>0. ASSUME world.at = "up"
      PROVE  /\ world.config.version \in Members!Versions
             /\ world.enforced \in BOOLEAN /\ DOMAIN world.node = Members!Roles
             /\ \A r \in Members!Roles \ Members!RolesOf(world.config.version) :
                  world.node[r] = Members!NoOU
             /\ world.enforced => world.config.version # "1.0"
             /\ Members!AdminsSound(world)
  <2>1. PICK cf : /\ cf.version \in Members!Versions
                  /\ world = Members!MspOf(cf) /\ Members!AdminsSound(world)
    BY <1>0 DEF MembersInv, SetUp
  <2>2. /\ world.config = cf /\ world.node = Members!NodeOf(cf)
        /\ world.enforced = (cf.enable /\ cf.version # "1.0"
                              /\ \E r \in Members!Roles : Members!NodeOf(cf)[r] # Members!NoOU)
    BY <2>1 DEF Members!MspOf
  <2>3. /\ DOMAIN world.node = Members!Roles
        /\ \A r \in Members!Roles \ Members!RolesOf(cf.version) : world.node[r] = Members!NoOU
    BY <2>2 DEF Members!NodeOf
  <2> QED
    BY <2>1, <2>2, <2>3
<1>1. Members!TypeOK
  BY <1>0 DEF Members!TypeOK, MembersInv
<1>2. \A id, r : Sat(id, r) = IF world.config.version = "1.4.3" THEN Members!RoleV142(world, id, r)
                              ELSE Members!RolePreV13(world, id, r)
  BY RoleIsSatisfied
<1> HIDE DEF Sat
<1>3. ASSUME world.at = "up", world.enforced, NEW id \in Identities \ world.config.admins,
             Members!Valid(world, id)
      PROVE  Cardinality({r \in Members!Roles : Sat(id, r)}) = 1
  <2>1. Cardinality(Members!NodeOUs(world, id)) = 1
    BY <1>3, MembersCounts DEF Members!Valid, Members!NodeOUsAllowed, Members!OneNode
  <2>2. world.config.version \in {"1.1", "1.3", "1.4.3"}
    BY <1>0, <1>3 DEF Members!Versions
  <2>3. \A r \in Members!Roles : Sat(id, r) <=> r \in Members!NodeOUs(world, id)
    <3>1. CASE world.config.version = "1.4.3"
      <4>1. \A r \in Members!Roles : Members!RoleV142(world, id, r) <=> r \in Members!NodeOUs(world, id)
        BY <1>3 DEF Members!RoleV142, Members!RolePreV13, Members!HasRole, Members!Roles
      <4> QED
        BY <3>1, <4>1, <1>2
    <3>2. CASE world.config.version \in {"1.1", "1.3"}
      <4>1. Members!NodeOUs(world, id) \subseteq {"client", "peer"}
        BY <3>2, <1>0, <1>3 DEF Members!NodeOUs, Members!RolesOf
      <4>2. \A r \in Members!Roles : Members!RolePreV13(world, id, r) <=> r \in Members!NodeOUs(world, id)
        BY <4>1, <1>3 DEF Members!RolePreV13, Members!HasRole, Members!Roles
      <4> QED
        BY <3>2, <4>2, <1>2
    <3> QED
      BY <2>2, <3>1, <3>2
  <2>4. {r \in Members!Roles : Sat(id, r)} = Members!NodeOUs(world, id)
    BY <2>3 DEF Members!NodeOUs
  <2> QED
    BY <2>1, <2>4
<1>4. Members!OneRole
  <2>1. ASSUME NEW id \in Identities
        PROVE  {r \in Members!Roles : id \in Members!Satisfied(r)} = {r \in Members!Roles : Sat(id, r)}
    BY <2>1 DEF Sat, Members!Satisfied
  <2> QED
    BY <2>1, <1>3, MembersCounts DEF Members!OneRole
<1>5. ASSUME world.at = "up", NEW r \in Members!Roles, NEW id \in Identities, Sat(id, r),
             ~(world.config.version = "1.4.3" /\ world.enforced /\ id \in world.config.admins)
      PROVE  Members!Valid(world, id)
  <2>1. /\ id \in world.config.admins /\ ~world.enforced => Members!Valid(world, id)
        /\ id \in world.config.admins /\ world.enforced => Sat(id, "client")
    <3>1. Members!AdminsSound(world)
      BY <1>0, <1>5
    <3> QED
      BY <3>1, <1>5 DEF Members!AdminsSound, Members!ClientAdmin, Sat
  <2>2. \A s \in {"client", "peer"} : Sat(id, s) => Members!Valid(world, id)
    BY <1>2 DEF Members!RoleV142, Members!RolePreV13
  <2>3. Sat(id, r) /\ r = "admin" => Members!Valid(world, id) \/ id \in world.config.admins
    BY <1>2 DEF Members!RoleV142, Members!RolePreV13
  <2>4. Sat(id, r) /\ r = "orderer" => Members!Valid(world, id)
    BY <1>2 DEF Members!RoleV142, Members!RolePreV13
  <2>5. world.enforced \in BOOLEAN
    BY <1>0, <1>5
  <2> QED
    BY <2>1, <2>2, <2>3, <2>4, <2>5, <1>5 DEF Members!Roles
<1>6. Members!RolesAreMembers
  BY <1>5 DEF Members!RolesAreMembers, Members!Satisfied, Sat, Members!Version
<1> QED
  BY <1>1, <1>4, <1>6

(***************************************************************************)
(* Queries of ledgers                                                      *)
(***************************************************************************)

QueryTargets == [peer : Peers, n : Nat]
QueryCallType ==
  [op : Queries!Ops \cup {"none"}, at : {"idle", "asking", "done"},
   targets : SUBSET QueryTargets, asked : SUBSET QueryTargets,
   responses : Seq([peer : Peers, value : 1 .. Queries!Forged]), min : Nat,
   tries : 0 .. Attempts, result : {"none", "ok", "error"}, answer : 0 .. Queries!Forged]
QueryWorldType == [height : [Peers -> 1 .. MaxHeight], faults : 0 .. MaxFaults]

\* A peer is asked once, by whatever name it has among the targets, and answers once.
AskedOnce ==
  /\ call.asked \subseteq call.targets
  /\ \A s, t \in call.targets : s.peer = t.peer => s = t
  /\ \A i, j \in DOMAIN call.responses :
       call.responses[i].peer = call.responses[j].peer => i = j
  /\ \A i \in DOMAIN call.responses :
       \E t \in call.targets \ call.asked : t.peer = call.responses[i].peer

\* What is answered is what enough peers said.
AgreedUpon ==
  /\ call.at = "asking" => call.min > 0 /\ call.result = "none" /\ call.op # "none"
  /\ call.result = "ok" /\ call.op \in {"block", "transaction", "config"} =>
       /\ Len(call.responses) >= call.min /\ call.min > 0
       /\ \A i \in DOMAIN call.responses : call.responses[i].value = call.answer

QueriesInv ==
  /\ call \in QueryCallType /\ world \in QueryWorldType /\ AskedOnce /\ AgreedUpon

\* What the constants of queries are.
LEMMA QueriesConstants ==
  ASSUME Queries!LedgerAssumption
  PROVE  /\ MaxHeight \in Nat /\ Attempts \in Nat /\ MaxFaults \in Nat
         /\ MaxHeight > 0 /\ Queries!Forged = MaxHeight + 1
         /\ Queries!Forged \in Nat /\ 0 \in 0 .. Queries!Forged
         /\ Mins \subseteq Nat /\ Forgers \subseteq Peers
         /\ Given \subseteq SUBSET QueryTargets
         /\ Known \subseteq Peers
BY DEF Queries!LedgerAssumption, Queries!Forged, QueryTargets

\* The start of queries
LEMMA QueriesStart ==
  ASSUME Queries!LedgerAssumption, Queries!Init
  PROVE  QueriesInv
<1>1. /\ call = [op |-> "none", at |-> "idle", targets |-> {}, asked |-> {}, responses |-> <<>>,
                 min |-> 0, tries |-> 0, result |-> "none", answer |-> 0]
      /\ world = [height |-> [p \in Peers |-> 1], faults |-> 0]
  BY DEF Queries!Init, Queries!Idle
<1>2. call \in QueryCallType
  BY <1>1, QueriesConstants DEF QueryCallType
<1>3. world \in QueryWorldType
  BY <1>1, QueriesConstants DEF QueryWorldType
<1>4. AskedOnce /\ AgreedUpon
  BY <1>1 DEF AskedOnce, AgreedUpon
<1> QED
  BY <1>2, <1>3, <1>4 DEF QueriesInv

\* A query begins, with every peer among its targets once.
LEMMA QueriesBegin ==
  ASSUME Queries!LedgerAssumption, QueriesInv, NEW op \in Queries!Ops, NEW min \in Mins,
         NEW max, NEW targets \in SUBSET QueryTargets, Queries!Begin(op, targets, min, max)
  PROVE  QueriesInv'
<1>0. /\ call \in QueryCallType /\ world \in QueryWorldType /\ AskedOnce /\ AgreedUpon
      /\ call.at = "idle" /\ UNCHANGED world
  BY DEF QueriesInv, Queries!Begin
<1>1. Queries!MinOf(min) \in Nat /\ Queries!MinOf(min) > 0
  BY QueriesConstants DEF Queries!MinOf
<1>2. CASE Queries!Ends("error", 0)
  <2>1. call' = [call EXCEPT !.at = "done", !.result = "error", !.answer = 0]
    BY <1>2 DEF Queries!Ends
  <2>2. call' \in QueryCallType
    <3>1. 0 \in 0 .. Queries!Forged
      BY QueriesConstants
    <3> QED
      BY <1>0, <2>1, <3>1 DEF QueryCallType
  <2>3. AskedOnce' /\ AgreedUpon'
    BY <1>0, <2>1 DEF AskedOnce, AgreedUpon, QueryCallType
  <2> QED
    BY <1>0, <2>2, <2>3 DEF QueriesInv
<1>3. ASSUME NEW ts \in SUBSET targets,
             call' = [Queries!Idle EXCEPT !.op = op, !.at = "asking",
                        !.targets = Queries!WithoutDuplicates(ts),
                        !.asked = Queries!WithoutDuplicates(ts), !.min = Queries!MinOf(min)]
      PROVE  QueriesInv'
  <2> DEFINE asked == Queries!WithoutDuplicates(ts)
  <2>1. asked \in SUBSET QueryTargets
    BY DEF Queries!WithoutDuplicates
  <2>2. \A s, t \in asked : s.peer = t.peer => s = t
    BY DEF Queries!WithoutDuplicates, QueryTargets
  <2>3. call' = [op |-> op, at |-> "asking", targets |-> asked, asked |-> asked,
                 responses |-> <<>>, min |-> Queries!MinOf(min), tries |-> 0,
                 result |-> "none", answer |-> 0]
    BY <1>3 DEF Queries!Idle
  <2> HIDE DEF asked
  <2>4. call' \in QueryCallType
    BY <1>1, <2>1, <2>3, QueriesConstants DEF QueryCallType
  <2>5. AskedOnce' /\ AgreedUpon'
    BY <1>1, <2>2, <2>3 DEF AskedOnce, AgreedUpon, Queries!Ops
  <2> QED
    BY <1>0, <2>4, <2>5 DEF QueriesInv
<1> QED
  BY <1>2, <1>3 DEF Queries!Begin, Queries!kSubset

\* A peer answers a query, or tells a lie.
LEMMA QueriesRespond ==
  ASSUME Queries!LedgerAssumption, QueriesInv, NEW t \in call.asked, Queries!Respond(t)
  PROVE  QueriesInv'
<1>0. /\ call \in QueryCallType /\ world \in QueryWorldType /\ AskedOnce /\ AgreedUpon
      /\ call.at = "asking" /\ call.result = "none"
      /\ t \in QueryTargets /\ t.peer \in Peers
  BY DEF QueriesInv, Queries!Respond, AgreedUpon, QueryCallType, QueryTargets
<1>1. ASSUME NEW v \in 1 .. Queries!Forged,
             call' = [call EXCEPT !.asked = @ \ {t},
                                  !.responses = Append(@, [peer |-> t.peer, value |-> v])]
      PROVE  call' \in QueryCallType /\ AskedOnce' /\ AgreedUpon'
  <2> DEFINE r == [peer |-> t.peer, value |-> v]
             rs == Append(call.responses, r)
  <2>0. call.responses \in Seq([peer : Peers, value : 1 .. Queries!Forged])
          /\ r \in [peer : Peers, value : 1 .. Queries!Forged]
    BY <1>0, <1>1 DEF QueryCallType
  <2>1. /\ rs \in Seq([peer : Peers, value : 1 .. Queries!Forged])
        /\ DOMAIN call.responses = 1 .. Len(call.responses) /\ Len(call.responses) \in Nat
        /\ DOMAIN rs = 1 .. Len(call.responses) + 1
        /\ \A i \in 1 .. Len(call.responses) : rs[i] = call.responses[i]
        /\ rs[Len(call.responses) + 1] = r
    BY <2>0
  <2> HIDE DEF rs
  <2>2. /\ call'.responses = rs /\ call'.asked = call.asked \ {t} /\ call'.targets = call.targets
        /\ call'.at = "asking" /\ call'.min = call.min /\ call'.result = "none"
        /\ call'.op = call.op
    BY <1>0, <1>1 DEF QueryCallType, rs
  <2>3. call' \in QueryCallType
    BY <1>0, <1>1, <2>1 DEF QueryCallType, rs
  <2>4. AgreedUpon'
    BY <1>0, <2>2 DEF AgreedUpon
  <2>5. \A i \in DOMAIN call.responses : call.responses[i].peer # t.peer
    BY <1>0 DEF AskedOnce
  <2>6. \A i \in 1 .. Len(call.responses) + 1 : \E s \in call.targets \ (call.asked \ {t}) : s.peer = rs[i].peer
    <3>1. t \in call.targets \ (call.asked \ {t}) /\ rs[Len(call.responses) + 1].peer = t.peer
      BY <1>0, <2>1 DEF AskedOnce
    <3>2. ASSUME NEW i \in 1 .. Len(call.responses)
          PROVE  \E s \in call.targets \ (call.asked \ {t}) : s.peer = rs[i].peer
      <4>1. i \in DOMAIN call.responses /\ rs[i] = call.responses[i]
        BY <2>1
      <4>2. PICK s \in call.targets \ call.asked : s.peer = call.responses[i].peer
        BY <1>0, <4>1 DEF AskedOnce
      <4> QED
        BY <4>1, <4>2
    <3>3. \A i \in 1 .. Len(call.responses) + 1 :
            i \in 1 .. Len(call.responses) \/ i = Len(call.responses) + 1
      BY <2>1
    <3> QED
      BY <3>1, <3>2, <3>3
  <2>7. \A i, j \in 1 .. Len(call.responses) + 1 : rs[i].peer = rs[j].peer => i = j
    <3> DEFINE n == Len(call.responses)
    <3>1. rs[n + 1].peer = t.peer /\ n \in Nat
      BY <2>1
    <3>2. \A i \in 1 .. n : rs[i].peer = call.responses[i].peer /\ rs[i].peer # t.peer
      BY <2>1, <2>5
    <3>3. \A i, j \in 1 .. n : rs[i].peer = rs[j].peer => i = j
      BY <1>0, <2>1 DEF AskedOnce
    <3>4. \A i \in 1 .. n + 1 : i \in 1 .. n \/ i = n + 1
      BY <3>1
    <3>5. ASSUME NEW i \in 1 .. n + 1, NEW j \in 1 .. n + 1, rs[i].peer = rs[j].peer
          PROVE  i = j
      <4>1. CASE i \in 1 .. n /\ j \in 1 .. n
        BY <3>3, <3>5, <4>1
      <4>2. CASE i \in 1 .. n /\ j = n + 1
        <5>1. rs[i].peer = t.peer
          BY <3>1, <3>5, <4>2
        <5> QED
          BY <3>2, <4>2, <5>1
      <4>3. CASE i = n + 1 /\ j \in 1 .. n
        <5>1. rs[j].peer = t.peer
          BY <3>1, <3>5, <4>3
        <5> QED
          BY <3>2, <4>3, <5>1
      <4> HIDE DEF n
      <4> QED
        BY <3>4, <4>1, <4>2, <4>3
    <3> QED
      BY <3>5
  <2>8. AskedOnce'
    BY <1>0, <2>1, <2>2, <2>6, <2>7 DEF AskedOnce
  <2> QED
    BY <2>3, <2>4, <2>8
<1>2. ASSUME call' = [call EXCEPT !.asked = @ \ {t}]
      PROVE  call' \in QueryCallType /\ AskedOnce' /\ AgreedUpon'
  <2>1. call' \in QueryCallType
    BY <1>0, <1>2 DEF QueryCallType
  <2>2. AskedOnce' /\ AgreedUpon'
    BY <1>0, <1>2 DEF AskedOnce, AgreedUpon, QueryCallType
  <2> QED
    BY <2>1, <2>2
<1>3. Queries!Says(t.peer) # 0 => Queries!Says(t.peer) \in 1 .. Queries!Forged
  <2>1. world.height[t.peer] \in 1 .. MaxHeight
    BY <1>0 DEF QueryWorldType
  <2> QED
    BY <2>1, QueriesConstants DEF Queries!Says
<1>4. Queries!Forged \in 1 .. Queries!Forged
  BY QueriesConstants
<1>5. world' \in QueryWorldType
  <2>1. \/ UNCHANGED world
        \/ world.faults < MaxFaults /\ world' = [world EXCEPT !.faults = @ + 1]
    BY DEF Queries!Respond
  <2> QED
    BY <1>0, <2>1, QueriesConstants DEF QueryWorldType
<1>6. call' \in QueryCallType /\ AskedOnce' /\ AgreedUpon'
  BY <1>1, <1>2, <1>3, <1>4 DEF Queries!Respond
<1> QED
  BY <1>5, <1>6 DEF QueriesInv

\* A query ends, with an answer if enough agree.
LEMMA QueriesAnswer ==
  ASSUME Queries!LedgerAssumption, QueriesInv, Queries!Answer
  PROVE  QueriesInv'
<1>0. /\ call \in QueryCallType /\ world \in QueryWorldType /\ AskedOnce /\ AgreedUpon
      /\ call.at = "asking" /\ call.result = "none" /\ call.min > 0 /\ call.min \in Nat
      /\ UNCHANGED world
  BY DEF QueriesInv, Queries!Answer, AgreedUpon, QueryCallType
<1>1. /\ call.responses \in Seq([peer : Peers, value : 1 .. Queries!Forged])
      /\ DOMAIN call.responses = 1 .. Len(call.responses) /\ Len(call.responses) \in Nat
      /\ \A i \in DOMAIN call.responses : call.responses[i].value \in 1 .. Queries!Forged
  <2>1. call.responses \in Seq([peer : Peers, value : 1 .. Queries!Forged])
    BY <1>0 DEF QueryCallType
  <2>2. \A i \in DOMAIN call.responses :
          call.responses[i] \in [peer : Peers, value : 1 .. Queries!Forged]
    BY <2>1, TypedSequence
  <2> QED
    BY <2>1, <2>2
<1>2. ASSUME NEW result \in {"ok", "error"}, NEW answer \in 0 .. Queries!Forged,
             Queries!Ends(result, answer),
             result = "ok" /\ call.op \in {"block", "transaction", "config"} =>
               /\ Len(call.responses) >= call.min
               /\ \A i \in DOMAIN call.responses : call.responses[i].value = answer
      PROVE  QueriesInv'
  <2>1. call' = [call EXCEPT !.at = "done", !.result = result, !.answer = answer]
    BY <1>2 DEF Queries!Ends
  <2>2. call' \in QueryCallType
    BY <1>0, <1>2, <2>1 DEF QueryCallType
  <2>3. AskedOnce'
    BY <1>0, <2>1 DEF AskedOnce, QueryCallType
  <2>4. AgreedUpon'
    BY <1>0, <1>2, <2>1 DEF AgreedUpon, QueryCallType
  <2> QED
    BY <1>0, <2>2, <2>3, <2>4 DEF QueriesInv
<1>3. CASE ~Queries!Enough
  <2>1. Queries!Ends("error", 0)
    BY <1>3 DEF Queries!Answer
  <2> QED
    BY <1>2, <2>1, QueriesConstants
<1>e. ASSUME Queries!Enough
      PROVE  /\ Len(call.responses) > 0
             /\ call.op # "configBlock" => Len(call.responses) >= call.min
  BY <1>0, <1>1, <1>e DEF Queries!Enough
<1>4. CASE Queries!Enough /\ call.op = "info"
  <2>1. Queries!Ends("ok", Queries!Max(Queries!Values))
    BY <1>4 DEF Queries!Answer
  <2>2. Queries!Values \subseteq 0 .. Queries!Forged /\ Queries!Values # {} /\ Queries!Forged \in Nat
    <3>1. call.responses[1].value \in Queries!Values
      BY <1>1, <1>4, <1>e DEF Queries!Values
    <3>2. \A i \in DOMAIN call.responses : call.responses[i].value \in 0 .. Queries!Forged
      BY <1>1, QueriesConstants
    <3> QED
      BY <3>1, <3>2, QueriesConstants DEF Queries!Values
  <2>3. \E x \in Queries!Values : \A y \in Queries!Values : x >= y
    BY <2>2, GreatestNatural
  <2>4. Queries!Max(Queries!Values) \in Queries!Values
    BY <2>3 DEF Queries!Max
  <2> QED
    BY <1>2, <1>4, <2>1, <2>2, <2>4
<1>5. CASE Queries!Enough /\ call.op = "configBlock"
  <2>1. Queries!Ends("ok", call.responses[1].value)
    BY <1>5 DEF Queries!Answer
  <2>2. call.responses[1].value \in 0 .. Queries!Forged
    BY <1>1, <1>5, <1>e, QueriesConstants
  <2> QED
    BY <1>2, <1>5, <2>1, <2>2
<1>6. CASE Queries!Enough /\ call.op \in {"block", "transaction", "config"}
  <2>1. IF Queries!Agree(Queries!Values) THEN Queries!Ends("ok", call.responses[1].value)
        ELSE IF Queries!MayRetry
        THEN call' = [call EXCEPT !.asked = call.targets, !.responses = <<>>, !.tries = @ + 1]
        ELSE Queries!Ends("error", 0)
    BY <1>6 DEF Queries!Answer
  <2>2. CASE Queries!Agree(Queries!Values)
    <3>1. PICK v : Queries!Values = {v}
      <4> DEFINE V == Queries!Values
      <4>1. Queries!Cardinality(V) = 1
        BY <2>2 DEF Queries!Agree
      <4>2. Cardinality(V) = 1
        BY <4>1 DEF Queries!Cardinality, Cardinality
      <4>3. V \subseteq 1 .. Queries!Forged /\ Queries!Forged \in Nat
        BY <1>1, QueriesConstants DEF Queries!Values
      <4> HIDE DEF V
      <4>4. IsFiniteSet(V)
        <5>1. IsFiniteSet(1 .. Queries!Forged)
          BY <4>3, FS_Interval
        <5> QED
          BY <4>3, <5>1, FS_Subset
      <4>5. \E w : V = {w}
        BY <4>2, <4>4, FS_Singleton
      <4> QED
        BY <4>5 DEF V
    <3>2. \A i \in DOMAIN call.responses : call.responses[i].value \in Queries!Values
      BY DEF Queries!Values
    <3>3. \A i \in DOMAIN call.responses : call.responses[i].value = call.responses[1].value
      BY <3>1, <3>2, <1>1
    <3>4. call.responses[1].value \in 0 .. Queries!Forged
      BY <1>1, <1>6, <1>e, QueriesConstants
    <3> QED
      BY <1>2, <1>6, <1>e, <2>1, <2>2, <3>3, <3>4
  <2>3. CASE ~Queries!Agree(Queries!Values) /\ Queries!MayRetry
    <3>1. call' = [call EXCEPT !.asked = call.targets, !.responses = <<>>, !.tries = @ + 1]
      BY <2>1, <2>3
    <3>2. call.tries + 1 \in 0 .. Attempts
      BY <1>0, <2>3, QueriesConstants DEF Queries!MayRetry, QueryCallType
    <3>3. call' \in QueryCallType
      <4>1. <<>> \in Seq([peer : Peers, value : 1 .. Queries!Forged])
        OBVIOUS
      <4> QED
        BY <1>0, <3>1, <3>2, <4>1 DEF QueryCallType
    <3>4. AskedOnce' /\ AgreedUpon'
      BY <1>0, <3>1 DEF AskedOnce, AgreedUpon, QueryCallType
    <3> QED
      BY <1>0, <3>3, <3>4 DEF QueriesInv
  <2>4. CASE ~Queries!Agree(Queries!Values) /\ ~Queries!MayRetry
    BY <1>2, <2>1, <2>4, QueriesConstants
  <2> QED
    BY <2>2, <2>3, <2>4
<1>7. call.op # "none"
  BY <1>0 DEF AgreedUpon
<1> QED
  BY <1>0, <1>3, <1>4, <1>5, <1>6, <1>7 DEF QueryCallType, Queries!Ops

\* Every step of queries keeps the invariant.
LEMMA QueriesStep ==
  ASSUME Queries!LedgerAssumption, QueriesInv, Queries!Next
  PROVE  QueriesInv'
<1>0. /\ call \in QueryCallType /\ world \in QueryWorldType /\ AskedOnce /\ AgreedUpon
  BY DEF QueriesInv
<1>1. ASSUME NEW op \in Queries!Ops, NEW min \in Mins, NEW max \in Maxs, NEW ts \in Given,
             Queries!Begin(op, ts, min, max)
      PROVE  QueriesInv'
  BY <1>1, QueriesConstants, QueriesBegin
<1>2. ASSUME NEW op \in Queries!Ops, NEW min \in Mins, NEW max \in Maxs,
             NEW f \in OwnFilters \cup {Own}, Queries!Begin(op, Queries!Discovered(f), min, max)
      PROVE  QueriesInv'
  <2>1. Queries!Discovered(f) \in SUBSET QueryTargets
    BY QueriesConstants DEF Queries!Discovered, QueryTargets
  <2> QED
    BY <1>2, <2>1, QueriesBegin
<1>3. ASSUME Queries!Finished
      PROVE  QueriesInv'
  <2>1. call' = [op |-> "none", at |-> "idle", targets |-> {}, asked |-> {}, responses |-> <<>>,
                 min |-> 0, tries |-> 0, result |-> "none", answer |-> 0]
        /\ UNCHANGED world
    BY <1>3 DEF Queries!Finished, Queries!Idle
  <2>2. call' \in QueryCallType
    BY <2>1, QueriesConstants DEF QueryCallType
  <2>3. AskedOnce' /\ AgreedUpon'
    BY <2>1 DEF AskedOnce, AgreedUpon
  <2> QED
    BY <1>0, <2>1, <2>2, <2>3 DEF QueriesInv
<1>4. ASSUME NEW p \in Peers, Queries!Commit(p)
      PROVE  QueriesInv'
  <2>1. UNCHANGED call /\ world' \in QueryWorldType
    BY <1>0, <1>4, QueriesConstants DEF Queries!Commit, QueryWorldType
  <2>2. AskedOnce' /\ AgreedUpon'
    BY <1>0, <2>1 DEF AskedOnce, AgreedUpon
  <2> QED
    BY <1>0, <2>1, <2>2 DEF QueriesInv
<1> QED
  BY <1>1, <1>2, <1>3, <1>4, QueriesRespond, QueriesAnswer DEF Queries!Next

\* What the invariant of queries says for its properties
LEMMA QueriesSound ==
  ASSUME Queries!LedgerAssumption, QueriesInv
  PROVE  Queries!TypeOK /\ Queries!TrueUnlessMinLie
<1>0. /\ call \in QueryCallType /\ world \in QueryWorldType /\ AskedOnce /\ AgreedUpon
  BY DEF QueriesInv
<1>1. call.responses \in Seq([peer : Peers, value : 1 .. Queries!Forged])
  BY <1>0 DEF QueryCallType
<1>2. Queries!TypeOK
  <2>1. \A i \in DOMAIN call.responses :
          call.responses[i] \in [peer : Peers, value : 1 .. Queries!Forged]
    BY <1>1, TypedSequence
  <2> QED
    BY <1>0, <2>1 DEF Queries!TypeOK, QueryCallType, QueryWorldType, AskedOnce
<1>3. ASSUME call.result = "ok", call.op \in {"block", "transaction", "config"},
             Queries!Cardinality(Queries!Liars) < call.min, call.answer = Queries!Forged
      PROVE  FALSE
  <2> DEFINE D == 1 .. Len(call.responses)
             L == Queries!Liars
             f == [i \in D |-> call.responses[i].peer]
  <2>1. /\ \A i \in DOMAIN call.responses : call.responses[i].value = Queries!Forged
        /\ Len(call.responses) >= call.min /\ Len(call.responses) \in Nat /\ call.min \in Nat
        /\ DOMAIN call.responses = D
    BY <1>0, <1>1, <1>3 DEF AgreedUpon, QueryCallType
  <2>2. L = {call.responses[i].peer : i \in {j \in D : call.responses[j].value = Queries!Forged}}
    BY <2>1 DEF Queries!Liars
  <2>3. f \in Bijection(D, L)
    <3>1. \A i, j \in D : f[i] = f[j] => i = j
      BY <1>0, <2>1 DEF AskedOnce
    <3>2. \A i \in D : f[i] \in L
      BY <2>1, <2>2
    <3>3. \A l \in L : \E i \in D : f[i] = l
      BY <2>2
    <3> HIDE DEF L
    <3>4. f \in [D -> L]
      BY <3>2
    <3> HIDE DEF D, f
    <3>5. f \in Injection(D, L)
      BY <3>1, <3>4 DEF Injection, IsInjective
    <3>6. f \in Surjection(D, L)
      BY <3>3, <3>4 DEF Surjection
    <3> QED
      BY <3>5, <3>6 DEF Bijection
  <2>4. IsFiniteSet(D) /\ Cardinality(D) = Len(call.responses)
    BY <2>1, FS_Interval
  <2>5. Cardinality(L) = Cardinality(D)
    <3> HIDE DEF D, L, f
    <3>1. ExistsBijection(D, L)
      BY <2>3 DEF ExistsBijection
    <3> QED
      BY <2>4, <3>1, FS_Bijection
  <2>6. Queries!Cardinality(L) = Cardinality(L)
    BY DEF Queries!Cardinality, Cardinality
  <2> QED
    BY <1>3, <2>1, <2>4, <2>5, <2>6
<1> QED
  BY <1>2, <1>3 DEF Queries!TrueUnlessMinLie

(***************************************************************************)
(* The life cycle of chaincodes                                            *)
(***************************************************************************)

\* Cardinalities in the instance are cardinalities.
LEMMA CycleCounts ==
  ASSUME NEW S
  PROVE  Cycle!Cardinality(S) = Cardinality(S) /\ Cycle!IsFiniteSet(S) = IsFiniteSet(S)
BY DEF Cycle!Cardinality, Cardinality, Cycle!IsFiniteSet, IsFiniteSet

CycleCallShape ==
  call = [op |-> call.op, at |-> call.at, org |-> call.org, req |-> call.req,
          targets |-> call.targets, todo |-> call.todo, answers |-> call.answers,
          floor |-> call.floor, told |-> call.told, result |-> call.result]
CycleChainType ==
  /\ \E S : chain \in Seq(S)
  /\ Len(chain) <= MaxTransactions
  /\ \A i \in DOMAIN chain : Cycle!AsAsked(chain[i])
  /\ heights \in [OrgPeers -> 0 .. Len(chain)]
CycleCallType ==
  /\ CycleCallShape
  /\ call.op \in Cycle!Writes \cup Cycle!Reads \cup {None}
  /\ call.at \in {"idle", "asking", "asked"}
  /\ call.result \in {None, "ok", "error", "mismatch"}
  /\ call.targets \subseteq OrgPeers /\ call.todo \subseteq call.targets
  /\ \E S : call.answers \in Seq(S)
  /\ Len(call.answers) + Cardinality(call.todo) <= Cardinality(call.targets)
  /\ call.floor \in Nat

\* What a peer says to a query when it has h transactions
CycleSays(h, p) ==
  IF call.op = "all" THEN Cycle!Listings(Cycle!Committed(Cycle!Prefix(h)))
  ELSE Cycle!Answers(Cycle!Prefix(h), p)

\* One of the targets was as far as any when the call began: it is still to be asked, or
\* what it said is among the answers.
CycleUnderway ==
  call.at # "idle" =>
    /\ call.op # None /\ call.result = None
    /\ call.at = "asked" => call.todo = {}
    /\ call.op \in Cycle!Writes =>
         Cycle!IsRequest(call.req) /\ Cycle!Marshal(call.req)[1] # "error"
    /\ call.op \in Cycle!Reads =>
         /\ \E p \in call.targets :
              /\ call.floor <= heights[p]
              /\ \/ p \in call.todo
                 \/ \E i \in DOMAIN call.answers, h \in call.floor .. Len(chain) :
                      call.answers[i] \in CycleSays(h, p)
         /\ \A i \in DOMAIN call.answers : \E h \in 0 .. Len(chain), p \in call.targets :
              call.answers[i] \in CycleSays(h, p)

CycleTells == Cycle!NotOlderThanAsked /\ Cycle!ToldAsAskedFor /\ Cycle!SameIsNoMismatch

CycleInv == CycleChainType /\ CycleCallType /\ CycleUnderway /\ CycleTells

\* The start of the life cycle
LEMMA CycleStart ==
  ASSUME Cycle!LifecycleAssumption, Cycle!Init
  PROVE  CycleInv
<1>1. /\ chain = History /\ heights = [p \in OrgPeers |-> Len(History)]
      /\ call = [op |-> None, at |-> "idle", org |-> None, req |-> None, targets |-> {},
                 todo |-> {}, answers |-> <<>>, floor |-> 0, told |-> None, result |-> None]
  BY DEF Cycle!Init, Cycle!Idle
<1>2. CycleChainType
  <2>1. History \in Seq({History[i] : i \in DOMAIN History}) /\ Len(History) <= MaxTransactions
          /\ \A i \in DOMAIN History : Cycle!AsAsked(History[i])
    BY DEF Cycle!LifecycleAssumption
  <2>2. \E S : chain \in Seq(S)
    BY <1>1, <2>1
  <2>3. Len(chain) \in 0 .. Len(chain)
    BY <2>2
  <2> QED
    BY <1>1, <2>1, <2>2, <2>3 DEF CycleChainType
<1>3. CycleCallType
  <2>1. \E S : <<>> \in Seq(S)
    OBVIOUS
  <2>2. Cardinality({}) = 0
    BY FS_EmptySet
  <2>3. CycleCallShape
    BY <1>1 DEF CycleCallShape
  <2> QED
    BY <1>1, <2>1, <2>2, <2>3 DEF CycleCallType
<1>4. CycleUnderway
  BY <1>1 DEF CycleUnderway
<1>5. CycleTells
  BY <1>1 DEF CycleTells, Cycle!NotOlderThanAsked, Cycle!ToldAsAskedFor, Cycle!SameIsNoMismatch,
              Cycle!Told, Cycle!LifecycleAssumption, Cycle!Writes, Cycle!Reads
<1> QED
  BY <1>2, <1>3, <1>4, <1>5 DEF CycleInv

\* The chain grows by transactions of what was asked for, and peers catch up with it.
CycleGrows ==
  /\ chain' = chain \/ \E t : Cycle!AsAsked(t) /\ chain' = Append(chain, t)
  /\ Len(chain') <= MaxTransactions
  /\ heights' \in [OrgPeers -> 0 .. Len(chain')]
  /\ \A p \in OrgPeers : heights[p] <= heights'[p]

\* What a peer has is not changed by what is added after it.
LEMMA PrefixStays ==
  ASSUME NEW S, NEW s \in Seq(S), NEW t, NEW h \in 0 .. Len(s)
  PROVE  SubSeq(Append(s, t), 1, h) = SubSeq(s, 1, h)
<1>1. s \in Seq(S \cup {t}) /\ Append(s, t) \in Seq(S \cup {t})
  OBVIOUS
<1>2. SubSeq(s, 1, h) = [i \in 1 .. h |-> s[i]]
  BY <1>1, SubSeqProperties
<1>3. SubSeq(Append(s, t), 1, h) = [i \in 1 .. h |-> Append(s, t)[i]]
  BY <1>1, SubSeqProperties
<1>4. \A i \in 1 .. h : Append(s, t)[i] = s[i]
  BY <1>1
<1> QED
  BY <1>2, <1>3, <1>4

\* A chain that grows is still one, and what peers had of it they have.
LEMMA CycleChain ==
  ASSUME CycleChainType, CycleGrows
  PROVE  /\ CycleChainType'
         /\ Len(chain) \in Nat /\ Len(chain') \in Nat /\ Len(chain) <= Len(chain')
         /\ \A i \in DOMAIN chain : i \in DOMAIN chain' /\ chain'[i] = chain[i]
         /\ \A h \in 0 .. Len(chain) : Cycle!Prefix(h)' = Cycle!Prefix(h)
<1>1. PICK S : chain \in Seq(S)
  BY DEF CycleChainType
<1>2. CASE chain' = chain
  <2>1. CycleChainType'
    BY <1>2 DEF CycleChainType, CycleGrows
  <2> QED
    BY <1>1, <1>2, <2>1 DEF Cycle!Prefix
<1>3. ASSUME NEW t, Cycle!AsAsked(t), chain' = Append(chain, t)
      PROVE  /\ CycleChainType'
             /\ Len(chain) \in Nat /\ Len(chain') \in Nat /\ Len(chain) <= Len(chain')
             /\ \A i \in DOMAIN chain : i \in DOMAIN chain' /\ chain'[i] = chain[i]
             /\ \A h \in 0 .. Len(chain) : Cycle!Prefix(h)' = Cycle!Prefix(h)
  <2>1. chain \in Seq(S \cup {t}) /\ chain' \in Seq(S \cup {t})
    BY <1>1, <1>3
  <2>2. /\ Len(chain) \in Nat /\ Len(chain') = Len(chain) + 1
        /\ DOMAIN chain' = 1 .. Len(chain) + 1 /\ DOMAIN chain = 1 .. Len(chain)
        /\ \A i \in 1 .. Len(chain) : chain'[i] = chain[i]
        /\ chain'[Len(chain) + 1] = t
    BY <2>1, <1>3
  <2>3. \A i \in 1 .. Len(chain) + 1 : i \in 1 .. Len(chain) \/ i = Len(chain) + 1
    BY <2>2
  <2>4. \A i \in DOMAIN chain' : Cycle!AsAsked(chain'[i])
    BY <1>3, <2>2, <2>3 DEF CycleChainType
  <2>5. \E T : chain' \in Seq(T)
    BY <2>1
  <2>6. CycleChainType'
    BY <2>4, <2>5 DEF CycleChainType, CycleGrows
  <2>7. \A h \in 0 .. Len(chain) : Cycle!Prefix(h)' = Cycle!Prefix(h)
    BY <1>1, <1>3, PrefixStays DEF Cycle!Prefix
  <2> QED
    BY <2>2, <2>6, <2>7
<1> QED
  BY <1>2, <1>3 DEF CycleGrows

\* What a peer can say does not change while the chain grows.
LEMMA CycleSaysStays ==
  ASSUME CycleChainType, CycleGrows, NEW h \in 0 .. Len(chain), NEW p,
         call'.op = call.op, call'.org = call.org, call'.req = call.req
  PROVE  CycleSays(h, p)' = CycleSays(h, p)
<1>1. Cycle!Prefix(h)' = Cycle!Prefix(h)
  BY CycleChain
<1> DEFINE s == Cycle!Prefix(h)
<1>2. Cycle!Answers(s, p)' = Cycle!Answers(s, p)
  BY <1>1 DEF Cycle!Answers
<1> QED
  BY <1>1, <1>2 DEF CycleSays

\* What a call told stays true when the chain grows.
LEMMA CycleTellsStays ==
  ASSUME CycleChainType, CycleTells, CycleGrows, call'.op = call.op, call'.org = call.org,
         call'.req = call.req, call'.result = call.result, call'.told = call.told,
         call'.floor = call.floor, call'.answers = call.answers, call.floor \in Nat
  PROVE  CycleTells'
<1>0. /\ Len(chain) \in Nat /\ Len(chain') \in Nat /\ Len(chain) <= Len(chain')
      /\ \A i \in DOMAIN chain : i \in DOMAIN chain' /\ chain'[i] = chain[i]
      /\ \A h \in 0 .. Len(chain) : Cycle!Prefix(h)' = Cycle!Prefix(h)
  BY CycleChain
<1>1. \A h \in call.floor .. Len(chain) : h \in call.floor .. Len(chain') /\ Cycle!Prefix(h)' = Cycle!Prefix(h)
  BY <1>0
<1>t. \A op : Cycle!Told(op)' = Cycle!Told(op)
  BY DEF Cycle!Told
<1>2. Cycle!NotOlderThanAsked'
  <2>1. ASSUME Cycle!Told("all")'
        PROVE  \E h \in call.floor .. Len(chain') :
                 {call.told[i] : i \in DOMAIN call.told} = {Cycle!Unmarshal(d) : d \in Cycle!Committed(Cycle!Prefix(h)')}
    <3>1. PICK h \in call.floor .. Len(chain) :
            {call.told[i] : i \in DOMAIN call.told} = {Cycle!Unmarshal(d) : d \in Cycle!Committed(Cycle!Prefix(h))}
      BY <1>t, <2>1 DEF CycleTells, Cycle!NotOlderThanAsked
    <3> QED
      BY <1>1, <3>1
  <2>2. ASSUME Cycle!Told("readiness")'
        PROVE  \E h \in call.floor .. Len(chain') :
                 call.told = Cycle!Approvers(Cycle!Prefix(h)', Cycle!Def(call.req))
    <3>1. PICK h \in call.floor .. Len(chain) :
            call.told = Cycle!Approvers(Cycle!Prefix(h), Cycle!Def(call.req))
      BY <1>t, <2>2 DEF CycleTells, Cycle!NotOlderThanAsked
    <3> QED
      BY <1>1, <3>1
  <2>3. ASSUME Cycle!Told("committed")'
        PROVE  \E h \in call.floor .. Len(chain') : \E d \in Cycle!Committed(Cycle!Prefix(h)') :
                 call.told = <<Cycle!Unmarshal(d), Cycle!Approvers(Cycle!Prefix(h)', d)>>
    <3>1. PICK h \in call.floor .. Len(chain) : \E d \in Cycle!Committed(Cycle!Prefix(h)) :
                 call.told = <<Cycle!Unmarshal(d), Cycle!Approvers(Cycle!Prefix(h), d)>>
      BY <1>t, <2>3 DEF CycleTells, Cycle!NotOlderThanAsked
    <3> QED
      BY <1>1, <3>1
  <2> QED
    BY <2>1, <2>2, <2>3 DEF Cycle!NotOlderThanAsked
<1>3. Cycle!ToldAsAskedFor'
  BY <1>0, <1>t DEF CycleTells, Cycle!ToldAsAskedFor
<1>4. Cycle!SameIsNoMismatch'
  <2> DEFINE Differ(as, op) == \E i, j \in DOMAIN as :
               IF op = "all"
               THEN {as[i][k] : k \in DOMAIN as[i]} # {as[j][k] : k \in DOMAIN as[j]}
               ELSE as[i] # as[j]
  <2>1. call.result = "mismatch" => Differ(call.answers, call.op)
    BY DEF CycleTells, Cycle!SameIsNoMismatch
  <2>2. call'.result = "mismatch" => Differ(call'.answers, call'.op)
    <3> HIDE DEF Differ
    <3> QED
      BY <2>1
  <2> QED
    BY <2>2 DEF Cycle!SameIsNoMismatch
<1> QED
  BY <1>2, <1>3, <1>4 DEF CycleTells

\* The peers and the chain go on.
LEMMA CycleGoesOn ==
  ASSUME CycleInv, CycleGrows, UNCHANGED call
  PROVE  CycleInv'
<1>0. CycleChainType /\ CycleCallType /\ CycleUnderway /\ CycleTells
  BY DEF CycleInv
<1>1. CycleChainType' /\ Len(chain) \in Nat /\ Len(chain') \in Nat /\ Len(chain) <= Len(chain')
  BY <1>0, CycleChain
<1>2. CycleCallType'
  BY <1>0 DEF CycleCallType, CycleCallShape
<1>3. CycleTells'
  BY <1>0, CycleTellsStays DEF CycleCallType
<1>4. \A h \in 0 .. Len(chain), p \in OrgPeers : CycleSays(h, p)' = CycleSays(h, p)
  BY <1>0, CycleSaysStays
<1>5. CycleUnderway'
  <2> SUFFICES ASSUME call.at # "idle"
               PROVE  CycleUnderway'
    BY DEF CycleUnderway
  <2>1. ASSUME call.op \in Cycle!Reads
        PROVE  \E p \in call.targets :
              /\ call.floor <= heights'[p]
              /\ \/ p \in call.todo
                 \/ \E i \in DOMAIN call.answers, h \in call.floor .. Len(chain') :
                      call.answers[i] \in CycleSays(h, p)'
    <3>1. PICK p \in call.targets :
              /\ call.floor <= heights[p]
              /\ \/ p \in call.todo
                 \/ \E i \in DOMAIN call.answers, h \in call.floor .. Len(chain) :
                      call.answers[i] \in CycleSays(h, p)
      BY <1>0, <2>1 DEF CycleUnderway
    <3>2. p \in OrgPeers /\ call.floor \in Nat
      BY <1>0 DEF CycleCallType
    <3>3. call.floor <= heights'[p]
      <4>1. heights[p] <= heights'[p] /\ heights[p] \in Nat /\ heights'[p] \in Nat
        BY <1>0, <1>1, <3>2 DEF CycleGrows, CycleChainType
      <4> QED
        BY <3>1, <3>2, <4>1
    <3>4. \A h \in call.floor .. Len(chain) :
            h \in call.floor .. Len(chain') /\ CycleSays(h, p)' = CycleSays(h, p)
      BY <1>1, <1>4, <3>2
    <3> QED
      BY <3>1, <3>3, <3>4
  <2>2. ASSUME call.op \in Cycle!Reads, NEW i \in DOMAIN call.answers
        PROVE  \E h \in 0 .. Len(chain'), p \in call.targets : call.answers[i] \in CycleSays(h, p)'
    <3>1. PICK h \in 0 .. Len(chain), p \in call.targets : call.answers[i] \in CycleSays(h, p)
      BY <1>0, <2>2 DEF CycleUnderway
    <3>2. p \in OrgPeers /\ h \in 0 .. Len(chain')
      BY <1>0, <1>1 DEF CycleCallType
    <3> QED
      BY <1>4, <3>1, <3>2
  <2>3. /\ call.op # None /\ call.result = None
        /\ call.at = "asked" => call.todo = {}
        /\ call.op \in Cycle!Writes =>
             Cycle!IsRequest(call.req) /\ Cycle!Marshal(call.req)[1] # "error"
    BY <1>0 DEF CycleUnderway
  <2>4. Cycle!IsRequest(call.req)' = Cycle!IsRequest(call.req) /\ Cycle!Marshal(call.req)' = Cycle!Marshal(call.req)
    BY DEF Cycle!IsRequest, Cycle!Marshal
  <2> QED
    BY <2>1, <2>2, <2>3, <2>4 DEF CycleUnderway
<1> QED
  BY <1>1, <1>2, <1>3, <1>5 DEF CycleInv

\* A call that ends with an error tells nothing.
LEMMA CycleFails ==
  ASSUME Cycle!LifecycleAssumption, CycleInv, CycleGrows,
         NEW r \in {"ok", "error"}, r = "ok" => call.op \in Cycle!Writes,
         call' = [call EXCEPT !.at = "idle", !.result = r]
  PROVE  CycleInv'
<1>0. CycleChainType /\ CycleCallType /\ CycleUnderway /\ CycleTells
  BY DEF CycleInv
<1>1. call' = [op |-> call.op, at |-> "idle", org |-> call.org, req |-> call.req,
          targets |-> call.targets, todo |-> call.todo, answers |-> call.answers,
          floor |-> call.floor, told |-> call.told, result |-> r]
  BY <1>0 DEF CycleCallType, CycleCallShape
<1>2. CycleChainType'
  BY <1>0, CycleChain
<1>3. CycleCallType'
  BY <1>0, <1>1 DEF CycleCallType, CycleCallShape
<1>4. CycleUnderway'
  BY <1>1 DEF CycleUnderway
<1>5. CycleTells'
  BY <1>1 DEF CycleTells, Cycle!NotOlderThanAsked, Cycle!ToldAsAskedFor, Cycle!SameIsNoMismatch,
              Cycle!Told, Cycle!Writes
<1> QED
  BY <1>2, <1>3, <1>4, <1>5 DEF CycleInv

\* A call begins; one of its targets is as far as any.
LEMMA CycleBegin ==
  ASSUME Cycle!LifecycleAssumption, CycleInv, NEW op \in Cycle!Writes \cup Cycle!Reads, NEW org,
         NEW req \in Definitions, NEW ps \in SUBSET OrgPeers, Cycle!Begin(op, org, req, ps)
  PROVE  CycleInv'
<1>0. /\ CycleChainType /\ CycleCallType /\ CycleUnderway /\ CycleTells
      /\ ps # {} /\ UNCHANGED <<chain, heights>>
      /\ IsFiniteSet(ps) /\ Cardinality(ps) \in Nat
  BY CycleCounts, FS_Subset, FS_CardinalityType DEF CycleInv, Cycle!Begin, Cycle!LifecycleAssumption
<1> DEFINE fails == \/ op = "approved" /\ Cycle!Cardinality(ps) # 1
                    \/ op \in Cycle!Writes \cup {"readiness"} /\ Cycle!Marshal(req)[1] = "error"
           floor == Cycle!Highest(ps)
           who == IF op \in {"approve", "approved"} THEN org ELSE None
           what == IF op = "all" THEN None ELSE req
<1>1. floor \in Nat /\ \E p \in ps : floor = heights[p]
  <2> DEFINE H == {heights[p] : p \in ps}
  <2>1. H \subseteq 0 .. Len(chain) /\ H # {} /\ Len(chain) \in Nat
    <3>1. \A p \in ps : heights[p] \in 0 .. Len(chain)
      BY <1>0 DEF CycleChainType
    <3>2. PICK p \in ps : TRUE
      BY <1>0
    <3>3. heights[p] \in H
      OBVIOUS
    <3>4. Len(chain) \in Nat
      BY <1>0 DEF CycleChainType
    <3> QED
      BY <3>1, <3>3, <3>4
  <2>2. \E x \in H : \A y \in H : x >= y
    <3> HIDE DEF H
    <3> QED
      BY <2>1, GreatestNatural
  <2>3. PICK x \in H : \A p \in ps : heights[p] <= x
    <3>1. PICK x \in H : \A y \in H : x >= y
      BY <2>2
    <3>2. \A p \in ps : heights[p] \in H
      OBVIOUS
    <3>3. ASSUME NEW p \in ps
          PROVE  heights[p] <= x
      <4>1. x >= heights[p]
        BY <3>1, <3>2
      <4> QED
        BY <4>1
    <3> QED
      BY <3>3
  <2>4. floor \in H
    BY <2>3 DEF Cycle!Highest
  <2> QED
    BY <2>1, <2>4
<1> HIDE DEF floor
<1>2. CASE fails
  <2>1. call' = [op |-> op, at |-> "idle", org |-> who, req |-> what, targets |-> ps, todo |-> {},
                 answers |-> <<>>, floor |-> floor, told |-> None, result |-> "error"]
    BY <1>2 DEF Cycle!Begin, Cycle!Idle, floor
  <2> HIDE DEF who, what
  <2>2. CycleCallType'
    <3>1. \E S : <<>> \in Seq(S)
      OBVIOUS
    <3>2. Cardinality({}) = 0
      BY FS_EmptySet
    <3>3. CycleCallShape'
      BY <2>1 DEF CycleCallShape
    <3> QED
      BY <1>0, <1>1, <2>1, <3>1, <3>2, <3>3 DEF CycleCallType
  <2>3. CycleUnderway'
    BY <2>1 DEF CycleUnderway
  <2>4. CycleTells'
    BY <2>1 DEF CycleTells, Cycle!NotOlderThanAsked, Cycle!ToldAsAskedFor, Cycle!SameIsNoMismatch,
                Cycle!Told
  <2> QED
    BY <1>0, <2>2, <2>3, <2>4 DEF CycleInv, CycleChainType
<1>3. CASE ~fails
  <2>1. call' = [op |-> op, at |-> "asking", org |-> who, req |-> what, targets |-> ps, todo |-> ps,
                 answers |-> <<>>, floor |-> floor, told |-> None, result |-> None]
    BY <1>3 DEF Cycle!Begin, Cycle!Idle, floor
  <2>a. op \in Cycle!Writes => what = req /\ Cycle!IsRequest(req) /\ Cycle!Marshal(req)[1] # "error"
    BY <1>3 DEF Cycle!LifecycleAssumption, Cycle!Writes
  <2>b. op # None
    BY DEF Cycle!LifecycleAssumption
  <2> HIDE DEF who, what, fails
  <2>2. CycleCallType'
    <3>1. \E S : <<>> \in Seq(S)
      OBVIOUS
    <3>3. CycleCallShape'
      BY <2>1 DEF CycleCallShape
    <3> QED
      BY <1>0, <1>1, <2>1, <3>1, <3>3 DEF CycleCallType
  <2>3. CycleUnderway'
    <3>1. PICK p \in ps : floor <= heights[p]
      <4>1. PICK p \in ps : floor = heights[p]
        BY <1>1
      <4> QED
        BY <1>1, <4>1
    <3>2. /\ call'.op = op /\ call'.at = "asking" /\ call'.req = what /\ call'.targets = ps
          /\ call'.todo = ps /\ call'.answers = <<>> /\ call'.floor = floor /\ call'.result = None
      BY <2>1
    <3>3. \E q \in call'.targets : call'.floor <= heights'[q] /\ q \in call'.todo
      BY <1>0, <3>1, <3>2
    <3> QED
      BY <2>a, <2>b, <3>2, <3>3 DEF CycleUnderway
  <2>4. CycleTells'
    BY <2>1 DEF CycleTells, Cycle!NotOlderThanAsked, Cycle!ToldAsAskedFor, Cycle!SameIsNoMismatch,
                Cycle!Told, Cycle!LifecycleAssumption
  <2> QED
    BY <1>0, <2>2, <2>3, <2>4 DEF CycleInv, CycleChainType
<1> QED
  BY <1>2, <1>3

\* A peer answers a call.
LEMMA CycleEndorse ==
  ASSUME Cycle!LifecycleAssumption, CycleInv, NEW p \in OrgPeers, Cycle!Endorse(p)
  PROVE  CycleInv'
<1>0. /\ CycleChainType /\ CycleCallType /\ CycleUnderway /\ CycleTells
      /\ UNCHANGED <<chain, heights>> /\ call.at = "asking" /\ p \in call.todo
  BY DEF CycleInv, Cycle!Endorse, Cycle!At
<1>1. CycleGrows
  <2>1. \A q \in OrgPeers : heights[q] \in Nat
    BY <1>0 DEF CycleChainType
  <2> QED
    BY <1>0, <2>1 DEF CycleGrows, CycleChainType
<1>2. CASE call' = [call EXCEPT !.at = "idle", !.result = "error"]
  BY <1>1, <1>2, CycleFails
<1>3. ASSUME NEW a, call.op \in Cycle!Reads => a \in CycleSays(heights[p], p),
             call' = [call EXCEPT !.todo = @ \ {p}, !.answers = Append(@, a),
                                  !.at = IF call.todo = {p} THEN "asked" ELSE @]
      PROVE  CycleInv'
  <2> DEFINE as == Append(call.answers, a)
             n == Len(call.answers)
             at == IF call.todo = {p} THEN "asked" ELSE "asking"
  <2>1. PICK S : call.answers \in Seq(S)
    BY <1>0 DEF CycleCallType
  <2>2. /\ as \in Seq(S \cup {a}) /\ n \in Nat /\ Len(as) = n + 1
        /\ DOMAIN as = 1 .. n + 1 /\ DOMAIN call.answers = 1 .. n
        /\ \A i \in 1 .. n : as[i] = call.answers[i]
        /\ as[n + 1] = a
    <3>1. call.answers \in Seq(S \cup {a}) /\ a \in S \cup {a}
      BY <2>1
    <3> QED
      BY <3>1
  <2>3. call' = [op |-> call.op, at |-> at, org |-> call.org, req |-> call.req,
          targets |-> call.targets, todo |-> call.todo \ {p}, answers |-> as,
          floor |-> call.floor, told |-> call.told, result |-> call.result]
    BY <1>0, <1>3 DEF CycleCallType, CycleCallShape
  <2>4. at \in {"asking", "asked"} /\ (at = "asked" => call.todo \ {p} = {})
    OBVIOUS
  <2> HIDE DEF as, at, n
  <2>5. CycleCallType'
    <3>1. IsFiniteSet(call.todo)
      BY <1>0, CycleCounts, FS_Subset DEF CycleCallType, Cycle!LifecycleAssumption
    <3>2. Cardinality(call.todo \ {p}) = Cardinality(call.todo) - 1
            /\ Cardinality(call.todo) \in Nat
      BY <1>0, <3>1, FS_RemoveElement, FS_CardinalityType
    <3>3. CycleCallShape'
      BY <2>3 DEF CycleCallShape
    <3>4. Len(as) + Cardinality(call.todo \ {p}) <= Cardinality(call.targets)
      <4>1. Len(as) + Cardinality(call.todo \ {p}) = n + Cardinality(call.todo)
        BY <2>2, <3>2
      <4> QED
        BY <1>0, <4>1 DEF CycleCallType, n
    <3>5. \E T : as \in Seq(T)
      BY <2>2
    <3> QED
      BY <1>0, <2>3, <2>4, <3>3, <3>4, <3>5 DEF CycleCallType
  <2>6. \A h \in 0 .. Len(chain) : \A q : CycleSays(h, q)' = CycleSays(h, q)
    BY <1>0, <1>1, <2>3, CycleSaysStays
  <2>7. heights[p] \in 0 .. Len(chain) /\ p \in call.targets /\ call.floor \in Nat /\ Len(chain) \in Nat
    BY <1>0 DEF CycleChainType, CycleCallType
  <2>8. ASSUME call.op \in Cycle!Reads
        PROVE  \E q \in call.targets :
              /\ call.floor <= heights[q]
              /\ \/ q \in call.todo \ {p}
                 \/ \E i \in DOMAIN as, h \in call.floor .. Len(chain) : as[i] \in CycleSays(h, q)'
    <3>1. PICK q \in call.targets :
              /\ call.floor <= heights[q]
              /\ \/ q \in call.todo
                 \/ \E i \in DOMAIN call.answers, h \in call.floor .. Len(chain) :
                      call.answers[i] \in CycleSays(h, q)
      BY <1>0, <2>8 DEF CycleUnderway
    <3>2. CASE q \in call.todo \ {p}
      BY <3>1, <3>2
    <3>3. CASE q = p
      <4>1. PICK h \in call.floor .. Len(chain) : h = heights[p]
        BY <2>7, <3>1, <3>3
      <4>2. h \in 0 .. Len(chain) /\ n + 1 \in DOMAIN as
        BY <2>2, <2>7
      <4>3. CycleSays(h, p)' = CycleSays(h, p)
        BY <2>6, <4>2
      <4>4. as[n + 1] \in CycleSays(h, p)'
        BY <1>3, <2>2, <2>8, <4>1, <4>3
      <4> QED
        BY <3>1, <3>3, <4>2, <4>4
    <3>4. ASSUME NEW i \in DOMAIN call.answers, NEW h \in call.floor .. Len(chain),
                 call.answers[i] \in CycleSays(h, q)
          PROVE  \E j \in DOMAIN as, k \in call.floor .. Len(chain) : as[j] \in CycleSays(k, q)'
      <4>1. i \in DOMAIN as /\ as[i] = call.answers[i]
        <5>1. i \in 1 .. n
          BY <2>2
        <5>2. i \in 1 .. n + 1
          BY <2>2, <5>1
        <5> QED
          BY <2>2, <5>1, <5>2
      <4>2. CycleSays(h, q)' = CycleSays(h, q)
        BY <2>6, <2>7
      <4> QED
        BY <3>4, <4>1, <4>2
    <3> QED
      BY <3>1, <3>2, <3>3, <3>4
  <2>9. ASSUME call.op \in Cycle!Reads, NEW i \in DOMAIN as
        PROVE  \E h \in 0 .. Len(chain), q \in call.targets : as[i] \in CycleSays(h, q)'
    <3>1. CASE i \in 1 .. n
      <4>1. i \in DOMAIN call.answers /\ as[i] = call.answers[i]
        BY <2>2, <3>1
      <4>2. PICK h \in 0 .. Len(chain), q \in call.targets : call.answers[i] \in CycleSays(h, q)
        BY <1>0, <2>9, <4>1 DEF CycleUnderway
      <4> QED
        BY <2>6, <4>1, <4>2
    <3>2. CASE i = n + 1
      <4>1. PICK h \in 0 .. Len(chain) : h = heights[p]
        BY <2>7
      <4>2. CycleSays(h, p)' = CycleSays(h, p)
        BY <2>6
      <4> QED
        BY <1>3, <2>2, <2>7, <2>9, <3>2, <4>1, <4>2
    <3>3. i \in 1 .. n \/ i = n + 1
      BY <2>2
    <3> QED
      BY <3>1, <3>2, <3>3
  <2>10. /\ call'.op = call.op /\ call'.at = at /\ call'.req = call.req /\ call'.targets = call.targets
         /\ call'.todo = call.todo \ {p} /\ call'.answers = as /\ call'.floor = call.floor
         /\ call'.result = call.result
    BY <2>3
  <2>11. CycleUnderway'
    <3>1. /\ call.op # None /\ call.result = None
          /\ call.op \in Cycle!Writes =>
               Cycle!IsRequest(call.req) /\ Cycle!Marshal(call.req)[1] # "error"
      BY <1>0 DEF CycleUnderway
    <3>2. \/ ~(call.op \in Cycle!Reads)
          \/ /\ \E q \in call'.targets :
                  /\ call'.floor <= heights'[q]
                  /\ \/ q \in call'.todo
                     \/ \E i \in DOMAIN call'.answers, h \in call'.floor .. Len(chain') :
                          call'.answers[i] \in CycleSays(h, q)'
             /\ \A i \in DOMAIN call'.answers : \E h \in 0 .. Len(chain'), q \in call'.targets :
                  call'.answers[i] \in CycleSays(h, q)'
      BY <1>0, <2>8, <2>9, <2>10
    <3> QED
      BY <2>4, <2>10, <3>1, <3>2 DEF CycleUnderway
  <2>12. CycleTells'
    <3>1. call'.result = None
      BY <1>0, <2>10 DEF CycleUnderway
    <3> QED
      BY <3>1 DEF CycleTells, Cycle!NotOlderThanAsked, Cycle!ToldAsAskedFor, Cycle!SameIsNoMismatch,
                  Cycle!Told, Cycle!LifecycleAssumption
  <2> QED
    BY <1>0, <2>5, <2>11, <2>12 DEF CycleInv, CycleChainType
<1>4. ASSUME NEW answers, NEW a \in answers,
             answers = IF call.op \in Cycle!Writes
                    THEN IF /\ Cycle!Accepted(Cycle!Prefix(heights[p]), call.op, call.org, Cycle!Def(call.req))
                            /\ call.op = "approve" => OrgOf[p] = call.org
                         THEN {<<"endorsed">>} ELSE {}
                    ELSE IF call.op = "all" THEN Cycle!Listings(Cycle!Committed(Cycle!Prefix(heights[p])))
                    ELSE Cycle!Answers(Cycle!Prefix(heights[p]), p),
             call' = [call EXCEPT !.todo = @ \ {p}, !.answers = Append(@, a),
                                  !.at = IF call.todo = {p} THEN "asked" ELSE @]
      PROVE  CycleInv'
  <2>1. call.op \in Cycle!Reads => a \in CycleSays(heights[p], p)
    BY <1>4 DEF CycleSays, Cycle!Reads, Cycle!Writes
  <2> QED
    BY <1>3, <1>4, <2>1
<1> QED
  BY <1>2, <1>4 DEF Cycle!Endorse

\* A definition is told as it was asked for, with the policy that stands for none.
LEMMA MarshalledBack ==
  ASSUME NEW r, Cycle!IsRequest(r), Cycle!Marshal(r)[1] # "error"
  PROVE  Cycle!Unmarshal(Cycle!Def(r)) =
           IF r.sig = None /\ r.ref = None THEN [r EXCEPT !.ref = Reference] ELSE r
<1> DEFINE s == r.sig
           f == r.ref
<1>1. r = [name |-> r.name, seq |-> r.seq, sig |-> s, ref |-> f]
  BY DEF Cycle!IsRequest
<1>2. s = None \/ f = None
  BY DEF Cycle!Marshal
<1>3. CASE s # None
  <2>1. Cycle!Marshal(r) = <<"signature", s>> /\ f = None
    BY <1>2, <1>3 DEF Cycle!Marshal
  <2>2. Cycle!Def(r) = [name |-> r.name, seq |-> r.seq, policy |-> <<"signature", s>>]
    BY <2>1 DEF Cycle!Def
  <2>3. Cycle!Unmarshal(Cycle!Def(r)) = [name |-> r.name, seq |-> r.seq, sig |-> s, ref |-> f]
    BY <2>1, <2>2 DEF Cycle!Unmarshal
  <2> QED
    BY <1>1, <1>3, <2>3
<1>4. CASE s = None /\ f # None
  <2>1. Cycle!Marshal(r) = <<"reference", f>>
    BY <1>4 DEF Cycle!Marshal
  <2>2. Cycle!Def(r) = [name |-> r.name, seq |-> r.seq, policy |-> <<"reference", f>>]
    BY <2>1 DEF Cycle!Def
  <2>3. Cycle!Unmarshal(Cycle!Def(r)) = [name |-> r.name, seq |-> r.seq, sig |-> s, ref |-> f]
    BY <1>4, <2>2 DEF Cycle!Unmarshal
  <2> QED
    BY <1>1, <1>4, <2>3
<1>5. CASE s = None /\ f = None
  <2>1. Cycle!Marshal(r) = <<"none", None>>
    BY <1>5 DEF Cycle!Marshal
  <2>2. Cycle!Def(r) = [name |-> r.name, seq |-> r.seq, policy |-> <<"reference", Reference>>]
    BY <2>1 DEF Cycle!Def
  <2>3. Cycle!Unmarshal(Cycle!Def(r)) = [name |-> r.name, seq |-> r.seq, sig |-> None, ref |-> Reference]
    BY <2>2 DEF Cycle!Unmarshal
  <2>4. [r EXCEPT !.ref = Reference] = [name |-> r.name, seq |-> r.seq, sig |-> s, ref |-> Reference]
    BY <1>1
  <2> QED
    BY <1>5, <2>3, <2>4
<1> QED
  BY <1>3, <1>4, <1>5

\* Neighbours that are the same are all the same.
LEMMA CycleMatch ==
  ASSUME NEW S, NEW xs \in Seq(S), Cycle!Match(xs), NEW i \in 1 .. Len(xs)
  PROVE  Cycle!InOrder(xs[i]) = Cycle!InOrder(xs[1])
<1>1. Len(xs) \in Nat /\ DOMAIN xs = 1 .. Len(xs)
  BY LenProperties
<1> DEFINE Others == {k \in 1 .. Len(xs) : Cycle!InOrder(xs[k]) # Cycle!InOrder(xs[1])}
<1>2. \A k \in 1 .. Len(xs) - 1 : Cycle!InOrder(xs[k]) = Cycle!InOrder(xs[k + 1])
  BY DEF Cycle!Match
<1>3. ASSUME Others # {}
      PROVE  FALSE
  <2>1. Others \subseteq Nat
    BY <1>1
  <2>2. PICK k \in Others : \A l \in Others : k <= l
    <3> HIDE DEF Others
    <3> QED
      BY <1>3, <2>1, LeastNatural
  <2>3. k \in 1 .. Len(xs) /\ Cycle!InOrder(xs[k]) # Cycle!InOrder(xs[1])
    BY <2>2
  <2>4. k # 1
    BY <2>3
  <2>5. k - 1 \in 1 .. Len(xs) - 1 /\ k - 1 \in 1 .. Len(xs) /\ ~(k <= k - 1) /\ k = (k - 1) + 1
    BY <1>1, <2>3, <2>4
  <2>6. k - 1 \notin Others
    <3> HIDE DEF Others
    <3> QED
      BY <2>2, <2>5
  <2>7. Cycle!InOrder(xs[k - 1]) = Cycle!InOrder(xs[1])
    BY <2>5, <2>6
  <2>8. Cycle!InOrder(xs[k - 1]) = Cycle!InOrder(xs[k])
    BY <1>2, <2>5
  <2> QED
    BY <2>3, <2>7, <2>8
<1> QED
  BY <1>3

\* A call reports what the peers said, if it is the same.
LEMMA CycleReport ==
  ASSUME Cycle!LifecycleAssumption, CycleInv, Cycle!Report
  PROVE  CycleInv'
<1>0. /\ CycleChainType /\ CycleCallType /\ CycleUnderway /\ CycleTells
      /\ UNCHANGED <<chain, heights>> /\ call.at = "asked" /\ call.op \in Cycle!Reads
      /\ call.todo = {}
  BY DEF CycleInv, Cycle!Report, Cycle!At, CycleUnderway
<1> DEFINE as == call.answers
<1>1. PICK S : as \in Seq(S)
  BY <1>0 DEF CycleCallType
<1>n. call.floor \in Nat /\ Len(chain) \in Nat /\ \E T : chain \in Seq(T)
  BY <1>0 DEF CycleCallType, CycleChainType
<1>2. PICK p \in call.targets, i \in DOMAIN as, h \in call.floor .. Len(chain) : as[i] \in CycleSays(h, p)
  BY <1>0 DEF CycleUnderway
<1>i. i \in 1 .. Len(as)
  BY <1>1
<1>3. 1 \in DOMAIN as
  <2>1. DOMAIN as = 1 .. Len(as) /\ Len(as) \in Nat
    BY <1>1
  <2> QED
    BY <1>2, <2>1
<1>4. PICK h1 \in 0 .. Len(chain), p1_ \in call.targets : as[1] \in CycleSays(h1, p1_)
  BY <1>0, <1>3 DEF CycleUnderway
<1>5. ASSUME NEW r \in {"ok", "mismatch"}, NEW told,
             call' = [op |-> call.op, at |-> "idle", org |-> call.org, req |-> call.req,
                      targets |-> call.targets, todo |-> call.todo, answers |-> as,
                      floor |-> call.floor, told |-> told, result |-> r],
             CycleTells'
      PROVE  CycleInv'
  <2>1. CycleCallType'
    <3>1. CycleCallShape'
      BY <1>5 DEF CycleCallShape
    <3> QED
      BY <1>0, <1>5, <3>1 DEF CycleCallType
  <2>2. CycleUnderway'
    BY <1>5 DEF CycleUnderway
  <2> QED
    BY <1>0, <1>5, <2>1, <2>2 DEF CycleInv, CycleChainType
<1>6. CASE ~(call.op = "approved" \/ Cycle!Match(as))
  <2>1. call' = [op |-> call.op, at |-> "idle", org |-> call.org, req |-> call.req,
                 targets |-> call.targets, todo |-> call.todo, answers |-> as,
                 floor |-> call.floor, told |-> call.told, result |-> "mismatch"]
    <3>1. call' = [call EXCEPT !.at = "idle", !.result = "mismatch"]
      BY <1>6 DEF Cycle!Report
    <3> QED
      BY <1>0, <3>1 DEF CycleCallType, CycleCallShape
  <2>2. PICK j \in 1 .. Len(as) - 1 : Cycle!InOrder(as[j]) # Cycle!InOrder(as[j + 1])
    BY <1>6 DEF Cycle!Match
  <2>3. j \in DOMAIN as /\ j + 1 \in DOMAIN as
    BY <1>1, <2>2
  <2>4. IF call.op = "all"
        THEN {as[j][k] : k \in DOMAIN as[j]} # {as[j + 1][k] : k \in DOMAIN as[j + 1]}
        ELSE as[j] # as[j + 1]
    BY <2>2 DEF Cycle!InOrder
  <2>5. Cycle!SameIsNoMismatch'
    <3> DEFINE Differ(xs, op) == \E l, m \in DOMAIN xs :
            IF op = "all"
            THEN {xs[l][k] : k \in DOMAIN xs[l]} # {xs[m][k] : k \in DOMAIN xs[m]}
            ELSE xs[l] # xs[m]
    <3>1. Differ(as, call.op)
      BY <2>3, <2>4
    <3>2. call'.op = call.op /\ call'.answers = as
      BY <2>1
    <3>3. Differ(call'.answers, call'.op)
      <4> HIDE DEF Differ, as
      <4> QED
        BY <3>1, <3>2
    <3> QED
      BY <3>3 DEF Cycle!SameIsNoMismatch
  <2>6. CycleTells'
    BY <2>1, <2>5 DEF CycleTells, Cycle!NotOlderThanAsked, Cycle!ToldAsAskedFor, Cycle!Told
  <2> QED
    BY <1>5, <2>1, <2>6
<1>7. CASE call.op = "approved" \/ Cycle!Match(as)
  <2>1. call' = [op |-> call.op, at |-> "idle", org |-> call.org, req |-> call.req,
                 targets |-> call.targets, todo |-> call.todo, answers |-> as,
                 floor |-> call.floor, told |-> Cycle!Tell, result |-> "ok"]
    <3>1. call' = [call EXCEPT !.at = "idle", !.result = "ok", !.told = Cycle!Tell]
      BY <1>7 DEF Cycle!Report
    <3> QED
      BY <1>0, <3>1 DEF CycleCallType, CycleCallShape
  <2>0. call'.result = "ok" /\ call'.op = call.op /\ call'.told = Cycle!Tell /\ call'.floor = call.floor
          /\ call'.req = call.req /\ call'.org = call.org
    BY <2>1
  <2>p. \A l \in Nat : Cycle!Prefix(l)' = Cycle!Prefix(l)
    BY <1>0 DEF Cycle!Prefix
  <2>2. CASE call.op = "all"
    <3>1. {as[1][k] : k \in DOMAIN as[1]} = {as[i][k] : k \in DOMAIN as[i]}
      <4>1. Cycle!InOrder(as[i]) = Cycle!InOrder(as[1])
        BY <1>1, <1>i, <1>7, <2>2, CycleMatch
      <4> QED
        BY <2>2, <4>1 DEF Cycle!InOrder
    <3>2. {as[i][k] : k \in DOMAIN as[i]} = Cycle!Committed(Cycle!Prefix(h))
      BY <1>2, <2>2 DEF CycleSays, Cycle!Listings
    <3>3. Cycle!Tell = [k \in DOMAIN as[1] |-> Cycle!Unmarshal(as[1][k])]
      BY <2>2 DEF Cycle!Tell
    <3>4. {Cycle!Tell[k] : k \in DOMAIN Cycle!Tell}
            = {Cycle!Unmarshal(d) : d \in {as[1][k] : k \in DOMAIN as[1]}}
      <4> DEFINE told == [k \in DOMAIN as[1] |-> Cycle!Unmarshal(as[1][k])]
      <4>1. {told[k] : k \in DOMAIN told} = {Cycle!Unmarshal(d) : d \in {as[1][k] : k \in DOMAIN as[1]}}
        <5>1. \A k \in DOMAIN as[1] : told[k] = Cycle!Unmarshal(as[1][k])
          OBVIOUS
        <5>2. DOMAIN told = DOMAIN as[1]
          OBVIOUS
        <5> HIDE DEF told
        <5> QED
          BY <5>1, <5>2
      <4> QED
        BY <3>3, <4>1
    <3>5. {Cycle!Tell[k] : k \in DOMAIN Cycle!Tell}
            = {Cycle!Unmarshal(d) : d \in Cycle!Committed(Cycle!Prefix(h))}
      BY <3>1, <3>2, <3>4
    <3>6. Cycle!NotOlderThanAsked'
      <4>1. \E l \in call.floor .. Len(chain) :
              {Cycle!Tell[k] : k \in DOMAIN Cycle!Tell}
                = {Cycle!Unmarshal(d) : d \in Cycle!Committed(Cycle!Prefix(l)')}
        <5>1. h \in Nat /\ Cycle!Prefix(h)' = Cycle!Prefix(h)
          BY <1>n, <2>p
        <5>2. {Cycle!Tell[k] : k \in DOMAIN Cycle!Tell}
                = {Cycle!Unmarshal(d) : d \in Cycle!Committed(Cycle!Prefix(h)')}
          BY <3>5, <5>1
        <5> QED
          BY <5>2
      <4>2. call'.op # "readiness" /\ call'.op # "committed"
        BY <2>0, <2>2
      <4> QED
        BY <1>0, <2>0, <4>1, <4>2 DEF Cycle!NotOlderThanAsked, Cycle!Told
    <3>7. CycleTells'
      BY <2>1, <2>2, <3>6 DEF CycleTells, Cycle!ToldAsAskedFor, Cycle!SameIsNoMismatch, Cycle!Told
    <3> QED
      BY <1>5, <2>1, <3>7
  <2>3. CASE call.op \in {"readiness", "committed"}
    <3>1. as[i] = as[1]
      <4>1. Cycle!InOrder(as[i]) = Cycle!InOrder(as[1])
        BY <1>1, <1>i, <1>7, <2>3, CycleMatch
      <4> QED
        BY <2>3, <4>1 DEF Cycle!InOrder
    <3>2. as[1] \in Cycle!Answers(Cycle!Prefix(h), p)
      BY <1>2, <2>3, <3>1 DEF CycleSays
    <3>3. CASE call.op = "readiness"
      <4>1. Cycle!Tell = Cycle!Approvers(Cycle!Prefix(h), Cycle!Def(call.req))
        BY <3>2, <3>3 DEF Cycle!Tell, Cycle!Answers
      <4>2. \E l \in call.floor .. Len(chain) :
              Cycle!Tell = Cycle!Approvers(Cycle!Prefix(l)', Cycle!Def(call.req))
        BY <1>n, <2>p, <4>1
      <4>3. Cycle!NotOlderThanAsked'
        BY <1>0, <2>0, <3>3, <4>2 DEF Cycle!NotOlderThanAsked, Cycle!Told
      <4>5. CycleTells'
        BY <2>0, <3>3, <4>3 DEF CycleTells, Cycle!ToldAsAskedFor, Cycle!SameIsNoMismatch, Cycle!Told
      <4> QED
        BY <1>5, <2>1, <4>5
    <3>4. CASE call.op = "committed"
      <4>1. PICK d \in Cycle!Committed(Cycle!Prefix(h)) : as[1] = <<d, Cycle!Approvers(Cycle!Prefix(h), d)>>
        BY <3>2, <3>4 DEF Cycle!Answers
      <4>2. Cycle!Tell = <<Cycle!Unmarshal(d), Cycle!Approvers(Cycle!Prefix(h), d)>>
        BY <3>4, <4>1 DEF Cycle!Tell
      <4>3. \E l \in call.floor .. Len(chain) : \E e \in Cycle!Committed(Cycle!Prefix(l)') :
              Cycle!Tell = <<Cycle!Unmarshal(e), Cycle!Approvers(Cycle!Prefix(l)', e)>>
        BY <1>n, <2>p, <4>2
      <4>4. Cycle!NotOlderThanAsked'
        BY <1>0, <2>0, <3>4, <4>3 DEF Cycle!NotOlderThanAsked, Cycle!Told
      <4>5. CycleTells'
        BY <2>0, <3>4, <4>4 DEF CycleTells, Cycle!ToldAsAskedFor, Cycle!SameIsNoMismatch, Cycle!Told
      <4> QED
        BY <1>5, <2>1, <4>5
    <3> QED
      BY <1>5, <2>1, <2>3, <3>3, <3>4
  <2>4. CASE call.op = "approved"
    <3>1. as[1] \in Cycle!Approvals(Cycle!Prefix(h1), call.org, call.req.name, call.req.seq)
      BY <1>4, <2>4 DEF CycleSays, Cycle!Answers
    <3>2. PICK j \in DOMAIN Cycle!Prefix(h1) :
            /\ Cycle!Prefix(h1)[j].kind = "approve" /\ Cycle!Prefix(h1)[j].org = call.org
            /\ as[1] = Cycle!Prefix(h1)[j].def
      BY <3>1 DEF Cycle!Approvals
    <3>3. j \in DOMAIN chain /\ Cycle!Prefix(h1)[j] = chain[j]
      <4>1. PICK T : chain \in Seq(T)
        BY <1>n
      <4>2. Cycle!Prefix(h1) = [k \in 1 .. h1 |-> chain[k]]
        BY <4>1, SubSeqProperties DEF Cycle!Prefix
      <4>3. j \in 1 .. h1 /\ Cycle!Prefix(h1)[j] = chain[j]
        BY <4>2
      <4> QED
        BY <4>1, <4>3
    <3>4. Cycle!AsAsked(chain[j])
      BY <1>0, <3>3 DEF CycleChainType
    <3>5. Cycle!Tell = IF chain[j].asked.sig = None /\ chain[j].asked.ref = None
                       THEN [chain[j].asked EXCEPT !.ref = Reference] ELSE chain[j].asked
      <4>1. Cycle!Tell = Cycle!Unmarshal(Cycle!Def(chain[j].asked))
        BY <2>4, <3>2, <3>3, <3>4 DEF Cycle!Tell, Cycle!AsAsked
      <4> QED
        BY <3>4, <4>1, MarshalledBack DEF Cycle!AsAsked
    <3>6. Cycle!ToldAsAskedFor'
      BY <1>0, <2>0, <3>2, <3>3, <3>5 DEF Cycle!ToldAsAskedFor
    <3> QED
      BY <1>5, <2>1, <2>4, <3>6 DEF CycleTells, Cycle!NotOlderThanAsked, Cycle!SameIsNoMismatch, Cycle!Told
  <2> QED
    BY <1>0, <2>2, <2>3, <2>4 DEF Cycle!Reads
<1> QED
  BY <1>6, <1>7

\* Every step of the life cycle keeps the invariant.
LEMMA CycleStep ==
  ASSUME Cycle!LifecycleAssumption, CycleInv, Cycle!Next
  PROVE  CycleInv'
<1>0. CycleChainType /\ CycleCallType /\ CycleUnderway /\ CycleTells
  BY DEF CycleInv
<1>n. Len(chain) \in Nat /\ MaxTransactions \in Nat /\ \A q \in OrgPeers : heights[q] \in 0 .. Len(chain)
  BY <1>0 DEF CycleChainType, Cycle!LifecycleAssumption
<1>1. ASSUME NEW p \in OrgPeers, Cycle!Deliver(p)
      PROVE  CycleInv'
  <2>1. CycleGrows /\ UNCHANGED call
    BY <1>0, <1>1, <1>n DEF Cycle!Deliver, CycleGrows, CycleChainType
  <2> QED
    BY <2>1, CycleGoesOn
\* a transaction more
<1>2. ASSUME NEW t, Cycle!AsAsked(t), chain' = Append(chain, t), Len(chain) < MaxTransactions,
             UNCHANGED heights
      PROVE  CycleGrows
  <2>1. Len(chain') = Len(chain) + 1
    BY <1>0, <1>2 DEF CycleChainType
  <2> QED
    BY <1>0, <1>2, <1>n, <2>1 DEF CycleGrows, CycleChainType
<1>3. ASSUME UNCHANGED <<chain, heights>>
      PROVE  CycleGrows
  BY <1>0, <1>3, <1>n DEF CycleGrows, CycleChainType
<1>4. ASSUME NEW kind, NEW org, NEW req, Cycle!IsRequest(req), Cycle!Marshal(req)[1] # "error"
      PROVE  Cycle!AsAsked(Cycle!Tx(kind, org, req))
  BY <1>4 DEF Cycle!AsAsked, Cycle!Tx
<1>5. ASSUME NEW kind, NEW org, NEW req \in Definitions, Cycle!Others(kind, org, req)
      PROVE  CycleInv'
  <2>1. CycleGrows /\ UNCHANGED call
    BY <1>2, <1>4, <1>5 DEF Cycle!Others, Cycle!LifecycleAssumption
  <2> QED
    BY <2>1, CycleGoesOn
<1>6. ASSUME Cycle!NoAnswer
      PROVE  CycleInv'
  BY <1>3, <1>6, CycleFails DEF Cycle!NoAnswer
<1>7. ASSUME Cycle!Commit
      PROVE  CycleInv'
  <2> DEFINE tx == Cycle!Tx(call.op, call.org, call.req)
             valid == Cycle!Accepted(chain, call.op, call.org, Cycle!Def(call.req))
  <2>1. call.op \in Cycle!Writes /\ UNCHANGED heights /\ Len(chain) < MaxTransactions /\ Cycle!AsAsked(tx)
    BY <1>0, <1>4, <1>7 DEF Cycle!Commit, Cycle!At, CycleUnderway
  <2>2. CASE chain' = (IF valid THEN Append(chain, tx) ELSE chain)
               /\ call' = [call EXCEPT !.at = "idle", !.result = IF valid THEN "ok" ELSE "error"]
    <3>1. CycleGrows
      BY <1>2, <1>3, <2>1, <2>2
    <3> QED
      BY <2>1, <2>2, <3>1, CycleFails
  <2>3. CASE chain' \in {chain, IF valid THEN Append(chain, tx) ELSE chain}
               /\ call' = [call EXCEPT !.at = "idle", !.result = "error"]
    <3>1. CycleGrows
      BY <1>2, <1>3, <2>1, <2>3
    <3> QED
      BY <2>3, <3>1, CycleFails
  <2> QED
    BY <1>7, <2>2, <2>3 DEF Cycle!Commit
<1> QED
  BY <1>1, <1>5, <1>6, <1>7, CycleBegin, CycleEndorse, CycleReport DEF Cycle!Next

\* What the invariant of the life cycle says for its properties
LEMMA CycleSound ==
  ASSUME Cycle!LifecycleAssumption, CycleInv
  PROVE  /\ Cycle!TypeOK
         /\ Cycle!NotOlderThanAsked /\ Cycle!ToldAsAskedFor /\ Cycle!SameIsNoMismatch
<1>0. CycleChainType /\ CycleCallType /\ CycleTells
  BY DEF CycleInv
<1>1. Len(call.answers) <= Cycle!Cardinality(OrgPeers)
  <2>1. IsFiniteSet(OrgPeers) /\ call.targets \subseteq OrgPeers /\ call.todo \subseteq OrgPeers
    BY <1>0, CycleCounts DEF Cycle!LifecycleAssumption, CycleCallType
  <2>2. /\ Cardinality(call.targets) <= Cardinality(OrgPeers)
        /\ Cardinality(call.targets) \in Nat /\ Cardinality(call.todo) \in Nat
        /\ Cardinality(OrgPeers) \in Nat
    BY <2>1, FS_Subset, FS_CardinalityType
  <2>3. Len(call.answers) \in Nat
    BY <1>0 DEF CycleCallType
  <2> QED
    BY <1>0, <2>2, <2>3, CycleCounts DEF CycleCallType
<1>2. \A c, d \in Cycle!Committed(chain) : c.name = d.name => c = d
  <2>1. \A i \in DOMAIN chain : i \in Nat
    BY <1>0 DEF CycleChainType
  <2> QED
    BY <2>1 DEF Cycle!Committed
<1> QED
  BY <1>0, <1>1, <1>2 DEF Cycle!TypeOK, CycleChainType, CycleCallType, CycleTells

(***************************************************************************)
(* Transactions and the browser                                            *)
(***************************************************************************)

\* The header and the input of a transaction are those of a request.
FromRequest(header, input) ==
  \E n \in 1 .. Len(world) :
    /\ header.id = <<n, world[n][1]>> /\ header.creator = world[n][1]
    /\ input = Ledgers!Input(world[n][2])

WorkSound ==
  /\ world \in Seq(Users \X Inputs)
  /\ call = [at |-> call.at, header |-> call.header, payload |-> call.payload,
             answers |-> call.answers]
  /\ call.at \in {"idle", "proposed", "made"}
  /\ call.at # "idle" =>
       /\ FromRequest(call.header, call.payload.input)
       /\ call.payload = [input |-> call.payload.input, transient |-> call.payload.transient]
       /\ \E S : call.answers \in Seq(S)
       /\ \A i \in DOMAIN call.answers : call.answers[i].signed.hash
            = Ledgers!Hash(call.header, [call.payload EXCEPT !.transient = None])
  /\ call.at = "made" => 1 \in DOMAIN call.answers

OrderedSoundly(tx) ==
  /\ tx.kind = "invoke" /\ FromRequest(tx.header, tx.payload.input)
  /\ tx.payload.transient = None /\ tx.answer.hash = Ledgers!Hash(tx.header, tx.payload)
  /\ \E e \in tx.endorsements : e[2] = tx.answer

ChainSound ==
  /\ \E S : chain \in Seq(S)
  /\ Len(chain) \in 1 .. MaxBlocks /\ chain[1].kind = "config"
  /\ \A n \in 2 .. Len(chain) : OrderedSoundly(chain[n])
  /\ heights \in [LedgerPeers -> 1 .. Len(chain)]

\* How many blocks are told of when the browser has what was asked for
Wanted ==
  CASE browse.kind = 0 /\ browse.limit > 0 /\ browse.limit < browse.height -> browse.limit
    [] browse.kind = 2 /\ browse.limit > browse.height -> 0
    [] browse.kind = 2 /\ browse.limit <= browse.height -> browse.height - browse.limit
    [] OTHER -> browse.height

\* The browser goes back from the newest block, one by one, and not beyond the limit.
BrowseType ==
  /\ browse = [at |-> browse.at, kind |-> browse.kind, limit |-> browse.limit,
               height |-> browse.height, next |-> browse.next, count |-> browse.count,
               told |-> browse.told, known |-> browse.known, result |-> browse.result]
  /\ browse.at \in {"idle", "reading"} /\ browse.result \in {None, "ok", "error", "panic"}
  /\ browse.kind \in 0 .. 2 /\ browse.limit \in Nat /\ browse.height \in Nat
  /\ browse.next \in Nat /\ browse.count \in Nat /\ browse.known \in Nat
  /\ browse.next = browse.height - browse.count
  /\ (\E S : browse.told \in Seq(S)) /\ Len(browse.told) = browse.count
BrowseLimits ==
  /\ browse.at = "reading" =>
       /\ browse.next >= 1
       /\ browse.kind = 0 /\ browse.limit > 0 => browse.count <= browse.limit
       /\ browse.kind = 2 /\ browse.limit > browse.height => browse.count = 0
       /\ browse.kind = 2 /\ browse.limit <= browse.height => browse.next >= browse.limit
       /\ browse.kind = 2 => browse.limit >= 1
  /\ browse.at = "idle" /\ browse.result = "ok" /\ browse.kind # 1 => browse.count = Wanted
BrowseSound ==
  /\ BrowseType /\ BrowseLimits
  /\ browse.height <= Len(chain) /\ browse.known <= Len(chain)
  /\ \A i \in 1 .. browse.count : browse.told[i] = Ledgers!Info(chain[browse.height - i + 1])

LedgersInv == WorkSound /\ ChainSound /\ BrowseSound

\* The start of transactions and the browser
LEMMA LedgersStart ==
  ASSUME Ledgers!TransactionAssumption, Ledgers!Init
  PROVE  LedgersInv
<1>1. /\ call = [at |-> "idle", header |-> None, payload |-> None, answers |-> None]
      /\ world = <<>> /\ heights = [p \in LedgerPeers |-> 1]
      /\ browse = [at |-> "idle", kind |-> 0, limit |-> 0, height |-> 0, next |-> 0, count |-> 0,
                   told |-> <<>>, known |-> 0, result |-> None]
  BY DEF Ledgers!Init, Ledgers!NoWork, Ledgers!NoBrowse
<1>2. PICK c : chain = <<[kind |-> "config", creator |-> c]>>
  BY DEF Ledgers!Init, Ledgers!Config
<1>3. MaxBlocks \in Nat /\ MaxBlocks # 0 /\ None # "ok"
  BY DEF Ledgers!TransactionAssumption
<1>4. WorkSound
  BY <1>1 DEF WorkSound
<1>5. ChainSound
  <2> DEFINE b == [kind |-> "config", creator |-> c]
  <2>1. chain \in Seq({b}) /\ Len(chain) = 1 /\ chain[1] = b
    BY <1>2
  <2>2. \E S : chain \in Seq(S)
    BY <2>1
  <2>3. chain[1].kind = "config"
    BY <2>1
  <2>4. 1 \in 1 .. MaxBlocks /\ 2 .. 1 = {} /\ 1 \in 1 .. 1
    BY <1>3
  <2> HIDE DEF b
  <2> QED
    BY <1>1, <2>1, <2>2, <2>3, <2>4 DEF ChainSound
<1>6. BrowseSound
  <2>1. \E S : <<>> \in Seq(S)
    OBVIOUS
  <2>2. Len(chain) \in Nat
    BY <1>5 DEF ChainSound
  <2>3. BrowseType /\ BrowseLimits
    BY <1>1, <1>3, <2>1 DEF BrowseType, BrowseLimits
  <2> QED
    BY <1>1, <2>2, <2>3 DEF BrowseSound
<1> QED
  BY <1>4, <1>5, <1>6 DEF LedgersInv

\* Requests are only added.
LEMMA RequestsStay ==
  ASSUME world \in Seq(Users \X Inputs), NEW x, x \in Users \X Inputs,
         UNCHANGED world \/ world' = Append(world, x), NEW h, NEW input, FromRequest(h, input)
  PROVE  FromRequest(h, input)' /\ world' \in Seq(Users \X Inputs)
<1>1. /\ Len(world) \in Nat /\ Len(world') \in Nat /\ Len(world) <= Len(world')
      /\ \A n \in 1 .. Len(world) : world'[n] = world[n]
      /\ world' \in Seq(Users \X Inputs)
  <2>1. CASE UNCHANGED world
    BY <2>1
  <2>2. CASE world' = Append(world, x)
    <3>1. world' \in Seq(Users \X Inputs) /\ Len(world') = Len(world) + 1 /\ Len(world) \in Nat
      BY <2>2
    <3>2. \A n \in 1 .. Len(world) : world'[n] = world[n]
      BY <2>2
    <3> QED
      BY <3>1, <3>2
  <2> QED
    BY <2>1, <2>2
<1>2. PICK n \in 1 .. Len(world) :
        /\ h.id = <<n, world[n][1]>> /\ h.creator = world[n][1]
        /\ input = Ledgers!Input(world[n][2])
  BY DEF FromRequest
<1>3. n \in 1 .. Len(world') /\ world'[n] = world[n]
  BY <1>1
<1>4. \E m \in 1 .. Len(world') :
        /\ h.id = <<m, world'[m][1]>> /\ h.creator = world'[m][1]
        /\ input = Ledgers!Input(world'[m][2])
  BY <1>2, <1>3
<1>5. FromRequest(h, input)'
  BY <1>4 DEF FromRequest
<1> QED
  BY <1>1, <1>5

\* A transaction is proposed.
LEMMA LedgersPropose ==
  ASSUME LedgersInv, NEW u \in Users, NEW r \in Inputs, Ledgers!Propose(u, r)
  PROVE  LedgersInv'
<1>0. /\ WorkSound /\ ChainSound /\ BrowseSound /\ call.at = "idle"
      /\ world' = Append(world, <<u, r>>) /\ UNCHANGED <<chain, heights, browse>>
      /\ world \in Seq(Users \X Inputs) /\ <<u, r>> \in Users \X Inputs
  BY DEF LedgersInv, Ledgers!Propose, WorkSound
<1>1. /\ world' \in Seq(Users \X Inputs) /\ Len(world) + 1 \in 1 .. Len(world')
      /\ world'[Len(world) + 1] = <<u, r>>
  BY <1>0
<1>2. BrowseSound'
  BY <1>0 DEF BrowseSound, BrowseType, BrowseLimits, Wanted
<1>3. ChainSound'
  <2>1. \A n \in 2 .. Len(chain) : OrderedSoundly(chain[n])'
    <3> SUFFICES ASSUME NEW n \in 2 .. Len(chain)
                 PROVE  OrderedSoundly(chain[n])'
      OBVIOUS
    <3>1. OrderedSoundly(chain[n])
      BY <1>0 DEF ChainSound
    <3>2. FromRequest(chain[n].header, chain[n].payload.input)'
      <4>1. FromRequest(chain[n].header, chain[n].payload.input)
        BY <3>1 DEF OrderedSoundly
      <4>2. PICK h, input : h = chain[n].header /\ input = chain[n].payload.input
        OBVIOUS
      <4>3. FromRequest(h, input)'
        BY <1>0, <4>1, <4>2, RequestsStay
      <4> QED
        BY <1>0, <4>2, <4>3 DEF FromRequest
    <3> QED
      BY <1>0, <3>1, <3>2 DEF OrderedSoundly
  <2> QED
    BY <1>0, <2>1 DEF ChainSound
<1>4. CASE r.cc = None \/ r.fcn = None
  <2>1. UNCHANGED call
    BY <1>4 DEF Ledgers!Propose
  <2> QED
    BY <1>0, <1>1, <1>2, <1>3, <2>1 DEF LedgersInv, WorkSound
<1>5. CASE ~(r.cc = None \/ r.fcn = None)
  <2>h. PICK h : h = [id |-> <<Len(world) + 1, u>>, creator |-> u, cc |-> r.cc]
    OBVIOUS
  <2>p. PICK p : p = [input |-> Ledgers!Input(r), transient |-> r.transient]
    OBVIOUS
  <2>1. call' = [at |-> "proposed", answers |-> <<>>, header |-> h, payload |-> p]
    BY <1>5, <2>h, <2>p DEF Ledgers!Propose, Ledgers!TxnID
  <2>2. FromRequest(h, p.input)'
    <3>1. h.id = <<Len(world) + 1, u>> /\ h.creator = u /\ p.input = Ledgers!Input(r)
      BY <2>h, <2>p
    <3>2. \E n \in 1 .. Len(world') :
            /\ h.id = <<n, world'[n][1]>> /\ h.creator = world'[n][1]
            /\ p.input = Ledgers!Input(world'[n][2])
      BY <1>1, <3>1
    <3> QED
      BY <3>2 DEF FromRequest
  <2>3. p = [input |-> p.input, transient |-> p.transient]
    BY <2>p
  <2>4. \E S : <<>> \in Seq(S)
    OBVIOUS
  <2>5. /\ call'.at = "proposed" /\ call'.answers = <<>> /\ call'.header = h /\ call'.payload = p
        /\ call' = [at |-> call'.at, header |-> call'.header, payload |-> call'.payload,
                    answers |-> call'.answers]
    BY <2>1
  <2>6. WorkSound'
    <3>1. FromRequest(call.header, call.payload.input)'
      BY <2>2, <2>5 DEF FromRequest
    <3> QED
      BY <1>0, <1>1, <2>3, <2>4, <2>5, <3>1 DEF WorkSound
  <2> QED
    BY <1>2, <1>3, <2>6 DEF LedgersInv
<1> QED
  BY <1>4, <1>5

\* Endorsers answer the proposal.
LEMMA LedgersEndorse ==
  ASSUME LedgersInv, NEW p \in LedgerPeers, NEW status, NEW writes, Ledgers!Endorse(p, status, writes)
  PROVE  LedgersInv'
<1> DEFINE a == [by |-> p, status |-> status,
                 signed |-> Ledgers!Answer(Ledgers!Hash(call.header,
                              [call.payload EXCEPT !.transient = None]), writes)]
           answers == Append(call.answers, a)
           n == Len(call.answers)
<1>0. /\ WorkSound /\ ChainSound /\ BrowseSound /\ call.at = "proposed"
      /\ UNCHANGED <<world, chain, heights, browse>>
      /\ call' = [call EXCEPT !.answers = answers]
  BY DEF LedgersInv, Ledgers!Endorse
<1>1. PICK S : call.answers \in Seq(S)
  BY <1>0 DEF WorkSound
<1>2. /\ answers \in Seq(S \cup {a}) /\ n \in Nat /\ DOMAIN answers = 1 .. n + 1
      /\ DOMAIN call.answers = 1 .. n /\ \A i \in 1 .. n : answers[i] = call.answers[i]
      /\ answers[n + 1] = a
  <2>1. call.answers \in Seq(S \cup {a}) /\ a \in S \cup {a}
    BY <1>1
  <2> HIDE DEF a
  <2> QED
    BY <2>1
<1>3. a.signed.hash = Ledgers!Hash(call.header, [call.payload EXCEPT !.transient = None])
  BY DEF Ledgers!Answer
<1> HIDE DEF a, answers, n
<1>4. /\ call' = [at |-> call'.at, header |-> call'.header, payload |-> call'.payload,
                  answers |-> call'.answers]
      /\ call'.at = "proposed" /\ call'.header = call.header /\ call'.payload = call.payload
      /\ call'.answers = answers
  <2>1. call = [at |-> call.at, header |-> call.header, payload |-> call.payload,
                answers |-> call.answers]
    BY <1>0 DEF WorkSound
  <2> QED
    BY <1>0, <2>1
<1>5. \A i \in DOMAIN answers : answers[i].signed.hash
            = Ledgers!Hash(call.header, [call.payload EXCEPT !.transient = None])
  <2>1. \A i \in 1 .. n : answers[i].signed.hash
            = Ledgers!Hash(call.header, [call.payload EXCEPT !.transient = None])
    BY <1>0, <1>2 DEF WorkSound
  <2>2. \A i \in 1 .. n + 1 : i \in 1 .. n \/ i = n + 1
    BY <1>2
  <2> QED
    BY <1>2, <1>3, <2>1, <2>2
<1>6. WorkSound'
  <2>1. \E T : answers \in Seq(T)
    BY <1>2
  <2>2. /\ FromRequest(call.header, call.payload.input)
        /\ call.payload = [input |-> call.payload.input, transient |-> call.payload.transient]
        /\ world \in Seq(Users \X Inputs)
    BY <1>0 DEF WorkSound
  <2>3. FromRequest(call.header, call.payload.input)'
    BY <1>0, <1>4, <2>2 DEF FromRequest
  <2> QED
    BY <1>0, <1>4, <1>5, <2>1, <2>2, <2>3 DEF WorkSound
<1>7. ChainSound'
  BY <1>0 DEF ChainSound, OrderedSoundly, FromRequest
<1>8. BrowseSound'
  BY <1>0 DEF BrowseSound, BrowseType, BrowseLimits, Wanted
<1> QED
  BY <1>6, <1>7, <1>8 DEF LedgersInv

\* A transaction is made of the answers, or there is none.
LEMMA LedgersNew ==
  ASSUME LedgersInv, Ledgers!New
  PROVE  LedgersInv'
<1>0. /\ WorkSound /\ ChainSound /\ BrowseSound /\ call.at = "proposed"
      /\ UNCHANGED <<world, chain, heights, browse>>
  BY DEF LedgersInv, Ledgers!New
<1>1. ChainSound'
  BY <1>0 DEF ChainSound, OrderedSoundly, FromRequest
<1>2. BrowseSound'
  BY <1>0 DEF BrowseSound, BrowseType, BrowseLimits, Wanted
<1>3. CASE call' = Ledgers!NoWork
  <2>1. call' = [at |-> "idle", header |-> None, payload |-> None, answers |-> None]
    BY <1>3 DEF Ledgers!NoWork
  <2>2. WorkSound'
    BY <1>0, <2>1 DEF WorkSound
  <2> QED
    BY <1>1, <1>2, <2>2 DEF LedgersInv
<1>4. CASE call' = [call EXCEPT !.at = "made"] /\ call.answers # <<>>
  <2>1. /\ call' = [at |-> "made", header |-> call.header, payload |-> call.payload,
                    answers |-> call.answers]
    <3>1. call = [at |-> call.at, header |-> call.header, payload |-> call.payload,
                  answers |-> call.answers]
      BY <1>0 DEF WorkSound
    <3> QED
      BY <1>4, <3>1
  <2>2. 1 \in DOMAIN call.answers
    <3>1. PICK S : call.answers \in Seq(S)
      BY <1>0 DEF WorkSound
    <3> QED
      BY <1>4, <3>1, EmptySeq
  <2>3. FromRequest(call.header, call.payload.input)'
    <3>1. FromRequest(call.header, call.payload.input)
      BY <1>0 DEF WorkSound
    <3>2. call'.header = call.header /\ call'.payload = call.payload
      BY <2>1
    <3> QED
      BY <1>0, <3>1, <3>2 DEF FromRequest
  <2>4. WorkSound'
    BY <1>0, <2>1, <2>2, <2>3 DEF WorkSound
  <2> QED
    BY <1>1, <1>2, <2>4 DEF LedgersInv
<1> QED
  BY <1>3, <1>4 DEF Ledgers!New

\* What is sent is what was asked for and endorsed.
LEMMA MadeSoundly ==
  ASSUME WorkSound, call.at = "made"
  PROVE  OrderedSoundly(Ledgers!Made)
<1>1. /\ FromRequest(call.header, call.payload.input) /\ 1 \in DOMAIN call.answers
      /\ call.payload = [input |-> call.payload.input, transient |-> call.payload.transient]
      /\ call.answers[1].signed.hash
            = Ledgers!Hash(call.header, [call.payload EXCEPT !.transient = None])
  BY DEF WorkSound
<1> DEFINE q == [call.payload EXCEPT !.transient = None]
           E == {<<a.by, a.signed>> : a \in {call.answers[i] : i \in DOMAIN call.answers}}
<1>2. q.transient = None /\ q.input = call.payload.input
  BY <1>1
<1>3. Ledgers!Made = [kind |-> "invoke", header |-> call.header, payload |-> q,
                      answer |-> call.answers[1].signed, endorsements |-> E]
  BY DEF Ledgers!Made, Ledgers!ForTx
<1>4. \E e \in E : e[2] = call.answers[1].signed
  <2>1. <<call.answers[1].by, call.answers[1].signed>> \in E
    BY <1>1
  <2> HIDE DEF E
  <2> QED
    BY <2>1
<1> HIDE DEF q, E
<1>5. /\ Ledgers!Made.kind = "invoke" /\ Ledgers!Made.header = call.header
      /\ Ledgers!Made.payload = q /\ Ledgers!Made.answer = call.answers[1].signed
      /\ Ledgers!Made.endorsements = E
  BY <1>3
<1>6. Ledgers!Made.answer.hash = Ledgers!Hash(Ledgers!Made.header, Ledgers!Made.payload)
  BY <1>1, <1>5 DEF q
<1>7. FromRequest(Ledgers!Made.header, Ledgers!Made.payload.input)
  BY <1>1, <1>2, <1>5
<1>8. \E e \in Ledgers!Made.endorsements : e[2] = Ledgers!Made.answer
  BY <1>4, <1>5
<1>9. Ledgers!Made.payload.transient = None
  BY <1>2, <1>5
<1> QED
  BY <1>5, <1>6, <1>7, <1>8, <1>9 DEF OrderedSoundly

\* A transaction is sent to an orderer.
LEMMA LedgersSend ==
  ASSUME Ledgers!TransactionAssumption, LedgersInv, Ledgers!Send
  PROVE  LedgersInv'
<1>0. /\ WorkSound /\ ChainSound /\ BrowseSound /\ call.at = "made"
      /\ UNCHANGED <<world, heights, browse>> /\ MaxBlocks \in Nat
      /\ Len(chain') <= MaxBlocks
  BY DEF LedgersInv, Ledgers!Send, Ledgers!TransactionAssumption
<1>1. UNCHANGED call \/ call' = Ledgers!NoWork
  BY DEF Ledgers!Send
<1>2. chain' = chain \/ chain' = Append(chain, Ledgers!Made)
  BY DEF Ledgers!Send
<1>3. WorkSound'
  <2>1. CASE UNCHANGED call
    BY <1>0, <2>1 DEF WorkSound, FromRequest
  <2>2. CASE call' = Ledgers!NoWork
    <3>1. call' = [at |-> "idle", header |-> None, payload |-> None, answers |-> None]
      BY <2>2 DEF Ledgers!NoWork
    <3> QED
      BY <1>0, <3>1 DEF WorkSound
  <2> QED
    BY <1>1, <2>1, <2>2
<1>4. CASE chain' = chain
  <2>1. ChainSound'
    BY <1>0, <1>4 DEF ChainSound, OrderedSoundly, FromRequest
  <2>2. BrowseSound'
    BY <1>0, <1>4 DEF BrowseSound, BrowseType, BrowseLimits, Wanted
  <2> QED
    BY <1>3, <2>1, <2>2 DEF LedgersInv
<1>5. CASE chain' = Append(chain, Ledgers!Made)
  <2> DEFINE tx == Ledgers!Made
             n == Len(chain)
  <2>1. OrderedSoundly(tx)
    BY <1>0, MadeSoundly
  <2> HIDE DEF tx
  <2>2. PICK S : chain \in Seq(S)
    BY <1>0 DEF ChainSound
  <2>3. /\ chain' \in Seq(S \cup {tx}) /\ Len(chain') = n + 1 /\ n \in 1 .. MaxBlocks
        /\ \A i \in 1 .. n : chain'[i] = chain[i]
        /\ chain'[n + 1] = tx
    <3>1. chain \in Seq(S \cup {tx}) /\ tx \in S \cup {tx} /\ chain' = Append(chain, tx)
      BY <1>5, <2>2 DEF tx
    <3>2. n \in 1 .. MaxBlocks
      BY <1>0 DEF ChainSound
    <3> QED
      BY <3>1, <3>2
  <2>4. \A i \in 2 .. n + 1 : OrderedSoundly(chain'[i])
    <3>1. \A i \in 2 .. n : chain'[i] = chain[i] /\ OrderedSoundly(chain[i])
      BY <1>0, <2>3 DEF ChainSound
    <3>2. \A i \in 2 .. n + 1 : i \in 2 .. n \/ i = n + 1
      BY <2>3
    <3>3. ASSUME NEW i \in 2 .. n + 1
          PROVE  OrderedSoundly(chain'[i])
      <4>1. CASE i \in 2 .. n
        BY <3>1, <4>1
      <4>2. CASE i = n + 1
        BY <2>1, <2>3, <4>2
      <4> QED
        BY <3>2, <4>1, <4>2
    <3> QED
      BY <3>3
  <2>5. ChainSound'
    <3>1. \A i \in 2 .. Len(chain') : OrderedSoundly(chain[i])'
      BY <1>0, <2>3, <2>4 DEF OrderedSoundly, FromRequest
    <3>2. \E T : chain' \in Seq(T)
      BY <2>3
    <3>3. heights' \in [LedgerPeers -> 1 .. Len(chain')]
      <4>1. heights \in [LedgerPeers -> 1 .. n]
        BY <1>0 DEF ChainSound
      <4>2. \A p \in LedgerPeers : heights[p] \in 1 .. n + 1
        BY <2>3, <4>1
      <4> QED
        BY <1>0, <2>3, <4>1, <4>2
    <3>4. Len(chain') \in 1 .. MaxBlocks /\ chain'[1].kind = "config"
      BY <1>0, <2>3 DEF ChainSound
    <3> QED
      BY <3>1, <3>2, <3>3, <3>4 DEF ChainSound
  <2>6. BrowseSound'
    <3>1. BrowseType' /\ BrowseLimits'
      BY <1>0 DEF BrowseSound, BrowseType, BrowseLimits, Wanted
    <3>2. browse.height <= Len(chain') /\ browse.known <= Len(chain')
      BY <1>0, <2>3 DEF BrowseSound, BrowseType
    <3>3. ASSUME NEW i \in 1 .. browse.count
          PROVE  browse.told[i] = Ledgers!Info(chain'[browse.height - i + 1])
      <4>1. browse.height - i + 1 \in 1 .. n
        BY <1>0, <2>3 DEF BrowseSound, BrowseType
      <4>2. browse.told[i] = Ledgers!Info(chain[browse.height - i + 1])
        BY <1>0 DEF BrowseSound
      <4> QED
        BY <2>3, <4>1, <4>2
    <3> QED
      BY <1>0, <3>1, <3>2, <3>3 DEF BrowseSound
  <2> QED
    BY <1>3, <2>5, <2>6 DEF LedgersInv
<1> QED
  BY <1>2, <1>4, <1>5
\* What the browser tells of a transaction that a caller proposed
LEMMA InfoOfInvoke ==
  ASSUME NEW tx, tx.kind = "invoke"
  PROVE  /\ Ledgers!Info(tx).id = tx.header.id /\ Ledgers!Info(tx).by = tx.header.creator
         /\ Ledgers!Info(tx).cc = tx.payload.input.cc
         /\ Ledgers!Info(tx).args = tx.payload.input.args
<1> DEFINE R(a, b, c, d, e, f, g) ==
      [id |-> a, by |-> b, cc |-> c, args |-> d, type |-> e, error |-> f, writes |-> g]
<1>1. \A a, b, c, d, e, f, g :
        /\ R(a, b, c, d, e, f, g).id = a /\ R(a, b, c, d, e, f, g).by = b
        /\ R(a, b, c, d, e, f, g).cc = c /\ R(a, b, c, d, e, f, g).args = d
  OBVIOUS
<1>2. Ledgers!Info(tx) =
        R(tx.header.id, tx.header.creator, tx.payload.input.cc, tx.payload.input.args,
          Ledgers!TypeOf(tx.payload.input.cc), FALSE, tx.answer.writes \ {"of the system"})
  BY DEF Ledgers!Info
<1> HIDE DEF R
<1>3. PICK a, b, c, d, e, f, g :
        /\ a = tx.header.id /\ b = tx.header.creator /\ c = tx.payload.input.cc
        /\ d = tx.payload.input.args /\ Ledgers!Info(tx) = R(a, b, c, d, e, f, g)
  BY <1>2
<1> QED
  BY <1>1, <1>3

\* A peer gets the next block.
LEMMA LedgersDeliver ==
  ASSUME LedgersInv, NEW p \in LedgerPeers, Ledgers!Deliver(p)
  PROVE  LedgersInv'
<1>0. /\ WorkSound /\ ChainSound /\ BrowseSound
      /\ UNCHANGED <<call, world, chain, browse>>
      /\ heights[p] < Len(chain) /\ heights' = [heights EXCEPT ![p] = @ + 1]
  BY DEF LedgersInv, Ledgers!Deliver
<1>1. WorkSound'
  BY <1>0 DEF WorkSound, FromRequest
<1>2. ChainSound'
  <2>1. heights' \in [LedgerPeers -> 1 .. Len(chain)]
    BY <1>0 DEF ChainSound
  <2>2. \A n \in 2 .. Len(chain') : OrderedSoundly(chain[n])'
    BY <1>0 DEF ChainSound, OrderedSoundly, FromRequest
  <2> QED
    BY <1>0, <2>1, <2>2 DEF ChainSound
<1>3. BrowseSound'
  BY <1>0 DEF BrowseSound, BrowseType, BrowseLimits, Wanted
<1> QED
  BY <1>1, <1>2, <1>3 DEF LedgersInv

\* The browser leaves the rest alone.
LEMMA LedgersBrowse ==
  ASSUME LedgersInv, BrowseSound', UNCHANGED <<call, world, chain, heights>>
  PROVE  LedgersInv'
<1>1. WorkSound'
  BY DEF LedgersInv, WorkSound, FromRequest
<1>2. ChainSound'
  <2>1. \A n \in 2 .. Len(chain') : OrderedSoundly(chain[n])'
    BY DEF LedgersInv, ChainSound, OrderedSoundly, FromRequest
  <2> QED
    BY <2>1 DEF LedgersInv, ChainSound
<1> QED
  BY <1>1, <1>2 DEF LedgersInv

\* The browser begins, at the height of a peer.
LEMMA LedgersBegin ==
  ASSUME Ledgers!TransactionAssumption, LedgersInv, NEW p \in LedgerPeers, NEW kind \in 0 .. 2,
         NEW limit \in 0 .. MaxBlocks, Ledgers!Begin(p, kind, limit)
  PROVE  LedgersInv'
<1>0. /\ ChainSound /\ BrowseSound /\ MaxBlocks \in Nat
      /\ UNCHANGED <<call, world, chain, heights>>
      /\ heights[p] \in 1 .. Len(chain) /\ Len(chain) \in Nat
      /\ browse.known \in Nat /\ browse.known <= Len(chain)
  BY DEF LedgersInv, Ledgers!Begin, ChainSound, BrowseSound, BrowseType, Ledgers!TransactionAssumption
<1>1. PICK h : h = heights[p]
  OBVIOUS
<1>2. browse' = [at |-> "reading", kind |-> kind, limit |-> limit, height |-> h, next |-> h,
                 count |-> 0, told |-> <<>>, known |-> browse.known, result |-> None]
  BY <1>1 DEF Ledgers!Begin, Ledgers!NoBrowse
<1>3. kind = 2 => limit >= 1
  BY <1>0 DEF Ledgers!Begin, Ledgers!ByNumber, Ledgers!ByCount, Ledgers!ByHash
<1>4. \E S : <<>> \in Seq(S)
  OBVIOUS
<1>5. BrowseType'
  BY <1>0, <1>1, <1>2, <1>4 DEF BrowseType
<1>6. BrowseLimits'
  BY <1>0, <1>1, <1>2, <1>3 DEF BrowseLimits
<1>7. BrowseSound'
  BY <1>0, <1>1, <1>2, <1>5, <1>6 DEF BrowseSound
<1> QED
  BY <1>0, <1>7, LedgersBrowse

\* The browser stops with the result r.
LEMMA LedgersReturns ==
  ASSUME LedgersInv, NEW r \in {"ok", "error", "panic"}, Ledgers!Returns(r),
         r = "ok" /\ browse.kind # 1 => browse.count = Wanted,
         UNCHANGED <<call, world, chain, heights>>
  PROVE  LedgersInv'
<1>0. BrowseSound /\ BrowseType /\ Len(chain) \in Nat
  BY DEF LedgersInv, BrowseSound, ChainSound
<1>1. PICK k : k = IF r = "ok" /\ browse.height > browse.known THEN browse.height ELSE browse.known
  OBVIOUS
<1>2. browse' = [at |-> "idle", kind |-> browse.kind, limit |-> browse.limit,
               height |-> browse.height, next |-> browse.next, count |-> browse.count,
               told |-> browse.told, known |-> k, result |-> r]
  <2>1. browse' = [browse EXCEPT !.at = "idle", !.result = r, !.known = k]
    BY <1>0, <1>1 DEF Ledgers!Returns, BrowseType
  <2> QED
    BY <1>0, <2>1 DEF BrowseType
<1>3. k \in Nat /\ k <= Len(chain)
  BY <1>0, <1>1 DEF BrowseSound, BrowseType
<1>4. BrowseType'
  BY <1>0, <1>2, <1>3 DEF BrowseType
<1>5. BrowseLimits'
  <2>1. Wanted' = Wanted
    BY <1>2 DEF Wanted
  <2> QED
    BY <1>2, <2>1 DEF BrowseLimits
<1>6. BrowseSound'
  BY <1>0, <1>2, <1>3, <1>4, <1>5 DEF BrowseSound
<1> QED
  BY <1>6, LedgersBrowse

\* The browser has come to what was asked for.
LEMMA LedgersStop ==
  ASSUME LedgersInv, Ledgers!Stop
  PROVE  LedgersInv'
<1>0. /\ BrowseType /\ BrowseLimits /\ browse.at = "reading" /\ Ledgers!Reached(browse)
      /\ Ledgers!Returns("ok") /\ UNCHANGED <<call, world, chain, heights>>
  BY DEF LedgersInv, Ledgers!Stop, BrowseSound
<1> DEFINE limit == browse.limit
           height == browse.height
           next == browse.next
           count == browse.count
<1>1. /\ limit \in Nat /\ height \in Nat /\ next \in Nat /\ count \in Nat
      /\ next = height - count /\ next >= 1 /\ browse.kind \in 0 .. 2
      /\ browse.kind = 0 /\ limit > 0 => count <= limit
      /\ browse.kind = 2 /\ limit > height => count = 0
      /\ browse.kind = 2 /\ limit <= height => next >= limit
  BY <1>0 DEF BrowseType, BrowseLimits
<1>2. /\ browse.kind = 0 => limit > 0 /\ limit < count + 1
      /\ browse.kind = 2 => limit >= next
  BY <1>0, <1>1 DEF Ledgers!Reached, Ledgers!ByCount, Ledgers!ByHash, Ledgers!ByNumber
<1> HIDE DEF limit, height, next, count
<1>3. browse.kind = 0 => limit > 0 /\ limit < height /\ count = limit
  BY <1>1, <1>2
<1>4. browse.kind = 2 => IF limit > height THEN count = 0 ELSE count = height - limit
  BY <1>1, <1>2
<1>5. browse.kind # 1 => browse.count = Wanted
  <2>1. CASE browse.kind = 0
    BY <1>3, <2>1 DEF Wanted, limit, height, count
  <2>2. CASE browse.kind = 2
    <3>1. limit > height \/ limit <= height
      BY <1>1
    <3>2. ~(limit > height /\ limit <= height)
      BY <1>1
    <3> QED
      BY <1>4, <2>2, <3>1, <3>2 DEF Wanted, limit, height, count
  <2> QED
    BY <1>1, <2>1, <2>2
<1> QED
  BY <1>0, <1>5, LedgersReturns

\* The browser reads a block, tells of it, and goes on to the one before or ends.
LEMMA LedgersRead ==
  ASSUME Ledgers!TransactionAssumption, LedgersInv, NEW p \in LedgerPeers, Ledgers!Read(p)
  PROVE  LedgersInv'
<1>0. /\ BrowseSound /\ BrowseType /\ BrowseLimits /\ browse.at = "reading"
      /\ ~Ledgers!Reached(browse) /\ Len(chain) \in Nat
      /\ UNCHANGED <<call, world, chain, heights>>
  BY DEF LedgersInv, Ledgers!Read, BrowseSound, ChainSound
<1> DEFINE limit == browse.limit
           height == browse.height
           next == browse.next
           count == browse.count
<1>1. /\ limit \in Nat /\ height \in Nat /\ next \in Nat /\ count \in Nat
      /\ next = height - count /\ next >= 1 /\ browse.kind \in 0 .. 2
      /\ browse.kind = 0 /\ limit > 0 => count <= limit
      /\ browse.kind = 2 /\ limit > height => count = 0
      /\ browse.kind = 2 /\ limit <= height => next >= limit
      /\ browse.kind = 2 => limit >= 1
  BY <1>0 DEF BrowseType, BrowseLimits
<1>2. /\ browse.kind = 0 => ~(limit > 0 /\ limit < count + 1)
      /\ browse.kind = 2 => ~(limit >= next)
  BY <1>0 DEF Ledgers!Reached, Ledgers!ByCount, Ledgers!ByHash, Ledgers!ByNumber
<1>3. ASSUME NEW r \in {"error", "panic"}, Ledgers!Returns(r)
      PROVE  LedgersInv'
  BY <1>0, <1>3, LedgersReturns
<1>i. PICK info : info = Ledgers!Info(chain[next])
  OBVIOUS
<1>t. PICK told : told = Append(browse.told, info)
  OBVIOUS
<1>4. /\ \E T : told \in Seq(T)
      /\ Len(told) = count + 1 /\ told[count + 1] = info
      /\ \A i \in 1 .. count : told[i] = browse.told[i]
  <2>1. PICK S : browse.told \in Seq(S)
    BY <1>0 DEF BrowseType
  <2>2. browse.told \in Seq(S \cup {info}) /\ info \in S \cup {info} /\ Len(browse.told) = count
    BY <1>0, <2>1 DEF BrowseType
  <2>3. told \in Seq(S \cup {info})
    BY <1>t, <2>2
  <2> QED
    BY <1>t, <2>2, <2>3
<1>5. \A i \in 1 .. count + 1 : told[i] = Ledgers!Info(chain[height - i + 1])
  <2> SUFFICES ASSUME NEW i \in 1 .. count + 1
               PROVE  told[i] = Ledgers!Info(chain[height - i + 1])
    OBVIOUS
  <2>1. CASE i \in 1 .. count
    BY <1>0, <1>4, <2>1 DEF BrowseSound
  <2>2. CASE i = count + 1
    <3>1. height - i + 1 = next
      BY <1>1, <2>2
    <3> QED
      BY <1>4, <1>i, <2>2, <3>1
  <2> QED
    BY <1>1, <2>1, <2>2
<1> DEFINE read == [browse EXCEPT !.told = told, !.count = count + 1, !.next = next - 1]
<1>6. CASE next > 1 /\ browse' = read
  <2>1. browse' = [at |-> browse.at, kind |-> browse.kind, limit |-> limit,
               height |-> height, next |-> next - 1, count |-> count + 1,
               told |-> told, known |-> browse.known, result |-> browse.result]
    BY <1>0, <1>6 DEF BrowseType
  <2>2. next - 1 \in Nat /\ next - 1 >= 1 /\ count + 1 \in Nat /\ next - 1 = height - (count + 1)
    BY <1>1, <1>6
  <2>3. /\ browse'.at = "reading" /\ browse'.kind = browse.kind /\ browse'.limit = limit
        /\ browse'.height = height /\ browse'.next = next - 1 /\ browse'.count = count + 1
        /\ browse'.told = told /\ browse'.known = browse.known /\ browse'.result = browse.result
    BY <1>0, <2>1
  <2> HIDE DEF read
  <2>4. BrowseType'
    <3>1. browse' = [at |-> browse'.at, kind |-> browse'.kind, limit |-> browse'.limit,
               height |-> browse'.height, next |-> browse'.next, count |-> browse'.count,
               told |-> browse'.told, known |-> browse'.known, result |-> browse'.result]
      BY <2>1
    <3> QED
      BY <1>0, <1>4, <2>2, <2>3, <3>1 DEF BrowseType
  <2>5. BrowseLimits'
    <3> HIDE DEF limit, height, next, count
    <3>1. /\ browse.kind = 0 /\ limit > 0 => count + 1 <= limit
          /\ browse.kind = 2 => ~(limit > height)
          /\ browse.kind = 2 => next - 1 >= limit
      BY <1>1, <1>2
    <3> QED
      BY <1>1, <2>2, <2>3, <3>1 DEF BrowseLimits
  <2>6. BrowseSound'
    BY <1>0, <1>5, <2>3, <2>4, <2>5 DEF BrowseSound
  <2> QED
    BY <1>0, <2>6, LedgersBrowse
<1>7. CASE next <= 1 /\ browse' = [read EXCEPT !.at = "idle", !.result = "ok",
               !.known = IF height > @ THEN height ELSE @]
  <2>1. PICK k : k = IF height > browse.known THEN height ELSE browse.known
    OBVIOUS
  <2>2. browse' = [at |-> "idle", kind |-> browse.kind, limit |-> limit,
               height |-> height, next |-> next - 1, count |-> count + 1,
               told |-> told, known |-> k, result |-> "ok"]
    <3>0. PICK b : b = read
      OBVIOUS
    <3>1. b = [at |-> browse.at, kind |-> browse.kind, limit |-> limit,
               height |-> height, next |-> next - 1, count |-> count + 1,
               told |-> told, known |-> browse.known, result |-> browse.result]
      BY <1>0, <3>0 DEF BrowseType
    <3>2. browse' = [b EXCEPT !.at = "idle", !.result = "ok", !.known = IF height > @ THEN height ELSE @]
      BY <1>7, <3>0
    <3> HIDE DEF read
    <3> QED
      BY <2>1, <3>1, <3>2
  <2>3. /\ browse'.at = "idle" /\ browse'.kind = browse.kind /\ browse'.limit = limit
        /\ browse'.height = height /\ browse'.next = next - 1 /\ browse'.count = count + 1
        /\ browse'.told = told /\ browse'.known = k /\ browse'.result = "ok"
    BY <2>2
  <2> HIDE DEF read
  <2>4. next - 1 \in Nat /\ count + 1 \in Nat /\ next - 1 = height - (count + 1) /\ count + 1 = height
    BY <1>1, <1>7
  <2>5. k \in Nat /\ k <= Len(chain)
    BY <1>0, <2>1 DEF BrowseSound, BrowseType
  <2>6. BrowseType'
    <3>1. browse' = [at |-> browse'.at, kind |-> browse'.kind, limit |-> browse'.limit,
               height |-> browse'.height, next |-> browse'.next, count |-> browse'.count,
               told |-> browse'.told, known |-> browse'.known, result |-> browse'.result]
      BY <2>2
    <3> QED
      BY <1>0, <1>4, <2>3, <2>4, <2>5, <3>1 DEF BrowseType
  <2>7. BrowseLimits'
    <3>0. next <= 1
      BY <1>7
    <3> HIDE DEF limit, height, next, count
    <3>1. /\ browse.kind = 0 => ~(limit > 0 /\ limit < height)
          /\ browse.kind # 2
      BY <1>1, <1>2, <3>0, <2>4
    <3>2. Wanted' = height
      BY <2>3, <3>1 DEF Wanted
    <3> QED
      BY <2>3, <2>4, <3>2 DEF BrowseLimits
  <2>8. BrowseSound'
    BY <1>0, <1>5, <2>3, <2>5, <2>6, <2>7 DEF BrowseSound
  <2> QED
    BY <1>0, <2>8, LedgersBrowse
<1>8. IF heights[p] < next THEN Ledgers!Returns("error")
        ELSE IF Ledgers!Panics(chain[next]) THEN Ledgers!Returns("panic")
        ELSE IF next > 1 THEN browse' = read
        ELSE browse' = [read EXCEPT !.at = "idle", !.result = "ok",
               !.known = IF height > @ THEN height ELSE @]
  BY <1>i, <1>t DEF Ledgers!Read
<1>9. next > 1 \/ next <= 1
  BY <1>1
<1> QED
  BY <1>3, <1>6, <1>7, <1>8, <1>9

\* Every step of transactions and the browser keeps the invariant.
LEMMA LedgersStep ==
  ASSUME Ledgers!TransactionAssumption, LedgersInv, Ledgers!Next
  PROVE  LedgersInv'
BY LedgersPropose, LedgersEndorse, LedgersNew, LedgersSend, LedgersDeliver, LedgersBegin,
   LedgersRead, LedgersStop DEF Ledgers!Next

\* What the invariant of transactions and the browser says for its properties
LEMMA LedgersSound ==
  ASSUME Ledgers!TransactionAssumption, LedgersInv
  PROVE  /\ Ledgers!TypeOK
         /\ Ledgers!OrderedAsEndorsed /\ Ledgers!BrowsedAsAsked /\ Ledgers!NewerOnesOnce
<1>0. /\ WorkSound /\ ChainSound /\ BrowseSound /\ BrowseType /\ BrowseLimits
      /\ Len(chain) \in Nat
  BY DEF LedgersInv, BrowseSound, ChainSound
<1>1. Ledgers!TypeOK
  <2>1. browse.next <= Len(chain)
    BY <1>0 DEF BrowseSound, BrowseType
  <2> QED
    BY <1>0, <2>1 DEF Ledgers!TypeOK, WorkSound, ChainSound, BrowseSound, BrowseType
<1>2. Ledgers!OrderedAsEndorsed
  <2> SUFFICES ASSUME NEW n \in 2 .. Len(chain)
               PROVE  /\ chain[n].payload.transient = None
                      /\ (\A d, e \in chain[n].endorsements : d[2] = e[2]) =>
                           Ledgers!Valid(n)
                             \/ \E m \in 2 .. n - 1 : chain[m].header.id = chain[n].header.id
    BY DEF Ledgers!OrderedAsEndorsed
  <2>1. OrderedSoundly(chain[n])
    <3>1. \A m \in 2 .. Len(chain) : OrderedSoundly(chain[m])
      <4>1. ChainSound
        BY <1>0
      <4> QED
        BY <4>1 DEF ChainSound
    <3> QED
      BY <3>1
  <2> QED
    BY <2>1 DEF OrderedSoundly, Ledgers!Valid
<1>3. Ledgers!BrowsedAsAsked
  <2> SUFFICES ASSUME NEW i \in DOMAIN browse.told, browse.told[i].id # None
               PROVE  LET t == browse.told[i]
                          r == world[t.id[1]][2]
                      IN /\ t.by = world[t.id[1]][1] /\ t.cc = r.cc
                         /\ t.args = <<r.fcn>> \o r.args
    BY DEF Ledgers!BrowsedAsAsked
  <2> DEFINE k == browse.height - i + 1
             tx == chain[k]
  <2>1. i \in 1 .. browse.count
    <3>1. PICK S : browse.told \in Seq(S)
      BY <1>0 DEF BrowseType
    <3> QED
      BY <1>0, <3>1 DEF BrowseType
  <2>2. browse.told[i] = Ledgers!Info(tx) /\ k \in 1 .. Len(chain)
    BY <1>0, <2>1 DEF BrowseSound, BrowseType
  <2>3. CASE k = 1
    <3>1. tx.kind = "config"
      BY <1>0, <2>3 DEF ChainSound
    <3>2. Ledgers!Info(tx).id = None
      BY <3>1 DEF Ledgers!Info, Ledgers!Nothing
    <3> QED
      BY <2>2, <3>2
  <2>4. CASE k # 1
    <3>1. OrderedSoundly(tx)
      BY <1>0, <2>2, <2>4 DEF ChainSound
    <3>2. /\ browse.told[i].id = tx.header.id /\ browse.told[i].by = tx.header.creator
          /\ browse.told[i].cc = tx.payload.input.cc /\ browse.told[i].args = tx.payload.input.args
      <4>1. tx.kind = "invoke"
        BY <3>1 DEF OrderedSoundly
      <4> HIDE DEF tx
      <4>3. /\ Ledgers!Info(tx).id = tx.header.id /\ Ledgers!Info(tx).by = tx.header.creator
            /\ Ledgers!Info(tx).cc = tx.payload.input.cc
            /\ Ledgers!Info(tx).args = tx.payload.input.args
        BY <4>1, InfoOfInvoke
      <4>4. browse.told[i] = Ledgers!Info(tx)
        BY <2>2
      <4> QED
        BY <4>3, <4>4
    <3>3. PICK n \in 1 .. Len(world) :
            /\ tx.header.id = <<n, world[n][1]>> /\ tx.header.creator = world[n][1]
            /\ tx.payload.input = Ledgers!Input(world[n][2])
      BY <3>1 DEF OrderedSoundly, FromRequest
    <3> HIDE DEF tx
    <3> QED
      BY <3>2, <3>3 DEF Ledgers!Input
  <2> QED
    BY <2>3, <2>4
<1>4. Ledgers!NewerOnesOnce
  <2> SUFFICES ASSUME browse.at = "idle", browse.result = "ok", browse.kind # 1
               PROVE  /\ browse.told = [i \in 1 .. Len(browse.told) |-> Ledgers!Info(chain[browse.height - i + 1])]
                      /\ Len(browse.told) = Wanted
    BY DEF Ledgers!NewerOnesOnce, Ledgers!Ended, Ledgers!ByHash, Ledgers!ByCount, Ledgers!ByNumber, Wanted
  <2>1. PICK S : browse.told \in Seq(S)
    BY <1>0 DEF BrowseType
  <2>2. browse.told = [i \in 1 .. Len(browse.told) |-> browse.told[i]] /\ Len(browse.told) = browse.count
    BY <1>0, <2>1 DEF BrowseType
  <2>3. \A i \in 1 .. Len(browse.told) : browse.told[i] = Ledgers!Info(chain[browse.height - i + 1])
    BY <1>0, <2>2 DEF BrowseSound
  <2>4. browse.count = Wanted
    BY <1>0 DEF BrowseLimits
  <2> QED
    BY <2>2, <2>3, <2>4
<1> QED
  BY <1>1, <1>2, <1>3, <1>4

(***************************************************************************)
(* The selection of endorsers                                              *)
(***************************************************************************)

\* Cardinalities in the instance are cardinalities.
LEMMA SelectionCounts ==
  ASSUME NEW S
  PROVE  Selections!Cardinality(S) = Cardinality(S)
BY DEF Selections!Cardinality, Cardinality

\* Finite in the instance is finite.
LEMMA SelectionFinite ==
  ASSUME NEW S
  PROVE  Selections!IsFiniteSet(S) <=> IsFiniteSet(S)
BY DEF Selections!IsFiniteSet, IsFiniteSet

\* What kSubset is
LEMMA SubsetsOfSize ==
  ASSUME NEW S, NEW k, NEW T
  PROVE  T \in Selections!kSubset(k, S) <=> T \subseteq S /\ Cardinality(T) = k
BY SelectionCounts DEF Selections!kSubset

\* What Range is
LEMMA RangeIs ==
  ASSUME NEW f
  PROVE  Selections!Range(f) = {f[i] : i \in DOMAIN f}
BY DEF Selections!Range

\* A rule names an MSP, not the empty one, or is made of rules.
LEMMA RuleParts ==
  ASSUME Selections!SelectionAssumption, NEW r \in Rules
  PROVE  /\ r.type = "signedBy" => Selections!Parts(r) = {} /\ r.msp # Selections!AnyMSP
         /\ r.type # "signedBy" =>
              /\ r.n \in Nat /\ DOMAIN r.rules = 1 .. Len(r.rules) /\ Len(r.rules) \in Nat
              /\ \A i \in DOMAIN r.rules : r.rules[i] \in Rules /\ r.rules[i] \in Selections!Parts(r)
              /\ Selections!Parts(r) = {r.rules[i] : i \in DOMAIN r.rules}
         /\ Selections!Parts(r) \subseteq Rules
<1>1. Selections!IsRule(r)
  BY DEF Selections!SelectionAssumption
<1>2. CASE r.type = "signedBy"
  <2>1. Selections!Parts(r) = {} /\ r.msp # Selections!AnyMSP
    BY <1>1, <1>2 DEF Selections!IsRule, Selections!Parts
  <2> QED
    BY <1>2, <2>1
<1>3. CASE r.type # "signedBy"
  <2>1. r.type = "nOutOf" /\ r.n \in Nat /\ r.rules \in Seq(Rules)
    BY <1>1, <1>3 DEF Selections!IsRule
  <2>2. DOMAIN r.rules = 1 .. Len(r.rules) /\ Len(r.rules) \in Nat
    BY <2>1, LenProperties
  <2>3. \A i \in DOMAIN r.rules : r.rules[i] \in Rules
    BY <2>1, TypedSequence
  <2>4. Selections!Parts(r) = {r.rules[i] : i \in DOMAIN r.rules}
    BY <2>1, RangeIs DEF Selections!Parts
  <2> QED
    BY <1>3, <2>1, <2>2, <2>3, <2>4
<1> QED
  BY <1>2, <1>3

\* No rule is made of itself, through however many others.
LEMMA RulesEnd ==
  ASSUME Selections!SelectionAssumption
  PROVE  \A S \in SUBSET Rules : S # {} => \E r \in S : Selections!Parts(r) \cap S = {}
BY DEF Selections!SelectionAssumption

\* The organizations that the rules name
Named == {Selections!AnyMSP} \cup {r.msp : r \in Rules}

\* One of the rules and what it is made of
LEMMA NofIs ==
  ASSUME NEW n, NEW D, NEW choices, DOMAIN choices = D, NEW S
  PROVE  S \in Selections!Nof(n, choices)
           <=> \E I, g :
                 /\ I \in SUBSET D
                 /\ Cardinality(I) = n /\ DOMAIN g = I /\ \A i \in I : g[i] \in choices[i]
                 /\ g = [i \in I |-> g[i]]
                 /\ S = UNION {g[i] : i \in I}
<1>1. ASSUME S \in Selections!Nof(n, choices)
      PROVE  \E I, g :
                 /\ I \in SUBSET D
                 /\ Cardinality(I) = n /\ DOMAIN g = I /\ \A i \in I : g[i] \in choices[i]
                 /\ g = [i \in I |-> g[i]]
                 /\ S = UNION {g[i] : i \in I}
  <2>1. PICK I \in Selections!kSubset(n, D) : S \in Selections!Joint([i \in I |-> choices[i]])
    BY <1>1 DEF Selections!Nof
  <2>2. I \in SUBSET D /\ Cardinality(I) = n
    BY SubsetsOfSize
  <2> DEFINE c == [i \in I |-> choices[i]]
  <2>3. DOMAIN c = I /\ \A i \in I : c[i] = choices[i]
    OBVIOUS
  <2>4. S \in Selections!Joint(c)
    BY <2>1
  <2> HIDE DEF c
  <2>5. PICK g \in [I -> UNION Selections!Range(c)] :
               /\ \A i \in I : g[i] \in c[i]
               /\ S = UNION Selections!Range(g)
    BY <2>3, <2>4 DEF Selections!Joint
  <2>6. g = [i \in I |-> g[i]]
    BY <2>5
  <2>7. S = UNION {g[i] : i \in I}
    BY <2>5, RangeIs
  <2> QED
    BY <2>2, <2>3, <2>5, <2>6, <2>7
<1>2. ASSUME NEW I \in SUBSET D, NEW g, Cardinality(I) = n, DOMAIN g = I,
             \A i \in I : g[i] \in choices[i], g = [i \in I |-> g[i]],
             S = UNION {g[i] : i \in I}
      PROVE  S \in Selections!Nof(n, choices)
  <2>1. I \in Selections!kSubset(n, D)
    BY <1>2, SubsetsOfSize
  <2> DEFINE c == [i \in I |-> choices[i]]
  <2>2. DOMAIN c = I /\ \A i \in I : c[i] = choices[i]
    OBVIOUS
  <2>3. Selections!Range(c) = {c[i] : i \in I}
    BY <2>2, RangeIs
  <2>4. S \in Selections!Joint(c)
    <3> HIDE DEF c
    <3>1. \A i \in I : g[i] \in UNION Selections!Range(c)
      BY <1>2, <2>2, <2>3
    <3>2. g \in [I -> UNION Selections!Range(c)]
      BY <1>2, <3>1
    <3>3. S = UNION Selections!Range(g)
      BY <1>2, RangeIs
    <3> QED
      BY <1>2, <2>2, <3>2, <3>3 DEF Selections!Joint
  <2> QED
    BY <1>2, <2>1, <2>4 DEF Selections!Nof
<1> QED
  BY <1>1, <1>2

\* What is joined of choices among sets of organizations is sets of them.
LEMMA NofType ==
  ASSUME NEW n, NEW M, NEW D, NEW choices \in [D -> SUBSET SUBSET M]
  PROVE  Selections!Nof(n, choices) \in SUBSET SUBSET M
<1> SUFFICES ASSUME NEW S \in Selections!Nof(n, choices), NEW o \in S
             PROVE  o \in M
  OBVIOUS
<1>1. PICK I, g :
        /\ I \in SUBSET D
        /\ DOMAIN g = I /\ \A i \in I : g[i] \in choices[i]
        /\ S = UNION {g[i] : i \in I}
  BY NofIs
<1>2. PICK i \in I : o \in g[i]
  BY <1>1
<1>3. choices[i] \in SUBSET SUBSET M
  BY <1>1
<1> QED
  BY <1>1, <1>2, <1>3

\* The groups of a rule are joined from the groups of its parts, for every rule.
LEMMA OrgGroupsAre ==
  ASSUME Selections!SelectionAssumption
  PROVE  \A r \in Rules :
           Selections!OrgGroups[r] =
             IF r.type = "signedBy" THEN {{r.msp}}
             ELSE IF r.n = 0 THEN {{Selections!AnyMSP}}
             ELSE Selections!Nof(r.n, [i \in DOMAIN r.rules |-> Selections!OrgGroups[r.rules[i]]])
<1> DEFINE V == SUBSET SUBSET Named
           Of(r, c) == IF r.type = "signedBy" THEN {{r.msp}}
                       ELSE IF r.n = 0 THEN {{Selections!AnyMSP}}
                       ELSE Selections!Nof(r.n, c)
           E(f) == [r \in Rules |-> Of(r, [i \in DOMAIN r.rules |-> f[r.rules[i]]])]
           Sub == [r \in Rules |-> Selections!Parts(r)]
           F == [r \in Rules |-> [h \in [Sub[r] -> V] |->
                   Of(r, [i \in DOMAIN r.rules |-> h[r.rules[i]]])]]
<1>1. \A r \in Rules : Sub[r] = Selections!Parts(r) /\ Sub[r] \subseteq Rules
  BY RuleParts
<1>2. \A S \in SUBSET Rules : S # {} => \E r \in S : Sub[r] \cap S = {}
  <2> HIDE DEF Sub
  <2> QED
    BY <1>1, RulesEnd
<1>3. ASSUME NEW r \in Rules, NEW h \in [Sub[r] -> V]
      PROVE  F[r][h] \in V /\ F[r][h] = Of(r, [i \in DOMAIN r.rules |-> h[r.rules[i]]])
  <2> DEFINE c == [i \in DOMAIN r.rules |-> h[r.rules[i]]]
  <2>1. F[r][h] = Of(r, c)
    <3> HIDE DEF Of, Sub
    <3> QED
      OBVIOUS
  <2>2. CASE r.type = "signedBy"
    <3>1. {{r.msp}} \in V
      BY DEF Named
    <3> QED
      BY <2>1, <2>2, <3>1
  <2>3. CASE r.type # "signedBy"
    <3>1. c \in [DOMAIN r.rules -> SUBSET SUBSET Named]
      <4>1. \A i \in DOMAIN r.rules : r.rules[i] \in Sub[r]
        BY <1>1, <2>3, RuleParts
      <4> HIDE DEF Sub
      <4> QED
        BY <4>1
    <3> HIDE DEF c
    <3>2. Selections!Nof(r.n, c) \in V
      BY <3>1, NofType
    <3>3. {{Selections!AnyMSP}} \in V
      BY DEF Named
    <3> QED
      BY <2>1, <2>3, <3>2, <3>3
  <2> QED
    BY <2>1, <2>2, <2>3
<1>4. PICK f \in [Rules -> V] : \A r \in Rules : f[r] = F[r][[q \in Sub[r] |-> f[q]]]
  <2> HIDE DEF V, Sub, F
  <2>1. Definable(Rules, V, Sub, F)
    BY <1>1, <1>2, <1>3 DEF Definable
  <2>2. PICK f : DefinedBy(f, Rules, V, Sub, F)
    BY <2>1, RecursiveFunction
  <2> QED
    BY <2>2 DEF DefinedBy
<1>5. f = E(f)
  <2>1. ASSUME NEW r \in Rules
        PROVE  f[r] = Of(r, [i \in DOMAIN r.rules |-> f[r.rules[i]]])
    <3> DEFINE h == [q \in Sub[r] |-> f[q]]
    <3>1. h \in [Sub[r] -> V]
      <4> HIDE DEF V, Sub, F
      <4> QED
        BY <1>1, <1>4
    <3>2. f[r] = Of(r, [i \in DOMAIN r.rules |-> h[r.rules[i]]])
      <4>1. f[r] = F[r][h]
        <5> HIDE DEF F, Sub
        <5> QED
          BY <1>4
      <4> HIDE DEF h, Of, F, V
      <4> QED
        BY <1>3, <3>1, <4>1
    <3>3. CASE r.type = "signedBy"
      BY <3>2, <3>3
    <3>4. CASE r.type # "signedBy"
      <4>1. \A i \in DOMAIN r.rules : r.rules[i] \in Sub[r]
        BY <1>1, <3>4, RuleParts
      <4>2. \A i \in DOMAIN r.rules : h[r.rules[i]] = f[r.rules[i]]
        <5> HIDE DEF Sub
        <5> QED
          BY <4>1
      <4>3. [i \in DOMAIN r.rules |-> h[r.rules[i]]] = [i \in DOMAIN r.rules |-> f[r.rules[i]]]
        <5> HIDE DEF h
        <5> QED
          BY <4>2
      <4> HIDE DEF h, Of
      <4> QED
        BY <3>2, <4>3
    <3> QED
      BY <3>3, <3>4
  <2> HIDE DEF Of
  <2> QED
    BY <1>4, <2>1
<1>6. Selections!OrgGroups = CHOOSE g : g = E(g)
  BY DEF Selections!OrgGroups
<1>7. Selections!OrgGroups = E(Selections!OrgGroups)
  <2> HIDE DEF E
  <2> QED
    BY <1>5, <1>6
<1> QED
  <2> DEFINE G == Selections!OrgGroups
  <2>1. G = E(G)
    BY <1>7
  <2> HIDE DEF G, Of
  <2>2. \A r \in Rules : G[r] = Of(r, [i \in DOMAIN r.rules |-> G[r.rules[i]]])
    BY <2>1
  <2> QED
    BY <2>2 DEF G, Of

\* What a rule asks for is said by what its parts ask for, for every rule.
LEMMA SatisfiedIs ==
  ASSUME Selections!SelectionAssumption
  PROVE  \A r \in Rules, peers \in SUBSET EndorserPeers :
           /\ Selections!Satisfied[r][peers] \in BOOLEAN
           /\ Selections!Satisfied[r][peers] <=>
                IF r.type = "signedBy" THEN \E p \in peers : OrganizationOf(p) = r.msp
                ELSE Selections!Cardinality(
                       {i \in DOMAIN r.rules : Selections!Satisfied[r.rules[i]][peers]}) >= r.n
<1> DEFINE V == [SUBSET EndorserPeers -> BOOLEAN]
           Of(r, peers, S) ==
             IF r.type = "signedBy" THEN \E p \in peers : OrganizationOf(p) = r.msp
             ELSE Selections!Cardinality(S) >= r.n
           E(f) == [r \in Rules |-> [peers \in SUBSET EndorserPeers |->
                      Of(r, peers, {i \in DOMAIN r.rules : f[r.rules[i]][peers]})]]
           Sub == [r \in Rules |-> Selections!Parts(r)]
           F == [r \in Rules |-> [h \in [Sub[r] -> V] |-> [peers \in SUBSET EndorserPeers |->
                   Of(r, peers, {i \in DOMAIN r.rules : h[r.rules[i]][peers]})]]]
<1>1. \A r \in Rules : Sub[r] = Selections!Parts(r) /\ Sub[r] \subseteq Rules
  BY RuleParts
<1>2. \A S \in SUBSET Rules : S # {} => \E r \in S : Sub[r] \cap S = {}
  <2> HIDE DEF Sub
  <2> QED
    BY <1>1, RulesEnd
<1>3. \A r \in Rules : \A peers : \A S \in SUBSET (DOMAIN r.rules) : Of(r, peers, S) \in BOOLEAN
  <2>1. ASSUME NEW r \in Rules, NEW peers, NEW S \in SUBSET (DOMAIN r.rules),
               r.type # "signedBy"
        PROVE  Of(r, peers, S) \in BOOLEAN
    <3>1. Selections!Cardinality(S) \in Nat
      <4>1. S \subseteq 1 .. Len(r.rules) /\ Len(r.rules) \in Nat
        BY <2>1, RuleParts
      <4>2. IsFiniteSet(1 .. Len(r.rules))
        <5>1. 1 \in Int /\ Len(r.rules) \in Int
          BY <4>1
        <5> HIDE DEF Of, E, F, Sub, V
        <5> QED
          BY <5>1, FS_Interval
      <4>3. IsFiniteSet(S)
        BY <4>1, <4>2, FS_Subset
      <4> QED
        BY <4>3, FS_CardinalityType, SelectionCounts
    <3>2. r.n \in Nat
      BY <2>1, RuleParts
    <3> QED
      BY <2>1, <3>1, <3>2
  <2>2. \A r \in Rules : \A peers, S : r.type = "signedBy" => Of(r, peers, S) \in BOOLEAN
    OBVIOUS
  <2> HIDE DEF Of
  <2> QED
    BY <2>1, <2>2
<1>4. ASSUME NEW r \in Rules, NEW h \in [Sub[r] -> V]
      PROVE  /\ F[r][h] \in V
             /\ F[r][h] = [peers \in SUBSET EndorserPeers |->
                             Of(r, peers, {i \in DOMAIN r.rules : h[r.rules[i]][peers]})]
  <2>1. F[r][h] = [peers \in SUBSET EndorserPeers |->
                     Of(r, peers, {i \in DOMAIN r.rules : h[r.rules[i]][peers]})]
    <3> HIDE DEF Of, Sub, V
    <3> QED
      OBVIOUS
  <2> HIDE DEF Of, F
  <2> QED
    BY <1>3, <2>1
<1>5. PICK f \in [Rules -> V] : \A r \in Rules : f[r] = F[r][[q \in Sub[r] |-> f[q]]]
  <2> HIDE DEF V, Sub, F
  <2>1. Definable(Rules, V, Sub, F)
    BY <1>1, <1>2, <1>4 DEF Definable
  <2>2. PICK f : DefinedBy(f, Rules, V, Sub, F)
    BY <2>1, RecursiveFunction
  <2> QED
    BY <2>2 DEF DefinedBy
<1>6. ASSUME NEW r \in Rules
      PROVE  f[r] = [peers \in SUBSET EndorserPeers |->
                       Of(r, peers, {i \in DOMAIN r.rules : f[r.rules[i]][peers]})]
  <2> DEFINE h == [q \in Sub[r] |-> f[q]]
  <2>1. h \in [Sub[r] -> V]
    <3> HIDE DEF V, Sub, F
    <3> QED
      BY <1>1, <1>5
  <2>2. f[r] = [peers \in SUBSET EndorserPeers |->
                  Of(r, peers, {i \in DOMAIN r.rules : h[r.rules[i]][peers]})]
    <3>1. f[r] = F[r][h]
      <4> HIDE DEF F, Sub
      <4> QED
        BY <1>5
    <3> HIDE DEF h, Of, F, V
    <3> QED
      BY <1>4, <2>1, <3>1
  <2>3. CASE r.type = "signedBy"
    <3>1. \A peers, S, T : Of(r, peers, S) = Of(r, peers, T)
      BY <2>3
    <3> HIDE DEF Of, h
    <3> QED
      BY <2>2, <3>1
  <2>4. CASE r.type # "signedBy"
    <3>1. \A i \in DOMAIN r.rules : r.rules[i] \in Sub[r]
      BY <1>1, <2>4, RuleParts
    <3>2. \A i \in DOMAIN r.rules : h[r.rules[i]] = f[r.rules[i]]
      <4> HIDE DEF Sub
      <4> QED
        BY <3>1
    <3>3. \A peers : {i \in DOMAIN r.rules : h[r.rules[i]][peers]}
                       = {i \in DOMAIN r.rules : f[r.rules[i]][peers]}
      <4> HIDE DEF h
      <4> QED
        BY <3>2
    <3> HIDE DEF h, Of
    <3> QED
      BY <2>2, <3>3
  <2> QED
    BY <2>3, <2>4
<1>7. f = E(f)
  <2> HIDE DEF Of
  <2> QED
    BY <1>5, <1>6
<1>8. Selections!Satisfied = CHOOSE g : g = E(g)
  BY DEF Selections!Satisfied
<1>9. Selections!Satisfied = E(Selections!Satisfied)
  <2> HIDE DEF E
  <2> QED
    BY <1>7, <1>8
<1> QED
  <2> DEFINE G == Selections!Satisfied
  <2>1. G = E(G)
    BY <1>9
  <2> HIDE DEF G, Of
  <2>2. \A r \in Rules, peers \in SUBSET EndorserPeers :
          G[r][peers] = Of(r, peers, {i \in DOMAIN r.rules : G[r.rules[i]][peers]})
    <3>1. ASSUME NEW r \in Rules
          PROVE  G[r] = [peers \in SUBSET EndorserPeers |->
                           Of(r, peers, {i \in DOMAIN r.rules : G[r.rules[i]][peers]})]
      BY <2>1
    <3> QED
      BY <3>1
  <2>3. ASSUME NEW r \in Rules, NEW peers \in SUBSET EndorserPeers
        PROVE  G[r][peers] \in BOOLEAN
    <3> DEFINE S == {i \in DOMAIN r.rules : G[r.rules[i]][peers]}
    <3>1. S \in SUBSET (DOMAIN r.rules)
      OBVIOUS
    <3>2. G[r][peers] = Of(r, peers, S)
      BY <2>2
    <3> HIDE DEF S
    <3> QED
      BY <1>3, <3>1, <3>2
  <2> QED
    BY <2>2, <2>3 DEF G, Of

\* A finite set has a subset of every size up to its own.
LEMMA SubsetOfSize ==
  ASSUME NEW S, IsFiniteSet(S), NEW n \in Nat, n <= Cardinality(S)
  PROVE  \E T \in SUBSET S : Cardinality(T) = n
<1> DEFINE Sizes == {k \in Nat : k >= n /\ \E T \in SUBSET S : Cardinality(T) = k}
<1>1. Cardinality(S) \in Nat
  BY FS_CardinalityType
<1>2. Cardinality(S) \in Sizes /\ Sizes \subseteq Nat
  BY <1>1
<1>3. PICK k \in Sizes : \A j \in Sizes : k <= j
  <2> HIDE DEF Sizes
  <2> QED
    BY <1>2, LeastNatural
<1>4. PICK T \in SUBSET S : Cardinality(T) = k
  OBVIOUS
<1>5. IsFiniteSet(T)
  BY FS_Subset
<1>6. CASE k = n
  BY <1>4, <1>6
<1>7. CASE k # n
  <2>1. k > n /\ k \in Nat
    BY <1>7
  <2>2. T # {}
    BY <1>4, <2>1, FS_EmptySet
  <2>3. PICK x \in T : TRUE
    BY <2>2
  <2>4. Cardinality(T \ {x}) = k - 1
    BY <1>4, <1>5, <2>3, FS_RemoveElement
  <2>5. T \ {x} \in SUBSET S /\ k - 1 \in Nat /\ k - 1 >= n
    BY <2>1
  <2>6. k - 1 \in Sizes
    BY <2>4, <2>5
  <2> QED
    BY <1>3, <2>1, <2>6
<1> QED
  BY <1>6, <1>7

Covered(orgs, peers) ==
  \A o \in orgs : \E p \in peers : o \in {Selections!AnyMSP, OrganizationOf(p)}

\* The groups of organizations that a rule is expanded to are those that do.
GroupsDo(r) ==
  \A peers \in SUBSET EndorserPeers :
    /\ \A orgs \in Selections!OrgGroups[r] :
         Covered(orgs, peers) => Selections!Satisfied[r][peers]
    /\ peers # {} /\ Selections!Satisfied[r][peers] =>
         \E orgs \in Selections!OrgGroups[r] : Covered(orgs, peers)

\* If the groups of the parts of a rule do, those of the rule do.
LEMMA GroupsDoOfParts ==
  ASSUME Selections!SelectionAssumption, NEW r \in Rules,
         \A q \in Selections!Parts(r) : GroupsDo(q)
  PROVE  GroupsDo(r)
<1> SUFFICES ASSUME NEW peers \in SUBSET EndorserPeers
             PROVE  /\ \A orgs \in Selections!OrgGroups[r] :
                         Covered(orgs, peers) => Selections!Satisfied[r][peers]
                    /\ peers # {} /\ Selections!Satisfied[r][peers] =>
                         \E orgs \in Selections!OrgGroups[r] : Covered(orgs, peers)
  BY DEF GroupsDo
<1> DEFINE T == {i \in DOMAIN r.rules : Selections!Satisfied[r.rules[i]][peers]}
<1>1. CASE r.type = "signedBy"
  <2>1. Selections!OrgGroups[r] = {{r.msp}} /\ r.msp # Selections!AnyMSP
    BY <1>1, OrgGroupsAre, RuleParts
  <2>2. Selections!Satisfied[r][peers] <=> \E p \in peers : OrganizationOf(p) = r.msp
    BY <1>1, SatisfiedIs
  <2> QED
    BY <2>1, <2>2 DEF Covered
<1>2. CASE r.type # "signedBy"
  <2>1. /\ r.n \in Nat /\ DOMAIN r.rules = 1 .. Len(r.rules) /\ Len(r.rules) \in Nat
        /\ \A i \in DOMAIN r.rules : GroupsDo(r.rules[i]) /\ r.rules[i] \in Rules
    BY <1>2, RuleParts
  <2>2. Selections!Satisfied[r][peers] <=> Cardinality(T) >= r.n
    BY <1>2, SatisfiedIs, SelectionCounts
  <2>3. T \subseteq 1 .. Len(r.rules)
    BY <2>1
  <2> HIDE DEF T
  <2>4. IsFiniteSet(T) /\ Cardinality(T) \in Nat
    <3>1. 1 \in Int /\ Len(r.rules) \in Int
      BY <2>1
    <3>2. IsFiniteSet(1 .. Len(r.rules))
      BY <3>1, FS_Interval
    <3>3. IsFiniteSet(T)
      BY <2>3, <3>2, FS_Subset
    <3> QED
      BY <3>3, FS_CardinalityType
  <2>5. CASE r.n = 0
    <3>1. Selections!OrgGroups[r] = {{Selections!AnyMSP}}
      BY <1>2, <2>5, OrgGroupsAre
    <3>2. Selections!Satisfied[r][peers]
      BY <2>2, <2>4, <2>5
    <3> QED
      BY <3>1, <3>2 DEF Covered
  <2>6. CASE r.n # 0
    <3> DEFINE D == DOMAIN r.rules
               c == [i \in D |-> Selections!OrgGroups[r.rules[i]]]
    <3>1. DOMAIN c = D /\ \A i \in D : c[i] = Selections!OrgGroups[r.rules[i]]
      OBVIOUS
    <3>2. Selections!OrgGroups[r] = Selections!Nof(r.n, c)
      BY <1>2, <2>6, OrgGroupsAre
    <3> HIDE DEF c
    <3>3. ASSUME NEW orgs \in Selections!OrgGroups[r], Covered(orgs, peers)
          PROVE  Selections!Satisfied[r][peers]
      <4>1. PICK I, g :
              /\ I \in SUBSET D
              /\ Cardinality(I) = r.n /\ \A i \in I : g[i] \in c[i]
              /\ orgs = UNION {g[i] : i \in I}
        BY <3>1, <3>2, NofIs
      <4>2. ASSUME NEW i \in I
            PROVE  i \in T
        <5>0. i \in D
          BY <4>1
        <5>1. g[i] \in Selections!OrgGroups[r.rules[i]] /\ g[i] \subseteq orgs
          BY <3>1, <4>1, <5>0
        <5>2. Covered(g[i], peers)
          BY <3>3, <5>1 DEF Covered
        <5>3. GroupsDo(r.rules[i])
          BY <2>1, <5>0
        <5>4. Selections!Satisfied[r.rules[i]][peers]
          BY <5>1, <5>2, <5>3 DEF GroupsDo
        <5> QED
          BY <5>0, <5>4 DEF T
      <4>3. Cardinality(I) <= Cardinality(T)
        BY <2>4, <4>2, FS_Subset
      <4> QED
        BY <2>2, <4>1, <4>3
    <3>4. ASSUME peers # {}, Selections!Satisfied[r][peers]
          PROVE  \E orgs \in Selections!OrgGroups[r] : Covered(orgs, peers)
      <4>1. PICK I \in SUBSET T : Cardinality(I) = r.n
        BY <2>1, <2>2, <2>4, <3>4, SubsetOfSize
      <4>2. I \subseteq D
        BY DEF T
      <4>3. \A i \in I : \E o \in c[i] : Covered(o, peers)
        <5> TAKE i \in I
        <5>1. Selections!Satisfied[r.rules[i]][peers]
          BY DEF T
        <5>2. GroupsDo(r.rules[i])
          BY <2>1, <4>2
        <5> QED
          BY <3>1, <3>4, <4>2, <5>1, <5>2 DEF GroupsDo
      <4> DEFINE g == [i \in I |-> CHOOSE o \in c[i] : Covered(o, peers)]
      <4>4. \A i \in I : g[i] \in c[i] /\ Covered(g[i], peers)
        BY <4>3
      <4>5. DOMAIN g = I /\ g = [i \in I |-> g[i]]
        OBVIOUS
      <4> HIDE DEF g
      <4>6. UNION {g[i] : i \in I} \in Selections!Nof(r.n, c)
        BY <3>1, <4>1, <4>2, <4>4, <4>5, NofIs
      <4>7. Covered(UNION {g[i] : i \in I}, peers)
        BY <4>4 DEF Covered
      <4> QED
        BY <3>2, <4>6, <4>7
    <3> QED
      BY <3>3, <3>4
  <2> QED
    BY <2>5, <2>6
<1> QED
  BY <1>1, <1>2

\* So the groups of every rule do.
LEMMA GroupsDoAll ==
  ASSUME Selections!SelectionAssumption
  PROVE  \A r \in Rules : GroupsDo(r)
<1> DEFINE S == {r \in Rules : ~GroupsDo(r)}
<1> SUFFICES ASSUME S # {} PROVE FALSE
  OBVIOUS
<1>1. PICK r \in S : Selections!Parts(r) \cap S = {}
  <2>1. S \in SUBSET Rules
    OBVIOUS
  <2> HIDE DEF S
  <2> QED
    BY <2>1, RulesEnd
<1>2. \A q \in Selections!Parts(r) : GroupsDo(q)
  BY <1>1, RuleParts
<1> QED
  BY <1>2, GroupsDoOfParts

\* A group is never without an organization.
LEMMA GroupsNotEmpty ==
  ASSUME Selections!SelectionAssumption
  PROVE  \A r \in Rules : {} \notin Selections!OrgGroups[r]
<1> DEFINE S == {r \in Rules : {} \in Selections!OrgGroups[r]}
<1> SUFFICES ASSUME S # {} PROVE FALSE
  OBVIOUS
<1>1. PICK r \in S : Selections!Parts(r) \cap S = {}
  <2>1. S \in SUBSET Rules
    OBVIOUS
  <2> HIDE DEF S
  <2> QED
    BY <2>1, RulesEnd
<1>2. CASE r.type = "signedBy" \/ r.n = 0
  <2>1. \E x : Selections!OrgGroups[r] = {{x}}
    BY <1>2, OrgGroupsAre
  <2>2. \A x : {} \notin {{x}}
    OBVIOUS
  <2> QED
    BY <2>1, <2>2
<1>3. CASE r.type # "signedBy" /\ r.n # 0
  <2> DEFINE c == [i \in DOMAIN r.rules |-> Selections!OrgGroups[r.rules[i]]]
  <2>1. {} \in Selections!Nof(r.n, c)
    BY <1>3, OrgGroupsAre
  <2>2. \A i \in DOMAIN r.rules : {} \notin c[i]
    BY <1>1, <1>3, RuleParts
  <2>3. DOMAIN c = DOMAIN r.rules
    OBVIOUS
  <2> HIDE DEF c
  <2>4. PICK I, g :
          /\ I \in SUBSET DOMAIN r.rules
          /\ Cardinality(I) = r.n /\ \A i \in I : g[i] \in c[i]
          /\ {} = UNION {g[i] : i \in I}
    BY <2>1, <2>3, NofIs
  <2>5. I = {}
    <3> SUFFICES ASSUME NEW i \in I PROVE FALSE
      OBVIOUS
    <3>1. g[i] # {}
      <4>1. g[i] \in c[i] /\ {} \notin c[i]
        BY <2>2, <2>4
      <4> QED
        BY <4>1, Zenon
    <3>2. PICK o : o \in g[i]
      BY <3>1
    <3>3. o \in UNION {g[j] : j \in I}
      BY <3>2
    <3> QED
      BY <2>4, <3>3
  <2> QED
    BY <1>3, <2>4, <2>5, FS_EmptySet
<1> QED
  BY <1>2, <1>3

\* What the resolver names for a number of policies together does for each of them, and
\* it names nobody only if all together do not.
THEOREM ResolutionsDo ==
  ASSUME Selections!SelectionAssumption, NEW ccs, NEW policies,
         ccs # {}, DOMAIN policies = ccs, \A c \in ccs : policies[c] \in Rules,
         NEW peers \in SUBSET EndorserPeers
  PROVE  /\ \A g \in Selections!Resolutions(policies, peers) :
              /\ g # {} /\ g \subseteq peers
              /\ \A c \in ccs : Selections!Satisfied[policies[c]][g]
         /\ Selections!Resolutions(policies, peers) = {} =>
              peers = {} \/ \E c \in ccs : ~Selections!Satisfied[policies[c]][peers]
<1> DEFINE ch == [c \in ccs |-> Selections!OrgGroups[policies[c]]]
<1>1. DOMAIN ch = ccs /\ \A c \in ccs : ch[c] = Selections!OrgGroups[policies[c]]
  OBVIOUS
<1>2. Selections!Resolutions(policies, peers) =
        UNION {Selections!PeerGroups(orgs, peers) : orgs \in Selections!Joint(ch)}
  BY DEF Selections!Resolutions
<1> HIDE DEF ch
<1>3. \A S : S \in Selections!Joint(ch) <=>
        \E g \in [ccs -> UNION Selections!Range(ch)] :
          /\ \A c \in ccs : g[c] \in ch[c]
          /\ S = UNION Selections!Range(g)
  BY <1>1 DEF Selections!Joint
<1>4. \A S, orgs : S \in Selections!PeerGroups(orgs, peers) <=>
        \E f \in [orgs -> peers] :
          /\ \A o \in orgs : o \in {Selections!AnyMSP, OrganizationOf(f[o])}
          /\ S = Selections!Range(f)
  BY DEF Selections!PeerGroups
<1>5. ASSUME NEW S \in Selections!Resolutions(policies, peers)
      PROVE  /\ S # {} /\ S \subseteq peers
             /\ \A c \in ccs : Selections!Satisfied[policies[c]][S]
  <2>1. PICK orgs \in Selections!Joint(ch) : S \in Selections!PeerGroups(orgs, peers)
    BY <1>2
  <2>2. PICK g \in [ccs -> UNION Selections!Range(ch)] :
               /\ \A c \in ccs : g[c] \in ch[c]
               /\ orgs = UNION Selections!Range(g)
    BY <1>3
  <2>3. PICK f \in [orgs -> peers] :
               /\ \A o \in orgs : o \in {Selections!AnyMSP, OrganizationOf(f[o])}
               /\ S = Selections!Range(f)
    BY <1>4, <2>1
  <2>4. S \subseteq peers
    BY <2>3, RangeIs
  <2>5. Covered(orgs, S)
    BY <2>3, RangeIs DEF Covered
  <2>6. ASSUME NEW c \in ccs
        PROVE  Selections!Satisfied[policies[c]][S]
    <3>1. g[c] \in Selections!OrgGroups[policies[c]] /\ g[c] \subseteq orgs
      BY <1>1, <2>2, RangeIs
    <3>2. Covered(g[c], S)
      BY <2>5, <3>1 DEF Covered
    <3>3. S \in SUBSET EndorserPeers
      BY <2>4
    <3>4. GroupsDo(policies[c])
      BY GroupsDoAll
    <3> QED
      BY <3>1, <3>2, <3>3, <3>4 DEF GroupsDo
  <2>7. S # {}
    <3>1. PICK c \in ccs : TRUE
      OBVIOUS
    <3>2. g[c] # {}
      <4>1. g[c] \in Selections!OrgGroups[policies[c]]
        BY <1>1, <2>2
      <4>2. policies[c] \in Rules
        OBVIOUS
      <4> QED
        BY <4>1, <4>2, GroupsNotEmpty
    <3>3. g[c] \in Selections!Range(g)
      <4>1. c \in DOMAIN g
        BY <2>2
      <4> QED
        BY <4>1, RangeIs
    <3>4. PICK o : o \in g[c]
      BY <3>2
    <3>5. o \in orgs
      BY <2>2, <3>3, <3>4
    <3>6. f[o] \in Selections!Range(f)
      <4>1. o \in DOMAIN f
        BY <2>3, <3>5
      <4> QED
        BY <4>1, RangeIs
    <3> QED
      BY <2>3, <3>6
  <2> QED
    BY <2>4, <2>6, <2>7
<1>6. ASSUME Selections!Resolutions(policies, peers) = {}, peers # {},
             \A c \in ccs : Selections!Satisfied[policies[c]][peers]
      PROVE  FALSE
  <2>1. \A c \in ccs : \E o \in ch[c] : Covered(o, peers)
    <3> TAKE c \in ccs
    <3>1. GroupsDo(policies[c])
      BY GroupsDoAll
    <3> QED
      BY <1>1, <1>6, <3>1 DEF GroupsDo
  <2> DEFINE g == [c \in ccs |-> CHOOSE o \in ch[c] : Covered(o, peers)]
  <2>2. \A c \in ccs : g[c] \in ch[c] /\ Covered(g[c], peers)
    BY <2>1
  <2>3. g \in [ccs -> UNION Selections!Range(ch)]
    <3>1. \A c \in ccs : g[c] \in UNION Selections!Range(ch)
      <4> HIDE DEF g
      <4> QED
        BY <1>1, <2>2, RangeIs
    <3>2. g = [c \in ccs |-> g[c]]
      OBVIOUS
    <3> HIDE DEF g
    <3> QED
      BY <3>1, <3>2
  <2> HIDE DEF g
  <2> DEFINE orgs == UNION Selections!Range(g)
  <2>4. orgs \in Selections!Joint(ch)
    BY <1>3, <2>2, <2>3
  <2>5. Covered(orgs, peers)
    BY <2>2, <2>3, RangeIs DEF Covered
  <2> HIDE DEF orgs
  <2> DEFINE f == [o \in orgs |-> CHOOSE p \in peers : o \in {Selections!AnyMSP, OrganizationOf(p)}]
  <2>6. \A o \in orgs : f[o] \in peers /\ o \in {Selections!AnyMSP, OrganizationOf(f[o])}
    BY <2>5 DEF Covered
  <2>7. f = [o \in orgs |-> f[o]]
    OBVIOUS
  <2> HIDE DEF f
  <2>8. f \in [orgs -> peers]
    BY <2>6, <2>7
  <2>9. Selections!Range(f) \in Selections!PeerGroups(orgs, peers)
    BY <1>4, <2>6, <2>8
  <2> QED
    BY <1>2, <1>6, <2>4, <2>9
<1> QED
  BY <1>5, <1>6

\* A finite set of natural numbers has a greatest one.
LEMMA GreatestOfFinite ==
  ASSUME NEW S, S \subseteq Nat, IsFiniteSet(S), S # {}
  PROVE  \E x \in S : \A y \in S : x >= y
<1> DEFINE Greatest(T) == \E x \in T : \A y \in T : x >= y
           Sizes == {k \in Nat : \E T \in SUBSET Nat :
                       /\ IsFiniteSet(T) /\ Cardinality(T) = k /\ T # {} /\ ~Greatest(T)}
<1> SUFFICES ASSUME ~Greatest(S) PROVE FALSE
  OBVIOUS
<1>1. Sizes \subseteq Nat /\ Cardinality(S) \in Sizes
  <2>1. Cardinality(S) \in Nat /\ S \in SUBSET Nat
    BY FS_CardinalityType
  <2> HIDE DEF Greatest
  <2> QED
    BY <2>1
<1>2. PICK k \in Sizes : \A j \in Sizes : k <= j
  <2> HIDE DEF Sizes
  <2> QED
    BY <1>1, LeastNatural
<1>3. PICK T \in SUBSET Nat :
        IsFiniteSet(T) /\ Cardinality(T) = k /\ T # {} /\ ~Greatest(T)
  <2> HIDE DEF Greatest
  <2> QED
    BY <1>2
<1>4. PICK x \in T : TRUE
  BY <1>3
<1> DEFINE U == T \ {x}
<1>5. IsFiniteSet(U) /\ Cardinality(U) = k - 1 /\ U \in SUBSET Nat
  BY <1>3, <1>4, FS_RemoveElement
<1>6. U # {}
  BY <1>3, <1>4
<1>7. Greatest(U)
  <2> SUFFICES ASSUME ~Greatest(U) PROVE FALSE
    OBVIOUS
  <2>1. k - 1 \in Nat
    BY <1>5, FS_CardinalityType
  <2>2. k - 1 \in Sizes
    <3> HIDE DEF Greatest, U
    <3> QED
      BY <1>5, <1>6, <2>1
  <2> QED
    BY <1>2, <2>1, <2>2
<1>8. PICK y \in U : \A z \in U : y >= z
  BY <1>7
<1>9. Greatest(T)
  <2>1. \A z \in T : z = x \/ z \in U
    OBVIOUS
  <2>2. CASE x >= y
    BY <1>3, <1>4, <1>8, <2>1, <2>2
  <2>3. CASE y >= x
    BY <1>3, <1>4, <1>8, <2>1, <2>3
  <2> QED
    BY <1>3, <1>4, <1>8, <2>2, <2>3
<1> QED
  BY <1>3, <1>9

\* What the constants of the selection are
LEMMA SelectionConstants ==
  ASSUME Selections!SelectionAssumption
  PROVE  /\ IsFiniteSet(EndorserPeers) /\ \A p \in EndorserPeers : HeightOf(p) \in Nat
         /\ LagThreshold \in Nat /\ Attempts \in Nat
         /\ Policies \subseteq Rules /\ PeerFilters \subseteq SUBSET EndorserPeers
         /\ \A d \in Descriptors : \A l \in d.layouts : \A x \in DOMAIN l :
              x \in DOMAIN d.groups /\ d.groups[x] \subseteq EndorserPeers /\ l[x] \in Nat
BY SelectionFinite DEF Selections!SelectionAssumption

\* The height below which a peer of a group lags behind is a number.
LEMMA CutOffType ==
  ASSUME Selections!SelectionAssumption, NEW group \in SUBSET EndorserPeers, group # {}
  PROVE  Selections!CutOff(group) \in Nat
<1> DEFINE S == {HeightOf(p) : p \in group}
           max == Selections!Max(S)
<1>1. S \subseteq Nat /\ S # {}
  BY SelectionConstants
<1>2. IsFiniteSet(S)
  <2> DEFINE f == [p \in group |-> HeightOf(p)]
  <2>1. f \in Surjection(group, S)
    BY DEF Surjection
  <2>2. IsFiniteSet(group)
    BY SelectionConstants, FS_Subset
  <2> HIDE DEF f, S
  <2> QED
    BY <2>1, <2>2, FS_Surjection
<1>3. max \in Nat
  <2> HIDE DEF S
  <2>1. \E x \in S : \A y \in S : x >= y
    BY <1>1, <1>2, GreatestOfFinite
  <2> QED
    BY <1>1, <2>1 DEF Selections!Max
<1>4. Selections!CutOff(group) = IF max <= LagThreshold THEN 0 ELSE max - LagThreshold
  BY DEF Selections!CutOff
<1> HIDE DEF max
<1> QED
  BY <1>3, <1>4, SelectionConstants

\* The endorsers of some peers fill a layout of a descriptor: they are enough of each
\* group, and who lags behind is not preferred to who does not.
FillsFor(d, usable, sorter, ps) ==
  /\ ps \subseteq usable
  /\ \E l \in d.layouts : \A x \in DOMAIN l :
       LET group == d.groups[x] \cap usable
           chosen == ps \cap group
       IN /\ Cardinality(chosen) >= l[x]
          /\ sorter = "height" /\ Cardinality(chosen) = l[x] =>
               \A p \in chosen, q \in group \ chosen :
                 HeightOf(p) < Selections!CutOff(group) => HeightOf(q) <= HeightOf(p)

\* The endorsers that are chosen by a layout fill it.
LEMMA EndorsersFill ==
  ASSUME Selections!SelectionAssumption,
         call.descriptor \in Descriptors \cup {Selections!NoDescriptor},
         world.discovered \in SUBSET EndorserPeers,
         NEW ps \in Selections!Endorsers
  PROVE  FillsFor(call.descriptor, world.discovered \cap call.filter, call.sorter, ps)
<1>1. PICK l \in call.descriptor.layouts :
        ps \in Selections!Fills(l, call.filter, call.sorter)
  BY DEF Selections!Endorsers
<1>2. call.descriptor \in Descriptors
  BY <1>1 DEF Selections!NoDescriptor
<1>3. PICK g \in [DOMAIN l -> SUBSET EndorserPeers] :
        /\ \A x \in DOMAIN l :
             g[x] \in Selections!First(Selections!Candidates(x, call.filter), l[x], call.sorter)
        /\ ps = UNION Selections!Range(g)
  BY <1>1 DEF Selections!Fills
<1> DEFINE usable == world.discovered \cap call.filter
           group(x) == call.descriptor.groups[x] \cap usable
<1>4. \A x : Selections!Candidates(x, call.filter) = group(x)
  BY DEF Selections!Candidates
<1>5. ASSUME NEW x \in DOMAIN l
      PROVE  /\ g[x] \subseteq group(x) /\ Cardinality(g[x]) = l[x]
             /\ call.sorter = "height" =>
                  \A p \in g[x], q \in group(x) \ g[x] :
                    Selections!Rank(p, group(x)) >= Selections!Rank(q, group(x))
  <2>1. g[x] \in Selections!First(group(x), l[x], call.sorter)
    BY <1>3, <1>4
  <2> HIDE DEF group
  <2> QED
    BY <2>1, SubsetsOfSize DEF Selections!First
<1>6. ps \subseteq usable
  BY <1>3, <1>5, RangeIs
<1>7. ASSUME NEW x \in DOMAIN l
      PROVE  LET chosen == ps \cap group(x)
             IN /\ Cardinality(chosen) >= l[x]
                /\ call.sorter = "height" /\ Cardinality(chosen) = l[x] =>
                     \A p \in chosen, q \in group(x) \ chosen :
                       HeightOf(p) < Selections!CutOff(group(x)) => HeightOf(q) <= HeightOf(p)
  <2> DEFINE G == group(x)
             chosen == ps \cap G
  <2>1. G \in SUBSET EndorserPeers
    OBVIOUS
  <2>2. g[x] \in SUBSET chosen
    BY <1>3, <1>5, RangeIs
  <2>3. /\ Cardinality(g[x]) = l[x]
        /\ call.sorter = "height" =>
             \A p \in g[x], q \in G \ g[x] :
               Selections!Rank(p, G) >= Selections!Rank(q, G)
    BY <1>5
  <2> HIDE DEF G, group
  <2>4. IsFiniteSet(chosen)
    <3>1. chosen \in SUBSET EndorserPeers
      BY <2>1
    <3> HIDE DEF chosen
    <3> QED
      BY <3>1, SelectionConstants, FS_Subset
  <2>5. Cardinality(chosen) >= l[x]
    <3> HIDE DEF chosen
    <3>1. Cardinality(g[x]) <= Cardinality(chosen) /\ Cardinality(chosen) \in Nat
      BY <2>2, <2>4, FS_Subset, FS_CardinalityType
    <3>2. l[x] \in Nat
      BY <1>2, SelectionConstants
    <3> QED
      BY <2>3, <3>1, <3>2
  <2>6. ASSUME call.sorter = "height", Cardinality(chosen) = l[x],
               NEW p \in chosen, NEW q \in G \ chosen,
               HeightOf(p) < Selections!CutOff(G)
        PROVE  HeightOf(q) <= HeightOf(p)
    <3>1. g[x] = chosen
      <4> HIDE DEF chosen
      <4> QED
        BY <2>2, <2>3, <2>4, <2>6, FS_Subset
    <3>2. Selections!Rank(p, G) >= Selections!Rank(q, G)
      BY <2>3, <2>6, <3>1
    <3>3. Selections!CutOff(G) \in Nat
      BY <2>1, CutOffType
    <3>4. HeightOf(p) \in Nat /\ HeightOf(q) \in Nat
      BY <2>1, SelectionConstants
    <3>5. /\ Selections!Rank(p, G) = HeightOf(p)
          /\ Selections!Rank(q, G) = IF HeightOf(q) >= Selections!CutOff(G)
                                     THEN Selections!CutOff(G) ELSE HeightOf(q)
      <4> HIDE DEF HeightOf
      <4> QED
        BY <2>6, <3>3, <3>4 DEF Selections!Rank
    <3> HIDE DEF HeightOf, chosen
    <3> QED
      BY <2>6, <3>2, <3>3, <3>4, <3>5
  <2> HIDE DEF chosen, HeightOf
  <2>7. /\ Cardinality(chosen) >= l[x]
        /\ call.sorter = "height" /\ Cardinality(chosen) = l[x] =>
             \A p \in chosen, q \in G \ chosen :
               HeightOf(p) < Selections!CutOff(G) => HeightOf(q) <= HeightOf(p)
    BY <2>5, <2>6
  <2> QED
    BY <2>7 DEF chosen, G
<1> QED
  BY <1>6, <1>7 DEF FillsFor

\* The result of the dynamic service does what the policies ask for.
DoesFor(c) ==
  LET usable == c.seen \cap c.filter
  IN /\ c.peers \subseteq usable
     /\ IF c.peers = {}
        THEN usable = {} \/ \E k \in c.chaincodes : ~Selections!Satisfied[c.policies[k]][usable]
        ELSE \A k \in c.chaincodes : Selections!Satisfied[c.policies[k]][c.peers]

SelectionCall(c) ==
  /\ c = [op |-> c.op, at |-> c.at, chaincodes |-> c.chaincodes, filter |-> c.filter,
          sorter |-> c.sorter, asked |-> c.asked, policies |-> c.policies,
          descriptor |-> c.descriptor, transient |-> c.transient, tries |-> c.tries,
          seen |-> c.seen, peers |-> c.peers, result |-> c.result]
  /\ c.op \in {"none", "dynamic", "fabric"}
  /\ c.at \in {"idle", "policies", "store", "resolve", "query", "select"}
  /\ c.result \in {"none", "ok", "error", "panic"}
  /\ c.filter \in SUBSET EndorserPeers /\ c.seen \in SUBSET EndorserPeers /\ c.peers \in SUBSET EndorserPeers
  /\ c.tries \in 0 .. Attempts
  /\ c.descriptor \in Descriptors \cup {Selections!NoDescriptor}

\* What a call knows where it is
SelectionKnows(c) ==
  /\ c.at # "idle" => c.result = "none"
  /\ c.at \in {"policies", "store", "resolve"} => c.op = "dynamic"
  /\ c.at \in {"query", "select"} => c.op = "fabric"
  /\ c.op = "dynamic" => c.chaincodes \in Selections!Keys
  /\ c.at = "policies" =>
       c.asked \subseteq c.chaincodes /\ c.policies \in [c.chaincodes \ c.asked -> Policies]
  /\ c.at \in {"store", "resolve"} => c.policies \in [c.chaincodes -> Policies]
SelectionTells(c) ==
  /\ c.op = "dynamic" /\ c.result = "ok" => DoesFor(c)
  /\ c.op = "fabric" /\ c.result = "ok" =>
       FillsFor(c.descriptor, c.seen \cap c.filter, c.sorter, c.peers)

SelectionWorld(w) ==
  /\ w = [policy |-> w.policy, descriptor |-> w.descriptor, discovered |-> w.discovered,
          resolvers |-> w.resolvers, response |-> w.response, calls |-> w.calls,
          changes |-> w.changes, faults |-> w.faults]
  /\ w.policy \in [Chaincodes -> Policies] /\ w.descriptor \in Descriptors
  /\ w.discovered \in SUBSET EndorserPeers
  /\ DOMAIN w.resolvers = Selections!Keys /\ w.resolvers = [k \in Selections!Keys |-> w.resolvers[k]]
  /\ \A k \in Selections!Keys :
       w.resolvers[k] # Selections!NoResolver => w.resolvers[k] \in [k -> Policies]
  /\ w.response \in Descriptors \cup {Selections!NoDescriptor}

SelectionCalls == SelectionCall(call) /\ SelectionKnows(call) /\ SelectionTells(call)
SelectionsInv == SelectionCalls /\ SelectionWorld(world)

\* The start of the selection
LEMMA SelectionsStart ==
  ASSUME Selections!SelectionAssumption, Selections!Init
  PROVE  SelectionsInv
<1>1. call = Selections!Idle
  BY DEF Selections!Init
<1>2. SelectionCall(call)
  BY <1>1, SelectionConstants DEF Selections!Idle, SelectionCall
<1>3. SelectionKnows(call) /\ SelectionTells(call)
  BY <1>1 DEF Selections!Idle, SelectionKnows, SelectionTells
<1>4. PICK p \in [Chaincodes -> Policies], d \in Descriptors, ps \in SUBSET EndorserPeers :
        world = [policy |-> p, descriptor |-> d, discovered |-> ps,
                 resolvers |-> [k \in Selections!Keys |-> Selections!NoResolver],
                 response |-> Selections!NoDescriptor, calls |-> 0, changes |-> 0, faults |-> 0]
  BY DEF Selections!Init
<1>5. SelectionWorld(world)
  BY <1>4 DEF SelectionWorld
<1> QED
  BY <1>2, <1>3, <1>5 DEF SelectionsInv, SelectionCalls

\* A call that returns
LEMMA SelectionReturns ==
  ASSUME Selections!SelectionAssumption, SelectionsInv, call.at # "idle",
         NEW r \in {"ok", "error", "panic"}, NEW ps \in SUBSET EndorserPeers,
         call' = Selections!Returns(r, ps),
         r = "ok" => LET usable == world.discovered \cap call.filter
                     IN IF call.op = "fabric"
                        THEN FillsFor(call.descriptor, usable, call.sorter, ps)
                        ELSE /\ ps \subseteq usable
                             /\ IF ps = {}
                                THEN usable = {} \/ \E k \in call.chaincodes :
                                       ~Selections!Satisfied[call.policies[k]][usable]
                                ELSE \A k \in call.chaincodes :
                                       Selections!Satisfied[call.policies[k]][ps]
  PROVE  SelectionCalls'
<1>0. SelectionCall(call) /\ SelectionKnows(call) /\ world.discovered \in SUBSET EndorserPeers
  BY DEF SelectionsInv, SelectionCalls, SelectionWorld
<1> DEFINE c == [op |-> call.op, at |-> "idle", chaincodes |-> call.chaincodes,
                 filter |-> call.filter, sorter |-> call.sorter, asked |-> {},
                 policies |-> call.policies, descriptor |-> call.descriptor,
                 transient |-> FALSE, tries |-> 0, seen |-> world.discovered, peers |-> ps,
                 result |-> r]
<1>1. call' = c
  <2>1. call = [op |-> call.op, at |-> call.at, chaincodes |-> call.chaincodes,
                filter |-> call.filter, sorter |-> call.sorter, asked |-> call.asked,
                policies |-> call.policies, descriptor |-> call.descriptor,
                transient |-> call.transient, tries |-> call.tries, seen |-> call.seen,
                peers |-> call.peers, result |-> call.result]
    BY <1>0 DEF SelectionCall
  <2> QED
    BY <2>1 DEF Selections!Returns
<1>2. PICK k : k = c
  OBVIOUS
<1>3. /\ k.op = call.op /\ k.at = "idle" /\ k.chaincodes = call.chaincodes
      /\ k.filter = call.filter /\ k.sorter = call.sorter /\ k.policies = call.policies
      /\ k.descriptor = call.descriptor /\ k.tries = 0 /\ k.seen = world.discovered
      /\ k.peers = ps /\ k.result = r
  BY <1>2
<1>4. SelectionCall(k)
  <2>1. k = [op |-> k.op, at |-> k.at, chaincodes |-> k.chaincodes, filter |-> k.filter,
             sorter |-> k.sorter, asked |-> k.asked, policies |-> k.policies,
             descriptor |-> k.descriptor, transient |-> k.transient, tries |-> k.tries,
             seen |-> k.seen, peers |-> k.peers, result |-> k.result]
    BY <1>2
  <2>2. 0 \in 0 .. Attempts
    BY SelectionConstants
  <2> HIDE DEF c
  <2> QED
    BY <1>0, <1>3, <2>1, <2>2 DEF SelectionCall
<1> HIDE DEF c
<1>5. SelectionKnows(k)
  BY <1>0, <1>3 DEF SelectionKnows
<1>6. SelectionTells(k)
  <2>1. CASE k.op = "fabric" /\ k.result = "ok"
    BY <1>3, <2>1 DEF SelectionTells
  <2>2. CASE k.op = "dynamic" /\ k.result = "ok"
    BY <1>3, <2>2 DEF SelectionTells, DoesFor
  <2>3. CASE ~(k.op \in {"fabric", "dynamic"} /\ k.result = "ok")
    BY <2>3 DEF SelectionTells
  <2> QED
    BY <2>1, <2>2, <2>3
<1>7. call' = k
  BY <1>1, <1>2
<1> QED
  <2>1. SelectionCall(call')
    BY <1>4, <1>7
  <2>2. SelectionKnows(call')
    BY <1>5, <1>7
  <2>3. SelectionTells(call')
    BY <1>6, <1>7
  <2> QED
    BY <2>1, <2>2, <2>3 DEF SelectionCalls, SelectionCall, SelectionKnows, SelectionTells, DoesFor, FillsFor

SelectionRecord(op, at, ccs, filter, sorter, asked, policies, d, transient, tries, seen, ps, r) ==
  [op |-> op, at |-> at, chaincodes |-> ccs, filter |-> filter, sorter |-> sorter,
   asked |-> asked, policies |-> policies, descriptor |-> d, transient |-> transient,
   tries |-> tries, seen |-> seen, peers |-> ps, result |-> r]

\* A call on its way, wherever it is
LEMMA SelectionGoesOn ==
  ASSUME NEW op \in {"dynamic", "fabric"},
         NEW at \in {"policies", "store", "resolve", "query", "select"},
         NEW ccs, NEW filter \in SUBSET EndorserPeers, NEW sorter, NEW asked, NEW policies,
         NEW d \in Descriptors \cup {Selections!NoDescriptor}, NEW transient,
         NEW tries \in 0 .. Attempts, NEW seen \in SUBSET EndorserPeers, NEW ps \in SUBSET EndorserPeers,
         call' = SelectionRecord(op, at, ccs, filter, sorter, asked, policies, d, transient,
                                 tries, seen, ps, "none"),
         op = "dynamic" => ccs \in Selections!Keys /\ at \in {"policies", "store", "resolve"},
         op = "fabric" => at \in {"query", "select"},
         at = "policies" => asked \subseteq ccs /\ policies \in [ccs \ asked -> Policies],
         at \in {"store", "resolve"} => policies \in [ccs -> Policies]
  PROVE  SelectionCalls'
<1>1. PICK k : k = SelectionRecord(op, at, ccs, filter, sorter, asked, policies, d, transient,
                                   tries, seen, ps, "none")
  OBVIOUS
<1>2. /\ k = SelectionRecord(k.op, k.at, k.chaincodes, k.filter, k.sorter, k.asked, k.policies,
                             k.descriptor, k.transient, k.tries, k.seen, k.peers, k.result)
      /\ k.op = op /\ k.at = at /\ k.chaincodes = ccs /\ k.filter = filter /\ k.asked = asked
      /\ k.policies = policies /\ k.descriptor = d /\ k.tries = tries /\ k.seen = seen
      /\ k.peers = ps /\ k.result = "none"
  BY <1>1 DEF SelectionRecord
<1>3. SelectionCall(k)
  BY <1>2 DEF SelectionCall, SelectionRecord
<1>4. SelectionKnows(k)
  BY <1>2 DEF SelectionKnows
<1>5. SelectionTells(k)
  BY <1>2 DEF SelectionTells
<1>6. call' = k
  BY <1>1
<1> QED
  <2>1. SelectionCall(call') /\ SelectionKnows(call') /\ SelectionTells(call')
    BY <1>3, <1>4, <1>5, <1>6
  <2> QED
    BY <2>1 DEF SelectionCalls, SelectionCall, SelectionKnows, SelectionTells, DoesFor, FillsFor

\* The world after something of it changed
LEMMA SelectionWorldIs ==
  ASSUME NEW p \in [Chaincodes -> Policies], NEW d \in Descriptors, NEW ps \in SUBSET EndorserPeers,
         NEW rs, DOMAIN rs = Selections!Keys, rs = [k \in Selections!Keys |-> rs[k]],
         \A k \in Selections!Keys : rs[k] # Selections!NoResolver => rs[k] \in [k -> Policies],
         NEW r \in Descriptors \cup {Selections!NoDescriptor}, NEW a, NEW b, NEW e, NEW w,
         w = [policy |-> p, descriptor |-> d, discovered |-> ps, resolvers |-> rs,
              response |-> r, calls |-> a, changes |-> b, faults |-> e]
  PROVE  SelectionWorld(w)
<1>1. /\ w = [policy |-> w.policy, descriptor |-> w.descriptor, discovered |-> w.discovered,
              resolvers |-> w.resolvers, response |-> w.response, calls |-> w.calls,
              changes |-> w.changes, faults |-> w.faults]
      /\ w.policy = p /\ w.descriptor = d /\ w.discovered = ps /\ w.resolvers = rs
      /\ w.response = r
  OBVIOUS
<1> QED
  BY <1>1 DEF SelectionWorld

\* A new state of the world keeps its shape.
LEMMA SelectionWorldWith ==
  ASSUME NEW p \in [Chaincodes -> Policies], NEW d \in Descriptors, NEW ps \in SUBSET EndorserPeers,
         NEW rs, DOMAIN rs = Selections!Keys, rs = [k \in Selections!Keys |-> rs[k]],
         \A k \in Selections!Keys : rs[k] # Selections!NoResolver => rs[k] \in [k -> Policies],
         NEW r \in Descriptors \cup {Selections!NoDescriptor}, NEW a, NEW b, NEW e,
         world' = [policy |-> p, descriptor |-> d, discovered |-> ps, resolvers |-> rs,
                   response |-> r, calls |-> a, changes |-> b, faults |-> e]
  PROVE  SelectionWorld(world)'
<1>1. PICK w : w = [policy |-> p, descriptor |-> d, discovered |-> ps, resolvers |-> rs,
                    response |-> r, calls |-> a, changes |-> b, faults |-> e]
  OBVIOUS
<1>2. SelectionWorld(w)
  BY <1>1, SelectionWorldIs
<1>3. SelectionWorld(world')
  BY <1>1, <1>2
<1> QED
  BY <1>3 DEF SelectionWorld

\* What the two are, as they are
LEMMA SelectionState ==
  ASSUME SelectionsInv
  PROVE  /\ call = SelectionRecord(call.op, call.at, call.chaincodes, call.filter, call.sorter,
                     call.asked, call.policies, call.descriptor, call.transient, call.tries,
                     call.seen, call.peers, call.result)
         /\ world = [policy |-> world.policy, descriptor |-> world.descriptor,
                     discovered |-> world.discovered, resolvers |-> world.resolvers,
                     response |-> world.response, calls |-> world.calls,
                     changes |-> world.changes, faults |-> world.faults]
BY DEF SelectionsInv, SelectionCalls, SelectionCall, SelectionWorld, SelectionRecord

\* What is known of a call
LEMMA SelectionFacts ==
  ASSUME SelectionsInv
  PROVE  /\ call.filter \in SUBSET EndorserPeers /\ call.seen \in SUBSET EndorserPeers
         /\ call.peers \in SUBSET EndorserPeers /\ call.tries \in 0 .. Attempts
         /\ call.descriptor \in Descriptors \cup {Selections!NoDescriptor}
         /\ call.at # "idle" => call.result = "none"
         /\ call.op = "dynamic" => call.chaincodes \in Selections!Keys
         /\ call.at = "policies" =>
              /\ call.asked \subseteq call.chaincodes
              /\ call.policies \in [call.chaincodes \ call.asked -> Policies]
         /\ call.at \in {"store", "resolve"} => call.policies \in [call.chaincodes -> Policies]
         /\ world.policy \in [Chaincodes -> Policies] /\ world.descriptor \in Descriptors
         /\ world.discovered \in SUBSET EndorserPeers
         /\ DOMAIN world.resolvers = Selections!Keys
         /\ world.resolvers = [k \in Selections!Keys |-> world.resolvers[k]]
         /\ \A k \in Selections!Keys :
              world.resolvers[k] # Selections!NoResolver => world.resolvers[k] \in [k -> Policies]
         /\ world.response \in Descriptors \cup {Selections!NoDescriptor}
BY DEF SelectionsInv, SelectionCalls, SelectionCall, SelectionKnows, SelectionWorld

\* Faults, calls and other counters say nothing about the rest.
LEMMA SelectionKept ==
  ASSUME SelectionsInv
  PROVE  /\ UNCHANGED world => SelectionWorld(world)'
         /\ UNCHANGED call => SelectionCalls'
         /\ world' = [world EXCEPT !.calls = @ + 1] => SelectionWorld(world)'
         /\ world' = [world EXCEPT !.faults = @ + 1] => SelectionWorld(world)'
<1>1. ASSUME UNCHANGED world
      PROVE  SelectionWorld(world)'
  BY <1>1 DEF SelectionWorld, SelectionsInv
<1>2. ASSUME UNCHANGED call
      PROVE  SelectionCalls'
  <2>1. PICK k : k = call
    OBVIOUS
  <2>2. SelectionCall(k) /\ SelectionKnows(k) /\ SelectionTells(k)
    BY <2>1 DEF SelectionsInv, SelectionCalls
  <2>3. SelectionCall(call') /\ SelectionKnows(call') /\ SelectionTells(call')
    BY <1>2, <2>1, <2>2
  <2> QED
    BY <2>3 DEF SelectionCalls, SelectionCall, SelectionKnows, SelectionTells, DoesFor, FillsFor
<1>3. ASSUME NEW a, NEW e,
             world' = [policy |-> world.policy, descriptor |-> world.descriptor,
                       discovered |-> world.discovered, resolvers |-> world.resolvers,
                       response |-> world.response, calls |-> a,
                       changes |-> world.changes, faults |-> e]
      PROVE  SelectionWorld(world)'
  <2>1. PICK p, d, ps, rs, r, b :
          /\ p = world.policy /\ d = world.descriptor /\ ps = world.discovered
          /\ rs = world.resolvers /\ r = world.response /\ b = world.changes
    OBVIOUS
  <2> QED
    BY <1>3, <2>1, SelectionFacts, SelectionWorldWith
<1>4. ASSUME world' = [world EXCEPT !.calls = @ + 1]
      PROVE  SelectionWorld(world)'
  <2>1. world' = [policy |-> world.policy, descriptor |-> world.descriptor,
                  discovered |-> world.discovered, resolvers |-> world.resolvers,
                  response |-> world.response, calls |-> world.calls + 1,
                  changes |-> world.changes, faults |-> world.faults]
    BY <1>4, SelectionState
  <2> QED
    BY <1>3, <2>1
<1>5. ASSUME world' = [world EXCEPT !.faults = @ + 1]
      PROVE  SelectionWorld(world)'
  <2>1. world' = [policy |-> world.policy, descriptor |-> world.descriptor,
                  discovered |-> world.discovered, resolvers |-> world.resolvers,
                  response |-> world.response, calls |-> world.calls,
                  changes |-> world.changes, faults |-> world.faults + 1]
    BY <1>5, SelectionState
  <2> QED
    BY <1>3, <2>1
<1> QED
  BY <1>1, <1>2, <1>4, <1>5

\* Every step of the services keeps the invariant: a call of the dynamic one begins,
LEMMA BeginDynamicKeeps ==
  ASSUME Selections!SelectionAssumption, SelectionsInv,
         NEW ccs \in Selections!Keys, NEW f \in PeerFilters, Selections!BeginDynamic(ccs, f)
  PROVE  SelectionsInv'
<1>1. SelectionWorld(world)'
  BY SelectionKept DEF Selections!BeginDynamic
<1> DEFINE at == IF world.resolvers[ccs] = Selections!NoResolver THEN "policies" ELSE "resolve"
           policies == world.resolvers[ccs]
<1>2. call' = SelectionRecord("dynamic", at, ccs, f, "height", ccs, policies,
                Selections!NoDescriptor, FALSE, 0, {}, {}, "none")
  BY DEF Selections!BeginDynamic, Selections!Idle, SelectionRecord
<1>3. PICK a, ps : a = at /\ ps = policies
  OBVIOUS
<1>4. /\ a \in {"policies", "resolve"}
      /\ a = "policies" => ps \in [ccs \ ccs -> Policies]
      /\ a = "resolve" => ps \in [ccs -> Policies]
  <2>1. CASE ps = Selections!NoResolver
    <3>1. ps \in Seq({}) /\ ps = <<>>
      BY <2>1 DEF Selections!NoResolver
    <3>2. DOMAIN ps = {} /\ ps = [i \in {} |-> ps[i]]
      BY <3>1
    <3>3. ccs \ ccs = {}
      OBVIOUS
    <3>4. ps \in [ccs \ ccs -> Policies]
      BY <3>2, <3>3
    <3> QED
      BY <1>3, <2>1, <3>4
  <2>2. CASE ps # Selections!NoResolver
    BY <1>3, <2>2, SelectionFacts
  <2> QED
    BY <2>1, <2>2
<1>5. f \in SUBSET EndorserPeers /\ {} \in SUBSET EndorserPeers /\ 0 \in 0 .. Attempts
  BY SelectionConstants
<1>6. call' = SelectionRecord("dynamic", a, ccs, f, "height", ccs, ps,
                Selections!NoDescriptor, FALSE, 0, {}, {}, "none")
  BY <1>2, <1>3
<1> HIDE DEF at, policies
<1>7. SelectionCalls'
  <2>1. PICK d : d = Selections!NoDescriptor
    OBVIOUS
  <2>2. d \in Descriptors \cup {Selections!NoDescriptor} /\ ccs \subseteq ccs
    BY <2>1
  <2>3. call' = SelectionRecord("dynamic", a, ccs, f, "height", ccs, ps, d, FALSE, 0, {}, {}, "none")
    BY <1>6, <2>1
  <2> QED
    BY <1>4, <1>5, <2>2, <2>3, SelectionGoesOn
<1> QED
  BY <1>1, <1>7 DEF SelectionsInv

\* one of the fabric one,
LEMMA BeginFabricKeeps ==
  ASSUME Selections!SelectionAssumption, SelectionsInv,
         NEW f \in PeerFilters, NEW s, Selections!BeginFabric(f, s)
  PROVE  SelectionsInv'
<1>1. SelectionWorld(world)'
  BY SelectionKept DEF Selections!BeginFabric
<1> DEFINE at == IF world.response = Selections!NoDescriptor THEN "query" ELSE "select"
<1>2. call' = SelectionRecord("fabric", at, {}, f, s, QueriedPeers, <<>>, world.response, FALSE, 0,
                {}, {}, "none")
  BY DEF Selections!BeginFabric, Selections!Idle, SelectionRecord
<1>3. PICK a, d, ps : a = at /\ d = world.response /\ ps = <<>>
  OBVIOUS
<1>4. a \in {"query", "select"} /\ d \in Descriptors \cup {Selections!NoDescriptor}
  BY <1>3, SelectionFacts
<1>5. f \in SUBSET EndorserPeers /\ {} \in SUBSET EndorserPeers /\ 0 \in 0 .. Attempts
  BY SelectionConstants
<1>6. call' = SelectionRecord("fabric", a, {}, f, s, QueriedPeers, ps, d, FALSE, 0, {}, {}, "none")
  BY <1>2, <1>3
<1> HIDE DEF at
<1>7. SelectionCalls'
  BY <1>4, <1>5, <1>6, SelectionGoesOn
<1> QED
  BY <1>1, <1>7 DEF SelectionsInv

\* the policy of a chaincode is asked for,
LEMMA AskPolicyKeeps ==
  ASSUME Selections!SelectionAssumption, SelectionsInv,
         NEW c \in Chaincodes, Selections!AskPolicy(c)
  PROVE  SelectionsInv'
<1>0. call.op = "dynamic" /\ call.at = "policies" /\ c \in call.asked
  BY DEF Selections!AskPolicy, Selections!At
<1>1. CASE call' = Selections!Returns("error", {})
  <2>1. SelectionCalls'
    BY <1>0, <1>1, SelectionReturns
  <2>2. SelectionWorld(world)'
    BY SelectionKept DEF Selections!AskPolicy, Selections!Faulty
  <2> QED
    BY <2>1, <2>2 DEF SelectionsInv
<1>2. CASE call' # Selections!Returns("error", {})
  <2> DEFINE more == call.asked \ {c}
             at == IF more = {} THEN "store" ELSE "policies"
             policies == Selections!Learnt(call.policies, c, world.policy[c])
  <2>1. /\ UNCHANGED world
        /\ call' = [call EXCEPT !.asked = more, !.policies = policies,
                                !.at = IF more = {} THEN "store" ELSE call.at]
    BY <1>2 DEF Selections!AskPolicy
  <2>2. SelectionWorld(world)'
    BY <2>1, SelectionKept
  <2> HIDE DEF policies
  <2>3. call' = SelectionRecord("dynamic", at, call.chaincodes, call.filter, call.sorter, more,
                  policies, call.descriptor, call.transient, call.tries, call.seen, call.peers,
                  "none")
    <3>1. call.result = "none"
      BY <1>0, SelectionFacts
    <3>2. PICK more2 : more2 = more
      OBVIOUS
    <3>3. call' = [call EXCEPT !.asked = more2, !.policies = policies,
                               !.at = IF more2 = {} THEN "store" ELSE call.at]
      BY <2>1, <3>2
    <3>4. call = SelectionRecord(call.op, call.at, call.chaincodes, call.filter, call.sorter,
                     call.asked, call.policies, call.descriptor, call.transient, call.tries,
                     call.seen, call.peers, call.result)
      BY SelectionState
    <3>5. call' = SelectionRecord("dynamic", IF more2 = {} THEN "store" ELSE "policies",
                     call.chaincodes, call.filter, call.sorter, more2, policies,
                     call.descriptor, call.transient, call.tries, call.seen, call.peers, "none")
      BY <1>0, <3>1, <3>3, <3>4 DEF SelectionRecord
    <3> QED
      BY <3>2, <3>5
  <2>4. PICK ccs, f, asked, ps, d, tries, seen, peers, sorter, transient :
          /\ ccs = call.chaincodes /\ f = call.filter /\ asked = call.asked \ {c}
          /\ ps = policies /\ d = call.descriptor
          /\ tries = call.tries /\ seen = call.seen /\ peers = call.peers
          /\ sorter = call.sorter /\ transient = call.transient
    OBVIOUS
  <2>5. ps \in [ccs \ asked -> Policies] /\ asked \subseteq ccs
    <3>1. call.policies \in [call.chaincodes \ call.asked -> Policies]
          /\ call.asked \subseteq call.chaincodes
      BY <1>0, SelectionFacts
    <3>2. world.policy[c] \in Policies
      BY SelectionFacts
    <3>3. (call.chaincodes \ call.asked) \cup {c} = ccs \ asked
      BY <1>0, <2>4, <3>1
    <3>4. DOMAIN call.policies = call.chaincodes \ call.asked
      BY <3>1
    <3>5. ps = [k \in ccs \ asked |-> IF k = c THEN world.policy[c] ELSE call.policies[k]]
      BY <2>4, <3>3, <3>4 DEF policies, Selections!Learnt
    <3>6. \A k \in ccs \ asked : k # c => call.policies[k] \in Policies
      BY <3>1, <3>3
    <3>7. ps \in [ccs \ asked -> Policies]
      BY <3>2, <3>5, <3>6
    <3>8. asked \subseteq ccs
      BY <2>4, <3>1
    <3> QED
      BY <3>7, <3>8
  <2>6. PICK a : a = IF asked = {} THEN "store" ELSE "policies"
    OBVIOUS
  <2>7. call' = SelectionRecord("dynamic", a, ccs, f, sorter, asked, ps, d, transient, tries,
                  seen, peers, "none")
    BY <2>3, <2>4, <2>6
  <2>8. a \in {"store", "policies"} /\ (a = "store" => asked = {})
    BY <2>6
  <2>9. a = "store" => ps \in [ccs -> Policies]
    <3>1. asked = {} => ccs \ asked = ccs
      OBVIOUS
    <3> QED
      BY <2>5, <2>8, <3>1
  <2>10. /\ f \in SUBSET EndorserPeers /\ seen \in SUBSET EndorserPeers /\ peers \in SUBSET EndorserPeers
         /\ tries \in 0 .. Attempts /\ d \in Descriptors \cup {Selections!NoDescriptor}
         /\ ccs \in Selections!Keys
    BY <1>0, <2>4, SelectionFacts
  <2> HIDE DEF more, at
  <2>11. SelectionCalls'
    BY <2>5, <2>7, <2>8, <2>9, <2>10, SelectionGoesOn
  <2> QED
    BY <2>2, <2>11 DEF SelectionsInv
<1> QED
  BY <1>1, <1>2

\* What the world learns or forgets besides
LEMMA AnsweredKeeps ==
  ASSUME SelectionsInv, world' = [world EXCEPT !.response = world.descriptor]
  PROVE  SelectionWorld(world)'
<1>1. PICK p, d, ps, rs, a, b, e :
        /\ p = world.policy /\ d = world.descriptor /\ ps = world.discovered
        /\ rs = world.resolvers /\ a = world.calls /\ b = world.changes /\ e = world.faults
  OBVIOUS
<1>2. world' = [policy |-> p, descriptor |-> d, discovered |-> ps, resolvers |-> rs,
                response |-> d, calls |-> a, changes |-> b, faults |-> e]
  BY <1>1, SelectionState
<1>3. d \in Descriptors \cup {Selections!NoDescriptor} /\ d \in Descriptors
  BY <1>1, SelectionFacts
<1> QED
  BY <1>1, <1>2, <1>3, SelectionFacts, SelectionWorldWith

\* a resolver is forgotten,
LEMMA ForgottenKeeps ==
  ASSUME SelectionsInv, NEW k \in Selections!Keys,
         world' = [world EXCEPT !.resolvers[k] = Selections!NoResolver]
  PROVE  SelectionWorld(world)'
<1>1. PICK p, d, ps, rs0, r, a, b, e :
        /\ p = world.policy /\ d = world.descriptor /\ ps = world.discovered
        /\ rs0 = world.resolvers /\ r = world.response /\ a = world.calls
        /\ b = world.changes /\ e = world.faults
  OBVIOUS
<1>2. PICK rs : rs = [rs0 EXCEPT ![k] = Selections!NoResolver]
  OBVIOUS
<1>3. world' = [policy |-> p, descriptor |-> d, discovered |-> ps, resolvers |-> rs,
                response |-> r, calls |-> a, changes |-> b, faults |-> e]
  <2>1. world' = [world EXCEPT !.resolvers = rs]
    BY <1>1, <1>2
  <2> QED
    BY <1>1, <2>1, SelectionState
<1>4. /\ DOMAIN rs0 = Selections!Keys
      /\ \A i \in Selections!Keys :
           rs0[i] # Selections!NoResolver => rs0[i] \in [i -> Policies]
  BY <1>1, SelectionFacts
<1>5. /\ DOMAIN rs = Selections!Keys /\ rs = [i \in Selections!Keys |-> rs[i]]
      /\ \A i \in Selections!Keys : rs[i] # Selections!NoResolver => rs[i] \in [i -> Policies]
  BY <1>2, <1>4
<1>6. /\ p \in [Chaincodes -> Policies] /\ d \in Descriptors /\ ps \in SUBSET EndorserPeers
      /\ r \in Descriptors \cup {Selections!NoDescriptor}
  BY <1>1, SelectionFacts
<1>7. PICK w : w = [policy |-> p, descriptor |-> d, discovered |-> ps, resolvers |-> rs,
                    response |-> r, calls |-> a, changes |-> b, faults |-> e]
  OBVIOUS
<1>8. SelectionWorld(w)
  BY <1>5, <1>6, <1>7, SelectionWorldIs
<1>9. SelectionWorld(world')
  BY <1>3, <1>7, <1>8
<1> QED
  BY <1>9 DEF SelectionWorld

\* peers come and go, and policies change,
LEMMA ChangeKeeps ==
  ASSUME SelectionsInv,
         NEW p \in [Chaincodes -> Policies], NEW d \in Descriptors, NEW ps \in SUBSET EndorserPeers,
         Selections!Change([policy |-> p, descriptor |-> d, discovered |-> ps,
                            resolvers |-> world.resolvers, response |-> world.response,
                            calls |-> world.calls, changes |-> world.changes,
                            faults |-> world.faults])
  PROVE  SelectionsInv'
<1>1. PICK rs, r, a, b, e :
        /\ rs = world.resolvers /\ r = world.response /\ a = world.calls
        /\ b = world.changes + 1 /\ e = world.faults
  OBVIOUS
<1>2. world' = [policy |-> p, descriptor |-> d, discovered |-> ps, resolvers |-> rs,
                response |-> r, calls |-> a, changes |-> b, faults |-> e]
  BY <1>1 DEF Selections!Change
<1>3. SelectionWorld(world)'
  BY <1>1, <1>2, SelectionFacts, SelectionWorldWith
<1>4. SelectionCalls'
  BY SelectionKept DEF Selections!Change
<1> QED
  BY <1>3, <1>4 DEF SelectionsInv

\* a resolver is stored,
LEMMA StoreResolverKeeps ==
  ASSUME Selections!SelectionAssumption, SelectionsInv, Selections!StoreResolver
  PROVE  SelectionsInv'
<1>0. call.op = "dynamic" /\ call.at = "store"
  BY DEF Selections!StoreResolver, Selections!At
<1>1. SelectionWorld(world)'
  <2>1. PICK ccs, ps : ccs = call.chaincodes /\ ps = call.policies
    OBVIOUS
  <2>2. ccs \in Selections!Keys /\ ps \in [ccs -> Policies]
    BY <1>0, <2>1, SelectionFacts
  <2>3. world' = [world EXCEPT !.resolvers[ccs] = ps]
    BY <2>1 DEF Selections!StoreResolver
  <2>4. PICK rs0 : rs0 = world.resolvers
    OBVIOUS
  <2>5. PICK rs : rs = [rs0 EXCEPT ![ccs] = ps]
    OBVIOUS
  <2>6. world' = [policy |-> world.policy, descriptor |-> world.descriptor,
                  discovered |-> world.discovered, resolvers |-> rs,
                  response |-> world.response, calls |-> world.calls,
                  changes |-> world.changes, faults |-> world.faults]
    <3>1. world' = [world EXCEPT !.resolvers = rs]
      BY <2>3, <2>4, <2>5
    <3> QED
      BY <3>1, SelectionState
  <2>7. /\ DOMAIN rs = Selections!Keys /\ rs = [k \in Selections!Keys |-> rs[k]]
        /\ \A k \in Selections!Keys : rs[k] # Selections!NoResolver => rs[k] \in [k -> Policies]
    <3>1. /\ DOMAIN rs0 = Selections!Keys
          /\ \A k \in Selections!Keys :
               rs0[k] # Selections!NoResolver => rs0[k] \in [k -> Policies]
      BY <2>4, SelectionFacts
    <3>2. rs = [k \in Selections!Keys |-> IF k = ccs THEN ps ELSE rs0[k]]
      BY <2>2, <2>5, <3>1
    <3> QED
      BY <2>2, <3>1, <3>2
  <2>8. PICK p, d, dps, r, a, b, e :
          /\ p = world.policy /\ d = world.descriptor /\ dps = world.discovered
          /\ r = world.response /\ a = world.calls /\ b = world.changes /\ e = world.faults
    OBVIOUS
  <2> QED
    BY <2>6, <2>7, <2>8, SelectionFacts, SelectionWorldWith
<1>2. call' = SelectionRecord("dynamic", "resolve", call.chaincodes, call.filter, call.sorter,
                call.asked, call.policies, call.descriptor, call.transient, call.tries,
                call.seen, call.peers, "none")
  <2>1. call.result = "none"
    BY <1>0, SelectionFacts
  <2>2. call' = [call EXCEPT !.at = "resolve"]
    BY DEF Selections!StoreResolver
  <2> QED
    BY <1>0, <2>1, <2>2, SelectionState DEF SelectionRecord
<1>3. SelectionCalls'
  BY <1>0, <1>2, SelectionFacts, SelectionGoesOn
<1> QED
  BY <1>1, <1>3 DEF SelectionsInv

\* the policies are resolved to peers,
LEMMA ResolveKeeps ==
  ASSUME Selections!SelectionAssumption, SelectionsInv, Selections!Resolve
  PROVE  SelectionsInv'
<1>0. call.op = "dynamic" /\ call.at = "resolve" /\ UNCHANGED world
  BY DEF Selections!Resolve, Selections!At
<1>1. SelectionWorld(world)'
  BY <1>0, SelectionKept
<1>2. call.chaincodes \in Selections!Keys /\ call.policies \in [call.chaincodes -> Policies]
  BY <1>0, SelectionFacts
<1> DEFINE usable == world.discovered \cap call.filter
           groups == Selections!Resolutions(call.policies, usable)
<1>3. usable \in SUBSET EndorserPeers /\ call.chaincodes # {}
      /\ DOMAIN call.policies = call.chaincodes
      /\ \A c \in call.chaincodes : call.policies[c] \in Rules
  <2>1. usable \in SUBSET EndorserPeers
    BY SelectionFacts
  <2>2. call.chaincodes # {}
    BY <1>2 DEF Selections!Keys
  <2>3. DOMAIN call.policies = call.chaincodes
        /\ \A c \in call.chaincodes : call.policies[c] \in Policies
    BY <1>2
  <2>4. Policies \subseteq Rules
    BY SelectionConstants
  <2> HIDE DEF usable
  <2> QED
    BY <2>1, <2>2, <2>3, <2>4
<1>4. /\ \A g \in groups :
           /\ g # {} /\ g \subseteq usable
           /\ \A c \in call.chaincodes : Selections!Satisfied[call.policies[c]][g]
      /\ groups = {} =>
           usable = {} \/ \E c \in call.chaincodes : ~Selections!Satisfied[call.policies[c]][usable]
  <2>1. PICK u, ccs, ps : u = usable /\ ccs = call.chaincodes /\ ps = call.policies
    OBVIOUS
  <2>2. /\ \A g \in Selections!Resolutions(ps, u) :
             /\ g # {} /\ g \subseteq u
             /\ \A c \in ccs : Selections!Satisfied[ps[c]][g]
        /\ Selections!Resolutions(ps, u) = {} =>
             u = {} \/ \E c \in ccs : ~Selections!Satisfied[ps[c]][u]
    <3>1. /\ u \in SUBSET EndorserPeers /\ ccs # {} /\ DOMAIN ps = ccs
          /\ \A c \in ccs : ps[c] \in Rules
      BY <1>3, <2>1
    <3> HIDE DEF usable, groups
    <3> QED
      BY <3>1, ResolutionsDo
  <2> QED
    BY <2>1, <2>2
<1>5. \/ call' = Selections!Returns("error", {})
      \/ groups = {} /\ call' = Selections!Returns("ok", {})
      \/ \E g \in groups : call' = Selections!Returns("ok", g)
  BY DEF Selections!Resolve
<1>6. CASE call' = Selections!Returns("error", {})
  <2>1. SelectionCalls'
    BY <1>0, <1>6, SelectionReturns
  <2> QED
    BY <1>1, <2>1 DEF SelectionsInv
<1>7. CASE groups = {} /\ call' = Selections!Returns("ok", {})
  <2> HIDE DEF groups
  <2>1. usable = {} \/ \E c \in call.chaincodes : ~Selections!Satisfied[call.policies[c]][usable]
    BY <1>4, <1>7
  <2>2. {} \in SUBSET EndorserPeers /\ {} \subseteq usable
    OBVIOUS
  <2>3. SelectionCalls'
    BY <1>0, <1>7, <2>1, <2>2, SelectionReturns
  <2> QED
    BY <1>1, <2>3 DEF SelectionsInv
<1>8. ASSUME NEW g \in groups, call' = Selections!Returns("ok", g)
      PROVE  SelectionsInv'
  <2>1. g # {} /\ g \subseteq usable /\ \A c \in call.chaincodes : Selections!Satisfied[call.policies[c]][g]
    BY <1>4
  <2> HIDE DEF groups
  <2>2. g \in SUBSET EndorserPeers
    BY <1>3, <2>1
  <2>3. SelectionCalls'
    BY <1>0, <1>8, <2>1, <2>2, SelectionReturns
  <2> QED
    BY <1>1, <2>3 DEF SelectionsInv
<1> QED
  <2> HIDE DEF groups
  <2> QED
    BY <1>5, <1>6, <1>7, <1>8

\* the discovery service responds,
LEMMA ResponseKeeps ==
  ASSUME Selections!SelectionAssumption, SelectionsInv, NEW t \in QueriedPeers, Selections!Response(t)
  PROVE  SelectionsInv'
<1>0. call.op = "fabric" /\ call.at = "query" /\ call.result = "none"
  BY SelectionFacts DEF Selections!Response, Selections!At
<1>1. CASE /\ world' = [world EXCEPT !.response = world.descriptor]
           /\ call' = [call EXCEPT !.at = "select", !.tries = 0, !.descriptor = world.descriptor]
  <2>1. PICK ccs, f, sorter, asked, ps, transient, seen, peers, d :
          /\ ccs = call.chaincodes /\ f = call.filter /\ sorter = call.sorter
          /\ asked = call.asked /\ ps = call.policies /\ transient = call.transient
          /\ seen = call.seen /\ peers = call.peers /\ d = world.descriptor
    OBVIOUS
  <2>2. call' = SelectionRecord("fabric", "select", ccs, f, sorter, asked, ps, d, transient, 0,
                  seen, peers, "none")
    BY <1>0, <1>1, <2>1, SelectionState DEF SelectionRecord
  <2>3. /\ f \in SUBSET EndorserPeers /\ seen \in SUBSET EndorserPeers /\ peers \in SUBSET EndorserPeers
        /\ d \in Descriptors \cup {Selections!NoDescriptor} /\ 0 \in 0 .. Attempts
    BY <2>1, SelectionFacts, SelectionConstants
  <2>4. SelectionCalls'
    BY <2>2, <2>3, SelectionGoesOn
  <2>5. SelectionWorld(world)'
    BY <1>1, AnsweredKeeps
  <2> QED
    BY <2>4, <2>5 DEF SelectionsInv
<1>2. CASE /\ world' = Selections!Faulty
           /\ \E transient \in BOOLEAN :
                call' = [call EXCEPT !.asked = call.asked \ {t}, !.transient = call.transient \/ transient]
  <2>1. PICK tr \in BOOLEAN :
          call' = [call EXCEPT !.asked = call.asked \ {t}, !.transient = call.transient \/ tr]
    BY <1>2
  <2>2. PICK ccs, f, sorter, asked, ps, transient, tries, seen, peers, d :
          /\ ccs = call.chaincodes /\ f = call.filter /\ sorter = call.sorter
          /\ asked = call.asked \ {t} /\ ps = call.policies /\ transient = (call.transient \/ tr)
          /\ tries = call.tries
          /\ seen = call.seen /\ peers = call.peers /\ d = call.descriptor
    OBVIOUS
  <2>3. call' = SelectionRecord("fabric", "query", ccs, f, sorter, asked, ps, d, transient, tries,
                  seen, peers, "none")
    <3>1. call' = [call EXCEPT !.asked = asked, !.transient = transient]
      BY <2>1, <2>2
    <3> QED
      BY <1>0, <2>2, <3>1, SelectionState DEF SelectionRecord
  <2>4. /\ f \in SUBSET EndorserPeers /\ seen \in SUBSET EndorserPeers /\ peers \in SUBSET EndorserPeers
        /\ d \in Descriptors \cup {Selections!NoDescriptor} /\ tries \in 0 .. Attempts
    BY <2>2, SelectionFacts
  <2>5. SelectionCalls'
    BY <2>3, <2>4, SelectionGoesOn
  <2>6. SelectionWorld(world)'
    BY <1>2, SelectionKept DEF Selections!Faulty
  <2> QED
    BY <2>5, <2>6 DEF SelectionsInv
<1> QED
  BY <1>1, <1>2 DEF Selections!Response

\* or does not,
LEMMA QueryFailsKeeps ==
  ASSUME Selections!SelectionAssumption, SelectionsInv, Selections!QueryFails
  PROVE  SelectionsInv'
<1>0. call.op = "fabric" /\ call.at = "query" /\ call.result = "none" /\ UNCHANGED world
  BY SelectionFacts DEF Selections!QueryFails, Selections!At
<1>1. SelectionWorld(world)'
  BY <1>0, SelectionKept
<1>2. CASE call' = Selections!Returns("error", {})
  <2>1. SelectionCalls'
    BY <1>0, <1>2, SelectionReturns
  <2> QED
    BY <1>1, <2>1 DEF SelectionsInv
<1>3. CASE /\ call.tries < Attempts
           /\ call' = [call EXCEPT !.asked = QueriedPeers, !.tries = call.tries + 1, !.transient = FALSE]
  <2>1. PICK ccs, f, sorter, ps, tries, seen, peers, d :
          /\ ccs = call.chaincodes /\ f = call.filter /\ sorter = call.sorter
          /\ ps = call.policies /\ tries = call.tries + 1
          /\ seen = call.seen /\ peers = call.peers /\ d = call.descriptor
    OBVIOUS
  <2>2. call' = SelectionRecord("fabric", "query", ccs, f, sorter, QueriedPeers, ps, d, FALSE, tries,
                  seen, peers, "none")
    BY <1>0, <1>3, <2>1, SelectionState DEF SelectionRecord
  <2>3. tries \in 0 .. Attempts
    BY <1>3, <2>1, SelectionFacts, SelectionConstants
  <2>4. /\ f \in SUBSET EndorserPeers /\ seen \in SUBSET EndorserPeers /\ peers \in SUBSET EndorserPeers
        /\ d \in Descriptors \cup {Selections!NoDescriptor}
    BY <2>1, SelectionFacts
  <2>5. SelectionCalls'
    BY <2>2, <2>3, <2>4, SelectionGoesOn
  <2> QED
    BY <1>1, <2>5 DEF SelectionsInv
<1> QED
  BY <1>2, <1>3 DEF Selections!QueryFails

\* and endorsers are selected of the response.
LEMMA SelectKeeps ==
  ASSUME Selections!SelectionAssumption, SelectionsInv, Selections!Select
  PROVE  SelectionsInv'
<1>0. call.op = "fabric" /\ call.at = "select" /\ call.result = "none" /\ UNCHANGED world
  BY SelectionFacts DEF Selections!Select, Selections!At
<1>1. SelectionWorld(world)'
  BY <1>0, SelectionKept
<1>2. CASE \E r \in {"error", "panic"} : call' = Selections!Returns(r, {})
  <2>1. PICK r \in {"error", "panic"} : call' = Selections!Returns(r, {})
    BY <1>2
  <2>2. SelectionCalls'
    BY <1>0, <2>1, SelectionReturns
  <2> QED
    BY <1>1, <2>2 DEF SelectionsInv
<1>3. CASE call.tries < Attempts /\ call' = [call EXCEPT !.tries = call.tries + 1]
  <2>1. PICK ccs, f, sorter, asked, ps, transient, tries, seen, peers, d :
          /\ ccs = call.chaincodes /\ f = call.filter /\ sorter = call.sorter
          /\ asked = call.asked /\ ps = call.policies /\ transient = call.transient
          /\ tries = call.tries + 1
          /\ seen = call.seen /\ peers = call.peers /\ d = call.descriptor
    OBVIOUS
  <2>2. call' = SelectionRecord("fabric", "select", ccs, f, sorter, asked, ps, d, transient, tries,
                  seen, peers, "none")
    BY <1>0, <1>3, <2>1, SelectionState DEF SelectionRecord
  <2>3. tries \in 0 .. Attempts
    BY <1>3, <2>1, SelectionFacts, SelectionConstants
  <2>4. /\ f \in SUBSET EndorserPeers /\ seen \in SUBSET EndorserPeers /\ peers \in SUBSET EndorserPeers
        /\ d \in Descriptors \cup {Selections!NoDescriptor}
    BY <2>1, SelectionFacts
  <2>5. SelectionCalls'
    BY <2>2, <2>3, <2>4, SelectionGoesOn
  <2> QED
    BY <1>1, <2>5 DEF SelectionsInv
<1>4. CASE \E ps \in Selections!Endorsers : call' = Selections!Returns("ok", ps)
  <2>1. PICK ps \in Selections!Endorsers : call' = Selections!Returns("ok", ps)
    BY <1>4
  <2>2. FillsFor(call.descriptor, world.discovered \cap call.filter, call.sorter, ps)
    BY SelectionFacts, EndorsersFill
  <2>3. ps \in SUBSET EndorserPeers
    BY <2>2, SelectionFacts DEF FillsFor
  <2>4. SelectionCalls'
    BY <1>0, <2>1, <2>2, <2>3, SelectionReturns
  <2> QED
    BY <1>1, <2>4 DEF SelectionsInv
<1> QED
  BY <1>2, <1>3, <1>4 DEF Selections!Select

\* Every step of the selection keeps the invariant.
LEMMA SelectionsStep ==
  ASSUME Selections!SelectionAssumption, SelectionsInv, Selections!Next
  PROVE  SelectionsInv'
<1>1. CASE \E ccs \in Selections!Keys, f \in PeerFilters : Selections!BeginDynamic(ccs, f)
  BY <1>1, BeginDynamicKeeps
<1>2. CASE \E f \in PeerFilters, s \in {"height", "balanced"} : Selections!BeginFabric(f, s)
  BY <1>2, BeginFabricKeeps
<1>3. CASE \E c \in Chaincodes : Selections!AskPolicy(c)
  BY <1>3, AskPolicyKeeps
<1>4. CASE \E c \in Chaincodes : \E p \in Policies : Selections!Upgrade(c, p)
  <2>1. PICK c \in Chaincodes, q \in Policies : Selections!Upgrade(c, q)
    BY <1>4
  <2>2. PICK p : p = [world.policy EXCEPT ![c] = q]
    OBVIOUS
  <2>3. p \in [Chaincodes -> Policies] /\ world.descriptor \in Descriptors
        /\ world.discovered \in SUBSET EndorserPeers
    BY <2>2, SelectionFacts
  <2>4. [world EXCEPT !.policy[c] = q] =
          [policy |-> p, descriptor |-> world.descriptor, discovered |-> world.discovered,
           resolvers |-> world.resolvers, response |-> world.response, calls |-> world.calls,
           changes |-> world.changes, faults |-> world.faults]
    <3>1. [world EXCEPT !.policy[c] = q] = [world EXCEPT !.policy = p]
      BY <2>2
    <3> QED
      BY <3>1, SelectionState
  <2>5. Selections!Change([world EXCEPT !.policy[c] = q])
    BY <2>1 DEF Selections!Upgrade
  <2>6. PICK d, ps : d = world.descriptor /\ ps = world.discovered
    OBVIOUS
  <2> QED
    BY <2>3, <2>4, <2>5, <2>6, ChangeKeeps
<1>5. CASE Selections!StoreResolver
  BY <1>5, StoreResolverKeeps
<1>6. CASE Selections!Resolve
  BY <1>6, ResolveKeeps
<1>7. CASE Selections!QueryFails
  BY <1>7, QueryFailsKeeps
<1>8. CASE Selections!Select
  BY <1>8, SelectKeeps
<1>9. CASE Selections!ResponseRefreshed
  <2>1. SelectionWorld(world)'
    BY <1>9, AnsweredKeeps DEF Selections!ResponseRefreshed
  <2>2. SelectionCalls'
    BY <1>9, SelectionKept DEF Selections!ResponseRefreshed
  <2> QED
    BY <2>1, <2>2 DEF SelectionsInv
<1>10. CASE Selections!PeersChange
  <2>1. PICK ps \in SUBSET EndorserPeers : Selections!Change([world EXCEPT !.discovered = ps])
    BY <1>10 DEF Selections!PeersChange
  <2>2. [world EXCEPT !.discovered = ps] =
          [policy |-> world.policy, descriptor |-> world.descriptor, discovered |-> ps,
           resolvers |-> world.resolvers, response |-> world.response, calls |-> world.calls,
           changes |-> world.changes, faults |-> world.faults]
    BY SelectionState
  <2>3. PICK p, d : p = world.policy /\ d = world.descriptor
    OBVIOUS
  <2>4. p \in [Chaincodes -> Policies] /\ d \in Descriptors
    BY <2>3, SelectionFacts
  <2> QED
    BY <2>1, <2>2, <2>3, <2>4, ChangeKeeps
<1>11. CASE \E k \in Selections!Keys : Selections!ResolverExpires(k)
  <2>1. PICK k \in Selections!Keys : Selections!ResolverExpires(k)
    BY <1>11
  <2>2. SelectionWorld(world)'
    BY <2>1, ForgottenKeeps DEF Selections!ResolverExpires
  <2>3. SelectionCalls'
    BY <2>1, SelectionKept DEF Selections!ResolverExpires
  <2> QED
    BY <2>2, <2>3 DEF SelectionsInv
<1>12. CASE \E t \in QueriedPeers : Selections!Response(t)
  BY <1>12, ResponseKeeps
<1>13. CASE \E d \in Descriptors : Selections!Redeploy(d)
  <2>1. PICK d \in Descriptors : Selections!Change([world EXCEPT !.descriptor = d])
    BY <1>13 DEF Selections!Redeploy
  <2>2. [world EXCEPT !.descriptor = d] =
          [policy |-> world.policy, descriptor |-> d, discovered |-> world.discovered,
           resolvers |-> world.resolvers, response |-> world.response, calls |-> world.calls,
           changes |-> world.changes, faults |-> world.faults]
    BY SelectionState
  <2>3. PICK p, ps : p = world.policy /\ ps = world.discovered
    OBVIOUS
  <2>4. p \in [Chaincodes -> Policies] /\ ps \in SUBSET EndorserPeers
    BY <2>3, SelectionFacts
  <2> QED
    BY <2>1, <2>2, <2>3, <2>4, ChangeKeeps
<1> QED
  BY <1>1, <1>2, <1>3, <1>4, <1>5, <1>6, <1>7, <1>8, <1>9, <1>10, <1>11, <1>12, <1>13
     DEF Selections!Next

\* What the invariant of the selection says for its properties
LEMMA SelectionsSound ==
  ASSUME SelectionsInv
  PROVE  Selections!TypeOK /\ Selections!SatisfiesPolicies /\ Selections!FillsLayout
<1>1. SelectionCall(call) /\ SelectionTells(call) /\ SelectionWorld(world)
  BY DEF SelectionsInv, SelectionCalls
<1>2. Selections!TypeOK
  BY <1>1 DEF SelectionCall, SelectionWorld, Selections!TypeOK
<1>3. Selections!SatisfiesPolicies
  BY <1>1 DEF SelectionTells, DoesFor, Selections!SatisfiesPolicies
<1>4. Selections!FillsLayout
  <2> SUFFICES ASSUME call.op = "fabric", call.result = "ok"
               PROVE  LET usable == call.seen \cap call.filter IN
                      /\ call.peers \subseteq usable
                      /\ \E l \in call.descriptor.layouts : \A x \in DOMAIN l :
                           LET group == call.descriptor.groups[x] \cap usable
                               chosen == call.peers \cap group
                           IN /\ Cardinality(chosen) >= l[x]
                              /\ call.sorter = "height" /\ Cardinality(chosen) = l[x] =>
                                   \A p \in chosen, q \in group \ chosen :
                                     HeightOf(p) < Selections!CutOff(group)
                                       => HeightOf(q) <= HeightOf(p)
    BY SelectionCounts DEF Selections!FillsLayout
  <2> QED
    BY <1>1 DEF SelectionTells, FillsFor
<1> QED
  BY <1>2, <1>3, <1>4

(***************************************************************************)
(* The configuration of endpoints                                          *)
(***************************************************************************)

\* One matcher decides at most.
LEMMA OneDecides ==
  ASSUME NEW S, NEW matchers \in Seq(S), NEW key
  PROVE  \A m, n \in Endpoints!Deciding(matchers, key) : m = n
<1> DEFINE hits == {i \in DOMAIN matchers : key \in matchers[i].keys}
<1>1. hits \subseteq Nat
  <2>1. DOMAIN matchers = 1 .. Len(matchers) /\ Len(matchers) \in Nat
    BY LenProperties
  <2> QED
    BY <2>1
<1>2. \A i, j \in hits : (\A k \in hits : i <= k) /\ (\A k \in hits : j <= k) => i = j
  <2> HIDE DEF hits
  <2> QED
    BY <1>1
<1>3. Endpoints!Deciding(matchers, key) =
        {matchers[i] : i \in {i \in hits : \A j \in hits : i <= j}}
  BY DEF Endpoints!Deciding
<1> HIDE DEF hits
<1> QED
  BY <1>2, <1>3

\* What a matcher tells to ignore is not found, wherever it is looked for.
LEMMA IgnoredNotFound ==
  ASSUME NEW S, NEW matchers \in Seq(S), NEW key, Endpoints!ToBeIgnored(matchers, key),
         NEW known, NEW listed, NEW default, NEW byURL,
         NEW e \in Endpoints!Search(key, matchers, known, listed, default, byURL)
  PROVE  e = Endpoints!NotFound
<1>1. PICK m \in Endpoints!Deciding(matchers, key) : m.ignore
  BY DEF Endpoints!ToBeIgnored
<1>2. \A n \in Endpoints!Deciding(matchers, key) : n = m
  BY OneDecides
<1>3. Endpoints!Deciding(matchers, key) # {}
  BY <1>1
<1>4. e \in {IF n.ignore THEN Endpoints!NotFound
             ELSE Endpoints!Mapped(n, key, known, default) :
               n \in Endpoints!Deciding(matchers, key)}
  BY <1>3 DEF Endpoints!Search
<1> QED
  BY <1>1, <1>2, <1>4

\* Of a list there stays only what is not to be ignored.
LEMMA KeptAreNotIgnored ==
  ASSUME NEW S, NEW names \in Seq(S), NEW matchers
  PROVE  Endpoints!NotIgnored(names, matchers)
           \in Seq({x \in S : ~Endpoints!ToBeIgnored(matchers, x)})
<1> DEFINE T == {x \in S : ~Endpoints!ToBeIgnored(matchers, x)}
           X == 0 .. Len(names)
           Of(i, before) == IF i = 0 THEN <<>>
                            ELSE IF Endpoints!ToBeIgnored(matchers, names[i]) THEN before
                            ELSE Append(before, names[i])
           E(f) == [i \in X |-> Of(i, f[i - 1])]
           Sub == [i \in X |-> IF i = 0 THEN {} ELSE {i - 1}]
           V == Seq(T)
           F == [i \in X |-> [h \in [Sub[i] -> V] |-> Of(i, h[i - 1])]]
<1>0. Len(names) \in Nat /\ DOMAIN names = 1 .. Len(names) /\ \A i \in 1 .. Len(names) : names[i] \in S
  <2>1. Len(names) \in Nat /\ DOMAIN names = 1 .. Len(names)
    BY LenProperties
  <2> QED
    BY <2>1, TypedSequence
<1>1. \A i \in X : Sub[i] \subseteq X /\ (i # 0 => i - 1 \in X /\ Sub[i] = {i - 1})
  BY <1>0
<1>2. \A U \in SUBSET X : U # {} => \E i \in U : Sub[i] \cap U = {}
  <2> SUFFICES ASSUME NEW U \in SUBSET X, U # {}
               PROVE  \E i \in U : Sub[i] \cap U = {}
    OBVIOUS
  <2>1. U \subseteq Nat
    BY <1>0
  <2>2. PICK i \in U : \A j \in U : i <= j
    BY <2>1, LeastNatural
  <2>3. Sub[i] \cap U = {}
    BY <1>1, <2>1, <2>2
  <2> QED
    BY <2>3
<1>3. \A i \in X : \A before \in V : Of(i, before) \in V
  <2> SUFFICES ASSUME NEW i \in X, NEW before \in V
               PROVE  Of(i, before) \in V
    OBVIOUS
  <2>1. CASE i = 0
    BY <2>1
  <2>2. CASE i # 0 /\ Endpoints!ToBeIgnored(matchers, names[i])
    BY <2>2
  <2>3. CASE i # 0 /\ ~Endpoints!ToBeIgnored(matchers, names[i])
    <3>1. names[i] \in T
      BY <1>0, <2>3
    <3> HIDE DEF T
    <3> QED
      BY <2>3, <3>1
  <2> QED
    BY <2>1, <2>2, <2>3
<1>4. ASSUME NEW i \in X, NEW h \in [Sub[i] -> V]
      PROVE  F[i][h] = Of(i, h[i - 1]) /\ F[i][h] \in V
  <2>1. F[i][h] = Of(i, h[i - 1])
    <3> HIDE DEF Of, Sub, V
    <3> QED
      OBVIOUS
  <2>2. CASE i = 0
    BY <2>1, <2>2
  <2>3. CASE i # 0
    <3>1. h[i - 1] \in V
      <4> HIDE DEF Sub, V
      <4> QED
        BY <1>1, <2>3
    <3> HIDE DEF Of, V, F
    <3> QED
      BY <1>3, <2>1, <3>1
  <2> QED
    BY <2>2, <2>3
<1>5. PICK f \in [X -> V] : \A i \in X : f[i] = F[i][[j \in Sub[i] |-> f[j]]]
  <2> HIDE DEF V, Sub, F, X
  <2>1. Definable(X, V, Sub, F)
    BY <1>1, <1>2, <1>4 DEF Definable
  <2>2. PICK f : DefinedBy(f, X, V, Sub, F)
    BY <2>1, RecursiveFunction
  <2> QED
    BY <2>2 DEF DefinedBy
<1>6. f = E(f)
  <2>1. ASSUME NEW i \in X
        PROVE  f[i] = Of(i, f[i - 1])
    <3> DEFINE h == [j \in Sub[i] |-> f[j]]
    <3>1. h \in [Sub[i] -> V]
      <4> HIDE DEF V, Sub, F, X
      <4> QED
        BY <1>1, <1>5
    <3>2. f[i] = Of(i, h[i - 1])
      <4>1. f[i] = F[i][h]
        <5> HIDE DEF F, Sub, X
        <5> QED
          BY <1>5
      <4> HIDE DEF h, Of, F, V, X
      <4> QED
        BY <1>4, <3>1, <4>1
    <3>3. CASE i = 0
      BY <3>2, <3>3
    <3>4. CASE i # 0
      <4>1. h[i - 1] = f[i - 1]
        <5> HIDE DEF Sub, X
        <5> QED
          BY <1>1, <3>4
      <4> HIDE DEF h, Of
      <4> QED
        BY <3>2, <4>1
    <3> QED
      BY <3>3, <3>4
  <2> HIDE DEF Of, X
  <2> QED
    BY <1>5, <2>1
<1> DEFINE G == CHOOSE g : g = E(g)
<1>7. Endpoints!NotIgnored(names, matchers) = G[Len(names)]
  BY DEF Endpoints!NotIgnored
<1>8. G = E(G)
  <2> HIDE DEF E
  <2> QED
    BY <1>6
<1>9. \A i \in X : G[i] = Of(i, G[i - 1])
  <2> HIDE DEF Of, X, G
  <2> QED
    BY <1>8
<1>10. \A i \in X : G[i] \in V
  <2> DEFINE U == {i \in X : G[i] \notin V}
  <2> SUFFICES ASSUME U # {} PROVE FALSE
    <3> HIDE DEF G, V
    <3> QED
      OBVIOUS
  <2>1. PICK i \in U : Sub[i] \cap U = {}
    <3>1. U \in SUBSET X
      OBVIOUS
    <3> HIDE DEF U, Sub, X, G, V
    <3> QED
      BY <1>2, <3>1
  <2>2. CASE i = 0
    <3>1. G[i] = <<>>
      <4> HIDE DEF G
      <4> QED
        BY <1>9, <2>2
    <3> HIDE DEF G
    <3> QED
      BY <3>1
  <2>3. CASE i # 0
    <3> HIDE DEF G, Of, V
    <3>1. G[i - 1] \in V
      BY <1>1, <2>1, <2>3
    <3>2. G[i] \in V
      BY <1>3, <1>9, <3>1
    <3> QED
      BY <3>2
  <2> QED
    BY <2>2, <2>3
<1>11. Len(names) \in X
  BY <1>0
<1> QED
  <2> HIDE DEF G, X
  <2> QED
    BY <1>7, <1>10, <1>11

\* The lists of a file are sequences.
LEMMA EndpointFiles ==
  ASSUME Endpoints!EndpointAssumption, NEW c \in Files
  PROVE  /\ \E S : c.peerMatchers \in Seq(S)
         /\ \E S : c.ordererMatchers \in Seq(S)
         /\ \A n \in DOMAIN c.channels : \E S : c.channels[n].orderers \in Seq(S)
<1>1. \A matchers \in {c.peerMatchers, c.ordererMatchers, c.caMatchers, c.channelMatchers} :
         matchers \in Seq({matchers[i] : i \in DOMAIN matchers})
  BY DEF Endpoints!EndpointAssumption
<1>2. \A n \in DOMAIN c.channels :
        LET os == c.channels[n].orderers IN os \in Seq({os[i] : i \in DOMAIN os})
  BY DEF Endpoints!EndpointAssumption
<1>3. c.peerMatchers \in Seq({c.peerMatchers[i] : i \in DOMAIN c.peerMatchers})
  BY <1>1
<1>4. c.ordererMatchers \in Seq({c.ordererMatchers[i] : i \in DOMAIN c.ordererMatchers})
  BY <1>1
<1> QED
  BY <1>2, <1>3, <1>4

\* No channel has what is to be ignored, by itself or completed by the default channel.
LEMMA ChannelsIgnore ==
  ASSUME Endpoints!EndpointAssumption, NEW c \in Files, NEW n \in DOMAIN Endpoints!Channels(c)
  PROVE  LET ch == Endpoints!Channels(c)[n]
         IN /\ \A p \in DOMAIN ch.peers : ~Endpoints!ToBeIgnored(c.peerMatchers, p)
            /\ \A i \in DOMAIN ch.orderers :
                 ~Endpoints!ToBeIgnored(c.ordererMatchers, ch.orderers[i])
<1> DEFINE default == IF Default \in DOMAIN c.channels THEN c.channels[Default] ELSE Endpoints!Empty
           ch == Endpoints!Channels(c)[n]
<1>1. \E S : default.orderers \in Seq(S)
  <2>1. CASE Default \in DOMAIN c.channels
    BY <2>1, EndpointFiles
  <2>2. CASE Default \notin DOMAIN c.channels
    <3>1. default.orderers = <<>>
      BY <2>2 DEF Endpoints!Empty
    <3>2. <<>> \in Seq({})
      OBVIOUS
    <3> HIDE DEF default
    <3> QED
      BY <3>1, <3>2
  <2> QED
    BY <2>1, <2>2
<1>2. CASE n \notin DOMAIN c.channels
  <2>1. ch = [peers |-> <<>>, orderers |-> <<>>, policies |-> Endpoints!Standard]
    BY <1>2 DEF Endpoints!Channels
  <2> HIDE DEF ch
  <2>2. ch.peers = <<>> /\ ch.orderers = <<>>
    BY <2>1
  <2>3. DOMAIN <<>> = {}
    OBVIOUS
  <2>4. DOMAIN ch.peers = {} /\ DOMAIN ch.orderers = {}
    BY <2>2, <2>3
  <2> QED
    BY <2>4 DEF ch
<1>3. CASE n \in DOMAIN c.channels
  <2> DEFINE own == c.channels[n]
             peers == IF DOMAIN own.peers = {} THEN default.peers ELSE own.peers
             orderers == IF own.orderers = <<>> THEN default.orderers ELSE own.orderers
             kept == {p \in DOMAIN peers : ~Endpoints!ToBeIgnored(c.peerMatchers, p)}
  <2>1. ch = Endpoints!ChannelEndpoints(c, own, default)
    BY <1>3 DEF Endpoints!Channels
  <2>2. Endpoints!ChannelEndpoints(c, own, default) =
          [peers |-> [p \in kept |-> Endpoints!RolesOf(peers[p])],
           orderers |-> Endpoints!NotIgnored(orderers, c.ordererMatchers),
           policies |-> Endpoints!AddMissing(own.policy, Endpoints!DefaultPolicies(c.channels))]
    BY DEF Endpoints!ChannelEndpoints
  <2> HIDE DEF ch, default, own
  <2>3. /\ ch.peers = [p \in kept |-> Endpoints!RolesOf(peers[p])]
        /\ ch.orderers = Endpoints!NotIgnored(orderers, c.ordererMatchers)
    <3> HIDE DEF kept, peers, orderers
    <3> QED
      BY <2>1, <2>2
  <2>4. DOMAIN ch.peers = kept
    <3> HIDE DEF kept, peers
    <3> QED
      BY <2>3
  <2>5. \E S : own.orderers \in Seq(S)
    BY <1>3, EndpointFiles DEF own
  <2>6. \E S : orderers \in Seq(S)
    BY <1>1, <2>5
  <2>7. PICK S : orderers \in Seq(S)
    BY <2>6
  <2> DEFINE T == {x \in S : ~Endpoints!ToBeIgnored(c.ordererMatchers, x)}
  <2>8. ch.orderers \in Seq(T)
    <3> HIDE DEF orderers
    <3> QED
      BY <2>3, <2>7, KeptAreNotIgnored
  <2>9. \A i \in DOMAIN ch.orderers : ch.orderers[i] \in T
    <3> HIDE DEF T
    <3> QED
      BY <2>8, TypedSequence
  <2>10. \A p \in DOMAIN ch.peers : ~Endpoints!ToBeIgnored(c.peerMatchers, p)
    BY <2>4
  <2>11. \A i \in DOMAIN ch.orderers : ~Endpoints!ToBeIgnored(c.ordererMatchers, ch.orderers[i])
    BY <2>9
  <2> QED
    BY <2>10, <2>11 DEF ch
<1> QED
  BY <1>2, <1>3

\* What was loaded, of a configuration; msp and last are what the order of maps decides.
EndpointNet(c, msp, last) ==
  LET net == Endpoints!Network(c) IN
  [peers |-> net.peers, orderers |-> net.orderers,
   defaultPeer |-> net.defaultPeer, defaultOrderer |-> net.defaultOrderer,
   channels |-> [ch \in DOMAIN net.channels \ {Default} |-> net.channels[ch]],
   defaultChannel |-> net.channels[Default],
   peersByOrg |-> Endpoints!PeersByOrg(c, net),
   ordererConfigs |-> Endpoints!OrdererConfigs(c, net),
   channelPeers |-> [ch \in Endpoints!ChannelsToLoad(net) |->
                       Endpoints!ChannelPeersOf(c, net, ch, msp)],
   channelOrderers |-> [ch \in Endpoints!ChannelsToLoad(net) |->
                          Endpoints!ChannelOrderersOf(c, net, ch)],
   cas |-> Endpoints!CAConfigs(c, last)]

\* What the loaded configuration has, of its file
LEMMA EndpointNetIs ==
  ASSUME NEW c, NEW msp, NEW last, NEW n, n = EndpointNet(c, msp, last)
  PROVE  LET net == Endpoints!Network(c) IN
         /\ n.peers = net.peers /\ n.orderers = net.orderers
         /\ n.defaultPeer = net.defaultPeer /\ n.defaultOrderer = net.defaultOrderer
         /\ n.channels = [ch \in DOMAIN Endpoints!Channels(c) \ {Default} |->
                            Endpoints!Channels(c)[ch]]
         /\ n.defaultChannel = Endpoints!Channels(c)[Default]
         /\ n.peersByOrg = Endpoints!PeersByOrg(c, net)
         /\ n.channelPeers = [ch \in DOMAIN Endpoints!Channels(c) |->
                                Endpoints!ChannelPeersOf(c, net, ch, msp)]
         /\ net.channels = Endpoints!Channels(c)
         /\ n # Endpoints!Nothing
<1> DEFINE net == Endpoints!Network(c)
<1>1. net.channels = Endpoints!Channels(c)
  BY DEF Endpoints!Network
<1>2. Endpoints!ChannelsToLoad(net) = DOMAIN net.channels
  BY DEF Endpoints!ChannelsToLoad
<1> HIDE DEF net
<1>3. PICK channels, peersByOrg, channelPeers, defaultChannel, ordererConfigs, channelOrderers, cas,
           peers, orderers, defaultPeer, defaultOrderer :
        /\ channels = [ch \in DOMAIN net.channels \ {Default} |-> net.channels[ch]]
        /\ peersByOrg = Endpoints!PeersByOrg(c, net)
        /\ channelPeers = [ch \in DOMAIN net.channels |-> Endpoints!ChannelPeersOf(c, net, ch, msp)]
        /\ defaultChannel = net.channels[Default]
        /\ peers = net.peers /\ orderers = net.orderers /\ defaultPeer = net.defaultPeer
        /\ defaultOrderer = net.defaultOrderer
        /\ n = [peers |-> peers, orderers |-> orderers, defaultPeer |-> defaultPeer,
                defaultOrderer |-> defaultOrderer, channels |-> channels,
                defaultChannel |-> defaultChannel, peersByOrg |-> peersByOrg,
                ordererConfigs |-> ordererConfigs, channelPeers |-> channelPeers,
                channelOrderers |-> channelOrderers, cas |-> cas]
  BY <1>2 DEF EndpointNet, net
<1>4. /\ n.peers = peers /\ n.orderers = orderers /\ n.defaultPeer = defaultPeer
      /\ n.defaultOrderer = defaultOrderer /\ n.channels = channels
      /\ n.defaultChannel = defaultChannel /\ n.peersByOrg = peersByOrg
      /\ n.channelPeers = channelPeers
  BY <1>3
<1>5. n # Endpoints!Nothing
  <2>1. DOMAIN n # {}
    BY <1>3
  <2>2. DOMAIN Endpoints!Nothing = {}
    BY DEF Endpoints!Nothing
  <2> QED
    BY <2>1, <2>2
<1> QED
  BY <1>1, <1>3, <1>4, <1>5 DEF net

LoadedSoundly(w) ==
  \E msp, last :
    /\ w.net = EndpointNet(w.config, msp, last)
    /\ ~Endpoints!Fails(w.config, Endpoints!Network(w.config))

\* The channel that a name is taken for
ChannelIn(w, key) ==
  IF key \in DOMAIN w.net.channels \/ Endpoints!Deciding(w.config.channelMatchers, key) = {}
  THEN IF key \in DOMAIN w.net.channels THEN key ELSE Default
  ELSE Endpoints!Only(Endpoints!Deciding(w.config.channelMatchers, key)).name

EndpointAnswer(a, w) ==
  /\ a.op = "peer" =>
       a.result \in Endpoints!Search(a.key, w.config.peerMatchers, w.net.peers,
                      Endpoints!Values(w.net.peers), w.net.defaultPeer, TRUE)
  /\ a.op = "orderer" =>
       a.result \in Endpoints!Search(a.key, w.config.ordererMatchers, w.net.orderers,
                      w.net.ordererConfigs, w.net.defaultOrderer, TRUE)
  /\ a.op = "channel" =>
       LET m == ChannelIn(w, a.key) IN
       /\ a.result.config = IF m \in DOMAIN w.net.channels THEN w.net.channels[m]
                            ELSE w.net.defaultChannel
       /\ a.result.peers = IF m \in DOMAIN w.net.channelPeers THEN w.net.channelPeers[m] ELSE <<>>

EndpointWorld(w) ==
  /\ w = [at |-> w.at, config |-> w.config, net |-> w.net]
  /\ w.at \in {"new", "up", "failed", "panicked"} /\ w.config \in Files
  /\ w.at # "up" => w.net = Endpoints!Nothing
  /\ w.at = "up" => LoadedSoundly(w)
EndpointCall(a, w) ==
  /\ a.op \in {"none", "peer", "orderer", "channel", "ca"}
  /\ a.op # "none" => w.at = "up" /\ a.key \in LookedUp /\ EndpointAnswer(a, w)
EndpointsInv == EndpointWorld(world) /\ EndpointCall(call, world)

\* The start of the configuration of endpoints
LEMMA EndpointsStart ==
  ASSUME Endpoints!Init
  PROVE  EndpointsInv
<1>1. EndpointWorld(world)
  BY DEF Endpoints!Init, EndpointWorld
<1>2. call.op = "none"
  BY DEF Endpoints!Init
<1> QED
  BY <1>1, <1>2 DEF EndpointsInv, EndpointCall

\* Every step of the configuration of endpoints keeps the invariant.
LEMMA EndpointsStep ==
  ASSUME EndpointsInv, Endpoints!Next
  PROVE  EndpointsInv'
<1> SUFFICES EndpointWorld(world') /\ EndpointCall(call', world')
  BY DEF EndpointsInv, EndpointWorld, EndpointCall, EndpointAnswer, ChannelIn, LoadedSoundly
<1>0. EndpointWorld(world) /\ EndpointCall(call, world)
  BY DEF EndpointsInv
<1>1. ASSUME world.at = "new", UNCHANGED call, NEW at \in {"failed", "panicked"}, Endpoints!Ends(at)
      PROVE  EndpointWorld(world') /\ EndpointCall(call', world')
  <2>1. world' = [at |-> at, config |-> world.config, net |-> world.net]
    BY <1>0, <1>1 DEF EndpointWorld, Endpoints!Ends
  <2>2. world.net = Endpoints!Nothing /\ world.config \in Files /\ call.op = "none"
    BY <1>0, <1>1 DEF EndpointWorld, EndpointCall
  <2> QED
    BY <1>1, <2>1, <2>2 DEF EndpointWorld, EndpointCall
<1>2. CASE Endpoints!LoadFails
  <2>1. world.at = "new" /\ UNCHANGED call /\ Endpoints!Ends("failed")
    BY <1>2 DEF Endpoints!LoadFails, Endpoints!Ends
  <2> QED
    BY <1>1, <2>1
<1>3. CASE Endpoints!Load
  <2> DEFINE c == world.config
             net == Endpoints!Network(c)
  <2>1. world.at = "new" /\ UNCHANGED call
    BY <1>3 DEF Endpoints!Load, Endpoints!Ends
  <2>2. CASE Endpoints!Ends("panicked") \/ Endpoints!Ends("failed")
    BY <1>1, <2>1, <2>2
  <2>3. CASE ~(Endpoints!Ends("panicked") \/ Endpoints!Ends("failed"))
    <3>1. /\ ~Endpoints!Fails(c, net)
          /\ \E msp, last : world' = [world EXCEPT !.at = "up", !.net = EndpointNet(c, msp, last)]
      BY <1>3, <2>3 DEF Endpoints!Load, EndpointNet
    <3>2. PICK msp, last : world' = [world EXCEPT !.at = "up", !.net = EndpointNet(c, msp, last)]
      BY <3>1
    <3>3. PICK w : w = world'
      OBVIOUS
    <3>4. w = [at |-> "up", config |-> c, net |-> EndpointNet(c, msp, last)]
      BY <1>0, <3>2, <3>3 DEF EndpointWorld
    <3>5. w = [at |-> w.at, config |-> w.config, net |-> w.net] /\ w.at = "up" /\ w.config = c
          /\ w.net = EndpointNet(w.config, msp, last)
      BY <3>4
    <3>6. LoadedSoundly(w)
      BY <3>1, <3>5 DEF LoadedSoundly
    <3>7. EndpointWorld(w)
      BY <1>0, <3>5, <3>6 DEF EndpointWorld
    <3>8. call.op = "none"
      BY <1>0, <2>1 DEF EndpointCall
    <3>9. EndpointCall(call', w)
      BY <2>1, <3>8 DEF EndpointCall
    <3>10. EndpointWorld(world')
      BY <3>3, <3>7
    <3>11. EndpointCall(call', world')
      BY <3>3, <3>9
    <3> QED
      BY <3>10, <3>11
  <2> QED
    BY <2>2, <2>3
<1>4. ASSUME NEW op \in {"peer", "orderer", "channel", "ca"}, NEW k \in LookedUp, NEW r,
             Endpoints!Answer(op, k, r),
             \A a : a.op = op /\ a.key = k /\ a.result = r => EndpointAnswer(a, world)
      PROVE  EndpointWorld(world') /\ EndpointCall(call', world')
  <2>1. world' = world /\ world.at = "up" /\ call' = [op |-> op, key |-> k, result |-> r]
    BY <1>4 DEF Endpoints!Answer
  <2>2. PICK a : a = [op |-> op, key |-> k, result |-> r]
    OBVIOUS
  <2>3. a.op = op /\ a.key = k /\ a.result = r
    BY <2>2
  <2>4. EndpointCall(a, world)
    BY <1>4, <2>1, <2>3 DEF EndpointCall
  <2>5. PICK w : w = world
    OBVIOUS
  <2>6. EndpointCall(a, w) /\ EndpointWorld(w)
    BY <1>0, <2>4, <2>5
  <2> QED
    BY <2>1, <2>2, <2>5, <2>6
<1>5. CASE \E k \in LookedUp : Endpoints!PeerConfig(k)
  <2>1. PICK k \in LookedUp :
          \E e \in Endpoints!Search(k, world.config.peerMatchers, world.net.peers,
                     Endpoints!Values(world.net.peers), world.net.defaultPeer, TRUE) :
            Endpoints!Answer("peer", k, e)
    BY <1>5 DEF Endpoints!PeerConfig, Endpoints!Net
  <2>2. PICK e \in Endpoints!Search(k, world.config.peerMatchers, world.net.peers,
                     Endpoints!Values(world.net.peers), world.net.defaultPeer, TRUE) :
            Endpoints!Answer("peer", k, e)
    BY <2>1
  <2>3. \A a : a.op = "peer" /\ a.key = k /\ a.result = e => EndpointAnswer(a, world)
    BY DEF EndpointAnswer
  <2> QED
    BY <1>4, <2>2, <2>3
<1>6. CASE \E k \in LookedUp : Endpoints!OrdererConfig(k)
  <2>1. PICK k \in LookedUp :
          \E e \in Endpoints!Search(k, world.config.ordererMatchers, world.net.orderers,
                     world.net.ordererConfigs, world.net.defaultOrderer, TRUE) :
            Endpoints!Answer("orderer", k, e)
    BY <1>6 DEF Endpoints!OrdererConfig, Endpoints!Net
  <2>2. PICK e \in Endpoints!Search(k, world.config.ordererMatchers, world.net.orderers,
                     world.net.ordererConfigs, world.net.defaultOrderer, TRUE) :
            Endpoints!Answer("orderer", k, e)
    BY <2>1
  <2>3. \A a : a.op = "orderer" /\ a.key = k /\ a.result = e => EndpointAnswer(a, world)
    BY DEF EndpointAnswer
  <2> QED
    BY <1>4, <2>2, <2>3
<1>7. CASE \E k \in LookedUp : Endpoints!CAConfig(k)
  <2>1. PICK k, r : k \in LookedUp /\ Endpoints!Answer("ca", k, r)
    BY <1>7 DEF Endpoints!CAConfig
  <2>2. \A a : a.op = "ca" => EndpointAnswer(a, world)
    BY DEF EndpointAnswer
  <2> QED
    BY <1>4, <2>1, <2>2
<1>8. CASE \E k \in LookedUp : Endpoints!ChannelConfig(k)
  <2>1. PICK k \in LookedUp : Endpoints!ChannelConfig(k)
    BY <1>8
  <2> DEFINE r == [config |-> Endpoints!ConfigOf(k), peers |-> Endpoints!PeersOf(k),
                   orderers |-> Endpoints!OrderersOf(k)]
             m == ChannelIn(world, k)
  <2>2. Endpoints!Answer("channel", k, r)
    BY <2>1 DEF Endpoints!ChannelConfig
  <2>3. Endpoints!MappedChannelName(k) = m
    BY DEF Endpoints!MappedChannelName, Endpoints!Net, ChannelIn
  <2>4. /\ Endpoints!ConfigOf(k) = IF m \in DOMAIN world.net.channels THEN world.net.channels[m]
                                   ELSE world.net.defaultChannel
        /\ Endpoints!PeersOf(k) = IF m \in DOMAIN world.net.channelPeers
                                  THEN world.net.channelPeers[m] ELSE <<>>
    <3> HIDE DEF m
    <3> QED
      BY <2>3 DEF Endpoints!ConfigOf, Endpoints!PeersOf, Endpoints!Net
  <2>5. ASSUME NEW a, a.op = "channel", a.key = k, a.result = r
        PROVE  EndpointAnswer(a, world)
    <3>1. a.result.config = Endpoints!ConfigOf(k) /\ a.result.peers = Endpoints!PeersOf(k)
      BY <2>5
    <3>2. ChannelIn(world, a.key) = m
      BY <2>5
    <3> HIDE DEF m, r
    <3> QED
      BY <2>4, <2>5, <3>1, <3>2 DEF EndpointAnswer
  <2> HIDE DEF r
  <2> QED
    BY <1>4, <2>2, <2>5
<1> QED
  BY <1>2, <1>3, <1>5, <1>6, <1>7, <1>8 DEF Endpoints!Next

\* What the invariant of the configuration of endpoints says for its properties
LEMMA EndpointsSound ==
  ASSUME Endpoints!EndpointAssumption, EndpointsInv
  PROVE  /\ Endpoints!TypeOK /\ Endpoints!IgnoredIsNowhere /\ Endpoints!ChannelPeersResolve
         /\ Endpoints!SecureHasCerts
<1>0. EndpointWorld(world) /\ EndpointCall(call, world)
  BY DEF EndpointsInv
<1> DEFINE c == world.config
           net == Endpoints!Network(c)
<1>1. c \in Files
  BY <1>0 DEF EndpointWorld
<1>2. ASSUME world.at = "up"
      PROVE  \E msp, last :
               /\ world.net.peers = net.peers /\ world.net.orderers = net.orderers
               /\ world.net.defaultPeer = net.defaultPeer
               /\ world.net.channels = [ch \in DOMAIN Endpoints!Channels(c) \ {Default} |->
                                          Endpoints!Channels(c)[ch]]
               /\ world.net.defaultChannel = Endpoints!Channels(c)[Default]
               /\ world.net.peersByOrg = Endpoints!PeersByOrg(c, net)
               /\ world.net.channelPeers = [ch \in DOMAIN Endpoints!Channels(c) |->
                                              Endpoints!ChannelPeersOf(c, net, ch, msp)]
               /\ net.channels = Endpoints!Channels(c)
               /\ world.net # Endpoints!Nothing
               /\ ~Endpoints!Fails(c, net)
  <2>1. PICK msp, last : /\ world.net = EndpointNet(c, msp, last)
                         /\ ~Endpoints!Fails(c, net)
    BY <1>0, <1>2 DEF EndpointWorld, LoadedSoundly
  <2> HIDE DEF c
  <2>2. PICK n : n = world.net
    OBVIOUS
  <2>3. n = EndpointNet(c, msp, last)
    BY <2>1, <2>2
  <2> QED
    BY <2>1, <2>2, <2>3, EndpointNetIs
<1>3. Endpoints!TypeOK
  <2>1. world.net = Endpoints!Nothing <=> world.at # "up"
    BY <1>0, <1>2 DEF EndpointWorld
  <2> QED
    BY <1>0, <2>1 DEF EndpointWorld, EndpointCall, Endpoints!TypeOK
<1> DEFINE m == ChannelIn(world, call.key)
<1>4. ASSUME call.op = "channel"
      PROVE  /\ world.at = "up"
             /\ call.result.config = IF m \in DOMAIN world.net.channels THEN world.net.channels[m]
                                     ELSE world.net.defaultChannel
             /\ call.result.peers = IF m \in DOMAIN world.net.channelPeers
                                    THEN world.net.channelPeers[m] ELSE <<>>
  BY <1>0, <1>4 DEF EndpointCall, EndpointAnswer
<1>5. Default \in DOMAIN Endpoints!Channels(c)
  BY DEF Endpoints!Channels
<1>6. ASSUME NEW msp, NEW ch
      PROVE  /\ DOMAIN Endpoints!ChannelPeersOf(c, net, ch, msp) = Endpoints!Found(c, net, ch)
             /\ \A p \in Endpoints!Found(c, net, ch) :
                  LET e == Endpoints!ChannelPeersOf(c, net, ch, msp)[p]
                  IN /\ e.endpoint = Endpoints!Peer(c, net, p)
                     /\ e.roles = net.channels[ch].peers[p]
  <2> HIDE DEF net, c
  <2> QED
    BY DEF Endpoints!ChannelPeersOf
<1>7. \A ch, p : p \in Endpoints!Found(c, net, ch) <=>
        p \in DOMAIN net.channels[ch].peers /\ Endpoints!Peer(c, net, p) # Endpoints!NotFound
  <2> HIDE DEF net, c
  <2> QED
    BY DEF Endpoints!Found
<1>8. ASSUME call.op = "channel"
      PROVE  \E ch, msp :
               /\ ch \in DOMAIN Endpoints!Channels(c)
               /\ call.result.config = Endpoints!Channels(c)[ch]
               /\ \/ call.result.peers = <<>> /\ m \notin DOMAIN world.net.channels \cup {Default}
                  \/ call.result.peers = Endpoints!ChannelPeersOf(c, net, ch, msp)
  <2>1. world.at = "up"
    BY <1>4, <1>8
  <2>2. PICK msp, last :
          /\ world.net.channels = [ch \in DOMAIN Endpoints!Channels(c) \ {Default} |->
                                     Endpoints!Channels(c)[ch]]
          /\ world.net.defaultChannel = Endpoints!Channels(c)[Default]
          /\ world.net.channelPeers = [ch \in DOMAIN Endpoints!Channels(c) |->
                                         Endpoints!ChannelPeersOf(c, net, ch, msp)]
    BY <1>2, <2>1
  <2> HIDE DEF m, c, net
  <2>3. CASE m \in DOMAIN world.net.channels
    <3>1. m \in DOMAIN Endpoints!Channels(c) /\ m \in DOMAIN world.net.channelPeers
      BY <2>2, <2>3
    <3>2. /\ call.result.config = Endpoints!Channels(c)[m]
          /\ call.result.peers = Endpoints!ChannelPeersOf(c, net, m, msp)
      BY <1>4, <1>8, <2>2, <2>3, <3>1
    <3> QED
      BY <3>1, <3>2
  <2>4. CASE m = Default
    <3>1. m \notin DOMAIN world.net.channels /\ m \in DOMAIN world.net.channelPeers
      BY <1>5, <2>2, <2>4
    <3>2. /\ call.result.config = Endpoints!Channels(c)[Default]
          /\ call.result.peers = Endpoints!ChannelPeersOf(c, net, Default, msp)
      BY <1>4, <1>5, <1>8, <2>2, <2>4, <3>1
    <3> QED
      BY <1>5, <3>2
  <2>5. CASE m \notin DOMAIN world.net.channels \cup {Default}
    <3>1. m \notin DOMAIN world.net.channelPeers
      BY <2>2, <2>5
    <3>2. call.result.config = Endpoints!Channels(c)[Default] /\ call.result.peers = <<>>
      BY <1>4, <1>8, <2>2, <2>5, <3>1
    <3> QED
      BY <1>5, <2>5, <3>2
  <2> QED
    BY <2>3, <2>4, <2>5
<1>9. Endpoints!IgnoredIsNowhere
  <2>1. ASSUME call.op = "peer", Endpoints!ToBeIgnored(c.peerMatchers, call.key)
        PROVE  call.result = Endpoints!NotFound
    <3>1. call.result \in Endpoints!Search(call.key, c.peerMatchers, world.net.peers,
                            Endpoints!Values(world.net.peers), world.net.defaultPeer, TRUE)
      BY <1>0, <2>1 DEF EndpointCall, EndpointAnswer
    <3>2. PICK S : c.peerMatchers \in Seq(S)
      BY <1>1, EndpointFiles
    <3> HIDE DEF c
    <3> QED
      BY <2>1, <3>1, <3>2, IgnoredNotFound
  <2>2. ASSUME call.op = "orderer", Endpoints!ToBeIgnored(c.ordererMatchers, call.key)
        PROVE  call.result = Endpoints!NotFound
    <3>1. call.result \in Endpoints!Search(call.key, c.ordererMatchers, world.net.orderers,
                            world.net.ordererConfigs, world.net.defaultOrderer, TRUE)
      BY <1>0, <2>2 DEF EndpointCall, EndpointAnswer
    <3>2. PICK S : c.ordererMatchers \in Seq(S)
      BY <1>1, EndpointFiles
    <3> HIDE DEF c
    <3> QED
      BY <2>2, <3>1, <3>2, IgnoredNotFound
  <2>3. ASSUME call.op = "channel"
        PROVE  /\ \A p \in DOMAIN call.result.config.peers :
                    ~Endpoints!ToBeIgnored(c.peerMatchers, p)
               /\ \A p \in DOMAIN call.result.peers : ~Endpoints!ToBeIgnored(c.peerMatchers, p)
               /\ \A i \in DOMAIN call.result.config.orderers :
                    ~Endpoints!ToBeIgnored(c.ordererMatchers, call.result.config.orderers[i])
    <3>1. PICK ch, msp :
            /\ ch \in DOMAIN Endpoints!Channels(c)
            /\ call.result.config = Endpoints!Channels(c)[ch]
            /\ \/ call.result.peers = <<>>
               \/ call.result.peers = Endpoints!ChannelPeersOf(c, net, ch, msp)
      BY <1>8, <2>3
    <3>2. /\ \A p \in DOMAIN call.result.config.peers : ~Endpoints!ToBeIgnored(c.peerMatchers, p)
          /\ \A i \in DOMAIN call.result.config.orderers :
               ~Endpoints!ToBeIgnored(c.ordererMatchers, call.result.config.orderers[i])
      <4> HIDE DEF c
      <4> QED
        BY <1>1, <3>1, ChannelsIgnore
    <3>3. net.channels = Endpoints!Channels(c)
      BY DEF Endpoints!Network
    <3>4. DOMAIN call.result.peers \subseteq DOMAIN call.result.config.peers
      <4>1. CASE call.result.peers = <<>>
        <5>1. DOMAIN call.result.peers = {}
          BY <4>1
        <5> QED
          BY <5>1
      <4>2. CASE call.result.peers = Endpoints!ChannelPeersOf(c, net, ch, msp)
        <5> HIDE DEF c, net
        <5>1. DOMAIN call.result.peers = Endpoints!Found(c, net, ch)
          BY <1>6, <4>2
        <5> QED
          BY <1>7, <3>1, <3>3, <5>1
      <4> QED
        BY <3>1, <4>1, <4>2
    <3> QED
      BY <3>2, <3>4
  <2> QED
    BY <2>1, <2>2, <2>3 DEF Endpoints!IgnoredIsNowhere
<1>10. Endpoints!ChannelPeersResolve
  <2> SUFFICES ASSUME call.op = "channel",
                      Endpoints!MappedChannelName(call.key) \in DOMAIN world.net.channels \cup {Default}
               PROVE  /\ \A p \in DOMAIN call.result.config.peers :
                           p \in DOMAIN call.result.peers
                             <=> Endpoints!Peer(c, world.net, p) # Endpoints!NotFound
                      /\ \A p \in DOMAIN call.result.peers :
                           /\ p \in DOMAIN call.result.config.peers
                           /\ call.result.peers[p].roles = call.result.config.peers[p]
                           /\ call.result.peers[p].endpoint = Endpoints!Peer(c, world.net, p)
    BY DEF Endpoints!ChannelPeersResolve, Endpoints!Net
  <2>1. Endpoints!MappedChannelName(call.key) = m
    BY DEF Endpoints!MappedChannelName, Endpoints!Net, ChannelIn
  <2>2. PICK ch, msp :
          /\ ch \in DOMAIN Endpoints!Channels(c)
          /\ call.result.config = Endpoints!Channels(c)[ch]
          /\ call.result.peers = Endpoints!ChannelPeersOf(c, net, ch, msp)
    <3> HIDE DEF m, c, net
    <3> QED
      BY <1>8, <2>1
  <2>3. net.channels = Endpoints!Channels(c)
    BY DEF Endpoints!Network
  <2>4. world.net.peers = net.peers /\ world.net.defaultPeer = net.defaultPeer
    BY <1>2, <1>4
  <2>5. \A p : Endpoints!Peer(c, world.net, p) = Endpoints!Peer(c, net, p)
    <3> HIDE DEF c, net
    <3> QED
      BY <2>4 DEF Endpoints!Peer
  <2> HIDE DEF c, net, m
  <2>6. DOMAIN call.result.peers = Endpoints!Found(c, net, ch)
    BY <1>6, <2>2
  <2> QED
    BY <1>6, <1>7, <2>2, <2>3, <2>5, <2>6
<1>11. Endpoints!SecureHasCerts
  <2> SUFFICES ASSUME world.at = "up", ~c.systemPool
               PROVE  /\ \A o \in DOMAIN world.net.peersByOrg : \A e \in world.net.peersByOrg[o] :
                           Endpoints!IsTLSEnabled(e.url) => e.cert # None
                      /\ \A ch \in DOMAIN world.net.channelPeers :
                           \A p \in DOMAIN world.net.channelPeers[ch] :
                             LET e == world.net.channelPeers[ch][p].endpoint
                             IN Endpoints!IsTLSEnabled(e.url) => e.cert # None
    BY DEF Endpoints!SecureHasCerts, Endpoints!Net
  <2>1. PICK msp, last :
          /\ world.net.peersByOrg = Endpoints!PeersByOrg(c, net)
          /\ world.net.channelPeers = [ch \in DOMAIN Endpoints!Channels(c) |->
                                         Endpoints!ChannelPeersOf(c, net, ch, msp)]
          /\ net.channels = Endpoints!Channels(c)
          /\ ~Endpoints!Fails(c, net)
    BY <1>2
  <2> HIDE DEF net
  <2>2. \A e : Endpoints!Verified(c, e) => (Endpoints!IsTLSEnabled(e.url) => e.cert # None)
    BY DEF Endpoints!Verified
  <2>3. ASSUME NEW o \in DOMAIN world.net.peersByOrg, NEW e \in world.net.peersByOrg[o]
        PROVE  Endpoints!Verified(c, e)
    BY <2>1 DEF Endpoints!PeersByOrg
  <2>4. ASSUME NEW ch \in DOMAIN world.net.channelPeers,
               NEW p \in DOMAIN world.net.channelPeers[ch]
        PROVE  Endpoints!Verified(c, world.net.channelPeers[ch][p].endpoint)
    <3> HIDE DEF c
    <3>1. /\ ch \in DOMAIN net.channels
          /\ world.net.channelPeers[ch] = Endpoints!ChannelPeersOf(c, net, ch, msp)
      BY <2>1
    <3>2. p \in Endpoints!Found(c, net, ch)
      BY <1>6, <3>1
    <3>3. Endpoints!Verified(c, Endpoints!Peer(c, net, p))
      BY <2>1, <3>1, <3>2 DEF Endpoints!Fails
    <3> QED
      BY <1>6, <3>1, <3>2, <3>3
  <2> QED
    BY <2>2, <2>3, <2>4
<1> QED
  BY <1>3, <1>9, <1>10, <1>11

(***************************************************************************)
(* The parts in one run: a behaviour is one of the part that it started    *)
(* with.                                                                   *)
(***************************************************************************)
AdministrationInv ==
  /\ part \in {"management", "queries", "cycle", "ledgers", "selections", "config",
               "endpoints", "members"}
  /\ (part = "management" => ManagementInv) /\ (part = "queries" => QueriesInv)
  /\ (part = "cycle" => CycleInv) /\ (part = "ledgers" => LedgersInv)
  /\ (part = "selections" => SelectionsInv) /\ (part = "config" => ConfigInv)
  /\ (part = "endpoints" => EndpointsInv) /\ (part = "members" => MembersInv)

\* Each part has what it assumes.
LEMMA Assumptions ==
  /\ Management!ResourceAssumption /\ Queries!LedgerAssumption /\ Cycle!LifecycleAssumption
  /\ Ledgers!TransactionAssumption /\ Selections!SelectionAssumption
  /\ Config!ConfigAssumption /\ Members!MspAssumption /\ Endpoints!EndpointAssumption
BY AdministrationAssumption

\* A behaviour starts in the invariant of its part,
LEMMA AdministrationStart ==
  ASSUME MCInit
  PROVE  AdministrationInv
<1>1. CASE part = "management" /\ Management!Init
  BY <1>1, Assumptions, ManagementStart DEF AdministrationInv
<1>2. CASE part = "queries" /\ Queries!Init
  BY <1>2, Assumptions, QueriesStart DEF AdministrationInv
<1>3. CASE part = "cycle" /\ Cycle!Init
  BY <1>3, Assumptions, CycleStart DEF AdministrationInv
<1>4. CASE part = "ledgers" /\ Ledgers!Init
  BY <1>4, Assumptions, LedgersStart DEF AdministrationInv
<1>5. CASE part = "selections" /\ Selections!Init
  BY <1>5, Assumptions, SelectionsStart DEF AdministrationInv
<1>6. CASE part = "config" /\ Config!Init
  BY <1>6, Assumptions, ConfigStart DEF AdministrationInv
<1>7. CASE part = "endpoints" /\ Endpoints!Init
  BY <1>7, EndpointsStart DEF AdministrationInv
<1>8. CASE part = "members" /\ Members!Init
  BY <1>8, MembersStart DEF AdministrationInv
<1> QED
  BY <1>1, <1>2, <1>3, <1>4, <1>5, <1>6, <1>7, <1>8 DEF MCInit

\* A step of nobody leaves every invariant as it was.
LEMMA AdministrationStays ==
  ASSUME AdministrationInv, UNCHANGED all
  PROVE  AdministrationInv'
<1>u. UNCHANGED <<part, call, world, chain, heights, browse, counts>>
  BY DEF all, rest
<1>0. part' \in {"management", "queries", "cycle", "ledgers", "selections", "config",
                 "endpoints", "members"}
  BY <1>u DEF AdministrationInv
<1>1. ASSUME ManagementInv
      PROVE  ManagementInv'
  BY <1>u, <1>1 DEF ManagementInv, CallType, WorldType, Underway, Management!SuccessIsDone,
     Management!Tx, Management!AskedAsTold
<1>2. ASSUME QueriesInv
      PROVE  QueriesInv'
  BY <1>u, <1>2 DEF QueriesInv, AskedOnce, AgreedUpon
<1>3. ASSUME CycleInv
      PROVE  CycleInv'
  <2>1. CycleChainType'
    BY <1>u, <1>3 DEF CycleInv, CycleChainType
  <2>2. CycleCallType'
    BY <1>u, <1>3 DEF CycleInv, CycleCallType, CycleCallShape
  <2>3. CycleUnderway'
    <3>1. \A h, p : CycleSays(h, p)' = CycleSays(h, p)
      BY <1>u DEF CycleSays, Cycle!Prefix, Cycle!Answers
    <3>2. CycleUnderway
      BY <1>3 DEF CycleInv
    <3> QED
      BY <1>u, <3>1, <3>2 DEF CycleUnderway
  <2>4. CycleTells'
    <3>1. CycleTells
      BY <1>3 DEF CycleInv
    <3>2. Cycle!NotOlderThanAsked'
      BY <1>u, <3>1 DEF CycleTells, Cycle!NotOlderThanAsked, Cycle!Told, Cycle!Prefix
    <3>3. Cycle!ToldAsAskedFor'
      BY <1>u, <3>1 DEF CycleTells, Cycle!ToldAsAskedFor, Cycle!Told
    <3>4. Cycle!SameIsNoMismatch'
      <4> DEFINE Same(c) ==
            c.result = "mismatch" => \E i, j \in DOMAIN c.answers :
              IF c.op = "all"
              THEN {c.answers[i][k] : k \in DOMAIN c.answers[i]}
                     # {c.answers[j][k] : k \in DOMAIN c.answers[j]}
              ELSE c.answers[i] # c.answers[j]
      <4>1. Same(call)
        BY <3>1 DEF CycleTells, Cycle!SameIsNoMismatch
      <4>2. call' = call
        BY <1>u
      <4> HIDE DEF Same
      <4>3. Same(call')
        BY <4>1, <4>2
      <4> QED
        BY <4>3 DEF Same, Cycle!SameIsNoMismatch
    <3> QED
      BY <3>2, <3>3, <3>4 DEF CycleTells
  <2> QED
    BY <2>1, <2>2, <2>3, <2>4 DEF CycleInv
<1>4. ASSUME LedgersInv
      PROVE  LedgersInv'
  BY <1>u, <1>4 DEF LedgersInv, WorkSound, ChainSound, BrowseSound, BrowseType, BrowseLimits,
     Wanted, FromRequest, OrderedSoundly
<1>5. ASSUME SelectionsInv
      PROVE  SelectionsInv'
  BY <1>u, <1>5 DEF SelectionsInv, SelectionCalls
<1>6. ASSUME ConfigInv
      PROVE  ConfigInv'
  BY <1>u, <1>6 DEF ConfigInv
<1>7. ASSUME EndpointsInv
      PROVE  EndpointsInv'
  BY <1>u, <1>7 DEF EndpointsInv
<1>8. ASSUME MembersInv
      PROVE  MembersInv'
  BY <1>u, <1>8 DEF MembersInv
<1> QED
  BY <1>u, <1>0, <1>1, <1>2, <1>3, <1>4, <1>5, <1>6, <1>7, <1>8 DEF AdministrationInv

\* Every step keeps the invariant of its part.
LEMMA AdministrationStep ==
  ASSUME AdministrationInv, [MCNext]_all
  PROVE  AdministrationInv'
<1>1. CASE ManagementSteps
  BY <1>1, Assumptions, ManagementStep DEF ManagementSteps, AdministrationInv
<1>2. CASE QuerySteps
  BY <1>2, Assumptions, QueriesStep DEF QuerySteps, AdministrationInv
<1>3. CASE CycleSteps
  BY <1>3, Assumptions, CycleStep DEF CycleSteps, AdministrationInv
<1>4. CASE LedgerSteps
  BY <1>4, Assumptions, LedgersStep DEF LedgerSteps, AdministrationInv
<1>5. CASE SelectionSteps
  BY <1>5, Assumptions, SelectionsStep DEF SelectionSteps, AdministrationInv
<1>6. CASE ConfigSteps
  BY <1>6, Assumptions, ConfigStep DEF ConfigSteps, AdministrationInv
<1>7. CASE EndpointSteps
  BY <1>7, Assumptions, EndpointsStep DEF EndpointSteps, AdministrationInv
<1>8. CASE MemberSteps
  BY <1>8, Assumptions, MembersStep DEF MemberSteps, AdministrationInv
<1>9. CASE UNCHANGED all
  BY <1>9, AdministrationStays
<1> QED
  BY <1>1, <1>2, <1>3, <1>4, <1>5, <1>6, <1>7, <1>8, <1>9 DEF MCNext

\* so the invariant holds throughout.
LEMMA AdministrationInvHolds == MCSpec => []AdministrationInv
<1>1. MCInit => AdministrationInv
  BY AdministrationStart
<1>2. AdministrationInv /\ [MCNext]_all => AdministrationInv'
  BY AdministrationStep
<1> QED
  BY <1>1, <1>2, PTL DEF MCSpec

\* The state of every part keeps its shape: resource management, queries of ledgers, the life
\* cycle of chaincodes, transactions and the browser, selection, updates of the channel
\* configuration, the configuration of endpoints and the MSP.
THEOREM TypesCorrect == MCSpec => []TypesOK
<1>1. AdministrationInv => TypesOK
  BY Assumptions, ManagementSound, QueriesSound, CycleSound, LedgersSound, SelectionsSound,
     ConfigSound, EndpointsSound, MembersSound
     DEF AdministrationInv, TypesOK
<1> QED
  BY <1>1, AdministrationInvHolds, PTL

\* What a caller is told is what the peers and the ledger have: resource management that
\* succeeds has reached everybody it was to reach (resmgmt.go); enough agreeing answers of a
\* ledger are right unless as many peers lie (ledger.go, verify.go); what peers report of a
\* definition is not older than what the call could know of, and is what was asked for
\* (lifecycle.go); a transaction is ordered as it was endorsed (txn.go) and blocks are told of
\* as they were committed; and the endorsers that are selected satisfy the policies of all
\* chaincodes (pgresolver) or fill the layout that was proposed, for every tree of rules,
\* every number of peers and every answer of the discovery service.
THEOREM AnswersAreSound == MCSpec => []AnswersSound
<1>1. AdministrationInv => AnswersSound
  BY Assumptions, ManagementSound, QueriesSound, CycleSound, LedgersSound, SelectionsSound
     DEF AdministrationInv, AnswersSound
<1> QED
  BY <1>1, AdministrationInvHolds, PTL

\* An answer of a ledger that enough peers agree on is right, unless as many of them lie.
THEOREM AgreedIsTrue == MCSpec => [](part = "queries" => Queries!TrueUnlessMinLie)
<1>1. AdministrationInv => (part = "queries" => Queries!TrueUnlessMinLie)
  BY Assumptions, QueriesSound DEF AdministrationInv
<1> QED
  BY <1>1, AdministrationInvHolds, PTL

\* What peers report of a definition is not older than what one of them knew when the call
\* began, however far behind the others are and whatever is committed meanwhile.
THEOREM ReportedIsRecent == MCSpec => [](part = "cycle" => Cycle!NotOlderThanAsked)
<1>1. AdministrationInv => (part = "cycle" => Cycle!NotOlderThanAsked)
  BY Assumptions, CycleSound DEF AdministrationInv
<1> QED
  BY <1>1, AdministrationInvHolds, PTL

\* The peers that are selected can satisfy the policies of all chaincodes of the call, and none
\* are selected only when the peers there are cannot; or they fill the layout of the discovery
\* service's response.
THEOREM SelectedAreEnough ==
  MCSpec => [](part = "selections" => Selections!SatisfiesPolicies /\ Selections!FillsLayout)
<1>1. AdministrationInv => (part = "selections" =>
                              Selections!SatisfiesPolicies /\ Selections!FillsLayout)
  BY SelectionsSound DEF AdministrationInv
<1> QED
  BY <1>1, AdministrationInvHolds, PTL

\* What the configuration promises: a channel is created as planned; an endpoint that a
\* matcher ignores is found nowhere, the peers of a channel can be resolved and secure
\* endpoints have certificates (endpointconfig.go); an identity has at most one role, which
\* makes it a member (mspimplsetup.go, mspimplvalidate.go).
THEOREM ConfigurationIsSound == MCSpec => []ConfigurationSound
<1>1. AdministrationInv => ConfigurationSound
  BY Assumptions, ConfigSound, EndpointsSound, MembersSound
     DEF AdministrationInv, ConfigurationSound
<1> QED
  BY <1>1, AdministrationInvHolds, PTL

\* An update of the channel configuration that is taken changes what its administrator edited
\* and nothing that somebody else changed meanwhile, and every element that it sets is based
\* on the version that the administrator saw (update.go, the orderer's check of versions).
THEOREM EditsAreSound == MCSpec => EditsSound
<1>1. ASSUME AdministrationInv, [MCNext]_all
      PROVE  [part = "config" => Config!MergesEditsStep /\ Config!SetsWhatItSawStep]_all
  <2>1. CASE UNCHANGED all
    BY <2>1
  <2>2. ASSUME part = "config", ~UNCHANGED all
        PROVE  Config!MergesEditsStep /\ Config!SetsWhatItSawStep
    <3>1. ConfigInv /\ Config!Next
      BY <1>1, <2>2
         DEF AdministrationInv, MCNext, ManagementSteps, QuerySteps, CycleSteps, LedgerSteps,
             SelectionSteps, ConfigSteps, EndpointSteps, MemberSteps
    <3> QED
      BY <3>1, Assumptions, ConfigStep, ConfigEdits
  <2> QED
    BY <2>1, <2>2
<1>2. MCSpec => [][MCNext]_all
  BY PTL DEF MCSpec
<1> QED
  BY <1>1, <1>2, AdministrationInvHolds, PTL DEF EditsSound
=============================================================================
