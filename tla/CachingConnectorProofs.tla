----------------------- MODULE CachingConnectorProofs -----------------------
(***************************************************************************)
(* Proofs about CachingConnector for every number of connections, targets, *)
(* users, janitors and callers of Close.                                   *)
(***************************************************************************)
EXTENDS CachingConnector, FiniteSetTheorems, TLAPS

(***************************************************************************)
(* The inductive invariant: the properties themselves and three facts      *)
(* about how the users, the index and the two channels belong together.    *)
(***************************************************************************)

\* A goroutine outside the connector counts for no connection, one inside
\* counts for a connection that was dialled.
UsersHold ==
  \A u \in Users : /\ uconn[u] = NoConn <=> upc[u] = "out"
                   /\ uconn[u] # NoConn => target[uconn[u]] # NoTarget

\* Only dialled connections are indexed, and an undialled one is not shut down.
IndexedAreDialled ==
  \A c \in Conns : target[c] = NoTarget => c \notin index /\ state[c] = "Pending"

\* Close closes both channels in one locked region.
ClosedTogether == janitorClosed = "closed" <=> Closed

IInv == /\ TypeOK
        /\ UsersHold
        /\ IndexedAreDialled
        /\ ClosedTogether
        /\ CacheConsistent
        /\ NothingLeaks
        /\ OpenCountExact
        /\ OneJanitor

-----------------------------------------------------------------------------
(* Users who hold a connection.                                            *)

\* Every set of holders is finite, so that Cardinality counts it.
LEMMA HoldersFinite ==
  ASSUME NEW c PROVE IsFiniteSet(Holders(c)) /\ Cardinality(Holders(c)) \in Nat
<1>1. Holders(c) \subseteq Users
  BY DEF Holders
<1>2. IsFiniteSet(Holders(c))
  BY <1>1, FS_Subset, ConstantsAssumption
<1> QED
  BY <1>2, FS_CardinalityType

\* A user who enters with connection d adds one to the holders of d.
LEMMA HoldersEnter ==
  ASSUME TypeOK, NEW u \in Users, uconn[u] = NoConn, NEW d \in Conns,
         uconn' = [uconn EXCEPT ![u] = d]
  PROVE  /\ Cardinality(Holders(d)') = Cardinality(Holders(d)) + 1
         /\ \A c \in Conns : c # d => Holders(c)' = Holders(c)
<1>1. NoConn \notin Conns
  BY ConstantsAssumption
<1>2. Holders(d)' = Holders(d) \cup {u}
  BY DEF Holders, TypeOK
<1>3. u \notin Holders(d)
  BY <1>1 DEF Holders
<1>4. Cardinality(Holders(d)') = Cardinality(Holders(d)) + 1
  BY <1>2, <1>3, HoldersFinite, FS_AddElement
<1>5. \A c \in Conns : c # d => Holders(c)' = Holders(c)
  BY <1>1 DEF Holders, TypeOK
<1> QED
  BY <1>4, <1>5

\* A user who leaves takes one from the holders of its connection.
LEMMA HoldersLeave ==
  ASSUME TypeOK, NEW u \in Users, uconn[u] \in Conns,
         uconn' = [uconn EXCEPT ![u] = NoConn]
  PROVE  /\ Cardinality(Holders(uconn[u])) > 0
         /\ Cardinality({v \in Users : uconn'[v] = uconn[u]})
              = Cardinality(Holders(uconn[u])) - 1
         /\ \A c \in Conns : c # uconn[u] => Holders(c)' = Holders(c)
<1> DEFINE d == uconn[u]
           after == {v \in Users : uconn'[v] = d}
<1>1. NoConn \notin Conns
  BY ConstantsAssumption
<1>2. after = Holders(d) \ {u}
  BY <1>1 DEF Holders, TypeOK
<1>3. u \in Holders(d)
  BY DEF Holders
<1>4. Cardinality(after) = Cardinality(Holders(d)) - 1
  BY <1>2, <1>3, HoldersFinite, FS_RemoveElement
<1>5. Cardinality(Holders(d)) > 0
  BY <1>3, HoldersFinite, FS_EmptySet
<1>6. \A c \in Conns : c # d => Holders(c)' = Holders(c)
  BY <1>1 DEF Holders, TypeOK
<1> QED
  BY <1>4, <1>5, <1>6

-----------------------------------------------------------------------------
(* The steps.                                                              *)

\* setClosed keeps the types of what it changes; so does removeConn.
LEMMA SetClosedType ==
  ASSUME TypeOK, NEW c \in Conns, setClosed(c)
  PROVE  open' \in [Conns -> Nat] /\ idle' \in [Conns -> BOOLEAN]
<1>1. \A n \in Nat : n > 0 => n - 1 \in Nat
  OBVIOUS
<1>2. open' \in [Conns -> Nat]
  BY <1>1 DEF setClosed, TypeOK
<1>3. idle' \in [Conns -> BOOLEAN]
  BY DEF setClosed, TypeOK
<1> QED
  BY <1>2, <1>3

LEMMA RemoveConnsType ==
  ASSUME TypeOK, NEW R, removeConns(R)
  PROVE  /\ index' \subseteq Conns
         /\ conns' \in [Targets -> Conns \cup {NoConn}]
         /\ state' \in [Conns -> GrpcStates]
BY DEF removeConns, TypeOK, GrpcStates

\* Every step keeps the types.
LEMMA TypeStep ==
  ASSUME TypeOK, UsersHold, [Next]_vars
  PROVE  TypeOK'
<1> USE DEF TypeOK, UsersHold, JanitorPc, UserPc, CloserPc, GrpcStates, UserAt, JanitorAt, CloserAt, cache, chans, Closed
<1>1. ASSUME NEW u \in Users, NEW t \in Targets, DialCached(u, t)
     PROVE  TypeOK'
  BY <1>1 DEF DialCached
<1>2. ASSUME NEW u \in Users, NEW t \in Targets, DialRefused(u, t)
     PROVE  TypeOK'
  BY <1>2 DEF DialRefused, dropShutdown, ensureJanitorStarted
<1>3. ASSUME NEW u \in Users, NEW t \in Targets, NEW c \in Conns,
             DialNew(u, t, c)
     PROVE  TypeOK'
  BY <1>3 DEF DialNew, dropShutdown, ensureJanitorStarted, Fresh
<1>4. ASSUME NEW u \in Users, WaitReady(u)
     PROVE  TypeOK'
  BY <1>4 DEF WaitReady
<1>5. ASSUME NEW u \in Users, WaitFails(u)
     PROVE  TypeOK'
  BY <1>5 DEF WaitFails
<1>6. ASSUME NEW u \in Users, DialReturns(u)
     PROVE  TypeOK'
  BY <1>6 DEF DialReturns, ensureJanitorStarted
<1>7. ASSUME NEW u \in Users, DialFails(u)
     PROVE  TypeOK'
  <2>1. uconn[u] \in Conns
    BY <1>7, ConstantsAssumption DEF DialFails
  <2> QED
    BY <1>7, <2>1, SetClosedType, RemoveConnsType DEF DialFails
<1>8. ASSUME NEW u \in Users, ReleaseConn(u)
     PROVE  TypeOK'
  <2>1. uconn[u] \in Conns /\ uconn[u] # NoConn
    BY <1>8, ConstantsAssumption DEF ReleaseConn
  <2>2. CASE Closed
    BY <1>8, <2>1, <2>2 DEF ReleaseConn
  <2>3. CASE ~Closed /\ uconn[u] \notin index
    BY <1>8, <2>1, <2>3 DEF ReleaseConn
  <2>4. CASE ~Closed /\ uconn[u] \in index
    BY <1>8, <2>1, <2>4, SetClosedType DEF ReleaseConn, ensureJanitorStarted
  <2> QED
    BY <2>2, <2>3, <2>4
<1>9. ASSUME NEW j \in Janitors, EnterSelect(j)
     PROVE  TypeOK'
  BY <1>9 DEF EnterSelect
<1>10. ASSUME NEW j \in Janitors, Tick(j)
     PROVE  TypeOK'
  BY <1>10 DEF Tick
<1>11. ASSUME NEW j \in Janitors, Stopped(j)
     PROVE  TypeOK'
  BY <1>11 DEF Stopped
<1>12. ASSUME NEW j \in Janitors, Sweep(j)
     PROVE  TypeOK'
  BY <1>12 DEF Sweep, removeConns, Swept
<1>13. ASSUME NEW j \in Janitors, HandBack(j)
     PROVE  TypeOK'
  BY <1>13 DEF HandBack
<1>14. ASSUME NEW j \in Janitors, JanitorReturns(j)
     PROVE  TypeOK'
  BY <1>14 DEF JanitorReturns
<1>15. ASSUME NEW k \in Closers, CloseCheck(k)
     PROVE  TypeOK'
  BY <1>15 DEF CloseCheck
<1>16. ASSUME NEW k \in Closers, CloseSelect(k)
     PROVE  TypeOK'
  BY <1>16 DEF CloseSelect
<1>17. ASSUME NEW k \in Closers, CloseSend(k)
     PROVE  TypeOK'
  BY <1>17 DEF CloseSend
<1>18. ASSUME NEW k \in Closers, CloseWait(k)
     PROVE  TypeOK'
  BY <1>18 DEF CloseWait
<1>19. ASSUME NEW k \in Closers, CloseFlush(k)
     PROVE  TypeOK'
  BY <1>19 DEF CloseFlush
<1>20. ASSUME NEW c \in Conns, NEW s \in GrpcStates, GrpcChanges(c, s)
     PROVE  TypeOK'
  BY <1>20 DEF GrpcChanges
<1>21. ASSUME NEW c \in Conns, IdleElapses(c)
     PROVE  TypeOK'
  BY <1>21 DEF IdleElapses
<1>22. ASSUME NEW u \in Users, HolderCloses(u)
     PROVE  TypeOK'
  BY <1>22, ConstantsAssumption DEF HolderCloses
<1>23. CASE UNCHANGED vars
  BY <1>23 DEF vars
<1> QED
  BY <1>1, <1>2, <1>3, <1>4, <1>5, <1>6, <1>7, <1>8, <1>9, <1>10, <1>11,
     <1>12, <1>13, <1>14, <1>15, <1>16, <1>17, <1>18, <1>19, <1>20, <1>21,
     <1>22, <1>23
     DEF Next, User, Janitor, Closer, Environment

\* Every step keeps what the users count for.
LEMMA UsersHoldStep ==
  ASSUME TypeOK, UsersHold, CacheConsistent, IndexedAreDialled, [Next]_vars
  PROVE  UsersHold'
<1> USE DEF TypeOK, UsersHold, CacheConsistent, IndexedAreDialled, UserAt, JanitorAt, CloserAt, cache, chans, Closed
<1>1. ASSUME NEW u \in Users, NEW t \in Targets, DialCached(u, t)
     PROVE  UsersHold'
  BY <1>1, ConstantsAssumption DEF DialCached
<1>2. ASSUME NEW u \in Users, NEW t \in Targets, DialRefused(u, t)
     PROVE  UsersHold'
  BY <1>2 DEF DialRefused, dropShutdown, ensureJanitorStarted
<1>3. ASSUME NEW u \in Users, NEW t \in Targets, NEW c \in Conns,
             DialNew(u, t, c)
     PROVE  UsersHold'
  BY <1>3, ConstantsAssumption DEF DialNew, dropShutdown, ensureJanitorStarted, Fresh
<1>4. ASSUME NEW u \in Users, WaitReady(u)
     PROVE  UsersHold'
  BY <1>4 DEF WaitReady
<1>5. ASSUME NEW u \in Users, WaitFails(u)
     PROVE  UsersHold'
  BY <1>5 DEF WaitFails
<1>6. ASSUME NEW u \in Users, DialReturns(u)
     PROVE  UsersHold'
  BY <1>6 DEF DialReturns, ensureJanitorStarted
<1>7. ASSUME NEW u \in Users, DialFails(u)
     PROVE  UsersHold'
  BY <1>7 DEF DialFails, setClosed, removeConns
<1>8. ASSUME NEW u \in Users, ReleaseConn(u)
     PROVE  UsersHold'
  BY <1>8 DEF ReleaseConn, setClosed, ensureJanitorStarted
<1>9. ASSUME NEW j \in Janitors, EnterSelect(j)
     PROVE  UsersHold'
  BY <1>9 DEF EnterSelect
<1>10. ASSUME NEW j \in Janitors, Tick(j)
     PROVE  UsersHold'
  BY <1>10 DEF Tick
<1>11. ASSUME NEW j \in Janitors, Stopped(j)
     PROVE  UsersHold'
  BY <1>11 DEF Stopped
<1>12. ASSUME NEW j \in Janitors, Sweep(j)
     PROVE  UsersHold'
  BY <1>12 DEF Sweep, removeConns, Swept
<1>13. ASSUME NEW j \in Janitors, HandBack(j)
     PROVE  UsersHold'
  BY <1>13 DEF HandBack
<1>14. ASSUME NEW j \in Janitors, JanitorReturns(j)
     PROVE  UsersHold'
  BY <1>14 DEF JanitorReturns
<1>15. ASSUME NEW k \in Closers, CloseCheck(k)
     PROVE  UsersHold'
  BY <1>15 DEF CloseCheck
<1>16. ASSUME NEW k \in Closers, CloseSelect(k)
     PROVE  UsersHold'
  BY <1>16 DEF CloseSelect
<1>17. ASSUME NEW k \in Closers, CloseSend(k)
     PROVE  UsersHold'
  BY <1>17 DEF CloseSend
<1>18. ASSUME NEW k \in Closers, CloseWait(k)
     PROVE  UsersHold'
  BY <1>18 DEF CloseWait
<1>19. ASSUME NEW k \in Closers, CloseFlush(k)
     PROVE  UsersHold'
  BY <1>19 DEF CloseFlush
<1>20. ASSUME NEW c \in Conns, NEW s \in GrpcStates, GrpcChanges(c, s)
     PROVE  UsersHold'
  BY <1>20 DEF GrpcChanges
<1>21. ASSUME NEW c \in Conns, IdleElapses(c)
     PROVE  UsersHold'
  BY <1>21 DEF IdleElapses
<1>22. ASSUME NEW u \in Users, HolderCloses(u)
     PROVE  UsersHold'
  BY <1>22 DEF HolderCloses
<1>23. CASE UNCHANGED vars
  BY <1>23 DEF vars
<1> QED
  BY <1>1, <1>2, <1>3, <1>4, <1>5, <1>6, <1>7, <1>8, <1>9, <1>10, <1>11,
     <1>12, <1>13, <1>14, <1>15, <1>16, <1>17, <1>18, <1>19, <1>20, <1>21,
     <1>22, <1>23
     DEF Next, User, Janitor, Closer, Environment

\* Undialled connections stay out of the index.
LEMMA IndexedStep ==
  ASSUME TypeOK, UsersHold, CacheConsistent, IndexedAreDialled, [Next]_vars
  PROVE  IndexedAreDialled'
<1> USE DEF TypeOK, UsersHold, CacheConsistent, IndexedAreDialled, GrpcStates, UserAt, JanitorAt, CloserAt, cache, chans, Closed
<1>1. ASSUME NEW u \in Users, NEW t \in Targets, DialCached(u, t)
     PROVE  IndexedAreDialled'
  BY <1>1, ConstantsAssumption DEF DialCached
<1>2. ASSUME NEW u \in Users, NEW t \in Targets, DialRefused(u, t)
     PROVE  IndexedAreDialled'
  BY <1>2 DEF DialRefused, dropShutdown, ensureJanitorStarted
<1>3. ASSUME NEW u \in Users, NEW t \in Targets, NEW c \in Conns,
             DialNew(u, t, c)
     PROVE  IndexedAreDialled'
  BY <1>3, ConstantsAssumption DEF DialNew, dropShutdown, ensureJanitorStarted, Fresh
<1>4. ASSUME NEW u \in Users, WaitReady(u)
     PROVE  IndexedAreDialled'
  BY <1>4 DEF WaitReady
<1>5. ASSUME NEW u \in Users, WaitFails(u)
     PROVE  IndexedAreDialled'
  BY <1>5 DEF WaitFails
<1>6. ASSUME NEW u \in Users, DialReturns(u)
     PROVE  IndexedAreDialled'
  BY <1>6 DEF DialReturns, ensureJanitorStarted
<1>7. ASSUME NEW u \in Users, DialFails(u)
     PROVE  IndexedAreDialled'
  <2>1. uconn[u] \in Conns
    BY <1>7, ConstantsAssumption DEF DialFails
  <2> QED
    BY <1>7, <2>1 DEF DialFails, setClosed, removeConns
<1>8. ASSUME NEW u \in Users, ReleaseConn(u)
     PROVE  IndexedAreDialled'
  <2>1. uconn[u] \in Conns /\ uconn[u] # NoConn
    BY <1>8, ConstantsAssumption DEF ReleaseConn
  <2>2. CASE Closed
    BY <1>8, <2>1, <2>2 DEF ReleaseConn
  <2>3. CASE ~Closed /\ uconn[u] \notin index
    BY <1>8, <2>1, <2>3 DEF ReleaseConn
  <2>4. CASE ~Closed /\ uconn[u] \in index
    BY <1>8, <2>1, <2>4 DEF ReleaseConn, setClosed, ensureJanitorStarted
  <2> QED
    BY <2>2, <2>3, <2>4
<1>9. ASSUME NEW j \in Janitors, EnterSelect(j)
     PROVE  IndexedAreDialled'
  BY <1>9 DEF EnterSelect
<1>10. ASSUME NEW j \in Janitors, Tick(j)
     PROVE  IndexedAreDialled'
  BY <1>10 DEF Tick
<1>11. ASSUME NEW j \in Janitors, Stopped(j)
     PROVE  IndexedAreDialled'
  BY <1>11 DEF Stopped
<1>12. ASSUME NEW j \in Janitors, Sweep(j)
     PROVE  IndexedAreDialled'
  BY <1>12 DEF Sweep, removeConns, Swept
<1>13. ASSUME NEW j \in Janitors, HandBack(j)
     PROVE  IndexedAreDialled'
  BY <1>13 DEF HandBack
<1>14. ASSUME NEW j \in Janitors, JanitorReturns(j)
     PROVE  IndexedAreDialled'
  BY <1>14 DEF JanitorReturns
<1>15. ASSUME NEW k \in Closers, CloseCheck(k)
     PROVE  IndexedAreDialled'
  BY <1>15 DEF CloseCheck
<1>16. ASSUME NEW k \in Closers, CloseSelect(k)
     PROVE  IndexedAreDialled'
  BY <1>16 DEF CloseSelect
<1>17. ASSUME NEW k \in Closers, CloseSend(k)
     PROVE  IndexedAreDialled'
  BY <1>17 DEF CloseSend
<1>18. ASSUME NEW k \in Closers, CloseWait(k)
     PROVE  IndexedAreDialled'
  BY <1>18 DEF CloseWait
<1>19. ASSUME NEW k \in Closers, CloseFlush(k)
     PROVE  IndexedAreDialled'
  BY <1>19 DEF CloseFlush
<1>20. ASSUME NEW c \in Conns, NEW s \in GrpcStates, GrpcChanges(c, s)
     PROVE  IndexedAreDialled'
  BY <1>20 DEF GrpcChanges
<1>21. ASSUME NEW c \in Conns, IdleElapses(c)
     PROVE  IndexedAreDialled'
  BY <1>21 DEF IdleElapses
<1>22. ASSUME NEW u \in Users, HolderCloses(u)
     PROVE  IndexedAreDialled'
  BY <1>22, ConstantsAssumption DEF HolderCloses
<1>23. CASE UNCHANGED vars
  BY <1>23 DEF vars
<1> QED
  BY <1>1, <1>2, <1>3, <1>4, <1>5, <1>6, <1>7, <1>8, <1>9, <1>10, <1>11,
     <1>12, <1>13, <1>14, <1>15, <1>16, <1>17, <1>18, <1>19, <1>20, <1>21,
     <1>22, <1>23
     DEF Next, User, Janitor, Closer, Environment

\* The two channels are closed together.
LEMMA ClosedTogetherStep ==
  ASSUME TypeOK, ClosedTogether, [Next]_vars
  PROVE  ClosedTogether'
<1> USE DEF TypeOK, ClosedTogether, UserAt, JanitorAt, CloserAt, cache, chans, Closed
<1>1. ASSUME NEW u \in Users, NEW t \in Targets, DialCached(u, t)
     PROVE  ClosedTogether'
  BY <1>1 DEF DialCached
<1>2. ASSUME NEW u \in Users, NEW t \in Targets, DialRefused(u, t)
     PROVE  ClosedTogether'
  BY <1>2 DEF DialRefused, dropShutdown, ensureJanitorStarted
<1>3. ASSUME NEW u \in Users, NEW t \in Targets, NEW c \in Conns,
             DialNew(u, t, c)
     PROVE  ClosedTogether'
  BY <1>3 DEF DialNew, dropShutdown, ensureJanitorStarted, Fresh
<1>4. ASSUME NEW u \in Users, WaitReady(u)
     PROVE  ClosedTogether'
  BY <1>4 DEF WaitReady
<1>5. ASSUME NEW u \in Users, WaitFails(u)
     PROVE  ClosedTogether'
  BY <1>5 DEF WaitFails
<1>6. ASSUME NEW u \in Users, DialReturns(u)
     PROVE  ClosedTogether'
  BY <1>6 DEF DialReturns, ensureJanitorStarted
<1>7. ASSUME NEW u \in Users, DialFails(u)
     PROVE  ClosedTogether'
  BY <1>7 DEF DialFails, setClosed, removeConns
<1>8. ASSUME NEW u \in Users, ReleaseConn(u)
     PROVE  ClosedTogether'
  BY <1>8 DEF ReleaseConn, setClosed, ensureJanitorStarted
<1>9. ASSUME NEW j \in Janitors, EnterSelect(j)
     PROVE  ClosedTogether'
  BY <1>9 DEF EnterSelect
<1>10. ASSUME NEW j \in Janitors, Tick(j)
     PROVE  ClosedTogether'
  BY <1>10 DEF Tick
<1>11. ASSUME NEW j \in Janitors, Stopped(j)
     PROVE  ClosedTogether'
  BY <1>11 DEF Stopped
<1>12. ASSUME NEW j \in Janitors, Sweep(j)
     PROVE  ClosedTogether'
  BY <1>12 DEF Sweep, removeConns, Swept
<1>13. ASSUME NEW j \in Janitors, HandBack(j)
     PROVE  ClosedTogether'
  BY <1>13 DEF HandBack
<1>14. ASSUME NEW j \in Janitors, JanitorReturns(j)
     PROVE  ClosedTogether'
  BY <1>14 DEF JanitorReturns
<1>15. ASSUME NEW k \in Closers, CloseCheck(k)
     PROVE  ClosedTogether'
  BY <1>15 DEF CloseCheck
<1>16. ASSUME NEW k \in Closers, CloseSelect(k)
     PROVE  ClosedTogether'
  BY <1>16 DEF CloseSelect
<1>17. ASSUME NEW k \in Closers, CloseSend(k)
     PROVE  ClosedTogether'
  BY <1>17 DEF CloseSend
<1>18. ASSUME NEW k \in Closers, CloseWait(k)
     PROVE  ClosedTogether'
  BY <1>18 DEF CloseWait
<1>19. ASSUME NEW k \in Closers, CloseFlush(k)
     PROVE  ClosedTogether'
  BY <1>19 DEF CloseFlush
<1>20. ASSUME NEW c \in Conns, NEW s \in GrpcStates, GrpcChanges(c, s)
     PROVE  ClosedTogether'
  BY <1>20 DEF GrpcChanges
<1>21. ASSUME NEW c \in Conns, IdleElapses(c)
     PROVE  ClosedTogether'
  BY <1>21 DEF IdleElapses
<1>22. ASSUME NEW u \in Users, HolderCloses(u)
     PROVE  ClosedTogether'
  BY <1>22 DEF HolderCloses
<1>23. CASE UNCHANGED vars
  BY <1>23 DEF vars
<1> QED
  BY <1>1, <1>2, <1>3, <1>4, <1>5, <1>6, <1>7, <1>8, <1>9, <1>10, <1>11,
     <1>12, <1>13, <1>14, <1>15, <1>16, <1>17, <1>18, <1>19, <1>20, <1>21,
     <1>22, <1>23
     DEF Next, User, Janitor, Closer, Environment

\* Every step keeps the two maps in agreement.
LEMMA CacheConsistentStep ==
  ASSUME TypeOK, IndexedAreDialled, CacheConsistent, [Next]_vars
  PROVE  CacheConsistent'
<1> USE DEF TypeOK, IndexedAreDialled, CacheConsistent, UserAt, JanitorAt, CloserAt, cache, chans, Closed
<1>1. ASSUME NEW u \in Users, NEW t \in Targets, DialCached(u, t)
     PROVE  CacheConsistent'
  BY <1>1 DEF DialCached
<1>2. ASSUME NEW u \in Users, NEW t \in Targets, DialRefused(u, t)
     PROVE  CacheConsistent'
  BY <1>2 DEF DialRefused, dropShutdown, ensureJanitorStarted
<1>3. ASSUME NEW u \in Users, NEW t \in Targets, NEW c \in Conns,
             DialNew(u, t, c)
     PROVE  CacheConsistent'
  BY <1>3, ConstantsAssumption DEF DialNew, dropShutdown, ensureJanitorStarted, Fresh
<1>4. ASSUME NEW u \in Users, WaitReady(u)
     PROVE  CacheConsistent'
  BY <1>4 DEF WaitReady
<1>5. ASSUME NEW u \in Users, WaitFails(u)
     PROVE  CacheConsistent'
  BY <1>5 DEF WaitFails
<1>6. ASSUME NEW u \in Users, DialReturns(u)
     PROVE  CacheConsistent'
  BY <1>6 DEF DialReturns, ensureJanitorStarted
<1>7. ASSUME NEW u \in Users, DialFails(u)
     PROVE  CacheConsistent'
  BY <1>7, ConstantsAssumption DEF DialFails, setClosed, removeConns
<1>8. ASSUME NEW u \in Users, ReleaseConn(u)
     PROVE  CacheConsistent'
  BY <1>8 DEF ReleaseConn, setClosed, ensureJanitorStarted
<1>9. ASSUME NEW j \in Janitors, EnterSelect(j)
     PROVE  CacheConsistent'
  BY <1>9 DEF EnterSelect
<1>10. ASSUME NEW j \in Janitors, Tick(j)
     PROVE  CacheConsistent'
  BY <1>10 DEF Tick
<1>11. ASSUME NEW j \in Janitors, Stopped(j)
     PROVE  CacheConsistent'
  BY <1>11 DEF Stopped
<1>12. ASSUME NEW j \in Janitors, Sweep(j)
     PROVE  CacheConsistent'
  BY <1>12, ConstantsAssumption DEF Sweep, removeConns, Swept
<1>13. ASSUME NEW j \in Janitors, HandBack(j)
     PROVE  CacheConsistent'
  BY <1>13 DEF HandBack
<1>14. ASSUME NEW j \in Janitors, JanitorReturns(j)
     PROVE  CacheConsistent'
  BY <1>14 DEF JanitorReturns
<1>15. ASSUME NEW k \in Closers, CloseCheck(k)
     PROVE  CacheConsistent'
  BY <1>15 DEF CloseCheck
<1>16. ASSUME NEW k \in Closers, CloseSelect(k)
     PROVE  CacheConsistent'
  BY <1>16 DEF CloseSelect
<1>17. ASSUME NEW k \in Closers, CloseSend(k)
     PROVE  CacheConsistent'
  BY <1>17 DEF CloseSend
<1>18. ASSUME NEW k \in Closers, CloseWait(k)
     PROVE  CacheConsistent'
  BY <1>18 DEF CloseWait
<1>19. ASSUME NEW k \in Closers, CloseFlush(k)
     PROVE  CacheConsistent'
  BY <1>19 DEF CloseFlush
<1>20. ASSUME NEW c \in Conns, NEW s \in GrpcStates, GrpcChanges(c, s)
     PROVE  CacheConsistent'
  BY <1>20 DEF GrpcChanges
<1>21. ASSUME NEW c \in Conns, IdleElapses(c)
     PROVE  CacheConsistent'
  BY <1>21 DEF IdleElapses
<1>22. ASSUME NEW u \in Users, HolderCloses(u)
     PROVE  CacheConsistent'
  BY <1>22, ConstantsAssumption DEF HolderCloses
<1>23. CASE UNCHANGED vars
  BY <1>23 DEF vars
<1> QED
  BY <1>1, <1>2, <1>3, <1>4, <1>5, <1>6, <1>7, <1>8, <1>9, <1>10, <1>11,
     <1>12, <1>13, <1>14, <1>15, <1>16, <1>17, <1>18, <1>19, <1>20, <1>21,
     <1>22, <1>23
     DEF Next, User, Janitor, Closer, Environment

\* No step loses a connection that is not shut down.
LEMMA NothingLeaksStep ==
  ASSUME TypeOK, UsersHold, IndexedAreDialled, CacheConsistent,
         ClosedTogether, NothingLeaks, [Next]_vars
  PROVE  NothingLeaks'
<1> USE DEF TypeOK, UsersHold, IndexedAreDialled, CacheConsistent, ClosedTogether,
            NothingLeaks, Fresh, GrpcStates, UserAt, JanitorAt, CloserAt, cache, chans, Closed
<1>1. ASSUME NEW u \in Users, NEW t \in Targets, DialCached(u, t)
     PROVE  NothingLeaks'
  BY <1>1 DEF DialCached
<1>2. ASSUME NEW u \in Users, NEW t \in Targets, DialRefused(u, t)
     PROVE  NothingLeaks'
  BY <1>2, ConstantsAssumption DEF DialRefused, dropShutdown, ensureJanitorStarted
<1>3. ASSUME NEW u \in Users, NEW t \in Targets, NEW c \in Conns,
             DialNew(u, t, c)
     PROVE  NothingLeaks'
  BY <1>3, ConstantsAssumption DEF DialNew, dropShutdown, ensureJanitorStarted, Fresh
<1>4. ASSUME NEW u \in Users, WaitReady(u)
     PROVE  NothingLeaks'
  BY <1>4 DEF WaitReady
<1>5. ASSUME NEW u \in Users, WaitFails(u)
     PROVE  NothingLeaks'
  BY <1>5 DEF WaitFails
<1>6. ASSUME NEW u \in Users, DialReturns(u)
     PROVE  NothingLeaks'
  BY <1>6 DEF DialReturns, ensureJanitorStarted
<1>7. ASSUME NEW u \in Users, DialFails(u)
     PROVE  NothingLeaks'
  <2>1. uconn[u] \in Conns
    BY <1>7, ConstantsAssumption DEF DialFails
  <2> QED
    BY <1>7, <2>1 DEF DialFails, setClosed, removeConns
<1>8. ASSUME NEW u \in Users, ReleaseConn(u)
     PROVE  NothingLeaks'
  <2>1. uconn[u] \in Conns /\ uconn[u] # NoConn
    BY <1>8, ConstantsAssumption DEF ReleaseConn
  <2>2. CASE Closed
    BY <1>8, <2>1, <2>2 DEF ReleaseConn
  <2>3. CASE ~Closed /\ uconn[u] \notin index
    BY <1>8, <2>1, <2>3 DEF ReleaseConn
  <2>4. CASE ~Closed /\ uconn[u] \in index
    BY <1>8, <2>1, <2>4 DEF ReleaseConn, setClosed, ensureJanitorStarted
  <2> QED
    BY <2>2, <2>3, <2>4
<1>9. ASSUME NEW j \in Janitors, EnterSelect(j)
     PROVE  NothingLeaks'
  BY <1>9 DEF EnterSelect
<1>10. ASSUME NEW j \in Janitors, Tick(j)
     PROVE  NothingLeaks'
  BY <1>10 DEF Tick
<1>11. ASSUME NEW j \in Janitors, Stopped(j)
     PROVE  NothingLeaks'
  BY <1>11 DEF Stopped
<1>12. ASSUME NEW j \in Janitors, Sweep(j)
     PROVE  NothingLeaks'
  BY <1>12 DEF Sweep, removeConns, Swept
<1>13. ASSUME NEW j \in Janitors, HandBack(j)
     PROVE  NothingLeaks'
  BY <1>13 DEF HandBack
<1>14. ASSUME NEW j \in Janitors, JanitorReturns(j)
     PROVE  NothingLeaks'
  BY <1>14 DEF JanitorReturns
<1>15. ASSUME NEW k \in Closers, CloseCheck(k)
     PROVE  NothingLeaks'
  BY <1>15 DEF CloseCheck
<1>16. ASSUME NEW k \in Closers, CloseSelect(k)
     PROVE  NothingLeaks'
  BY <1>16 DEF CloseSelect
<1>17. ASSUME NEW k \in Closers, CloseSend(k)
     PROVE  NothingLeaks'
  BY <1>17 DEF CloseSend
<1>18. ASSUME NEW k \in Closers, CloseWait(k)
     PROVE  NothingLeaks'
  BY <1>18 DEF CloseWait
<1>19. ASSUME NEW k \in Closers, CloseFlush(k)
     PROVE  NothingLeaks'
  BY <1>19 DEF CloseFlush
<1>20. ASSUME NEW c \in Conns, NEW s \in GrpcStates, GrpcChanges(c, s)
     PROVE  NothingLeaks'
  BY <1>20 DEF GrpcChanges
<1>21. ASSUME NEW c \in Conns, IdleElapses(c)
     PROVE  NothingLeaks'
  BY <1>21 DEF IdleElapses
<1>22. ASSUME NEW u \in Users, HolderCloses(u)
     PROVE  NothingLeaks'
  BY <1>22, ConstantsAssumption DEF HolderCloses
<1>23. CASE UNCHANGED vars
  BY <1>23 DEF vars
<1> QED
  BY <1>1, <1>2, <1>3, <1>4, <1>5, <1>6, <1>7, <1>8, <1>9, <1>10, <1>11,
     <1>12, <1>13, <1>14, <1>15, <1>16, <1>17, <1>18, <1>19, <1>20, <1>21,
     <1>22, <1>23
     DEF Next, User, Janitor, Closer, Environment

\* The janitor's token is conserved by every step.
LEMMA OneJanitorStep ==
  ASSUME TypeOK, ClosedTogether, OneJanitor, [Next]_vars
  PROVE  OneJanitor'
<1> USE DEF TypeOK, ClosedTogether, OneJanitor, Sweeping, JanitorPc, UserAt, JanitorAt, CloserAt, cache, chans, Closed
<1>1. ASSUME NEW u \in Users, NEW t \in Targets, DialCached(u, t)
     PROVE  OneJanitor'
  BY <1>1 DEF DialCached
<1>2. ASSUME NEW u \in Users, NEW t \in Targets, DialRefused(u, t)
     PROVE  OneJanitor'
  BY <1>2 DEF DialRefused, dropShutdown, ensureJanitorStarted
<1>3. ASSUME NEW u \in Users, NEW t \in Targets, NEW c \in Conns,
             DialNew(u, t, c)
     PROVE  OneJanitor'
  BY <1>3 DEF DialNew, dropShutdown, ensureJanitorStarted, Fresh
<1>4. ASSUME NEW u \in Users, WaitReady(u)
     PROVE  OneJanitor'
  BY <1>4 DEF WaitReady
<1>5. ASSUME NEW u \in Users, WaitFails(u)
     PROVE  OneJanitor'
  BY <1>5 DEF WaitFails
<1>6. ASSUME NEW u \in Users, DialReturns(u)
     PROVE  OneJanitor'
  BY <1>6 DEF DialReturns, ensureJanitorStarted
<1>7. ASSUME NEW u \in Users, DialFails(u)
     PROVE  OneJanitor'
  BY <1>7 DEF DialFails, setClosed, removeConns
<1>8. ASSUME NEW u \in Users, ReleaseConn(u)
     PROVE  OneJanitor'
  <2>1. CASE UNCHANGED <<janitorClosed, jpc>>
    BY <1>8, <2>1 DEF ReleaseConn
  <2>2. CASE ensureJanitorStarted
    BY <1>8, <2>2 DEF ReleaseConn, ensureJanitorStarted
  <2> QED
    BY <1>8, <2>1, <2>2 DEF ReleaseConn
<1>9. ASSUME NEW j \in Janitors, EnterSelect(j)
     PROVE  OneJanitor'
  BY <1>9 DEF EnterSelect
<1>10. ASSUME NEW j \in Janitors, Tick(j)
     PROVE  OneJanitor'
  BY <1>10 DEF Tick
<1>11. ASSUME NEW j \in Janitors, Stopped(j)
     PROVE  OneJanitor'
  BY <1>11 DEF Stopped
<1>12. ASSUME NEW j \in Janitors, Sweep(j)
     PROVE  OneJanitor'
  BY <1>12 DEF Sweep, removeConns, Swept
<1>13. ASSUME NEW j \in Janitors, HandBack(j)
     PROVE  OneJanitor'
  BY <1>13 DEF HandBack
<1>14. ASSUME NEW j \in Janitors, JanitorReturns(j)
     PROVE  OneJanitor'
  BY <1>14 DEF JanitorReturns
<1>15. ASSUME NEW k \in Closers, CloseCheck(k)
     PROVE  OneJanitor'
  BY <1>15 DEF CloseCheck
<1>16. ASSUME NEW k \in Closers, CloseSelect(k)
     PROVE  OneJanitor'
  BY <1>16 DEF CloseSelect
<1>17. ASSUME NEW k \in Closers, CloseSend(k)
     PROVE  OneJanitor'
  BY <1>17 DEF CloseSend
<1>18. ASSUME NEW k \in Closers, CloseWait(k)
     PROVE  OneJanitor'
  BY <1>18 DEF CloseWait
<1>19. ASSUME NEW k \in Closers, CloseFlush(k)
     PROVE  OneJanitor'
  BY <1>19 DEF CloseFlush
<1>20. ASSUME NEW c \in Conns, NEW s \in GrpcStates, GrpcChanges(c, s)
     PROVE  OneJanitor'
  BY <1>20 DEF GrpcChanges
<1>21. ASSUME NEW c \in Conns, IdleElapses(c)
     PROVE  OneJanitor'
  BY <1>21 DEF IdleElapses
<1>22. ASSUME NEW u \in Users, HolderCloses(u)
     PROVE  OneJanitor'
  BY <1>22 DEF HolderCloses
<1>23. CASE UNCHANGED vars
  BY <1>23 DEF vars
<1> QED
  BY <1>1, <1>2, <1>3, <1>4, <1>5, <1>6, <1>7, <1>8, <1>9, <1>10, <1>11,
     <1>12, <1>13, <1>14, <1>15, <1>16, <1>17, <1>18, <1>19, <1>20, <1>21,
     <1>22, <1>23
     DEF Next, User, Janitor, Closer, Environment

\* Every step keeps the count of holders of each indexed connection.
LEMMA OpenCountStep ==
  ASSUME IInv, [Next]_vars
  PROVE  OpenCountExact'
<1> SUFFICES ASSUME ~Closed', NEW d \in Conns, d \in index'
             PROVE  open'[d] = Cardinality(Holders(d)')
  <2> TypeOK'
    BY TypeStep DEF IInv
  <2> QED
    BY DEF OpenCountExact, TypeOK
<1> USE DEF IInv
<1>1. ASSUME NEW u \in Users, NEW t \in Targets, DialCached(u, t)
      PROVE  open'[d] = Cardinality(Holders(d)')
  <2>1. conns[t] \in Conns /\ uconn[u] = NoConn /\ ~Closed /\ d \in index
    BY <1>1 DEF DialCached, TypeOK, UsersHold, UserAt
  <2>2. /\ Cardinality(Holders(conns[t])') = Cardinality(Holders(conns[t])) + 1
        /\ \A c \in Conns : c # conns[t] => Holders(c)' = Holders(c)
    BY <1>1, <2>1, HoldersEnter DEF DialCached
  <2>3. open[d] = Cardinality(Holders(d))
    BY <2>1 DEF OpenCountExact
  <2>4. CASE d = conns[t]
    BY <1>1, <2>1, <2>2, <2>3, <2>4 DEF DialCached, TypeOK
  <2>5. CASE d # conns[t]
    BY <1>1, <2>1, <2>2, <2>3, <2>5 DEF DialCached, TypeOK
  <2> QED
    BY <2>4, <2>5
<1>2. ASSUME NEW u \in Users, NEW t \in Targets, NEW c \in Conns,
             DialNew(u, t, c)
      PROVE  open'[d] = Cardinality(Holders(d)')
  <2>1. uconn[u] = NoConn /\ ~Closed /\ uconn' = [uconn EXCEPT ![u] = c]
    BY <1>2 DEF DialNew, UsersHold, UserAt
  <2>2. /\ Cardinality(Holders(c)') = Cardinality(Holders(c)) + 1
        /\ \A e \in Conns : e # c => Holders(e)' = Holders(e)
    BY <2>1, HoldersEnter
  <2>3. Cardinality(Holders(c)) = 0
    <3>1. Holders(c) = {}
      BY <1>2, ConstantsAssumption DEF DialNew, Fresh, UsersHold, Holders, TypeOK
    <3> QED
      BY <3>1, FS_EmptySet
  <2>4. CASE d = c
    BY <1>2, <2>2, <2>3, <2>4 DEF DialNew, TypeOK
  <2>5. CASE d # c
    <3>1. d \in index /\ open'[d] = open[d]
      BY <1>2, <2>5 DEF DialNew, TypeOK
    <3> QED
      BY <2>1, <2>2, <2>5, <3>1 DEF OpenCountExact
  <2> QED
    BY <2>4, <2>5
<1>3. ASSUME NEW u \in Users, DialFails(u)
      PROVE  open'[d] = Cardinality(Holders(d)')
  <2>1. uconn[u] \in Conns /\ ~Closed /\ d \in index /\ d # uconn[u]
    BY <1>3, ConstantsAssumption
    DEF DialFails, removeConns, UsersHold, UserAt, TypeOK, chans, Closed
  <2>2. Holders(d)' = Holders(d)
    BY <1>3, <2>1, HoldersLeave DEF DialFails
  <2>3. open'[d] = open[d]
    BY <1>3, <2>1 DEF DialFails, setClosed, TypeOK
  <2> QED
    BY <2>1, <2>2, <2>3 DEF OpenCountExact
<1>4. ASSUME NEW u \in Users, ReleaseConn(u)
      PROVE  open'[d] = Cardinality(Holders(d)')
  <2>1. uconn[u] \in Conns /\ ~Closed /\ d \in index
    BY <1>4, ConstantsAssumption DEF ReleaseConn, UsersHold, UserAt, TypeOK, Closed
  <2>2. uconn' = [uconn EXCEPT ![u] = NoConn]
    BY <1>4 DEF ReleaseConn
  <2>3. open[d] = Cardinality(Holders(d))
    BY <2>1 DEF OpenCountExact
  <2>4. CASE d = uconn[u]
    <3>1. open' = [open EXCEPT ![d] = IF @ > 0 THEN @ - 1 ELSE @]
      BY <1>4, <2>1, <2>4 DEF ReleaseConn, setClosed
    <3>2. /\ Cardinality(Holders(d)) > 0
          /\ Cardinality(Holders(d)') = Cardinality(Holders(d)) - 1
      BY <2>1, <2>2, <2>4, HoldersLeave DEF Holders
    <3> QED
      BY <2>3, <3>1, <3>2 DEF TypeOK
  <2>5. CASE d # uconn[u]
    <3>1. open'[d] = open[d]
      BY <1>4, <2>1, <2>5 DEF ReleaseConn, setClosed, TypeOK
    <3>2. Holders(d)' = Holders(d)
      BY <2>1, <2>2, <2>5, HoldersLeave
    <3> QED
      BY <2>3, <3>1, <3>2
  <2> QED
    BY <2>4, <2>5
\* The other steps change neither a count nor a holder; the index only shrinks.
<1>5. ASSUME UNCHANGED <<open, uconn>>, index' \subseteq index, ~Closed
      PROVE  open'[d] = Cardinality(Holders(d)')
  BY <1>5 DEF OpenCountExact, Holders
<1>6. ASSUME NEW u \in Users, NEW t \in Targets, DialRefused(u, t)
      PROVE  open'[d] = Cardinality(Holders(d)')
  BY <1>5, <1>6 DEF DialRefused
<1>7. ASSUME NEW u \in Users,
             WaitReady(u) \/ WaitFails(u) \/ DialReturns(u) \/ HolderCloses(u)
      PROVE  open'[d] = Cardinality(Holders(d)')
  BY <1>5, <1>7 DEF WaitReady, WaitFails, DialReturns, HolderCloses, cache, chans,
                    Closed
<1>8. ASSUME NEW j \in Janitors, Janitor(j)
      PROVE  open'[d] = Cardinality(Holders(d)')
  BY <1>5, <1>8 DEF Janitor, EnterSelect, Tick, Stopped, Sweep, HandBack,
                    JanitorReturns, removeConns, cache, chans, Closed
<1>9. ASSUME NEW k \in Closers, Closer(k)
      PROVE  open'[d] = Cardinality(Holders(d)')
  BY <1>5, <1>9 DEF Closer, CloseCheck, CloseSelect, CloseSend, CloseWait,
                    CloseFlush, cache, chans, Closed
<1>10. ASSUME Environment
       PROVE  open'[d] = Cardinality(Holders(d)')
  BY <1>5, <1>10 DEF Environment, GrpcChanges, IdleElapses, chans, Closed
<1>11. CASE UNCHANGED vars
  BY <1>5, <1>11 DEF vars, Closed
<1> QED
  BY <1>1, <1>2, <1>3, <1>4, <1>6, <1>7, <1>8, <1>9, <1>10, <1>11 DEF Next, User

-----------------------------------------------------------------------------
(* The theorems.                                                           *)

\* The invariant is inductive and holds of every behaviour.
LEMMA Invariance == Spec => []IInv
<1>1. Init => IInv
  <2> SUFFICES ASSUME Init PROVE IInv
    OBVIOUS
  <2> USE DEF Init
  <2>1. TypeOK
    BY DEF TypeOK, GrpcStates, JanitorPc, UserPc, CloserPc
  <2>2. UsersHold /\ IndexedAreDialled /\ ClosedTogether
    BY DEF UsersHold, IndexedAreDialled, ClosedTogether, Closed
  <2>3. CacheConsistent /\ NothingLeaks /\ OpenCountExact /\ OneJanitor
    BY DEF CacheConsistent, NothingLeaks, Fresh, OpenCountExact, OneJanitor,
           Sweeping, Closed
  <2> QED
    BY <2>1, <2>2, <2>3 DEF IInv
<1>2. IInv /\ [Next]_vars => IInv'
  BY TypeStep, UsersHoldStep, IndexedStep, ClosedTogetherStep,
     CacheConsistentStep, NothingLeaksStep, OneJanitorStep, OpenCountStep
  DEF IInv
<1> QED
  BY <1>1, <1>2, PTL DEF Spec

\* The state of the connector has its type.
THEOREM TypeCorrect == Spec => []TypeOK
<1>1. IInv => TypeOK
  BY DEF IInv
<1> QED
  BY <1>1, Invariance, PTL

\* The two maps of the cache always agree.
THEOREM CacheIsConsistent == Spec => []CacheConsistent
<1>1. IInv => CacheConsistent
  BY DEF IInv
<1> QED
  BY <1>1, Invariance, PTL

\* The reference count of an indexed connection is the number of its users.
THEOREM OpenCountIsExact == Spec => []OpenCountExact
<1>1. IInv => OpenCountExact
  BY DEF IInv
<1> QED
  BY <1>1, Invariance, PTL

\* A connection the connector has forgotten, or all once closed, is shut down.
THEOREM NoConnectionLeaks == Spec => []NothingLeaks
<1>1. IInv => NothingLeaks
  BY DEF IInv
<1> QED
  BY <1>1, Invariance, PTL

\* The cache is sound: its maps agree, its counts are exact, and it forgets no connection
\* that is not shut down.
THEOREM CacheIsSound == Spec => []CacheSound
<1>1. IInv => CacheSound
  BY DEF IInv, CacheSound
<1> QED
  BY <1>1, Invariance, PTL

\* Until Close ends at most one janitor sweeps.
THEOREM OnlyOneJanitor == Spec => []OneJanitor
<1>1. IInv => OneJanitor
  BY DEF IInv
<1> QED
  BY <1>1, Invariance, PTL

\* A step of the invariant's states takes no open connection in use out of the
\* cache, the error path of its own users' dials apart.
LEMMA SparesStep ==
  ASSUME IInv, [Next]_vars, NEW c \in index \ index',
         state[c] # "Shutdown", Holders(c) # {}
  PROVE  \E u \in Holders(c) : upc[u] = "failed" /\ upc'[u] = "out"
<1> DEFINE Goal == \E u \in Holders(c) : upc[u] = "failed" /\ upc'[u] = "out"
<1> USE DEF IInv
<1>1. c \in Conns /\ c \notin Fresh /\ ~Closed
  BY ConstantsAssumption DEF TypeOK, IndexedAreDialled, Fresh, NothingLeaks
<1>2. ASSUME NEW u \in Users, DialFails(u) PROVE Goal
  <2>1. uconn[u] = c
    BY <1>2 DEF DialFails, removeConns
  <2> QED
    BY <1>2, <2>1 DEF DialFails, UserAt, Holders, TypeOK
<1>3. ASSUME NEW u \in Users, NEW t \in Targets, NEW d \in Conns, DialNew(u, t, d)
      PROVE  Goal
  BY <1>1, <1>3, ConstantsAssumption DEF DialNew
<1>4. ASSUME NEW u \in Users, NEW t \in Targets, DialRefused(u, t) PROVE Goal
  BY <1>4 DEF DialRefused
<1>5. ASSUME NEW j \in Janitors, Sweep(j) PROVE Goal
  <2>1. c \in Swept
    BY <1>5 DEF Sweep, removeConns
  <2>2. open[c] = 0
    BY <2>1 DEF Swept
  <2>3. Cardinality(Holders(c)) = 0
    BY <1>1, <2>2 DEF OpenCountExact
  <2>4. Holders(c) = {}
    BY <2>3, HoldersFinite, FS_EmptySet
  <2> QED
    BY <2>4
<1>6. CASE UNCHANGED index
  BY <1>6
<1> QED
  BY <1>2, <1>3, <1>4, <1>5, <1>6
  DEF Next, User, Janitor, Closer, Environment, DialCached, WaitReady,
      WaitFails, DialReturns, ReleaseConn, HolderCloses, EnterSelect, Tick,
      Stopped, HandBack, JanitorReturns, CloseCheck, CloseSelect, CloseSend,
      CloseWait, CloseFlush, GrpcChanges, IdleElapses, cache, vars

\* A sweep never takes an open connection somebody holds out of the cache, nor
\* does any step but the error path of one of its own users' dials.
THEOREM InUseIsSpared == Spec => JanitorSparesInUse
<1>1. IInv /\ [Next]_vars =>
        [\A c \in index \ index' :
           state[c] # "Shutdown" /\ Holders(c) # {} =>
             \E u \in Holders(c) : upc[u] = "failed" /\ upc'[u] = "out"]_vars
  BY SparesStep
<1> QED
  BY <1>1, Invariance, PTL DEF Spec, JanitorSparesInUse

=============================================================================
