------------------------------ MODULE SessionPool ------------------------------
(***************************************************************************)
(* The sessions of a PKCS11 context, pooled and recovered:                 *)
(* pkg/core/cryptosuite/common/pkcs11/contextHandle.go.                    *)
(*                                                                         *)
(* Users take a session, sign with it and return it. What a call does      *)
(* under one hold of the RWMutex is one step; a writer waits for the       *)
(* readers, and new readers wait for it. The token may break sessions and  *)
(* refuse whatever it is asked; Broken counts what it does against         *)
(* MaxBroken. What users hold is a number, the handle of a session: a      *)
(* context gives no two sessions the same one, but the next context        *)
(* numbers its sessions anew, so that a handle of a context that was given *)
(* up may be that of somebody's new session.                               *)
(***************************************************************************)
EXTENDS Naturals, Sequences, Functions

CONSTANTS Users, Handles, PoolSize, MaxBroken

Empty == 0          \* the handle that is no session

PoolAssumption == {PoolSize, MaxBroken} \subseteq Nat /\ Empty \notin Handles

VARIABLES
  pool,       \* handle.sessions, a channel
  given,      \* the handles that the context has given to sessions
  alive,      \* those it knows
  recovery,   \* handle.recovery
  stage,      \* where a user is: idle, validate, open, lock, relock, holds
  session,    \* the handle it has
  readers,    \* who holds the read lock across steps
  broken,
  carried     \* history: the handles that were out when the context was made

vars == <<pool, given, alive, recovery, stage, session, readers, broken, carried>>

Init ==
  /\ pool = <<>> /\ given = {} /\ alive = {} /\ recovery = FALSE
  /\ stage = [u \in Users |-> "idle"] /\ session = [u \in Users |-> Empty]
  /\ readers = {} /\ broken = 0 /\ carried = {}

Is(u, p, s) == stage' = [stage EXCEPT ![u] = p] /\ session' = [session EXCEPT ![u] = s]
CanOpen == given # Handles
Counted == broken < MaxBroken /\ broken' = broken + 1

\* A pending Lock keeps new readers out, and readers that stay keep it waiting.
MayRead == \A u \in Users : stage[u] \notin {"lock", "relock"}
MayWrite == readers = {}

-----------------------------------------------------------------------------
(* GetSession                                                              *)

\* A pooled session, to be validated, or else a new one
GetSession(u) ==
  /\ stage[u] = "idle" /\ MayRead
  /\ IF pool = <<>> THEN Is(u, "open", Empty) /\ UNCHANGED pool
     ELSE pool' = Tail(pool) /\ Is(u, "validate", Head(pool))
  /\ UNCHANGED <<given, alive, recovery, readers, broken, carried>>

\* A token that has opened as many sessions as it can opens no more.
OpenSession(u) ==
  /\ stage[u] = "open" /\ MayRead
  /\ \/ /\ ~recovery /\ UNCHANGED broken
        /\ \E s \in Handles \ given :
             /\ given' = given \cup {s} /\ alive' = alive \cup {s} /\ Is(u, "holds", s)
     \/ /\ Is(u, "lock", Empty) /\ UNCHANGED <<given, alive>>
        /\ IF recovery \/ ~CanOpen THEN UNCHANGED broken ELSE Counted
  /\ UNCHANGED <<pool, recovery, readers, carried>>

\* validateSession, under a read lock of its own: in recovery it returns and keeps
\* the lock.
Validate(u) ==
  /\ stage[u] = "validate" /\ MayRead
  /\ IF recovery THEN readers' = readers \cup {u} /\ Is(u, "idle", Empty)
     ELSE /\ Is(u, IF session[u] \in alive THEN "holds" ELSE "relock", session[u])
          /\ UNCHANGED readers
  /\ UNCHANGED <<pool, given, alive, recovery, broken, carried>>

\* reLogin, once or until it succeeds: the context is disposed of with all its sessions,
\* then a new one is made (or not: recovery goes on), and a session is opened (or not) and
\* logged in (or not). What users have of the context before they keep.
Renew(u) ==
  /\ carried' = {session[v] : v \in Users \ {u}} \ {Empty}
  /\ recovery' \in BOOLEAN /\ UNCHANGED readers
  /\ \/ /\ ~recovery' /\ UNCHANGED broken
        /\ \E s \in Handles : given' = {s} /\ alive' = {s} /\ Is(u, "holds", s)
     \/ /\ Counted /\ Is(u, "idle", Empty)
        /\ \/ given' = {}
           \/ ~recovery' /\ \E s \in Handles : given' = {s}
        /\ alive' = given'
\* slip: the pool is kept
ReLoginKeepingPool(u) == Renew(u) /\ UNCHANGED pool
ReLogin(u) == Renew(u) /\ pool' = <<>>

Recover(u) == stage[u] \in {"lock", "relock"} /\ MayWrite /\ ReLogin(u)

-----------------------------------------------------------------------------
(* Sign and ReturnSession                                                  *)

\* A Sign that finds no operation under way closes the session.
SignFails(u) ==
  /\ stage[u] = "holds" /\ MayRead /\ ~recovery /\ Counted
  /\ alive' = alive \ {session[u]}
  /\ UNCHANGED <<pool, given, recovery, stage, session, readers, carried>>

\* What the context does not know, or is too much, is closed. It is asked for the number
\* only: a handle of the context before is as good, if there is a session of that number.
\* slip: it is returned twice, by the caller and for it
ReturnAndHold(u) ==
  /\ stage[u] = "holds" /\ MayRead
  /\ IF ~recovery /\ session[u] \in alive /\ Len(pool) < PoolSize
     THEN pool' = Append(pool, session[u]) /\ UNCHANGED <<alive, stage, session>>
     ELSE Is(u, "idle", Empty) /\ alive' = alive \ {session[u]} /\ UNCHANGED pool
  /\ UNCHANGED <<given, recovery, readers, broken, carried>>
ReturnSession(u) ==
  /\ stage[u] = "holds" /\ MayRead
  /\ IF ~recovery /\ session[u] \in alive /\ Len(pool) < PoolSize
     THEN pool' = Append(pool, session[u]) /\ UNCHANGED alive
     ELSE alive' = alive \ {session[u]} /\ UNCHANGED pool
  /\ Is(u, "idle", Empty)
  /\ UNCHANGED <<given, recovery, readers, broken, carried>>

\* The token drops a session.
TokenBreaks(s) ==
  /\ s \in alive /\ Counted /\ alive' = alive \ {s}
  /\ UNCHANGED <<pool, given, recovery, stage, session, readers, carried>>

-----------------------------------------------------------------------------
User(u) == OpenSession(u) \/ Validate(u) \/ Recover(u)

Next == \/ \E u \in Users : GetSession(u) \/ User(u) \/ SignFails(u) \/ ReturnSession(u)
        \/ \E s \in Handles : TokenBreaks(s)

Spec == Init /\ [][Next]_vars

\* Calls go on when the lock lets them; sync.RWMutex starves neither readers nor
\* writers.
FairSpec == Spec /\ \A u \in Users : SF_vars(User(u))

-----------------------------------------------------------------------------
(* Properties                                                              *)

\* The shape of the state.
TypeOK ==
  /\ pool \in Seq(Handles) /\ Len(pool) <= PoolSize
  /\ given \subseteq Handles /\ alive \subseteq Handles /\ carried \subseteq Handles
  /\ recovery \in BOOLEAN /\ readers \subseteq Users /\ broken \in 0 .. MaxBroken
  /\ stage \in [Users -> {"idle", "validate", "open", "lock", "relock", "holds"}]
  /\ session \in [Users -> Handles \cup {Empty}]

\* Two users never sign with one session, and what is pooled nobody has and is there once,
\* through recoveries that flush the pool while sessions are out (GetSession,
\* ReturnSession): with the exception of the numbers of the sessions that were out.
OneHas(s) ==
  /\ \A u, v \in Users : session[u] = s /\ session[v] = s => u = v
  /\ \A u \in Users : session[u] = s => s \notin Range(pool)
  /\ \A i, j \in DOMAIN pool : pool[i] = s /\ pool[j] = s => i = j
SessionsNotShared == \A s \in Handles \ carried : OneHas(s)

\* Without the exception it is not so. "if pool is pull or session is invalid then discards
\* session", ReturnSession says: but a handle from before a recovery gets into the pool when
\* somebody has a new session of that number, who may have it still.
PooledIsNotLent == \A u \in Users : session[u] \notin Range(pool)

\* What is in the pool was given out by the context there is: a recovery leaves none behind,
\* and what comes back later is a handle of this context or is discarded.
PoolOfThisContext == Range(pool) \subseteq given /\ (recovery => pool = <<>>)

\* "GetSession returns session from session pool": it returns.
GetSessionReturns ==
  \A u \in Users : (stage[u] \in {"open", "validate", "lock", "relock"}) ~>
                     (stage[u] \in {"idle", "holds"})

=============================================================================
