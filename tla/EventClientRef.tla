---------------------------- MODULE EventClientRef ----------------------------
(***************************************************************************)
(* The event service a channel hands out: a reference to an event client   *)
(* that is made when somebody registers and closed when nobody has used it *)
(* for a while (pkg/fabsdk/provider/chpvdr/eventserviceref.go).            *)
(*                                                                         *)
(* It is composed with the lazy reference it is built on (LazyRef): each   *)
(* step that runs the initializer or the finalizer is the lazy reference's *)
(* step and what the two do to the client. LazyRef's Values are the        *)
(* holders set() allocates, so that one client can be the value again.     *)
(* Of the client (EventClient) this module keeps whether it is open and    *)
(* who is registered with it.                                              *)
(***************************************************************************)
EXTENDS Naturals, FiniteSets

CONSTANTS
  Clients, NoClient,         \* event clients; bounds the connects that succeed
  Values, NoValue, Getters, Closers, Timers   \* those of LazyRef

ASSUME ClientsAssumption ==
  NoClient \notin Clients /\ NoValue \notin Values /\ IsFiniteSet(Timers) /\ Timers # {}

VARIABLES
  ref, locked, closed, running, closech, getter, got, closer, timer, made,
  finals, expiryType,        \* the lazy reference
  refClosed,                 \* closed of EventClientRef
  eventClient,               \* its eventClient
  clientOf,                  \* what a value of the lazy reference holds
  conn,                      \* a client is none, open, closed, or lost: by itself
  regs,                      \* who is registered with a client
  reg,                       \* the client that gave a user its registration
  call,                      \* what a user does: none, register, unregister
  won,                       \* the callers of Close that found it open
  verdict                    \* what the finalizer is about to do: keep, idle, force

LR == INSTANCE LazyRef WITH ExpiryTypes <- {"LastAccessed"}, TimerAtStart <- FALSE

lazy == <<ref, locked, closed, running, closech, getter, got, closer, timer, made,
          finals, expiryType>>
client == <<eventClient, clientOf, conn, regs, verdict>>
users == <<reg, call>>
vars == <<lazy, client, users, refClosed, won>>

Init ==
  /\ LR!Init
  /\ refClosed = FALSE /\ eventClient = NoClient /\ won = {} /\ verdict = "keep"
  /\ clientOf = [v \in Values |-> NoClient]
  /\ conn = [c \in Clients |-> "none"] /\ regs = [c \in Clients |-> {}]
  /\ reg = [g \in Getters |-> NoClient] /\ call = [g \in Getters |-> "none"]

-----------------------------------------------------------------------------
(* Register... and Unregister: get() and then the client's own.            *)

\* Those of a closed EventClientRef fail, and are no step.
Call(g) ==
  /\ call[g] = "none" /\ ~refClosed
  /\ call' = [call EXCEPT ![g] = IF reg[g] = NoClient THEN "register"
                                                      ELSE "unregister"]
  /\ UNCHANGED <<lazy, client, reg, refClosed, won>>

GetCheck(g) ==
  /\ call[g] # "none" /\ LR!GetCheck(g)
  /\ call' = IF closed THEN [call EXCEPT ![g] = "none"] ELSE call
  /\ UNCHANGED <<client, reg, refClosed, won>>

GetFast(g) == LR!GetFast(g) /\ UNCHANGED <<client, users, refClosed, won>>

\* The initializer has the client there is, or one that it connects.
\* slip: without looking for the client there is
InitializerConnects(v) ==
  \E c \in {x \in Clients : conn[x] = "none"} :
    /\ conn' = [conn EXCEPT ![c] = "open"] /\ eventClient' = c
    /\ clientOf' = [clientOf EXCEPT ![v] = c]
Initializer(v) ==
  IF eventClient # NoClient
  THEN clientOf' = [clientOf EXCEPT ![v] = eventClient] /\ UNCHANGED <<conn, eventClient>>
  ELSE \E c \in {x \in Clients : conn[x] = "none"} :
         /\ conn' = [conn EXCEPT ![c] = "open"] /\ eventClient' = c
         /\ clientOf' = [clientOf EXCEPT ![v] = c]

\* The reference is set now; or the initializer sets it; or it fails.
GetLocked(g) ==
  /\ \/ /\ ref # NoValue /\ LR!GetLocked(g, ref)
        /\ UNCHANGED <<conn, eventClient, clientOf, call>>
     \/ \E v \in Values \ made :
          /\ ref = NoValue /\ LR!GetLocked(g, v) /\ Initializer(v)
          /\ UNCHANGED call
     \/ /\ ref = NoValue /\ eventClient = NoClient /\ LR!GetLocked(g, NoValue)
        /\ call' = [call EXCEPT ![g] = "none"]
        /\ UNCHANGED <<conn, eventClient, clientOf>>
  /\ UNCHANGED <<regs, verdict, reg, refClosed, won>>

\* A client that is closed refuses; an unregistration is the user's last word.
Use(g) ==
  /\ LR!GetDone(g)
  /\ LET c == clientOf[got[g]] IN
       IF call[g] = "register"
       THEN IF conn[c] = "open"
            THEN /\ regs' = [regs EXCEPT ![c] = @ \cup {g}]
                 /\ reg' = [reg EXCEPT ![g] = c]
            ELSE UNCHANGED <<regs, reg>>
       ELSE /\ regs' = [regs EXCEPT ![c] = @ \ {g}]
            /\ reg' = [reg EXCEPT ![g] = NoClient]
  /\ call' = [call EXCEPT ![g] = "none"]
  /\ UNCHANGED <<eventClient, clientOf, conn, verdict, refClosed, won>>

-----------------------------------------------------------------------------
(* The finalizer                                                           *)

Shut(c, how) == conn' = [conn EXCEPT ![c] = how] /\ regs' = [regs EXCEPT ![c] = {}]

\* The idle timer: closed, or CloseIfIdle asks for the registrations ...
Finalizer ==
  verdict' = IF eventClient = NoClient THEN "keep" ELSE IF refClosed THEN "force"
             ELSE IF conn[eventClient] = "open" /\ regs[eventClient] = {} THEN "idle"
             ELSE "keep"
ExpireFinalizes(t) ==
  /\ LR!ExpireFinalizes(t) /\ Finalizer
  /\ UNCHANGED <<eventClient, clientOf, conn, regs, users, refClosed, won>>

\* ... and then the client is closed, and forgotten if it was idle.
\* slip: it is not
CloseClientAndKeepIt ==
  /\ verdict # "keep" /\ verdict' = "keep"
  /\ Shut(eventClient, "closed")
  /\ UNCHANGED <<lazy, eventClient, clientOf, users, refClosed, won>>
\* slip: before it is closed
ForgetClient ==
  /\ verdict # "keep" /\ verdict' = "keep"
  /\ eventClient' = NoClient
  /\ UNCHANGED <<lazy, conn, regs, clientOf, users, refClosed, won>>
CloseClient ==
  /\ verdict # "keep" /\ verdict' = "keep"
  /\ Shut(eventClient, "closed")
  /\ eventClient' = IF verdict = "idle" THEN NoClient ELSE eventClient
  /\ UNCHANGED <<lazy, clientOf, users, refClosed, won>>

\* slip: without waiting for the finalizer
ResetEarly(t) ==
  /\ LR!Reset(t)
  /\ UNCHANGED <<client, users, refClosed, won>>
Reset(t) ==
  /\ verdict = "keep" /\ LR!Reset(t)
  /\ UNCHANGED <<client, users, refClosed, won>>

TimerElse(t) ==
  /\ LR!TimerStart(t) \/ LR!TimerFires(t) \/ LR!TimerClosed(t) \/ LR!TimerStops(t)
  /\ UNCHANGED <<client, users, refClosed, won>>

-----------------------------------------------------------------------------
(* Close                                                                   *)

RefClose(k) ==
  /\ ~refClosed
  /\ refClosed' = TRUE /\ won' = {k}
  /\ UNCHANGED <<lazy, client, users>>

CloseRef(k) ==
  /\ k \in won
  /\ LR!SetClosed(k) \/ LR!NotifyClosing(k) \/ LR!Wait(k)
  /\ UNCHANGED <<client, users, refClosed, won>>

CloseFinalizes(k) ==
  /\ LR!CloseFinalizes(k)
  /\ IF NoValue = ref \/ NoClient = eventClient THEN UNCHANGED <<conn, regs>> ELSE Shut(eventClient, "closed")
  /\ UNCHANGED <<eventClient, clientOf, verdict, users, refClosed, won>>

-----------------------------------------------------------------------------
\* The client closes itself: it lost its connection and does not reconnect.
Terminates(c) ==
  /\ conn[c] = "open" /\ Shut(c, "lost")
  /\ UNCHANGED <<lazy, eventClient, clientOf, verdict, users, refClosed, won>>

Next ==
  \/ \E g \in Getters : Call(g) \/ GetCheck(g) \/ GetFast(g) \/ GetLocked(g) \/ Use(g)
  \/ \E t \in Timers : ExpireFinalizes(t) \/ Reset(t) \/ TimerElse(t)
  \/ CloseClient
  \/ \E k \in Closers : RefClose(k) \/ CloseRef(k) \/ CloseFinalizes(k)
  \/ \E c \in Clients : Terminates(c)

Spec == Init /\ [][Next]_vars

-----------------------------------------------------------------------------
(* Properties                                                              *)

Open(c) == conn[c] = "open"

\* The shape of the state.
TypeOK ==
  /\ LR!TypeOK
  /\ refClosed \in BOOLEAN /\ eventClient \in Clients \cup {NoClient}
  /\ clientOf \in [Values -> Clients \cup {NoClient}]
  /\ conn \in [Clients -> {"none", "open", "closed", "lost"}]
  /\ regs \in [Clients -> SUBSET Getters]
  /\ reg \in [Getters -> Clients \cup {NoClient}]
  /\ call \in [Getters -> {"none", "register", "unregister"}]
  /\ won \subseteq Closers /\ verdict \in {"keep", "idle", "force"}
  /\ verdict # "keep" => locked /\ eventClient # NoClient

\* A channel has one connection for its events: through expirations that close
\* the client, that keep it, and that race with Close, two clients are never
\* open, and the one that is can be reached.
OneClient == \A c \in Clients : Open(c) => c = eventClient

\* The next time the reference is accessed after the client was closed for being
\* idle, a new one is created (eventserviceref.go:25): what is handed out is
\* eventClient, and never one the finalizer closed, while the lock is free.
HandsOutOpen == ref # NoValue /\ ~locked =>
  /\ clientOf[ref] = eventClient
  /\ conn[eventClient] = "closed" => refClosed

\* A registration that still delivers is with the client that the reference has
\* or will have again: Unregister, which asks the reference, reaches it.
RegistrationsReachable ==
  \A g \in Getters, c \in Clients : g \in regs[c] => Open(c) /\ c = eventClient

\* EventClientRef: two clients are never open, what is handed out was not closed by the
\* finalizer, and whoever is registered finds the client that knows it.
EventServiceSound == OneClient /\ HandsOutOpen /\ RegistrationsReachable

\* Close immediately closes the connection (eventserviceref.go:55): when it has
\* returned, nobody is in get(), and the finalizer has had every value, no client
\* is open.
CloseClosesClient ==
  /\ \E k \in won : closer[k] = "done"
  /\ \A g \in Getters : call[g] = "none"
  /\ \A v \in made : finals[v] > 0
  => ~ \E c \in Clients : Open(c)

=============================================================================
