------------------------------ MODULE Identities ------------------------------
(***************************************************************************)
(* Identities and the certificate authority: pkg/client/msp, pkg/msp and   *)
(* the client of fabric-ca-gm, over the user store and the key store.      *)
(*                                                                         *)
(* A certificate is the number of its key, and whom it was issued to is    *)
(* what the authority remembers. A file is written in two steps, as        *)
(* WriteFile does; a client may crash, and an answer may get lost.         *)
(***************************************************************************)
EXTENDS Integers, FiniteSets

CONSTANTS
  Clients, Names, Registrar,
  RegistrarSecret,   \* whether the configuration has one
  Embedded,          \* by name [cert, key], of the configuration; 0 for none
  Files,             \* by name [cert, keys, priv] below the crypto path: the certificate,
                     \* the keys named by their SKI, and priv_sk
  MaxKeys, MaxEnrollments, MaxFaults

Absent == 0
HalfWritten == -1
Keys == 1 .. MaxKeys

IdentitiesAssumption ==
  /\ Registrar \in Names /\ RegistrarSecret \in BOOLEAN
  /\ {MaxKeys, MaxEnrollments, MaxFaults} \subseteq Nat
  /\ Embedded \in [Names -> [cert : Nat, key : Nat]]
  /\ Files \in [Names -> [cert : Nat, keys : SUBSET Nat, priv : Nat]]

\* The requests that a registrar signs. "look" is any that only reads identities, modifies
\* one, or concerns affiliations.
Changes == {"register", "revoke", "remove"}
RegistrarOps == Changes \cup {"look"}

VARIABLES
  call,     \* by client [op, name, at, who, key, by, again, result]: who is enrolled, with which
            \* key; by: the identity that signs; again: the registrar has been enrolled
  world     \* keys in the key store; users: by name the certificate in the user store, Absent or
            \* HalfWritten; known: by name how often the authority lets it enrol, or -1; issued: of
            \* [name, key]; revoked; faults

vars == <<call, world>>

NotFound == [found |-> "no", cert |-> Absent, key |-> Absent]
Idle == [op |-> "none", name |-> Registrar, at |-> "idle", who |-> Registrar, key |-> Absent,
         by |-> NotFound, again |-> FALSE, result |-> "none"]
Init ==
  /\ call = [c \in Clients |-> Idle]
  /\ world = [keys |-> {}, users |-> [n \in Names |-> Absent],
              known |-> [n \in Names |-> IF n = Registrar THEN MaxEnrollments ELSE -1],
              issued |-> {i \in {[name |-> n, key |-> Embedded[n].cert] : n \in Names}
                              \cup {[name |-> n, key |-> Files[n].cert] : n \in Names} : i.key # Absent},
              revoked |-> {}, next |-> 1, faults |-> 0]

Continue(c, new) == call' = [call EXCEPT ![c] = new]
Ends(c, result) == Continue(c, [Idle EXCEPT !.op = call[c].op, !.at = "done", !.result = result])
Faulty == world.faults < MaxFaults

-----------------------------------------------------------------------------
(* Signing identities                                                      *)

Broken == [NotFound EXCEPT !.found = "error"]
Pair(cert, key) == [found |-> "yes", cert |-> cert, key |-> key]

\* The file of the key in the directory of the user: priv_sk whatever the SKI, or named by it
KeyFile(n, cert) ==
  IF Files[n].priv # Absent THEN Files[n].priv
  ELSE IF cert \in Files[n].keys THEN cert ELSE Absent
\* getPrivateKeyFromCert: the configuration, the key file, the crypto suite
PrivateKey(n, cert) ==
  IF Embedded[n].key # Absent THEN Embedded[n].key
  ELSE IF KeyFile(n, cert) # Absent THEN KeyFile(n, cert)
  ELSE IF cert \in world.keys THEN cert
  ELSE Absent
\* The certificate that the configuration names
Configured(n) == IF Embedded[n].cert # Absent THEN Embedded[n].cert ELSE Files[n].cert

\* GetUser: the user store, else the certificate of the configuration, else that of the
\* crypto path.
GetUser(n) ==
  LET stored == world.users[n]
      cert == Configured(n)
  IN CASE stored = HalfWritten -> Broken
       [] stored \in Keys -> IF stored \in world.keys THEN Pair(stored, stored) ELSE Broken
       [] stored = Absent -> IF cert = Absent THEN NotFound
                           ELSE IF PrivateKey(n, cert) = Absent THEN Broken
                           ELSE Pair(cert, PrivateKey(n, cert))

-----------------------------------------------------------------------------
(* Requests of a client                                                    *)

CallEnroll(c, n) ==
  /\ call[c].at = "idle" /\ UNCHANGED world
  /\ Continue(c, [Idle EXCEPT !.op = "enroll", !.name = n, !.who = n, !.at = "generate"])

\* Reenroll, with the identity there is; the certificate authority checks its signature.
CallReenroll(c, n) ==
  /\ call[c].at = "idle" /\ UNCHANGED world
  /\ IF GetUser(n).found = "yes"
     THEN Continue(c, [Idle EXCEPT !.op = "reenroll", !.name = n, !.who = n, !.by = GetUser(n),
                                   !.at = "generate"])
     ELSE Continue(c, [Idle EXCEPT !.op = "reenroll", !.at = "done", !.result = "error"])

CallRegistrarOp(c, op, n) ==
  /\ call[c].at = "idle" /\ UNCHANGED world
  /\ Continue(c, [Idle EXCEPT !.op = op, !.at = "registrar",
                   !.name = n])
Register(c, n) == CallRegistrarOp(c, "register", n)
Revoke(c, n) == CallRegistrarOp(c, "revoke", n)
RemoveIdentity(c, n) == CallRegistrarOp(c, "remove", n)
Look(c) == CallRegistrarOp(c, "look", Registrar)

\* getRegistrar: one who is not found is enrolled, with the secret of the configuration.
GetRegistrar(c) ==
  /\ call[c].at = "registrar" /\ UNCHANGED world
  /\ LET user == GetUser(Registrar) IN
     CASE user.found = "yes" -> Continue(c, [call[c] EXCEPT !.at = "sign", !.by = user])
       [] user.found = "no" /\ RegistrarSecret /\ ~call[c].again ->
            Continue(c, [call[c] EXCEPT !.at = "generate", !.who = Registrar])
       [] OTHER -> Ends(c, "error")

\* GenCSR: the key is in the key store before the authority hears of it.
\* slip: the key is kept in memory
KeepInMemory(c) ==
  /\ call[c].at = "generate" /\ world.next \in Keys
  /\ world' = [world EXCEPT !.next = @ + 1]
  /\ Continue(c, [call[c] EXCEPT !.at = "post", !.key = world.next])
GenCSR(c) ==
  /\ call[c].at = "generate" /\ world.next \in Keys
  /\ world' = [world EXCEPT !.next = @ + 1, !.keys = @ \cup {world.next}]
  /\ Continue(c, [call[c] EXCEPT !.at = "post", !.key = world.next])

-----------------------------------------------------------------------------
(* The certificate authority                                               *)

\* Those whose certificate it has issued, not revoked, and whose signature matches.
Trusted(user, n) ==
  /\ user.found = "yes" /\ user.cert = user.key
  /\ user.cert \notin world.revoked /\ [name |-> n, key |-> user.cert] \in world.issued

\* What it does for an enrolment that it accepts.
Enrolled(c) ==
  LET n == call[c].who IN
  [world EXCEPT !.issued = @ \cup {[name |-> n, key |-> call[c].key]},
                !.known[n] = IF call[c].op = "reenroll" THEN @ ELSE @ - 1]
AcceptsEnrol(c) ==
  IF call[c].op = "reenroll" THEN Trusted(call[c].by, call[c].who)
  ELSE world.known[call[c].who] > 0

AcceptsSigned(c) ==
  /\ Trusted(call[c].by, Registrar)
  /\ call[c].op # "look" => (call[c].op = "register") = (world.known[call[c].name] = -1)
CertsOf(n) == {i.key : i \in {j \in world.issued : j.name = n}}
Served(c) ==
  LET n == call[c].name IN
  CASE call[c].op = "register" -> [world EXCEPT !.known[n] = MaxEnrollments]
    [] call[c].op = "revoke" -> [world EXCEPT !.known[n] = 0, !.revoked = @ \cup CertsOf(n)]
    [] call[c].op = "remove" -> [world EXCEPT !.known[n] = -1, !.revoked = @ \cup CertsOf(n)]
    [] OTHER -> world

\* A request, which the authority carries out or refuses; the answer may get lost, and so
\* may the request.
Exchange(c, accepts, after, continue) ==
  \/ accepts /\ world' = after /\ continue
  \/ accepts /\ Faulty /\ world' = [after EXCEPT !.faults = @ + 1] /\ Ends(c, "error")
  \/ ~accepts /\ UNCHANGED world /\ Ends(c, "error")
  \/ Faulty /\ world' = [world EXCEPT !.faults = @ + 1] /\ Ends(c, "error")

\* handleX509Enroll and Reenroll, with SendReq
Post(c) ==
  /\ call[c].at = "post"
  /\ Exchange(c, AcceptsEnrol(c), Enrolled(c), Continue(c, [call[c] EXCEPT !.at = "open"]))

\* Post, Put, Delete and Get with a token
Sign(c) ==
  /\ call[c].at = "sign"
  /\ Exchange(c, AcceptsSigned(c), Served(c), Ends(c, "ok"))

-----------------------------------------------------------------------------
(* The user store                                                          *)

\* FileKeyValueStore.Store: WriteFile empties the file, then writes it.
OpenFile(c) ==
  /\ call[c].at = "open" /\ world' = [world EXCEPT !.users[call[c].who] = HalfWritten]
  /\ Continue(c, [call[c] EXCEPT !.at = "write", !.by = NotFound])

\* slip: what is stored is of the name that was asked for
WriteForName(c) ==
  /\ call[c].at = "write"
  /\ world' = [world EXCEPT !.users[call[c].name] = call[c].key]
  /\ IF call[c].op \in RegistrarOps
     THEN Continue(c, [call[c] EXCEPT !.at = "registrar", !.again = TRUE, !.key = Absent])
     ELSE Ends(c, "ok")
WriteFile(c) ==
  /\ call[c].at = "write"
  /\ world' = [world EXCEPT !.users[call[c].who] = call[c].key]
  /\ IF call[c].op \in RegistrarOps
     THEN Continue(c, [call[c] EXCEPT !.at = "registrar", !.again = TRUE, !.key = Absent])
     ELSE Ends(c, "ok")

Finished(c) == call[c].at = "done" /\ UNCHANGED world /\ Continue(c, Idle)

Crash(c) ==
  /\ call[c].at \notin {"idle", "done"} /\ Faulty /\ Continue(c, Idle)
  /\ world' = [world EXCEPT !.faults = @ + 1]

Next ==
  \E c \in Clients :
    \/ \E n \in Names : \/ CallEnroll(c, n) \/ CallReenroll(c, n)
                        \/ Register(c, n) \/ Revoke(c, n) \/ RemoveIdentity(c, n)
    \/ Look(c) \/ GetRegistrar(c) \/ GenCSR(c) \/ Post(c) \/ Sign(c)
    \/ OpenFile(c) \/ WriteFile(c) \/ Finished(c) \/ Crash(c)

Spec == Init /\ [][Next]_vars

-----------------------------------------------------------------------------
(* Properties                                                              *)

\* The shape of the state.
TypeOK ==
  /\ \A c \in Clients : call[c].who \in Names /\ call[c].key \in Keys \cup {Absent}
  /\ world.users \in [Names -> Keys \cup {Absent, HalfWritten}] /\ world.keys \subseteq Keys
  /\ world.known \in [Names -> -1 .. MaxEnrollments]

\* Whatever crashes, gets lost or is done by two clients at once: a certificate in the user
\* store was issued to that name, and its private key is in the key store.
StoredIdentitiesWork ==
  \A n \in Names : world.users[n] \in Keys =>
    [name |-> n, key |-> world.users[n]] \in world.issued /\ world.users[n] \in world.keys

\* "The private key and the enrollment certificate issued by the CA are stored in SDK
\* stores. They can be retrieved by calling IdentityManager.GetSigningIdentity()"
\* (pkg/client/msp/client.go), so that what was found once is found again.
EnrolledCanBeRetrieved ==
  [][\A n \in Names : GetUser(n).found = "yes" => GetUser(n)'.found = "yes"]_vars
===============================================================================
