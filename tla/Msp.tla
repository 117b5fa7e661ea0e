--------------------------------- MODULE Msp ---------------------------------
(***************************************************************************)
(* The membership service provider: fabric-gm/msp, as the SDK vendors it,  *)
(* and pkg/fab/channel/membership, which asks it about those who sign.     *)
(*                                                                         *)
(* A certificate is who issued it, its organizational units, whether it is *)
(* a CA's and whether today is between its dates. The certifiers           *)
(* identifier, a hash of the chain above a certificate, is its issuer:     *)
(* the chain from there up, Path, is the only one there is.                *)
(***************************************************************************)
EXTENDS Naturals, Sequences, FiniteSets, FiniteSetsExt

CONSTANTS
  Path,         \* of a CA: the chain from it to its root
  Identities,   \* [name, msp, issuer, ous, ca, current]
  Configs,      \* [version, dir, roots, intermediates, tlsRoots, tlsIntermediates, crl, ous,
                \* node, enable, admins]: crl of [ca, serial, genuine]; ous of [ou, ca]; node,
                \* by role [ou, ca]
  Principals    \* see Satisfies

Versions == {"1.0", "1.1", "1.3", "1.4.3"}
MspAssumption ==
  \A c \in Configs :
    /\ DOMAIN c = {"version", "dir", "roots", "intermediates", "tlsRoots", "tlsIntermediates",
                   "crl", "ous", "node", "enable", "admins"}
    /\ c.version \in Versions

Name == "Org1MSP"
Roles == {"client", "peer", "admin", "orderer"}
NoOU == [ou |-> "none", ca |-> "none"]     \* a role without OU
AnyCA == "any"                             \* an OU without certificate
NoFile == "missing"                        \* an OU whose certificate cannot be read

VARIABLES
  call,     \* op, id, principal, result
  world     \* the MSP: at is none, up or failed; config, enforced, node

vars == <<call, world>>

Idle == [op |-> "none"]
Init == call = Idle /\ world = [at |-> "none"]

Version == world.config.version
CAs == world.config.roots \cup world.config.intermediates

-----------------------------------------------------------------------------
(* Chains                                                                  *)

\* getUniqueValidationChain
Chained(cf, ca) ==
  \A i \in DOMAIN Path[ca] :
    Path[ca][i] \in IF i = Len(Path[ca]) THEN cf.roots ELSE cf.intermediates

\* finalizeSetupCAs: the certification tree's internal nodes issue no identities.
Internal(cf) == UNION {{Path[ca][i] : i \in 2 .. Len(Path[ca])} : ca \in cf.intermediates}

\* validateCertAgainstChain: a CRL counts if its signature is that of the issuer.
Revoked(cf, serial, ca) == [ca |-> ca, serial |-> serial, genuine |-> TRUE] \in cf.crl

\* getCertificationChain
HasChain(cf, id) == ~id.ca /\ Chained(cf, id.issuer) /\ id.issuer \notin Internal(cf)
OUs(cf, id) == IF HasChain(cf, id) THEN id.ous ELSE {}

-----------------------------------------------------------------------------
(* Validation, of an MSP m                                                 *)

\* validateIdentityOUsV1
OUsAllowed(m, id) ==
  m.config.ous = {} \/ \E o \in m.config.ous : o.ou \in OUs(m.config, id) /\ o.ca = id.issuer

\* The node OUs among the units of an identity, and validateIdentityOUsV11, V142: one
\* of them, and certified as it must be.
NodeOUs(m, id) == {r \in Roles : m.node[r] # NoOU /\ m.node[r].ou \in OUs(m.config, id)}
\* slip: at least one
AnyNode(roles) == roles # {}
OneNode(roles) == Cardinality(roles) = 1
NodeOUsAllowed(m, id) ==
  ~m.enforced \/ /\ \A r \in NodeOUs(m, id) : m.node[r].ca \in {AnyCA, id.issuer}
                 /\ OneNode(NodeOUs(m, id))

Valid(m, id) ==
  /\ HasChain(m.config, id) /\ ~Revoked(m.config, id.name, id.issuer)
  /\ OUsAllowed(m, id) /\ NodeOUsAllowed(m, id)

\* hasOURole: the name of the unit alone.
HasRole(m, id, role) == m.enforced /\ role \in NodeOUs(m, id)

\* Validate of the channel membership: the dates, the MSP of the identity, the identity.
IsMember(m, id) == id.current /\ id.msp = Name /\ Valid(m, id)

-----------------------------------------------------------------------------
(* Principals: [type, msp, role], [type, id], [type, ou, ca], [type],      *)
(* [type, all]                                                             *)

AtLeast13(m) == m.config.version \in {"1.3", "1.4.3"}

\* satisfiesPrincipalInternalPreV13
RolePreV13(m, id, role) ==
  \/ role = "member" /\ Valid(m, id)
  \/ role = "admin" /\ id \in m.config.admins
  \/ role \in {"client", "peer"} /\ Valid(m, id) /\ HasRole(m, id, role)

\* satisfiesPrincipalInternalV142
RoleV142(m, id, role) ==
  IF m.enforced /\ role \in {"admin", "orderer"}
  THEN (role = "admin" /\ id \in m.config.admins) \/ (Valid(m, id) /\ HasRole(m, id, role))
  ELSE RolePreV13(m, id, role)

SatisfiesOne(m, id, p) ==
  \/ /\ p.type = "role" /\ p.msp = Name
     /\ IF m.config.version = "1.4.3" THEN RoleV142(m, id, p.role)
        ELSE RolePreV13(m, id, p.role)
  \/ p.type = "identity" /\ p.id = id /\ Valid(m, id)
  \/ p.type = "ou" /\ Valid(m, id) /\ p.ou \in id.ous /\ p.ca = id.issuer
  \/ p.type = "nominal" /\ AtLeast13(m)

\* SatisfiesPrincipal with collectPrincipals
Satisfies(m, id, p) ==
  IF p.type = "combined" /\ AtLeast13(m)
  THEN p.all # {} /\ \A q \in p.all : SatisfiesOne(m, id, q)
  ELSE SatisfiesOne(m, id, p)

-----------------------------------------------------------------------------
(* Setup                                                                   *)

\* getMspConfig: of a directory, node OUs only if they are enabled, and those whose
\* certificate cannot be read as those without; TLS intermediates only below TLS roots.
Loaded(cf) ==
  IF ~cf.dir THEN cf
  ELSE [cf EXCEPT
          !.tlsIntermediates = IF cf.tlsRoots = {} THEN {} ELSE @,
          !.node = [r \in Roles |-> IF ~cf.enable THEN NoOU
                                    ELSE IF cf.node[r].ca = NoFile THEN [cf.node[r] EXCEPT !.ca = AnyCA]
                                    ELSE cf.node[r]]]

\* setupCAs, finalizeSetupCAs
AllSound(cf) ==
  \A ca \in cf.roots \cup cf.intermediates :
    Chained(cf, ca) /\ (Len(Path[ca]) > 1 => ~Revoked(cf, ca, Path[ca][2]))
CAsSound(cf) == cf.roots # {} /\ AllSound(cf)

\* setupTLSCAs
TLSCAsSound(cf) ==
  AllSound([cf EXCEPT !.roots = cf.tlsRoots, !.intermediates = cf.tlsIntermediates])

\* getCertifiersIdentifier
Certifier(cf, ca) == ca \in cf.roots \/ (ca \in cf.intermediates /\ ca \notin Internal(cf))

\* setupNodeOUs, from version 1.1, and setupNodeOUsV142
RolesOf(version) == CASE version = "1.0" -> {}
                      [] version \in {"1.1", "1.3"} -> {"client", "peer"}
                      [] version = "1.4.3" -> Roles
NodeOf(cf) == [r \in Roles |-> IF r \in RolesOf(cf.version) THEN cf.node[r] ELSE NoOU]
HasNodeOUs(cf) == cf.enable \/ \E r \in Roles : cf.node[r] # NoOU
MspOf(cf) ==
  LET node == NodeOf(cf) IN
  [at |-> "up", config |-> cf, node |-> node,
   enforced |-> cf.enable /\ cf.version # "1.0" /\ \E r \in Roles : node[r] # NoOU]
NodeOUsSound(cf) ==
  /\ \A r \in RolesOf(cf.version) : cf.node[r] # NoOU /\ cf.node[r].ca # AnyCA
                                       => Certifier(cf, cf.node[r].ca)
  /\ cf.version \in {"1.1", "1.3"} /\ HasNodeOUs(cf)
       => cf.node["client"] # NoOU /\ cf.node["peer"] # NoOU

\* setupAdmins; postSetupV1, V11 and V142
\* slip: V11 asks for a client by name, as V142 does
ClientByName(m, id) == HasRole(m, id, "client")
ClientAdmin(m, id) == Satisfies(m, id, [type |-> "role", msp |-> Name, role |-> "client"])
AdminsSound(m) ==
  /\ m.config.version = "1.4.3" /\ m.config.admins = {} => m.enforced /\ m.node["admin"] # NoOU
  /\ \A id \in m.config.admins :
       CASE ~m.enforced -> Valid(m, id)
         [] m.enforced /\ m.config.version # "1.4.3" -> ClientAdmin(m, id)
         [] OTHER -> HasRole(m, id, "client") \/ HasRole(m, id, "admin")

Setup ==
  /\ world.at = "none" /\ UNCHANGED call
  /\ \E c \in Configs :
       LET cf == Loaded(c) IN
       world' = IF /\ CAsSound(cf) /\ TLSCAsSound(cf) /\ \A o \in cf.ous : Certifier(cf, o.ca)
                   /\ NodeOUsSound(cf) /\ AdminsSound(MspOf(cf))
                THEN MspOf(cf) ELSE [at |-> "failed", config |-> cf]

-----------------------------------------------------------------------------
Validate ==
  /\ world.at = "up" /\ call = Idle /\ UNCHANGED world
  /\ \E id \in Identities :
       call' = [op |-> "validate", id |-> id, result |-> IsMember(world, id)]

SatisfiesPrincipal ==
  /\ world.at = "up" /\ call = Idle /\ UNCHANGED world
  /\ \E id \in Identities, p \in Principals :
       call' = [op |-> "satisfies", id |-> id, principal |-> p, result |-> Satisfies(world, id, p)]

Next == Setup \/ Validate \/ SatisfiesPrincipal \/ (call # Idle /\ call' = Idle /\ UNCHANGED world)

Spec == Init /\ [][Next]_vars

-----------------------------------------------------------------------------
(* Properties                                                              *)

\* The shape of the state.
TypeOK ==
  /\ world.at \in {"none", "up", "failed"}
  /\ world.at = "up" => world.enforced \in BOOLEAN /\ DOMAIN world.node = Roles
  /\ call # Idle => call.id \in Identities /\ call.result \in BOOLEAN

Satisfied(role) == {id \in Identities :
                      Satisfies(world, id, [type |-> "role", msp |-> Name, role |-> role])}

\* Validation counts the node OUs by name and certifier, a role looks for the name alone:
\* where they are enforced, one who is valid has one role and no more, unless the
\* configuration names it an administrator.
OneRole ==
  world.at = "up" /\ world.enforced =>
    \A id \in Identities \ world.config.admins :
      Valid(world, id) => Cardinality({r \in Roles : id \in Satisfied(r)}) = 1

\* Whoever satisfies a role is a valid member, although for an administrator only the
\* certificate is compared: Setup has validated it ("this way, when we validate an admin
\* MSP principal we can simply check for exact match of certs", mspimplsetup.go). Not so
\* with the node OUs of version 1.4.3, where Setup looks at its units alone.
RolesAreMembers ==
  world.at = "up" =>
    \A r \in Roles : \A id \in Satisfied(r) :
      Valid(world, id) \/ (Version = "1.4.3" /\ world.enforced /\ id \in world.config.admins)
=============================================================================
