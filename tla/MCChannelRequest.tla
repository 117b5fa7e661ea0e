--------------------------- MODULE MCChannelRequest ---------------------------
(* Instances of ChannelRequest for TLC: three peers of two organizations,  *)
(* and a chaincode that may call another one.                              *)
EXTENDS ChannelRequest

CONSTANTS p1, p2, p3, o1, o2, cc1, cc2, cc3, own, both

OrgOfMC == [p \in {p1, p2, p3} |-> IF p = p3 THEN o2 ELSE o1]

\* The chaincode cc1 may call the others; only cc2 asks for both organizations.
PoliciesMC == [cc \in {cc1, cc2, cc3} |-> IF cc = cc2 THEN {{o1, o2}} ELSE {{o1}}]
TouchesMC == [d \in {own, both} |-> IF d = own THEN {cc1, cc3} ELSE {cc1, cc2}]

Request(kind, fixed, chain) ==
  [kind |-> kind, fixed |-> fixed, called |-> cc1, chain |-> chain]
RequestsMC ==
  {Request("query", {}, {}), Request("execute", {}, {}),
   Request("execute", {}, {cc2}), Request("execute", {p1, p3}, {})}

=============================================================================
