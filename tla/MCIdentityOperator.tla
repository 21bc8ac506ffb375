-------------------------- MODULE MCIdentityOperator --------------------------
(* Objects of most kinds, two users and two clients to choose from; a       *)
(* second specification renames both or is malformed.                       *)
EXTENDS IdentityOperator

Fixed == {"profile", "scope", "mount", "policy", "role", "extgroup", "alias"}
MCObj == Fixed \cup {"u1", "u2", "c1", "c2"}
Few == {"profile", "mount", "role", "u1", "c1"}
KindOf(objects) ==
  [o \in objects |-> CASE o \in {"u1", "u2"} -> "user" [] o \in {"c1", "c2"} -> "client" [] OTHER -> o]
MCKind == KindOf(MCObj)
FewKind == KindOf(Few)
Renamed == <<{Fixed \cup {"u1", "c1"}}, {Fixed \cup {"u2", "c2"}, Malformed}>>
OneIntent == <<{Few}>>
=============================================================================
