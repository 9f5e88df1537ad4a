---------------------------- MODULE MCPermissions ----------------------------
(***************************************************************************)
(* Instances of Permissions for TLC: a command profile and the profile of  *)
(* upgrades, whose kinds an edit of the configuration exchanges.  Two      *)
(* texts: a literal, and a glob that matches it.                           *)
(***************************************************************************)
EXTENDS Permissions, TLC

CONSTANTS tool, meta, literal, glob

MCMatchedBy == [t \in Texts |-> IF t = glob THEN Texts ELSE {t}]

Before == [kind   |-> [p \in Profiles |-> IF p = meta THEN "permission-upgrade" ELSE "command"],
           static |-> [p \in Profiles |-> IF p = meta THEN {literal} ELSE {}]]
Exchanged == [Before EXCEPT !.kind = [p \in Profiles |-> IF p = tool THEN "permission-upgrade" ELSE "command"]]

MCConfigs == {Before, Exchanged}
=============================================================================
