--------------------------- MODULE MCUpgradeIntake ---------------------------
(***************************************************************************)
(* Instances of UpgradeIntake, and with it of UpgradeGuards, for TLC.      *)
(* Nothing tells handlers apart.                                           *)
(***************************************************************************)
EXTENDS UpgradeIntake, TLC

CONSTANTS a1, x, y, z

IntakeSymmetry == Permutations(Posts)

\* Bounds of the instance: one of a crash, a failing save and a decision; after
\* it no handler works on the third reason, and a decision comes before the
\* second request is stored.
Decided == {i \in DOMAIN store : store[i].status = "decided"}
Events == crashes + faults + Cardinality(Decided)

Instance ==
  /\ Events <= 1
  /\ Events = 1 => \A p \in Posts : post[p].pc = "idle" \/ post[p].key[2] # z
  /\ Decided # {} => Len(store) = 1

MCSpec == IntakeInit /\ [][IntakeNext /\ Instance']_intakeVars
=============================================================================
