----------------------------- MODULE MCScopedRun -----------------------------
(***************************************************************************)
(* Instances of ScopedRun for TLC: two injected values of one line, just   *)
(* long enough for the redaction, and one secret file of several lines.    *)
(***************************************************************************)
EXTENDS ScopedRun, TLC

CONSTANTS token, password, kubeconfig, stdout, stderr

MCLength == [n \in Names |-> 4]

AllOrNothing == {{}, Names}
Nothing == {{}}

\* Bounds of the instance: no secret on stderr, and a kill only where nothing
\* else failed.  They stop only actions that have no fairness.
Instance ==
  /\ pending # <<>> /\ pending[1].on = stderr => pending[1].piece.holds = {}
  /\ pc = "killed" => faults = 0

MCSpec == Init /\ [][Next /\ Instance']_vars /\ Fairness
=============================================================================
