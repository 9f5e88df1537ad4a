--------------------------- MODULE MCRemoteApproval ---------------------------
(***************************************************************************)
(* Instances of RemoteApproval for TLC.  The scopes are one of each way an *)
(* approver can treat a request: prompting for it, approving it by policy, *)
(* rejecting it, and a vault reference.                                    *)
(***************************************************************************)
EXTENDS RemoteApproval, FiniteSets, TLC

CONSTANTS r1, r2, a1, command, open, foreign, vault

MCProfile(s) ==
  [kind |-> IF s = vault THEN "vault" ELSE "command",
   requireApproval |-> s # open,
   accepted |-> s # foreign]

MCProfiles == [s \in Scopes |-> MCProfile(s)]

SentRequests == {r \in Requests : store[r].status # "absent"}

\* Sessions opened by other commands of the approver's host.
OpenedElsewhere == {g \in sessions : g.opener \in HostOpeners}

(***************************************************************************)
(* Two scenarios in one instance.  While r1 is alone it is for any scope,  *)
(* and unsigned decisions bring any lease; a call may fail and the daemon  *)
(* crash, or else another command of the approver's host opens a session.  *)
(* Once r2 is sent, two requests of the scopes behind a prompt meet one    *)
(* approver with an outdated list, the sessions of its own prompts and the *)
(* local authority, and an unsigned decision brings the other key's lease. *)
(* The bound stops only actions that have no fairness.                     *)
(***************************************************************************)
Instance ==
  /\ SentRequests # {r2}
  /\ OpenedElsewhere # {} =>
       /\ SentRequests # Requests /\ faults + crashes = 0
       /\ Cardinality(OpenedElsewhere) = 1
       /\ \A g \in OpenedElsewhere : g.opener \in {"policy", "lease", "daemon"}
  /\ SentRequests = Requests =>
       /\ faults + crashes = 0
       /\ \A r \in Requests :
            /\ store[r].content.scope \in {command, vault}
            /\ store[r].lease # NoLease /\ store[r].lease.by = "anyone" =>
                 store[r].lease.key # r /\ store[r].lease.content = store[r].content

MCSpec == Init /\ [][Next /\ Instance']_vars /\ Fairness
=============================================================================
