---------------------------- MODULE MCUpgradeFlow ----------------------------
(***************************************************************************)
(* Instances of UpgradeFlow for TLC.                                       *)
(***************************************************************************)
EXTENDS UpgradeFlow, TLC

CONSTANTS r1, r2, o1, o2, c1, c2

SentRequests == {r \in Requests : status[r] # "absent"}

(***************************************************************************)
(* Two scenarios in one instance.  While r1 is alone, two operators decide *)
(* it in every mode beside signed decisions, with a crash and a failing    *)
(* file operation.  Once r2 is sent, one operator decides both, and when   *)
(* the clients have returned, a grant still being appended maybe, two      *)
(* revoke --id and a revoke --all rewrite and unlink the files.  The bound *)
(* stops only actions that have no fairness.                               *)
(***************************************************************************)
Instance ==
  /\ SentRequests # {r2}
  /\ cliOps > 0 =>
       /\ SentRequests = Requests /\ clock = MaxClock
       /\ \A r \in Requests : client[r] # "waiting"
  /\ cliOps = MaxCliOps => \A r \in Requests : lease[r] = "permanent"
  /\ SentRequests = Requests =>
       /\ op[o2].pc = "idle" /\ crashes + faults = 0
       /\ \A r \in Requests : lease[r] \notin {"marked", "unmarked"}
       /\ \A o \in Operators : op[o].pc # "idle" =>
            op[o].mode \in IF op[o].req = r1 THEN {"permanent"} ELSE {"once", "permanent"}

\* Nothing tells the revoke processes apart: c2 starts only beside c1.  The
\* last of the commands is a revoke --all.
InTurn == /\ cli[c2].pc = "idle" /\ cli'[c2].pc # "idle" => cli[c1].pc # "idle"
          /\ cliOps' = MaxCliOps /\ cliOps < MaxCliOps => cli' = cli

MCSpec == Init /\ [][Next /\ Instance' /\ InTurn]_vars /\ Fairness
=============================================================================
