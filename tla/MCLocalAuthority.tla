--------------------------- MODULE MCLocalAuthority ---------------------------
(***************************************************************************)
(* Instances of LocalAuthority for TLC.  The scopes are one of each kind a *)
(* profile can be: a command behind approval, one open by policy, a vault  *)
(* reference reachable through a permission grant only, and an upgrade.    *)
(***************************************************************************)
EXTENDS LocalAuthority, TLC

CONSTANTS r1, r2, c1, command, open, vault, upgrade

MCProfile(s) ==
  CASE s = command -> [kind |-> "command", requireApproval |-> TRUE, static |-> TRUE,
                       ttl |-> 1, maxSession |-> 2]
    [] s = open    -> [kind |-> "command", requireApproval |-> FALSE, static |-> TRUE,
                       ttl |-> 0, maxSession |-> 0]
    [] s = vault   -> [kind |-> "vault", requireApproval |-> TRUE, static |-> FALSE,
                       ttl |-> 1, maxSession |-> 0]
    [] s = upgrade -> [kind |-> "permission-upgrade", requireApproval |-> TRUE,
                       static |-> TRUE, ttl |-> 1, maxSession |-> 0]

MCProfiles == [s \in Scopes |-> MCProfile(s)]

SentRequests == {r \in Requests : store[r].status # "absent"}

(***************************************************************************)
(* Two scenarios in one instance.  While r1 is alone, every kind of        *)
(* profile meets two of a crash, a failing file operation, a command and a *)
(* lease, and a clock that reaches the session cap where the profile can   *)
(* have sessions, with fewer of them once it does.  The commands ask for   *)
(* what the request asks for.  Once r2 is sent, two commands of one        *)
(* profile race with each other, with signed decisions and with one        *)
(* revocation.  The bound stops only actions that have no fairness.        *)
(***************************************************************************)
Instance ==
  /\ SentRequests # {r2}
  /\ crashes + faults + cliOps <= 2 /\ crashes + faults + cliOps + clock <= 3
  /\ \A r \in SentRequests :
       /\ store[r].scope # command => store[r].ttl = 0 /\ clock <= 1
       /\ store[r].scope # vault => granted = {}
  /\ cliOps = 2 => lastCeiling > 0
  /\ lastCeiling > 0 => crashes + faults = 0 /\ clock <= 1
  /\ \A c \in Clis : cli[c].pc # "idle" =>
       /\ \A r \in SentRequests : store[r].scope = cli[c].scope
       /\ cli[c].ttl = 0 \/ cli[c].opener = "start"
  /\ SentRequests = Requests =>
       /\ \A r \in Requests : store[r].scope = command /\ store[r].ttl = 0
       /\ \A i \in DOMAIN minted :
            minted[i].expires - minted[i].created = 1 /\ minted[i].opener \in Requests
       /\ clock <= 1 /\ crashes + faults = 0 /\ granted = {}
       /\ cliOps <= 1 /\ lastCeiling = 0
       /\ \A c \in Clis : cli[c].pc \in {"idle", "save"}

MCSpec == Init /\ [][Next /\ Instance']_vars /\ Fairness
=============================================================================
