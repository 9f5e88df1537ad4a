---------------------------- MODULE LocalAuthority ----------------------------
(***************************************************************************)
(* capbrokerd with --local-approve: the request store, one decider         *)
(* goroutine per request, the operator sessions in grants.json that the    *)
(* deciders share with the commands run on the same host, the signed       *)
(* decisions of remote approvers that race with them, and daemon crashes.  *)
(*                                                                         *)
(* A scope stands for (agent, profile, resource), what requestHash hashes. *)
(* remote-requests.json is written under a mutex by one process, so one    *)
(* store call is one step.  grants.json has no lock: its load and its save *)
(* are separate steps, and anything may happen between them.  Besides the  *)
(* deciders it is written by session start and revoke, by run and request, *)
(* which approve for themselves (ensureApproved), and by approve when its  *)
(* operator works on this host.  All of them use one configuration.        *)
(***************************************************************************)
EXTENDS OperatorSessions, Sequences

CONSTANTS
  Requests,         \* request ids
  Scopes,           \* the (agent, profile, resource) triples agents ask for
  Profile,          \* the profile of each scope, see ProfileRecord
  RequestedTTLs,    \* values of session_ttl_seconds, 0 when absent
  MaxSession,       \* defaults.max_session_seconds
  LocalApprove,     \* --local-approve
  ApproverKeys,     \* remote.approvers is not empty
  AllowUnsigned,    \* --allow-unsigned-decisions
  Clis,             \* commands that may be running at a time
  MaxLease,         \* the longest auto-approve lease, MaxAutoApproveTTL
  MaxClock,         \* bound: the last instant
  MaxFaults,        \* bound: failed file operations
  MaxCrashes,       \* bound: daemon crashes
  MaxCliOps         \* bound: commands run on this host

Kinds == {"command", "vault", "permission-upgrade"}

\* The part of a Profile that decides; static: the config's own agent,
\* resource and command lists accept the scope.
ProfileRecord == [kind : Kinds, requireApproval : BOOLEAN, static : BOOLEAN,
                  ttl : Nat, maxSession : Nat]

ASSUME LocalAuthorityAssumption ==
  /\ Scopes # {}
  /\ Profile \in [Scopes -> ProfileRecord]
  /\ RequestedTTLs \subseteq Nat /\ 0 \in RequestedTTLs
  /\ MaxSession \in Nat
  /\ LocalApprove \in BOOLEAN /\ ApproverKeys \in BOOLEAN /\ AllowUnsigned \in BOOLEAN
  /\ MaxLease \in Nat
  /\ Requests \cap {"start", "policy", "lease", "prompt", "approver"} = {}
  /\ MaxClock \in Nat \ {0} /\ MaxFaults \in Nat /\ MaxCrashes \in Nat /\ MaxCliOps \in Nat

VARIABLES
  up,        \* the daemon runs
  store,     \* remote-requests.json
  decider,   \* the goroutine running localDecideRequest for each request
  minted,    \* every session ever built; its index is its ID
  sessions,  \* grants.json: the set of session IDs in the file
  cli,       \* the commands in progress
  consents,  \* what was agreed to in commands: opener, scope and criticality
  autoApprove, \* MaxExpiresAt of the lease in auto-approve.lease, 0 without one
  lastCeiling, \* the latest MaxExpiresAt the operator ever set
  granted,   \* scopes the permission-grant files currently add
  yes,       \* requests the operator said yes to at the prompt
  clock, faults, crashes, cliOps

\* What only the commands write, and what only the daemon writes.
cliVars == <<cli, consents, autoApprove, lastCeiling>>
daemonVars == <<up, store, decider, granted, yes>>

vars == <<daemonVars, cliVars, minted, sessions, clock, faults, crashes, cliOps>>

\* Who decided, as the Message of the request tells it.
Deciders == {"nobody", "policy", "session", "authority", "signed"}

\* session: the ID in "approved by active operator session ID", else 0;
\* lease: the expiry of the encrypted lease, 0 while there is none.
StoredRequest == [status : {"absent", "pending", "approved", "denied"},
                  scope : Scopes, critical : BOOLEAN, ttl : RequestedTTLs,
                  by : Deciders, session : Nat, lease : Nat]

NoRequest == [status |-> "absent", scope |-> CHOOSE s \in Scopes : TRUE,
              critical |-> FALSE, ttl |-> 0,
              by |-> "nobody", session |-> 0, lease |-> 0]

Steps == {"idle", "validate", "lookup", "prompt", "createLoad", "createSave",
          "resolve", "approve", "deny"}

\* A decider's program point and locals: who will be named as decider, the
\* session reused, the content it is about to save and the lease it holds.
DeciderState == [pc : Steps, by : Deciders, session : Nat,
                 write : SUBSET Nat, lease : Nat]

At(pc) == [pc |-> pc, by |-> "nobody", session |-> 0, write |-> {}, lease |-> 0]

\* How a command comes to open a session: session start, and in run and
\* request a profile without approval, an auto-approve lease or a yes, and
\* the yes of the approve command.
CliOpeners == {"start", "policy", "lease", "prompt", "approver"}

\* The Grant struct; opener is its origin: a request of the daemon's, or how
\* a command came to open it.
Session == [scope : Scopes, created : Nat, expires : Nat, opener : Requests \cup CliOpeners]

\* A command: its Request, the now it took when it started, how it may open
\* a session, and the content it is about to save.
Cli == [pc : {"idle", "lookup", "lease", "prompt", "load", "save"}, opener : CliOpeners,
        scope : Scopes, critical : BOOLEAN, ttl : RequestedTTLs, at : Nat,
        write : SUBSET Nat]

IdleCli == [pc |-> "idle", opener |-> "start", scope |-> CHOOSE s \in Scopes : TRUE,
            critical |-> FALSE, ttl |-> 0, at |-> 0, write |-> {}]

-----------------------------------------------------------------------------
Kind(r)     == Profile[store[r].scope].kind
Upgrade(r)  == Kind(r) = "permission-upgrade"

\* validateRequestAt: the static lists, extended by the permission-grant
\* files for every kind but permission-upgrade.
Allowed(s) == \/ Profile[s].static
              \/ s \in granted /\ Profile[s].kind # "permission-upgrade"

\* validateRequestAt's normalised TTLSeconds.
ProfileTTL(s) == IF Profile[s].ttl > 0 THEN Profile[s].ttl ELSE DefaultSession

SessionTTL(s, requested) ==
  RequestedSessionTTL(MaxSession, Profile[s].maxSession, ProfileTTL(s), requested)

\* The Grant createGrant builds for the instant it is given.
NewSession(s, requested, opener, now) ==
  [scope |-> s, created |-> now, expires |-> now + SessionTTL(s, requested),
   opener |-> opener]

\* createGrant's file content: what was loaded plus the new session (the
\* last one minted), without the sessions expired by the given instant.
Appended(file, g, now) ==
  {i \in file : Unexpired(minted[i].expires, now)}
    \cup (IF Unexpired(g.expires, now) THEN {Len(minted) + 1} ELSE {})

\* activeGrant: sessions of the file that match the scope and are unexpired.
ActiveAt(s, now) ==
  {i \in sessions : minted[i].scope = s /\ Unexpired(minted[i].expires, now)}

ActiveSessions(s) == ActiveAt(s, clock)

\* A file operation fails.
Fault == faults < MaxFaults /\ faults' = faults + 1

\* remoteStore.update of one request.
Record(r, status, who, session, lease) ==
  store' = [store EXCEPT ![r] = [store[r] EXCEPT !.status = status, !.by = who,
                                   !.session = session, !.lease = lease]]

Goto(r, next) == decider' = [decider EXCEPT ![r] = next]

DenyNow(r) == Goto(r, At("deny"))

ApproveAs(r, who, session) ==
  Goto(r, [At("resolve") EXCEPT !.by = who, !.session = session])

-----------------------------------------------------------------------------
Init ==
  /\ up = TRUE
  /\ store = [r \in Requests |-> NoRequest]
  /\ decider = [r \in Requests |-> At("idle")]
  /\ minted = <<>> /\ sessions = {}
  /\ cli = [c \in Clis |-> IdleCli] /\ consents = {}
  /\ autoApprove = 0 /\ lastCeiling = 0
  /\ granted = {} /\ yes = {}
  /\ clock = 0 /\ faults = 0 /\ crashes = 0 /\ cliOps = 0

\* The RemoteRequest createRequest stores.
Submitted(s, c, t) ==
  [NoRequest EXCEPT !.status = "pending", !.scope = s, !.critical = c, !.ttl = t]

\* createRequest: an allowed request is stored pending and its decider is
\* started.  Only command requests carry a command that may be critical;
\* without --local-approve the kinds only the daemon can serve are refused.
Create(r) ==
  /\ up /\ store[r].status = "absent"
  /\ \E s \in Scopes, c \in BOOLEAN, t \in RequestedTTLs :
       /\ Allowed(s)
       /\ Profile[s].kind \in {"vault", "permission-upgrade"} => LocalApprove
       /\ c => Profile[s].kind = "command"
       /\ store' = [store EXCEPT ![r] = Submitted(s, c, t)]
  /\ IF LocalApprove THEN Goto(r, At("validate")) ELSE UNCHANGED decider
  /\ UNCHANGED <<up, minted, sessions, cliVars, granted, yes, clock, faults, crashes, cliOps>>

\* A plausible bug: upgrade requests go on to the prompt like any other.
ValidateUpgradeToo(r) ==
  /\ decider[r].pc = "validate"
  /\ LET s == store[r].scope IN
       \/ ~Allowed(s) /\ DenyNow(r)
       \/ Allowed(s) /\ ~Profile[s].requireApproval /\ ApproveAs(r, "policy", 0)
       \/ Allowed(s) /\ Profile[s].requireApproval
            /\ Goto(r, At(IF store[r].critical THEN "prompt" ELSE "lookup"))
  /\ UNCHANGED <<up, store, minted, sessions, cliVars, granted, yes, clock, faults, crashes, cliOps>>

\* localDecideRequest up to its first file access or prompt: the policy is
\* validated again, an upgrade is left to the upgrade flow, a profile
\* without require_approval approves, a critical command skips the sessions.
Validate(r) ==
  /\ decider[r].pc = "validate"
  /\ LET s == store[r].scope IN
       \/ ~Allowed(s) /\ DenyNow(r)
       \/ Allowed(s) /\ Upgrade(r) /\ Goto(r, At("idle"))
       \/ Allowed(s) /\ ~Upgrade(r) /\ ~Profile[s].requireApproval
            /\ ApproveAs(r, "policy", 0)
       \/ Allowed(s) /\ ~Upgrade(r) /\ Profile[s].requireApproval
            /\ Goto(r, At(IF store[r].critical THEN "prompt" ELSE "lookup"))
  /\ UNCHANGED <<up, store, minted, sessions, cliVars, granted, yes, clock, faults, crashes, cliOps>>

\* activeGrant: an active session of the scope approves without a prompt.
Lookup(r) ==
  /\ decider[r].pc = "lookup"
  /\ LET active == ActiveSessions(store[r].scope) IN
       \/ \E i \in active : ApproveAs(r, "session", i) /\ UNCHANGED faults
       \/ active = {} /\ Goto(r, At("prompt")) /\ UNCHANGED faults
       \/ Fault /\ DenyNow(r)
  /\ UNCHANGED <<up, store, minted, sessions, cliVars, granted, yes, clock, crashes, cliOps>>

\* promptApproval returns: yes, no, or an error (no approver available).
Prompt(r) ==
  /\ decider[r].pc = "prompt"
  /\ \/ /\ yes' = yes \cup {r}
        /\ IF store[r].critical THEN ApproveAs(r, "authority", 0)
                                ELSE Goto(r, At("createLoad"))
     \/ DenyNow(r) /\ UNCHANGED yes
  /\ UNCHANGED <<up, store, minted, sessions, cliVars, granted, clock, faults, crashes, cliOps>>

\* createGrant until loadGrants returned and the new content is computed.
CreateLoad(r) ==
  /\ decider[r].pc = "createLoad"
  /\ LET g == NewSession(store[r].scope, store[r].ttl, r, clock) IN
       \/ /\ minted' = Append(minted, g)
          /\ Goto(r, [At("createSave") EXCEPT !.write = Appended(sessions, g, clock)])
          /\ UNCHANGED faults
       \/ Fault /\ DenyNow(r) /\ UNCHANGED minted
  /\ UNCHANGED <<up, store, sessions, cliVars, granted, yes, clock, crashes, cliOps>>

\* saveGrants: the computed content replaces whatever the file holds now.
CreateSave(r) ==
  /\ decider[r].pc = "createSave"
  /\ \/ sessions' = decider[r].write /\ ApproveAs(r, "authority", 0) /\ UNCHANGED faults
     \/ Fault /\ DenyNow(r) /\ UNCHANGED sessions
  /\ UNCHANGED <<up, store, minted, cliVars, granted, yes, clock, crashes, cliOps>>

\* localApproveRequest until the lease is built: the expiry is fixed first,
\* then the provider is run; a failing provider or encryption denies.
Resolve(r) ==
  /\ decider[r].pc = "resolve"
  /\ \/ Goto(r, [decider[r] EXCEPT !.pc = "approve",
                                   !.lease = clock + ProfileTTL(store[r].scope)])
     \/ DenyNow(r)
  /\ UNCHANGED <<up, store, minted, sessions, cliVars, granted, yes, clock, faults, crashes, cliOps>>

\* A plausible bug: the status is not checked again inside the update.
ApproveUnchecked(r) ==
  /\ decider[r].pc = "approve"
  /\ \/ /\ Record(r, "approved", decider[r].by, decider[r].session, decider[r].lease)
        /\ UNCHANGED faults
     \/ Fault /\ UNCHANGED store
  /\ Goto(r, At("idle"))
  /\ UNCHANGED <<up, minted, sessions, cliVars, granted, yes, clock, crashes, cliOps>>

\* remoteStore.update of localApproveRequest: only a pending request changes,
\* and a failed update leaves the request without a decider.
Approve(r) ==
  /\ decider[r].pc = "approve"
  /\ \/ /\ store[r].status = "pending"
        /\ Record(r, "approved", decider[r].by, decider[r].session, decider[r].lease)
        /\ UNCHANGED faults
     \/ store[r].status # "pending" /\ UNCHANGED <<store, faults>>
     \/ Fault /\ UNCHANGED store
  /\ Goto(r, At("idle"))
  /\ UNCHANGED <<up, minted, sessions, cliVars, granted, yes, clock, crashes, cliOps>>

\* localDeny.
Deny(r) ==
  /\ decider[r].pc = "deny"
  /\ \/ /\ store[r].status = "pending"
        /\ Record(r, "denied", "authority", store[r].session, store[r].lease)
        /\ UNCHANGED faults
     \/ store[r].status # "pending" /\ UNCHANGED <<store, faults>>
     \/ Fault /\ UNCHANGED store
  /\ Goto(r, At("idle"))
  /\ UNCHANGED <<up, minted, sessions, cliVars, granted, yes, clock, crashes, cliOps>>

\* RemoteDecision; expires = 0 stands for an absent lease_expires_at, signed
\* for a signature that verifies under a configured approver's key.
Decision == [approved : BOOLEAN, lease : BOOLEAN, expires : {0, MaxClock}, signed : BOOLEAN]

\* verifyDecisionSignature.
SignatureAccepted(d) == IF ApproverKeys THEN d.signed ELSE AllowUnsigned

\* decideRequest: an approval needs a lease and its expiry, the signature is
\* checked, and only a pending request changes.  The kind is not looked at.
SignedDecision(r) ==
  /\ up /\ store[r].status = "pending"
  /\ \E d \in Decision :
       /\ d.approved => d.lease /\ d.expires > 0
       /\ SignatureAccepted(d)
       /\ IF d.approved THEN Record(r, "approved", "signed", store[r].session, d.expires)
          ELSE Record(r, "denied", "signed", store[r].session, store[r].lease)
  /\ UNCHANGED <<up, decider, minted, sessions, cliVars, granted, yes, clock, faults, crashes, cliOps>>

-----------------------------------------------------------------------------
Proceed(c, next) == cli' = [cli EXCEPT ![c] = next]

End(c) == Proceed(c, IdleCli)

\* A command goes on to createGrant on these grounds.
OpenAs(c, opener) == Proceed(c, [cli[c] EXCEPT !.pc = "load", !.opener = opener])

\* A command takes its time and starts with these grounds.
Command(c, pc, opener, s, critical, t) ==
  /\ cli[c].pc = "idle" /\ cliOps < MaxCliOps
  /\ Proceed(c, [pc |-> pc, opener |-> opener, scope |-> s, critical |-> critical,
                 ttl |-> t, at |-> clock, write |-> {}])
  /\ cliOps' = cliOps + 1
  /\ UNCHANGED <<daemonVars, consents, autoApprove, lastCeiling, minted, sessions,
                 clock, faults, crashes>>

\* capbroker session start: validateRequest without a kind admits command
\* profiles, static lists only, and createGrant follows.
CliStart(c) ==
  \E s \in Scopes, t \in RequestedTTLs :
    /\ Profile[s].kind = "command" /\ Profile[s].static
    /\ Command(c, "load", "start", s, FALSE, t)

\* capbroker run and request up to ensureApproved's first file access: a
\* profile without approval opens a session, also for a critical command;
\* a critical command skips the sessions.
CliDirect(c) ==
  \E s \in Scopes, critical \in BOOLEAN, t \in RequestedTTLs :
    /\ Profile[s].kind = "command" /\ Profile[s].static
    /\ IF ~Profile[s].requireApproval THEN Command(c, "load", "policy", s, critical, t)
       ELSE Command(c, IF critical THEN "lease" ELSE "lookup", "prompt", s, critical, t)

\* capbroker approve on this host, at a request of its list that its policy
\* accepts and that needs approval; RemoteApproval has the whole of it.
CliApprove(c) ==
  \E s \in Scopes, critical \in BOOLEAN, t \in RequestedTTLs :
    /\ Profile[s].static /\ Profile[s].requireApproval
    /\ critical => Profile[s].kind = "command"
    /\ Command(c, IF critical THEN "prompt" ELSE "lookup", "approver", s, critical, t)

\* activeGrant: an active session is reused and nothing is written.
CliLookup(c) ==
  /\ cli[c].pc = "lookup"
  /\ \/ ActiveAt(cli[c].scope, cli[c].at) # {} /\ End(c) /\ UNCHANGED faults
     \/ /\ ActiveAt(cli[c].scope, cli[c].at) = {} /\ UNCHANGED faults
        /\ Proceed(c, [cli[c] EXCEPT
                         !.pc = IF cli[c].opener = "approver" THEN "prompt" ELSE "lease"])
     \/ Fault /\ End(c)
  /\ UNCHANGED <<daemonVars, consents, autoApprove, lastCeiling, minted, sessions,
                 clock, crashes, cliOps>>

\* A plausible bug: under a lease a critical command opens a session as well.
CliLeaseOpeningSession(c) ==
  /\ cli[c].pc = "lease"
  /\ \/ /\ Unexpired(autoApprove, cli[c].at)
        /\ consents' = consents \cup {<<"lease", cli[c].scope, cli[c].critical>>}
        /\ OpenAs(c, "lease")
     \/ Proceed(c, [cli[c] EXCEPT !.pc = "prompt"]) /\ UNCHANGED consents
  /\ UNCHANGED <<daemonVars, autoApprove, lastCeiling, minted, sessions,
                 clock, faults, crashes, cliOps>>

\* readAutoApproveLease with the command's now: an active lease takes the
\* place of the prompt, and a critical command then gets an ephemeral grant,
\* which is saved nowhere.  The lease may be idle or unreadable: AutoApprove
\* has its renewals.
CliLease(c) ==
  /\ cli[c].pc = "lease"
  /\ \/ /\ Unexpired(autoApprove, cli[c].at)
        /\ consents' = consents \cup {<<"lease", cli[c].scope, cli[c].critical>>}
        /\ IF cli[c].critical THEN End(c) ELSE OpenAs(c, "lease")
     \/ Proceed(c, [cli[c] EXCEPT !.pc = "prompt"]) /\ UNCHANGED consents
  /\ UNCHANGED <<daemonVars, autoApprove, lastCeiling, minted, sessions,
                 clock, faults, crashes, cliOps>>

\* promptApproval returns: the yes to a critical command opens no session.
CliPrompt(c) ==
  /\ cli[c].pc = "prompt"
  /\ \/ /\ consents' = consents \cup {<<cli[c].opener, cli[c].scope, cli[c].critical>>}
        /\ IF cli[c].critical THEN End(c) ELSE OpenAs(c, cli[c].opener)
     \/ End(c) /\ UNCHANGED consents
  /\ UNCHANGED <<daemonVars, autoApprove, lastCeiling, minted, sessions,
                 clock, faults, crashes, cliOps>>

\* The instant createGrant is given: ensureApproved's now, taken before any
\* prompt, or the time when the other commands call it.
GrantedAt(c) == IF cli[c].opener \in {"policy", "lease", "prompt"} THEN cli[c].at ELSE clock

\* createGrant of a command until the new content is computed.
CliLoad(c) ==
  /\ cli[c].pc = "load"
  /\ LET g == NewSession(cli[c].scope, cli[c].ttl, cli[c].opener, GrantedAt(c)) IN
       \/ /\ minted' = Append(minted, g) /\ UNCHANGED faults
          /\ Proceed(c, [cli[c] EXCEPT !.pc = "save",
                                       !.write = Appended(sessions, g, GrantedAt(c))])
       \/ Fault /\ End(c) /\ UNCHANGED minted
  /\ UNCHANGED <<daemonVars, consents, autoApprove, lastCeiling, sessions,
                 clock, crashes, cliOps>>

\* capbroker session revoke --id, until revokeGrants has filtered the content.
CliRevoke(c) ==
  /\ cli[c].pc = "idle" /\ cliOps < MaxCliOps
  /\ \E i \in sessions : Proceed(c, [IdleCli EXCEPT !.pc = "save", !.write = sessions \ {i}])
  /\ cliOps' = cliOps + 1
  /\ UNCHANGED <<daemonVars, consents, autoApprove, lastCeiling, minted, sessions,
                 clock, faults, crashes>>

\* capbroker session revoke --all saves an empty list without loading.
CliRevokeAll ==
  /\ cliOps < MaxCliOps
  /\ sessions' = {}
  /\ cliOps' = cliOps + 1
  /\ UNCHANGED <<daemonVars, cliVars, minted, clock, faults, crashes>>

\* saveGrants of the command, or its failure.
CliSave(c) ==
  /\ cli[c].pc = "save"
  /\ End(c)
  /\ \/ sessions' = cli[c].write /\ UNCHANGED faults
     \/ Fault /\ UNCHANGED sessions
  /\ UNCHANGED <<daemonVars, consents, autoApprove, lastCeiling, minted,
                 clock, crashes, cliOps>>

\* capbroker auto-approve enable: a lease replaces the one there may be.
EnableLease ==
  /\ cliOps < MaxCliOps
  /\ \E d \in 1..MaxLease :
       /\ autoApprove' = clock + d
       /\ lastCeiling' = IF clock + d > lastCeiling THEN clock + d ELSE lastCeiling
  /\ cliOps' = cliOps + 1
  /\ UNCHANGED <<daemonVars, cli, consents, minted, sessions, clock, faults, crashes>>

\* capbroker auto-approve disable, or a reader that removes an expired lease.
DisableLease ==
  /\ autoApprove > 0 /\ autoApprove' = 0
  /\ UNCHANGED <<daemonVars, cli, consents, lastCeiling, minted, sessions,
                 clock, faults, crashes, cliOps>>

\* The permission-grant files come to cover, or cease to cover, a scope.
PermissionsChange ==
  /\ \E s \in Scopes :
       /\ ~Profile[s].static
       /\ granted' = IF s \in granted THEN granted \ {s} ELSE granted \cup {s}
  /\ UNCHANGED <<up, store, decider, minted, sessions, cliVars, yes, clock, faults, crashes, cliOps>>

\* The daemon dies with every decider; the files stay.
Crash ==
  /\ up /\ crashes < MaxCrashes
  /\ up' = FALSE /\ crashes' = crashes + 1
  /\ decider' = [r \in Requests |-> At("idle")]
  /\ UNCHANGED <<store, minted, sessions, cliVars, granted, yes, clock, faults, cliOps>>

\* A plausible bug: the pending requests of the previous run are forgotten.
RestartWithoutResume ==
  /\ ~up /\ up' = TRUE
  /\ UNCHANGED <<store, decider, minted, sessions, cliVars, granted, yes,
                 clock, faults, crashes, cliOps>>

\* runRemoteServer: with --local-approve every pending request gets a
\* decider again, unless the store cannot be listed.
Restart ==
  /\ ~up /\ up' = TRUE
  /\ \/ /\ decider' = [r \in Requests |->
             IF LocalApprove /\ store[r].status = "pending"
             THEN At("validate") ELSE At("idle")]
        /\ UNCHANGED faults
     \/ Fault /\ UNCHANGED decider
  /\ UNCHANGED <<store, minted, sessions, cliVars, granted, yes, clock, crashes, cliOps>>

Tick ==
  /\ clock < MaxClock /\ clock' = clock + 1
  /\ UNCHANGED <<up, store, decider, minted, sessions, cliVars, granted, yes, faults, crashes, cliOps>>

Decide(r) == \/ Validate(r) \/ Lookup(r) \/ Prompt(r) \/ CreateLoad(r)
             \/ CreateSave(r) \/ Resolve(r) \/ Approve(r) \/ Deny(r)

CliStep(c) == \/ CliStart(c) \/ CliDirect(c) \/ CliApprove(c) \/ CliRevoke(c)
              \/ CliLookup(c) \/ CliLease(c) \/ CliPrompt(c) \/ CliLoad(c) \/ CliSave(c)

Next == \/ \E r \in Requests : Create(r) \/ Decide(r) \/ SignedDecision(r)
        \/ \E c \in Clis : CliStep(c)
        \/ CliRevokeAll \/ EnableLease \/ DisableLease
        \/ PermissionsChange \/ Crash \/ Restart \/ Tick

Spec == Init /\ [][Next]_vars

\* A started goroutine runs on and its prompt is answered or times out; a
\* crashed daemon is started again.
Fairness == (\A r \in Requests : WF_vars(Decide(r))) /\ WF_vars(Restart)

FairSpec == Spec /\ Fairness
-----------------------------------------------------------------------------
\* Every variable holds a value of its kind.
TypeOK ==
  /\ up \in BOOLEAN
  /\ store \in [Requests -> StoredRequest]
  /\ decider \in [Requests -> DeciderState]
  /\ minted \in Seq(Session)
  /\ sessions \subseteq Nat
  /\ cli \in [Clis -> Cli]
  /\ consents \subseteq CliOpeners \X Scopes \X BOOLEAN
  /\ autoApprove \in Nat /\ lastCeiling \in Nat
  /\ granted \subseteq Scopes
  /\ yes \subseteq Requests
  /\ clock \in Nat /\ faults \in Nat /\ crashes \in Nat /\ cliOps \in Nat

\* A session goes back to the operator: started on the command line, opened
\* by a yes to the daemon's prompt for a non-critical request of the very
\* scope, by a yes to a command's own prompt for it, in place of that prompt
\* by an auto-approve lease the operator had set to end later than the
\* command began, or by a profile that asks for no approval.
Consented(i) ==
  LET g == minted[i] IN
    \/ g.opener = "start"
    \/ g.opener = "policy" /\ ~Profile[g.scope].requireApproval
    \/ g.opener \in {"prompt", "approver"} /\ <<g.opener, g.scope, FALSE>> \in consents
    \/ g.opener = "lease" /\ <<"lease", g.scope, FALSE>> \in consents /\ g.created < lastCeiling
    \/ /\ g.opener \in yes
       /\ store[g.opener].scope = g.scope /\ ~store[g.opener].critical

\* The grounds on which the local authority may serve a request.
Justified(r, by, session) ==
  LET p == Profile[store[r].scope] IN
    /\ ~Upgrade(r)
    /\ \/ by = "policy" /\ ~p.requireApproval
       \/ by = "authority" /\ p.requireApproval /\ r \in yes
       \/ /\ by = "session" /\ p.requireApproval /\ ~store[r].critical
          /\ session \in DOMAIN minted
          /\ minted[session].scope = store[r].scope
          /\ Consented(session)

\* Whatever crashes, lost updates and races do, a request the daemon itself
\* approved has its grounds: a policy without approval, its own yes, or a
\* session of its scope with the grounds Consented names, which a lease may
\* have given without any prompt; and never an upgrade, nor a critical
\* command by a session.
ApprovalJustified ==
  \A r \in Requests : store[r].status = "approved" /\ store[r].by # "signed"
                        => Justified(r, store[r].by, store[r].session)

\* The provider or the vault is run, and secrets are held, only for a request
\* that already has its grounds ("secrets are resolved only after policy and
\* approval pass").
SecretsAfterApproval ==
  \A r \in Requests : decider[r].pc \in {"resolve", "approve"}
                        => Justified(r, decider[r].by, decider[r].session)

\* No session exists, in the file or in a writer's hands, without one of the
\* grounds Consented names, for its very scope; in particular the yes to a
\* critical command, or a lease in its place, opens none.  A profile without
\* approval opens sessions that no decider ever asks for.
SessionConsent ==
  /\ sessions \subseteq DOMAIN minted
  /\ \A i \in DOMAIN minted : Consented(i)

\* However a session was requested, and however old the content some writer
\* saves, no session approves anything once the cap has passed since it was
\* created.
SessionCapped ==
  \A i \in sessions :
    clock >= minted[i].created + SessionCap(MaxSession, Profile[minted[i].scope].maxSession)
      => i \notin ActiveSessions(minted[i].scope)

Lifecycle == INSTANCE RequestLifecycle WITH
  Leases <- Nat \ {0}, NoLease <- 0,
  status <- [r \in Requests |-> store[r].status],
  lease  <- [r \in Requests |-> store[r].lease]

\* The deciders, the signed approvers and the restarts together decide each
\* request at most once, never change a decision, and approve with a lease.
ImplementsLifecycle == Lifecycle!Spec

\* While the daemon runs and no file operation has failed, every pending
\* command or vault request has a decider at work: none is orphaned by a
\* restart, by a race with a signed decision, or by an early return.
NoOrphan ==
  up /\ LocalApprove /\ faults = 0 =>
    \A r \in Requests : store[r].status = "pending" /\ ~Upgrade(r)
                          => decider[r].pc # "idle"

\* The state of the daemon and of its deciders is as it should be: no approval
\* without grounds, no secret before it, no request without a decider.
AuthoritySound == TypeOK /\ ApprovalJustified /\ SecretsAfterApproval /\ NoOrphan

\* Unless a file operation fails, every pending command or vault request is
\* decided, also when the daemon dies at any point and is started again
\* (resumePendingRequests).
PendingDecided ==
  \A r \in Requests :
    (store[r].status = "pending" /\ ~Upgrade(r))
      ~> (store[r].status \in {"approved", "denied"} \/ faults > 0)
=============================================================================
