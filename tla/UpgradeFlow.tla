------------------------------ MODULE UpgradeFlow ------------------------------
(***************************************************************************)
(* The permission-upgrade flow: agents ask for a resource to be added to a *)
(* profile, operators decide through capbrokerd (form, JSON API or command *)
(* line, all of them decidePermissionUpgrade), the grant is appended to a  *)
(* JSONL file, agents poll for the outcome and operators revoke grants     *)
(* from other processes.                                                   *)
(*                                                                         *)
(* A decision holds upgradeDecideMu from its first look at the request to  *)
(* its answer.  It claims the request in remote-requests.json and then     *)
(* appends the grant: two files, so a crash, a failing write, a poll or a  *)
(* signed decision may come between the two.  A grant file is written      *)
(* under flock by appends and by revoke --id, which looks for the grant    *)
(* and for the file before it takes the lock; revoke --all unlinks the     *)
(* file without it.                                                        *)
(***************************************************************************)
EXTENDS Naturals

CONSTANTS
  Requests,         \* permission-upgrade requests
  Operators,        \* concurrent decide handlers of the daemon
  Clis,             \* concurrent capbroker revoke processes
  OnceTTL,          \* lifetime of a once grant
  SessionTTL,       \* lifetime of a session grant
  Wait,             \* how long a client waits for a decision
  SignedDecisions,  \* the decision endpoint accepts someone's decisions
  MaxClock,         \* bound: the last instant
  MaxFaults,        \* bound: failed file operations
  MaxCrashes,       \* bound: daemon crashes
  MaxCliOps         \* bound: revoke commands

ASSUME UpgradeFlowAssumption ==
  /\ OnceTTL \in Nat \ {0} /\ SessionTTL \in Nat \ {0} /\ Wait \in Nat
  /\ SignedDecisions \in BOOLEAN
  /\ MaxClock \in Nat /\ MaxFaults \in Nat /\ MaxCrashes \in Nat /\ MaxCliOps \in Nat

VARIABLES
  up,        \* the daemon runs
  status,    \* Status of each request
  lease,     \* what tells of the lease of each request, see Leases
  op,        \* the decide handlers
  files,     \* permanent-grants.jsonl and temporal-grants.jsonl
  cli,       \* the revoke processes
  client,    \* runRequestUpgrade of each request
  deadline,  \* its deadline
  audit,     \* what audit.jsonl says of each request
  clock, faults, crashes, cliOps

vars == <<up, status, lease, op, files, cli, client, deadline, audit,
          clock, faults, crashes, cliOps>>

Modes == {"once", "session", "permanent"}

\* Leases: an operator's carries the UpgradeGranted marker with the mode; one
\* that a signed decision brought is whatever was posted, marked or not.
Leases == Modes \cup {"marked", "unmarked"}

\* permissionGrant; expires is 0 when there is none.
Grant == [id : Requests, mode : Modes, expires : Nat, by : Operators]

Files == {"permanent", "temporal"}

FileOf(mode) == IF mode = "permanent" THEN "permanent" ELSE "temporal"

\* A JSONL file: the grants on its lines, in no order since no reader looks
\* at it, and what follows the last newline: nothing, a part of a grant, or
\* a whole grant that lacks its newline.
Tails == [kind : {"none", "fragment"}] \cup [kind : {"grant"}, grant : Grant]
File == [lines : SUBSET Grant, tail : Tails]

NoTail == [kind |-> "none"]
Fragment == [kind |-> "fragment"]

\* A file that is not there, or that was truncated.
EmptyFile == [lines |-> {}, tail |-> NoTail]

\* loadGrantsJSONL: the lines that parse, an unterminated last one included.
Readable(f) == f.lines \cup (IF f.tail.kind = "grant" THEN {f.tail.grant} ELSE {})

\* O_APPEND of a grant and its newline.  It continues the line of a tail, and
\* that line then does not parse.
AppendTo(f, g) ==
  [lines |-> IF f.tail.kind = "none" THEN f.lines \cup {g} ELSE f.lines, tail |-> NoTail]

\* What a failed write of a grant leaves: nothing written, a part of it, or
\* all but the newline.
Torn(f, g) ==
  {f, [f EXCEPT !.tail = Fragment]} \cup
    (IF f.tail.kind = "none" THEN {[f EXCEPT !.tail = [kind |-> "grant", grant |-> g]]}
                             ELSE {})

AllGrants == UNION {Readable(files[k]) : k \in Files}

\* A handler: its request, the decided mode or "deny", the expiry computed
\* for the grant, whether its open file was unlinked, and its last answer.
Handler == {h \in [pc : {"idle", "waiting", "claim", "open", "write"},
                   req : Requests \cup {"none"}, mode : Modes \cup {"deny"},
                   expires : Nat, unlinked : BOOLEAN,
                   answer : {"none", "applied", "denied", "refused", "failed"}] :
              /\ h.pc # "idle" => h.req \in Requests
              /\ h.pc \in {"open", "write"} => h.mode # "deny"}

IdleHandler == [pc |-> "idle", req |-> "none", mode |-> "deny",
                expires |-> 0, unlinked |-> FALSE, answer |-> "none"]

\* A revoke --id: its file, its request and the content it is about to save.
Cli == {c \in [pc : {"idle", "stat", "lock", "save"}, file : Files, id : Requests \cup {"none"},
               keep : SUBSET Grant] : c.pc # "idle" => c.id \in Requests}

IdleCli == [pc |-> "idle", file |-> "permanent", id |-> "none", keep |-> {}]

-----------------------------------------------------------------------------
\* upgradeDecideMu is held.
Deciding == \E o \in Operators : op[o].pc \in {"claim", "open", "write"}

\* The flock of a file is held by an append or by a rewrite.
Locked(k) == \/ \E o \in Operators : op[o].pc = "write" /\ FileOf(op[o].mode) = k
             \/ \E c \in Clis : cli[c].pc = "save" /\ cli[c].file = k

Fault == faults < MaxFaults /\ faults' = faults + 1

Answer(o, answer) ==
  op' = [op EXCEPT ![o] = [IdleHandler EXCEPT !.req = op[o].req, !.answer = answer]]

\* Of audit.jsonl, the lines that tell what became of a grant.
Events == {"applied", "grant_failed", "revoked", "revoked_all"}

Audit(event, r) == audit' = audit \cup {<<event, r>>}

Undecided(r) == status[r] = "pending"

\* grant.ExpiresAt as computed before the claim.
Expiry(mode) == CASE mode = "once"    -> clock + OnceTTL
                  [] mode = "session" -> clock + SessionTTL
                  [] OTHER            -> 0

-----------------------------------------------------------------------------
Init ==
  /\ up = TRUE
  /\ status = [r \in Requests |-> "absent"]
  /\ lease = [r \in Requests |-> "none"]
  /\ op = [o \in Operators |-> IdleHandler]
  /\ files = [k \in Files |-> EmptyFile]
  /\ cli = [c \in Clis |-> IdleCli]
  /\ client = [r \in Requests |-> "none"]
  /\ deadline = [r \in Requests |-> 0]
  /\ audit = {}
  /\ clock = 0 /\ faults = 0 /\ crashes = 0 /\ cliOps = 0

\* createRequest and the client that starts to poll.  The bound leaves room
\* for the deadline to pass.
Create(r) ==
  /\ up /\ status[r] = "absent" /\ clock + Wait < MaxClock
  /\ status' = [status EXCEPT ![r] = "pending"]
  /\ client' = [client EXCEPT ![r] = "waiting"]
  /\ deadline' = [deadline EXCEPT ![r] = clock + Wait]
  /\ UNCHANGED <<up, lease, op, files, cli, audit, clock, faults, crashes, cliOps>>

\* An operator posts a decision on a request seen earlier, maybe decided since.
Post(o) ==
  /\ up /\ op[o].pc = "idle"
  /\ \E r \in Requests, m \in Modes \cup {"deny"} :
       /\ status[r] # "absent"
       /\ op' = [op EXCEPT ![o] = [IdleHandler EXCEPT !.pc = "waiting", !.req = r, !.mode = m]]
  /\ UNCHANGED <<up, status, lease, files, cli, client, deadline, audit,
                 clock, faults, crashes, cliOps>>

\* decidePermissionUpgrade takes the mutex and looks at the request;
\* applyUpgradeApproval fixes the expiry of the grant.
Enter(o) ==
  /\ op[o].pc = "waiting" /\ ~Deciding
  /\ \/ /\ Undecided(op[o].req) /\ UNCHANGED faults
        /\ op' = [op EXCEPT ![o].pc = "claim", ![o].expires = Expiry(op[o].mode)]
     \/ ~Undecided(op[o].req) /\ Answer(o, "refused") /\ UNCHANGED faults
     \/ Fault /\ Answer(o, "failed")
  /\ UNCHANGED <<up, status, lease, files, cli, client, deadline, audit,
                 clock, crashes, cliOps>>

\* The update inside the claim: denied, or approved with the handshake lease.
Decided(o) ==
  IF op[o].mode = "deny"
  THEN /\ status' = [status EXCEPT ![op[o].req] = "denied"]
       /\ Answer(o, "denied")
       /\ UNCHANGED lease
  ELSE /\ status' = [status EXCEPT ![op[o].req] = "approved"]
       /\ lease' = [lease EXCEPT ![op[o].req] = op[o].mode]
       /\ op' = [op EXCEPT ![o].pc = "open"]

\* A plausible bug: the error of a claim that came too late is ignored.
ClaimIgnoringConflict(o) ==
  /\ op[o].pc = "claim"
  /\ \/ Undecided(op[o].req) /\ Decided(o) /\ UNCHANGED faults
     \/ /\ ~Undecided(op[o].req) /\ op[o].mode # "deny"
        /\ op' = [op EXCEPT ![o].pc = "open"]
        /\ UNCHANGED <<status, lease, faults>>
     \/ Fault /\ Answer(o, "failed") /\ UNCHANGED <<status, lease>>
  /\ UNCHANGED <<up, files, cli, client, deadline, audit, clock, crashes, cliOps>>

\* A plausible bug: the claim waits for a pending status that never returns.
ClaimWaiting(o) ==
  /\ op[o].pc = "claim"
  /\ \/ Undecided(op[o].req) /\ Decided(o) /\ UNCHANGED faults
     \/ Fault /\ Answer(o, "failed") /\ UNCHANGED <<status, lease>>
  /\ UNCHANGED <<up, files, cli, client, deadline, audit, clock, crashes, cliOps>>

\* store.update: the status is checked again, since a signed decision does
\* not take the mutex.
Claim(o) ==
  /\ op[o].pc = "claim"
  /\ \/ Undecided(op[o].req) /\ Decided(o) /\ UNCHANGED faults
     \/ /\ ~Undecided(op[o].req) /\ Answer(o, "refused")
        /\ UNCHANGED <<status, lease, faults>>
     \/ Fault /\ Answer(o, "failed") /\ UNCHANGED <<status, lease>>
  /\ UNCHANGED <<up, files, cli, client, deadline, audit, clock, crashes, cliOps>>

\* A plausible bug: the grant is appended without the flock.
OpenUnlocked(o) ==
  /\ op[o].pc = "open"
  /\ \/ op' = [op EXCEPT ![o].pc = "write"] /\ UNCHANGED <<audit, faults>>
     \/ Fault /\ Answer(o, "failed") /\ Audit("grant_failed", op[o].req)
  /\ UNCHANGED <<up, status, lease, files, cli, client, deadline,
                 clock, crashes, cliOps>>

\* appendGrantJSONL takes the flock and opens the file.
Open(o) ==
  /\ op[o].pc = "open"
  /\ \/ /\ ~Locked(FileOf(op[o].mode))
        /\ op' = [op EXCEPT ![o].pc = "write"]
        /\ UNCHANGED <<audit, faults>>
     \/ Fault /\ Answer(o, "failed") /\ Audit("grant_failed", op[o].req)
  /\ UNCHANGED <<up, status, lease, files, cli, client, deadline,
                 clock, crashes, cliOps>>

\* The grant is written to the file that was opened, and the outcome audited.
Write(o) ==
  LET k == FileOf(op[o].mode)
      g == [id |-> op[o].req, mode |-> op[o].mode, expires |-> op[o].expires,
            by |-> o]
  IN
  /\ op[o].pc = "write"
  /\ \/ /\ files' = IF op[o].unlinked THEN files ELSE [files EXCEPT ![k] = AppendTo(@, g)]
        /\ Answer(o, "applied") /\ Audit("applied", op[o].req)
        /\ UNCHANGED faults
     \/ /\ Fault
        /\ \E f \in Torn(files[k], g) :
             files' = IF op[o].unlinked THEN files ELSE [files EXCEPT ![k] = f]
        /\ Answer(o, "failed") /\ Audit("grant_failed", op[o].req)
  /\ UNCHANGED <<up, status, lease, cli, client, deadline, clock, crashes, cliOps>>

\* A plausible bug: a signed decision may overturn an operator's denial.
SignedOverDenial(r) ==
  /\ up /\ SignedDecisions /\ status[r] \in {"pending", "denied"}
  /\ \/ /\ status' = [status EXCEPT ![r] = "approved"]
        /\ lease' = [lease EXCEPT ![r] = "unmarked"]
     \/ status' = [status EXCEPT ![r] = "denied"] /\ UNCHANGED lease
  /\ UNCHANGED <<up, op, files, cli, client, deadline, audit,
                 clock, faults, crashes, cliOps>>

\* decideRequest, without the mutex, for any kind of request and with any
\* lease.
SignedDecision(r) ==
  /\ up /\ SignedDecisions /\ status[r] = "pending"
  /\ \/ /\ status' = [status EXCEPT ![r] = "approved"]
        /\ \E l \in Leases \ Modes : lease' = [lease EXCEPT ![r] = l]
     \/ status' = [status EXCEPT ![r] = "denied"] /\ UNCHANGED lease
  /\ UNCHANGED <<up, op, files, cli, client, deadline, audit,
                 clock, faults, crashes, cliOps>>

-----------------------------------------------------------------------------
Without(grants, r) == {g \in grants : g.id # r}

\* The end of a revoke --id that met no error: it is reported and audited.
Report(c) ==
  /\ cli' = [cli EXCEPT ![c] = IdleCli]
  /\ Audit("revoked", cli[c].id)

\* revoke --id looks for the grant in the files, without the lock.
RevokeFind(c) ==
  /\ cli[c].pc = "idle" /\ cliOps < MaxCliOps /\ cliOps' = cliOps + 1
  /\ \E k \in Files, r \in Requests :
       /\ \E g \in Readable(files[k]) : g.id = r
       /\ cli' = [cli EXCEPT ![c] = [IdleCli EXCEPT !.pc = "stat", !.file = k, !.id = r]]
  /\ UNCHANGED <<up, status, lease, op, files, client, deadline, audit,
                 clock, faults, crashes>>

\* os.Stat, still without the lock: a file that is gone ends the revocation
\* well.  A truncated one passes for it: there is nothing to remove either.
RevokeStat(c) ==
  /\ cli[c].pc = "stat"
  /\ \/ files[cli[c].file] = EmptyFile /\ Report(c)
     \/ cli' = [cli EXCEPT ![c].pc = "lock"] /\ UNCHANGED audit
  /\ UNCHANGED <<up, status, lease, op, files, client, deadline,
                 clock, faults, crashes, cliOps>>

\* The content is loaded; without the grant there is nothing to do.
Loaded(c) ==
  LET old  == Readable(files[cli[c].file])
      keep == Without(old, cli[c].id)
  IN
  \/ keep = old /\ Report(c)
  \/ keep # old /\ UNCHANGED audit
       /\ cli' = [cli EXCEPT ![c].pc = "save", ![c].keep = keep]

\* A plausible bug: the file is rewritten without the flock.
RevokeLoadUnlocked(c) ==
  /\ cli[c].pc = "lock"
  /\ \/ Loaded(c) /\ UNCHANGED faults
     \/ Fault /\ cli' = [cli EXCEPT ![c] = IdleCli] /\ UNCHANGED audit
  /\ UNCHANGED <<up, status, lease, op, files, client, deadline, clock, crashes, cliOps>>

\* The flock is taken, the file loaded and the content without the grant
\* computed.
RevokeLoad(c) ==
  /\ cli[c].pc = "lock"
  /\ \/ ~Locked(cli[c].file) /\ Loaded(c) /\ UNCHANGED faults
     \/ Fault /\ cli' = [cli EXCEPT ![c] = IdleCli] /\ UNCHANGED audit
  /\ UNCHANGED <<up, status, lease, op, files, client, deadline, clock, crashes, cliOps>>

\* The truncation when nothing is kept, an error if the file has been
\* unlinked meanwhile, or the rename; then the report.
RevokeSave(c) ==
  LET k == cli[c].file IN
  /\ cli[c].pc = "save"
  /\ \/ /\ cli[c].keep = {} => files[k] # EmptyFile
        /\ files' = [files EXCEPT ![k] = [EmptyFile EXCEPT !.lines = cli[c].keep]]
        /\ Report(c) /\ UNCHANGED faults
     \/ /\ cli[c].keep = {} /\ files[k] = EmptyFile
        /\ cli' = [cli EXCEPT ![c] = IdleCli] /\ UNCHANGED <<files, audit, faults>>
     \/ /\ Fault
        /\ cli' = [cli EXCEPT ![c] = IdleCli] /\ UNCHANGED <<files, audit>>
  /\ UNCHANGED <<up, status, lease, op, client, deadline, clock, crashes, cliOps>>

\* revoke --all --kind: the file is unlinked, lock or no lock; an append
\* that has it open goes on writing to the unlinked file.
RevokeAll ==
  /\ cliOps < MaxCliOps /\ cliOps' = cliOps + 1
  /\ \E k \in Files :
       /\ files' = [files EXCEPT ![k] = EmptyFile]
       /\ op' = [o \in Operators |->
                   IF op[o].pc = "write" /\ FileOf(op[o].mode) = k
                   THEN [op[o] EXCEPT !.unlinked = TRUE] ELSE op[o]]
       /\ audit' = audit \cup {<<"revoked_all", k>>}
  /\ UNCHANGED <<up, status, lease, cli, client, deadline, clock, faults, crashes>>

-----------------------------------------------------------------------------
Return(r, outcome) == client' = [client EXCEPT ![r] = outcome]

\* One round of runRequestUpgrade that ends its loop.
Poll(r) ==
  /\ client[r] = "waiting"
  /\ \/ ~up /\ Return(r, "failed")
     \/ /\ up /\ status[r] = "approved"
        /\ Return(r, IF lease[r] = "unmarked" THEN "failed" ELSE "granted")
     \/ up /\ status[r] = "denied" /\ Return(r, "denied")
     \/ up /\ status[r] = "pending" /\ clock > deadline[r] /\ Return(r, "timed out")
  /\ UNCHANGED <<up, status, lease, op, files, cli, deadline, audit,
                 clock, faults, crashes, cliOps>>

\* The daemon dies with its handlers, its mutex and its flock.
Crash ==
  /\ up /\ crashes < MaxCrashes
  /\ up' = FALSE /\ crashes' = crashes + 1
  /\ op' = [o \in Operators |-> IdleHandler]
  /\ UNCHANGED <<status, lease, files, cli, client, deadline, audit,
                 clock, faults, cliOps>>

\* The restarted daemon leaves pending upgrades to the operators.
Restart ==
  /\ ~up /\ up' = TRUE
  /\ UNCHANGED <<status, lease, op, files, cli, client, deadline, audit,
                 clock, faults, crashes, cliOps>>

Tick ==
  /\ clock < MaxClock /\ clock' = clock + 1
  /\ UNCHANGED <<up, status, lease, op, files, cli, client, deadline, audit,
                 faults, crashes, cliOps>>

Handle(o) == Claim(o) \/ Open(o) \/ Write(o)

Next == \/ \E r \in Requests : Create(r) \/ SignedDecision(r) \/ Poll(r)
        \/ \E o \in Operators : Post(o) \/ Enter(o) \/ Handle(o)
        \/ \E c \in Clis : RevokeFind(c) \/ RevokeStat(c) \/ RevokeLoad(c) \/ RevokeSave(c)
        \/ RevokeAll \/ Crash \/ Restart \/ Tick

Spec == Init /\ [][Next]_vars

\* Handlers and revoke processes run on, clients keep polling, time passes,
\* and sync.Mutex lets every waiter in eventually.
Fairness == /\ \A o \in Operators : SF_vars(Enter(o)) /\ SF_vars(Handle(o))
            /\ \A c \in Clis : WF_vars(RevokeSave(c))
            /\ \A r \in Requests : WF_vars(Poll(r))
            /\ WF_vars(Tick)

FairSpec == Spec /\ Fairness
-----------------------------------------------------------------------------
\* Every variable holds a value of its kind.
TypeOK ==
  /\ up \in BOOLEAN
  /\ status \in [Requests -> {"absent", "pending", "approved", "denied"}]
  /\ lease \in [Requests -> Leases \cup {"none"}]
  /\ op \in [Operators -> Handler]
  /\ files \in [Files -> File]
  /\ cli \in [Clis -> Cli]
  /\ client \in [Requests -> {"none", "waiting", "granted", "denied", "timed out", "failed"}]
  /\ deadline \in [Requests -> Nat]
  /\ audit \subseteq Events \X (Requests \cup Files)
  /\ clock \in Nat /\ faults \in Nat /\ crashes \in Nat /\ cliOps \in Nat

\* "grant written but request not approved would silently broaden access":
\* no crash, fault, race or rewrite leaves a grant whose request was not
\* approved, by an operator, in the very mode of the grant.
GrantBacked ==
  \A g \in AllGrants : status[g.id] = "approved" /\ lease[g.id] = g.mode

\* A request never leads to two grants, also when several operators decide
\* it at once, the daemon restarts in between or a write is repeated.
OneGrantPerRequest ==
  \A g, h \in AllGrants : g.id = h.id => g = h

\* Whatever a client was told is on record: when an operator's approval made
\* it "granted", the grant was written, is about to be, or its failure is
\* audited, unless the daemon died in between.
GrantedOnRecord ==
  \A r \in Requests :
    client[r] = "granted" /\ lease[r] \in Modes =>
      \/ \E o \in Operators : op[o].pc \in {"open", "write"} /\ op[o].req = r
      \/ <<"applied", r>> \in audit \/ <<"grant_failed", r>> \in audit
      \/ crashes > 0

\* What the grant files hold was decided so by an operator, once, and clients
\* are told of a grant that is on record.
GrantsSound == TypeOK /\ GrantBacked /\ OneGrantPerRequest /\ GrantedOnRecord

\* A grant reported and audited as revoked by its id stays away: no append
\* and no other revoke --id brings it back, unless a revoke --all of its file
\* came in between.  Then it may: a revoke --id of another grant that had
\* loaded the file restores it, and the report may have meant no more than
\* that the file was gone.
RevokedStays ==
  \A g \in AllGrants :
    <<"revoked", g.id>> \in audit => <<"revoked_all", FileOf(g.mode)>> \in audit

\* As long as no file operation fails, appends and rewrites lose no grant:
\* an applied one stays readable until it is revoked, alone or with its file.
AppliedKept ==
  faults = 0 =>
    \A r \in Requests :
      <<"applied", r>> \in audit =>
        \/ <<"revoked", r>> \in audit
        \/ <<"revoked_all", FileOf(lease[r])>> \in audit
        \/ \E g \in AllGrants : g.id = r

Lifecycle == INSTANCE RequestLifecycle WITH
  NoLease <- "none"

\* Operators, signed decisions and crashes together decide each request at
\* most once, and never change a decision.
ImplementsLifecycle == Lifecycle!Spec

\* Every operator is answered: no error path keeps the mutex or the flock.
Answered == \A o \in Operators : op[o].pc # "idle" ~> op[o].pc = "idle"

\* Every client returns, with the decision, after its deadline, or with an
\* error when the daemon is down.
ClientReturns == \A r \in Requests : client[r] = "waiting" ~> client[r] # "waiting"

\* Neither an operator nor a client waits for ever, whatever fails or crashes.
NobodyWaits == Answered /\ ClientReturns
=============================================================================
