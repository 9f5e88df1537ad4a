# capbroker: specifications, model checking and proofs

capbroker hands capabilities (a command to run with secrets, a value from a
vault, a longer allow list) to agents, under an operator's policy and consent.
Three parties work on shared state without a common lock: the daemon
`capbrokerd`, the operator's command line and browsers, and the agents' and
approvers' processes on other hosts. This directory models that shared state in
TLA+, checks small instances of it with TLC and proves the main invariants for
every instance with TLAPS. Source lines are those of the Go files of the
repository; PROJECT.json has, for each definition, the lines it stands for.

## 1. The system

| Component | Source | State | Operations |
|---|---|---|---|
| Request store | `remote_store.go` | `remote-requests.json`, one writer process under a mutex | create, get, list, update |
| Local authority | `local_authority.go`, `remote_server.go` | one goroutine per pending request | `localDecideRequest`, `localApproveRequest`, `localDeny`, `resumePendingRequests` |
| Operator sessions | `grants.go`, `operator_session.go`, `approval.go`, `main.go` | `grants.json`, **no lock**, load-change-save through one temporary name | `activeGrant`, `createGrant`, `revokeGrants`, `session start/revoke`, `ensureApproved` |
| Remote clients | `remote_run.go` | a key pair and a deadline | `remote-run`, `vault-fetch` |
| Remote approvers | `remote_approve.go`, `remote_crypto.go` | a list fetched once per round, sessions of their own host | `approve [--watch]` |
| Signed decisions | `remote_server.go`, `remote_crypto.go` | the request store | `decideRequest` |
| Permission upgrades | `decide_upgrade.go`, `permission_upgrade_http.go`, `cmd_review.go` | `upgradeDecideMu`, the request store | decisions by form, JSON API and `review-upgrades`, and signed ones, which pass by the mutex; `request-upgrade` |
| Grant files | `permission_grants.go`, `cmd_grants.go` | `permanent-grants.jsonl`, `temporal-grants.jsonl` under flock (except `revoke --all`) | append, load, `revoke --id` (whose search and `os.Stat` are outside the lock), `revoke --all`, listing, edits by hand |
| Upgrade guards | `permission_grants.go`, `remote_server.go` | `rateLimiter`, `reasonDedupCache` in memory | `allow`, `markIfFresh`, the intake `createRequest` |
| Review front ends | `permission_upgrade_http.go`, `remote_http.go`, `cmd_review.go` | a CSRF cookie per browser, the pages of its tabs, a terminal's fetched list | form page, form post, JSON API, `review-upgrades [--watch]` |
| Auto-approve lease | `auto_approve.go`, `approval.go` | `auto-approve.lease`, flock on renewals only | enable, disable, status, renew, removal when expired |
| Policy and config | `policy.go`, `config.go` | none (reads the grant files) | `validateRequestAt`, `effectiveResources` |
| Scoped execution | `exec.go`, `lease_files.go`, `secrets.go` | a child process, two pipes, two copying goroutines, a directory of secret files | resolve, write files, run, redact, remove |
| Vault read | `vault.go`, `secrets.go` | a child process under a deadline, two capped buffers | `resolveVaultRef` |
| Audit, notification, doctor | `audit.go`, `notify.go`, `doctor.go` | `audit.jsonl` | append; read-only reports |

How they interact. An agent's request enters the daemon's store as *pending*.
From then on whoever comes first decides it: the local authority's goroutine,
an approver with a signed decision, or (upgrades) an operator through
`decidePermissionUpgrade`. The client polls and acts on what it reads. The
local authority shares `grants.json` with every command of its host that opens
or revokes a session: `session start` and `revoke`, `run` and `request`, which
approve for themselves (`ensureApproved`), and `approve`; the
upgrade flow and `capbroker revoke` share the grant files, which the policy
reads; every process of the operator's host shares the auto-approve lease; the
tabs of a browser share a cookie. A run shares two pipes with its command.

What is hard to test, and what must hold (PROJECT.json lists each hazard at its
line):

* **Races for one request.** Deciders, signed approvers and restarted deciders
  meet at one entry. It must be decided once, for good, and on valid grounds.
* **Two files, one decision.** The approval of an upgrade and its grant are
  written one after the other. No crash, fault or race may leave a grant that
  was not approved, or two of them, and none may lose one.
* **Lost updates.** `grants.json` has no lock and the grant files have one that
  `revoke --all` ignores. A lost session is tolerable. A session nobody
  gave a ground for, or one that outlives its cap, is not.
* **A save in four steps.** Load, open, write and rename can each fail, and the
  process can die between them, perhaps with the temporary file half written.
* **Stale lists and stale pages.** An approver prompts for minutes over a list
  fetched earlier; a form is posted after the configuration, the cookie or the
  request has changed.
* **Clocks read before a lock.** Guards and lease renewals judge with a time
  taken before they waited.
* **Rounded advice.** `Retry-After` is whole seconds, and rounding goes down too.
* **Files that people edit.** A last line without its newline swallows the next
  grant appended.
* **Two pipes.** A command writes to both in an order of its own, closes one,
  leaves a descendant that holds one, or floods one; the broker must neither
  block nor cut what it shows or returns.
* **Crashes** between storing a request, opening a session and deciding, and
  **liveness**: no request orphaned, no operator left waiting for a mutex or a
  flock, every client, run and vault read returns.

## 2. The modules

| Module | Models | Extends or instantiates |
|---|---|---|
| `RequestLifecycle` | the abstract promise about one stored request: pending, decided at most once, a decision never changed, a lease exactly with an approval | |
| `AtomicFile` | the abstract promise of the request store: a list changed in one step that loses nothing | |
| `OperatorSessions` | the TTL and expiry arithmetic of sessions | |
| `LocalAuthority` | store, deciders, `grants.json` with all who write it, the auto-approve lease as far as it opens sessions, signed decisions, crash and resume | extends `OperatorSessions`; implements `RequestLifecycle` |
| `StateFile` | load, open, write and rename of the two JSON files, with and without a mutex | implements `AtomicFile` |
| `UpgradeFlow` | upgrade decisions, grant files, revocations, polling clients | implements `RequestLifecycle` |
| `UpgradeGuards` | rate limiter and dedup cache under concurrent handlers | |
| `UpgradeIntake` | `createRequest` of upgrades: the guards composed with the store and with decisions | extends `UpgradeGuards` |
| `UpgradeReview` | browser tabs with their forms and cookies, terminals, other clients and signed decisions, authorization under a changing configuration | |
| `Permissions` | what an agent may ask for over time: profiles extended by the grant files, under revocations and edits | |
| `AutoApprove` | the auto-approve lease, file operation by file operation | |
| `RemoteApproval` | clients, watching approvers, unsigned decisions, with the local authority as a competitor | extends `OperatorSessions`; implements `RequestLifecycle` |
| `ScopedRun` | one run of a command: secrets, secret files, pipes, redaction, cleanup | |
| `VaultRead` | one vault read: token, deadline, capped buffers, pipes | |
| `MC...` | instances for TLC: profiles, configurations, symmetry | the module they name |
| `LocalAuthorityProofs`, `UpgradeFlowProofs`, `AutoApproveProofs`, `UpgradeGuardsProofs`, `RemoteApprovalProofs`, `UpgradeReviewProofs`, `StateFileProofs`, `RunProofs` | theorems and proofs | the module they name; `UpgradeGuardsProofs` `UpgradeIntake` too, `RunProofs` `Permissions`, `VaultRead` and `ScopedRun` |

Conventions. A definition keeps the name of its function where it has one.
Definitions whose comment begins "A plausible bug" are not part of any
specification: each is a variant of the definition after it, and substituting
it must make a named property fail (PROJECT.json, "mutants"). Time is a natural
number that `Tick` advances. `Fault` is a failing file operation or call.
A step boundary stands wherever the code lets another actor in: between a load
and a save without lock, between two files, at a prompt, before a lock is
taken. A call under a mutex or flock that is one write is one step.

### LocalAuthority

A *scope* is the triple (agent, profile, resource) that `requestHash` hashes; a
profile is the part of `Profile` that decides (kind, `require_approval`,
whether the static lists accept the scope, TTL, maximal session).
`store[r]` is the entry of `remote-requests.json`, and its `by` and `session`
fields are what the code writes into `Message`. `decider[r]` is the goroutine:
`Validate`, `Lookup`, `Prompt`, `CreateLoad`, `CreateSave`, `Resolve`,
`Approve` and `Deny` are `localDecideRequest` cut at its file accesses and at
the prompt. Each carries the locals the code carries over the cut, such as the
content `createGrant` is about to save. `minted` records every session ever
built, so that `sessions`, the file, is a set of indices and a stale write is
visible as an old set. `SignedDecision` is `decideRequest`. `Crash` loses the
deciders, `Restart` runs `resumePendingRequests`. `yes` (the operator's
answers) exists for the properties only.

The commands of the daemon's host that write the same file are `cli[c]`.
`CliStart` is `session start`; `CliDirect` is `run` or `request`, which go
through `ensureApproved`: a profile without approval opens a session at once, a
critical command looks for no session, and then `CliLease` lets an auto-approve
lease stand for the yes before `CliPrompt` asks for one. `CliApprove` is
`approve` run on this host. All go on to `CliLoad` and `CliSave`, which are
`createGrant`; `run` and `request` give it the instant at which they began, the
others the present one (`GrantedAt`). `run` and `request` validate against the
static lists only. The lease itself is an expiry here (`EnableLease`,
`DisableLease`); `AutoApprove` has its file. `CAPBROKER_AUTO_APPROVE=1` is a
yes of the prompt it skips (`promptApproval`). `consents` is what was agreed to
in commands, and `lastCeiling` the latest end of a lease the operator ever set;
both exist for the properties. The daemon and the commands are assumed to read
one configuration.

So a session is no proof of a prompt. One opened under a lease outlives the
lease, and the daemon then serves requests by it that nobody was asked about.
`Consented` names the five grounds a session can have, and `ApprovalJustified`
and `SessionConsent` say that there is no other.

Its store changes in one step and its `grants.json` in a load and a save.
`StateFile` shows when that is right: always for the store, and for
`grants.json` as long as no two saves overlap.

### StateFile

`disk` is the content of the inodes, `path` and `tmp` are the inodes the two
names lead to. A file is a sequence of blocks that ends with `End`; a write at
offset 0 leaves the rest of a longer file behind it, and `ShortWrite` stops in
the middle, so that what a file parses to is a result of the model. `Sublist` keeps the elements of a
list at some places, in their order, for the loops of `pruneExpired` and
`revokeGrants`.
The initial value of `mutex` chooses the file: the request store (`Locked`:
goroutines under `remoteStore.mu`, which `Return` gives back on every path) or
`grants.json` (`NoMutex`: processes that open, write and rename one temporary
file at will). `stored` records
what a caller was told; `lone` and `met` record which saves overlapped.

### UpgradeFlow

A decision is four steps, as in the code: `Enter` takes the mutex and looks at
the status, `Claim` is the `store.update` with its second look, `Open` takes
the flock, `Write` appends. A grant file is a set of lines and a *tail*, what
follows its last newline, because a torn write leaves a fragment that spoils
the next append. A `revoke --id` is four steps: `RevokeFind` searches the files
and `RevokeStat` looks whether the file is there, both without the flock, then
`RevokeLoad` takes it and `RevokeSave` gives it back. A revocation that finds
the file gone, or the grant no longer in it, is reported and audited like any
other. `RevokeAll` unlinks the file without the flock, and an append that has the
file open then writes to the unlinked one. `SignedDecision` stores whatever
lease was posted, also one with the marker by which `Poll` takes it for an
operator's approval. `Poll` is the round of `runRequestUpgrade` that ends its
loop.

### UpgradeGuards and UpgradeIntake

A handler reads the clock (`since` is the earliest it can have read) and gets
the mutex later, at most `Skew` later; the `now` it judges with is any instant
between. `Second` is the number of clock ticks in a second. A refusal tells the
agent to wait a whole number of seconds, `Told`: the header rounds half to even
(`%.0f`), the body half away from zero (`Round`), so that the two can differ by a
second, and both can be too early. `advice` keeps the instants that follow. `spent` records what the limiter let through, `history` is the
limiter's own slice as indices into it. `UpgradeIntake` gives a handler that
passed both guards a `job`, which `Store` saves or loses: the guards stay spent
and marked in both cases, as in the code, and a crash empties them while the
store stays. `run` numbers the daemon's lives.

### UpgradeReview

A tab is blank, loading, about to receive a page, showing one, posting, or
without an answer to its post (`unknown`, after which the user may send the
same post again). `Serve` is `handleUpgradeShow`, which makes a token and
answers with it as cookie and as field; `Arrive` stores the cookie under the one
name all tabs of a browser share, `Submit` sends what the browser holds at that
moment. `HandleForm` is `handleUpgradeDecideForm` with its refusals in the
code's order, `HandleApi` is `handleUpgradeAPI`. `Go`, `Choose`, `Skip`, `Quit`
and `Advance` are `cmdReviewUpgrades`. `PostWithoutForm` is a post from a page that
is none of the daemon's forms. `PostByHand` is any other client of the form or of
the API, which has fetched neither page nor card. `DecideSigned` is `decideRequest`,
which takes a signed decision on a request of any kind and looks neither at
`upgrade_approvers` nor at the mutex. `Restart` may change the configuration, and
`outcome[r].under` records under which one a request was decided. The decision
itself, steps under a mutex in `UpgradeFlow`, is one step here: what its claim
finds decides.

### Permissions

A *text* is a resource and a pattern at once; `MatchedBy`, a constant, is what
`path.Match` says of two of them. A grant file is a set of lines and a last one
that may lack its newline (`GrantFile`): ids are unique and no reader looks at the
order of the rest. Among the lines are comments and a line beyond the
scanner's megabyte. `AppendGrant` continues a last line without a newline: the
result parses as no grant, so the new one is lost, and the old one if it was
one. `loadGrantsJSONL` is `GrantsIn`, `rewriteGrantsJSONLExclude` is
`Rewrite`, `pruneTemporalGrants` is `Prune` and `collectAllGrants` is `Rows`, which
compares instants for itself (`ListedExpired`, beside `Expired` of the policy).
`Effective` is `effectiveResources`, `MayAsk` the part of
`validatePermissionUpgradeRequest` about target and resource.

A `revoke --id` is `Seek`, `Gone` or `Load`, and `Save`, with the flock from `Load` to
`Save`; `RevokeAll` does not wait for it. So a `revoke --id` may write back what a
`revoke --all` has removed and reported; `exposed` holds the grants to which this may
happen. The editor saves the file in one step, also without the flock.
`revoke --all` is taken to report what it unlinks. The operator also restarts
the daemon with another configuration, in which a profile may have another kind.

### AutoApprove

`file` is no file, a blank (truncated or unparsable) file or a lease.
`os.WriteFile` is `Truncate` and `Write`; `Remove` and `Disable` do not take
the flock, so a write may go to an unlinked file. A lock that cannot be taken
is ignored, as in the code. `enabled` and `activity` record what the operator
set and when the lease was used; `written` and `approvals` record what was
saved and approved. They exist for the properties.

### RemoteApproval

`approver[a]` works through `queue`, fetched by `List` at the start of a round.
`Consider`, `Prompt`, `Resolve` and `Post` are one iteration of
`approvePendingOnce`. A lease is what its ciphertext proves: the key it is
encrypted to, the capability it names, and whether it holds a vault value.
`LocalDecision` stands for the local authority by the one decision
`RequestLifecycle` allows it. `UnsignedDecision` is any lease anybody may post
under `--allow-unsigned-decisions`. The approver's sessions are those of its
host: `Prompt` opens one after a yes, and `OpenSession` stands for all others who
write `grants.json` there, `session start`, `run` and `request` by policy, lease or
prompt, another `approve`, and a daemon (`HostOpeners`). A session says who
opened it, and `ApprovedWithConsent` accepts one of another command as a ground,
as the code does. `LocalAuthority` has the steps and the races of that file,
and what each opener needs.

### ScopedRun

`pc` is the broker's main goroutine, from the approval over `Resolve` (one
source at a time), `Prepare` and `WriteFile` to `Start`, `Copied`, `Wait` and
`Cleanup`. The unit of output is a piece of a line; a piece `holds` the secret
values that occur in it, `Read` is one read of the scanner into a buffer of
`LineSize` pieces, `PrintLine` redacts and prints a line, and `GiveUp` is the
scanner's error on a line that does not fit. `Redact` replaces the values of one
line that are long enough; a value of several lines (`MultiLine`) is never found
in a line and stays. The removal of the directory may fail, after a failed write
(of which a part may be in the file) and at the end, and nobody is told: `stuck`
says so. The command composes a piece and
is then blocked in its write until `Push` finds room in the pipe. It may close
a stream, exit, and leave a descendant.

### VaultRead

`read` fixes what is read and what the secret source of its token yields.
`CopyOutput` is a round of `io.Copy` into a `cappedWriter`, of any part of what is in
the pipe; output is counted in bytes and never looked at. `KillAtTimeout` is the
context, which knows the child only. `FinishRead` is the return of `Run`, which waits for the
child and for the end of both pipes (`Holders`).

## 3. What TLC checks

| Run | Instance | Shows |
|---|---|---|
| `authority` | 1 request over all four kinds of profile, both TTL requests, clock 0..2, two of a fault, a crash, a command of the host and an auto-approve lease; 2 requests of one command scope beside one session start or revocation | `AuthoritySound`, `SessionCapped`, `SessionConsent`, refinement of `RequestLifecycle`, `PendingDecided` |
| `state_file` | 2 callers, with and without the mutex, 3 calls, 2 faults or deaths | `TypeOK`, refinement of `AtomicFile`, `WholeUnlessOverlapped`, `LoneSaveTakesEffect`, `CallReturns` |
| `upgrade` | 1 request, 2 operators, signed decisions of any lease, one fault, one crash; 2 requests, 1 operator, 2 `revoke --id` and a `revoke --all` | `GrantsSound`, `RevokedStays`, `AppliedKept`, refinement of `RequestLifecycle`, `NobodyWaits` |
| `upgrade_intake` | 2 handlers, 3 justifications, limit 2, window 3, dedup window 2, skew 1, a second of 2 ticks, clock 0..3, one of a crash, a failing save and a decision | `LimitsSound`, `RetryHonest`, `DuplicatesApart`, `IntakeSound` |
| `upgrade_forms` | 1 request, 2 tabs of one browser, a script, 2 signing keys, 4 configurations, one restart, one lost message or disk error | `DecisionsSound`, `ToldTruly` |
| `upgrade_review` | a browser with one tab, a watching terminal and a signing key; 1 request with a restart between 2 configurations and a failure, or 2 requests with neither, of which the key may decide the first | `LoneTabAccepted`, `Reviewed`, `Offered` |
| `permissions` | 2 profiles, a literal and a glob, 2 grants, 3 edits (with or without a final newline), revocations, prunings or restarts, clock 0..3 | `OnlyGranted`, `GrantHonoured`, `ListingAgrees` |
| `auto_approve` | 2 processes, 2 requests, 2 operator commands, one fault or death, TTLs of 1, the maximum and beyond it | `LeaseSound`, `IdleGapsExpire`, `NeverShortened` |
| `remote` | 1 request of any scope, a watching approver, the local authority, unsigned decisions, and one fault and one crash or a session opened by another command of the host; 2 requests without these | `ClientsSound`, `ApprovedWithConsent`, refinement of `RequestLifecycle`, `Progress` |
| `scoped_run` | two injected secrets of one line and a file of several, both streams, pipes of 1 piece, a buffer of 2, lines of up to 3, 3 pieces on a stream, two faults or a kill | `RunSound`, `ShownRedacted`, `OutputUpToLongLine`, `RunReturns` |
| `vault_read` | cap 3, pipe 2, time limit 1, one descendant, up to 4 bytes per stream, every read | `ReadSound`, `ReadEnds` |
| `output_cut` | a buffer of 1 piece, lines of up to 2, no fault | the violation of `AgentSeesOutput`, see below |

What a property says is written above it in its module. Some runs check a
conjunction of named parts, so that one theorem can state it as well; each
begins with the module's type invariant, the liveness ones excepted:

| Conjunction | Parts |
|---|---|
| `AuthoritySound` | `TypeOK`, `ApprovalJustified`, `SecretsAfterApproval`, `NoOrphan` |
| `GrantsSound` | `TypeOK`, `GrantBacked`, `OneGrantPerRequest`, `GrantedOnRecord` |
| `NobodyWaits` | `Answered`, `ClientReturns` |
| `LimitsSound` | `TypeOK`, `RefusalFiltersNothing`, `QuotaKept` |
| `IntakeSound` | `IntakeTypeOK`, `StoredWithinQuota`, `StoredApart`, `StoredIsRefused` |
| `DecisionsSound` | `TypeOK`, `ShownThenDecided`, `DecidedWithAuthority` |
| `OnlyGranted` | `TypeOK`, `NothingElseAllowed`, `NoSelfExtension` |
| `LeaseSound` | `TypeOK`, `CeilingKept`, `ApprovedBelowCeiling` |
| `ClientsSound` | `TypeOK`, `RunsOwnCapability`, `OutcomeStands` |
| `Progress` | `WatchDecides`, `ClientReturns` |
| `RunSound` | `TypeOK`, `NothingLeft`, `EquippedThroughout` |
| `RunReturns` | `RunEnds`, `RemovedAfterExit` |
| `ReadSound` | `TypeOK`, `WholeOrNothing`, `RefusedForAReason`, `NoTokenNoRead` |

**Several scenes in one instance.** The MC modules of `LocalAuthority`,
`UpgradeFlow`, `RemoteApproval`, `ScopedRun`, `UpgradeIntake` and
`UpgradeReview` hold, beside the bounds of the constants, a predicate `Instance`
that each step must keep to: it says which bounds may be used up together, such as
"two requests, but then neither crash nor fault". It only holds back actions
that have no fairness (a new request, a fault, a crash, a command, a
decision nobody has to take), so every fair behaviour of the instance is one of
the specification and liveness is not checked over anything less.

**Why the bounds are enough to be interesting.** Each race the properties are
about is between two actors and one object, so two of each kind produce it. The
third kind of actor (operator command, crash, fault) comes once, at any point. Where
three are needed they are there: a grant comes back after its revocation only
with two `revoke --id` and a `revoke --all`, and a session opened under a lease
takes an enable and a command beside the request it serves.
A session started early, a cap that passes and a late save need clock 2 in
`authority`. A quota of 2 needs a third upgrade while the first is a window old
and one handler overtakes another, hence clock 3 and three justifications; with
two ticks to a second, every other advice falls on half a second, where the two
roundings part. In
`remote` leases live for the instant they are made, so that live and expired
ones reach the client. In `permissions` three edits are
a last line without newline, the append after it, and one more of any kind. In
`scoped_run` the second fault is a removal that fails after a failed write. In
`state_file` two faults let one save leave half a
temporary file and the next one fail too, and the third call finds both. Two
pieces on a stream block a pipe of one, a third goes beyond the buffer. A vault
read of 4 bytes meets a cap of 3 at, below and above it, in pieces of 1 and 2.
The mutants show that no property is out of reach of its run: each fails within
its own bounds for a plausible bug. `CHECK_DEADLOCK FALSE` stands in every
configuration since a bounded instance ends when its clock, requests and
commands are used up; that nobody waits for ever is what the liveness properties
say.

**Fairness.** Only where the code's scheduling gives it.

* `LocalAuthority`: weak fairness of each decider (a started goroutine runs on,
  a prompt is answered or times out) and of `Restart` (the service manager
  restarts the daemon). The prompt is an assumption for kdialog, qarma and the
  terminal, which have no timeout in the code (`approval.go:117`).
* `StateFile`: weak fairness of a call's steps and strong fairness of `Lock`,
  since Go's `sync.Mutex` starves no waiter.
* `UpgradeFlow`: strong fairness of `Enter` and of a handler's steps, since they
  wait for a `sync.Mutex` and a flock that others take and give back
  repeatedly. Weak fairness of `RevokeSave`, `Poll` and `Tick`.
* `UpgradeReview`: weak fairness of the daemon's answers and of a page's
  arrival; strong fairness of `Submit` and of opening a request while it is
  pending, for the operator of `Reviewed`, who keeps at it; weak fairness of the
  steps of an attended terminal.
* `RemoteApproval`: weak fairness of each approver's loop, each client's loop
  and time.
* `ScopedRun`: weak fairness of the broker, of the two copies, of a command's
  blocked write and of its exit. A descendant may hold a pipe for ever.
* `VaultRead`: weak fairness of the secret source's answer, the copies, time,
  the kill and the return. Nothing makes the child or its descendants end.

No fairness is put on requests, decisions, signed decisions, crashes, losses or
faults: nothing ever has to happen there. `PendingDecided`, `WatchDecides`,
`Reviewed`, `Offered`, `RunEnds` and `ReadEnds` say in their own text what excuses them,
because the code then really does not go on: a store update that fails at the
decision has no retry, an error ends an approver or a terminal, nobody drains
the pipe after an over-long line, and `Wait` waits for descendants.

### Disagreements between text and code

`output_cut` ends in a counterexample. The copy of the child's output is a
`bufio.Scanner` whose error ends it (`exec.go:84`), so a line of more than a
megabyte takes the rest of the stream with it and the run still succeeds,
although `README.md:75` lets the agent see the output. `OutputUpToLongLine`
bounds what is lost.

The following was seen while modelling. Each step is in the models, no property
contradicts it, and the texts concerned are quoted where they stand.

* A profile without `require_approval` approves critical commands by policy
  (`local_authority.go:34`); `docs/threat-model.md:27` asks for an explicit
  approval.
* A decider that saves its own session over the unlocked file writes a revoked
  one back (`grants.go:59`; `docs/threat-model.md:26`).
* A session that `run` or `request` opened under an auto-approve lease serves
  the daemon's requests of its scope, after the lease has ended too, and nobody
  is prompted (`approval.go:63`; `local_authority.go:41`).
* A remote approver's decision on a vault request is accepted and the client
  prints an empty value and succeeds (`remote_approve.go:106`;
  `remote_server.go:136`).
* `approve --watch` ends when another approver was faster
  (`remote_approve.go:126`; `main.go:183`).
* An upgrade is reported as granted after its claim and before its grant is
  appended (`decide_upgrade.go:121`; `cmd_review.go:19`), and one whose append
  failed cannot be decided again (`decide_upgrade.go:187` says it can).
* The endpoint of signed decisions does not look at the kind of a request
  (`remote_server.go:295`), so an upgrade is decided without
  `upgrade_approvers`, although `permission_upgrade_http.go:66` has all decisions
  rejected without them. No grant follows, yet a posted lease that carries
  the upgrade marker makes the client report one (`cmd_review.go:112`). The JSON
  API takes decisions of clients that never fetched the card
  (`permission_upgrade_http.go:245`).
* `Retry-After` is rounded, so an agent that waits just as long as it was told
  may be refused again, and header and body may differ by a second
  (`remote_server.go:169`).
* A justification is refused as a duplicate, with the advice to wait for the
  decision, after that decision or when the request was never stored
  (`remote_server.go:174`).
* An interrupted run leaves its directory of secret files
  (`lease_files.go:17`; `README.md:198`), and so does a removal that fails, whose
  error is dropped (`lease_files.go:39`).
* A secret of several lines, as of a kubeconfig, is shown in full, since each
  line is searched by itself (`exec.go:84`; `README.md:16` and
  `docs/threat-model.md:32`, against `docs/threat-model.md:53`).
* A granted resource may hold a backslash, which `path.Match` reads as an escape
  (`policy.go:220`); one line of more than a megabyte takes every grant of its
  file out of effect (`permission_grants.go:142`, against line 116); a last line
  without its newline swallows the next grant (`permission_grants.go:88`); the
  listing shows grants of a profile that has become the meta-profile as active
  (`cmd_grants.go:215`, against `policy.go:63`); pruning
  drops a grant at its expiry instant, which the policy still accepts; the
  listing of sessions and `activeGrant` differ at that instant too
  (`cmd_grants.go:176`, `grants.go:40`).
* `grants --json` encodes a struct without exported fields
  (`cmd_grants.go:103`).
* A second form of a browser spoils the first
  (`permission_upgrade_http.go:168`, against 164); without configured sources
  only loopback may decide (line 134; `config.go:97` says the check is
  skipped); an operator without a header is refused (line 94, against 29).
* A vault read looks at the cap of stdout only (`vault.go:58`, against 40), and
  outlasts its limit while a descendant holds the pipe (`vault.go:51`, against
  22).
* A `revoke --id` beside a `revoke --all` restores what that removed
  (`cmd_grants.go:303`), also a grant that a second `revoke --id`, which found
  the file gone (line 327), has reported and audited as revoked; a renewal
  beside a disable writes the lease back (`auto_approve.go:86`); two overlapping saves of `grants.json` can leave a file
  that does not parse, which keeps `revoke --id` from repairing it.

## 4. What is proved

The proofs hold for every set of requests, operators, processes, tabs, scopes,
profiles and configurations, and every bound, from the named assumptions on
constants (`SessionDefaults` and the `...Assumption` of each module), which
state types, positive defaults, limits and windows, that a "nobody" is none of
the processes, and in `StateFile` and `UpgradeReview` that the processes and
tabs are finitely many. TLC evaluates each of them in its runs. Nothing else is
assumed: the profiles, for example, are any function into the record type. The
conjunctions of section 3 are theorems too, at the end of each module:
`AuthorityAlwaysSound`, `GrantsAlwaysSound`, `LimitsAlwaysSound`,
`IntakeAlwaysSound`, `DecisionsAlwaysSound`, `LeaseAlwaysSound`,
`ClientsAlwaysSound`, `OnlyGrantedEver`, `ReadsAlwaysSound` and
`RunsAlwaysSound`. With them every invariant and every action property that a
run expects to hold is also a theorem, `ListingAgrees` excepted.

**`LocalAuthorityProofs`.**

* `TypeCorrect`: `[]TypeOK`.
* `EveryApprovalJustified`, `EverySecretAfterApproval`,
  `EverySessionConsented`. The three are not inductive: an approval is
  justified because the decider's grounds were valid when it found them,
  perhaps before a crash, an expiry or a revocation. `IInv` therefore adds
  `DeciderGrounds` (what each program point implies about its locals) and
  `StoreGrounds` (a request without an entry has no yes; an approval by anyone
  but a signed decision is justified), `CliGrounds` (what each program point of a
  command implies about what it may open), that no lease ends after the latest
  end the operator set, and that every index in a pending write is a session. The
  lemma `Frame` collects what no step undoes (a yes, in a prompt of the daemon or
  of a command, the content of a stored request, a built session); grounds are
  stable under it, which settles every actor but the one that moves.
* `EverySessionCapped`, from `Capped`: each session ever built expires within
  its cap. Whatever set of sessions a late writer saves, `activeGrant` uses none
  beyond.
* `NoRequestOrphaned`, inductive with `TypeOK`.
* `DecidedOnce`: every step maps to a step of `RequestLifecycle` or a stutter.

**`StateFileProofs`.** `StoreIsAtomic`: the request store implements
`AtomicFile`. Under the mutex at most one call is past `Lock` (`Alone`), so what
it loaded is what `path` still leads to, the inode it writes is not that one,
and the rename publishes a whole file (`Publishes`, `SaveRefines`); the ids of a
list are apart and below the next (`IdsOK`). The mutex is there for good or
never (`StaysUnlocked`), and in a behaviour without it the abstract list stays
empty.

The other side, `grants.json`: `AlwaysWholeUnlessOverlapped` and
`LoneSaveAlwaysTakesEffect`. Neither is inductive, since what a save is about to
publish was written in an earlier step, to an inode that others may have opened
since. `UnlockedInv` adds that a save that met no other has the temporary file
to itself, empty or with just what it has written (`SaveOK`), that it is then
the only save, and that every save is such a one until two have met
(`SavesOK`). TLC checked it on the instance of `state_file` first. `OneMoves`
and `OthersSave` settle every caller but the one that moves. Both theorems are
stated for either kind of file, as is the type invariant,
`StateFileTypeCorrect`.

Three lemmas stand for what would be inductions over data. A caller that opens a
file finds an unused inode, by counting (`FreeInodeOK`). `Sublist` picks the
element of each rank; that there is one (`PlaceOfRank`) follows from the least
number up to which so many places lie. And that a set of naturals has a least
number (`LeastNumber`) follows from the well-foundedness of `<`.

**`UpgradeFlowProofs`.**

* `UpgradeTypeCorrect`.
* `EveryGrantBacked`, `AtMostOneGrant`, `GrantedAlwaysOnRecord`,
  `RevokedForGood`, from one invariant `UInv`. What a grant file holds is not
  enough: a `revoke --id` carries a copy of it that it is about to save. `Held`
  is the file together with those copies. The mutex has one holder (`MutexOK`),
  a file's flock has one (`FlockOK`), a handler that is about to append has
  approved its request in its mode and no grant of that request is held, revoked
  or being revoked (`HandlerOK`), and a revocation keeps only others, which
  are in the file still unless a `revoke --all` took place (`CliOK`). An
  operator's approval is being carried out, on record, or cut off by a crash
  (`OnRecord`).
* `NoAppliedGrantLost`: while no file operation has failed, a grant that was
  reported as applied is in its file or was revoked. `KInv` adds that then the
  tails are empty (`TailsOK`), who appends to an unlinked file comes after a
  revocation of all (`UnlinkedOK`), a revocation keeps all others (`RestKept`),
  and every applied grant is held or revoked (`AppliedOK`).
* `UpgradeDecidedOnce`: refinement of `RequestLifecycle`.

**`UpgradeGuardsProofs`.** `GuardsTypeCorrect`, `QuotaAlwaysKept`,
`RefusalsFilterNothing`, `RetriesHonest` and `DuplicatesKeptApart`, from `GInv`.
What passed lies in the order of its true instants though not in that of the
instants the handlers read (`PassagesOK`). What the history dropped, or a
handler filters out, is out of the window up to `Skew`, and the history is not
longer than the limit (`HistoryOK`). So when a new upgrade passes, of the
`Limit` that passed before it one is not live (`OneExpired`, by counting), and
the first of them, which is not later, is far enough away. An advised instant is
about that at which the first entry of a full history expires, half a second
off for the rounding and later by the wait for the mutex (`AdviceOK`); so waiting
half a second more is enough, and coming much earlier is not. The cache holds what
it let pass until the window is over (`MarkOK`). `Skew` is any bound on
how long a handler waits for the mutex (`PostOK`). `FirstType`, that a non-empty
set of naturals has a least element, comes from the well-foundedness of finite
subsets, since induction is out of reach.

The same module goes on to `UpgradeIntake`, the whole of `createRequest`.
`GuardsWithinIntake`: every step of the intake is one of the guards or leaves
them alone, so that what was proved of them holds within it
(`LimitsWithinIntake`). `IntakeAlwaysSound`, from `IntakeInv`: the cache remembers
each request of this run that is stored or about to be, or its window is over
(`RecordsOK`); two of one justification are a window apart, in whichever order
they reach the store (`SeparateOK`); and each has a passage of the limiter of its
own, near its instant (`SourcesOK`, two functions that every step extends), so
that the requests stored within a window are no more than the passages in it
(`FewStored`, by counting). What an earlier daemon run stored is added to by none
(`NearFrozen`).

**`UpgradeReviewProofs`.** `ReviewTypeCorrect`, `NothingDecidedUnseen`,
`AlwaysWithAuthority`, `ToldTheTruth` and `LoneTabsAccepted`, from `RInv`: an
outcome is by someone whom its configuration entitles, an operator or a signing
key, and who was shown the request if it was a browser or a terminal
(`RequestOK`); tokens are apart (`TokensApart`), and a fresh one
exists because there are more tokens than places to keep one, by counting; a
form that is shown or posted is of a request its tab was shown, an answer is
true, and the browser of a lone tab has the cookie of its form (`TabOK`); a
terminal asks only about what it showed (`CliOK`). `Kept` collects what no step
takes back, which settles every actor but the one that moves.

**`AutoApproveProofs`.** `AutoApproveTypeCorrect` (with the fact that the flock is
held only within a renewal), `EveryCeilingKept` and
`EveryAutoApprovalBelowCeiling`, from `AInv`: every lease at hand, in the file,
about to be written, or relied on by a request, keeps to the terms under which
it was enabled. The operations that ignore the lock need no case of their own,
since they move or drop leases and never change their terms.
`EveryIdleGapExpires`, from `UseInv`: a lease at hand goes back to an
enable or a use no longer ago than its window. `NoRenewalTakenBack`, from `Order`:
under the flock what a renewal read is what it overwrites, so that of two
leases of one enable the later write is not the shorter one.

**`RemoteApprovalProofs`.** `RemoteTypeCorrect`, `AlwaysWithConsent`,
`OnlyOwnCapability` and `OutcomesStand`, from `RInv`: an approval in the store,
a lease about to be posted and a session each have their `Grounds` (`StoreOK`,
`ApproverOK`, `SessionOK`), a yes is to a request of the same content (`YesOK`),
and what a client acted on is the decision in the store (`ClientOK`). The frame
`Steady` says what no step changes: stored contents, yeses, and the lease of a
decided request. `RemoteDecidedOnce`: refinement of `RequestLifecycle` by
approvers with outdated lists, unsigned decisions and the local authority
together.

**`RunProofs`** is about what an approved command runs with. Its three modules
share no variable.

* `Permissions`: `OnlyGrantedEver` and `GrantsAlwaysHonoured`, the two halves of
  one fact, that the files are the grants in force. `PermissionsInv` says it of
  what a file holds together with what a revocation has loaded and will write
  back: all of it was given, and what was reported as revoked is held only if it
  was loaded by then (`Known`); and whatever is given, neither revoked nor lost
  with an unended line, and before its expiry, is in the file and in every
  rewrite of it (`Stays`). Both halves need ids that are never used twice
  (`GivenOK`, the cardinality of what was given bounds them), or a revocation
  would take back what is decided later. `MetaProfileStatic` needs no invariant,
  which is what the code's comment claims: the check is made where the grants are
  read.
* `VaultRead`: `VaultTypeCorrect`, `ValuesAreWhole`, `RefusalsHaveAReason` and
  `NeverWithoutToken`, from `VInv`: what was written is in the pipe, kept, or
  dropped with the flag raised (`StreamOK`), a child runs only with a token
  (`PhaseOK`), and a result has what it claims (`ResultOK`).
* `ScopedRun`: `RunsAlwaysSound`, `ShownAlwaysRedacted` and
  `OutputAlwaysUpToLongLine`, from `RunInv`. `PhasesOK` says what each point of
  the broker has: all values, and their redaction, before there is a command,
  and its files until it has ended; at the return they are gone, or their
  removal has failed. `StreamsOK` accounts for each stream piece
  by piece: what was written is what is shown, what is in the scanner's buffer
  and what is in the pipe, in this order (`Carried`); what is shown is whole
  lines and the buffer is the begin of one (`InLines`); a copy that is done has
  drained its stream or sits on a full buffer without a newline (`DoneOK`).
  The last theorem is `DoneOK` at the end of the run, read through the other
  two: behind what is shown begins a line that does not fit. That the redaction
  covers whatever is printed needs `PhasesOK`, since a value resolved after a
  line was printed would not have been in it.

**Only model-checked.** `ListingAgrees`, two comparisons of instants that TLC
settles and a proof would only unfold; and the liveness properties (`PendingDecided`,
`CallReturns`, `NobodyWaits`, `Reviewed`, `Offered`, `Progress`, `RunReturns`,
`ReadEnds`), which are out of the prover's reach as is `ENABLED`. Induction
over data is reached in one form only, least elements of sets of naturals and
of finite sets; the models therefore describe lists and files by positions,
counts and sets, and no theorem rests on what a fold computes.

## 5. What is not modelled, and why

* *Policy matching* (`policy.go`): globs, prefixes and request shapes are pure
  functions of one request. `Permissions` takes what `path.Match` says from the
  constant `MatchedBy`, and the other models take the verdict as part of a scope.
* *Cryptography*: modelled by what it proves; the primitives are Go's library.
* *Secret sources*: an answer or an error. Their commands run without a time
  limit (`secrets.go:152`); liveness assumes that they answer.
* *List and diff pages of the review front end*: they read the store and change
  nothing. The Back button of a browser shows pages the models do not keep.
* *Audit, notification, doctor*: written or printed and never read by the
  program, except the audit events of upgrades, which are in `UpgradeFlow`, and
  those of refused attempts, which are in `UpgradeReview`.
* *An edit by hand* is one save of the editor. One that holds an older copy of
  a grant file and saves it over later appends loses these, as with any
  file; the models do not keep the copy.
* *Flags, defaults, rendering, wrapper scripts*: one command line for the
  programs above.
* *Power loss*: no file is synced by the code; crashes here are deaths of a
  process, after which the kernel still has what was written.

## 6. Plan

Done: every component of section 1 that keeps state, the refinements of
`RequestLifecycle` and `AtomicFile`, and a proof of every safety property the
runs check. Left, in order of importance:

1. Two approvers over three requests in `remote`, where the second approver's
   sessions and outdated list meet the first one's.
2. `UpgradeFlow` as a refinement of the steps `Permissions` has for the grant
   files, so that what is proved of the one carries over to the other. Both have
   `revoke --id` in steps and `revoke --all` beside it, with the same outcome; what
   is missing is a mapping of torn tails to unended lines, and one that gives
   each grant its profile.
3. An editor of the grant files as two steps, a load and a save.
