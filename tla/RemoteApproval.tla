---------------------------- MODULE RemoteApproval ----------------------------
(***************************************************************************)
(* A request decided away from the agent: capbroker remote-run and         *)
(* vault-fetch on the agent's host, capbrokerd between, and capbroker      *)
(* approve --watch on the approvers' hosts, each with sessions of its own. *)
(* The daemon may have a local authority too; it stands here as the one    *)
(* decision RequestLifecycle allows it, LocalAuthority has its detail.     *)
(*                                                                         *)
(* An approver works through a list it fetched at the start of its round,  *)
(* so whatever it prompts for may have been decided or given up since.     *)
(* The list is taken in any order.  The sessions an approver consults are  *)
(* its host's: other commands there open some too.                         *)
(***************************************************************************)
EXTENDS OperatorSessions

CONSTANTS
  Requests,       \* request ids; each client has a key pair of its own
  Approvers,      \* capbroker approve processes, each on its own host
  Known,          \* approvers whose keys the daemon has
  AllowUnsigned,  \* --allow-unsigned-decisions
  LocalApprove,   \* --local-approve
  Scopes,         \* (agent, profile, resource)
  Profile,        \* the profile of each scope, see ProfileRecord
  SessionTTL,     \* longest lifetime of a session on an approver's host
  LeaseTTL,       \* lifetime of a lease
  Wait,           \* how long a client waits for a decision
  MaxClock,       \* bound: the last instant
  MaxFaults,      \* bound: failed calls of the approvers' hosts
  MaxCrashes      \* bound: daemon crashes

\* accepted: the approver's own configuration accepts the scope.
ProfileRecord == [kind : {"command", "vault"}, requireApproval : BOOLEAN, accepted : BOOLEAN]

ASSUME RemoteApprovalAssumption ==
  /\ Known \subseteq Approvers
  /\ Approvers \cap {"local", "anyone"} = {}
  /\ Requests \cap {"start", "policy", "lease", "prompt", "approver", "daemon"} = {}
  /\ AllowUnsigned \in BOOLEAN /\ LocalApprove \in BOOLEAN
  /\ Scopes # {} /\ Profile \in [Scopes -> ProfileRecord]
  /\ SessionTTL \in Nat \ {0} /\ LeaseTTL \in Nat /\ Wait \in Nat
  /\ MaxClock \in Nat /\ MaxFaults \in Nat /\ MaxCrashes \in Nat

VARIABLES
  up,        \* the daemon runs
  store,     \* remote-requests.json
  approver,  \* the approve processes
  sessions,  \* every session ever saved in grants.json of an approver's host
  yes,       \* pairs of an approver and the request it was asked and agreed to
  client,    \* remote-run or vault-fetch of each request
  deadline,  \* its deadline
  clock, faults, crashes

vars == <<up, store, approver, sessions, yes, client, deadline, clock, faults, crashes>>

\* What a request asks for; critical tells the commands of a scope apart.
Content == [scope : Scopes, critical : BOOLEAN]

\* EncryptedLease with its LeasePayload: the key it is encrypted to, the
\* capability it is for, whether it holds a vault value, who made it on
\* which grounds.
Lease == [key : Requests, content : Content, value : BOOLEAN, expires : Nat,
          by : Approvers \cup {"local", "anyone"},
          basis : {"policy", "session", "yes", "other"}]

NoLease == [key |-> "none"]

\* How else a session comes into grants.json of an approver's host: session
\* start, run and request by policy, by an auto-approve lease or by their
\* prompt, another approver there, or a daemon with --local-approve.
HostOpeners == {"start", "policy", "lease", "prompt", "approver", "daemon"}

\* A Grant; opener is the request whose yes opened it, or how else.
Session == [host : Approvers, scope : Scopes, expires : Nat, opener : Requests \cup HostOpeners]

Statuses == {"absent", "pending", "approved", "denied"}

Stored == [status : Statuses, content : Content, lease : Lease \cup {NoLease}]

\* An approver: what is left of its list, and the decision it is about to
\* make: the lease of an approval, NoLease for a denial.
Approver == {a \in [pc : {"idle", "next", "prompt", "resolve", "post", "stopped"},
                    queue : SUBSET Requests, req : Requests \cup {"none"},
                    basis : {"policy", "session", "yes", "other"},
                    lease : Lease \cup {NoLease}] :
               a.pc \in {"prompt", "resolve", "post"} => a.req \in Requests}

At(pc) == [pc |-> pc, queue |-> {}, req |-> "none", basis |-> "other", lease |-> NoLease]

-----------------------------------------------------------------------------
Kind(r) == Profile[store[r].content.scope].kind
Pending == {r \in Requests : store[r].status = "pending"}

Fault == faults < MaxFaults /\ faults' = faults + 1

Record(r, status, lease) ==
  store' = [store EXCEPT ![r].status = status, ![r].lease = lease]

\* verifyDecisionSignature.
Accepted(a) == IF Known = {} THEN AllowUnsigned ELSE a \in Known

Goto(a, pc) == approver' = [approver EXCEPT ![a].pc = pc]

\* An error ends the approver, also one that watches.
Stop(a) == approver' = [approver EXCEPT ![a] = At("stopped")]

\* A plausible bug: any session of the host will do.
HasAnySession(a, s) == \E g \in sessions : g.host = a /\ Unexpired(g.expires, clock)

\* activeGrant on the approver's host.
HasSession(a, s) ==
  \E g \in sessions : g.host = a /\ g.scope = s /\ Unexpired(g.expires, clock)

-----------------------------------------------------------------------------
Init ==
  /\ up = TRUE
  /\ store = [r \in Requests |->
                [status |-> "absent", lease |-> NoLease,
                 content |-> [scope |-> CHOOSE s \in Scopes : TRUE, critical |-> FALSE]]]
  /\ approver = [a \in Approvers |-> At("idle")]
  /\ sessions = {} /\ yes = {}
  /\ client = [r \in Requests |-> "none"]
  /\ deadline = [r \in Requests |-> 0]
  /\ clock = 0 /\ faults = 0 /\ crashes = 0

\* The client posts its request with its public key and starts to poll; a
\* vault request needs the local authority.  The bound leaves room for the
\* deadline to pass.
Create(r) ==
  /\ up /\ store[r].status = "absent" /\ clock + Wait < MaxClock
  /\ \E c \in Content :
       /\ Profile[c.scope].kind = "vault" => LocalApprove /\ ~c.critical
       /\ store' = [store EXCEPT ![r] = [@ EXCEPT !.status = "pending", !.content = c]]
  /\ client' = [client EXCEPT ![r] = "waiting"]
  /\ deadline' = [deadline EXCEPT ![r] = clock + Wait]
  /\ UNCHANGED <<up, approver, sessions, yes, clock, faults, crashes>>

\* localApproveRequest and localDeny, as far as others can tell.
LocalDecision(r) ==
  /\ up /\ LocalApprove /\ store[r].status = "pending"
  /\ \/ Record(r, "approved", [key |-> r, content |-> store[r].content,
                               value |-> Kind(r) = "vault", expires |-> clock + LeaseTTL,
                               by |-> "local", basis |-> "other"])
     \/ Record(r, "denied", NoLease)
  /\ UNCHANGED <<up, approver, sessions, yes, client, deadline, clock, faults, crashes>>

\* decideRequest for a decision nobody signed: any lease, for any key.
UnsignedDecision(r) ==
  /\ up /\ Known = {} /\ AllowUnsigned /\ store[r].status = "pending"
  /\ \/ \E q \in Requests, c \in Content, e \in {clock, clock + LeaseTTL} :
          Record(r, "approved", [key |-> q, content |-> c, value |-> FALSE,
                                 expires |-> e, by |-> "anyone", basis |-> "other"])
     \/ Record(r, "denied", NoLease)
  /\ UNCHANGED <<up, approver, sessions, yes, client, deadline, clock, faults, crashes>>

-----------------------------------------------------------------------------
\* approvePendingOnce starts: the list of pending requests is fetched.
List(a) ==
  /\ approver[a].pc = "idle"
  /\ \/ /\ up /\ UNCHANGED faults
        /\ approver' = [approver EXCEPT ![a] = [At("next") EXCEPT !.queue = Pending]]
     \/ ~up /\ Stop(a) /\ UNCHANGED faults
  /\ UNCHANGED <<up, store, sessions, yes, client, deadline, clock, crashes>>

\* The decision an approver goes on to make about a request of its list.
Take(a, r, pc, basis) ==
  approver' = [approver EXCEPT ![a] = [At(pc) EXCEPT !.queue = approver[a].queue \ {r},
                                                     !.req = r, !.basis = basis]]

\* A plausible bug: a request the approver's policy rejects is left alone.
ConsiderSkipping(a) ==
  /\ approver[a].pc = "next"
  /\ \/ approver[a].queue = {} /\ Goto(a, "idle") /\ UNCHANGED faults
     \/ \E r \in approver[a].queue :
          LET c == store[r].content
              p == Profile[c.scope]
          IN
          \/ ~p.accepted /\ Take(a, r, "next", "other") /\ UNCHANGED faults
          \/ p.accepted /\ ~p.requireApproval /\ Take(a, r, "resolve", "policy") /\ UNCHANGED faults
          \/ /\ p.accepted /\ p.requireApproval /\ UNCHANGED faults
             /\ Take(a, r, "prompt", "other")
  /\ UNCHANGED <<up, store, sessions, yes, client, deadline, clock, crashes>>

\* The next request of the list: the approver's policy, its sessions unless
\* the command is critical, and else its operator.  A session may have been
\* revoked or lost to an overlapping save, so the operator may be asked
\* although there was one.
Consider(a) ==
  /\ approver[a].pc = "next"
  /\ \/ approver[a].queue = {} /\ Goto(a, "idle") /\ UNCHANGED faults
     \/ \E r \in approver[a].queue :
          LET c == store[r].content
              p == Profile[c.scope]
              session == ~c.critical /\ HasSession(a, c.scope)
          IN
          \/ ~p.accepted /\ Take(a, r, "post", "other") /\ UNCHANGED faults
          \/ p.accepted /\ ~p.requireApproval /\ Take(a, r, "resolve", "policy") /\ UNCHANGED faults
          \/ /\ p.accepted /\ p.requireApproval /\ UNCHANGED faults
             /\ \/ session /\ Take(a, r, "resolve", "session")
                \/ Take(a, r, "prompt", "other")
          \/ p.accepted /\ p.requireApproval /\ ~c.critical /\ Fault /\ Stop(a)
  /\ UNCHANGED <<up, store, sessions, yes, client, deadline, clock, crashes>>

\* The other commands of an approver's host open a session.  They share its
\* configuration; LocalAuthority has their steps and their grounds.
OpenSession(a) ==
  /\ \E s \in Scopes, by \in HostOpeners, t \in 1..SessionTTL :
       /\ Profile[s].accepted
       /\ by \in {"start", "policy", "lease", "prompt"} => Profile[s].kind = "command"
       /\ by # "start" => (by = "policy" <=> ~Profile[s].requireApproval)
       /\ sessions' = sessions \cup {[host |-> a, scope |-> s, expires |-> clock + t, opener |-> by]}
  /\ UNCHANGED <<up, store, approver, yes, client, deadline, clock, faults, crashes>>

\* promptApproval; a yes opens a session unless the command is critical.  No
\* prompter, or a session that cannot be saved, is an error.
Prompt(a) ==
  LET r == approver[a].req
      c == store[r].content
  IN
  /\ approver[a].pc = "prompt"
  /\ \/ /\ yes' = yes \cup {<<a, r>>} /\ UNCHANGED faults
        /\ approver' = [approver EXCEPT ![a].pc = "resolve", ![a].basis = "yes"]
        /\ sessions' = IF c.critical THEN sessions
                       ELSE sessions \cup {[host |-> a, scope |-> c.scope,
                                            expires |-> clock + SessionTTL, opener |-> r]}
     \/ Goto(a, "post") /\ UNCHANGED <<yes, sessions, faults>>
     \/ Fault /\ Stop(a) /\ UNCHANGED <<yes, sessions>>
     \/ /\ ~c.critical /\ Fault /\ Stop(a)
        /\ yes' = yes \cup {<<a, r>>} /\ UNCHANGED sessions
  /\ UNCHANGED <<up, store, client, deadline, clock, crashes>>

\* The secrets of the profile are resolved and encrypted to the client's
\* key; a vault value is none of them.  A failing source denies.
Resolve(a) ==
  /\ approver[a].pc = "resolve"
  /\ \/ approver' = [approver EXCEPT
          ![a].pc = "post",
          ![a].lease = [key |-> approver[a].req, content |-> store[approver[a].req].content,
                        value |-> FALSE, expires |-> clock + LeaseTTL,
                        by |-> a, basis |-> approver[a].basis]]
     \/ Goto(a, "post")
  /\ UNCHANGED <<up, store, sessions, yes, client, deadline, clock, faults, crashes>>

\* A plausible bug: the daemon does not check the status of the request.
PostUnchecked(a) ==
  LET r == approver[a].req
      lease == approver[a].lease
  IN
  /\ approver[a].pc = "post"
  /\ IF up /\ Accepted(a)
     THEN /\ Record(r, IF lease = NoLease THEN "denied" ELSE "approved", lease)
          /\ approver' = [approver EXCEPT ![a] = [At("next") EXCEPT !.queue = approver[a].queue]]
     ELSE Stop(a) /\ UNCHANGED store
  /\ UNCHANGED <<up, sessions, yes, client, deadline, clock, faults, crashes>>

\* postDecision and decideRequest: a signature the daemon accepts decides a
\* pending request.  Every other answer, and a store that cannot be saved,
\* ends the approver.
Post(a) ==
  LET r == approver[a].req
      lease == approver[a].lease
      accepted == up /\ Accepted(a) /\ store[r].status = "pending"
  IN
  /\ approver[a].pc = "post"
  /\ \/ /\ accepted /\ UNCHANGED faults
        /\ Record(r, IF lease = NoLease THEN "denied" ELSE "approved", lease)
        /\ approver' = [approver EXCEPT ![a] = [At("next") EXCEPT !.queue = approver[a].queue]]
     \/ ~accepted /\ Stop(a) /\ UNCHANGED <<store, faults>>
     \/ accepted /\ Fault /\ Stop(a) /\ UNCHANGED store
  /\ UNCHANGED <<up, sessions, yes, client, deadline, clock, crashes>>

-----------------------------------------------------------------------------
Return(r, outcome) == client' = [client EXCEPT ![r] = outcome]

\* A plausible bug: the payload is not compared with the request.
MatchesKey(r, lease) == lease.key = r

\* decryptLease succeeds and the payload is for the request's own scope and,
\* if it is a command request, for its command.
Matches(r, lease) ==
  /\ lease.key = r
  /\ lease.content.scope = store[r].content.scope
  /\ Kind(r) = "command" => lease.content.critical = store[r].content.critical

Done(r) == IF Kind(r) = "vault" THEN "fetched" ELSE "ran"

\* The round of runRemoteCommand or runVaultFetch that ends its loop: what it
\* read and the clock it compares that with are one step.  The instant of
\* expiry itself is in time.
Poll(r) ==
  /\ client[r] = "waiting"
  /\ \/ ~up /\ Return(r, "failed")
     \/ /\ up /\ store[r].status = "approved"
        /\ LET lease == store[r].lease IN
             Return(r, IF Matches(r, lease) /\ clock <= lease.expires THEN Done(r) ELSE "failed")
     \/ up /\ store[r].status = "denied" /\ Return(r, "denied")
     \/ up /\ store[r].status = "pending" /\ clock > deadline[r] /\ Return(r, "timed out")
  /\ UNCHANGED <<up, store, approver, sessions, yes, deadline, clock, faults, crashes>>

Crash ==
  /\ up /\ crashes < MaxCrashes
  /\ up' = FALSE /\ crashes' = crashes + 1
  /\ UNCHANGED <<store, approver, sessions, yes, client, deadline, clock, faults>>

Restart ==
  /\ ~up /\ up' = TRUE
  /\ UNCHANGED <<store, approver, sessions, yes, client, deadline, clock, faults, crashes>>

Tick ==
  /\ clock < MaxClock /\ clock' = clock + 1
  /\ UNCHANGED <<up, store, approver, sessions, yes, client, deadline, faults, crashes>>

Watch(a) == List(a) \/ Consider(a) \/ Prompt(a) \/ Resolve(a) \/ Post(a)

Next == \/ \E r \in Requests : Create(r) \/ LocalDecision(r) \/ UnsignedDecision(r) \/ Poll(r)
        \/ \E a \in Approvers : Watch(a) \/ OpenSession(a)
        \/ Crash \/ Restart \/ Tick

Spec == Init /\ [][Next]_vars

\* Approvers run on and their prompts are answered or time out, clients keep
\* polling, and time passes.
Fairness == /\ \A a \in Approvers : WF_vars(Watch(a))
            /\ \A r \in Requests : WF_vars(Poll(r))
            /\ WF_vars(Tick)

FairSpec == Spec /\ Fairness
-----------------------------------------------------------------------------
\* Every variable holds a value of its kind.
TypeOK ==
  /\ up \in BOOLEAN
  /\ store \in [Requests -> Stored]
  /\ approver \in [Approvers -> Approver]
  /\ sessions \subseteq Session
  /\ yes \subseteq Approvers \X Requests
  /\ client \in [Requests -> {"none", "waiting", "ran", "fetched", "denied", "timed out", "failed"}]
  /\ deadline \in [Requests -> Nat]
  /\ clock \in Nat /\ faults \in Nat /\ crashes \in Nat

\* A session of an approver's host that stands for the operator's consent to
\* a scope: opened by the yes to this host's prompt for a request of the very
\* scope that was not critical, or by one of its other commands for it.
SessionGround(a, s) ==
  \E g \in sessions :
    /\ g.host = a /\ g.scope = s /\ g.opener # "policy"
    /\ g.opener \in Requests =>
         /\ <<a, g.opener>> \in yes
         /\ store[g.opener].content = [scope |-> s, critical |-> FALSE]

\* An approver's approval has its grounds on the approver's own host, also
\* when its list is long outdated: a profile without approval, its operator's
\* yes to this request, or, unless the command is critical, a session of the
\* very scope.  The session may come from a yes to an earlier request, but
\* also from another command of that host, so from a session start or under
\* an auto-approve lease without any prompt.
ApprovedWithConsent ==
  \A r \in Requests :
    LET c == store[r].content
        p == Profile[c.scope]
        lease == store[r].lease
    IN
    store[r].status = "approved" /\ lease.by \in Approvers =>
      /\ p.accepted
      /\ \/ lease.basis = "policy" /\ ~p.requireApproval
         \/ lease.basis = "yes" /\ <<lease.by, r>> \in yes
         \/ lease.basis = "session" /\ ~c.critical /\ SessionGround(lease.by, c.scope)

\* "remote lease does not match requested capability": whatever decisions
\* reach the daemon, signed or not, a client only uses a lease made for its
\* own key, scope and command.
RunsOwnCapability ==
  \A r \in Requests :
    client[r] \in {"ran", "fetched"} =>
      /\ store[r].lease.key = r
      /\ store[r].lease.content.scope = store[r].content.scope
      /\ client[r] = "ran" => store[r].lease.content.critical = store[r].content.critical

\* What a client acted on stays the decision: no later decision turns a
\* denial into an approval or revokes what has been used.
OutcomeStands ==
  \A r \in Requests :
    /\ client[r] \in {"ran", "fetched"} => store[r].status = "approved"
    /\ client[r] = "denied" => store[r].status = "denied"

\* Clients use only leases made for them, and the store keeps what they used.
ClientsSound == TypeOK /\ RunsOwnCapability /\ OutcomeStands

Lifecycle == INSTANCE RequestLifecycle WITH
  Leases <- Lease, NoLease <- NoLease,
  status <- [r \in Requests |-> store[r].status],
  lease  <- [r \in Requests |-> store[r].lease]

\* Approvers with outdated lists, unsigned decisions and the local authority
\* together decide each request at most once.
ImplementsLifecycle == Lifecycle!Spec

\* Every client returns: with its command run, denied, timed out or failed.
ClientReturns == \A r \in Requests : client[r] = "waiting" ~> client[r] # "waiting"

\* Watching approvers decide every request, unless an error has stopped all
\* of them: one whose profile the approver rejects, or whose secrets cannot
\* be resolved, does not stay pending.
WatchDecides ==
  \A r \in Requests :
    store[r].status = "pending" ~> \/ store[r].status \in {"approved", "denied"}
                                   \/ \A a \in Approvers : approver[a].pc = "stopped"

\* Every request is decided and every client returns.
Progress == WatchDecides /\ ClientReturns
=============================================================================
