------------------------- MODULE RemoteApprovalProofs -------------------------
(***************************************************************************)
(* The invariants of RemoteApproval, and that it implements the lifecycle  *)
(* of a request, for every number of requests, approvers and scopes.       *)
(***************************************************************************)
EXTENDS RemoteApproval, TLAPS

Decided(r) == store[r].status \in {"approved", "denied"}

\* Why approver a may approve request r.
Grounds(a, r, basis) ==
  LET c == store[r].content
      p == Profile[c.scope]
  IN
  /\ p.accepted
  /\ \/ basis = "policy" /\ ~p.requireApproval
     \/ basis = "yes" /\ <<a, r>> \in yes
     \/ basis = "session" /\ ~c.critical /\ SessionGround(a, c.scope)

StoreOK(r) ==
  /\ store[r].status = "approved" => store[r].lease \in Lease
  /\ store[r].status # "approved" => store[r].lease = NoLease
  /\ store[r].status = "approved" /\ store[r].lease.by \in Approvers =>
       Grounds(store[r].lease.by, r, store[r].lease.basis)

\* The locals of an approver: its list holds requests that exist, and what it
\* is about to do with one has its grounds.
ApproverOK(a) ==
  LET r == approver[a].req
      lease == approver[a].lease
  IN
  /\ \A q \in approver[a].queue : store[q].status # "absent"
  /\ approver[a].pc \in {"prompt", "resolve", "post"} => store[r].status # "absent"
  /\ approver[a].pc \in {"prompt", "resolve"} => lease = NoLease
  /\ approver[a].pc = "prompt" => Profile[store[r].content.scope].accepted
  /\ approver[a].pc = "resolve" => Grounds(a, r, approver[a].basis)
  /\ approver[a].pc = "post" /\ lease # NoLease =>
       lease \in Lease /\ lease.by = a /\ Grounds(a, r, lease.basis)

\* A request's session comes from a yes to it, while it was not critical, and
\* policy opens one only where no approval is required.
SessionOK(g) ==
  /\ g.opener = "policy" => ~Profile[g.scope].requireApproval
  /\ g.opener \in Requests =>
       /\ <<g.host, g.opener>> \in yes
       /\ store[g.opener].content = [scope |-> g.scope, critical |-> FALSE]

YesOK == \A a \in Approvers, r \in Requests : <<a, r>> \in yes => store[r].status # "absent"

ClientOK(r) ==
  /\ client[r] \in {"ran", "fetched"} =>
       /\ store[r].status = "approved"
       /\ store[r].lease.key = r
       /\ store[r].lease.content.scope = store[r].content.scope
       /\ client[r] = "ran" => store[r].lease.content.critical = store[r].content.critical
  /\ client[r] = "denied" => store[r].status = "denied"

RInv ==
  /\ TypeOK /\ YesOK
  /\ \A r \in Requests : StoreOK(r) /\ ClientOK(r)
  /\ \A a \in Approvers : ApproverOK(a)
  /\ \A g \in sessions : SessionOK(g)

\* What no step undoes: a yes, a session, the content of a request that exists, and a
\* decision.
Steady ==
  /\ yes \subseteq yes' /\ sessions \subseteq sessions'
  /\ \A r \in Requests :
       /\ store[r].status # "absent" =>
            store'[r].status # "absent" /\ store'[r].content = store[r].content
       /\ Decided(r) => store'[r] = store[r]
-----------------------------------------------------------------------------
\* No lease is not a lease.
LEMMA NoLeaseIsNone == NoLease \notin Lease
<1> SUFFICES ASSUME NoLease \in Lease PROVE FALSE
    OBVIOUS
<1>1. "content" \in DOMAIN NoLease
      BY DEF Lease
<1>2. DOMAIN NoLease = {"key"}
      BY DEF NoLease
<1> QED BY <1>1, <1>2

\* The content of a request has its type.
LEMMA ContentType ==
  ASSUME TypeOK, NEW r \in Requests
  PROVE  /\ store[r] \in Stored /\ store[r].content \in Content
         /\ store[r].content.scope \in Scopes /\ store[r].content.critical \in BOOLEAN
         /\ Profile[store[r].content.scope] \in ProfileRecord
         /\ store[r].lease \in Lease \cup {NoLease} /\ store[r].status \in Statuses
BY RemoteApprovalAssumption DEF RemoteApprovalAssumption, TypeOK, Stored, Content

\* Instants are natural numbers.
LEMMA Instants ==
  ASSUME TypeOK
  PROVE  /\ clock \in Nat /\ clock + LeaseTTL \in Nat
         /\ clock + SessionTTL \in Nat /\ clock + Wait \in Nat
<1>1. clock \in Nat
      BY DEF TypeOK
<1>2. LeaseTTL \in Nat /\ SessionTTL \in Nat /\ Wait \in Nat
      BY RemoteApprovalAssumption DEF RemoteApprovalAssumption
<1> QED BY <1>1, <1>2

\* A session that stands for a consent goes on to.
LEMMA SessionGroundStays ==
  ASSUME Steady, YesOK, NEW a \in Approvers, NEW s, SessionGround(a, s)
  PROVE  SessionGround(a, s)'
<1>1. PICK g \in sessions :
        /\ g.host = a /\ g.scope = s /\ g.opener # "policy"
        /\ g.opener \in Requests =>
             /\ <<a, g.opener>> \in yes
             /\ store[g.opener].content = [scope |-> s, critical |-> FALSE]
      BY DEF SessionGround
<1>2. g \in sessions'
      BY DEF Steady
<1>3. g.opener \in Requests =>
        <<a, g.opener>> \in yes' /\ store'[g.opener].content = store[g.opener].content
      BY <1>1 DEF Steady, YesOK
<1> QED BY <1>1, <1>2, <1>3 DEF SessionGround

\* Grounds stay.
LEMMA GroundsStay ==
  ASSUME Steady, YesOK, NEW a \in Approvers, NEW r \in Requests, NEW basis,
         store[r].status # "absent", Grounds(a, r, basis)
  PROVE  Grounds(a, r, basis)'
<1>1. store'[r].content = store[r].content
      BY DEF Steady
<1>2. \A s : SessionGround(a, s) => SessionGround(a, s)'
      BY SessionGroundStays
<1> QED BY <1>1, <1>2 DEF Grounds, Steady

\* A session keeps its yes.
LEMMA SessionStays ==
  ASSUME Steady, YesOK, NEW g, g.host \in Approvers, SessionOK(g)
  PROVE  SessionOK(g)'
<1>1. g.opener \in Requests =>
        /\ <<g.host, g.opener>> \in yes'
        /\ store'[g.opener].content = store[g.opener].content
      BY DEF SessionOK, Steady, YesOK
<1> QED BY <1>1 DEF SessionOK

\* An approver that does not move stays right.
LEMMA ApproverStays ==
  ASSUME Steady, YesOK, TypeOK, NEW a \in Approvers, ApproverOK(a), approver'[a] = approver[a]
  PROVE  ApproverOK(a)'
<1>1. /\ approver[a].queue \subseteq Requests
      /\ approver[a].pc \in {"prompt", "resolve", "post"} => approver[a].req \in Requests
      BY DEF TypeOK, Approver
<1> DEFINE r == approver[a].req
           lease == approver[a].lease
<1>2. \A q \in approver[a].queue : store'[q].status # "absent"
      BY <1>1 DEF ApproverOK, Steady
<1>3. approver[a].pc \in {"prompt", "resolve", "post"} =>
        store'[r].status # "absent" /\ store'[r].content = store[r].content
      BY <1>1 DEF ApproverOK, Steady
<1>4. approver[a].pc = "resolve" => Grounds(a, r, approver[a].basis)'
      BY <1>1, GroundsStay DEF ApproverOK
<1>5. approver[a].pc = "post" /\ lease # NoLease => Grounds(a, r, lease.basis)'
      BY <1>1, GroundsStay DEF ApproverOK
<1> QED BY <1>2, <1>3, <1>4, <1>5 DEF ApproverOK

\* An entry that does not change stays right.
LEMMA StoreStays ==
  ASSUME Steady, YesOK, TypeOK, NEW r \in Requests, StoreOK(r), store'[r] = store[r]
  PROVE  StoreOK(r)'
<1>1. store[r].status = "approved" /\ store[r].lease.by \in Approvers =>
        Grounds(store[r].lease.by, r, store[r].lease.basis)'
      BY GroundsStay DEF StoreOK
<1> QED BY <1>1 DEF StoreOK

\* A client that does not move stays right.
LEMMA ClientStays ==
  ASSUME Steady, NEW r \in Requests, ClientOK(r), client'[r] = client[r]
  PROVE  ClientOK(r)'
BY DEF Steady, ClientOK, Decided

\* Initially there is no request.
LEMMA InitRInv == Init => RInv
<1> SUFFICES ASSUME Init PROVE RInv
    OBVIOUS
<1> USE RemoteApprovalAssumption DEF Init
<1>1. (CHOOSE s \in Scopes : TRUE) \in Scopes
      BY DEF RemoteApprovalAssumption
<1>2. TypeOK
  <2>1. At("idle") \in Approver
        BY DEF At, Approver
  <2>2. store \in [Requests -> Stored]
        BY <1>1 DEF Stored, Content, Statuses
  <2> QED BY <2>1, <2>2 DEF TypeOK
<1>3. YesOK /\ \A r \in Requests : StoreOK(r) /\ ClientOK(r)
      BY DEF YesOK, StoreOK, ClientOK
<1>4. \A a \in Approvers : ApproverOK(a)
      BY DEF ApproverOK, At
<1> QED BY <1>2, <1>3, <1>4 DEF RInv

\* A pending request that is decided on valid grounds.
LEMMA RecordStep ==
  ASSUME RInv, NEW r \in Requests, store[r].status = "pending", UNCHANGED <<yes, sessions>>,
         NEW status \in {"approved", "denied"}, NEW lease, Record(r, status, lease),
         status = "approved" => lease \in Lease,
         status = "denied" => lease = NoLease,
         status = "approved" /\ lease.by \in Approvers => Grounds(lease.by, r, lease.basis)
  PROVE  /\ Steady /\ store' \in [Requests -> Stored] /\ YesOK'
         /\ \A q \in Requests : StoreOK(q)'
<1>0. /\ TypeOK /\ YesOK /\ store \in [Requests -> Stored]
      /\ store[r] \in Stored /\ store[r].content \in Content
      BY ContentType DEF RInv, TypeOK
<1>1. /\ store' = [store EXCEPT ![r] = [store[r] EXCEPT !.status = status, !.lease = lease]]
      BY <1>0 DEF Record
<1>2. store'[r] = [store[r] EXCEPT !.status = status, !.lease = lease]
      BY <1>0, <1>1
<1>3. /\ store'[r].status = status /\ store'[r].lease = lease /\ store'[r].content = store[r].content
      /\ store'[r] \in Stored
      BY <1>0, <1>2 DEF Stored, Statuses
<1>4. \A q \in Requests \ {r} : store'[q] = store[q]
      BY <1>0, <1>1
<1>5. Steady
      BY <1>3, <1>4 DEF Steady, Decided
<1>6. store' \in [Requests -> Stored]
      BY <1>0, <1>1, <1>3
<1>7. YesOK'
      BY <1>0, <1>5 DEF YesOK, Steady
<1>8. StoreOK(r)'
  <2>1. status = "approved" /\ lease.by \in Approvers => Grounds(lease.by, r, lease.basis)'
        BY <1>0, <1>5, GroundsStay
  <2> QED BY <1>3, <2>1 DEF StoreOK
<1>9. \A q \in Requests : StoreOK(q)'
      BY <1>0, <1>4, <1>5, <1>8, StoreStays DEF RInv
<1> QED BY <1>5, <1>6, <1>7, <1>9

\* A step that touches neither a request, a yes nor a session.
LEMMA QuietStep ==
  ASSUME RInv, UNCHANGED <<store, yes, sessions>>
  PROVE  /\ Steady /\ YesOK' /\ \A r \in Requests : StoreOK(r)'
<1>1. Steady
      BY DEF Steady
<1>2. YesOK'
      BY DEF RInv, YesOK
<1> QED BY <1>1, <1>2, StoreStays DEF RInv

\* The sessions stay.
LEMMA SessionsStay ==
  ASSUME RInv, Steady, UNCHANGED sessions
  PROVE  \A g \in sessions' : SessionOK(g)'
<1> SUFFICES ASSUME NEW g \in sessions PROVE SessionOK(g)'
    OBVIOUS
<1>1. g.host \in Approvers /\ YesOK
      BY DEF RInv, TypeOK, Session
<1> QED BY <1>1, SessionStays DEF RInv

\* A step of the daemon, of a client or of time.
LEMMA DaemonStep ==
  ASSUME RInv, Steady, TypeOK', YesOK', UNCHANGED <<approver, sessions>>,
         \A r \in Requests : StoreOK(r)' /\ ClientOK(r)'
  PROVE  RInv'
<1>1. \A a \in Approvers : ApproverOK(a)'
      BY ApproverStays DEF RInv
<1> QED BY <1>1, SessionsStay DEF RInv

\* A step of an approver leaves the others right.
LEMMA ApproverStep ==
  ASSUME RInv, Steady, TypeOK', YesOK', UNCHANGED client,
         NEW a \in Approvers, ApproverOK(a)', \A b \in Approvers \ {a} : approver'[b] = approver[b],
         \A r \in Requests : StoreOK(r)',
         \A g \in sessions' : SessionOK(g)'
  PROVE  RInv'
<1>1. \A b \in Approvers : ApproverOK(b)'
      BY ApproverStays DEF RInv
<1>2. \A r \in Requests : ClientOK(r)'
      BY ClientStays DEF RInv
<1> QED BY <1>1, <1>2 DEF RInv
-----------------------------------------------------------------------------
\* A request is stored for the first time.
LEMMA CreateStep == ASSUME RInv, NEW r \in Requests, Create(r) PROVE RInv'
<1>0. TypeOK /\ YesOK /\ store \in [Requests -> Stored] /\ store[r] \in Stored
      BY DEF RInv, TypeOK
<1>1. PICK c \in Content : store' = [store EXCEPT ![r] = [store[r] EXCEPT !.status = "pending", !.content = c]]
      BY <1>0 DEF Create
<1>2. /\ store'[r] = [store[r] EXCEPT !.status = "pending", !.content = c]
      /\ \A q \in Requests \ {r} : store'[q] = store[q]
      BY <1>0, <1>1
<1>3. /\ store'[r].status = "pending" /\ store'[r].lease = store[r].lease /\ store'[r] \in Stored
      BY <1>0, <1>2 DEF Stored, Statuses
<1>4. store[r].status = "absent" /\ UNCHANGED <<up, approver, sessions, yes, clock, faults, crashes>>
      BY DEF Create
<1>5. Steady
      BY <1>2, <1>3, <1>4 DEF Steady, Decided
<1>6. YesOK'
      BY <1>0, <1>4, <1>5 DEF YesOK, Steady
<1>7. \A q \in Requests : StoreOK(q)'
  <2>1. StoreOK(r)'
        BY <1>3, <1>4 DEF RInv, StoreOK
  <2> QED BY <1>0, <1>2, <1>5, <2>1, StoreStays DEF RInv
<1>8. client' = [client EXCEPT ![r] = "waiting"] /\ deadline' = [deadline EXCEPT ![r] = clock + Wait]
      BY DEF Create
<1>9. \A q \in Requests : ClientOK(q)'
  <2>1. ClientOK(r)'
        BY <1>0, <1>8 DEF TypeOK, ClientOK
  <2>2. ASSUME NEW q \in Requests \ {r} PROVE client'[q] = client[q]
        BY <1>0, <1>8 DEF TypeOK
  <2> QED BY <1>5, <2>1, <2>2, ClientStays DEF RInv
<1>10. TypeOK'
  <2>1. store' \in [Requests -> Stored]
        BY <1>0, <1>1, <1>2, <1>3
  <2>2. deadline' \in [Requests -> Nat]
    <3>1. deadline \in [Requests -> Nat] /\ clock + Wait \in Nat
          BY <1>0, Instants DEF TypeOK
    <3> QED BY <1>8, <3>1
  <2>3. client' \in [Requests -> {"none", "waiting", "ran", "fetched", "denied", "timed out", "failed"}]
        BY <1>0, <1>8 DEF TypeOK
  <2> QED BY <1>0, <1>4, <2>1, <2>2, <2>3 DEF TypeOK
<1> QED BY <1>4, <1>5, <1>6, <1>7, <1>9, <1>10, DaemonStep

\* What a decision does that is none of an approver's.
LEMMA OtherDecision ==
  ASSUME RInv, NEW r \in Requests, store[r].status = "pending",
         NEW status \in {"approved", "denied"}, NEW lease, Record(r, status, lease),
         status = "approved" => lease \in Lease /\ lease.by \notin Approvers,
         status = "denied" => lease = NoLease,
         UNCHANGED <<up, approver, sessions, yes, client, deadline, clock, faults, crashes>>
  PROVE  RInv'
<1>1. /\ Steady /\ store' \in [Requests -> Stored] /\ YesOK'
      /\ \A q \in Requests : StoreOK(q)'
      BY RecordStep
<1>2. TypeOK'
      BY <1>1 DEF RInv, TypeOK
<1>3. \A q \in Requests : ClientOK(q)'
      BY <1>1, ClientStays DEF RInv
<1> QED BY <1>1, <1>2, <1>3, DaemonStep

\* The local authority's decision is one.
LEMMA LocalDecisionStep == ASSUME RInv, NEW r \in Requests, LocalDecision(r) PROVE RInv'
<1> DEFINE lease == [key |-> r, content |-> store[r].content,
                     value |-> Kind(r) = "vault", expires |-> clock + LeaseTTL,
                     by |-> "local", basis |-> "other"]
<1>1. lease \in Lease /\ lease.by \notin Approvers
  <2>1. clock + LeaseTTL \in Nat /\ store[r].content \in Content
        BY ContentType, Instants DEF RInv
  <2>2. (Kind(r) = "vault") \in BOOLEAN
        OBVIOUS
  <2> QED BY <2>1, <2>2, RemoteApprovalAssumption DEF RemoteApprovalAssumption, Lease
<1> HIDE DEF lease
<1>2. CASE Record(r, "approved", lease)
      BY <1>1, <1>2, OtherDecision DEF LocalDecision
<1>3. CASE Record(r, "denied", NoLease)
      BY <1>3, OtherDecision DEF LocalDecision
<1> QED BY <1>2, <1>3 DEF LocalDecision, lease

\* So is one that nobody signed.
LEMMA UnsignedDecisionStep == ASSUME RInv, NEW r \in Requests, UnsignedDecision(r) PROVE RInv'
<1>1. CASE Record(r, "denied", NoLease)
      BY <1>1, OtherDecision DEF UnsignedDecision
<1>2. ASSUME NEW q \in Requests, NEW c \in Content, NEW e \in {clock, clock + LeaseTTL},
             Record(r, "approved", [key |-> q, content |-> c, value |-> FALSE,
                                    expires |-> e, by |-> "anyone", basis |-> "other"])
      PROVE  RInv'
  <2> DEFINE lease == [key |-> q, content |-> c, value |-> FALSE,
                       expires |-> e, by |-> "anyone", basis |-> "other"]
  <2>1. e \in Nat
        BY Instants DEF RInv
  <2>2. lease \in Lease /\ lease.by \notin Approvers
        BY <2>1, RemoteApprovalAssumption DEF RemoteApprovalAssumption, Lease
  <2>3. Record(r, "approved", lease)
        BY <1>2
  <2> HIDE DEF lease
  <2> QED BY <2>2, <2>3, OtherDecision DEF UnsignedDecision
<1> QED BY <1>1, <1>2 DEF UnsignedDecision
-----------------------------------------------------------------------------
\* An approver that stops, or goes on with the same locals but those of a new
\* program counter, has its type.
LEMMA ApproverType ==
  ASSUME TypeOK, NEW a \in Approvers
  PROVE  /\ approver \in [Approvers -> Approver] /\ approver[a] \in Approver
         /\ approver[a].queue \subseteq Requests
         /\ \A pc \in {"idle", "next", "stopped"} : At(pc) \in Approver
         /\ approver[a].pc \in {"prompt", "resolve", "post"} => approver[a].req \in Requests
BY DEF TypeOK, Approver, At

\* An approver that stops is right.
LEMMA StopStep ==
  ASSUME RInv, NEW a \in Approvers, Stop(a), yes \subseteq yes',
         \A p \in yes' \ yes : p = <<a, approver[a].req>> /\ approver[a].pc = "prompt",
         UNCHANGED <<up, store, sessions, client, deadline, clock, crashes>>, faults' \in Nat
  PROVE  RInv'
<1>0. TypeOK /\ YesOK /\ ApproverOK(a)
      BY DEF RInv
<1>1. Steady
      BY DEF Steady
<1>2. \A p \in yes' \ yes : p \in Approvers \X Requests /\ store[p[2]].status # "absent"
      BY <1>0, ApproverType DEF ApproverOK
<1>3. YesOK'
  <2> SUFFICES ASSUME NEW b \in Approvers, NEW r \in Requests, <<b, r>> \in yes'
               PROVE  store[r].status # "absent"
      BY DEF YesOK
  <2>1. CASE <<b, r>> \in yes
        BY <1>0, <2>1 DEF YesOK
  <2>2. CASE <<b, r>> \in yes' \ yes
        BY <1>2, <2>2
  <2> QED BY <2>1, <2>2
<1>4. approver'[a] = At("stopped") /\ approver' \in [Approvers -> Approver]
      /\ \A b \in Approvers \ {a} : approver'[b] = approver[b]
      BY <1>0, ApproverType DEF Stop
<1>5. TypeOK'
      BY <1>0, <1>2, <1>4 DEF TypeOK
<1>6. ApproverOK(a)'
      BY <1>4 DEF ApproverOK, At
<1>7. \A r \in Requests : StoreOK(r)'
      BY <1>0, <1>1, StoreStays DEF RInv
<1>8. \A g \in sessions' : SessionOK(g)'
      BY <1>1, SessionsStay
<1> QED BY <1>1, <1>3, <1>4, <1>5, <1>6, <1>7, <1>8, ApproverStep

\* A step of an approver that touches nothing but itself.
LEMMA OwnStep ==
  ASSUME RInv, NEW a \in Approvers, NEW new \in Approver, approver' = [approver EXCEPT ![a] = new],
         UNCHANGED <<up, store, sessions, yes, client, deadline, clock, crashes>>, faults' \in Nat,
         ApproverOK(a)'
  PROVE  RInv'
<1>1. /\ Steady /\ YesOK' /\ \A r \in Requests : StoreOK(r)'
      BY QuietStep
<1>2. \A b \in Approvers \ {a} : approver'[b] = approver[b]
      BY ApproverType DEF RInv
<1>3. TypeOK'
      BY ApproverType DEF RInv, TypeOK
<1>4. \A g \in sessions' : SessionOK(g)'
      BY <1>1, SessionsStay
<1> QED BY <1>1, <1>2, <1>3, <1>4, ApproverStep

\* The list has requests that exist.
LEMMA ListStep == ASSUME RInv, NEW a \in Approvers, List(a) PROVE RInv'
<1>0. faults' \in Nat /\ UNCHANGED <<up, store, sessions, yes, client, deadline, clock, crashes>>
      BY DEF RInv, TypeOK, List
<1>1. CASE ~up /\ Stop(a)
      BY <1>0, <1>1, StopStep
<1>2. CASE approver' = [approver EXCEPT ![a] = [At("next") EXCEPT !.queue = Pending]]
  <2> DEFINE new == [At("next") EXCEPT !.queue = Pending]
  <2>1. new \in Approver /\ new.queue = Pending /\ new.pc = "next"
        BY DEF At, Approver, Pending
  <2>2. approver'[a] = new
        BY <1>2, ApproverType DEF RInv
  <2>3. \A q \in Pending : store'[q].status # "absent"
        BY <1>0 DEF Pending
  <2>4. ApproverOK(a)'
        BY <2>1, <2>2, <2>3 DEF ApproverOK
  <2> HIDE DEF new
  <2>5. approver' = [approver EXCEPT ![a] = new]
        BY <1>2 DEF new
  <2> QED BY <1>0, <2>1, <2>4, <2>5, OwnStep
<1> QED BY <1>1, <1>2 DEF List

\* The next decision of an approver has the grounds of where it goes.
LEMMA TakeStep ==
  ASSUME RInv, NEW a \in Approvers, NEW r \in approver[a].queue,
         NEW pc \in {"prompt", "resolve", "post"}, NEW basis \in {"policy", "session", "yes", "other"},
         Take(a, r, pc, basis),
         UNCHANGED <<up, store, sessions, yes, client, deadline, clock, crashes>>, faults' \in Nat,
         pc = "prompt" => Profile[store[r].content.scope].accepted,
         pc = "resolve" => Grounds(a, r, basis)
  PROVE  RInv'
<1> DEFINE new == [At(pc) EXCEPT !.queue = approver[a].queue \ {r}, !.req = r, !.basis = basis]
<1>0. /\ approver \in [Approvers -> Approver] /\ approver[a].queue \subseteq Requests /\ ApproverOK(a)
      BY ApproverType DEF RInv
<1>1. /\ new \in Approver /\ new.pc = pc /\ new.queue = approver[a].queue \ {r} /\ new.req = r
      /\ new.basis = basis /\ new.lease = NoLease
      BY <1>0 DEF At, Approver
<1>2. approver' = [approver EXCEPT ![a] = new]
      BY DEF Take
<1> HIDE DEF new
<1>3. approver'[a] = new
      BY <1>0, <1>2
<1>4. \A q \in approver[a].queue : store'[q].status # "absent"
      BY <1>0 DEF ApproverOK
<1>5. pc = "resolve" => Grounds(a, r, basis)'
      BY DEF Grounds, SessionGround
<1>6. ApproverOK(a)'
      BY <1>0, <1>1, <1>3, <1>4, <1>5 DEF ApproverOK
<1> QED BY <1>1, <1>2, <1>6, OwnStep

\* A fault is counted.
LEMMA FaultStep == ASSUME TypeOK, Fault PROVE faults' \in Nat
<1>1. faults \in Nat
      BY DEF TypeOK
<1> QED BY <1>1 DEF Fault

\* The policy and the sessions an approver looks at are the grounds of what it
\* goes on to do.
LEMMA ConsiderStep == ASSUME RInv, NEW a \in Approvers, Consider(a) PROVE RInv'
<1>0. /\ UNCHANGED <<up, store, sessions, yes, client, deadline, clock, crashes>>
      /\ TypeOK /\ ApproverOK(a) /\ approver[a].pc = "next" /\ faults \in Nat
      BY DEF RInv, Consider, TypeOK
<1>1. CASE approver[a].queue = {} /\ Goto(a, "idle") /\ UNCHANGED faults
  <2> DEFINE new == [approver[a] EXCEPT !.pc = "idle"]
  <2>1. new \in Approver /\ new.pc = "idle" /\ new.queue = {}
        BY <1>0, <1>1, ApproverType DEF Approver
  <2>2. approver' = [approver EXCEPT ![a] = new]
        BY <1>0, <1>1, ApproverType DEF Goto
  <2> HIDE DEF new
  <2>3. approver'[a] = new
        BY <1>0, <2>2, ApproverType
  <2>4. ApproverOK(a)'
        BY <2>1, <2>3 DEF ApproverOK
  <2> QED BY <1>0, <1>1, <2>1, <2>2, <2>4, OwnStep
<1>2. ASSUME NEW r \in approver[a].queue,
             LET c == store[r].content
                 p == Profile[c.scope]
                 session == ~c.critical /\ HasSession(a, c.scope)
             IN
             \/ ~p.accepted /\ Take(a, r, "post", "other") /\ UNCHANGED faults
             \/ p.accepted /\ ~p.requireApproval /\ Take(a, r, "resolve", "policy") /\ UNCHANGED faults
             \/ /\ p.accepted /\ p.requireApproval /\ UNCHANGED faults
                /\ \/ session /\ Take(a, r, "resolve", "session")
                   \/ Take(a, r, "prompt", "other")
             \/ p.accepted /\ p.requireApproval /\ ~c.critical /\ Fault /\ Stop(a)
      PROVE  RInv'
  <2> DEFINE c == store[r].content
             p == Profile[c.scope]
  <2>0. r \in Requests
        BY <1>0, ApproverType
  <2>1. CASE ~p.accepted /\ Take(a, r, "post", "other") /\ UNCHANGED faults
        BY <1>0, <2>1, TakeStep
  <2>2. CASE p.accepted /\ ~p.requireApproval /\ Take(a, r, "resolve", "policy") /\ UNCHANGED faults
    <3>1. Grounds(a, r, "policy")
          BY <2>2 DEF Grounds
    <3> QED BY <1>0, <2>2, <3>1, TakeStep
  <2>3. CASE /\ p.accepted /\ p.requireApproval /\ ~c.critical /\ HasSession(a, c.scope)
             /\ Take(a, r, "resolve", "session") /\ UNCHANGED faults
    <3>1. PICK g \in sessions : g.host = a /\ g.scope = c.scope
          BY <2>3 DEF HasSession
    <3>2. SessionOK(g)
          BY DEF RInv
    <3>3. SessionGround(a, c.scope)
          BY <2>3, <3>1, <3>2 DEF SessionGround, SessionOK
    <3>4. Grounds(a, r, "session")
          BY <2>3, <3>3 DEF Grounds
    <3> QED BY <1>0, <2>3, <3>4, TakeStep
  <2>4. CASE p.accepted /\ Take(a, r, "prompt", "other") /\ UNCHANGED faults
        BY <1>0, <2>4, TakeStep
  <2>5. CASE Fault /\ Stop(a)
        BY <1>0, <2>5, FaultStep, StopStep
  <2> QED BY <1>2, <2>1, <2>2, <2>3, <2>4, <2>5
<1> QED BY <1>1, <1>2 DEF Consider

\* A yes is the ground of the approval and of the session it opens.
LEMMA PromptStep == ASSUME RInv, NEW a \in Approvers, Prompt(a) PROVE RInv'
<1>r. PICK r : r = approver[a].req
      OBVIOUS
<1> DEFINE c == store[r].content
<1>0. /\ UNCHANGED <<up, store, client, deadline, clock, crashes>>
      /\ TypeOK /\ YesOK /\ ApproverOK(a) /\ approver[a].pc = "prompt" /\ faults \in Nat
      /\ r \in Requests /\ store[r].status # "absent" /\ Profile[c.scope].accepted
      /\ approver[a].queue \subseteq Requests /\ approver[a].lease = NoLease
      BY <1>r, ApproverType DEF RInv, Prompt, TypeOK, ApproverOK
<1>1. CASE /\ yes' = yes \cup {<<a, r>>} /\ UNCHANGED faults
           /\ approver' = [approver EXCEPT ![a].pc = "resolve", ![a].basis = "yes"]
           /\ sessions' = IF c.critical THEN sessions
                          ELSE sessions \cup {[host |-> a, scope |-> c.scope, expires |-> clock + SessionTTL, opener |-> r]}
  <2>g. PICK g : g = [host |-> a, scope |-> c.scope, expires |-> clock + SessionTTL, opener |-> r]
        OBVIOUS
  <2> DEFINE new == [approver[a] EXCEPT !.pc = "resolve", !.basis = "yes"]
  <2>1. Steady
        BY <1>0, <1>1 DEF Steady
  <2>2. YesOK'
        BY <1>0, <1>1 DEF YesOK
  <2>3. /\ new \in Approver /\ new.pc = "resolve" /\ new.basis = "yes" /\ new.req = r
        /\ new.queue = approver[a].queue /\ new.lease = NoLease
    <3>1. approver[a] \in Approver /\ approver[a].req \in Requests
          BY <1>r, <1>0, ApproverType
    <3>2. new \in Approver
          BY <3>1 DEF Approver
    <3>3. /\ new.pc = "resolve" /\ new.basis = "yes" /\ new.req = approver[a].req
          /\ new.queue = approver[a].queue /\ new.lease = approver[a].lease
          BY <3>1 DEF Approver
    <3> QED BY <1>0, <1>r, <3>2, <3>3
  <2>4. approver' = [approver EXCEPT ![a] = new]
        BY <1>0, <1>1, ApproverType
  <2>5. g \in Session
        BY <1>0, <2>g, ContentType, Instants DEF Session
  <2>6. SessionOK(g)' \/ c.critical
    <3>1. <<a, r>> \in yes' /\ store' = store /\ r \in Requests
          BY <1>0, <1>1
    <3>2. g.host = a /\ g.scope = store[r].content.scope /\ g.opener = r
          BY <2>g
    <3>3. c \in Content
          BY <1>0, ContentType
    <3>4. ~c.critical => c = [scope |-> c.scope, critical |-> FALSE]
          BY <3>3 DEF Content
    <3>5. r # "policy"
          BY <3>1, RemoteApprovalAssumption DEF RemoteApprovalAssumption
    <3> QED BY <3>1, <3>2, <3>4, <3>5 DEF SessionOK
  <2>7. \A h \in sessions : SessionOK(h)'
    <3> SUFFICES ASSUME NEW h \in sessions PROVE SessionOK(h)'
        OBVIOUS
    <3>1. h.host \in Approvers /\ SessionOK(h)
          BY DEF RInv, TypeOK, Session
    <3> QED BY <1>0, <2>1, <3>1, SessionStays
  <2> HIDE DEF new
  <2>8. approver'[a] = new /\ \A b \in Approvers \ {a} : approver'[b] = approver[b]
        BY <1>0, <2>4, ApproverType
  <2>9. Grounds(a, r, "yes")'
    <3>1. <<a, r>> \in yes' /\ store' = store /\ Profile[store[r].content.scope].accepted
          BY <1>0, <1>1
    <3> QED BY <3>1 DEF Grounds
  <2>10. ApproverOK(a)'
        BY <1>0, <2>3, <2>8, <2>9 DEF ApproverOK
  <2>11. yes' \subseteq Approvers \X Requests
    <3>1. yes \subseteq Approvers \X Requests /\ <<a, r>> \in Approvers \X Requests
          BY <1>0 DEF TypeOK
    <3>2. yes' = yes \cup {<<a, r>>}
          BY <1>1
    <3> QED BY <3>1, <3>2
  <2>12. sessions' \subseteq Session /\ \A h \in sessions' : SessionOK(h)'
    <3>1. CASE c.critical
          BY <1>0, <1>1, <2>7, <3>1 DEF TypeOK
    <3>2. CASE ~c.critical
      <4>1. sessions' = sessions \cup {g}
            BY <1>1, <2>g, <3>2
      <4>2. sessions \subseteq Session
            BY <1>0 DEF TypeOK
      <4>3. SessionOK(g)'
            BY <2>6, <3>2
      <4> QED BY <2>5, <2>7, <4>1, <4>2, <4>3
    <3> QED BY <3>1, <3>2
  <2>13. TypeOK'
    <3>1. approver' \in [Approvers -> Approver]
          BY <1>0, <2>3, <2>4, ApproverType
    <3> QED BY <1>0, <1>1, <2>11, <2>12, <3>1 DEF TypeOK
  <2>14. \A q \in Requests : StoreOK(q)'
        BY <1>0, <2>1, StoreStays DEF RInv
  <2> QED BY <1>0, <2>1, <2>2, <2>8, <2>10, <2>12, <2>13, <2>14, ApproverStep
<1>2. CASE Goto(a, "post") /\ UNCHANGED <<yes, sessions, faults>>
  <2> DEFINE new == [approver[a] EXCEPT !.pc = "post"]
  <2>1. /\ new \in Approver /\ new.pc = "post" /\ new.req = r
        /\ new.queue = approver[a].queue /\ new.lease = NoLease
        BY <1>r, <1>0, ApproverType DEF Approver
  <2>2. approver' = [approver EXCEPT ![a] = new]
        BY <1>0, <1>2, ApproverType DEF Goto
  <2> HIDE DEF new
  <2>3. approver'[a] = new
        BY <1>0, <2>2, ApproverType
  <2>4. ApproverOK(a)'
        BY <1>0, <2>1, <2>3 DEF ApproverOK
  <2> QED BY <1>0, <1>2, <2>1, <2>2, <2>4, OwnStep
<1>3. CASE Fault /\ Stop(a) /\ UNCHANGED <<yes, sessions>>
      BY <1>0, <1>3, FaultStep, StopStep
<1>4. CASE Fault /\ Stop(a) /\ yes' = yes \cup {<<a, r>>} /\ UNCHANGED sessions
      BY <1>r, <1>0, <1>4, FaultStep, StopStep
<1> QED BY <1>r, <1>1, <1>2, <1>3, <1>4 DEF Prompt

\* The lease an approver makes carries its grounds.
LEMMA ResolveStep == ASSUME RInv, NEW a \in Approvers, Resolve(a) PROVE RInv'
<1>r. PICK r : r = approver[a].req
      OBVIOUS
<1>0. /\ UNCHANGED <<up, store, sessions, yes, client, deadline, clock, faults, crashes>>
      /\ TypeOK /\ ApproverOK(a) /\ approver[a].pc = "resolve" /\ faults \in Nat
      /\ r \in Requests /\ store[r].status # "absent" /\ Grounds(a, r, approver[a].basis)
      /\ approver[a].queue \subseteq Requests /\ approver[a].lease = NoLease
      /\ approver[a].basis \in {"policy", "session", "yes", "other"}
      BY <1>r, ApproverType DEF RInv, Resolve, TypeOK, ApproverOK, Approver
<1>1. ASSUME NEW new \in Approver, approver' = [approver EXCEPT ![a] = new],
             new.pc = "post", new.req = r, new.queue = approver[a].queue,
             new.lease # NoLease =>
               new.lease \in Lease /\ new.lease.by = a /\ new.lease.basis = approver[a].basis
      PROVE  RInv'
  <2>1. approver'[a] = new
        BY <1>0, <1>1, ApproverType
  <2>2. new.lease # NoLease => Grounds(a, r, new.lease.basis)'
        BY <1>0, <1>1 DEF Grounds, SessionGround
  <2>3. ApproverOK(a)'
        BY <1>0, <1>1, <2>1, <2>2 DEF ApproverOK
  <2> QED BY <1>0, <1>1, <2>3, OwnStep
<1>2. CASE Goto(a, "post")
  <2>n. PICK new : new = [approver[a] EXCEPT !.pc = "post"]
        OBVIOUS
  <2>1. /\ new \in Approver /\ new.pc = "post" /\ new.req = r
        /\ new.queue = approver[a].queue /\ new.lease = NoLease
        BY <2>n, <1>r, <1>0, ApproverType DEF Approver
  <2>2. approver' = [approver EXCEPT ![a] = new]
        BY <2>n, <1>0, <1>2, ApproverType DEF Goto
  <2> QED BY <1>1, <2>1, <2>2
<1>3. CASE approver' = [approver EXCEPT
          ![a].pc = "post",
          ![a].lease = [key |-> approver[a].req, content |-> store[approver[a].req].content,
                        value |-> FALSE, expires |-> clock + LeaseTTL,
                        by |-> a, basis |-> approver[a].basis]]
  <2>l. PICK lease : lease = [key |-> r, content |-> store[r].content, value |-> FALSE,
                              expires |-> clock + LeaseTTL, by |-> a, basis |-> approver[a].basis]
        OBVIOUS
  <2>n. PICK new : new = [approver[a] EXCEPT !.pc = "post", !.lease = lease]
        OBVIOUS
  <2>1. lease \in Lease /\ lease.by = a /\ lease.basis = approver[a].basis
        BY <2>l, <1>0, ContentType, Instants DEF Lease
  <2>2. /\ new \in Approver /\ new.pc = "post" /\ new.req = r
        /\ new.queue = approver[a].queue /\ new.lease = lease
    <3>1. approver[a] \in Approver /\ lease \in Lease \cup {NoLease}
          BY <1>0, <2>1, ApproverType
    <3>2. /\ new.pc = "post" /\ new.req = r
          /\ new.queue = approver[a].queue /\ new.lease = lease
          BY <2>n, <3>1, <1>r DEF Approver
    <3>3. new \in Approver
          BY <2>n, <3>1, <3>2, <1>r, <1>0 DEF Approver
    <3> QED BY <3>2, <3>3
  <2>3. approver' = [approver EXCEPT ![a] = new]
        BY <2>l, <2>n, <1>r, <1>0, <1>3, ApproverType
  <2> QED BY <1>1, <2>1, <2>2, <2>3
<1> QED BY <1>2, <1>3 DEF Resolve

\* A posted approval is the one that has the grounds.
LEMMA PostStep == ASSUME RInv, NEW a \in Approvers, Post(a) PROVE RInv'
<1> DEFINE r == approver[a].req
           lease == approver[a].lease
           new == [At("next") EXCEPT !.queue = approver[a].queue]
<1>0. /\ UNCHANGED <<up, sessions, yes, client, deadline, clock, crashes>>
      /\ TypeOK /\ ApproverOK(a) /\ approver[a].pc = "post" /\ faults \in Nat
      /\ r \in Requests /\ approver[a].queue \subseteq Requests /\ lease \in Lease \cup {NoLease}
      BY ApproverType DEF RInv, Post, TypeOK, Approver
<1>1. CASE Stop(a) /\ UNCHANGED store /\ (UNCHANGED faults \/ Fault)
      BY <1>0, <1>1, FaultStep, StopStep
<1>2. CASE /\ store[r].status = "pending" /\ UNCHANGED faults
           /\ Record(r, IF lease = NoLease THEN "denied" ELSE "approved", lease)
           /\ approver' = [approver EXCEPT ![a] = new]
  <2>1. lease # NoLease => lease \in Lease /\ lease.by = a /\ Grounds(a, r, lease.basis)
        BY <1>0 DEF ApproverOK
  <2>2. /\ Steady /\ store' \in [Requests -> Stored] /\ YesOK'
        /\ \A q \in Requests : StoreOK(q)'
    <3>1. CASE lease = NoLease
          BY <1>0, <1>2, <3>1, RecordStep
    <3>2. CASE lease # NoLease
          BY <1>0, <1>2, <2>1, <3>2, RecordStep
    <3> QED BY <3>1, <3>2
  <2>3. new \in Approver /\ new.pc = "next" /\ new.queue = approver[a].queue
        BY <1>0 DEF At, Approver
  <2> HIDE DEF new
  <2>4. approver'[a] = new /\ \A b \in Approvers \ {a} : approver'[b] = approver[b]
        BY <1>0, <1>2, ApproverType
  <2>5. \A q \in approver[a].queue : store'[q].status # "absent"
        BY <1>0, <2>2 DEF ApproverOK, Steady
  <2>6. ApproverOK(a)'
        BY <2>3, <2>4, <2>5 DEF ApproverOK
  <2>7. TypeOK'
    <3>1. approver' \in [Approvers -> Approver]
          BY <1>0, <1>2, <2>3, ApproverType
    <3> QED BY <1>0, <1>2, <2>2, <3>1 DEF TypeOK
  <2>8. \A g \in sessions' : SessionOK(g)'
        BY <1>0, <2>2, SessionsStay
  <2> QED BY <1>0, <2>2, <2>4, <2>6, <2>7, <2>8, ApproverStep
<1> QED BY <1>1, <1>2 DEF Post
-----------------------------------------------------------------------------
\* Other commands of an approver's host open sessions of theirs.
LEMMA OpenSessionStep == ASSUME RInv, NEW a \in Approvers, OpenSession(a) PROVE RInv'
<1>0. /\ UNCHANGED <<up, store, approver, yes, client, deadline, clock, faults, crashes>>
      /\ TypeOK /\ YesOK /\ clock \in Nat
      BY DEF RInv, OpenSession, TypeOK
<1>1. PICK s \in Scopes, by \in HostOpeners, t \in 1..SessionTTL :
        /\ by # "start" => (by = "policy" <=> ~Profile[s].requireApproval)
        /\ sessions' = sessions \cup {[host |-> a, scope |-> s, expires |-> clock + t, opener |-> by]}
      BY DEF OpenSession
<1>2. PICK g : g = [host |-> a, scope |-> s, expires |-> clock + t, opener |-> by]
      OBVIOUS
<1>3. g \in Session /\ g.scope = s /\ g.opener = by
  <2>1. clock + t \in Nat
        BY <1>0, RemoteApprovalAssumption DEF RemoteApprovalAssumption
  <2> QED BY <1>2, <2>1 DEF Session
<1>4. by \notin Requests
      BY RemoteApprovalAssumption DEF RemoteApprovalAssumption, HostOpeners
<1>5. SessionOK(g)'
      BY <1>1, <1>3, <1>4 DEF SessionOK
<1>6. Steady
      BY <1>0, <1>1 DEF Steady
<1>7. \A h \in sessions' : SessionOK(h)'
  <2>1. ASSUME NEW h \in sessions PROVE SessionOK(h)'
    <3>1. h.host \in Approvers /\ SessionOK(h)
          BY DEF RInv, TypeOK, Session
    <3> QED BY <1>0, <1>6, <3>1, SessionStays
  <2> QED BY <1>1, <1>2, <1>5, <2>1
<1>8. TypeOK'
      BY <1>0, <1>1, <1>2, <1>3 DEF TypeOK
<1>9. YesOK' /\ \A r \in Requests : StoreOK(r)' /\ ClientOK(r)'
      BY <1>0, <1>6, StoreStays, ClientStays DEF RInv, YesOK
<1>10. \A b \in Approvers : ApproverOK(b)'
      BY <1>0, <1>6, ApproverStays DEF RInv
<1> QED BY <1>7, <1>8, <1>9, <1>10 DEF RInv

\* A client runs or fetches only what matches its request.
LEMMA PollStep == ASSUME RInv, NEW r \in Requests, Poll(r) PROVE RInv'
<1>0. /\ UNCHANGED <<up, store, approver, sessions, yes, deadline, clock, faults, crashes>>
      /\ TypeOK /\ client \in [Requests -> {"none", "waiting", "ran", "fetched", "denied", "timed out", "failed"}]
      /\ client[r] = "waiting"
      BY DEF RInv, TypeOK, Poll
<1>1. /\ Steady /\ YesOK' /\ \A q \in Requests : StoreOK(q)'
      BY <1>0, QuietStep
<1>2. PICK outcome : /\ client' = [client EXCEPT ![r] = outcome]
                     /\ \/ outcome \in {"failed", "timed out"}
                        \/ store[r].status = "denied" /\ outcome = "denied"
                        \/ /\ store[r].status = "approved" /\ outcome = Done(r)
                           /\ Matches(r, store[r].lease)
      BY DEF Poll, Return
<1>3. client'[r] = outcome /\ \A q \in Requests \ {r} : client'[q] = client[q]
      BY <1>0, <1>2
<1>4. Done(r) \in {"ran", "fetched"} /\ (Done(r) = "ran" => Kind(r) = "command")
      BY <1>0, ContentType DEF Done, Kind, ProfileRecord
<1>5. ClientOK(r)'
  <2>1. CASE outcome \in {"failed", "timed out"}
        BY <1>3, <2>1 DEF ClientOK
  <2>2. CASE store[r].status = "denied" /\ outcome = "denied"
        BY <1>0, <1>3, <2>2 DEF ClientOK
  <2>3. CASE store[r].status = "approved" /\ outcome = Done(r) /\ Matches(r, store[r].lease)
        BY <1>0, <1>3, <1>4, <2>3 DEF ClientOK, Matches
  <2> QED BY <1>2, <2>1, <2>2, <2>3
<1>6. \A q \in Requests : ClientOK(q)'
      BY <1>1, <1>3, <1>5, ClientStays DEF RInv
<1>7. TypeOK'
  <2>1. outcome \in {"none", "waiting", "ran", "fetched", "denied", "timed out", "failed"}
        BY <1>2, <1>4
  <2>2. client' \in [Requests -> {"none", "waiting", "ran", "fetched", "denied", "timed out", "failed"}]
        BY <1>0, <1>2, <2>1
  <2> QED BY <1>0, <2>2 DEF TypeOK
<1> QED BY <1>0, <1>1, <1>6, <1>7, DaemonStep

\* Crashes, restarts and time change nothing that is kept.
LEMMA EnvironmentStep == ASSUME RInv, Crash \/ Restart \/ Tick \/ UNCHANGED vars PROVE RInv'
<1>1. UNCHANGED <<store, approver, sessions, yes, client, deadline, faults>>
      BY DEF Crash, Restart, Tick, vars
<1>2. /\ Steady /\ YesOK' /\ \A q \in Requests : StoreOK(q)'
      BY <1>1, QuietStep
<1>3. \A q \in Requests : ClientOK(q)'
      BY <1>1, <1>2, ClientStays DEF RInv
<1>4. up' \in BOOLEAN /\ clock' \in Nat /\ crashes' \in Nat
  <2>1. up \in BOOLEAN /\ clock \in Nat /\ crashes \in Nat
        BY DEF RInv, TypeOK
  <2>2. CASE Crash
    <3>1. crashes' = crashes + 1 /\ up' = FALSE /\ clock' = clock
          BY <2>2 DEF Crash
    <3>2. crashes' \in Nat
          BY <2>1, <3>1
    <3> QED BY <2>1, <3>1, <3>2
  <2>3. CASE Restart
        BY <2>1, <2>3 DEF Restart
  <2>4. CASE Tick
        BY <2>1, <2>4 DEF Tick
  <2>5. CASE UNCHANGED vars
        BY <2>1, <2>5 DEF vars
  <2> QED BY <2>2, <2>3, <2>4, <2>5
<1>5. TypeOK'
      BY <1>1, <1>4 DEF RInv, TypeOK
<1> QED BY <1>1, <1>2, <1>3, <1>5, DaemonStep

\* The invariant, whoever decides and however old the lists are.
THEOREM RemoteInvariant == Spec => []RInv
<1>1. RInv /\ [Next]_vars => RInv'
      BY CreateStep, LocalDecisionStep, UnsignedDecisionStep, PollStep, ListStep, ConsiderStep,
         PromptStep, ResolveStep, PostStep, OpenSessionStep, EnvironmentStep DEF Next, Watch
<1> QED BY InitRInv, <1>1, PTL DEF Spec
-----------------------------------------------------------------------------
\* Type correctness.
THEOREM RemoteTypeCorrect == Spec => []TypeOK
<1>1. RInv => TypeOK
      BY DEF RInv
<1> QED BY <1>1, RemoteInvariant, PTL

\* Every approval of an approver has its grounds on its own host
\* (remote_approve.go:52-126).
THEOREM AlwaysWithConsent == Spec => []ApprovedWithConsent
<1>1. RInv => ApprovedWithConsent
      BY DEF RInv, StoreOK, Grounds, ApprovedWithConsent
<1> QED BY <1>1, RemoteInvariant, PTL

\* A client uses only a lease for its own key, scope and command
\* (remote_run.go:46-84).
THEOREM OnlyOwnCapability == Spec => []RunsOwnCapability
<1>1. RInv => RunsOwnCapability
      BY DEF RInv, ClientOK, RunsOwnCapability
<1> QED BY <1>1, RemoteInvariant, PTL

\* What a client acted on stays the decision (remote_server.go:295-352).
THEOREM OutcomesStand == Spec => []OutcomeStands
<1>1. RInv => OutcomeStands
      BY DEF RInv, ClientOK, OutcomeStands
<1> QED BY <1>1, RemoteInvariant, PTL
-----------------------------------------------------------------------------
\* A decision recorded for a pending request is a step of the lifecycle.
LEMMA RecordRefines ==
  ASSUME RInv, NEW r \in Requests, store[r].status = "pending",
         NEW status \in {"approved", "denied"}, NEW lease, Record(r, status, lease),
         status = "approved" => lease \in Lease,
         status = "denied" => lease = NoLease
  PROVE  Lifecycle!Next
<1>0. store \in [Requests -> Stored] /\ store[r] \in Stored /\ store[r].lease = NoLease
      BY DEF RInv, TypeOK, StoreOK
<1>1. /\ store' = [store EXCEPT ![r] = [store[r] EXCEPT !.status = status, !.lease = lease]]
      BY <1>0 DEF Record
<1>2. store'[r] = [store[r] EXCEPT !.status = status, !.lease = lease]
      BY <1>0, <1>1
<1>3. /\ store'[r].status = status /\ store'[r].lease = lease
      /\ \A q \in Requests \ {r} : store'[q] = store[q]
      BY <1>0, <1>1, <1>2 DEF Stored
<1>4. CASE status = "approved"
  <2>1. Lifecycle!Grant(r)
        BY <1>3, <1>4 DEF Lifecycle!Grant
  <2> QED BY <2>1 DEF Lifecycle!Next
<1>5. CASE status = "denied"
  <2>1. Lifecycle!Refuse(r)
        BY <1>0, <1>3, <1>5 DEF Lifecycle!Refuse
  <2> QED BY <2>1 DEF Lifecycle!Next
<1> QED BY <1>4, <1>5

\* A stored request is a step of the lifecycle.
LEMMA CreateRefines == ASSUME RInv, NEW r \in Requests, Create(r) PROVE Lifecycle!Next
<1>0. store \in [Requests -> Stored] /\ store[r] \in Stored /\ store[r].status = "absent"
      BY DEF RInv, TypeOK, Create
<1>1. PICK c \in Content : store' = [store EXCEPT ![r] = [store[r] EXCEPT !.status = "pending", !.content = c]]
      BY <1>0 DEF Create
<1>2. store'[r] = [store[r] EXCEPT !.status = "pending", !.content = c]
      BY <1>0, <1>1
<1>3. /\ store'[r].status = "pending" /\ store'[r].lease = store[r].lease
      /\ \A q \in Requests \ {r} : store'[q] = store[q]
      BY <1>0, <1>1, <1>2 DEF Stored
<1>4. Lifecycle!Submit(r)
      BY <1>0, <1>3 DEF Lifecycle!Submit
<1> QED BY <1>4 DEF Lifecycle!Next

\* Every step is one of the lifecycle or changes no request.
LEMMA StepRefines == ASSUME RInv, [Next]_vars PROVE [Lifecycle!Next]_(Lifecycle!vars)
<1>0. ASSUME UNCHANGED store PROVE [Lifecycle!Next]_(Lifecycle!vars)
      BY <1>0 DEF Lifecycle!vars
<1>1. ASSUME NEW r \in Requests, Create(r) PROVE Lifecycle!Next
      BY <1>1, CreateRefines
<1>2. ASSUME NEW r \in Requests, LocalDecision(r) PROVE Lifecycle!Next
  <2>l. PICK lease : lease = [key |-> r, content |-> store[r].content,
                              value |-> Kind(r) = "vault", expires |-> clock + LeaseTTL,
                              by |-> "local", basis |-> "other"]
        OBVIOUS
  <2>1. lease \in Lease
    <3>1. clock + LeaseTTL \in Nat /\ store[r].content \in Content
          BY ContentType, Instants DEF RInv
    <3>2. (Kind(r) = "vault") \in BOOLEAN
          OBVIOUS
    <3> QED BY <2>l, <3>1, <3>2 DEF Lease
  <2>2. Record(r, "approved", lease) \/ Record(r, "denied", NoLease)
        BY <1>2, <2>l DEF LocalDecision
  <2>3. store[r].status = "pending"
        BY <1>2 DEF LocalDecision
  <2> QED BY <2>1, <2>2, <2>3, RecordRefines
<1>3. ASSUME NEW r \in Requests, UnsignedDecision(r) PROVE Lifecycle!Next
  <2>1. store[r].status = "pending"
        BY <1>3 DEF UnsignedDecision
  <2>2. CASE Record(r, "denied", NoLease)
        BY <2>1, <2>2, RecordRefines
  <2>3. ASSUME NEW q \in Requests, NEW c \in Content, NEW e \in {clock, clock + LeaseTTL},
               Record(r, "approved", [key |-> q, content |-> c, value |-> FALSE,
                                      expires |-> e, by |-> "anyone", basis |-> "other"])
        PROVE  Lifecycle!Next
    <3>l. PICK lease : lease = [key |-> q, content |-> c, value |-> FALSE,
                                expires |-> e, by |-> "anyone", basis |-> "other"]
          OBVIOUS
    <3>1. e \in Nat
          BY Instants DEF RInv
    <3>2. lease \in Lease
          BY <3>l, <3>1 DEF Lease
    <3> QED BY <2>1, <2>3, <3>l, <3>2, RecordRefines
  <2> QED BY <1>3, <2>2, <2>3 DEF UnsignedDecision
<1>4. ASSUME NEW a \in Approvers, Post(a) PROVE Lifecycle!Next \/ UNCHANGED store
  <2>1. /\ approver[a].req \in Requests /\ approver[a].lease \in Lease \cup {NoLease}
        BY <1>4, ApproverType DEF RInv, Post, Approver
  <2>2. CASE /\ store[approver[a].req].status = "pending"
             /\ Record(approver[a].req, IF approver[a].lease = NoLease THEN "denied" ELSE "approved",
                       approver[a].lease)
    <3>1. CASE approver[a].lease = NoLease
          BY <2>1, <2>2, <3>1, RecordRefines
    <3>2. CASE approver[a].lease # NoLease
          BY <2>1, <2>2, <3>2, RecordRefines
    <3> QED BY <3>1, <3>2
  <2> QED BY <1>4, <2>2 DEF Post
<1>5. ASSUME NEW a \in Approvers, List(a) \/ Consider(a) \/ Prompt(a) \/ Resolve(a)
                                \/ OpenSession(a)
      PROVE  UNCHANGED store
      BY <1>5 DEF List, Consider, Prompt, Resolve, OpenSession
<1>6. ASSUME NEW r \in Requests, Poll(r) PROVE UNCHANGED store
      BY <1>6 DEF Poll
<1>7. Crash \/ Restart \/ Tick \/ UNCHANGED vars => UNCHANGED store
      BY DEF Crash, Restart, Tick, vars
<1> QED BY <1>0, <1>1, <1>2, <1>3, <1>4, <1>5, <1>6, <1>7 DEF Next, Watch

\* However many approvers work on outdated lists, with the local authority and
\* unsigned decisions beside them, a request is decided at most once, and
\* approved only with a lease.
THEOREM RemoteDecidedOnce == Spec => ImplementsLifecycle
<1>1. Init => Lifecycle!Init
      BY DEF Init, Lifecycle!Init
<1>2. RInv /\ [Next]_vars => [Lifecycle!Next]_(Lifecycle!vars)
      BY StepRefines
<1> QED BY <1>1, <1>2, RemoteInvariant, PTL DEF Spec, ImplementsLifecycle, Lifecycle!Spec

\* Remote clients use only leases made for them, which stay in the store, for every value of the
\* constants: the theorems above together.
THEOREM ClientsAlwaysSound == Spec => []ClientsSound
BY RemoteTypeCorrect, OnlyOwnCapability, OutcomesStand, PTL
   DEF ClientsSound
=============================================================================
