------------------------- MODULE LocalAuthorityProofs -------------------------
(***************************************************************************)
(* Proofs about LocalAuthority for every set of requests, every profile    *)
(* and every bound.                                                        *)
(***************************************************************************)
EXTENDS LocalAuthority, TLAPS

-----------------------------------------------------------------------------
\* The caps and TTLs are positive, and a session TTL never exceeds its cap.
LEMMA SessionArithmetic ==
  ASSUME NEW s \in Scopes, NEW t \in RequestedTTLs
  PROVE  /\ SessionCap(MaxSession, Profile[s].maxSession) \in Nat \ {0}
         /\ ProfileTTL(s) \in Nat \ {0}
         /\ SessionTTL(s, t) \in Nat \ {0}
         /\ SessionTTL(s, t) <= SessionCap(MaxSession, Profile[s].maxSession)
<1>1. /\ Profile[s].maxSession \in Nat /\ Profile[s].ttl \in Nat
      /\ MaxSession \in Nat /\ t \in Nat
  BY LocalAuthorityAssumption DEF ProfileRecord
<1>2. SessionCap(MaxSession, Profile[s].maxSession) \in Nat \ {0}
  BY <1>1, SessionDefaults DEF SessionCap
<1>3. ProfileTTL(s) \in Nat \ {0}
  BY <1>1, SessionDefaults DEF ProfileTTL
<1>4. /\ SessionTTL(s, t) \in Nat \ {0}
      /\ SessionTTL(s, t) <= SessionCap(MaxSession, Profile[s].maxSession)
  BY <1>1, <1>2, <1>3, SessionDefaults DEF SessionTTL, RequestedSessionTTL
<1> QED
  BY <1>2, <1>3, <1>4

\* The session createGrant builds has the type of a session, and the content
\* it computes is a set of session IDs.
LEMMA NewSessionType ==
  ASSUME TypeOK, NEW s \in Scopes, NEW t \in RequestedTTLs,
         NEW o \in Requests \cup CliOpeners, NEW file \in SUBSET Nat, NEW now \in Nat
  PROVE  /\ NewSession(s, t, o, now) \in Session
         /\ Append(minted, NewSession(s, t, o, now)) \in Seq(Session)
         /\ Appended(file, NewSession(s, t, o, now), now) \in SUBSET Nat
<1>1. NewSession(s, t, o, now) \in Session
  <2>1. now + SessionTTL(s, t) \in Nat
    BY SessionArithmetic
  <2> QED
    BY <2>1 DEF NewSession, Session
<1>2. minted \in Seq(Session) /\ Len(minted) \in Nat
  BY DEF TypeOK
<1>3. Append(minted, NewSession(s, t, o, now)) \in Seq(Session)
  BY <1>1, <1>2
<1>4. Appended(file, NewSession(s, t, o, now), now) \in SUBSET Nat
  <2>1. {i \in file : Unexpired(minted[i].expires, now)} \subseteq Nat
    OBVIOUS
  <2>2. Len(minted) + 1 \in Nat
    BY <1>2
  <2> QED
    BY <2>1, <2>2, Zenon DEF Appended
<1> QED
  BY <1>1, <1>3, <1>4

\* The decider records the actions build have their type.
LEMMA DeciderRecord ==
  ASSUME NEW pc \in Steps, NEW who \in Deciders, NEW i \in Nat, NEW w \in SUBSET Nat
  PROVE  /\ At(pc) \in DeciderState
         /\ [At(pc) EXCEPT !.by = who, !.session = i] \in DeciderState
         /\ [At(pc) EXCEPT !.write = w] \in DeciderState
  BY DEF At, DeciderState, Deciders

\* Moving one decider to a well-typed record keeps the type of all.
LEMMA DeciderMoves ==
  ASSUME decider \in [Requests -> DeciderState], NEW r \in Requests
  PROVE  /\ \A next \in DeciderState :
              Goto(r, next) => decider' \in [Requests -> DeciderState]
         /\ \A pc \in Steps : Goto(r, At(pc)) => decider' \in [Requests -> DeciderState]
         /\ DenyNow(r) => decider' \in [Requests -> DeciderState]
         /\ \A who \in Deciders, i \in Nat :
              ApproveAs(r, who, i) => decider' \in [Requests -> DeciderState]
<1>1. \A next \in DeciderState :
        Goto(r, next) => decider' \in [Requests -> DeciderState]
  BY DEF Goto
<1>2. "deny" \in Steps /\ "resolve" \in Steps
  BY DEF Steps
<1>3. \A pc \in Steps : At(pc) \in DeciderState
  BY DEF At, DeciderState, Deciders
<1>4. \A who \in Deciders, i \in Nat :
        [At("resolve") EXCEPT !.by = who, !.session = i] \in DeciderState
  BY <1>2, DeciderRecord
<1> QED
  BY <1>1, <1>2, <1>3, <1>4 DEF DenyNow, ApproveAs

\* A decision recorded in the store keeps its type.
LEMMA RecordType ==
  ASSUME store \in [Requests -> StoredRequest], NEW r \in Requests,
         NEW status \in {"pending", "approved", "denied"}, NEW who \in Deciders,
         NEW i \in Nat, NEW l \in Nat, Record(r, status, who, i, l)
  PROVE  store' \in [Requests -> StoredRequest]
<1> DEFINE q == [store[r] EXCEPT !.status = status, !.by = who, !.session = i, !.lease = l]
<1>1. q \in StoredRequest
  BY DEF StoredRequest
<1>2. store' = [store EXCEPT ![r] = q]
  BY DEF Record
<1> HIDE DEF q
<1> QED
  BY <1>1, <1>2

LEMMA NoRequestType == NoRequest \in StoredRequest
  BY LocalAuthorityAssumption DEF NoRequest, StoredRequest, Deciders

LEMMA SubmittedType ==
  ASSUME NEW s \in Scopes, NEW c \in BOOLEAN, NEW t \in RequestedTTLs
  PROVE  Submitted(s, c, t) \in StoredRequest
  BY NoRequestType DEF Submitted, StoredRequest

LEMMA IdleCliType == IdleCli \in Cli
  BY LocalAuthorityAssumption DEF IdleCli, Cli, CliOpeners

\* Moving one command to a well-typed record keeps the type of all.
LEMMA CliMoves ==
  ASSUME cli \in [Clis -> Cli], NEW c \in Clis
  PROVE  /\ \A next \in Cli : Proceed(c, next) => cli' \in [Clis -> Cli]
         /\ End(c) => cli' \in [Clis -> Cli]
         /\ \A o \in CliOpeners : OpenAs(c, o) => cli' \in [Clis -> Cli]
<1>1. \A next \in Cli : Proceed(c, next) => cli' \in [Clis -> Cli]
  BY DEF Proceed
<1>2. \A o \in CliOpeners : [cli[c] EXCEPT !.pc = "load", !.opener = o] \in Cli
  BY DEF Cli
<1> QED
  BY <1>1, <1>2, IdleCliType DEF End, OpenAs

\* What each step of a command does to the commands.
LEMMA CliStepMoves ==
  ASSUME NEW c \in Clis, TypeOK, CliStep(c)
  PROVE  \/ End(c)
         \/ \E pc \in {"lookup", "lease", "prompt", "load"}, o \in CliOpeners, s \in Scopes,
               critical \in BOOLEAN, t \in RequestedTTLs : Command(c, pc, o, s, critical, t)
         \/ \E pc \in {"lease", "prompt"} : Proceed(c, [cli[c] EXCEPT !.pc = pc])
         \/ \E o \in CliOpeners : OpenAs(c, o)
         \/ CliLoad(c) \/ CliRevoke(c)
<1>1. CASE CliStart(c) \/ CliDirect(c) \/ CliApprove(c)
  BY <1>1 DEF CliStart, CliDirect, CliApprove, CliOpeners
<1>2. CASE CliLookup(c)
  BY <1>2 DEF CliLookup
<1>3. CASE CliLease(c)
  BY <1>3 DEF CliLease, CliOpeners
<1>4. CASE CliPrompt(c)
  BY <1>4 DEF CliPrompt, TypeOK, Cli
<1>5. CASE CliSave(c)
  BY <1>5 DEF CliSave
<1> QED
  BY <1>1, <1>2, <1>3, <1>4, <1>5 DEF CliStep

\* The instant a command's session is dated at, and the session it builds.
LEMMA CliSession ==
  ASSUME TypeOK, NEW c \in Clis
  PROVE  LET g == NewSession(cli[c].scope, cli[c].ttl, cli[c].opener, GrantedAt(c)) IN
           /\ GrantedAt(c) \in Nat
           /\ g \in Session
           /\ Append(minted, g) \in Seq(Session)
           /\ Appended(sessions, g, GrantedAt(c)) \in SUBSET Nat
<1>1. GrantedAt(c) \in Nat
  BY DEF GrantedAt, TypeOK, Cli
<1>2. /\ cli[c].scope \in Scopes /\ cli[c].ttl \in RequestedTTLs
      /\ cli[c].opener \in Requests \cup CliOpeners /\ sessions \in SUBSET Nat
  BY DEF TypeOK, Cli
<1> QED
  BY <1>1, <1>2, NewSessionType

LEMMA TypeInit == Init => TypeOK
<1>1. At("idle") \in DeciderState
  BY DEF At, DeciderState, Steps, Deciders
<1> QED
  BY <1>1, NoRequestType, IdleCliType DEF Init, TypeOK

LEMMA TypeDecide ==
  ASSUME TypeOK, NEW r \in Requests, Decide(r)
  PROVE  TypeOK'
<1> USE DEF TypeOK, cliVars
<1>0. /\ \A pc \in {"idle", "prompt", "lookup", "createLoad"} : pc \in Steps
      /\ \A who \in {"policy", "session", "authority"} : who \in Deciders
      /\ 0 \in Nat
  BY DEF Steps, Deciders
<1>1. CASE Validate(r)
  BY <1>0, <1>1, DeciderMoves DEF Validate
<1>2. CASE Lookup(r)
  BY <1>0, <1>2, DeciderMoves DEF Lookup, ActiveSessions, ActiveAt, Fault
<1>3. CASE Prompt(r)
  BY <1>0, <1>3, DeciderMoves DEF Prompt
<1>4. CASE CreateLoad(r)
  <2> DEFINE g == NewSession(store[r].scope, store[r].ttl, r, clock)
  <2>1. /\ Append(minted, g) \in Seq(Session)
        /\ Appended(sessions, g, clock) \in SUBSET Nat
    BY NewSessionType DEF StoredRequest
  <2>2. [At("createSave") EXCEPT !.write = Appended(sessions, g, clock)] \in DeciderState
    BY <2>1 DEF At, DeciderState, Steps, Deciders
  <2>3. \/ /\ minted' = Append(minted, g) /\ faults' = faults
           /\ Goto(r, [At("createSave") EXCEPT !.write = Appended(sessions, g, clock)])
        \/ minted' = minted /\ faults' = faults + 1 /\ DenyNow(r)
    BY <1>4 DEF CreateLoad, Fault
  <2> HIDE DEF g
  <2>4. minted' \in Seq(Session) /\ decider' \in [Requests -> DeciderState]
    BY <2>1, <2>2, <2>3, DeciderMoves
  <2>5. faults' \in Nat
    BY <2>3
  <2> QED
    BY <1>4, <2>4, <2>5 DEF CreateLoad
<1>5. CASE CreateSave(r)
  <2>1. decider[r].write \in SUBSET Nat
    BY DEF DeciderState
  <2>2. \/ /\ sessions' = decider[r].write /\ faults' = faults
           /\ ApproveAs(r, "authority", 0)
        \/ sessions' = sessions /\ faults' = faults + 1 /\ DenyNow(r)
    BY <1>5 DEF CreateSave, Fault
  <2>3. decider' \in [Requests -> DeciderState]
    BY <1>0, <2>2, DeciderMoves
  <2>4. sessions' \subseteq Nat
    BY <2>1, <2>2
  <2>5. faults' \in Nat
    BY <2>2
  <2> QED
    BY <1>5, <2>3, <2>4, <2>5 DEF CreateSave
<1>6. CASE Resolve(r)
  <2>1. ProfileTTL(store[r].scope) \in Nat
    <3>1. store[r].scope \in Scopes
      BY DEF StoredRequest
    <3>2. 0 \in RequestedTTLs
      BY LocalAuthorityAssumption
    <3> QED
      BY <3>1, <3>2, SessionArithmetic
  <2> DEFINE expiry == clock + ProfileTTL(store[r].scope)
             next   == [decider[r] EXCEPT !.pc = "approve", !.lease = expiry]
  <2>2. expiry \in Nat
    BY <2>1
  <2>3. Goto(r, next) \/ DenyNow(r)
    BY <1>6 DEF Resolve
  <2> HIDE DEF expiry
  <2>4. next \in DeciderState
    BY <2>2 DEF DeciderState, Steps
  <2> HIDE DEF next
  <2>5. decider' \in [Requests -> DeciderState]
    BY <2>3, <2>4, DeciderMoves
  <2> QED
    BY <1>6, <2>5 DEF Resolve
<1>7. CASE Approve(r)
  <2>1. /\ decider[r].by \in Deciders /\ decider[r].session \in Nat
        /\ decider[r].lease \in Nat
    BY DEF DeciderState
  <2>2. store' \in [Requests -> StoredRequest]
    BY <1>7, <2>1, RecordType DEF Approve
  <2> QED
    BY <1>0, <1>7, <2>2, DeciderMoves DEF Approve, Fault
<1>8. CASE Deny(r)
  <2>1. store[r].session \in Nat /\ store[r].lease \in Nat
    BY DEF StoredRequest
  <2>2. store' \in [Requests -> StoredRequest]
    BY <1>0, <1>8, <2>1, RecordType DEF Deny
  <2> QED
    BY <1>0, <1>8, <2>2, DeciderMoves DEF Deny, Fault
<1> QED
  BY <1>1, <1>2, <1>3, <1>4, <1>5, <1>6, <1>7, <1>8 DEF Decide

LEMMA TypeCli ==
  ASSUME TypeOK, NEW c \in Clis, CliStep(c)
  PROVE  TypeOK'
<1> USE DEF TypeOK
<1>1. cli' \in [Clis -> Cli]
  <2>1. CASE End(c) \/ \E o \in CliOpeners : OpenAs(c, o)
    BY <2>1, CliMoves
  <2>2. CASE \E pc \in {"lookup", "lease", "prompt", "load"}, o \in CliOpeners, s \in Scopes,
               critical \in BOOLEAN, t \in RequestedTTLs : Command(c, pc, o, s, critical, t)
    <3>1. PICK pc \in {"lookup", "lease", "prompt", "load"}, o \in CliOpeners, s \in Scopes,
               critical \in BOOLEAN, t \in RequestedTTLs : Command(c, pc, o, s, critical, t)
      BY <2>2
    <3>2. [pc |-> pc, opener |-> o, scope |-> s, critical |-> critical,
           ttl |-> t, at |-> clock, write |-> {}] \in Cli
      BY DEF Cli
    <3>3. Proceed(c, [pc |-> pc, opener |-> o, scope |-> s, critical |-> critical,
                      ttl |-> t, at |-> clock, write |-> {}])
      BY <3>1 DEF Command
    <3> QED
      BY <3>2, <3>3, CliMoves
  <2>3. CASE \E pc \in {"lease", "prompt"} : Proceed(c, [cli[c] EXCEPT !.pc = pc])
    <3>1. \A pc \in {"lease", "prompt"} : [cli[c] EXCEPT !.pc = pc] \in Cli
      BY DEF Cli
    <3> QED
      BY <2>3, <3>1, CliMoves
  <2>4. CASE CliLoad(c)
    <3> DEFINE g == NewSession(cli[c].scope, cli[c].ttl, cli[c].opener, GrantedAt(c))
               w == Appended(sessions, g, GrantedAt(c))
    <3>1. w \in SUBSET Nat
      BY CliSession
    <3>2. End(c) \/ Proceed(c, [cli[c] EXCEPT !.pc = "save", !.write = w])
      BY <2>4 DEF CliLoad
    <3> HIDE DEF g, w
    <3>3. [cli[c] EXCEPT !.pc = "save", !.write = w] \in Cli
      BY <3>1 DEF Cli
    <3> QED
      BY <3>2, <3>3, CliMoves
  <2>5. CASE CliRevoke(c)
    <3>1. PICK i \in sessions :
            Proceed(c, [IdleCli EXCEPT !.pc = "save", !.write = sessions \ {i}])
      BY <2>5 DEF CliRevoke
    <3>2. [IdleCli EXCEPT !.pc = "save", !.write = sessions \ {i}] \in Cli
      BY IdleCliType DEF Cli
    <3> QED
      BY <3>1, <3>2, CliMoves
  <2> QED
    BY <2>1, <2>2, <2>3, <2>4, <2>5, CliStepMoves
<1>2. consents' \subseteq CliOpeners \X Scopes \X BOOLEAN
  <2>1. /\ cli[c].opener \in CliOpeners /\ cli[c].scope \in Scopes
        /\ cli[c].critical \in BOOLEAN /\ "lease" \in CliOpeners
    BY DEF Cli, CliOpeners
  <2>2. \/ consents' = consents
        \/ consents' = consents \cup {<<"lease", cli[c].scope, cli[c].critical>>}
        \/ consents' = consents \cup {<<cli[c].opener, cli[c].scope, cli[c].critical>>}
    BY DEF CliStep, CliStart, CliDirect, CliApprove, Command, CliRevoke, CliLookup, CliLease,
           CliPrompt, CliLoad, CliSave
  <2> QED
    BY <2>1, <2>2
<1>3. minted' \in Seq(Session)
  <2>1. CASE CliLoad(c)
    <3> DEFINE g == NewSession(cli[c].scope, cli[c].ttl, cli[c].opener, GrantedAt(c))
    <3>1. Append(minted, g) \in Seq(Session)
      BY CliSession
    <3>2. minted' = Append(minted, g) \/ minted' = minted
      BY <2>1 DEF CliLoad
    <3> HIDE DEF g
    <3> QED
      BY <3>1, <3>2
  <2>2. CASE ~CliLoad(c)
    <3>1. minted' = minted
      BY <2>2 DEF CliStep, CliStart, CliDirect, CliApprove, Command, CliRevoke, CliLookup,
                  CliLease, CliPrompt, CliSave
    <3> QED
      BY <3>1
  <2> QED
    BY <2>1, <2>2
<1>4. sessions' \subseteq Nat
  <2>1. cli[c].write \in SUBSET Nat
    BY DEF Cli
  <2>2. sessions' = sessions \/ sessions' = cli[c].write
    BY DEF CliStep, CliStart, CliDirect, CliApprove, Command, CliRevoke, CliLookup, CliLease,
           CliPrompt, CliLoad, CliSave
  <2> QED
    BY <2>1, <2>2
<1>5. faults' \in Nat /\ cliOps' \in Nat
  <2>1. faults' = faults \/ Fault
    BY DEF CliStep, CliStart, CliDirect, CliApprove, Command, CliRevoke, CliLookup, CliLease,
           CliPrompt, CliLoad, CliSave
  <2>2. cliOps' = cliOps \/ cliOps' = cliOps + 1
    BY DEF CliStep, CliStart, CliDirect, CliApprove, Command, CliRevoke, CliLookup, CliLease,
           CliPrompt, CliLoad, CliSave
  <2> QED
    BY <2>1, <2>2 DEF Fault
<1>6. UNCHANGED <<daemonVars, autoApprove, lastCeiling, clock, crashes>>
  BY DEF CliStep, CliStart, CliDirect, CliApprove, Command, CliRevoke, CliLookup, CliLease,
         CliPrompt, CliLoad, CliSave
<1> QED
  BY <1>1, <1>2, <1>3, <1>4, <1>5, <1>6 DEF daemonVars

LEMMA TypeNext == TypeOK /\ [Next]_vars => TypeOK'
<1> SUFFICES ASSUME TypeOK, [Next]_vars
             PROVE  TypeOK'
  OBVIOUS
<1> USE DEF TypeOK, cliVars
<1>0. /\ "idle" \in Steps /\ "validate" \in Steps
      /\ At("idle") \in DeciderState /\ At("validate") \in DeciderState
  BY DEF At, DeciderState, Steps, Deciders
<1>1. ASSUME NEW r \in Requests, Create(r)
      PROVE  TypeOK'
  <2>1. store' \in [Requests -> StoredRequest]
    BY <1>1, SubmittedType DEF Create
  <2>2. decider' \in [Requests -> DeciderState]
    BY <1>0, <1>1, DeciderMoves DEF Create
  <2> QED
    BY <1>1, <2>1, <2>2 DEF Create
<1>2. ASSUME NEW r \in Requests, Decide(r)
      PROVE  TypeOK'
  BY <1>2, TypeDecide
<1>3. ASSUME NEW r \in Requests, SignedDecision(r)
      PROVE  TypeOK'
  <2>1. PICK d \in Decision :
          IF d.approved THEN Record(r, "approved", "signed", store[r].session, d.expires)
          ELSE Record(r, "denied", "signed", store[r].session, store[r].lease)
    BY <1>3 DEF SignedDecision
  <2>2. /\ store[r].session \in Nat /\ store[r].lease \in Nat
        /\ d.expires \in Nat /\ "signed" \in Deciders
    BY LocalAuthorityAssumption DEF Decision, StoredRequest, Deciders
  <2>3. store' \in [Requests -> StoredRequest]
    BY <2>1, <2>2, RecordType
  <2> QED
    BY <1>3, <2>3 DEF SignedDecision
<1>4. ASSUME NEW c \in Clis, CliStep(c)
      PROVE  TypeOK'
  BY <1>4, TypeCli
<1>6. CASE CliRevokeAll
  BY <1>6 DEF CliRevokeAll, cliVars, daemonVars
<1>7. CASE EnableLease \/ DisableLease
  <2>1. autoApprove' \in Nat /\ lastCeiling' \in Nat /\ cliOps' \in Nat
    BY <1>7 DEF EnableLease, DisableLease
  <2> QED
    BY <1>7, <2>1 DEF EnableLease, DisableLease, daemonVars
<1>8. CASE PermissionsChange
  BY <1>8 DEF PermissionsChange
<1>9. CASE Crash
  <2>1. decider' \in [Requests -> DeciderState] /\ crashes' \in Nat
    BY <1>0, <1>9 DEF Crash
  <2> QED
    BY <1>9, <2>1 DEF Crash
<1>10. CASE Restart
  BY <1>0, <1>10 DEF Restart, Fault
<1>11. CASE Tick
  BY <1>11 DEF Tick
<1>12. CASE UNCHANGED vars
  BY <1>12 DEF vars, cliVars, daemonVars
<1> QED
  BY <1>1, <1>2, <1>3, <1>4, <1>6, <1>7, <1>8, <1>9, <1>10, <1>11, <1>12 DEF Next

\* The variables of the daemon keep their types.
THEOREM TypeCorrect == Spec => []TypeOK
  BY TypeInit, TypeNext, PTL DEF Spec

-----------------------------------------------------------------------------
(***************************************************************************)
(* The inductive invariant.  What the properties say of the two steps that *)
(* matter, running the provider and recording the approval, is extended to *)
(* every program point before them: which of the grounds is already        *)
(* established there, and that no content about to be saved holds a        *)
(* session that was never built.                                           *)
(***************************************************************************)
DeciderGrounds(r) ==
  LET d == decider[r]
      q == store[r]
  IN  /\ d.pc # "idle" => q.status # "absent"
      /\ d.pc \in {"lookup", "prompt", "createLoad", "createSave"} =>
           ~Upgrade(r) /\ Profile[q.scope].requireApproval
      /\ d.pc \in {"lookup", "createLoad", "createSave"} => ~q.critical
      /\ d.pc \in {"createLoad", "createSave"} => r \in yes
      /\ d.pc \in {"resolve", "approve"} => Justified(r, d.by, d.session)
      /\ d.pc = "approve" => d.lease > 0
      /\ d.write \subseteq DOMAIN minted

StoreGrounds(r) ==
  LET q == store[r]
  IN  /\ q.status = "approved" <=> q.lease > 0
      /\ q.status = "absent" => r \notin yes
      /\ q.status = "approved" /\ q.by # "signed" => Justified(r, q.by, q.session)

\* The grounds a command has for the session it is about to build, and that
\* the content it is about to save holds no session that was never built.
CliGrounds(c) ==
  LET d == cli[c]
  IN  /\ d.write \subseteq DOMAIN minted
      /\ d.pc \in {"lookup", "lease", "prompt"} => d.opener \in {"prompt", "approver"}
      /\ d.pc = "load" =>
           \/ d.opener = "start"
           \/ d.opener = "policy" /\ ~Profile[d.scope].requireApproval
           \/ /\ d.opener \in {"prompt", "approver"}
              /\ <<d.opener, d.scope, FALSE>> \in consents
           \/ /\ d.opener = "lease" /\ <<"lease", d.scope, FALSE>> \in consents
              /\ d.at < lastCeiling

IInv == /\ TypeOK
        /\ \A r \in Requests : DeciderGrounds(r) /\ StoreGrounds(r)
        /\ SessionConsent
        /\ \A c \in Clis : CliGrounds(c)
        /\ autoApprove <= lastCeiling

\* What no step undoes: a yes, the content of a stored request, a session.
Frame ==
  /\ yes \subseteq yes'
  /\ consents \subseteq consents'
  /\ lastCeiling' \in Nat /\ lastCeiling <= lastCeiling'
  /\ \A r \in Requests : store[r].status # "absent" =>
       /\ store'[r].status # "absent"
       /\ store'[r].scope = store[r].scope /\ store'[r].critical = store[r].critical
  /\ DOMAIN minted \subseteq DOMAIN minted'
  /\ \A i \in DOMAIN minted : minted'[i] = minted[i]

\* Building a session leaves the earlier ones alone.
LEMMA MintedGrows ==
  ASSUME TypeOK, NEW g \in Session, minted' = Append(minted, g)
  PROVE  /\ DOMAIN minted' = DOMAIN minted \cup {Len(minted) + 1}
         /\ \A i \in DOMAIN minted : minted'[i] = minted[i]
         /\ minted'[Len(minted) + 1] = g
  BY DEF TypeOK

\* Recording a decision changes the decision fields only.
LEMMA RecordFrame ==
  ASSUME TypeOK, NEW r \in Requests, NEW status, NEW who, NEW i, NEW l,
         Record(r, status, who, i, l)
  PROVE  /\ \A q \in Requests \ {r} : store'[q] = store[q]
         /\ store'[r].status = status /\ store'[r].by = who
         /\ store'[r].session = i /\ store'[r].lease = l
         /\ store'[r].scope = store[r].scope /\ store'[r].critical = store[r].critical
<1>1. store[r] \in StoredRequest
  BY DEF TypeOK
<1>2. store' = [store EXCEPT ![r] = [store[r] EXCEPT !.status = status, !.by = who,
                                       !.session = i, !.lease = l]]
  BY DEF Record
<1> QED
  BY <1>1, <1>2 DEF TypeOK, StoredRequest

\* Moving one decider leaves the others alone.
LEMMA GotoFrame ==
  ASSUME TypeOK, NEW r \in Requests, NEW next, Goto(r, next)
  PROVE  decider'[r] = next /\ \A q \in Requests \ {r} : decider'[q] = decider[q]
  BY DEF Goto, TypeOK

LEMMA AtFields ==
  \A pc \in Steps, who \in Deciders, i \in Nat :
    /\ At(pc).pc = pc /\ At(pc).write = {}
    /\ LET d == [At(pc) EXCEPT !.by = who, !.session = i]
       IN  d.pc = pc /\ d.by = who /\ d.session = i /\ d.write = {}
  BY DEF At

LEMMA ConsentStable ==
  ASSUME IInv, Frame, NEW i \in DOMAIN minted
  PROVE  Consented(i)'
<1>1. Consented(i) /\ minted'[i] = minted[i]
  BY DEF IInv, SessionConsent, Frame
<1>2. CASE minted[i].opener \in yes
  <2> DEFINE o == minted[i].opener
  <2>0. o \in Requests
    BY <1>2 DEF IInv, TypeOK
  <2>1. o \notin {"start", "policy", "lease", "prompt", "approver"}
    BY <2>0, LocalAuthorityAssumption
  <2>2. store[o].scope = minted[i].scope /\ ~store[o].critical
    BY <1>1, <2>1 DEF Consented
  <2>3. store[o].status # "absent"
    BY <1>2, <2>0 DEF IInv, StoreGrounds
  <2>4. o \in yes' /\ store'[o].scope = minted'[i].scope /\ ~store'[o].critical
    BY <1>1, <1>2, <2>0, <2>2, <2>3 DEF Frame
  <2> QED
    BY <1>1, <2>4 DEF Consented
<1>3. CASE minted[i].opener \notin yes
  <2>1. CASE minted[i].opener # "lease"
    BY <1>1, <1>3, <2>1 DEF Consented, Frame
  <2>2. CASE minted[i].opener = "lease"
    <3>1. minted[i] \in Session
      BY DEF IInv, TypeOK
    <3>2. minted[i].created \in Nat /\ lastCeiling \in Nat
      BY <3>1 DEF Session, IInv, TypeOK
    <3>3. <<"lease", minted[i].scope, FALSE>> \in consents /\ minted[i].created < lastCeiling
      BY <1>1, <1>3, <2>2 DEF Consented
    <3> QED
      BY <1>1, <2>2, <3>2, <3>3 DEF Consented, Frame
  <2> QED
    BY <2>1, <2>2
<1> QED
  BY <1>2, <1>3

LEMMA JustifiedStable ==
  ASSUME IInv, Frame, NEW r \in Requests, store[r].status # "absent",
         NEW by, NEW i, Justified(r, by, i)
  PROVE  Justified(r, by, i)'
<1>1. /\ store'[r].scope = store[r].scope /\ store'[r].critical = store[r].critical
      /\ yes \subseteq yes' /\ DOMAIN minted \subseteq DOMAIN minted'
      /\ \A j \in DOMAIN minted : minted'[j] = minted[j]
  BY DEF Frame
<1>2. \A j \in DOMAIN minted : Consented(j)'
  BY ConsentStable
<1> QED
  BY <1>1, <1>2 DEF Justified, Upgrade, Kind

\* A decider that does not move keeps what it knows.
LEMMA DeciderStable ==
  ASSUME IInv, Frame, NEW r \in Requests, decider'[r] = decider[r]
  PROVE  DeciderGrounds(r)'
<1>1. DeciderGrounds(r)
  BY DEF IInv
<1>2. decider'[r].write \subseteq DOMAIN minted'
  BY <1>1 DEF DeciderGrounds, Frame
<1>3. CASE decider[r].pc = "idle"
  BY <1>2, <1>3 DEF DeciderGrounds
<1>4. CASE decider[r].pc # "idle"
  <2>1. /\ store[r].status # "absent" /\ store'[r].status # "absent"
        /\ store'[r].scope = store[r].scope /\ store'[r].critical = store[r].critical
        /\ yes \subseteq yes'
    BY <1>1, <1>4 DEF DeciderGrounds, Frame
  <2>2. decider[r].pc \in {"resolve", "approve"}
          => Justified(r, decider[r].by, decider[r].session)'
    BY <1>1, <2>1, JustifiedStable DEF DeciderGrounds
  <2> QED
    BY <1>1, <1>2, <2>1, <2>2 DEF DeciderGrounds, Upgrade, Kind
<1> QED
  BY <1>3, <1>4

\* A stored request that is not updated keeps its grounds.
LEMMA StoreStable ==
  ASSUME IInv, Frame, NEW r \in Requests, store'[r] = store[r],
         r \in yes' => store[r].status # "absent"
  PROVE  StoreGrounds(r)'
<1>1. StoreGrounds(r)
  BY DEF IInv
<1>2. store[r].status = "approved" /\ store[r].by # "signed"
        => Justified(r, store[r].by, store[r].session)'
  BY <1>1, JustifiedStable DEF StoreGrounds
<1> QED
  BY <1>1, <1>2 DEF StoreGrounds

\* What a step of a command leaves alone, and what it may build and agree to.
LEMMA CliFrame ==
  ASSUME NEW c \in Clis, CliStep(c)
  PROVE  /\ UNCHANGED <<daemonVars, autoApprove, lastCeiling, clock, crashes>>
         /\ consents \subseteq consents'
         /\ \/ minted' = minted
            \/ minted' = Append(minted, NewSession(cli[c].scope, cli[c].ttl, cli[c].opener,
                                                   GrantedAt(c)))
<1>1. UNCHANGED <<daemonVars, autoApprove, lastCeiling, clock, crashes>>
  BY DEF CliStep, CliStart, CliDirect, CliApprove, Command, CliRevoke, CliLookup, CliLease,
         CliPrompt, CliLoad, CliSave
<1>2. consents \subseteq consents'
  BY DEF CliStep, CliStart, CliDirect, CliApprove, Command, CliRevoke, CliLookup, CliLease,
         CliPrompt, CliLoad, CliSave
<1>3. CASE CliLoad(c)
  BY <1>1, <1>2, <1>3 DEF CliLoad
<1>4. CASE ~CliLoad(c)
  <2>1. minted' = minted
    BY <1>4 DEF CliStep, CliStart, CliDirect, CliApprove, Command, CliRevoke, CliLookup,
                CliLease, CliPrompt, CliSave
  <2> QED
    BY <1>1, <1>2, <2>1
<1> QED
  BY <1>3, <1>4

\* A command that does not move keeps its grounds.
LEMMA CliStable ==
  ASSUME IInv, Frame, NEW c \in Clis, cli'[c] = cli[c]
  PROVE  CliGrounds(c)'
<1>1. CliGrounds(c) /\ cli[c].at \in Nat /\ lastCeiling \in Nat
  BY DEF IInv, TypeOK, Cli
<1>2. /\ DOMAIN minted \subseteq DOMAIN minted' /\ consents \subseteq consents'
      /\ lastCeiling' \in Nat /\ lastCeiling <= lastCeiling'
  BY DEF Frame
<1>3. cli[c].at < lastCeiling => cli[c].at < lastCeiling'
  BY <1>1, <1>2
<1> QED
  BY <1>1, <1>2, <1>3 DEF CliGrounds

LEMMA FrameNext == IInv /\ [Next]_vars => Frame
<1> SUFFICES ASSUME IInv, [Next]_vars
             PROVE  Frame
  OBVIOUS
<1> USE DEF cliVars, daemonVars
<1>0. /\ TypeOK /\ lastCeiling \in Nat /\ lastCeiling <= lastCeiling
  BY DEF IInv, TypeOK
<1>1. ASSUME NEW r \in Requests, Create(r)
      PROVE  Frame
  BY <1>0, <1>1 DEF Create, Frame, TypeOK
<1>2. ASSUME NEW r \in Requests, Decide(r)
      PROVE  Frame
  <2>1. CASE Validate(r)
    BY <1>0, <2>1 DEF Validate, Frame
  <2>2. CASE Lookup(r)
    BY <1>0, <2>2 DEF Lookup, Frame
  <2>3. CASE Prompt(r)
    BY <1>0, <2>3 DEF Prompt, Frame
  <2>4. CASE CreateLoad(r)
    <3>1. NewSession(store[r].scope, store[r].ttl, r, clock) \in Session
      BY <1>0, NewSessionType DEF TypeOK, StoredRequest
    <3>2. \/ minted' = Append(minted, NewSession(store[r].scope, store[r].ttl, r, clock))
          \/ minted' = minted
      BY <2>4 DEF CreateLoad
    <3>3. /\ DOMAIN minted \subseteq DOMAIN minted'
          /\ \A i \in DOMAIN minted : minted'[i] = minted[i]
      BY <1>0, <3>1, <3>2, MintedGrows
    <3> QED
      BY <1>0, <2>4, <3>3 DEF CreateLoad, Frame
  <2>5. CASE CreateSave(r)
    BY <1>0, <2>5 DEF CreateSave, Frame
  <2>6. CASE Resolve(r)
    BY <1>0, <2>6 DEF Resolve, Frame
  <2>7. CASE Approve(r)
    <3>1. \/ store' = store
          \/ Record(r, "approved", decider[r].by, decider[r].session, decider[r].lease)
      BY <2>7 DEF Approve
    <3>2. \A q \in Requests : store[q].status # "absent" =>
            /\ store'[q].status # "absent"
            /\ store'[q].scope = store[q].scope /\ store'[q].critical = store[q].critical
      BY <1>0, <3>1, RecordFrame
    <3> QED
      BY <1>0, <2>7, <3>2 DEF Approve, Frame
  <2>8. CASE Deny(r)
    <3>1. \/ store' = store
          \/ Record(r, "denied", "authority", store[r].session, store[r].lease)
      BY <2>8 DEF Deny
    <3>2. \A q \in Requests : store[q].status # "absent" =>
            /\ store'[q].status # "absent"
            /\ store'[q].scope = store[q].scope /\ store'[q].critical = store[q].critical
      BY <1>0, <3>1, RecordFrame
    <3> QED
      BY <1>0, <2>8, <3>2 DEF Deny, Frame
  <2> QED
    BY <1>2, <2>1, <2>2, <2>3, <2>4, <2>5, <2>6, <2>7, <2>8 DEF Decide
<1>3. ASSUME NEW r \in Requests, SignedDecision(r)
      PROVE  Frame
  <2>1. PICK d \in Decision :
          \/ Record(r, "approved", "signed", store[r].session, d.expires)
          \/ Record(r, "denied", "signed", store[r].session, store[r].lease)
    BY <1>3 DEF SignedDecision
  <2>2. \A q \in Requests : store[q].status # "absent" =>
          /\ store'[q].status # "absent"
          /\ store'[q].scope = store[q].scope /\ store'[q].critical = store[q].critical
    BY <1>0, <2>1, RecordFrame
  <2> QED
    BY <1>0, <1>3, <2>2 DEF SignedDecision, Frame
<1>4. ASSUME NEW c \in Clis, CliStep(c)
      PROVE  Frame
  <2>1. UNCHANGED <<daemonVars, lastCeiling>> /\ consents \subseteq consents'
    BY <1>4, CliFrame
  <2>2. /\ DOMAIN minted \subseteq DOMAIN minted'
        /\ \A i \in DOMAIN minted : minted'[i] = minted[i]
    <3> DEFINE g == NewSession(cli[c].scope, cli[c].ttl, cli[c].opener, GrantedAt(c))
    <3>1. g \in Session
      BY <1>0, CliSession
    <3>2. minted' = minted \/ minted' = Append(minted, g)
      BY <1>4, CliFrame
    <3> HIDE DEF g
    <3> QED
      BY <1>0, <3>1, <3>2, MintedGrows
  <2> QED
    BY <1>0, <2>1, <2>2 DEF Frame
<1>5. CASE CliRevokeAll \/ PermissionsChange
  BY <1>0, <1>5 DEF CliRevokeAll, PermissionsChange, Frame
<1>7. CASE EnableLease \/ DisableLease
  <2>1. lastCeiling' \in Nat /\ lastCeiling <= lastCeiling'
    BY <1>0, <1>7 DEF EnableLease, DisableLease, TypeOK
  <2> QED
    BY <1>7, <2>1 DEF EnableLease, DisableLease, Frame
<1>6. CASE Crash \/ Restart \/ Tick \/ UNCHANGED vars
  BY <1>0, <1>6 DEF Crash, Restart, Tick, vars, Frame
<1> QED
  BY <1>1, <1>2, <1>3, <1>4, <1>5, <1>6, <1>7 DEF Next

\* A step of a decider that leaves the store and the sessions built alone
\* keeps every grounds but the moved decider's own, which the caller shows.
LEMMA DeciderStep ==
  ASSUME IInv, Frame, TypeOK', NEW r \in Requests, NEW next, Goto(r, next),
         store' = store, minted' = minted, cliVars' = cliVars,
         yes' \subseteq yes \cup {r}, store[r].status # "absent",
         sessions' \subseteq DOMAIN minted, DeciderGrounds(r)'
  PROVE  IInv'
<1>1. \A q \in Requests \ {r} : decider'[q] = decider[q]
  BY GotoFrame DEF IInv
<1>2. \A q \in Requests : DeciderGrounds(q)'
  BY <1>1, DeciderStable
<1>3. \A q \in Requests : StoreGrounds(q)'
  <2> SUFFICES ASSUME NEW q \in Requests
               PROVE  StoreGrounds(q)'
    OBVIOUS
  <2>1. q \in yes' => store[q].status # "absent"
    BY DEF IInv, StoreGrounds
  <2> QED
    BY <2>1, StoreStable
<1>4. SessionConsent'
  BY ConsentStable DEF SessionConsent
<1>5. \A c \in Clis : CliGrounds(c)'
  BY CliStable DEF cliVars
<1> QED
  BY <1>2, <1>3, <1>4, <1>5 DEF IInv, cliVars

\* A step that records a decision of one request, and idles its decider or
\* leaves it, keeps every grounds if the recorded decision has its own.
LEMMA RecordStep ==
  ASSUME IInv, Frame, TypeOK', NEW r \in Requests,
         \A q \in Requests \ {r} : store'[q] = store[q],
         \A q \in Requests : decider'[q] = decider[q] \/ decider'[q] = At("idle"),
         minted' = minted, cliVars' = cliVars, sessions' = sessions, yes' = yes,
         StoreGrounds(r)'
  PROVE  IInv'
<1>1. \A q \in Requests : DeciderGrounds(q)'
  <2> SUFFICES ASSUME NEW q \in Requests
               PROVE  DeciderGrounds(q)'
    OBVIOUS
  <2>1. CASE decider'[q] = decider[q]
    BY <2>1, DeciderStable
  <2>2. CASE decider'[q] = At("idle")
    BY <2>2, AtFields DEF DeciderGrounds, At
  <2> QED
    BY <2>1, <2>2
<1>2. \A q \in Requests : StoreGrounds(q)'
  <2> SUFFICES ASSUME NEW q \in Requests, q # r
               PROVE  StoreGrounds(q)'
    OBVIOUS
  <2>1. q \in yes' => store[q].status # "absent"
    BY DEF IInv, StoreGrounds
  <2> QED
    BY <2>1, StoreStable
<1>3. SessionConsent'
  BY ConsentStable DEF SessionConsent, IInv
<1>4. \A c \in Clis : CliGrounds(c)'
  BY CliStable DEF cliVars
<1> QED
  BY <1>1, <1>2, <1>3, <1>4 DEF IInv, cliVars

-----------------------------------------------------------------------------
LEMMA InvInit == Init => IInv
<1> SUFFICES ASSUME Init
             PROVE  IInv
  OBVIOUS
<1>1. TypeOK
  BY TypeInit
<1>2. \A r \in Requests : DeciderGrounds(r)
  BY DEF Init, DeciderGrounds, At
<1>3. \A r \in Requests : StoreGrounds(r)
  BY DEF Init, StoreGrounds, NoRequest
<1>4. /\ SessionConsent /\ autoApprove <= lastCeiling
      /\ \A c \in Clis : CliGrounds(c)
  BY DEF Init, SessionConsent, IdleCli, CliGrounds
<1> QED
  BY <1>1, <1>2, <1>3, <1>4 DEF IInv

LEMMA InvCreate ==
  ASSUME IInv, Frame, TypeOK', NEW r \in Requests, Create(r)
  PROVE  IInv'
<1>1. PICK s \in Scopes, c \in BOOLEAN, t \in RequestedTTLs :
        store' = [store EXCEPT ![r] = Submitted(s, c, t)]
  BY DEF Create
<1>2. /\ store'[r].status = "pending" /\ store'[r].lease = 0
      /\ \A q \in Requests \ {r} : store'[q] = store[q]
  BY <1>1 DEF IInv, TypeOK, Submitted, NoRequest
<1>3. \A q \in Requests : StoreGrounds(q)'
  <2>1. StoreGrounds(r)'
    BY <1>2 DEF StoreGrounds
  <2>2. \A q \in Requests \ {r} : q \in yes' => store[q].status # "absent"
    BY DEF IInv, StoreGrounds, Create
  <2> QED
    BY <1>2, <2>1, <2>2, StoreStable
<1>4. \A q \in Requests : DeciderGrounds(q)'
  <2>1. CASE decider' = decider
    BY <2>1, DeciderStable
  <2>2. CASE Goto(r, At("validate"))
    <3>1. decider'[r].pc = "validate" /\ decider'[r].write = {}
      BY <2>2, GotoFrame DEF At, IInv
    <3>2. DeciderGrounds(r)'
      BY <1>2, <3>1 DEF DeciderGrounds
    <3>3. \A q \in Requests \ {r} : decider'[q] = decider[q]
      BY <2>2, GotoFrame DEF IInv
    <3> QED
      BY <3>2, <3>3, DeciderStable
  <2> QED
    BY <2>1, <2>2 DEF Create
<1>5. SessionConsent'
  BY ConsentStable DEF SessionConsent, Create, IInv
<1>6. (\A k \in Clis : CliGrounds(k)') /\ autoApprove' <= lastCeiling'
  BY CliStable DEF Create, cliVars, IInv
<1> QED
  BY <1>3, <1>4, <1>5, <1>6 DEF IInv

LEMMA InvDecide ==
  ASSUME IInv, Frame, TypeOK', NEW r \in Requests, Decide(r)
  PROVE  IInv'
<1>0. /\ DeciderGrounds(r) /\ StoreGrounds(r) /\ TypeOK
      /\ sessions \subseteq DOMAIN minted
  BY DEF IInv, SessionConsent
<1>1. CASE Validate(r)
  <2> DEFINE pcs == {"deny", "idle", "prompt", "lookup"}
  <2>1. store[r].status # "absent"
    BY <1>0, <1>1 DEF Validate, DeciderGrounds
  <2>2. \/ \E pc \in {"deny", "idle"} : Goto(r, At(pc))
        \/ /\ ~Upgrade(r) /\ ~Profile[store[r].scope].requireApproval
           /\ ApproveAs(r, "policy", 0)
        \/ /\ ~Upgrade(r) /\ Profile[store[r].scope].requireApproval
           /\ \E pc \in {"prompt", "lookup"} :
                /\ pc = "lookup" => ~store[r].critical
                /\ Goto(r, At(pc))
    <3>1. store[r].critical \in BOOLEAN
      BY <1>0 DEF TypeOK, StoredRequest
    <3> QED
      BY <1>1, <3>1 DEF Validate, DenyNow
  <2>3. CASE \E pc \in {"deny", "idle"} : Goto(r, At(pc))
    <3>1. PICK pc \in {"deny", "idle"} : Goto(r, At(pc))
      BY <2>3
    <3>2. decider'[r] = At(pc)
      BY <1>0, <3>1, GotoFrame
    <3>3. DeciderGrounds(r)'
      BY <1>1, <2>1, <3>2 DEF Validate, DeciderGrounds, At
    <3> QED
      BY <1>0, <1>1, <2>1, <3>1, <3>3, DeciderStep DEF Validate
  <2>4. CASE /\ ~Upgrade(r) /\ ~Profile[store[r].scope].requireApproval
             /\ ApproveAs(r, "policy", 0)
    <3> DEFINE next == [At("resolve") EXCEPT !.by = "policy", !.session = 0]
    <3>1. Goto(r, next)
      BY <2>4 DEF ApproveAs
    <3>2. next.pc = "resolve" /\ next.by = "policy" /\ next.write = {} /\ next.session = 0
      BY DEF At
    <3> HIDE DEF next
    <3>3. decider'[r] = next
      BY <1>0, <3>1, GotoFrame
    <3>4. Justified(r, "policy", 0)
      BY <2>4 DEF Justified
    <3>5. Justified(r, "policy", 0)'
      BY <2>1, <3>4, JustifiedStable
    <3>6. DeciderGrounds(r)'
      BY <1>1, <2>1, <3>2, <3>3, <3>5 DEF Validate, DeciderGrounds
    <3> QED
      BY <1>0, <1>1, <2>1, <3>1, <3>6, DeciderStep DEF Validate
  <2>5. CASE /\ ~Upgrade(r) /\ Profile[store[r].scope].requireApproval
             /\ \E pc \in {"prompt", "lookup"} :
                  /\ pc = "lookup" => ~store[r].critical
                  /\ Goto(r, At(pc))
    <3>1. PICK pc \in {"prompt", "lookup"} :
            (pc = "lookup" => ~store[r].critical) /\ Goto(r, At(pc))
      BY <2>5
    <3>2. decider'[r] = At(pc)
      BY <1>0, <3>1, GotoFrame
    <3>3. DeciderGrounds(r)'
      BY <1>1, <2>1, <2>5, <3>1, <3>2 DEF Validate, DeciderGrounds, At, Upgrade, Kind
    <3> QED
      BY <1>0, <1>1, <2>1, <3>1, <3>3, DeciderStep DEF Validate
  <2> QED
    BY <2>2, <2>3, <2>4, <2>5
<1>2. CASE Lookup(r)
  <2>1. /\ store[r].status # "absent" /\ ~Upgrade(r) /\ ~store[r].critical
        /\ Profile[store[r].scope].requireApproval
    BY <1>0, <1>2 DEF Lookup, DeciderGrounds
  <2>2. \/ \E i \in ActiveSessions(store[r].scope) : ApproveAs(r, "session", i)
        \/ \E pc \in {"prompt", "deny"} : Goto(r, At(pc))
    BY <1>2 DEF Lookup, DenyNow
  <2>3. CASE \E i \in ActiveSessions(store[r].scope) : ApproveAs(r, "session", i)
    <3>1. PICK i \in ActiveSessions(store[r].scope) : ApproveAs(r, "session", i)
      BY <2>3
    <3>2. /\ i \in DOMAIN minted /\ minted[i].scope = store[r].scope /\ Consented(i)
      BY <1>0, <3>1 DEF ActiveSessions, ActiveAt, IInv, SessionConsent
    <3> DEFINE next == [At("resolve") EXCEPT !.by = "session", !.session = i]
    <3>3. Goto(r, next)
      BY <3>1 DEF ApproveAs
    <3>4. next.pc = "resolve" /\ next.by = "session" /\ next.write = {} /\ next.session = i
      BY DEF At
    <3> HIDE DEF next
    <3>5. decider'[r] = next
      BY <1>0, <3>3, GotoFrame
    <3>6. Justified(r, "session", i)
      BY <2>1, <3>2 DEF Justified
    <3>7. Justified(r, "session", i)'
      BY <2>1, <3>6, JustifiedStable
    <3>8. DeciderGrounds(r)'
      BY <1>2, <2>1, <3>4, <3>5, <3>7 DEF Lookup, DeciderGrounds
    <3> QED
      BY <1>0, <1>2, <2>1, <3>3, <3>8, DeciderStep DEF Lookup
  <2>4. CASE \E pc \in {"prompt", "deny"} : Goto(r, At(pc))
    <3>1. PICK pc \in {"prompt", "deny"} : Goto(r, At(pc))
      BY <2>4
    <3>2. decider'[r] = At(pc)
      BY <1>0, <3>1, GotoFrame
    <3>3. DeciderGrounds(r)'
      BY <1>2, <2>1, <3>2 DEF Lookup, DeciderGrounds, At, Upgrade, Kind
    <3> QED
      BY <1>0, <1>2, <2>1, <3>1, <3>3, DeciderStep DEF Lookup
  <2> QED
    BY <2>2, <2>3, <2>4
<1>3. CASE Prompt(r)
  <2>1. /\ store[r].status # "absent" /\ ~Upgrade(r)
        /\ Profile[store[r].scope].requireApproval
    BY <1>0, <1>3 DEF Prompt, DeciderGrounds
  <2>2. store[r].critical \in BOOLEAN
    BY <1>0 DEF TypeOK, StoredRequest
  <2>3. \/ r \in yes' /\ yes' = yes \cup {r} /\ ApproveAs(r, "authority", 0)
        \/ /\ r \in yes' /\ yes' = yes \cup {r} /\ ~store[r].critical
           /\ Goto(r, At("createLoad"))
        \/ yes' = yes /\ Goto(r, At("deny"))
    BY <1>3, <2>2 DEF Prompt, DenyNow
  <2>4. CASE r \in yes' /\ yes' = yes \cup {r} /\ ApproveAs(r, "authority", 0)
    <3> DEFINE next == [At("resolve") EXCEPT !.by = "authority", !.session = 0]
    <3>1. Goto(r, next)
      BY <2>4 DEF ApproveAs
    <3>2. next.pc = "resolve" /\ next.by = "authority" /\ next.write = {}
      BY DEF At
    <3> HIDE DEF next
    <3>3. decider'[r] = next
      BY <1>0, <3>1, GotoFrame
    <3>4. Justified(r, "authority", next.session)'
      BY <1>3, <2>1, <2>4 DEF Prompt, Justified, Upgrade, Kind
    <3>5. DeciderGrounds(r)'
      BY <1>3, <2>1, <3>2, <3>3, <3>4 DEF Prompt, DeciderGrounds
    <3> QED
      BY <1>0, <1>3, <2>1, <2>4, <3>1, <3>5, DeciderStep DEF Prompt
  <2>5. CASE /\ r \in yes' /\ yes' = yes \cup {r} /\ ~store[r].critical
             /\ Goto(r, At("createLoad"))
    <3>1. decider'[r] = At("createLoad")
      BY <1>0, <2>5, GotoFrame
    <3>2. DeciderGrounds(r)'
      BY <1>3, <2>1, <2>5, <3>1 DEF Prompt, DeciderGrounds, At, Upgrade, Kind
    <3> QED
      BY <1>0, <1>3, <2>1, <2>5, <3>2, DeciderStep DEF Prompt
  <2>6. CASE yes' = yes /\ Goto(r, At("deny"))
    <3>1. decider'[r] = At("deny")
      BY <1>0, <2>6, GotoFrame
    <3>2. DeciderGrounds(r)'
      BY <1>3, <2>1, <3>1 DEF Prompt, DeciderGrounds, At
    <3> QED
      BY <1>0, <1>3, <2>1, <2>6, <3>2, DeciderStep DEF Prompt
  <2> QED
    BY <2>3, <2>4, <2>5, <2>6
<1>4. CASE CreateLoad(r)
  <2> DEFINE g    == NewSession(store[r].scope, store[r].ttl, r, clock)
             next == [At("createSave") EXCEPT !.write = Appended(sessions, g, clock)]
  <2>1. /\ store[r].status # "absent" /\ ~Upgrade(r) /\ ~store[r].critical
        /\ Profile[store[r].scope].requireApproval /\ r \in yes
    BY <1>0, <1>4 DEF CreateLoad, DeciderGrounds
  <2>2. \/ minted' = Append(minted, g) /\ Goto(r, next)
        \/ minted' = minted /\ Goto(r, At("deny"))
    BY <1>4 DEF CreateLoad, DenyNow
  <2>3. CASE minted' = minted /\ Goto(r, At("deny"))
    <3>1. decider'[r] = At("deny")
      BY <1>0, <2>3, GotoFrame
    <3>2. DeciderGrounds(r)'
      BY <1>4, <2>1, <3>1 DEF CreateLoad, DeciderGrounds, At
    <3> QED
      BY <1>0, <1>4, <2>1, <2>3, <3>2, DeciderStep DEF CreateLoad
  <2>4. CASE minted' = Append(minted, g) /\ Goto(r, next)
    <3>1. g \in Session
      BY <1>0, NewSessionType DEF TypeOK, StoredRequest
    <3>2. g.opener = r /\ g.scope = store[r].scope
      BY DEF NewSession
    <3>3. Appended(sessions, g, clock) \subseteq DOMAIN minted \cup {Len(minted) + 1}
      BY <1>0 DEF Appended
    <3>4. /\ next.pc = "createSave" /\ next.write = Appended(sessions, g, clock)
      BY DEF At
    <3> HIDE DEF g, next
    <3>5. /\ DOMAIN minted' = DOMAIN minted \cup {Len(minted) + 1}
          /\ minted'[Len(minted) + 1] = g
      BY <1>0, <2>4, <3>1, MintedGrows
    <3>6. decider'[r] = next /\ \A q \in Requests \ {r} : decider'[q] = decider[q]
      BY <1>0, <2>4, GotoFrame
    <3>7. DeciderGrounds(r)'
      BY <1>4, <2>1, <3>3, <3>4, <3>5, <3>6 DEF CreateLoad, DeciderGrounds, Upgrade, Kind
    <3>8. \A q \in Requests : DeciderGrounds(q)'
      BY <3>6, <3>7, DeciderStable
    <3>9. \A q \in Requests : StoreGrounds(q)'
      <4>1. store' = store /\ yes' = yes
        BY <1>4 DEF CreateLoad
      <4>2. \A q \in Requests : q \in yes' => store[q].status # "absent"
        BY <4>1 DEF IInv, StoreGrounds
      <4> QED
        BY <4>1, <4>2, StoreStable
    <3>0. PICK n \in Nat : n = Len(minted) + 1
      BY <1>0 DEF TypeOK
    <3>10. Consented(n)'
      <4>1. store' = store /\ yes' = yes
        BY <1>4 DEF CreateLoad
      <4> QED
        BY <2>1, <3>0, <3>2, <3>5, <4>1 DEF Consented
    <3>11. SessionConsent'
      <4>1. sessions' = sessions
        BY <1>4 DEF CreateLoad
      <4>2. \A i \in DOMAIN minted' : Consented(i)'
        BY <3>0, <3>5, <3>10, ConsentStable
      <4> QED
        BY <1>0, <3>5, <4>1, <4>2 DEF SessionConsent
    <3>12. (\A c \in Clis : CliGrounds(c)') /\ autoApprove' <= lastCeiling'
      BY <1>4, CliStable DEF CreateLoad, cliVars, IInv
    <3> QED
      BY <3>8, <3>9, <3>11, <3>12 DEF IInv
  <2> QED
    BY <2>2, <2>3, <2>4
<1>5. CASE CreateSave(r)
  <2>1. /\ store[r].status # "absent" /\ ~Upgrade(r)
        /\ Profile[store[r].scope].requireApproval /\ r \in yes
        /\ decider[r].write \subseteq DOMAIN minted
    BY <1>0, <1>5 DEF CreateSave, DeciderGrounds
  <2>2. sessions' \subseteq DOMAIN minted
    BY <1>0, <1>5, <2>1 DEF CreateSave
  <2>3. ApproveAs(r, "authority", 0) \/ Goto(r, At("deny"))
    BY <1>5 DEF CreateSave, DenyNow
  <2>4. CASE ApproveAs(r, "authority", 0)
    <3> DEFINE next == [At("resolve") EXCEPT !.by = "authority", !.session = 0]
    <3>1. Goto(r, next)
      BY <2>4 DEF ApproveAs
    <3>2. next.pc = "resolve" /\ next.by = "authority" /\ next.write = {}
      BY DEF At
    <3> HIDE DEF next
    <3>3. decider'[r] = next
      BY <1>0, <3>1, GotoFrame
    <3>4. Justified(r, "authority", next.session)
      BY <2>1 DEF Justified
    <3>5. Justified(r, "authority", next.session)'
      BY <1>5, <2>1 DEF CreateSave, Justified, Upgrade, Kind
    <3>6. DeciderGrounds(r)'
      BY <1>5, <2>1, <3>2, <3>3, <3>5 DEF CreateSave, DeciderGrounds
    <3> QED
      BY <1>5, <2>1, <2>2, <3>1, <3>6, DeciderStep DEF CreateSave
  <2>5. CASE Goto(r, At("deny"))
    <3>1. decider'[r] = At("deny")
      BY <1>0, <2>5, GotoFrame
    <3>2. DeciderGrounds(r)'
      BY <1>5, <2>1, <3>1 DEF CreateSave, DeciderGrounds, At
    <3> QED
      BY <1>5, <2>1, <2>2, <2>5, <3>2, DeciderStep DEF CreateSave
  <2> QED
    BY <2>3, <2>4, <2>5
<1>6. CASE Resolve(r)
  <2> DEFINE expiry == clock + ProfileTTL(store[r].scope)
             next   == [decider[r] EXCEPT !.pc = "approve", !.lease = expiry]
  <2>1. store[r].status # "absent" /\ Justified(r, decider[r].by, decider[r].session)
        /\ decider[r].write \subseteq DOMAIN minted
    BY <1>0, <1>6 DEF Resolve, DeciderGrounds
  <2>2. expiry > 0
    <3>1. store[r].scope \in Scopes /\ store[r].ttl \in RequestedTTLs /\ clock \in Nat
      BY <1>0 DEF TypeOK, StoredRequest
    <3>2. ProfileTTL(store[r].scope) \in Nat \ {0}
      BY <3>1, SessionArithmetic
    <3> QED
      BY <3>1, <3>2
  <2>3. Goto(r, next) \/ Goto(r, At("deny"))
    BY <1>6 DEF Resolve, DenyNow
  <2> HIDE DEF expiry
  <2>4. CASE Goto(r, next)
    <3>1. /\ next.pc = "approve" /\ next.lease = expiry /\ next.by = decider[r].by
          /\ next.session = decider[r].session /\ next.write = decider[r].write
      BY <1>0 DEF TypeOK, DeciderState
    <3> HIDE DEF next
    <3>2. decider'[r] = next
      BY <1>0, <2>4, GotoFrame
    <3>0. PICK who \in Deciders, i \in Nat : decider[r].by = who /\ decider[r].session = i
      BY <1>0 DEF TypeOK, DeciderState
    <3>3. Justified(r, who, i)'
      BY <2>1, <3>0, JustifiedStable
    <3>4. DeciderGrounds(r)'
      BY <1>6, <2>1, <2>2, <3>0, <3>1, <3>2, <3>3 DEF Resolve, DeciderGrounds
    <3> QED
      BY <1>0, <1>6, <2>1, <2>4, <3>4, DeciderStep DEF Resolve
  <2>5. CASE Goto(r, At("deny"))
    <3>1. decider'[r] = At("deny")
      BY <1>0, <2>5, GotoFrame
    <3>2. DeciderGrounds(r)'
      BY <1>6, <2>1, <3>1 DEF Resolve, DeciderGrounds, At
    <3> QED
      BY <1>0, <1>6, <2>1, <2>5, <3>2, DeciderStep DEF Resolve
  <2> QED
    BY <2>3, <2>4, <2>5
<1>7. CASE Approve(r)
  <2>1. /\ store[r].status # "absent" /\ decider[r].lease > 0
        /\ Justified(r, decider[r].by, decider[r].session)
    BY <1>0, <1>7 DEF Approve, DeciderGrounds
  <2>2. \A q \in Requests : decider'[q] = decider[q] \/ decider'[q] = At("idle")
    BY <1>0, <1>7, GotoFrame DEF Approve
  <2>3. StoreGrounds(r)' /\ \A q \in Requests \ {r} : store'[q] = store[q]
    <3>1. CASE store' = store
      BY <1>0, <1>7, <2>1, <3>1, StoreStable DEF Approve
    <3>2. CASE Record(r, "approved", decider[r].by, decider[r].session, decider[r].lease)
      <4>1. /\ \A q \in Requests \ {r} : store'[q] = store[q]
            /\ store'[r].status = "approved" /\ store'[r].by = decider[r].by
            /\ store'[r].session = decider[r].session /\ store'[r].lease = decider[r].lease
        BY <1>0, <3>2, RecordFrame
      <4>2. PICK who \in Deciders, i \in Nat : decider[r].by = who /\ decider[r].session = i
        BY <1>0 DEF TypeOK, DeciderState
      <4>3. Justified(r, who, i)'
        BY <2>1, <4>2, JustifiedStable
      <4> QED
        BY <2>1, <4>1, <4>2, <4>3 DEF StoreGrounds
    <3> QED
      BY <1>7, <3>1, <3>2 DEF Approve
  <2> QED
    BY <1>7, <2>2, <2>3, RecordStep DEF Approve
<1>8. CASE Deny(r)
  <2>1. \A q \in Requests : decider'[q] = decider[q] \/ decider'[q] = At("idle")
    BY <1>0, <1>8, GotoFrame DEF Deny
  <2>2. StoreGrounds(r)' /\ \A q \in Requests \ {r} : store'[q] = store[q]
    <3>1. CASE store' = store
      <4>1. store[r].status # "absent"
        BY <1>0, <1>8 DEF Deny, DeciderGrounds
      <4> QED
        BY <1>0, <3>1, <4>1, StoreStable
    <3>2. CASE /\ store[r].status = "pending"
               /\ Record(r, "denied", "authority", store[r].session, store[r].lease)
      <4>1. /\ \A q \in Requests \ {r} : store'[q] = store[q]
            /\ store'[r].status = "denied" /\ store'[r].lease = store[r].lease
        BY <1>0, <3>2, RecordFrame
      <4>2. StoreGrounds(r)'
        BY <1>0, <3>2, <4>1 DEF StoreGrounds
      <4> QED
        BY <4>1, <4>2
    <3> QED
      BY <1>8, <3>1, <3>2 DEF Deny
  <2> QED
    BY <1>8, <2>1, <2>2, RecordStep DEF Deny
<1> QED
  BY <1>1, <1>2, <1>3, <1>4, <1>5, <1>6, <1>7, <1>8 DEF Decide

LEMMA ProceedsTo ==
  ASSUME TypeOK, NEW c \in Clis, NEW next, Proceed(c, next)
  PROVE  cli'[c] = next
  BY DEF Proceed, TypeOK

\* The grounds of the command that moves, and of the sessions.
LEMMA InvCliOwn ==
  ASSUME IInv, Frame, TypeOK', NEW c \in Clis, CliStep(c)
  PROVE  CliGrounds(c)' /\ SessionConsent'
<1> DEFINE g == NewSession(cli[c].scope, cli[c].ttl, cli[c].opener, GrantedAt(c))
<1>0. /\ TypeOK /\ CliGrounds(c) /\ cli[c] \in Cli /\ cli[c].critical \in BOOLEAN
      /\ sessions \subseteq DOMAIN minted /\ autoApprove <= lastCeiling
      /\ autoApprove \in Nat /\ lastCeiling \in Nat /\ clock \in Nat
  BY DEF IInv, TypeOK, SessionConsent, Cli
<1>1. CASE ~CliLoad(c) /\ ~CliSave(c)
  <2>1. minted' = minted /\ sessions' = sessions
    BY <1>1 DEF CliStep, CliStart, CliDirect, CliApprove, Command, CliRevoke, CliLookup,
                CliLease, CliPrompt
  <2>2. SessionConsent'
    BY <1>0, <2>1, ConsentStable DEF SessionConsent
  <2>3. CliGrounds(c)'
    <3>1. CASE End(c)
      <4>1. cli'[c] = IdleCli
        BY <1>0, <3>1, ProceedsTo DEF End
      <4> QED
        BY <4>1 DEF CliGrounds, IdleCli
    <3>2. CASE CliStart(c) \/ CliDirect(c) \/ CliApprove(c)
      <4>1. PICK pc \in {"load", "lookup", "lease", "prompt"}, o \in CliOpeners, s \in Scopes,
                 critical \in BOOLEAN, t \in RequestedTTLs :
              /\ Command(c, pc, o, s, critical, t)
              /\ pc = "load" => o = "start" \/ (o = "policy" /\ ~Profile[s].requireApproval)
              /\ pc # "load" => o \in {"prompt", "approver"}
        BY <3>2 DEF CliStart, CliDirect, CliApprove, CliOpeners
      <4> DEFINE next == [pc |-> pc, opener |-> o, scope |-> s, critical |-> critical,
                          ttl |-> t, at |-> clock, write |-> {}]
      <4>2. cli'[c] = next
        BY <1>0, <4>1, ProceedsTo DEF Command
      <4>3. /\ cli'[c].pc = pc /\ cli'[c].opener = o /\ cli'[c].scope = s
            /\ cli'[c].write = {}
        BY <4>2
      <4> QED
        BY <4>1, <4>3 DEF CliGrounds
    <3>3. CASE CliRevoke(c)
      <4>1. PICK i \in sessions :
              Proceed(c, [IdleCli EXCEPT !.pc = "save", !.write = sessions \ {i}])
        BY <3>3 DEF CliRevoke
      <4>2. cli'[c] = [IdleCli EXCEPT !.pc = "save", !.write = sessions \ {i}]
        BY <1>0, <4>1, ProceedsTo
      <4>3. cli'[c].pc = "save" /\ cli'[c].write = sessions \ {i}
        BY <4>2 DEF IdleCli
      <4> QED
        BY <1>0, <2>1, <4>3 DEF CliGrounds
    <3>4. CASE \E pc \in {"lease", "prompt"} : /\ cli[c].pc \in {"lookup", "lease"}
                                              /\ Proceed(c, [cli[c] EXCEPT !.pc = pc])
      <4>1. PICK pc \in {"lease", "prompt"} : Proceed(c, [cli[c] EXCEPT !.pc = pc])
        BY <3>4
      <4>2. cli'[c] = [cli[c] EXCEPT !.pc = pc]
        BY <1>0, <4>1, ProceedsTo
      <4>3. /\ cli'[c].pc = pc /\ cli'[c].opener = cli[c].opener
            /\ cli'[c].write = cli[c].write
        BY <1>0, <4>2 DEF Cli
      <4> QED
        BY <1>0, <2>1, <3>4, <4>3 DEF CliGrounds
    <3>5. CASE CliLease(c) /\ OpenAs(c, "lease") /\ ~cli[c].critical
               /\ <<"lease", cli[c].scope, FALSE>> \in consents'
               /\ cli[c].at < autoApprove
      <4>1. cli'[c] = [cli[c] EXCEPT !.pc = "load", !.opener = "lease"]
        BY <1>0, <3>5, ProceedsTo DEF OpenAs
      <4>2. /\ cli'[c].pc = "load" /\ cli'[c].opener = "lease" /\ cli'[c].scope = cli[c].scope
            /\ cli'[c].write = cli[c].write /\ cli'[c].at = cli[c].at /\ cli[c].at \in Nat
        BY <1>0, <4>1 DEF Cli
      <4>3. lastCeiling' = lastCeiling /\ cli[c].at < lastCeiling
        BY <1>0, <3>5, <4>2 DEF CliLease
      <4> QED
        BY <1>0, <2>1, <3>5, <4>2, <4>3 DEF CliGrounds
    <3>6. CASE CliPrompt(c) /\ OpenAs(c, cli[c].opener) /\ ~cli[c].critical
               /\ <<cli[c].opener, cli[c].scope, FALSE>> \in consents'
      <4>1. cli'[c] = [cli[c] EXCEPT !.pc = "load", !.opener = cli[c].opener]
        BY <1>0, <3>6, ProceedsTo DEF OpenAs
      <4>2. /\ cli'[c].pc = "load" /\ cli'[c].opener = cli[c].opener
            /\ cli'[c].scope = cli[c].scope /\ cli'[c].write = cli[c].write
        BY <1>0, <4>1 DEF Cli
      <4>3. cli[c].opener \in {"prompt", "approver"}
        BY <1>0, <3>6 DEF CliPrompt, CliGrounds
      <4> QED
        BY <1>0, <2>1, <3>6, <4>2, <4>3 DEF CliGrounds
    <3>7. CASE CliLookup(c)
      BY <3>1, <3>4, <3>7 DEF CliLookup
    <3>8. CASE CliLease(c)
      <4>1. \/ End(c)
            \/ Proceed(c, [cli[c] EXCEPT !.pc = "prompt"])
            \/ /\ OpenAs(c, "lease") /\ ~cli[c].critical /\ cli[c].at < autoApprove
               /\ <<"lease", cli[c].scope, cli[c].critical>> \in consents'
        BY <3>8 DEF CliLease, Unexpired
      <4>2. ~cli[c].critical => cli[c].critical = FALSE
        BY <1>0
      <4>3. cli[c].pc = "lease"
        BY <3>8 DEF CliLease
      <4> QED
        BY <3>1, <3>4, <3>5, <3>8, <4>1, <4>2, <4>3
    <3>9. CASE CliPrompt(c)
      <4>1. \/ End(c)
            \/ /\ OpenAs(c, cli[c].opener) /\ ~cli[c].critical
               /\ <<cli[c].opener, cli[c].scope, cli[c].critical>> \in consents'
        BY <3>9 DEF CliPrompt
      <4>2. ~cli[c].critical => cli[c].critical = FALSE
        BY <1>0
      <4> QED
        BY <3>1, <3>6, <3>9, <4>1, <4>2
    <3> QED
      BY <1>1, <3>2, <3>3, <3>7, <3>8, <3>9 DEF CliStep
  <2> QED
    BY <2>2, <2>3
<1>2. CASE CliSave(c)
  <2>1. cli'[c] = IdleCli /\ minted' = minted
    BY <1>0, <1>2, ProceedsTo DEF CliSave, End
  <2>2. sessions' \subseteq DOMAIN minted
    BY <1>0, <1>2 DEF CliSave, CliGrounds
  <2>3. SessionConsent'
    BY <2>1, <2>2, ConsentStable DEF SessionConsent
  <2> QED
    BY <2>1, <2>3 DEF CliGrounds, IdleCli
<1>3. CASE CliLoad(c)
  <2> DEFINE w == Appended(sessions, g, GrantedAt(c))
  <2>1. \/ minted' = minted /\ End(c)
        \/ minted' = Append(minted, g) /\ Proceed(c, [cli[c] EXCEPT !.pc = "save", !.write = w])
    BY <1>3 DEF CliLoad
  <2>2. sessions' = sessions /\ consents' = consents /\ lastCeiling' = lastCeiling
        /\ cli[c].pc = "load"
    BY <1>3 DEF CliLoad
  <2>3. CASE minted' = minted /\ End(c)
    <3>1. cli'[c] = IdleCli
      BY <1>0, <2>3, ProceedsTo DEF End
    <3>2. SessionConsent'
      BY <1>0, <2>2, <2>3, ConsentStable DEF SessionConsent
    <3> QED
      BY <3>1, <3>2 DEF CliGrounds, IdleCli
  <2>4. CASE minted' = Append(minted, g)
             /\ Proceed(c, [cli[c] EXCEPT !.pc = "save", !.write = w])
    <3>1. g \in Session
      BY <1>0, CliSession
    <3>2. /\ g.opener = cli[c].opener /\ g.scope = cli[c].scope
          /\ g.opener = "lease" => g.created = cli[c].at
      BY DEF NewSession, GrantedAt
    <3>3. w \subseteq DOMAIN minted \cup {Len(minted) + 1}
      BY <1>0 DEF Appended
    <3> HIDE DEF g, w
    <3>4. cli'[c] = [cli[c] EXCEPT !.pc = "save", !.write = w]
      BY <1>0, <2>4, ProceedsTo
    <3>5. cli'[c].pc = "save" /\ cli'[c].write = w
      BY <1>0, <3>4 DEF Cli
    <3>6. PICK n \in Nat : n = Len(minted) + 1
      BY <1>0 DEF TypeOK
    <3>7. DOMAIN minted' = DOMAIN minted \cup {n} /\ minted'[n] = g
      BY <1>0, <2>4, <3>1, <3>6, MintedGrows
    <3>8. Consented(n)'
      BY <1>0, <2>2, <3>2, <3>7 DEF Consented, CliGrounds
    <3>9. \A i \in DOMAIN minted' : Consented(i)'
      BY <3>7, <3>8, ConsentStable
    <3>10. SessionConsent'
      BY <1>0, <2>2, <3>7, <3>9 DEF SessionConsent
    <3> QED
      BY <3>3, <3>5, <3>6, <3>7, <3>10 DEF CliGrounds
  <2> QED
    BY <2>1, <2>3, <2>4
<1> QED
  BY <1>1, <1>2, <1>3

\* A step of a command keeps every grounds: it opens a session only on its own.
LEMMA InvCli ==
  ASSUME IInv, Frame, TypeOK', NEW c \in Clis, CliStep(c)
  PROVE  IInv'
<1> DEFINE g == NewSession(cli[c].scope, cli[c].ttl, cli[c].opener, GrantedAt(c))
<1>0. /\ TypeOK /\ CliGrounds(c) /\ cli[c] \in Cli
      /\ sessions \subseteq DOMAIN minted /\ autoApprove <= lastCeiling
  BY DEF IInv, TypeOK, SessionConsent
<1>1. /\ UNCHANGED <<store, decider, yes, autoApprove, lastCeiling>>
      /\ minted' = minted \/ minted' = Append(minted, g)
  BY CliFrame DEF daemonVars
<1>2. \A q \in Requests : DeciderGrounds(q)' /\ StoreGrounds(q)'
  <2>1. \A q \in Requests : q \in yes' => store[q].status # "absent"
    BY <1>1 DEF IInv, StoreGrounds
  <2> QED
    BY <1>1, <2>1, DeciderStable, StoreStable
<1>3. \A d \in Clis \ {c} : CliGrounds(d)'
  <2>1. \E next : cli' = [cli EXCEPT ![c] = next]
    BY DEF CliStep, CliStart, CliDirect, CliApprove, Command, CliRevoke, CliLookup, CliLease,
           CliPrompt, CliLoad, CliSave, Proceed, End, OpenAs
  <2>2. \A d \in Clis \ {c} : cli'[d] = cli[d]
    BY <1>0, <2>1 DEF TypeOK
  <2> QED
    BY <2>2, CliStable
<1>4. CliGrounds(c)' /\ SessionConsent'
  BY <1>0, <1>1, InvCliOwn
<1> QED
  BY <1>0, <1>1, <1>2, <1>3, <1>4 DEF IInv

LEMMA InvNext == IInv /\ [Next]_vars => IInv'
<1> SUFFICES ASSUME IInv, [Next]_vars
             PROVE  IInv'
  OBVIOUS
<1>0. Frame /\ TypeOK /\ TypeOK'
  BY FrameNext, TypeNext DEF IInv
<1>1. ASSUME NEW r \in Requests, Create(r)
      PROVE  IInv'
  BY <1>0, <1>1, InvCreate
<1>2. ASSUME NEW r \in Requests, Decide(r)
      PROVE  IInv'
  BY <1>0, <1>2, InvDecide
<1>3. ASSUME NEW r \in Requests, SignedDecision(r)
      PROVE  IInv'
  <2>1. PICK d \in Decision :
          \/ d.expires > 0 /\ Record(r, "approved", "signed", store[r].session, d.expires)
          \/ Record(r, "denied", "signed", store[r].session, store[r].lease)
    BY <1>3 DEF SignedDecision
  <2>2. store[r].status = "pending" /\ StoreGrounds(r)
    BY <1>3 DEF SignedDecision, IInv
  <2>3. /\ \A q \in Requests \ {r} : store'[q] = store[q]
        /\ store'[r].by = "signed"
        /\ \/ store'[r].status = "approved" /\ store'[r].lease = d.expires /\ d.expires > 0
           \/ store'[r].status = "denied" /\ store'[r].lease = store[r].lease
    BY <1>0, <2>1, RecordFrame
  <2>4. StoreGrounds(r)'
    BY <2>2, <2>3 DEF StoreGrounds
  <2> QED
    BY <1>0, <1>3, <2>3, <2>4, RecordStep DEF SignedDecision
<1>4. ASSUME NEW c \in Clis, CliStep(c)
      PROVE  IInv'
  BY <1>0, <1>4, InvCli
<1>5. ASSUME /\ UNCHANGED <<store, decider, minted, yes, cli>>
             /\ sessions' \subseteq DOMAIN minted /\ autoApprove' <= lastCeiling'
      PROVE  IInv'
  <2>1. \A q \in Requests : q \in yes' => store[q].status # "absent"
    BY <1>5 DEF IInv, StoreGrounds
  <2>2. \A q \in Requests : DeciderGrounds(q)' /\ StoreGrounds(q)'
    BY <1>0, <1>5, <2>1, DeciderStable, StoreStable
  <2>3. SessionConsent'
    BY <1>0, <1>5, ConsentStable DEF SessionConsent
  <2>4. \A c \in Clis : CliGrounds(c)'
    BY <1>0, <1>5, CliStable
  <2> QED
    BY <1>0, <1>5, <2>2, <2>3, <2>4 DEF IInv
<1>7. CASE CliRevokeAll
  BY <1>5, <1>7 DEF CliRevokeAll, IInv, cliVars, daemonVars
<1>8. CASE EnableLease \/ DisableLease
  <2>1. autoApprove' <= lastCeiling'
    BY <1>0, <1>8 DEF EnableLease, DisableLease, TypeOK
  <2> QED
    BY <1>5, <1>8, <2>1 DEF EnableLease, DisableLease, daemonVars, IInv, SessionConsent
<1>9. CASE PermissionsChange \/ Tick \/ UNCHANGED vars
  BY <1>5, <1>9 DEF PermissionsChange, Tick, vars, cliVars, daemonVars, IInv, SessionConsent
<1>10. ASSUME /\ UNCHANGED <<store, minted, sessions, cliVars, yes>>
              /\ \A q \in Requests :
                   \/ decider'[q] = decider[q]
                   \/ decider'[q] = At("idle")
                   \/ decider'[q] = At("validate") /\ store[q].status = "pending"
       PROVE  IInv'
  <2>1. \A q \in Requests : DeciderGrounds(q)'
    <3> SUFFICES ASSUME NEW q \in Requests
                 PROVE  DeciderGrounds(q)'
      OBVIOUS
    <3>1. CASE decider'[q] = decider[q]
      BY <1>0, <3>1, DeciderStable
    <3>2. CASE decider'[q] = At("idle")
      BY <3>2 DEF DeciderGrounds, At
    <3>3. CASE decider'[q] = At("validate") /\ store[q].status = "pending"
      BY <1>10, <3>3 DEF DeciderGrounds, At
    <3> QED
      BY <1>10, <3>1, <3>2, <3>3
  <2>2. \A q \in Requests : q \in yes' => store[q].status # "absent"
    BY <1>10 DEF IInv, StoreGrounds
  <2>3. \A q \in Requests : StoreGrounds(q)'
    BY <1>0, <1>10, <2>2, StoreStable
  <2>4. SessionConsent'
    BY <1>0, <1>10, ConsentStable DEF SessionConsent, IInv
  <2>5. (\A c \in Clis : CliGrounds(c)') /\ autoApprove' <= lastCeiling'
    BY <1>0, <1>10, CliStable DEF cliVars, IInv
  <2> QED
    BY <1>0, <1>10, <2>1, <2>3, <2>4, <2>5 DEF IInv
<1>11. CASE Crash
  <2>1. \A q \in Requests : decider'[q] = At("idle")
    BY <1>11 DEF Crash
  <2> QED
    BY <1>10, <1>11, <2>1 DEF Crash
<1>12. CASE Restart
  <2>1. \A q \in Requests :
          \/ decider'[q] = decider[q]
          \/ decider'[q] = At("idle")
          \/ decider'[q] = At("validate") /\ store[q].status = "pending"
    BY <1>12 DEF Restart
  <2> QED
    BY <1>10, <1>12, <2>1 DEF Restart
<1> QED
  BY <1>1, <1>2, <1>3, <1>4, <1>7, <1>8, <1>9, <1>11, <1>12 DEF Next

LEMMA Invariant == Spec => []IInv
  BY InvInit, InvNext, PTL DEF Spec

\* Every approval of the daemon itself has its grounds, whatever the number
\* of requests, sessions, faults and crashes.
THEOREM EveryApprovalJustified == Spec => []ApprovalJustified
<1>1. IInv => ApprovalJustified
  BY DEF IInv, StoreGrounds, ApprovalJustified
<1> QED
  BY <1>1, Invariant, PTL

\* Secrets are resolved, and held, only for requests that have their grounds.
THEOREM EverySecretAfterApproval == Spec => []SecretsAfterApproval
<1>1. IInv => SecretsAfterApproval
  BY DEF IInv, DeciderGrounds, SecretsAfterApproval
<1> QED
  BY <1>1, Invariant, PTL

\* Every session, in the file or about to be saved, was consented to.
THEOREM EverySessionConsented == Spec => []SessionConsent
<1>1. IInv => SessionConsent
  BY DEF IInv
<1> QED
  BY <1>1, Invariant, PTL

-----------------------------------------------------------------------------
(***************************************************************************)
(* The capped lifetime of sessions: every session was built with its cap,  *)
(* and nothing prolongs one afterwards.                                    *)
(***************************************************************************)
Cap(i) == SessionCap(MaxSession, Profile[minted[i].scope].maxSession)

Capped == \A i \in DOMAIN minted : minted[i].expires <= minted[i].created + Cap(i)

LEMMA NewSessionCapped ==
  ASSUME TypeOK, Capped, NEW s \in Scopes, NEW t \in RequestedTTLs,
         NEW o \in Requests \cup CliOpeners, NEW now \in Nat,
         minted' = Append(minted, NewSession(s, t, o, now))
  PROVE  Capped'
<1>1. PICK g \in Session : g = NewSession(s, t, o, now)
  BY NewSessionType
<1>2. PICK n \in Nat : n = Len(minted) + 1
  BY DEF TypeOK
<1>3. /\ DOMAIN minted' = DOMAIN minted \cup {n} /\ minted'[n] = g
      /\ \A i \in DOMAIN minted : minted'[i] = minted[i]
  BY <1>1, <1>2, MintedGrows
<1>4. g.expires <= g.created + SessionCap(MaxSession, Profile[g.scope].maxSession)
  <2>1. /\ SessionTTL(s, t) \in Nat
        /\ SessionCap(MaxSession, Profile[s].maxSession) \in Nat
        /\ SessionTTL(s, t) <= SessionCap(MaxSession, Profile[s].maxSession)
    BY SessionArithmetic
  <2>2. /\ g.scope = s /\ g.created = now /\ g.expires = now + SessionTTL(s, t)
        /\ now \in Nat
    BY <1>1 DEF NewSession
  <2> QED
    BY <2>1, <2>2
<1> QED
  BY <1>3, <1>4 DEF Capped, Cap

LEMMA CappedNext == TypeOK /\ Capped /\ [Next]_vars => Capped'
<1> SUFFICES ASSUME TypeOK, Capped, [Next]_vars
             PROVE  Capped'
  OBVIOUS
<1>1. CASE minted' = minted
  BY <1>1 DEF Capped, Cap
<1>2. ASSUME NEW r \in Requests, CreateLoad(r)
      PROVE  Capped'
  <2>1. \/ minted' = Append(minted, NewSession(store[r].scope, store[r].ttl, r, clock))
        \/ minted' = minted
    BY <1>2 DEF CreateLoad
  <2>2. store[r].scope \in Scopes /\ store[r].ttl \in RequestedTTLs /\ clock \in Nat
    BY DEF TypeOK, StoredRequest
  <2> QED
    BY <1>1, <2>1, <2>2, NewSessionCapped
<1>3. ASSUME NEW c \in Clis, CliStep(c)
      PROVE  Capped'
  <2>1. \/ minted' = minted
        \/ minted' = Append(minted, NewSession(cli[c].scope, cli[c].ttl, cli[c].opener,
                                               GrantedAt(c)))
    BY <1>3, CliFrame
  <2>2. /\ cli[c].scope \in Scopes /\ cli[c].ttl \in RequestedTTLs
        /\ cli[c].opener \in Requests \cup CliOpeners /\ GrantedAt(c) \in Nat
    BY CliSession DEF TypeOK, Cli
  <2> QED
    BY <1>1, <2>1, <2>2, NewSessionCapped
<1>4. \/ minted' = minted
      \/ \E r \in Requests : CreateLoad(r)
      \/ \E c \in Clis : CliStep(c)
  BY DEF Next, Decide, Create, Validate, Lookup, Prompt, CreateSave, Resolve, Approve, Deny,
         SignedDecision, CliRevokeAll, EnableLease, DisableLease, PermissionsChange, Crash,
         Restart, Tick, vars, cliVars, daemonVars
<1> QED
  BY <1>1, <1>2, <1>3, <1>4

\* No session outlives its cap, however it was requested and whichever content
\* of grants.json survives the races of its writers.
THEOREM EverySessionCapped == Spec => []SessionCapped
<1>1. Init => Capped
  BY DEF Init, Capped
<1>2. IInv /\ Capped => SessionCapped
  <2> SUFFICES ASSUME IInv, Capped, NEW i \in sessions,
                      clock >= minted[i].created + Cap(i)
               PROVE  i \notin ActiveSessions(minted[i].scope)
    BY DEF SessionCapped, Cap
  <2>1. i \in DOMAIN minted /\ minted[i] \in Session /\ clock \in Nat
    <3>1. minted \in Seq(Session) /\ clock \in Nat
      BY DEF IInv, TypeOK
    <3>2. i \in DOMAIN minted
      BY DEF IInv, SessionConsent
    <3> QED
      BY <3>1, <3>2
  <2>2. Cap(i) \in Nat
    <3>1. minted[i].scope \in Scopes /\ 0 \in RequestedTTLs
      BY <2>1, LocalAuthorityAssumption DEF Session
    <3> QED
      BY <3>1, SessionArithmetic DEF Cap
  <2>3. minted[i].expires <= minted[i].created + Cap(i)
    BY <2>1 DEF Capped
  <2>4. minted[i].expires \in Nat /\ minted[i].created \in Nat
    BY <2>1 DEF Session
  <2>5. ~Unexpired(minted[i].expires, clock)
    BY <2>1, <2>2, <2>3, <2>4 DEF Unexpired
  <2> QED
    BY <2>5 DEF ActiveSessions, ActiveAt
<1>3. IInv => TypeOK
  BY DEF IInv
<1> QED
  BY <1>1, <1>2, <1>3, CappedNext, Invariant, PTL DEF Spec

-----------------------------------------------------------------------------
\* A step of one decider: where it moves, and that the others stay.
LEMMA Moved ==
  ASSUME TypeOK, NEW q \in Requests, NEW pc
  PROVE  /\ Goto(q, At(pc)) => decider'[q].pc = pc
         /\ \A who, i : ApproveAs(q, who, i) => decider'[q].pc = "resolve"
         /\ \A w : Goto(q, [At(pc) EXCEPT !.write = w]) => decider'[q].pc = pc
         /\ \A l : Goto(q, [decider[q] EXCEPT !.pc = "approve", !.lease = l])
                     => decider'[q].pc = "approve"
<1>1. Goto(q, At(pc)) => decider'[q].pc = pc
  BY GotoFrame DEF At
<1>2. ASSUME NEW who, NEW i, ApproveAs(q, who, i)
      PROVE  decider'[q].pc = "resolve"
  <2> DEFINE next == [At("resolve") EXCEPT !.by = who, !.session = i]
  <2>1. next.pc = "resolve"
    BY DEF At
  <2>2. Goto(q, next)
    BY <1>2 DEF ApproveAs
  <2> HIDE DEF next
  <2> QED
    BY <2>1, <2>2, GotoFrame
<1>3. ASSUME NEW w, Goto(q, [At(pc) EXCEPT !.write = w])
      PROVE  decider'[q].pc = pc
  <2> DEFINE next == [At(pc) EXCEPT !.write = w]
  <2>1. next.pc = pc
    BY DEF At
  <2>2. Goto(q, next)
    BY <1>3
  <2> HIDE DEF next
  <2> QED
    BY <2>1, <2>2, GotoFrame
<1>4. ASSUME NEW l, Goto(q, [decider[q] EXCEPT !.pc = "approve", !.lease = l])
      PROVE  decider'[q].pc = "approve"
  <2> DEFINE next == [decider[q] EXCEPT !.pc = "approve", !.lease = l]
  <2>1. next.pc = "approve"
    BY DEF TypeOK, DeciderState
  <2>2. Goto(q, next)
    BY <1>4
  <2> HIDE DEF next
  <2> QED
    BY <2>1, <2>2, GotoFrame
<1> QED
  BY <1>1, <1>2, <1>3, <1>4

LEMMA NoOrphanNext == TypeOK /\ NoOrphan /\ [Next]_vars => NoOrphan'
<1> SUFFICES ASSUME TypeOK, NoOrphan, [Next]_vars, up', LocalApprove, faults' = 0,
                    NEW r \in Requests, store'[r].status = "pending", ~Upgrade(r)'
             PROVE  decider'[r].pc # "idle"
  BY DEF NoOrphan
<1>0. faults \in Nat
  BY DEF TypeOK
<1>1. ASSUME NEW q \in Requests, Create(q)
      PROVE  decider'[r].pc # "idle"
  <2>1. /\ \A p \in Requests \ {q} : store'[p] = store[p]
        /\ Goto(q, At("validate")) /\ up' = up /\ faults' = faults
    BY <1>1 DEF Create, TypeOK
  <2>2. /\ decider'[q] = At("validate")
        /\ \A p \in Requests \ {q} : decider'[p] = decider[p]
    BY <2>1, GotoFrame
  <2> QED
    BY <2>1, <2>2 DEF NoOrphan, Upgrade, Kind, At
<1>2. ASSUME NEW q \in Requests, Decide(q)
      PROVE  decider'[r].pc # "idle"
  <2>1. up' = up /\ faults = 0
    <3>1. up' = up
      BY <1>2 DEF Decide, Validate, Lookup, Prompt, CreateLoad, CreateSave, Resolve,
                  Approve, Deny
    <3>2. faults' = faults \/ Fault
      BY <1>2 DEF Decide, Validate, Lookup, Prompt, CreateLoad, CreateSave, Resolve,
                  Approve, Deny
    <3>3. faults' = faults \/ faults' = faults + 1
      BY <3>2 DEF Fault
    <3>4. faults = 0
      BY <1>0, <3>3
    <3> QED
      BY <3>1, <3>4
  <2>0. ~Fault
    BY <1>0, <2>1 DEF Fault
  <2>2. CASE Approve(q) \/ Deny(q)
    <3>1. store'[q].status # "pending" /\ \A p \in Requests \ {q} : store'[p] = store[p]
      <4>1. CASE store' = store /\ store[q].status # "pending"
        BY <4>1
      <4>2. CASE Approve(q) /\ ~(store' = store /\ store[q].status # "pending")
        <5>1. Record(q, "approved", decider[q].by, decider[q].session, decider[q].lease)
          BY <2>0, <4>2 DEF Approve
        <5> QED
          BY <5>1, RecordFrame
      <4>3. CASE Deny(q) /\ ~(store' = store /\ store[q].status # "pending")
        <5> DEFINE session == store[q].session
                   lease   == store[q].lease
        <5>1. Record(q, "denied", "authority", session, lease)
          BY <2>0, <4>3 DEF Deny
        <5> HIDE DEF session, lease
        <5> QED
          BY <5>1, RecordFrame
      <4> QED
        BY <2>2, <4>1, <4>2, <4>3
    <3>2. \A p \in Requests \ {q} : decider'[p] = decider[p]
      BY <2>2, GotoFrame DEF Approve, Deny
    <3> QED
      BY <2>1, <3>1, <3>2 DEF NoOrphan, Upgrade, Kind
  <2>3. CASE ~(Approve(q) \/ Deny(q))
    <3>1. store' = store
      BY <1>2, <2>3 DEF Decide, Validate, Lookup, Prompt, CreateLoad, CreateSave, Resolve
    <3>2. store[r].status = "pending" /\ ~Upgrade(r) /\ decider[r].pc # "idle"
      BY <2>1, <3>1 DEF NoOrphan, Upgrade, Kind
    <3>3. decider'[q].pc # "idle" \/ Upgrade(q)
      <4>1. CASE Validate(q)
        BY <4>1, Moved DEF Validate, DenyNow
      <4>2. CASE Lookup(q)
        BY <4>2, Moved DEF Lookup, DenyNow
      <4>3. CASE Prompt(q)
        BY <4>3, Moved DEF Prompt, DenyNow
      <4>4. CASE CreateLoad(q)
        <5> DEFINE w == Appended(sessions, NewSession(store[q].scope, store[q].ttl, q, clock), clock)
        <5>1. Goto(q, At("deny")) \/ Goto(q, [At("createSave") EXCEPT !.write = w])
          BY <4>4 DEF CreateLoad, DenyNow
        <5> HIDE DEF w
        <5> QED
          BY <5>1, Moved
      <4>5. CASE CreateSave(q)
        BY <4>5, Moved DEF CreateSave, DenyNow
      <4>6. CASE Resolve(q)
        <5> DEFINE l == clock + ProfileTTL(store[q].scope)
        <5>1. \/ Goto(q, At("deny"))
              \/ Goto(q, [decider[q] EXCEPT !.pc = "approve", !.lease = l])
          BY <4>6 DEF Resolve, DenyNow
        <5> HIDE DEF l
        <5> QED
          BY <5>1, Moved
      <4> QED
        BY <1>2, <2>3, <4>1, <4>2, <4>3, <4>4, <4>5, <4>6 DEF Decide
    <3>4. \A p \in Requests \ {q} : decider'[p] = decider[p]
      <4>1. \E next : decider' = [decider EXCEPT ![q] = next]
        BY <1>2 DEF Decide, Validate, Lookup, Prompt, CreateLoad, CreateSave, Resolve,
                    Approve, Deny, DenyNow, ApproveAs, Goto
      <4> QED
        BY <4>1 DEF TypeOK
    <3> QED
      BY <3>2, <3>3, <3>4
  <2> QED
    BY <2>2, <2>3
<1>3. ASSUME NEW q \in Requests, SignedDecision(q)
      PROVE  decider'[r].pc # "idle"
  <2>1. \/ \E who, i, l : Record(q, "approved", who, i, l)
        \/ \E who, i, l : Record(q, "denied", who, i, l)
    BY <1>3 DEF SignedDecision
  <2>2. store'[q].status # "pending" /\ \A p \in Requests \ {q} : store'[p] = store[p]
    BY <2>1, RecordFrame
  <2>3. up' = up /\ faults' = faults /\ decider' = decider
    BY <1>3 DEF SignedDecision
  <2> QED
    BY <2>2, <2>3 DEF NoOrphan, Upgrade, Kind
<1>4. CASE Crash
  BY <1>4 DEF Crash
<1>5. CASE Restart
  <2>1. decider' = [q \in Requests |->
             IF LocalApprove /\ store[q].status = "pending"
             THEN At("validate") ELSE At("idle")] /\ store' = store
    BY <1>0, <1>5 DEF Restart, Fault
  <2> QED
    BY <2>1 DEF At
<1>6. ASSUME NEW c \in Clis, CliStep(c)
      PROVE  decider'[r].pc # "idle"
  <2>1. faults' = faults \/ Fault
    BY <1>6 DEF CliStep, CliStart, CliDirect, CliApprove, Command, CliRevoke, CliLookup,
                CliLease, CliPrompt, CliLoad, CliSave
  <2>2. faults = 0
    BY <1>0, <2>1 DEF Fault
  <2>3. UNCHANGED daemonVars
    BY <1>6, CliFrame
  <2> QED
    BY <2>2, <2>3 DEF daemonVars, NoOrphan, Upgrade, Kind
<1>7. CASE CliRevokeAll \/ EnableLease \/ DisableLease
  BY <1>7 DEF CliRevokeAll, EnableLease, DisableLease, daemonVars, NoOrphan, Upgrade, Kind
<1>8. CASE PermissionsChange \/ Tick \/ UNCHANGED vars
  BY <1>8 DEF PermissionsChange, Tick, vars, daemonVars, NoOrphan, Upgrade, Kind
<1> QED
  BY <1>1, <1>2, <1>3, <1>4, <1>5, <1>6, <1>7, <1>8 DEF Next

\* With --local-approve and no failed file operation, a running daemon has a
\* decider at work on every pending command or vault request.
THEOREM NoRequestOrphaned == Spec => []NoOrphan
<1>1. Init => NoOrphan
  BY DEF Init, NoOrphan, NoRequest
<1> QED
  BY <1>1, NoOrphanNext, TypeCorrect, PTL DEF Spec

-----------------------------------------------------------------------------
\* What the refinement mapping shows of the store after a change of request q.
LEMMA MappedStore ==
  ASSUME NEW q \in Requests, TypeOK, TypeOK',
         \A p \in Requests \ {q} : store'[p] = store[p]
  PROVE  /\ [r \in Requests |-> store'[r].status]
              = [[r \in Requests |-> store[r].status] EXCEPT ![q] = store'[q].status]
         /\ [r \in Requests |-> store'[r].lease]
              = [[r \in Requests |-> store[r].lease] EXCEPT ![q] = store'[q].lease]
  OBVIOUS

\* A decision recorded on a pending request is a step of the lifecycle.
LEMMA RecordRefines ==
  ASSUME IInv, IInv', NEW q \in Requests, store[q].status = "pending",
         NEW status \in {"approved", "denied"}, NEW who, NEW i, NEW l,
         Record(q, status, who, i, l)
  PROVE  Lifecycle!Grant(q) \/ Lifecycle!Refuse(q)
<1> DEFINE st == [r \in Requests |-> store[r].status]
           ls == [r \in Requests |-> store[r].lease]
<1>1. TypeOK /\ TypeOK' /\ StoreGrounds(q) /\ StoreGrounds(q)'
  BY DEF IInv
<1>2. /\ \A p \in Requests \ {q} : store'[p] = store[p]
      /\ store'[q].status = status
  BY <1>1, RecordFrame
<1>3. /\ st' = [st EXCEPT ![q] = store'[q].status]
      /\ ls' = [ls EXCEPT ![q] = store'[q].lease]
  BY <1>1, <1>2, MappedStore
<1>4. /\ store[q] \in StoredRequest /\ store'[q] \in StoredRequest
  BY <1>1 DEF TypeOK
<1>5. store[q].lease = 0
  BY <1>1, <1>4 DEF StoreGrounds, StoredRequest
<1>6. CASE status = "approved"
  <2>1. store'[q].lease \in Nat \ {0}
    BY <1>1, <1>2, <1>4, <1>6 DEF StoreGrounds, StoredRequest
  <2>2. ls'[q] = store'[q].lease /\ st[q] = "pending"
    OBVIOUS
  <2>3. Lifecycle!Grant(q)
    BY <1>2, <1>3, <1>6, <2>1, <2>2 DEF Lifecycle!Grant
  <2> QED
    BY <2>3
<1>7. CASE status = "denied"
  <2>1. store'[q].lease = 0
    BY <1>1, <1>2, <1>4, <1>7 DEF StoreGrounds, StoredRequest
  <2>2. ls' = ls
    BY <1>3, <1>5, <2>1
  <2>3. Lifecycle!Refuse(q)
    BY <1>2, <1>3, <1>7, <2>2 DEF Lifecycle!Refuse
  <2> QED
    BY <2>3
<1> QED
  BY <1>6, <1>7

LEMMA StepRefines == IInv /\ IInv' /\ [Next]_vars => [Lifecycle!Next]_(Lifecycle!vars)
<1> SUFFICES ASSUME IInv, IInv', [Next]_vars
             PROVE  [Lifecycle!Next]_(Lifecycle!vars)
  OBVIOUS
<1> USE DEF Lifecycle!Next
<1>0. TypeOK /\ TypeOK'
  BY DEF IInv
<1>1. CASE store' = store
  BY <1>1 DEF Lifecycle!vars
<1>2. ASSUME NEW q \in Requests, Create(q)
      PROVE  Lifecycle!Submit(q)
  <2>1. PICK s \in Scopes, c \in BOOLEAN, t \in RequestedTTLs :
          store' = [store EXCEPT ![q] = Submitted(s, c, t)]
    BY <1>2 DEF Create
  <2>2. store[q].status = "absent" /\ StoreGrounds(q)
    BY <1>2 DEF Create, IInv
  <2>3. /\ \A p \in Requests \ {q} : store'[p] = store[p]
        /\ store'[q].status = "pending" /\ store'[q].lease = 0
    BY <1>0, <2>1 DEF TypeOK, Submitted, NoRequest
  <2>4. store[q].lease = 0
    BY <1>0, <2>2 DEF StoreGrounds, TypeOK, StoredRequest
  <2>5. /\ [r \in Requests |-> store'[r].status]
            = [[r \in Requests |-> store[r].status] EXCEPT ![q] = "pending"]
        /\ [r \in Requests |-> store'[r].lease] = [r \in Requests |-> store[r].lease]
    BY <1>0, <2>3, <2>4, MappedStore
  <2> QED
    BY <2>2, <2>5 DEF Lifecycle!Submit
<1>3. ASSUME NEW q \in Requests, Approve(q), store' # store
      PROVE  Lifecycle!Grant(q) \/ Lifecycle!Refuse(q)
  <2>1. /\ store[q].status = "pending"
        /\ Record(q, "approved", decider[q].by, decider[q].session, decider[q].lease)
    BY <1>3 DEF Approve
  <2> QED
    BY <2>1, RecordRefines
<1>4. ASSUME NEW q \in Requests, Deny(q), store' # store
      PROVE  Lifecycle!Grant(q) \/ Lifecycle!Refuse(q)
  <2> DEFINE session == store[q].session
             lease   == store[q].lease
  <2>1. store[q].status = "pending" /\ Record(q, "denied", "authority", session, lease)
    BY <1>4 DEF Deny
  <2> HIDE DEF session, lease
  <2> QED
    BY <2>1, RecordRefines
<1>5. ASSUME NEW q \in Requests, SignedDecision(q)
      PROVE  Lifecycle!Grant(q) \/ Lifecycle!Refuse(q)
  <2> DEFINE session == store[q].session
             lease   == store[q].lease
  <2>1. PICK d \in Decision :
          IF d.approved THEN Record(q, "approved", "signed", session, d.expires)
          ELSE Record(q, "denied", "signed", session, lease)
    BY <1>5 DEF SignedDecision
  <2>2. store[q].status = "pending"
    BY <1>5 DEF SignedDecision
  <2> HIDE DEF session, lease
  <2>3. CASE d.approved
    BY <2>1, <2>2, <2>3, RecordRefines
  <2>4. CASE ~d.approved
    BY <2>1, <2>2, <2>4, RecordRefines
  <2> QED
    BY <2>3, <2>4
<1>6. \/ store' = store
      \/ \E q \in Requests : \/ Create(q) \/ SignedDecision(q)
                             \/ (Approve(q) \/ Deny(q)) /\ store' # store
  BY CliFrame DEF Next, Decide, Validate, Lookup, Prompt, CreateLoad, CreateSave, Resolve,
         CliRevokeAll, EnableLease, DisableLease, PermissionsChange, Crash,
         Restart, Tick, vars, daemonVars
<1> QED
  BY <1>1, <1>2, <1>3, <1>4, <1>5, <1>6

\* The deciders, the signed approvers, the crashes and the restarts together
\* implement the lifecycle of a request: it is decided at most once, and
\* approved only with a lease.
THEOREM DecidedOnce == Spec => ImplementsLifecycle
<1>1. Init => Lifecycle!Init
  BY DEF Init, Lifecycle!Init, NoRequest
<1>2. IInv /\ IInv' /\ [Next]_vars => [Lifecycle!Next]_(Lifecycle!vars)
  BY StepRefines
<1> QED
  BY <1>1, <1>2, Invariant, PTL DEF Spec, ImplementsLifecycle, Lifecycle!Spec

\* The daemon and its deciders are always as they should be, for every value of the
\* constants: the theorems above together.
THEOREM AuthorityAlwaysSound == Spec => []AuthoritySound
BY TypeCorrect, EveryApprovalJustified, EverySecretAfterApproval, NoRequestOrphaned, PTL
   DEF AuthoritySound
=============================================================================
