--------------------------- MODULE UpgradeFlowProofs ---------------------------
(***************************************************************************)
(* Proofs about UpgradeFlow for every set of requests, operators and       *)
(* revoke processes and for every bound.                                   *)
(***************************************************************************)
EXTENDS UpgradeFlow, TLAPS

-----------------------------------------------------------------------------
\* Appending, tearing and rewriting a grant file yield grant files.
LEMMA FileType ==
  ASSUME NEW f \in File, NEW g \in Grant
  PROVE  /\ AppendTo(f, g) \in File
         /\ Torn(f, g) \subseteq File
         /\ Readable(f) \subseteq Grant
         /\ EmptyFile \in File
         /\ \A keep \in SUBSET Grant : [lines |-> keep, tail |-> NoTail] \in File
<1>1. f.lines \in SUBSET Grant /\ f.tail \in Tails
  BY DEF File
<1>2. NoTail \in Tails /\ Fragment \in Tails /\ [kind |-> "grant", grant |-> g] \in Tails
  BY DEF Tails, NoTail, Fragment
<1>3. AppendTo(f, g) \in File
  BY <1>1, <1>2 DEF AppendTo, File
<1>4. Torn(f, g) \subseteq File
  BY <1>1, <1>2 DEF Torn, File
<1>5. Readable(f) \subseteq Grant
  BY <1>1 DEF Readable, Tails
<1>6. \A keep \in SUBSET Grant : [lines |-> keep, tail |-> NoTail] \in File
  BY <1>2 DEF File
<1> QED
  BY <1>3, <1>4, <1>5, <1>6 DEF EmptyFile

\* What a file holds after an append, complete or torn, was there before or
\* is the appended grant.
LEMMA AppendReads ==
  ASSUME NEW f \in File, NEW g \in Grant
  PROVE  /\ Readable(AppendTo(f, g)) \subseteq Readable(f) \cup {g}
         /\ \A t \in Torn(f, g) : Readable(t) \subseteq Readable(f) \cup {g}
<1>1. f.lines \in SUBSET Grant /\ f.tail \in Tails
  BY DEF File
<1>2. Readable(AppendTo(f, g)) \subseteq Readable(f) \cup {g}
  BY <1>1 DEF AppendTo, Readable, NoTail
<1>3. ASSUME NEW t \in Torn(f, g)
      PROVE  Readable(t) \subseteq Readable(f) \cup {g}
  <2>1. \/ t = f
        \/ t.lines = f.lines /\ t.tail = Fragment
        \/ t.lines = f.lines /\ t.tail = [kind |-> "grant", grant |-> g]
    BY <1>1 DEF Torn, File
  <2> QED
    BY <2>1 DEF Readable, Fragment
<1> QED
  BY <1>2, <1>3

\* The records the handler actions build are handlers.
LEMMA HandlerType ==
  ASSUME TypeOK, NEW o \in Operators
  PROVE  /\ \A a \in {"none", "applied", "denied", "refused", "failed"} :
              Answer(o, a) => op' \in [Operators -> Handler]
         /\ \A pc \in {"open", "write"} :
              /\ op' = [op EXCEPT ![o].pc = pc]
              /\ op[o].pc # "idle" /\ op[o].mode # "deny"
              => op' \in [Operators -> Handler]
         /\ IdleHandler \in Handler
<1>1. op \in [Operators -> Handler] /\ op[o] \in Handler
  BY DEF TypeOK
<1>2. IdleHandler \in Handler
  BY DEF IdleHandler, Handler
<1>3. ASSUME NEW a \in {"none", "applied", "denied", "refused", "failed"}, Answer(o, a)
      PROVE  op' \in [Operators -> Handler]
  <2> DEFINE h == [IdleHandler EXCEPT !.req = op[o].req, !.answer = a]
  <2>1. h \in Handler
    BY <1>1 DEF IdleHandler, Handler
  <2>2. op' = [op EXCEPT ![o] = h]
    BY <1>3 DEF Answer
  <2> HIDE DEF h
  <2> QED
    BY <1>1, <2>1, <2>2
<1>4. ASSUME NEW pc \in {"open", "write"}, op' = [op EXCEPT ![o].pc = pc],
             op[o].pc # "idle", op[o].mode # "deny"
      PROVE  op' \in [Operators -> Handler]
  <2> DEFINE h == [op[o] EXCEPT !.pc = pc]
  <2>1. h \in Handler
    BY <1>1, <1>4 DEF Handler
  <2>2. op' = [op EXCEPT ![o] = h]
    BY <1>1, <1>4
  <2> HIDE DEF h
  <2> QED
    BY <1>1, <2>1, <2>2
<1> QED
  BY <1>2, <1>3, <1>4

\* An audit line about a request keeps the type of the audit.
LEMMA AuditType ==
  ASSUME TypeOK, NEW r \in Requests
  PROVE  /\ Audit("applied", r) => audit' \subseteq Events \X (Requests \cup Files)
         /\ Audit("grant_failed", r) => audit' \subseteq Events \X (Requests \cup Files)
         /\ Audit("revoked", r) => audit' \subseteq Events \X (Requests \cup Files)
<1>1. audit \subseteq Events \X (Requests \cup Files)
  BY DEF TypeOK
<1>2. /\ <<"applied", r>> \in Events \X (Requests \cup Files)
      /\ <<"grant_failed", r>> \in Events \X (Requests \cup Files)
      /\ <<"revoked", r>> \in Events \X (Requests \cup Files)
  BY DEF Events
<1> QED
  BY <1>1, <1>2 DEF Audit

\* The content a revoke --id saves.
Saved(c) == [lines |-> cli[c].keep, tail |-> NoTail]

\* How a revoke --id moves: the others stay, and so do the requests.
LEMMA RevokeMoves ==
  ASSUME TypeOK, NEW c \in Clis
  PROVE  /\ RevokeFind(c) \/ RevokeStat(c) \/ RevokeLoad(c) \/ RevokeSave(c) =>
              /\ cli'[c] \in Cli /\ \A d \in Clis \ {c} : cli'[d] = cli[d]
              /\ \E h : cli' = [cli EXCEPT ![c] = h]
              /\ audit' = audit \/ (Audit("revoked", cli[c].id) /\ cli[c].id \in Requests)
              /\ files' = files \/ files' \in [Files -> File]
              /\ op' = op
         /\ RevokeFind(c) =>
              /\ cli[c].pc = "idle" /\ cli'[c].pc = "stat" /\ cli'[c].file \in Files
              /\ \E g \in Readable(files[cli'[c].file]) : g.id = cli'[c].id
              /\ files' = files /\ audit' = audit
         /\ RevokeStat(c) =>
              /\ cli[c].pc = "stat" /\ files' = files
              /\ \/ /\ cli'[c].pc = "idle" /\ files[cli[c].file] = EmptyFile
                    /\ Audit("revoked", cli[c].id)
                 \/ /\ cli'[c].pc = "lock" /\ cli'[c].file = cli[c].file
                    /\ cli'[c].id = cli[c].id /\ audit' = audit
         /\ RevokeLoad(c) =>
              /\ cli[c].pc = "lock" /\ files' = files
              /\ \/ /\ cli'[c].pc = "idle" /\ ~Locked(cli[c].file)
                    /\ \A g \in Readable(files[cli[c].file]) : g.id # cli[c].id
                    /\ Audit("revoked", cli[c].id)
                 \/ /\ cli'[c].pc = "save" /\ ~Locked(cli[c].file)
                    /\ cli'[c].file = cli[c].file /\ cli'[c].id = cli[c].id
                    /\ cli'[c].keep = Without(Readable(files[cli[c].file]), cli[c].id)
                    /\ audit' = audit
                 \/ cli'[c].pc = "idle" /\ audit' = audit
         /\ RevokeSave(c) =>
              /\ cli[c].pc = "save" /\ cli'[c].pc = "idle"
              /\ \/ /\ files' = [files EXCEPT ![cli[c].file] = Saved(c)]
                    /\ Audit("revoked", cli[c].id)
                 \/ files' = files /\ audit' = audit
<1>0. cli \in [Clis -> Cli] /\ files \in [Files -> File] /\ cli[c] \in Cli
  BY DEF TypeOK
<1>i. IdleCli \in Cli /\ IdleCli.pc = "idle"
  BY DEF IdleCli, Cli, Files
<1>f. cli[c].file \in Files /\ cli[c].keep \subseteq Grant /\ (cli[c].pc # "idle" => cli[c].id \in Requests)
  BY <1>0 DEF Cli
<1>e. ASSUME NEW h, cli' = [cli EXCEPT ![c] = h]
      PROVE  cli'[c] = h /\ \A d \in Clis \ {c} : cli'[d] = cli[d]
  BY <1>0, <1>e
<1>g. \A k \in Files : Readable(files[k]) \subseteq Grant
  BY <1>0 DEF Readable, File, Tails
<1>1. ASSUME RevokeFind(c)
      PROVE  /\ cli'[c] \in Cli /\ \E h : cli' = [cli EXCEPT ![c] = h]
             /\ cli[c].pc = "idle" /\ cli'[c].pc = "stat" /\ cli'[c].file \in Files
             /\ \E g \in Readable(files[cli'[c].file]) : g.id = cli'[c].id
             /\ files' = files /\ audit' = audit /\ op' = op
  <2>1. PICK k \in Files, r \in Requests :
          /\ \E g \in Readable(files[k]) : g.id = r
          /\ cli' = [cli EXCEPT ![c] = [IdleCli EXCEPT !.pc = "stat", !.file = k, !.id = r]]
    BY <1>1 DEF RevokeFind
  <2> DEFINE h == [IdleCli EXCEPT !.pc = "stat", !.file = k, !.id = r]
  <2>2. h \in Cli /\ h.pc = "stat" /\ h.file = k /\ h.id = r
    BY DEF IdleCli, Cli
  <2>3. cli' = [cli EXCEPT ![c] = h]
    BY <2>1
  <2> HIDE DEF h
  <2> QED
    BY <1>1, <1>e, <2>1, <2>2, <2>3 DEF RevokeFind
<1>2. ASSUME RevokeStat(c)
      PROVE  /\ cli'[c] \in Cli /\ \E h : cli' = [cli EXCEPT ![c] = h]
             /\ cli[c].pc = "stat" /\ files' = files /\ op' = op
             /\ \/ /\ cli'[c].pc = "idle" /\ files[cli[c].file] = EmptyFile
                   /\ Audit("revoked", cli[c].id)
                \/ /\ cli'[c].pc = "lock" /\ cli'[c].file = cli[c].file
                   /\ cli'[c].id = cli[c].id /\ audit' = audit
  <2> DEFINE h == [cli[c] EXCEPT !.pc = "lock"]
  <2>1. cli[c].pc = "stat" /\ files' = files /\ op' = op
    BY <1>2 DEF RevokeStat
  <2>2. h \in Cli /\ h.pc = "lock" /\ h.file = cli[c].file /\ h.id = cli[c].id
    BY <1>0, <1>f, <2>1 DEF Cli
  <2>3. \/ /\ files[cli[c].file] = EmptyFile /\ Audit("revoked", cli[c].id)
           /\ cli' = [cli EXCEPT ![c] = IdleCli]
        \/ cli' = [cli EXCEPT ![c] = h] /\ audit' = audit
    BY <1>0, <1>2 DEF RevokeStat, Report
  <2> HIDE DEF h
  <2> QED
    BY <1>e, <1>i, <2>1, <2>2, <2>3
<1>3. ASSUME RevokeLoad(c)
      PROVE  /\ cli'[c] \in Cli /\ \E h : cli' = [cli EXCEPT ![c] = h]
             /\ cli[c].pc = "lock" /\ files' = files /\ op' = op
             /\ \/ /\ cli'[c].pc = "idle" /\ ~Locked(cli[c].file)
                   /\ \A g \in Readable(files[cli[c].file]) : g.id # cli[c].id
                   /\ Audit("revoked", cli[c].id)
                \/ /\ cli'[c].pc = "save" /\ ~Locked(cli[c].file)
                   /\ cli'[c].file = cli[c].file /\ cli'[c].id = cli[c].id
                   /\ cli'[c].keep = Without(Readable(files[cli[c].file]), cli[c].id)
                   /\ audit' = audit
                \/ cli'[c].pc = "idle" /\ audit' = audit
  <2> DEFINE keep == Without(Readable(files[cli[c].file]), cli[c].id)
             h    == [cli[c] EXCEPT !.pc = "save", !.keep = keep]
  <2>1. cli[c].pc = "lock" /\ files' = files /\ op' = op
    BY <1>3 DEF RevokeLoad
  <2>2. keep \subseteq Grant
    BY <1>f, <1>g DEF Without
  <2>3. keep = Readable(files[cli[c].file]) =>
          \A g \in Readable(files[cli[c].file]) : g.id # cli[c].id
    BY DEF Without
  <2>4. \/ /\ keep = Readable(files[cli[c].file]) /\ Audit("revoked", cli[c].id)
           /\ ~Locked(cli[c].file) /\ cli' = [cli EXCEPT ![c] = IdleCli]
        \/ cli' = [cli EXCEPT ![c] = h] /\ audit' = audit /\ ~Locked(cli[c].file)
        \/ cli' = [cli EXCEPT ![c] = IdleCli] /\ audit' = audit
    BY <1>0, <1>3 DEF RevokeLoad, Loaded, Report
  <2> HIDE DEF keep
  <2>5. h \in Cli /\ h.pc = "save" /\ h.file = cli[c].file /\ h.id = cli[c].id /\ h.keep = keep
    BY <1>0, <1>f, <2>1, <2>2 DEF Cli
  <2> HIDE DEF h
  <2>6. CASE cli' = [cli EXCEPT ![c] = h] /\ audit' = audit /\ ~Locked(cli[c].file)
    BY <1>e, <2>1, <2>5, <2>6 DEF keep
  <2>7. CASE cli' = [cli EXCEPT ![c] = IdleCli]
    BY <1>e, <1>i, <2>1, <2>3, <2>4, <2>7, <2>5 DEF keep
  <2> QED
    BY <2>4, <2>6, <2>7
<1>4. ASSUME RevokeSave(c)
      PROVE  /\ cli'[c] \in Cli /\ \E h : cli' = [cli EXCEPT ![c] = h]
             /\ cli[c].pc = "save" /\ cli'[c].pc = "idle" /\ op' = op
             /\ files' = files \/ files' \in [Files -> File]
             /\ \/ /\ files' = [files EXCEPT ![cli[c].file] = Saved(c)]
                   /\ Audit("revoked", cli[c].id)
                \/ files' = files /\ audit' = audit
  <2>1. Saved(c) \in File
    BY <1>f DEF Saved, File, Tails, NoTail
  <2>2. [EmptyFile EXCEPT !.lines = cli[c].keep] = Saved(c)
    BY DEF EmptyFile, Saved
  <2>3. /\ cli[c].pc = "save" /\ op' = op /\ cli' = [cli EXCEPT ![c] = IdleCli]
        /\ \/ /\ files' = [files EXCEPT ![cli[c].file] = Saved(c)]
              /\ Audit("revoked", cli[c].id)
           \/ files' = files /\ audit' = audit
    BY <1>4, <2>2 DEF RevokeSave, Report
  <2> QED
    BY <1>0, <1>e, <1>f, <1>i, <2>1, <2>3
<1> QED
  BY <1>1, <1>2, <1>3, <1>4, <1>e, <1>f

LEMMA UpgradeTypeInit == Init => TypeOK
<1> SUFFICES ASSUME Init PROVE TypeOK
  OBVIOUS
<1>1. EmptyFile \in File
  BY DEF EmptyFile, File, Tails, NoTail
<1>2. IdleHandler \in Handler /\ IdleCli \in Cli
  BY DEF IdleHandler, Handler, IdleCli, Cli, Files
<1> QED
  BY <1>1, <1>2 DEF Init, TypeOK

LEMMA UpgradeTypeNext == TypeOK /\ [Next]_vars => TypeOK'
<1> SUFFICES ASSUME TypeOK, [Next]_vars PROVE TypeOK'
  OBVIOUS
<1> USE DEF Modes
<1>c. clock \in Nat /\ faults \in Nat /\ crashes \in Nat /\ cliOps \in Nat
  BY DEF TypeOK
<1>0. Fault => faults' \in Nat
  BY <1>c DEF Fault
<1>1. ASSUME NEW r \in Requests, Create(r) PROVE TypeOK'
  <2>1. clock + Wait \in Nat
    BY <1>c, UpgradeFlowAssumption
  <2> QED
    BY <1>1, <2>1 DEF Create, TypeOK
<1>2. ASSUME NEW r \in Requests, SignedDecision(r) PROVE TypeOK'
  <2>1. lease' \in [Requests -> Leases \cup {"none"}]
    BY <1>2 DEF SignedDecision, TypeOK
  <2> QED
    BY <1>2, <2>1 DEF SignedDecision, TypeOK
<1>3. ASSUME NEW r \in Requests, Poll(r) PROVE TypeOK'
  BY <1>3 DEF Poll, Return, TypeOK
<1>4. ASSUME NEW o \in Operators, Post(o) PROVE TypeOK'
  <2>1. PICK r \in Requests, m \in Modes \cup {"deny"} :
          op' = [op EXCEPT ![o] = [IdleHandler EXCEPT !.pc = "waiting", !.req = r, !.mode = m]]
    BY <1>4 DEF Post
  <2>2. [IdleHandler EXCEPT !.pc = "waiting", !.req = r, !.mode = m] \in Handler
    BY DEF IdleHandler, Handler
  <2>3. op' \in [Operators -> Handler]
    BY <2>1, <2>2 DEF TypeOK
  <2> QED
    BY <1>4, <2>3 DEF Post, TypeOK
<1>5. ASSUME NEW o \in Operators, Enter(o) PROVE TypeOK'
  <2>1. op' \in [Operators -> Handler]
    <3>1. CASE op' = [op EXCEPT ![o].pc = "claim", ![o].expires = Expiry(op[o].mode)]
      <4> DEFINE e == Expiry(op[o].mode)
                 h == [op[o] EXCEPT !.pc = "claim", !.expires = e]
      <4>1. op[o] \in Handler /\ clock \in Nat
        BY DEF TypeOK
      <4>2. e \in Nat
        BY <4>1, UpgradeFlowAssumption DEF Expiry
      <4> HIDE DEF e
      <4>3. h \in Handler
        BY <1>5, <4>1, <4>2 DEF Handler, Enter
      <4>4. op' = [op EXCEPT ![o] = h]
        BY <3>1 DEF TypeOK, e
      <4> HIDE DEF h
      <4> QED
        BY <4>3, <4>4 DEF TypeOK
    <3>2. CASE Answer(o, "refused") \/ Answer(o, "failed")
      BY <3>2, HandlerType
    <3> QED
      BY <1>5, <3>1, <3>2 DEF Enter
  <2>2. faults' \in Nat
    BY <1>0, <1>c, <1>5 DEF Enter
  <2> QED
    BY <1>5, <2>1, <2>2 DEF Enter, TypeOK
<1>6. ASSUME NEW o \in Operators, Claim(o) PROVE TypeOK'
  <2>1. \/ op' = [op EXCEPT ![o].pc = "open"] /\ op[o].mode # "deny"
        \/ \E a \in {"denied", "refused", "failed"} : Answer(o, a)
    BY <1>6 DEF Claim, Decided
  <2>2. op' \in [Operators -> Handler]
    <3>1. op[o].pc # "idle"
      BY <1>6 DEF Claim
    <3> QED
      BY <2>1, <3>1, HandlerType
  <2>3. faults' \in Nat
    BY <1>0, <1>c, <1>6 DEF Claim
  <2>4. op[o] \in Handler
    BY DEF TypeOK
  <2>5. /\ status' \in [Requests -> {"absent", "pending", "approved", "denied"}]
        /\ lease' \in [Requests -> Leases \cup {"none"}]
    BY <1>6, <2>4 DEF Claim, Decided, TypeOK, Handler, Leases
  <2> QED
    BY <1>6, <2>2, <2>3, <2>5 DEF Claim, TypeOK
<1>7. ASSUME NEW o \in Operators, Open(o) PROVE TypeOK'
  <2>1. op' \in [Operators -> Handler]
    <3>1. op[o].pc # "idle" /\ op[o].mode # "deny"
      BY <1>7 DEF Open, TypeOK, Handler
    <3>2. op' = [op EXCEPT ![o].pc = "write"] \/ Answer(o, "failed")
      BY <1>7 DEF Open
    <3> QED
      BY <3>1, <3>2, HandlerType
  <2>2. faults' \in Nat
    BY <1>0, <1>c, <1>7 DEF Open
  <2>3. op[o].req \in Requests
    BY <1>7 DEF Open, TypeOK, Handler
  <2>4. audit' = audit \/ Audit("grant_failed", op[o].req)
    BY <1>7 DEF Open
  <2>5. audit' \subseteq Events \X (Requests \cup Files)
    BY <2>3, <2>4, AuditType DEF TypeOK
  <2> QED
    BY <1>7, <2>1, <2>2, <2>5 DEF Open, TypeOK
<1>8. ASSUME NEW o \in Operators, Write(o) PROVE TypeOK'
  <2> DEFINE k == FileOf(op[o].mode)
             g == [id |-> op[o].req, mode |-> op[o].mode, expires |-> op[o].expires, by |-> o]
  <2>1. op' \in [Operators -> Handler]
    BY <1>8, HandlerType DEF Write
  <2>2. faults' \in Nat
    BY <1>0, <1>c, <1>8 DEF Write
  <2>3. op[o].req \in Requests
    BY <1>8 DEF Write, TypeOK, Handler
  <2>4. audit' \subseteq Events \X (Requests \cup Files)
    <3>1. Audit("applied", op[o].req) \/ Audit("grant_failed", op[o].req)
      BY <1>8 DEF Write
    <3> QED
      BY <2>3, <3>1, AuditType
  <2>5. files' \in [Files -> File]
    <3>1. files \in [Files -> File] /\ k \in Files /\ files[k] \in File
      BY DEF TypeOK, FileOf, Files
    <3>2. g \in Grant
      BY <1>8 DEF Write, TypeOK, Handler, Grant
    <3> HIDE DEF g, k
    <3>3. AppendTo(files[k], g) \in File /\ Torn(files[k], g) \subseteq File
      BY <3>1, <3>2, FileType
    <3>4. \/ files' = files \/ files' = [files EXCEPT ![k] = AppendTo(files[k], g)]
          \/ \E f \in Torn(files[k], g) : files' = [files EXCEPT ![k] = f]
      BY <1>8, <3>1 DEF Write, g, k
    <3> QED
      BY <3>1, <3>3, <3>4
  <2> QED
    BY <1>8, <2>1, <2>2, <2>4, <2>5 DEF Write, TypeOK
<1>9. ASSUME NEW c \in Clis,
             RevokeFind(c) \/ RevokeStat(c) \/ RevokeLoad(c) \/ RevokeSave(c)
      PROVE  TypeOK'
  <2>1. /\ cli'[c] \in Cli /\ \A d \in Clis \ {c} : cli'[d] = cli[d]
        /\ \E h : cli' = [cli EXCEPT ![c] = h]
        /\ audit' = audit \/ (Audit("revoked", cli[c].id) /\ cli[c].id \in Requests)
        /\ files' = files \/ files' \in [Files -> File]
    BY <1>9, RevokeMoves
  <2>2. cli' \in [Clis -> Cli]
    BY <2>1 DEF TypeOK
  <2>3. files' \in [Files -> File]
    BY <2>1 DEF TypeOK
  <2>4. audit' \subseteq Events \X (Requests \cup Files)
    BY <2>1, AuditType DEF TypeOK
  <2>5. faults' \in Nat /\ cliOps' \in Nat
    <3>1. faults' = faults \/ Fault
      BY <1>9 DEF RevokeFind, RevokeStat, RevokeLoad, RevokeSave
    <3>2. cliOps' = cliOps \/ cliOps' = cliOps + 1
      BY <1>9 DEF RevokeFind, RevokeStat, RevokeLoad, RevokeSave
    <3> QED
      BY <1>0, <1>c, <3>1, <3>2
  <2>6. UNCHANGED <<up, status, lease, op, client, deadline, clock, crashes>>
    BY <1>9 DEF RevokeFind, RevokeStat, RevokeLoad, RevokeSave
  <2> QED
    BY <2>2, <2>3, <2>4, <2>5, <2>6 DEF TypeOK
<1>11. CASE RevokeAll
  <2>1. PICK k \in Files :
          /\ files' = [files EXCEPT ![k] = EmptyFile]
          /\ op' = [o \in Operators |->
                      IF op[o].pc = "write" /\ FileOf(op[o].mode) = k
                      THEN [op[o] EXCEPT !.unlinked = TRUE] ELSE op[o]]
          /\ audit' = audit \cup {<<"revoked_all", k>>}
    BY <1>11 DEF RevokeAll
  <2>2. files' \in [Files -> File]
    <3>1. EmptyFile \in File
      BY DEF EmptyFile, File, Tails, NoTail
    <3> QED
      BY <2>1, <3>1 DEF TypeOK
  <2>4. op' \in [Operators -> Handler]
    <3>1. ASSUME NEW o \in Operators
          PROVE  op[o] \in Handler /\ [op[o] EXCEPT !.unlinked = TRUE] \in Handler
      <4>1. op[o] \in Handler
        BY DEF TypeOK
      <4>2. [op[o] EXCEPT !.unlinked = TRUE] \in Handler
        BY <4>1 DEF Handler
      <4> QED
        BY <4>1, <4>2
    <3> QED
      BY <2>1, <3>1
  <2>5. audit' \subseteq Events \X (Requests \cup Files)
    <3> DEFINE lines == Events \X (Requests \cup Files)
               line  == <<"revoked_all", k>>
    <3>1. line \in lines
      BY DEF Events
    <3>2. audit \subseteq lines
      BY DEF TypeOK
    <3>3. audit' = audit \cup {line}
      BY <2>1
    <3> HIDE DEF lines, line
    <3>4. audit' \subseteq lines
      BY <3>1, <3>2, <3>3
    <3> QED
      BY <3>4 DEF lines
  <2>6. cliOps' \in Nat
    BY <1>c, <1>11 DEF RevokeAll
  <2> QED
    BY <1>11, <2>2, <2>4, <2>5, <2>6 DEF RevokeAll, TypeOK
<1>12. CASE Crash
  <2>1. IdleHandler \in Handler
    BY DEF IdleHandler, Handler
  <2>2. crashes' \in Nat
    BY <1>c, <1>12 DEF Crash
  <2> QED
    BY <1>12, <2>1, <2>2 DEF Crash, TypeOK
<1>13. CASE Restart
  BY <1>13 DEF Restart, TypeOK
<1>14. CASE Tick
  <2>1. clock' \in Nat
    BY <1>c, <1>14 DEF Tick
  <2> QED
    BY <1>14, <2>1 DEF Tick, TypeOK
<1>15. CASE UNCHANGED vars
  BY <1>15 DEF vars, TypeOK
<1> QED
  BY <1>1, <1>2, <1>3, <1>4, <1>5, <1>6, <1>7, <1>8, <1>9, <1>11, <1>12, <1>13,
     <1>14, <1>15 DEF Next, Handle

\* Every reachable state is well typed; in particular a handler that writes a
\* grant was not asked to deny.
THEOREM UpgradeTypeCorrect == Spec => []TypeOK
  BY UpgradeTypeInit, UpgradeTypeNext, PTL DEF Spec

-----------------------------------------------------------------------------
\* The grants of a file: those it holds and those a revoke --id of it is
\* about to save.  A saved content may be older than the file, after a
\* revoke --all, hence the second part.
Held(k) == Readable(files[k])
             \cup UNION {cli[c].keep : c \in {d \in Clis : cli[d].pc = "save" /\ cli[d].file = k}}

\* A handler between its claim and the end of its append.
Appending(o) == op[o].pc \in {"open", "write"}

\* It has approved its request in its mode, nobody has appended a grant for
\* it before, and nobody has reported its revocation or is revoking it.
HandlerOK(o) ==
  Appending(o) =>
    /\ status[op[o].req] = "approved" /\ lease[op[o].req] = op[o].mode
    /\ \A k \in Files : \A g \in Held(k) : g.id # op[o].req
    /\ <<"revoked", op[o].req>> \notin audit
    /\ \A c \in Clis : cli[c].pc # "idle" => cli[c].id # op[o].req

\* The mutex has one holder.
MutexOK == \A o, p \in Operators :
  /\ op[o].pc \in {"claim", "open", "write"}
  /\ op[p].pc \in {"claim", "open", "write"}
  => o = p

\* The flock of a file has one holder.
FlockOK ==
  /\ \A c, d \in Clis : cli[c].pc = "save" /\ cli[d].pc = "save" /\ cli[c].file = cli[d].file
                          => c = d
  /\ \A o \in Operators, c \in Clis :
       op[o].pc = "write" /\ cli[c].pc = "save" => FileOf(op[o].mode) # cli[c].file

\* A grant sits in the file of its mode, and its request was approved in that
\* mode; its revocation was not reported, or the whole file was revoked too.
GrantsOK ==
  \A k \in Files : \A g \in Held(k) :
    /\ FileOf(g.mode) = k
    /\ status[g.id] = "approved" /\ lease[g.id] = g.mode
    /\ <<"revoked", g.id>> \in audit => <<"revoked_all", k>> \in audit

\* No two grants for one request.
OneGrantHeld ==
  \A k, l \in Files : \A g \in Held(k), h \in Held(l) : g.id = h.id => g = h

\* A revoke --id works on the file of the grant.  What it saves leaves out the
\* grant, and is of the file, unless the whole file was revoked.
CliOK(c) ==
  /\ cli[c].pc # "idle" =>
       status[cli[c].id] = "approved" /\ FileOf(lease[cli[c].id]) = cli[c].file
  /\ cli[c].pc = "save" =>
       /\ \A g \in cli[c].keep : g.id # cli[c].id
       /\ \/ cli[c].keep \subseteq Readable(files[cli[c].file])
          \/ <<"revoked_all", cli[c].file>> \in audit

\* A lease exactly when approved; and only approved requests were revoked.
RequestOK(r) ==
  /\ status[r] = "approved" <=> lease[r] # "none"
  /\ <<"revoked", r>> \in audit => status[r] = "approved"

\* An operator's approval is being carried out, on record, or cut off.
OnRecord(r) ==
  lease[r] \in Modes =>
    \/ \E o \in Operators : Appending(o) /\ op[o].req = r
    \/ <<"applied", r>> \in audit \/ <<"grant_failed", r>> \in audit
    \/ crashes > 0

UInv == /\ TypeOK /\ MutexOK /\ FlockOK /\ GrantsOK /\ OneGrantHeld
        /\ \A o \in Operators : HandlerOK(o)
        /\ \A c \in Clis : CliOK(c)
        /\ \A r \in Requests : RequestOK(r) /\ OnRecord(r)

\* An approved request stays approved, with its lease.
LEMMA ApprovedStays ==
  ASSUME TypeOK, [Next]_vars, NEW r \in Requests, status[r] = "approved"
  PROVE  status'[r] = "approved" /\ lease'[r] = lease[r]
<1> USE DEF TypeOK
<1>1. ASSUME NEW q \in Requests, Create(q) \/ SignedDecision(q) \/ Poll(q)
      PROVE  status'[r] = "approved" /\ lease'[r] = lease[r]
  BY <1>1 DEF Create, SignedDecision, Poll
<1>2. ASSUME NEW o \in Operators, Claim(o)
      PROVE  status'[r] = "approved" /\ lease'[r] = lease[r]
  BY <1>2 DEF Claim, Decided, Undecided
<1>3. ASSUME NEW o \in Operators, Post(o) \/ Enter(o) \/ Open(o) \/ Write(o)
      PROVE  status'[r] = "approved" /\ lease'[r] = lease[r]
  BY <1>3 DEF Post, Enter, Open, Write
<1>4. ASSUME NEW c \in Clis, RevokeFind(c) \/ RevokeStat(c) \/ RevokeLoad(c) \/ RevokeSave(c)
      PROVE  status'[r] = "approved" /\ lease'[r] = lease[r]
  BY <1>4 DEF RevokeFind, RevokeStat, RevokeLoad, RevokeSave
<1>5. CASE RevokeAll \/ Crash \/ Restart \/ Tick \/ UNCHANGED vars
  BY <1>5 DEF RevokeAll, Crash, Restart, Tick, vars
<1> QED
  BY <1>1, <1>2, <1>3, <1>4, <1>5 DEF Next, Handle

\* The grant a handler appends.
NewGrant(o) == [id |-> op[o].req, mode |-> op[o].mode, expires |-> op[o].expires, by |-> o]

\* A saving command holds what it keeps and works on a file.
LEMMA SaveHolds ==
  ASSUME TypeOK, NEW c \in Clis, cli[c].pc = "save"
  PROVE  /\ cli[c].keep \subseteq Held(cli[c].file)
         /\ cli[c].file \in Files /\ cli[c].id \in Requests
         /\ cli[c].keep \subseteq Grant
<1>1. cli[c] \in Cli
  BY DEF TypeOK
<1>2. cli[c].file \in Files /\ cli[c].id \in Requests /\ cli[c].keep \subseteq Grant
  BY <1>1 DEF Cli
<1> QED
  BY <1>2 DEF Held

LEMMA HeldType == ASSUME TypeOK, NEW k \in Files PROVE Held(k) \subseteq Grant
<1>1. files[k] \in File
  BY DEF TypeOK
<1>2. Readable(files[k]) \subseteq Grant
  BY <1>1 DEF Readable, File, Tails
<1> QED
  BY <1>2, SaveHolds DEF Held

\* Every grant a step leaves was there before or was appended by it.
LEMMA HeldNext ==
  ASSUME TypeOK, [Next]_vars, NEW k \in Files, NEW g \in Held(k)'
  PROVE  \/ g \in Held(k)
         \/ \E o \in Operators : Write(o) /\ g = NewGrant(o) /\ k = FileOf(op[o].mode)
<1>1. CASE files' = files /\ cli' = cli
  BY <1>1 DEF Held
<1>2. ASSUME NEW o \in Operators, Write(o)
      PROVE  g \in Held(k) \/ (g = NewGrant(o) /\ k = FileOf(op[o].mode))
  <2> DEFINE n == NewGrant(o)
             l == FileOf(op[o].mode)
  <2>1. l \in Files /\ files \in [Files -> File] /\ files[l] \in File
    BY DEF FileOf, Files, TypeOK
  <2>2. n \in Grant
    <3>1. op[o] \in Handler /\ op[o].pc = "write"
      BY <1>2 DEF Write, TypeOK
    <3> QED
      BY <3>1 DEF NewGrant, Handler, Grant
  <2>3. \/ files' = files
        \/ \E f \in {AppendTo(files[l], n)} \cup Torn(files[l], n) :
             files' = [files EXCEPT ![l] = f]
    <3>1. \/ files' = files \/ files' = [files EXCEPT ![l] = AppendTo(@, n)]
          \/ \E f \in Torn(files[l], n) : files' = [files EXCEPT ![l] = f]
      BY <1>2, <2>1 DEF Write, NewGrant
    <3> QED
      BY <2>1, <3>1
  <2>4. cli' = cli
    BY <1>2 DEF Write
  <2> HIDE DEF n, l
  <2>5. \A f \in {AppendTo(files[l], n)} \cup Torn(files[l], n) :
          Readable(f) \subseteq Readable(files[l]) \cup {n}
    BY <2>1, <2>2, AppendReads
  <2>6. CASE files' = files
    BY <2>4, <2>6 DEF Held
  <2>7. ASSUME NEW f \in {AppendTo(files[l], n)} \cup Torn(files[l], n),
               files' = [files EXCEPT ![l] = f]
        PROVE  g \in Held(k) \/ (g = n /\ k = l)
    <3>1. files'[k] = IF k = l THEN f ELSE files[k]
      BY <2>1, <2>7
    <3>2. Readable(files'[k]) \subseteq Readable(files[k]) \cup (IF k = l THEN {n} ELSE {})
      BY <2>5, <2>7, <3>1
    <3> QED
      BY <2>4, <3>2 DEF Held
  <2> QED
    BY <2>3, <2>6, <2>7 DEF n, l
<1>3. ASSUME NEW c \in Clis, RevokeFind(c) \/ RevokeStat(c) \/ RevokeLoad(c)
      PROVE  g \in Held(k)
  <2>1. \A d \in Clis \ {c} : cli'[d] = cli[d]
    BY <1>3, RevokeMoves
  <2>2. /\ files' = files
        /\ cli'[c].pc = "save" => cli'[c].keep \subseteq Readable(files[cli'[c].file])
    BY <1>3, RevokeMoves DEF Without
  <2> QED
    BY <2>1, <2>2 DEF Held
<1>4. ASSUME NEW c \in Clis, RevokeSave(c)
      PROVE  g \in Held(k)
  <2>1. cli[c].keep \subseteq Held(cli[c].file) /\ cli[c].file \in Files
    BY <1>4, SaveHolds DEF RevokeSave
  <2>2. cli'[c].pc = "idle" /\ \A d \in Clis \ {c} : cli'[d] = cli[d]
    BY <1>4, RevokeMoves
  <2>3. Readable(Saved(c)) = cli[c].keep
    BY DEF Readable, NoTail, Saved
  <2>4. files' = files \/ files' = [files EXCEPT ![cli[c].file] = Saved(c)]
    BY <1>4, RevokeMoves
  <2>5. files'[k] = files[k] \/ (files'[k] = Saved(c) /\ k = cli[c].file)
    BY <2>1, <2>4 DEF TypeOK
  <2>6. Readable(files'[k]) \subseteq Held(k)
    BY <2>1, <2>3, <2>5 DEF Held
  <2> QED
    BY <2>2, <2>6 DEF Held
<1>5. ASSUME RevokeAll
      PROVE  g \in Held(k)
  <2>1. PICK l \in Files : files' = [files EXCEPT ![l] = EmptyFile]
    BY <1>5 DEF RevokeAll
  <2>2. files'[k] = files[k] \/ files'[k] = EmptyFile
    BY <2>1 DEF TypeOK
  <2>3. Readable(files'[k]) \subseteq Readable(files[k])
    BY <2>2 DEF Readable, NoTail, EmptyFile
  <2>4. cli' = cli
    BY <1>5 DEF RevokeAll
  <2> QED
    BY <2>3, <2>4 DEF Held
<1>6. \/ files' = files /\ cli' = cli
      \/ \E o \in Operators : Write(o)
      \/ \E c \in Clis : RevokeFind(c) \/ RevokeStat(c) \/ RevokeLoad(c) \/ RevokeSave(c)
      \/ RevokeAll
  BY DEF Next, Handle, Create, SignedDecision, Poll, Post, Enter, Claim, Open,
         Crash, Restart, Tick, vars
<1> QED
  BY <1>1, <1>2, <1>3, <1>4, <1>5, <1>6

\* A handler appending after a step was appending the same grant before it,
\* or has just claimed its pending request.
LEMMA AppendingNext ==
  ASSUME TypeOK, [Next]_vars, NEW o \in Operators, Appending(o)'
  PROVE  \/ /\ Appending(o) /\ ~Write(o)
            /\ op'[o].req = op[o].req /\ op'[o].mode = op[o].mode
         \/ /\ Claim(o) /\ status[op[o].req] = "pending" /\ op'[o].req = op[o].req
            /\ status'[op[o].req] = "approved" /\ lease'[op[o].req] = op'[o].mode
            /\ files' = files /\ cli' = cli /\ audit' = audit
<1> USE DEF Appending
<1>0. op \in [Operators -> Handler] /\ op[o] \in Handler
  BY DEF TypeOK
<1>1. ~Write(o)
  <2> SUFFICES ASSUME Write(o) PROVE FALSE
    OBVIOUS
  <2>1. Answer(o, "applied") \/ Answer(o, "failed")
    BY DEF Write
  <2> QED
    BY <1>0, <2>1 DEF Answer, IdleHandler
<1>2. CASE op'[o] = op[o]
  BY <1>1, <1>2
<1>3. ASSUME NEW p \in Operators, Post(p) \/ Enter(p)
      PROVE  op'[o] = op[o]
  <2>1. \E h : op' = [op EXCEPT ![p] = h] /\ h.pc \notin {"open", "write"}
    <3>1. CASE Post(p)
      <4>1. PICK r \in Requests, m \in Modes \cup {"deny"} :
              op' = [op EXCEPT ![p] = [IdleHandler EXCEPT !.pc = "waiting", !.req = r, !.mode = m]]
        BY <3>1 DEF Post
      <4> DEFINE h == [IdleHandler EXCEPT !.pc = "waiting", !.req = r, !.mode = m]
      <4>2. h.pc = "waiting"
        BY DEF IdleHandler
      <4>3. op' = [op EXCEPT ![p] = h]
        BY <4>1
      <4> HIDE DEF h
      <4> QED
        BY <4>2, <4>3
    <3>2. CASE \E a : Answer(p, a)
      <4>1. PICK a : Answer(p, a)
        BY <3>2
      <4> DEFINE h == [IdleHandler EXCEPT !.req = op[p].req, !.answer = a]
      <4>2. op' = [op EXCEPT ![p] = h]
        BY <4>1 DEF Answer
      <4>3. h.pc = "idle"
        BY DEF IdleHandler
      <4> HIDE DEF h
      <4> QED
        BY <4>2, <4>3
    <3>3. CASE op' = [op EXCEPT ![p].pc = "claim", ![p].expires = Expiry(op[p].mode)]
      <4> DEFINE e == Expiry(op[p].mode)
                 h == [op[p] EXCEPT !.pc = "claim", !.expires = e]
      <4>1. op[p] \in Handler
        BY DEF TypeOK
      <4>2. op' = [op EXCEPT ![p] = h]
        BY <1>0, <3>3
      <4> HIDE DEF e
      <4>3. h.pc = "claim"
        BY <4>1 DEF Handler
      <4> HIDE DEF h
      <4> QED
        BY <4>2, <4>3
    <3> QED
      BY <1>3, <3>1, <3>2, <3>3 DEF Enter
  <2> QED
    BY <1>0, <2>1
<1>4. ASSUME NEW p \in Operators, Write(p)
      PROVE  op'[o] = op[o]
  <2>1. p # o
    BY <1>1, <1>4
  <2>2. Answer(p, "applied") \/ Answer(p, "failed")
    BY <1>4 DEF Write
  <2> QED
    BY <1>0, <2>1, <2>2 DEF Answer
<1>5. ASSUME NEW p \in Operators, Open(p)
      PROVE  Appending(o) /\ op'[o].req = op[o].req /\ op'[o].mode = op[o].mode
  <2>1. op[p].pc = "open"
        /\ (op' = [op EXCEPT ![p].pc = "write"] \/ Answer(p, "failed"))
    BY <1>5 DEF Open
  <2>2. CASE p = o
    <3>1. op' = [op EXCEPT ![o].pc = "write"]
      <4>1. ASSUME Answer(o, "failed") PROVE op'[o].pc = "idle"
        BY <1>0, <4>1 DEF Answer, IdleHandler
      <4> QED
        BY <2>1, <2>2, <4>1
    <3> DEFINE h == [op[o] EXCEPT !.pc = "write"]
    <3>2. h.req = op[o].req /\ h.mode = op[o].mode
      BY <1>0 DEF Handler
    <3>3. op' = [op EXCEPT ![o] = h]
      BY <1>0, <3>1
    <3> HIDE DEF h
    <3> QED
      BY <1>0, <2>1, <2>2, <3>2, <3>3
  <2>3. CASE p # o
    BY <1>0, <2>1, <2>3 DEF Answer
  <2> QED
    BY <2>2, <2>3
<1>6. ASSUME NEW p \in Operators, Claim(p), p # o
      PROVE  op'[o] = op[o]
  <2>1. \/ op' = [op EXCEPT ![p].pc = "open"]
        \/ \E a : Answer(p, a)
    BY <1>6 DEF Claim, Decided
  <2>2. CASE op' = [op EXCEPT ![p].pc = "open"]
    BY <1>0, <1>6, <2>2
  <2>3. CASE \E a : Answer(p, a)
    BY <1>0, <1>6, <2>3 DEF Answer
  <2> QED
    BY <2>1, <2>2, <2>3
<1>7. CASE Claim(o)
  <2>1. \A a : ~Answer(o, a)
    BY <1>0 DEF Answer, IdleHandler
  <2>2. /\ Undecided(op[o].req)
        /\ status' = [status EXCEPT ![op[o].req] = "approved"]
        /\ lease' = [lease EXCEPT ![op[o].req] = op[o].mode]
        /\ op' = [op EXCEPT ![o].pc = "open"]
    BY <1>7, <2>1 DEF Claim, Decided
  <2>3. op[o].req \in Requests
    BY <1>0, <1>7 DEF Claim, Handler
  <2>4. op'[o].req = op[o].req /\ op'[o].mode = op[o].mode
    <3> DEFINE h == [op[o] EXCEPT !.pc = "open"]
    <3>1. h.req = op[o].req /\ h.mode = op[o].mode
      BY <1>0 DEF Handler
    <3>2. op' = [op EXCEPT ![o] = h]
      BY <1>0, <2>2
    <3> HIDE DEF h
    <3> QED
      BY <1>0, <3>1, <3>2
  <2>5. status'[op[o].req] = "approved" /\ lease'[op[o].req] = op[o].mode
    BY <2>2, <2>3 DEF TypeOK
  <2>6. files' = files /\ cli' = cli /\ audit' = audit
    BY <1>7 DEF Claim
  <2> QED
    BY <1>7, <2>2, <2>4, <2>5, <2>6 DEF Undecided
<1>8. ASSUME RevokeAll
      PROVE  Appending(o) /\ op'[o].req = op[o].req /\ op'[o].mode = op[o].mode
  <2>1. \E k : op'[o] = IF op[o].pc = "write" /\ FileOf(op[o].mode) = k
                        THEN [op[o] EXCEPT !.unlinked = TRUE] ELSE op[o]
    BY <1>8 DEF RevokeAll
  <2> QED
    BY <1>0, <2>1 DEF Handler
<1>9. ~Crash
  BY <1>0 DEF Crash, IdleHandler
<1>10. \/ op' = op
       \/ \E p \in Operators : Post(p) \/ Enter(p) \/ Claim(p) \/ Open(p) \/ Write(p)
       \/ RevokeAll
  BY <1>9 DEF Next, Handle, Create, SignedDecision, Poll, RevokeFind, RevokeStat,
              RevokeLoad, RevokeSave, Restart, Tick, vars
<1> QED
  BY <1>1, <1>2, <1>3, <1>4, <1>5, <1>6, <1>7, <1>8, <1>10

\* A revoke --id after a step: as before; on with the same grant, maybe with
\* the content of an unlocked file to save; or it has just found its grant.
LEMMA RevokingNext ==
  ASSUME TypeOK, [Next]_vars, NEW c \in Clis, cli'[c].pc # "idle"
  PROVE  \/ cli'[c] = cli[c]
         \/ /\ cli[c].pc # "idle" /\ cli'[c].file = cli[c].file /\ cli'[c].id = cli[c].id
            /\ cli'[c].pc = "save" =>
                 /\ ~Locked(cli[c].file)
                 /\ cli'[c].keep = Without(Readable(files[cli[c].file]), cli[c].id)
            /\ op' = op /\ audit' = audit /\ files' = files
            /\ \A d \in Clis \ {c} : cli'[d] = cli[d]
         \/ /\ cli'[c].pc = "stat" /\ cli'[c].file \in Files
            /\ \E g \in Readable(files[cli'[c].file]) : g.id = cli'[c].id
            /\ op' = op /\ audit' = audit /\ files' = files
            /\ \A d \in Clis \ {c} : cli'[d] = cli[d]
<1>1. CASE cli' = cli
  BY <1>1
<1>2. ASSUME NEW d \in Clis, d # c,
             RevokeFind(d) \/ RevokeStat(d) \/ RevokeLoad(d) \/ RevokeSave(d)
      PROVE  cli'[c] = cli[c]
  BY <1>2, RevokeMoves
<1>3. CASE RevokeFind(c)
  BY <1>3, RevokeMoves
<1>4. CASE RevokeStat(c)
  BY <1>4, RevokeMoves
<1>5. CASE RevokeLoad(c)
  BY <1>5, RevokeMoves
<1>6. CASE RevokeSave(c)
  BY <1>6, RevokeMoves
<1>7. \/ cli' = cli
      \/ \E d \in Clis : RevokeFind(d) \/ RevokeStat(d) \/ RevokeLoad(d) \/ RevokeSave(d)
  BY DEF Next, Handle, Create, SignedDecision, Poll, Post, Enter, Claim, Open, Write,
         RevokeAll, Crash, Restart, Tick, vars
<1> QED
  BY <1>1, <1>2, <1>3, <1>4, <1>5, <1>6, <1>7

\* A content to save after a step was there before, or has just been loaded
\* from an unlocked file.
LEMMA SavingNext ==
  ASSUME TypeOK, [Next]_vars, NEW c \in Clis, cli'[c].pc = "save"
  PROVE  \/ cli'[c] = cli[c]
         \/ /\ cli[c].pc # "idle" /\ cli'[c].file = cli[c].file /\ cli'[c].id = cli[c].id
            /\ ~Locked(cli[c].file) /\ cli[c].file \in Files
            /\ cli'[c].keep = Without(Readable(files[cli[c].file]), cli[c].id)
            /\ op' = op /\ audit' = audit /\ files' = files
            /\ \A d \in Clis \ {c} : cli'[d] = cli[d]
<1>1. cli[c].file \in Files
  BY DEF TypeOK, Cli
<1> QED
  BY <1>1, RevokingNext

\* A request newly audited as revoked is the one of a revoke --id that has
\* just saved the file without its grant, or met a file that is gone, or an
\* unlocked one without the grant.
LEMMA RevokedNext ==
  ASSUME TypeOK, [Next]_vars, NEW r \in Requests, <<"revoked", r>> \in audit'
  PROVE  \/ <<"revoked", r>> \in audit
         \/ \E c \in Clis :
              /\ cli[c].pc # "idle" /\ cli[c].id = r /\ cli'[c].pc = "idle"
              /\ cli[c].file \in Files
              /\ \A d \in Clis \ {c} : cli'[d] = cli[d]
              /\ \/ cli[c].pc = "save" /\ files' = [files EXCEPT ![cli[c].file] = Saved(c)]
                 \/ files' = files /\ files[cli[c].file] = EmptyFile
                 \/ /\ files' = files /\ ~Locked(cli[c].file)
                    /\ \A g \in Readable(files[cli[c].file]) : g.id # r
<1> SUFFICES ASSUME <<"revoked", r>> \notin audit
             PROVE  \E c \in Clis :
                      /\ cli[c].pc # "idle" /\ cli[c].id = r /\ cli'[c].pc = "idle"
                      /\ cli[c].file \in Files
                      /\ \A d \in Clis \ {c} : cli'[d] = cli[d]
                      /\ \/ cli[c].pc = "save" /\ files' = [files EXCEPT ![cli[c].file] = Saved(c)]
                         \/ files' = files /\ files[cli[c].file] = EmptyFile
                         \/ /\ files' = files /\ ~Locked(cli[c].file)
                            /\ \A g \in Readable(files[cli[c].file]) : g.id # r
  OBVIOUS
<1>1. audit' # audit
  OBVIOUS
<1>2. ~ \E o \in Operators : Open(o) \/ Write(o)
  BY <1>1 DEF Open, Write, Audit
<1>3. ~ RevokeAll
  BY DEF RevokeAll
<1>4. PICK c \in Clis : RevokeFind(c) \/ RevokeStat(c) \/ RevokeLoad(c) \/ RevokeSave(c)
  BY <1>1, <1>2, <1>3 DEF Next, Handle, Create, SignedDecision, Poll, Post, Enter, Claim,
         Crash, Restart, Tick, vars
<1>5. /\ \A d \in Clis \ {c} : cli'[d] = cli[d]
      /\ cli[c].file \in Files
  BY <1>4, RevokeMoves DEF TypeOK, Cli
<1>6. /\ Audit("revoked", cli[c].id) /\ cli[c].pc # "idle" /\ cli'[c].pc = "idle"
      /\ \/ cli[c].pc = "save" /\ files' = [files EXCEPT ![cli[c].file] = Saved(c)]
         \/ files' = files /\ files[cli[c].file] = EmptyFile
         \/ /\ files' = files /\ ~Locked(cli[c].file)
            /\ \A g \in Readable(files[cli[c].file]) : g.id # cli[c].id
  BY <1>1, <1>4, RevokeMoves
<1>7. cli[c].id = r
  BY <1>6 DEF Audit
<1> QED
  BY <1>5, <1>6, <1>7

LEMMA AuditGrows == ASSUME [Next]_vars PROVE audit \subseteq audit'
BY DEF Next, Handle, Create, SignedDecision, Poll, Post, Enter, Claim, Open, Write,
       RevokeFind, RevokeStat, RevokeLoad, Loaded, RevokeSave, Report, RevokeAll, Audit,
       Crash, Restart, Tick, vars

-----------------------------------------------------------------------------
LEMMA UInvInit == Init => UInv
<1> SUFFICES ASSUME Init PROVE UInv
  OBVIOUS
<1>1. TypeOK
  BY UpgradeTypeInit
<1>2. \A k \in Files : Held(k) = {}
  BY DEF Init, Held, Readable, EmptyFile, NoTail, IdleCli
<1>3. \A o \in Operators : op[o].pc = "idle"
  BY DEF Init, IdleHandler
<1>4. \A c \in Clis : cli[c].pc = "idle"
  BY DEF Init, IdleCli
<1>5. \A r \in Requests : RequestOK(r) /\ OnRecord(r)
  BY DEF Init, RequestOK, OnRecord, Modes
<1> QED
  BY <1>1, <1>2, <1>3, <1>4, <1>5 DEF UInv, MutexOK, FlockOK, GrantsOK, OneGrantHeld,
                                      HandlerOK, Appending, CliOK

\* What approved a request, and keeps it so, tells which handlers, revokes and
\* grants are about it.
LEMMA HeldBacked ==
  ASSUME UInv, NEW k \in Files, NEW g \in Held(k)
  PROVE  /\ g \in Grant /\ g.id \in Requests
         /\ FileOf(g.mode) = k
         /\ status[g.id] = "approved" /\ lease[g.id] = g.mode
         /\ <<"revoked", g.id>> \in audit => <<"revoked_all", k>> \in audit
<1>1. g \in Grant
  BY HeldType DEF UInv
<1> QED
  BY <1>1 DEF UInv, GrantsOK, Grant

\* Written grants: their handler, and that it held the mutex.
LEMMA WriterOK ==
  ASSUME UInv, NEW o \in Operators, Write(o)
  PROVE  /\ Appending(o) /\ op[o].req \in Requests /\ NewGrant(o) \in Grant
         /\ NewGrant(o).id = op[o].req /\ NewGrant(o).mode = op[o].mode
         /\ status[op[o].req] = "approved" /\ lease[op[o].req] = op[o].mode
         /\ \A k \in Files : \A g \in Held(k) : g.id # op[o].req
         /\ <<"revoked", op[o].req>> \notin audit
         /\ \A p \in Operators : Appending(p) => p = o
<1>1. op[o].pc = "write" /\ op[o] \in Handler
  BY DEF Write, UInv, TypeOK
<1>2. Appending(o)
  BY <1>1 DEF Appending
<1>3. op[o].req \in Requests /\ NewGrant(o) \in Grant
  BY <1>1 DEF Handler, NewGrant, Grant
<1>4. \A p \in Operators : Appending(p) => p = o
  BY <1>1 DEF UInv, MutexOK, Appending
<1>5. HandlerOK(o)
  BY DEF UInv
<1> QED
  BY <1>2, <1>3, <1>4, <1>5 DEF HandlerOK, NewGrant

LEMMA GrantsNext == UInv /\ TypeOK' /\ [Next]_vars => GrantsOK'
<1> SUFFICES ASSUME UInv, TypeOK', [Next]_vars, NEW k \in Files, NEW g \in Held(k)'
             PROVE  /\ FileOf(g.mode) = k
                    /\ status'[g.id] = "approved" /\ lease'[g.id] = g.mode
                    /\ <<"revoked", g.id>> \in audit' => <<"revoked_all", k>> \in audit'
  BY DEF GrantsOK
<1>0. TypeOK /\ audit \subseteq audit'
  BY AuditGrows DEF UInv
<1>1. \/ g \in Held(k)
      \/ \E o \in Operators : Write(o) /\ g = NewGrant(o) /\ k = FileOf(op[o].mode)
  BY <1>0, HeldNext
<1>2. /\ g.id \in Requests /\ FileOf(g.mode) = k
      /\ status[g.id] = "approved" /\ lease[g.id] = g.mode
      /\ <<"revoked", g.id>> \in audit => <<"revoked_all", k>> \in audit
  <2>1. CASE g \in Held(k)
    BY <2>1, HeldBacked
  <2>2. ASSUME NEW o \in Operators, Write(o), g = NewGrant(o), k = FileOf(op[o].mode)
        PROVE  /\ g.id \in Requests /\ FileOf(g.mode) = k
               /\ status[g.id] = "approved" /\ lease[g.id] = g.mode
               /\ <<"revoked", g.id>> \notin audit
    BY <2>2, WriterOK
  <2> QED
    BY <1>1, <2>1, <2>2
<1>3. status'[g.id] = "approved" /\ lease'[g.id] = g.mode
  BY <1>0, <1>2, ApprovedStays
<1>4. ASSUME <<"revoked", g.id>> \in audit', <<"revoked", g.id>> \notin audit
      PROVE  <<"revoked_all", k>> \in audit'
  <2>1. PICK c \in Clis :
              /\ cli[c].pc # "idle" /\ cli[c].id = g.id /\ cli'[c].pc = "idle"
              /\ cli[c].file \in Files
              /\ \A d \in Clis \ {c} : cli'[d] = cli[d]
              /\ \/ cli[c].pc = "save" /\ files' = [files EXCEPT ![cli[c].file] = Saved(c)]
                 \/ files' = files /\ files[cli[c].file] = EmptyFile
                 \/ /\ files' = files /\ ~Locked(cli[c].file)
                    /\ \A h \in Readable(files[cli[c].file]) : h.id # g.id
    BY <1>0, <1>2, <1>4, RevokedNext
  <2>2. CliOK(c)
    BY DEF UInv
  <2>3. k = cli[c].file
    BY <1>2, <2>1, <2>2 DEF CliOK
  <2>4. g \notin Readable(files'[k])
    <3>1. CASE cli[c].pc = "save" /\ files' = [files EXCEPT ![cli[c].file] = Saved(c)]
      <4>1. files'[k] = Saved(c)
        BY <1>0, <2>3, <3>1 DEF TypeOK
      <4>2. Readable(Saved(c)) = cli[c].keep
        BY DEF Saved, Readable, NoTail
      <4> QED
        BY <2>1, <2>2, <3>1, <4>1, <4>2 DEF CliOK
    <3>2. CASE files' = files /\ files[cli[c].file] = EmptyFile
      BY <2>3, <3>2 DEF Readable, EmptyFile, NoTail
    <3>3. CASE files' = files /\ \A h \in Readable(files[cli[c].file]) : h.id # g.id
      BY <2>3, <3>3
    <3> QED
      BY <2>1, <3>1, <3>2, <3>3
  <2>5. PICK d \in Clis : cli'[d].pc = "save" /\ cli'[d].file = k /\ g \in cli'[d].keep
    BY <2>4 DEF Held
  <2>6. d # c /\ cli'[d] = cli[d]
    BY <2>1, <2>5
  <2>7. CASE cli[c].pc = "save"
    BY <2>3, <2>5, <2>6, <2>7 DEF UInv, FlockOK
  <2>8. CASE ~Locked(cli[c].file)
    BY <2>3, <2>5, <2>6, <2>8 DEF Locked
  <2>9. CASE files' = files /\ files[cli[c].file] = EmptyFile
    <3>1. CliOK(d) /\ g \notin Readable(files[k])
      BY <2>4, <2>9 DEF UInv
    <3> QED
      BY <1>0, <2>5, <2>6, <3>1 DEF CliOK
  <2> QED
    BY <2>1, <2>7, <2>8, <2>9
<1> QED
  BY <1>0, <1>2, <1>3, <1>4

LEMMA OneGrantNext == UInv /\ [Next]_vars => OneGrantHeld'
<1> SUFFICES ASSUME UInv, [Next]_vars, NEW k \in Files, NEW l \in Files,
                    NEW g \in Held(k)', NEW h \in Held(l)', g.id = h.id
             PROVE  g = h
  BY DEF OneGrantHeld
<1>0. TypeOK
  BY DEF UInv
<1>1. \/ g \in Held(k)
      \/ \E o \in Operators : Write(o) /\ g = NewGrant(o)
  BY <1>0, HeldNext
<1>2. \/ h \in Held(l)
      \/ \E o \in Operators : Write(o) /\ h = NewGrant(o)
  BY <1>0, HeldNext
<1>3. CASE g \in Held(k) /\ h \in Held(l)
  BY <1>3 DEF UInv, OneGrantHeld
<1>4. ASSUME NEW o \in Operators, Write(o), g = NewGrant(o) \/ h = NewGrant(o)
      PROVE  g = h
  <2>1. /\ g.id = op[o].req /\ h.id = op[o].req
        /\ \A m \in Files : \A f \in Held(m) : f.id # op[o].req
        /\ \A p \in Operators : Write(p) => p = o
    <3>1. \A p \in Operators : Write(p) => Appending(p)
      BY WriterOK
    <3> QED
      BY <1>4, <3>1, WriterOK
  <2> QED
    BY <1>1, <1>2, <2>1
<1> QED
  BY <1>1, <1>2, <1>3, <1>4

\* How the program point of a handler moves, and that the others stay.
LEMMA Moves ==
  ASSUME TypeOK, NEW o \in Operators
  PROVE  /\ Post(o) => /\ op[o].pc = "idle" /\ op'[o].pc = "waiting"
                       /\ \A p \in Operators \ {o} : op'[p] = op[p]
         /\ Enter(o) => /\ ~Deciding
                        /\ \A p \in Operators \ {o} : op'[p] = op[p]
         /\ Enter(o) => op'[o].pc \in {"claim", "idle"}
         /\ Claim(o) => /\ op[o].pc = "claim" /\ op'[o].pc \in {"open", "idle"}
                        /\ \A p \in Operators \ {o} : op'[p] = op[p]
         /\ Open(o) => /\ op[o].pc = "open"
                       /\ \A p \in Operators \ {o} : op'[p] = op[p]
                       /\ op'[o].pc = "idle"
                            \/ (op'[o].pc = "write" /\ ~Locked(FileOf(op[o].mode)))
         /\ Write(o) => /\ op[o].pc = "write" /\ op'[o].pc = "idle"
                        /\ \A p \in Operators \ {o} : op'[p] = op[p]
<1>0. op \in [Operators -> Handler] /\ op[o] \in Handler
  BY DEF TypeOK
<1>1. ASSUME NEW h, op' = [op EXCEPT ![o] = h]
      PROVE  op'[o] = h /\ \A p \in Operators \ {o} : op'[p] = op[p]
  BY <1>0, <1>1
<1>2. ASSUME NEW a, Answer(o, a)
      PROVE  op'[o].pc = "idle" /\ \A p \in Operators \ {o} : op'[p] = op[p]
  <2> DEFINE h == [IdleHandler EXCEPT !.req = op[o].req, !.answer = a]
  <2>1. op' = [op EXCEPT ![o] = h]
    BY <1>2 DEF Answer
  <2>2. h.pc = "idle"
    BY DEF IdleHandler
  <2> HIDE DEF h
  <2> QED
    BY <1>1, <2>1, <2>2
<1>3. ASSUME NEW pc, op' = [op EXCEPT ![o].pc = pc]
      PROVE  op'[o].pc = pc /\ \A p \in Operators \ {o} : op'[p] = op[p]
  <2> DEFINE h == [op[o] EXCEPT !.pc = pc]
  <2>1. op' = [op EXCEPT ![o] = h]
    BY <1>0, <1>3
  <2>2. h.pc = pc
    BY <1>0 DEF Handler
  <2> HIDE DEF h
  <2> QED
    BY <1>1, <2>1, <2>2
<1>4. ASSUME Post(o)
      PROVE  /\ op[o].pc = "idle" /\ op'[o].pc = "waiting"
             /\ \A p \in Operators \ {o} : op'[p] = op[p]
  <2>1. PICK r \in Requests, m \in Modes \cup {"deny"} :
          op' = [op EXCEPT ![o] = [IdleHandler EXCEPT !.pc = "waiting", !.req = r, !.mode = m]]
    BY <1>4 DEF Post
  <2> DEFINE h == [IdleHandler EXCEPT !.pc = "waiting", !.req = r, !.mode = m]
  <2>2. h.pc = "waiting" /\ op[o].pc = "idle"
    BY <1>4 DEF IdleHandler, Post
  <2>3. op' = [op EXCEPT ![o] = h]
    BY <2>1
  <2> HIDE DEF h
  <2> QED
    BY <1>1, <2>2, <2>3
<1>5. ASSUME Enter(o)
      PROVE  /\ ~Deciding /\ op'[o].pc \in {"claim", "idle"}
             /\ \A p \in Operators \ {o} : op'[p] = op[p]
  <2>1. CASE op' = [op EXCEPT ![o].pc = "claim", ![o].expires = Expiry(op[o].mode)]
    <3> DEFINE e == Expiry(op[o].mode)
               h == [op[o] EXCEPT !.pc = "claim", !.expires = e]
    <3>1. op' = [op EXCEPT ![o] = h]
      BY <1>0, <2>1
    <3> HIDE DEF e
    <3>2. h.pc = "claim"
      BY <1>0 DEF Handler
    <3> HIDE DEF h
    <3> QED
      BY <1>1, <1>5, <3>1, <3>2 DEF Enter
  <2>2. CASE Answer(o, "refused") \/ Answer(o, "failed")
    BY <1>2, <1>5, <2>2 DEF Enter
  <2> QED
    BY <1>5, <2>1, <2>2 DEF Enter
<1>6. ASSUME Claim(o)
      PROVE  /\ op[o].pc = "claim" /\ op'[o].pc \in {"open", "idle"}
             /\ \A p \in Operators \ {o} : op'[p] = op[p]
  <2>1. op[o].pc = "claim" /\ (op' = [op EXCEPT ![o].pc = "open"] \/ \E a : Answer(o, a))
    BY <1>6 DEF Claim, Decided
  <2> QED
    BY <1>2, <1>3, <2>1
<1>7. ASSUME Open(o)
      PROVE  /\ op[o].pc = "open" /\ \A p \in Operators \ {o} : op'[p] = op[p]
             /\ op'[o].pc = "idle"
                  \/ (op'[o].pc = "write" /\ ~Locked(FileOf(op[o].mode)))
  <2>1. /\ op[o].pc = "open"
        /\ \/ ~Locked(FileOf(op[o].mode)) /\ op' = [op EXCEPT ![o].pc = "write"]
           \/ Answer(o, "failed")
    BY <1>7 DEF Open
  <2> QED
    BY <1>2, <1>3, <2>1
<1>8. ASSUME Write(o)
      PROVE  /\ op[o].pc = "write" /\ op'[o].pc = "idle"
             /\ \A p \in Operators \ {o} : op'[p] = op[p]
  <2>1. op[o].pc = "write" /\ (Answer(o, "applied") \/ Answer(o, "failed"))
    BY <1>8 DEF Write
  <2> QED
    BY <1>2, <2>1
<1> QED
  BY <1>4, <1>5, <1>6, <1>7, <1>8

\* The steps that move no handler into or within its critical section.
LEMMA OtherMoves ==
  ASSUME TypeOK, [Next]_vars, NEW o \in Operators
  PROVE  \/ \E p \in Operators : Post(p) \/ Enter(p) \/ Claim(p) \/ Open(p) \/ Write(p)
         \/ op'[o].pc = "idle"
         \/ op'[o].pc = op[o].pc /\ op'[o].mode = op[o].mode
<1>1. CASE op' = op
  BY <1>1
<1>2. CASE Crash
  BY <1>2 DEF Crash, IdleHandler
<1>3. ASSUME RevokeAll
      PROVE  op'[o].pc = op[o].pc /\ op'[o].mode = op[o].mode
  <2>1. \E k : op'[o] = IF op[o].pc = "write" /\ FileOf(op[o].mode) = k
                        THEN [op[o] EXCEPT !.unlinked = TRUE] ELSE op[o]
    BY <1>3 DEF RevokeAll
  <2>2. op[o] \in Handler
    BY DEF TypeOK
  <2> QED
    BY <2>1, <2>2 DEF Handler
<1> QED
  BY <1>1, <1>2, <1>3 DEF Next, Handle, Create, SignedDecision, Poll, RevokeFind, RevokeStat,
                          RevokeLoad, RevokeSave, Restart, Tick, vars

\* A handler in its critical section was there already, or has just found the
\* mutex free and is alone.
LEMMA CriticalNext ==
  ASSUME TypeOK, [Next]_vars, NEW o \in Operators, op'[o].pc \in {"claim", "open", "write"}
  PROVE  \/ op[o].pc \in {"claim", "open", "write"}
         \/ ~Deciding /\ \A p \in Operators \ {o} : op'[p] = op[p]
<1>1. ASSUME NEW p \in Operators, Post(p) \/ Enter(p) \/ Claim(p) \/ Open(p) \/ Write(p)
      PROVE  \/ op[o].pc \in {"claim", "open", "write"}
             \/ ~Deciding /\ \A q \in Operators \ {o} : op'[q] = op[q]
  BY <1>1, Moves
<1> QED
  BY <1>1, OtherMoves

LEMMA MutexNext == TypeOK /\ MutexOK /\ [Next]_vars => MutexOK'
<1> SUFFICES ASSUME TypeOK, MutexOK, [Next]_vars, NEW o \in Operators, NEW p \in Operators,
                    op'[o].pc \in {"claim", "open", "write"},
                    op'[p].pc \in {"claim", "open", "write"}, o # p
             PROVE  FALSE
  BY DEF MutexOK
<1>1. op[o].pc \in {"claim", "open", "write"} /\ op[p].pc \in {"claim", "open", "write"}
  BY CriticalNext DEF Deciding
<1> QED
  BY <1>1 DEF MutexOK

\* A handler that writes had the flock already, or has just found it free.
LEMMA WritingNext ==
  ASSUME TypeOK, [Next]_vars, NEW o \in Operators, op'[o].pc = "write"
  PROVE  /\ op'[o].mode = op[o].mode
         /\ \/ op[o].pc = "write"
            \/ ~Locked(FileOf(op[o].mode)) /\ cli' = cli
<1>1. op'[o].mode = op[o].mode
  BY AppendingNext, Moves DEF Appending
<1>2. ASSUME NEW p \in Operators, Post(p) \/ Enter(p) \/ Claim(p) \/ Open(p) \/ Write(p)
      PROVE  op[o].pc = "write" \/ (~Locked(FileOf(op[o].mode)) /\ cli' = cli)
  <2>1. cli' = cli
    BY <1>2 DEF Post, Enter, Claim, Open, Write
  <2> QED
    BY <1>2, <2>1, Moves
<1> QED
  BY <1>1, <1>2, OtherMoves

LEMMA FlockNext == TypeOK /\ FlockOK /\ [Next]_vars => FlockOK'
<1> SUFFICES ASSUME TypeOK, FlockOK, [Next]_vars PROVE FlockOK'
  OBVIOUS
<1>1. ASSUME NEW c \in Clis, NEW d \in Clis, cli'[c].pc = "save", cli'[d].pc = "save",
             cli'[c].file = cli'[d].file, c # d
      PROVE  FALSE
  <2>1. cli'[c] = cli[c] \/ cli'[d] = cli[d]
    BY <1>1, SavingNext
  <2>2. CASE cli'[c] = cli[c] /\ cli'[d] = cli[d]
    BY <1>1, <2>2 DEF FlockOK
  <2>3. CASE cli'[c] = cli[c] /\ cli'[d] # cli[d]
    BY <1>1, <2>3, SavingNext DEF Locked
  <2>4. CASE cli'[d] = cli[d] /\ cli'[c] # cli[c]
    BY <1>1, <2>4, SavingNext DEF Locked
  <2> QED
    BY <2>1, <2>2, <2>3, <2>4
<1>2. ASSUME NEW o \in Operators, NEW c \in Clis, op'[o].pc = "write", cli'[c].pc = "save",
             FileOf(op'[o].mode) = cli'[c].file
      PROVE  FALSE
  <2>1. op'[o].mode = op[o].mode
        /\ (op[o].pc = "write" \/ (~Locked(FileOf(op[o].mode)) /\ cli' = cli))
    BY <1>2, WritingNext
  <2>2. CASE cli'[c] = cli[c]
    BY <1>2, <2>1, <2>2 DEF FlockOK, Locked
  <2>3. CASE cli'[c] # cli[c]
    <3>1. ~Locked(cli'[c].file) /\ op' = op
      BY <1>2, <2>3, SavingNext DEF Locked
    <3> QED
      BY <1>2, <2>1, <3>1 DEF Locked
  <2> QED
    BY <2>2, <2>3
<1> QED
  BY <1>1, <1>2 DEF FlockOK

LEMMA HandlerNext == UInv /\ TypeOK' /\ [Next]_vars => \A o \in Operators : HandlerOK(o)'
<1> SUFFICES ASSUME UInv, TypeOK', [Next]_vars, NEW o \in Operators, Appending(o)'
             PROVE  /\ status'[op'[o].req] = "approved" /\ lease'[op'[o].req] = op'[o].mode
                    /\ \A k \in Files : \A g \in Held(k)' : g.id # op'[o].req
                    /\ <<"revoked", op'[o].req>> \notin audit'
                    /\ \A c \in Clis : cli'[c].pc # "idle" => cli'[c].id # op'[o].req
  BY DEF HandlerOK
<1>0. TypeOK /\ HandlerOK(o)
  BY DEF UInv
<1> DEFINE r == op[o].req
<1>r. r \in Requests /\ op'[o].req \in Requests
  <2>1. op[o] \in Handler /\ op'[o] \in Handler
    BY <1>0 DEF TypeOK
  <2>2. op'[o].pc # "idle"
    BY DEF Appending
  <2>3. op[o].pc # "idle"
    BY <1>0, AppendingNext DEF Appending, Claim
  <2> QED
    BY <2>1, <2>2, <2>3 DEF Handler
<1>1. CASE Appending(o) /\ ~Write(o) /\ op'[o].req = r /\ op'[o].mode = op[o].mode
  <2>1. /\ status[r] = "approved" /\ lease[r] = op[o].mode
        /\ \A k \in Files : \A g \in Held(k) : g.id # r
        /\ <<"revoked", r>> \notin audit
        /\ \A c \in Clis : cli[c].pc # "idle" => cli[c].id # r
    BY <1>0, <1>1 DEF HandlerOK
  <2>2. status'[r] = "approved" /\ lease'[r] = op'[o].mode
    BY <1>0, <1>1, <1>r, <2>1, ApprovedStays
  <2>3. ASSUME NEW k \in Files, NEW g \in Held(k)'
        PROVE  g.id # r
    <3>1. \A p \in Operators : ~Write(p)
      BY <1>1, WriterOK
    <3>2. g \in Held(k)
      BY <1>0, <3>1, HeldNext
    <3> QED
      BY <2>1, <3>2
  <2>4. <<"revoked", r>> \notin audit'
    <3> SUFFICES ASSUME <<"revoked", r>> \in audit' PROVE FALSE
      OBVIOUS
    <3>1. PICK x \in Requests : x = r
      BY <1>r
    <3>2. <<"revoked", x>> \in audit' /\ <<"revoked", x>> \notin audit
      BY <2>1, <3>1
    <3>3. PICK c \in Clis : cli[c].pc # "idle" /\ cli[c].id = x
      BY <1>0, <3>2, RevokedNext
    <3> QED
      BY <2>1, <3>1, <3>3
  <2>5. ASSUME NEW c \in Clis, cli'[c].pc # "idle"
        PROVE  cli'[c].id # r
    <3>1. CASE cli'[c] = cli[c] \/ (cli[c].pc # "idle" /\ cli'[c].id = cli[c].id)
      BY <2>1, <2>5, <3>1
    <3>2. CASE /\ cli'[c].file \in Files
               /\ \E g \in Readable(files[cli'[c].file]) : g.id = cli'[c].id
      <4>1. Readable(files[cli'[c].file]) \subseteq Held(cli'[c].file)
        BY DEF Held
      <4> QED
        BY <2>1, <3>2, <4>1
    <3> QED
      BY <1>0, <2>5, <3>1, <3>2, RevokingNext
  <2> QED
    BY <1>1, <2>2, <2>3, <2>4, <2>5
<1>2. CASE /\ Claim(o) /\ status[r] = "pending" /\ op'[o].req = r
           /\ status'[r] = "approved" /\ lease'[r] = op'[o].mode
           /\ files' = files /\ cli' = cli /\ audit' = audit
  <2>1. \A k \in Files : \A g \in Held(k)' : g.id # r
    <3>1. \A k \in Files : Held(k)' = Held(k)
      BY <1>2 DEF Held
    <3> QED
      BY <1>2, <3>1, HeldBacked
  <2>2. RequestOK(r)
    BY <1>r DEF UInv
  <2>3. \A c \in Clis : CliOK(c)
    BY DEF UInv
  <2>4. <<"revoked", r>> \notin audit
    BY <1>2, <2>2 DEF RequestOK
  <2>5. \A c \in Clis : cli[c].pc # "idle" => cli[c].id # r
    BY <1>2, <2>3 DEF CliOK
  <2> QED
    BY <1>2, <2>1, <2>4, <2>5
<1> QED
  BY <1>0, <1>1, <1>2, AppendingNext

\* A locked file shrinks only with a revoke --all.
LEMMA LockedStays ==
  ASSUME UInv, [Next]_vars, NEW c \in Clis, cli[c].pc = "save", cli'[c] = cli[c]
  PROVE  \/ Readable(files[cli[c].file]) \subseteq Readable(files'[cli[c].file])
         \/ <<"revoked_all", cli[c].file>> \in audit'
<1>0. TypeOK /\ files \in [Files -> File] /\ cli[c].file \in Files
  BY SaveHolds DEF UInv, TypeOK
<1>1. CASE files' = files
  BY <1>1
<1>2. ASSUME NEW o \in Operators, Write(o)
      PROVE  files'[cli[c].file] = files[cli[c].file]
  <2>1. FileOf(op[o].mode) # cli[c].file
    BY <1>2 DEF UInv, FlockOK, Write
  <2>2. files' = files \/ \E f : files' = [files EXCEPT ![FileOf(op[o].mode)] = f]
    BY <1>2 DEF Write
  <2> QED
    BY <1>0, <2>1, <2>2
<1>3. ASSUME NEW d \in Clis, RevokeSave(d)
      PROVE  files'[cli[c].file] = files[cli[c].file]
  <2>1. /\ cli[d].pc = "save" /\ cli'[d].pc = "idle"
        /\ files' = files \/ files' = [files EXCEPT ![cli[d].file] = Saved(d)]
    BY <1>0, <1>3, RevokeMoves
  <2>2. d # c
    BY <2>1
  <2>3. cli[d].file # cli[c].file
    BY <2>1, <2>2 DEF UInv, FlockOK
  <2> QED
    BY <1>0, <2>1, <2>3
<1>4. CASE RevokeAll
  <2>1. PICK k \in Files : /\ files' = [files EXCEPT ![k] = EmptyFile]
                           /\ audit' = audit \cup {<<"revoked_all", k>>}
    BY <1>4 DEF RevokeAll
  <2>2. k = cli[c].file \/ files'[cli[c].file] = files[cli[c].file]
    BY <1>0, <2>1
  <2> QED
    BY <2>1, <2>2
<1> QED
  BY <1>1, <1>2, <1>3, <1>4 DEF Next, Handle, Create, SignedDecision, Poll, Post, Enter, Claim,
         Open, RevokeFind, RevokeStat, RevokeLoad, Crash, Restart, Tick, vars

LEMMA CliNext == UInv /\ [Next]_vars => \A c \in Clis : CliOK(c)'
<1> SUFFICES ASSUME UInv, [Next]_vars, NEW c \in Clis PROVE CliOK(c)'
  OBVIOUS
<1>0. TypeOK /\ audit \subseteq audit' /\ CliOK(c) /\ cli[c] \in Cli
  BY AuditGrows DEF UInv, TypeOK
<1>1. ASSUME cli'[c].pc # "idle"
      PROVE  status'[cli'[c].id] = "approved" /\ FileOf(lease'[cli'[c].id]) = cli'[c].file
  <2>1. /\ cli'[c].id \in Requests /\ status[cli'[c].id] = "approved"
        /\ FileOf(lease[cli'[c].id]) = cli'[c].file
    <3>1. CASE cli[c].pc # "idle" /\ cli'[c].id = cli[c].id /\ cli'[c].file = cli[c].file
      BY <1>0, <3>1 DEF CliOK, Cli
    <3>2. CASE /\ cli'[c].file \in Files
               /\ \E g \in Readable(files[cli'[c].file]) : g.id = cli'[c].id
      <4>1. Readable(files[cli'[c].file]) \subseteq Held(cli'[c].file)
        BY DEF Held
      <4>2. PICK g \in Readable(files[cli'[c].file]) : g.id = cli'[c].id
        BY <3>2
      <4>3. /\ g.id \in Requests /\ status[g.id] = "approved" /\ lease[g.id] = g.mode
            /\ FileOf(g.mode) = cli'[c].file
        BY <3>2, <4>1, <4>2, HeldBacked
      <4> QED
        BY <4>2, <4>3
    <3> QED
      BY <1>0, <1>1, <3>1, <3>2, RevokingNext
  <2> QED
    BY <1>0, <2>1, ApprovedStays
<1>2. ASSUME cli'[c].pc = "save"
      PROVE  /\ \A g \in cli'[c].keep : g.id # cli'[c].id
             /\ \/ cli'[c].keep \subseteq Readable(files'[cli'[c].file])
                \/ <<"revoked_all", cli'[c].file>> \in audit'
  <2>1. CASE cli'[c] = cli[c]
    BY <1>0, <1>2, <2>1, LockedStays DEF CliOK
  <2>2. CASE /\ cli'[c].file = cli[c].file /\ cli'[c].id = cli[c].id
             /\ cli'[c].keep = Without(Readable(files[cli[c].file]), cli[c].id)
             /\ files' = files
    BY <2>2 DEF Without
  <2> QED
    BY <1>0, <1>2, <2>1, <2>2, SavingNext
<1> QED
  BY <1>1, <1>2 DEF CliOK

LEMMA RequestNext == UInv /\ [Next]_vars => \A r \in Requests : RequestOK(r)'
<1> SUFFICES ASSUME UInv, [Next]_vars, NEW r \in Requests
             PROVE  RequestOK(r)'
  OBVIOUS
<1>0. TypeOK /\ RequestOK(r)
  BY DEF UInv
<1>1. status'[r] = "approved" <=> lease'[r] # "none"
  <2>1. \/ status' = status /\ lease' = lease
        \/ \E q \in Requests : Create(q) \/ SignedDecision(q)
        \/ \E o \in Operators : Claim(o)
    BY DEF Next, Handle, Poll, Post, Enter, Open, Write, RevokeFind, RevokeStat, RevokeLoad,
           RevokeSave, RevokeAll, Crash, Restart, Tick, vars
  <2>2. CASE status' = status /\ lease' = lease
    BY <1>0, <2>2 DEF RequestOK
  <2>3. ASSUME NEW q \in Requests, Create(q) \/ SignedDecision(q)
        PROVE  status'[r] = "approved" <=> lease'[r] # "none"
    <3>1. \/ /\ lease' = lease /\ status[q] \in {"absent", "pending"}
             /\ \E x \in {"pending", "denied"} : status' = [status EXCEPT ![q] = x]
          \/ /\ status' = [status EXCEPT ![q] = "approved"]
             /\ \E l \in Leases : lease' = [lease EXCEPT ![q] = l]
      BY <2>3 DEF Create, SignedDecision
    <3>2. CASE q # r
      <4>1. status'[r] = status[r] /\ lease'[r] = lease[r]
        BY <1>0, <3>1, <3>2 DEF TypeOK
      <4> QED
        BY <1>0, <4>1 DEF RequestOK
    <3>3. CASE q = r
      <4>1. \/ status'[r] \in {"pending", "denied"} /\ status[r] # "approved" /\ lease'[r] = lease[r]
            \/ status'[r] = "approved" /\ lease'[r] \in Leases
        BY <1>0, <3>1, <3>3 DEF TypeOK
      <4> QED
        BY <1>0, <4>1 DEF RequestOK, Leases, Modes
    <3> QED
      BY <3>2, <3>3
  <2>4. ASSUME NEW o \in Operators, Claim(o)
        PROVE  status'[r] = "approved" <=> lease'[r] # "none"
    <3>1. op[o] \in Handler /\ op[o].pc = "claim"
      BY <1>0, <2>4 DEF Claim, TypeOK
    <3>2. op[o].req \in Requests /\ op[o].mode \in Modes \cup {"deny"}
      BY <3>1 DEF Handler
    <3>3. \/ status' = status /\ lease' = lease
          \/ /\ status[op[o].req] = "pending" /\ lease' = lease
             /\ status' = [status EXCEPT ![op[o].req] = "denied"]
          \/ /\ status' = [status EXCEPT ![op[o].req] = "approved"] /\ op[o].mode # "deny"
             /\ lease' = [lease EXCEPT ![op[o].req] = op[o].mode]
      BY <2>4 DEF Claim, Decided, Undecided
    <3> QED
      BY <1>0, <3>2, <3>3 DEF RequestOK, TypeOK, Modes
  <2> QED
    BY <2>1, <2>2, <2>3, <2>4
<1>2. <<"revoked", r>> \in audit' => status'[r] = "approved"
  <2> SUFFICES ASSUME <<"revoked", r>> \in audit'
               PROVE  status[r] = "approved"
    BY <1>0, ApprovedStays
  <2>1. CASE <<"revoked", r>> \in audit
    BY <1>0, <2>1 DEF RequestOK
  <2>2. ASSUME NEW c \in Clis, cli[c].pc # "idle", cli[c].id = r
        PROVE  status[r] = "approved"
    BY <2>2 DEF UInv, CliOK
  <2> QED
    BY <1>0, <2>1, <2>2, RevokedNext
<1> QED
  BY <1>1, <1>2 DEF RequestOK

\* A handler stops appending by writing, by failing, or with the daemon.
LEMMA AppendingEnds ==
  ASSUME UInv, TypeOK', [Next]_vars, NEW o \in Operators, Appending(o)
  PROVE  \/ Appending(o)' /\ op'[o].req = op[o].req
         \/ <<"applied", op[o].req>> \in audit' \/ <<"grant_failed", op[o].req>> \in audit'
         \/ crashes' > 0
<1>0. TypeOK /\ op \in [Operators -> Handler] /\ op[o] \in Handler /\ crashes \in Nat
  BY DEF UInv, TypeOK
<1>1. CASE op' = op
  BY <1>1 DEF Appending
<1>2. ASSUME NEW p \in Operators, p # o, Post(p) \/ Enter(p) \/ Claim(p) \/ Open(p) \/ Write(p)
      PROVE  op'[o] = op[o]
  BY <1>0, <1>2, Moves
<1>3. ~Post(o) /\ ~Enter(o) /\ ~Claim(o)
  BY DEF Post, Enter, Claim, Appending
<1>4. CASE Open(o)
  <2>1. CASE op' = [op EXCEPT ![o].pc = "write"]
    <3> DEFINE h == [op[o] EXCEPT !.pc = "write"]
    <3>1. h.req = op[o].req /\ h.pc = "write"
      BY <1>0 DEF Handler
    <3>2. op' = [op EXCEPT ![o] = h]
      BY <1>0, <2>1
    <3> HIDE DEF h
    <3>3. op'[o] = h
      BY <1>0, <3>2
    <3> QED
      BY <3>1, <3>3 DEF Appending
  <2>2. CASE Audit("grant_failed", op[o].req)
    BY <2>2 DEF Audit
  <2> QED
    BY <1>4, <2>1, <2>2 DEF Open
<1>5. CASE Write(o)
  BY <1>5 DEF Write, Audit
<1>6. CASE RevokeAll
  <2>1. \E k : op'[o] = IF op[o].pc = "write" /\ FileOf(op[o].mode) = k
                        THEN [op[o] EXCEPT !.unlinked = TRUE] ELSE op[o]
    BY <1>6 DEF RevokeAll
  <2> QED
    BY <1>0, <2>1 DEF Handler, Appending
<1>7. CASE Crash
  BY <1>0, <1>7 DEF Crash
<1>8. \/ op' = op
      \/ \E p \in Operators : Post(p) \/ Enter(p) \/ Claim(p) \/ Open(p) \/ Write(p)
      \/ RevokeAll \/ Crash
  BY DEF Next, Handle, Create, SignedDecision, Poll, RevokeFind, RevokeStat,
         RevokeLoad, RevokeSave, Restart, Tick, vars
<1>9. ASSUME NEW p \in Operators, Post(p) \/ Enter(p) \/ Claim(p) \/ Open(p) \/ Write(p)
      PROVE  \/ Appending(o)' /\ op'[o].req = op[o].req
             \/ <<"applied", op[o].req>> \in audit' \/ <<"grant_failed", op[o].req>> \in audit'
             \/ crashes' > 0
  <2>1. CASE p = o
    BY <1>3, <1>4, <1>5, <1>9, <2>1
  <2>2. CASE p # o
    BY <1>2, <1>9, <2>2 DEF Appending
  <2> QED
    BY <2>1, <2>2
<1> QED
  BY <1>1, <1>6, <1>7, <1>8, <1>9

LEMMA RecordNext == UInv /\ TypeOK' /\ [Next]_vars => \A r \in Requests : OnRecord(r)'
<1> SUFFICES ASSUME UInv, TypeOK', [Next]_vars, NEW r \in Requests, lease'[r] \in Modes
             PROVE  \/ \E o \in Operators : Appending(o)' /\ op'[o].req = r
                    \/ <<"applied", r>> \in audit' \/ <<"grant_failed", r>> \in audit'
                    \/ crashes' > 0
  BY DEF OnRecord
<1>0. TypeOK /\ audit \subseteq audit' /\ OnRecord(r) /\ crashes \in Nat
  BY AuditGrows DEF UInv, TypeOK
<1>1. CASE lease'[r] = lease[r]
  <2>1. ASSUME NEW o \in Operators, Appending(o), op[o].req = r
        PROVE  \/ Appending(o)' /\ op'[o].req = r
               \/ <<"applied", r>> \in audit' \/ <<"grant_failed", r>> \in audit'
               \/ crashes' > 0
    BY <2>1, AppendingEnds
  <2>2. crashes > 0 => crashes' > 0
    <3>1. crashes' = crashes \/ crashes' = crashes + 1
      BY DEF Next, Handle, Create, SignedDecision, Poll, Post, Enter, Claim, Open, Write,
             RevokeFind, RevokeStat, RevokeLoad, RevokeSave, RevokeAll, Crash, Restart, Tick, vars
    <3> QED
      BY <1>0, <3>1
  <2> QED
    BY <1>0, <1>1, <2>1, <2>2 DEF OnRecord
<1>2. CASE lease'[r] # lease[r]
  <2>1. \/ \E q \in Requests : SignedDecision(q)
        \/ \E o \in Operators : Claim(o)
    BY <1>2 DEF Next, Handle, Create, Poll, Post, Enter, Open, Write, RevokeFind, RevokeStat,
       RevokeLoad, RevokeSave, RevokeAll, Crash, Restart, Tick, vars
  <2>2. ASSUME NEW q \in Requests, SignedDecision(q) PROVE FALSE
    <3>1. lease' = lease \/ \E l \in Leases \ Modes : lease' = [lease EXCEPT ![q] = l]
      BY <2>2 DEF SignedDecision
    <3> QED
      BY <1>0, <1>2, <3>1 DEF TypeOK
  <2>3. PICK o \in Operators : Claim(o)
    BY <2>1, <2>2
  <2>4. /\ lease' = [lease EXCEPT ![op[o].req] = op[o].mode]
        /\ op' = [op EXCEPT ![o].pc = "open"]
    BY <1>2, <2>3 DEF Claim, Decided
  <2>5. op[o].req = r
    BY <1>0, <1>2, <2>4 DEF TypeOK
  <2> DEFINE h == [op[o] EXCEPT !.pc = "open"]
  <2>6. h.req = op[o].req /\ h.pc = "open"
    <3>1. op[o] \in Handler
      BY <1>0 DEF TypeOK
    <3> QED
      BY <3>1 DEF Handler
  <2>7. op' = [op EXCEPT ![o] = h]
    BY <1>0, <2>4 DEF TypeOK
  <2> HIDE DEF h
  <2>8. op'[o] = h
    BY <1>0, <2>7 DEF TypeOK
  <2> QED
    BY <2>5, <2>6, <2>8 DEF Appending
<1> QED
  BY <1>1, <1>2

LEMMA UInvNext == UInv /\ [Next]_vars => UInv'
<1> SUFFICES ASSUME UInv, [Next]_vars PROVE UInv'
  OBVIOUS
<1>1. TypeOK'
  BY UpgradeTypeNext DEF UInv
<1> QED
  BY <1>1, MutexNext, FlockNext, GrantsNext, OneGrantNext, HandlerNext, CliNext,
     RequestNext, RecordNext DEF UInv

LEMMA UpgradeInvariant == Spec => []UInv
  BY UInvInit, UInvNext, PTL DEF Spec, UInv

\* What a reader sees of the files is held.
LEMMA GrantsHeld == ASSUME NEW g \in AllGrants PROVE \E k \in Files : g \in Held(k)
  BY DEF AllGrants, Held

\* The failure the code never wants: no grant without the approval of its
\* request in the grant's own mode.
THEOREM EveryGrantBacked == Spec => []GrantBacked
<1>1. UInv => GrantBacked
  BY GrantsHeld DEF UInv, GrantsOK, GrantBacked
<1> QED
  BY <1>1, UpgradeInvariant, PTL

\* However many operators decide a request at once, it leads to one grant.
THEOREM AtMostOneGrant == Spec => []OneGrantPerRequest
<1>1. UInv => OneGrantPerRequest
  BY GrantsHeld DEF UInv, OneGrantHeld, OneGrantPerRequest
<1> QED
  BY <1>1, UpgradeInvariant, PTL

\* A client that an operator's approval made believe in a grant can be shown
\* where it is, or why it is not there.
THEOREM GrantedAlwaysOnRecord == Spec => []GrantedOnRecord
<1>1. UInv => GrantedOnRecord
  BY DEF UInv, OnRecord, Appending, GrantedOnRecord
<1> QED
  BY <1>1, UpgradeInvariant, PTL

\* No interleaving of appends, revocations by id and crashes restores a grant
\* that was reported as revoked by its id; only a revoke --all of its file in
\* between makes that possible.
THEOREM RevokedForGood == Spec => []RevokedStays
<1>1. UInv => RevokedStays
  <2> SUFFICES ASSUME UInv, NEW g \in AllGrants, <<"revoked", g.id>> \in audit
               PROVE  <<"revoked_all", FileOf(g.mode)>> \in audit
    BY DEF RevokedStays
  <2>1. PICK k \in Files : g \in Held(k)
    BY GrantsHeld
  <2> QED
    BY <2>1, HeldBacked
<1> QED
  BY <1>1, UpgradeInvariant, PTL

\* Every step decides at most one undecided request, or leaves all as they are.
LEMMA StepRefines == UInv /\ [Next]_vars => [Lifecycle!Next]_(Lifecycle!vars)
<1> SUFFICES ASSUME UInv, [Next]_vars PROVE [Lifecycle!Next]_(Lifecycle!vars)
  OBVIOUS
<1>0. TypeOK
  BY DEF UInv
<1>1. \/ status' = status /\ lease' = lease
      \/ \E q \in Requests : Create(q) \/ SignedDecision(q)
      \/ \E o \in Operators : Claim(o)
  BY DEF Next, Handle, Poll, Post, Enter, Open, Write, RevokeFind, RevokeStat, RevokeLoad,
         RevokeSave, RevokeAll, Crash, Restart, Tick, vars
<1>2. CASE status' = status /\ lease' = lease
  BY <1>2 DEF Lifecycle!vars
<1>3. ASSUME NEW q \in Requests, status[q] = "pending", lease' = lease,
             status' = [status EXCEPT ![q] = "denied"]
      PROVE  Lifecycle!Next
  BY <1>3 DEF Lifecycle!Next, Lifecycle!Refuse
<1>4. ASSUME NEW q \in Requests, status[q] = "pending", NEW l \in Leases,
             status' = [status EXCEPT ![q] = "approved"], lease' = [lease EXCEPT ![q] = l]
      PROVE  Lifecycle!Next
  <2>1. lease'[q] = l
    BY <1>0, <1>4 DEF TypeOK
  <2>2. Lifecycle!Grant(q)
    BY <1>4, <2>1 DEF Lifecycle!Grant, Leases, Modes
  <2> QED
    BY <2>2 DEF Lifecycle!Next
<1>5. ASSUME NEW q \in Requests, Create(q)
      PROVE  Lifecycle!Next
  BY <1>5 DEF Create, Lifecycle!Next, Lifecycle!Submit
<1>6. ASSUME NEW q \in Requests, SignedDecision(q)
      PROVE  Lifecycle!Next
  <2>1. /\ status[q] = "pending"
        /\ \/ /\ status' = [status EXCEPT ![q] = "approved"]
              /\ \E l \in Leases : lease' = [lease EXCEPT ![q] = l]
           \/ status' = [status EXCEPT ![q] = "denied"] /\ lease' = lease
    BY <1>6 DEF SignedDecision
  <2> QED
    BY <1>3, <1>4, <2>1
<1>7. ASSUME NEW o \in Operators, Claim(o)
      PROVE  \/ status' = status /\ lease' = lease
             \/ Lifecycle!Next
  <2>1. op[o] \in Handler /\ op[o].pc = "claim"
    BY <1>0, <1>7 DEF Claim, TypeOK
  <2>2. op[o].req \in Requests /\ op[o].mode \in Modes \cup {"deny"}
    BY <2>1 DEF Handler
  <2>3. \/ status' = status /\ lease' = lease
        \/ /\ status[op[o].req] = "pending" /\ lease' = lease
           /\ status' = [status EXCEPT ![op[o].req] = "denied"]
        \/ /\ status[op[o].req] = "pending" /\ op[o].mode # "deny"
           /\ status' = [status EXCEPT ![op[o].req] = "approved"]
           /\ lease' = [lease EXCEPT ![op[o].req] = op[o].mode]
    BY <1>7 DEF Claim, Decided, Undecided
  <2>4. op[o].mode # "deny" => op[o].mode \in Leases
    BY <2>2 DEF Leases
  <2> QED
    BY <1>3, <1>4, <2>2, <2>3, <2>4
<1> QED
  BY <1>1, <1>2, <1>5, <1>6, <1>7 DEF Lifecycle!vars

\* Operators and signed approvers together implement the lifecycle of a
\* request: a decision, once stored, is final.
THEOREM UpgradeDecidedOnce == Spec => ImplementsLifecycle
<1>1. Init => Lifecycle!Init
  BY DEF Init, Lifecycle!Init
<1> QED
  BY <1>1, StepRefines, UpgradeInvariant, PTL DEF Spec, ImplementsLifecycle, Lifecycle!Spec

-----------------------------------------------------------------------------
\* Why no applied grant is lost without a failed file operation: no file has
\* a tail that spoils an append; an append writes to an unlinked file only if
\* that was revoked with all its grants; a revoke --id is about to save all
\* that its file holds but the grant it revokes.
TailsOK == \A k \in Files : files[k].tail.kind = "none"

UnlinkedOK ==
  \A o \in Operators : op[o].unlinked =>
    op[o].pc = "write" /\ <<"revoked_all", FileOf(op[o].mode)>> \in audit

RestKept ==
  \A c \in Clis : cli[c].pc = "save" =>
    \A g \in Readable(files[cli[c].file]) : g \in cli[c].keep \/ g.id = cli[c].id

InFiles(r) == \E k \in Files : \E g \in Readable(files[k]) : g.id = r

AppliedOK ==
  \A r \in Requests : <<"applied", r>> \in audit =>
    /\ status[r] = "approved"
    /\ \/ <<"revoked", r>> \in audit
       \/ <<"revoked_all", FileOf(lease[r])>> \in audit
       \/ InFiles(r)

KInv == faults = 0 => TailsOK /\ UnlinkedOK /\ RestKept /\ AppliedOK

LEMMA KInvInit == Init => KInv
BY DEF Init, KInv, TailsOK, UnlinkedOK, RestKept, AppliedOK, EmptyFile, NoTail, IdleHandler,
       IdleCli

\* An unlinked file is one that an append has open.
LEMMA UnlinkedMoves ==
  ASSUME TypeOK, [Next]_vars, NEW o \in Operators, op'[o].unlinked,
         \A p \in Operators : op[p].unlinked => op[p].pc = "write"
  PROVE  \/ op[o].unlinked /\ op'[o].pc = op[o].pc /\ op'[o].mode = op[o].mode
         \/ /\ op'[o].pc = "write" /\ op'[o].mode = op[o].mode
            /\ <<"revoked_all", FileOf(op[o].mode)>> \in audit'
<1> DEFINE Same == op[o].unlinked /\ op'[o].pc = op[o].pc /\ op'[o].mode = op[o].mode
<1>0. op \in [Operators -> Handler] /\ \A p \in Operators : op[p] \in Handler
  BY DEF TypeOK
<1>1. CASE op' = op
  BY <1>1
<1>2. ASSUME NEW p \in Operators, NEW h, op' = [op EXCEPT ![p] = h], ~h.unlinked
      PROVE  Same
  BY <1>0, <1>2
<1>3. ASSUME NEW p \in Operators, NEW a, Answer(p, a) PROVE Same
  <2> DEFINE h == [IdleHandler EXCEPT !.req = op[p].req, !.answer = a]
  <2>1. op' = [op EXCEPT ![p] = h] /\ ~h.unlinked
    BY <1>3 DEF Answer, IdleHandler
  <2> HIDE DEF h
  <2> QED
    BY <1>2, <2>1
<1>4. ASSUME NEW p \in Operators, op[p].pc # "write", NEW h, op' = [op EXCEPT ![p] = h],
             h.unlinked = op[p].unlinked
      PROVE  Same
  BY <1>0, <1>2, <1>4
<1>5. ASSUME NEW p \in Operators, NEW pc, op[p].pc # "write", op' = [op EXCEPT ![p].pc = pc]
      PROVE  Same
  <2> DEFINE h == [op[p] EXCEPT !.pc = pc]
  <2>1. op' = [op EXCEPT ![p] = h] /\ h.unlinked = op[p].unlinked
    BY <1>0, <1>5 DEF Handler
  <2> HIDE DEF h
  <2> QED
    BY <1>4, <1>5, <2>1
<1>6. ASSUME NEW p \in Operators, Post(p) PROVE Same
  <2>1. PICK r \in Requests, m \in Modes \cup {"deny"} :
          op' = [op EXCEPT ![p] = [IdleHandler EXCEPT !.pc = "waiting", !.req = r, !.mode = m]]
    BY <1>6 DEF Post
  <2> DEFINE h == [IdleHandler EXCEPT !.pc = "waiting", !.req = r, !.mode = m]
  <2>2. ~h.unlinked
    BY DEF IdleHandler
  <2> HIDE DEF h
  <2> QED
    BY <1>2, <2>1, <2>2 DEF h
<1>7. ASSUME NEW p \in Operators, Enter(p) PROVE Same
  <2>1. CASE op' = [op EXCEPT ![p].pc = "claim", ![p].expires = Expiry(op[p].mode)]
    <3> DEFINE e == Expiry(op[p].mode)
               h == [op[p] EXCEPT !.pc = "claim", !.expires = e]
    <3>1. op' = [op EXCEPT ![p] = h]
      BY <1>0, <2>1
    <3> HIDE DEF e
    <3>2. h.unlinked = op[p].unlinked
      BY <1>0 DEF Handler
    <3>3. op[p].pc # "write"
      BY <1>7 DEF Enter
    <3> HIDE DEF h
    <3> QED
      BY <1>4, <3>1, <3>2, <3>3
  <2> HIDE DEF Same
  <2> QED
    BY <1>3, <1>7, <2>1 DEF Enter
<1>8. ASSUME NEW p \in Operators, Claim(p) \/ Open(p) \/ Write(p) PROVE Same
  <2>1. \/ \E a : Answer(p, a)
        \/ op[p].pc # "write" /\ \E pc : op' = [op EXCEPT ![p].pc = pc]
    BY <1>8 DEF Claim, Decided, Open, Write
  <2> HIDE DEF Same
  <2> QED
    BY <1>3, <1>5, <2>1
<1>9. ASSUME RevokeAll
      PROVE  \/ Same
             \/ /\ op'[o].pc = "write" /\ op'[o].mode = op[o].mode
                /\ <<"revoked_all", FileOf(op[o].mode)>> \in audit'
  <2>1. PICK k \in Files :
          /\ op' = [p \in Operators |-> IF op[p].pc = "write" /\ FileOf(op[p].mode) = k
                                        THEN [op[p] EXCEPT !.unlinked = TRUE] ELSE op[p]]
          /\ audit' = audit \cup {<<"revoked_all", k>>}
    BY <1>9 DEF RevokeAll
  <2>2. CASE op[o].pc = "write" /\ FileOf(op[o].mode) = k
    <3>1. op'[o] = [op[o] EXCEPT !.unlinked = TRUE]
      BY <2>1, <2>2
    <3>2. op'[o].pc = "write" /\ op'[o].mode = op[o].mode
      BY <1>0, <2>2, <3>1 DEF Handler
    <3> QED
      BY <2>1, <2>2, <3>2
  <2> QED
    BY <2>1, <2>2
<1>10. CASE Crash
  BY <1>10 DEF Crash, IdleHandler
<1>11. ASSUME NEW r \in Requests, Create(r) \/ SignedDecision(r) \/ Poll(r) PROVE op' = op
  BY <1>11 DEF Create, SignedDecision, Poll
<1>12. ASSUME NEW c \in Clis, RevokeFind(c) \/ RevokeStat(c) \/ RevokeLoad(c) \/ RevokeSave(c)
       PROVE  op' = op
  BY <1>12 DEF RevokeFind, RevokeStat, RevokeLoad, RevokeSave
<1>13. CASE Restart \/ Tick \/ UNCHANGED vars
  BY <1>1, <1>13 DEF Restart, Tick, vars
<1> HIDE DEF Same
<1>14. ASSUME NEW p \in Operators, Post(p) \/ Enter(p) \/ Handle(p) PROVE Same
  BY <1>14, <1>6, <1>7, <1>8 DEF Handle
<1> QED
  BY <1>1, <1>9, <1>10, <1>11, <1>12, <1>13, <1>14 DEF Next, Same

\* What becomes of the files, the pending rewrites and the audit without a
\* fault, if it is not a plain step.
LEMMA QuietOrNot ==
  ASSUME [Next]_vars
  PROVE  \/ \E o \in Operators : Write(o)
         \/ \E c \in Clis : RevokeFind(c) \/ RevokeStat(c) \/ RevokeLoad(c) \/ RevokeSave(c)
         \/ RevokeAll
         \/ Fault
         \/ files' = files /\ cli' = cli /\ audit' = audit
BY DEF Next, Handle, Create, SignedDecision, Poll, Post, Enter, Claim, Open,
       Crash, Restart, Tick, vars

LEMMA KInvNext == UInv /\ KInv /\ [Next]_vars => KInv'
<1> SUFFICES ASSUME UInv, KInv, [Next]_vars, faults' = 0
             PROVE  (TailsOK /\ UnlinkedOK /\ RestKept /\ AppliedOK)'
  BY DEF KInv
<1>0. /\ TypeOK /\ faults = 0 /\ ~Fault
      /\ TailsOK /\ UnlinkedOK /\ RestKept /\ AppliedOK /\ FlockOK /\ GrantsOK
  <2>1. faults \in Nat /\ TypeOK /\ FlockOK /\ GrantsOK
    BY DEF UInv, TypeOK
  <2>2. faults' = faults \/ faults' = faults + 1
    BY DEF Next, Handle, Create, SignedDecision, Poll, Post, Enter, Claim, Open, Write,
           RevokeFind, RevokeStat, RevokeLoad, RevokeSave, RevokeAll, Crash, Restart, Tick,
           Fault, vars
  <2> QED
    BY <2>1, <2>2 DEF KInv, Fault
<1>t. /\ files \in [Files -> File] /\ cli \in [Clis -> Cli] /\ op \in [Operators -> Handler]
      /\ \A k \in Files : files[k] \in File
  BY <1>0 DEF TypeOK
<1>r. \A k \in Files : Readable(files[k]) = files[k].lines
  BY <1>0 DEF TailsOK, Readable
<1>a. \A r \in Requests : status[r] = "approved" => status'[r] = "approved" /\ lease'[r] = lease[r]
  BY <1>0, ApprovedStays
<1>1. UnlinkedOK'
  <2> SUFFICES ASSUME NEW o \in Operators, op'[o].unlinked
               PROVE  op'[o].pc = "write" /\ <<"revoked_all", FileOf(op'[o].mode)>> \in audit'
    BY DEF UnlinkedOK
  <2>1. \/ op[o].unlinked /\ op'[o].pc = op[o].pc /\ op'[o].mode = op[o].mode
        \/ /\ op'[o].pc = "write" /\ op'[o].mode = op[o].mode
           /\ <<"revoked_all", FileOf(op[o].mode)>> \in audit'
    BY <1>0, UnlinkedMoves DEF UnlinkedOK
  <2> QED
    BY <1>0, <2>1, AuditGrows DEF UnlinkedOK
<1>2. ASSUME NEW o \in Operators, Write(o)
      PROVE  TailsOK' /\ RestKept' /\ AppliedOK'
  <2> DEFINE k == FileOf(op[o].mode)
             g == NewGrant(o)
             r == op[o].req
  <2>1. /\ k \in Files /\ r \in Requests /\ g.id = r /\ cli' = cli
        /\ status[r] = "approved" /\ lease[r] = op[o].mode
    BY <1>0, <1>2, WriterOK DEF FileOf, Files, Write
  <2>2. /\ files' = IF op[o].unlinked THEN files ELSE [files EXCEPT ![k] = AppendTo(@, g)]
        /\ audit' = audit \cup {<<"applied", r>>}
    BY <1>0, <1>2 DEF Write, NewGrant, Audit
  <2>3. AppendTo(files[k], g) = [lines |-> files[k].lines \cup {g}, tail |-> NoTail]
    BY <1>0, <2>1 DEF AppendTo, TailsOK
  <2> HIDE DEF k, g, r
  <2>4. \A l \in Files : /\ files'[l].tail.kind = "none"
                         /\ Readable(files[l]) \subseteq Readable(files'[l])
                         /\ l # k => files'[l] = files[l]
    BY <1>0, <1>t, <1>r, <2>1, <2>2, <2>3 DEF TailsOK, NoTail, Readable
  <2>5. TailsOK'
    BY <2>4 DEF TailsOK
  <2>6. RestKept'
    <3> SUFFICES ASSUME NEW c \in Clis, cli[c].pc = "save"
                 PROVE  \A h \in Readable(files'[cli[c].file]) : h \in cli[c].keep \/ h.id = cli[c].id
      BY <2>1 DEF RestKept
    <3>1. cli[c].file \in Files /\ cli[c].file # k
      BY <1>0, <1>2, SaveHolds DEF FlockOK, Write, k
    <3> QED
      BY <1>0, <2>4, <3>1 DEF RestKept
  <2>7. <<"revoked_all", k>> \in audit \/ g \in Readable(files'[k])
    <3>1. CASE op[o].unlinked
      BY <1>0, <3>1 DEF UnlinkedOK, k
    <3>2. CASE ~op[o].unlinked
      <4>1. files'[k] = [lines |-> files[k].lines \cup {g}, tail |-> NoTail]
        BY <1>t, <2>1, <2>2, <2>3, <3>2
      <4> QED
        BY <4>1 DEF Readable, NoTail
    <3> QED
      BY <3>1, <3>2
  <2>8. AppliedOK'
    <3> SUFFICES ASSUME NEW q \in Requests, <<"applied", q>> \in audit'
                 PROVE  /\ status'[q] = "approved"
                        /\ \/ <<"revoked", q>> \in audit'
                           \/ <<"revoked_all", FileOf(lease'[q])>> \in audit'
                           \/ InFiles(q)'
      BY DEF AppliedOK
    <3>1. CASE q = r
      <4>1. status'[q] = "approved" /\ FileOf(lease'[q]) = k
        BY <1>a, <2>1, <3>1 DEF k
      <4> QED
        BY <2>1, <2>2, <2>7, <3>1, <4>1 DEF InFiles
    <3>2. CASE q # r
      <4>1. <<"applied", q>> \in audit
        BY <2>2, <3>2
      <4>2. InFiles(q) => InFiles(q)'
        BY <2>4 DEF InFiles
      <4> QED
        BY <1>0, <1>a, <2>2, <4>1, <4>2 DEF AppliedOK
    <3> QED
      BY <3>1, <3>2
  <2> QED
    BY <2>5, <2>6, <2>8
<1>3. ASSUME NEW c \in Clis, files' = files, audit \subseteq audit',
             \A q \in Requests : <<"applied", q>> \in audit' => <<"applied", q>> \in audit,
             \A d \in Clis \ {c} : cli'[d] = cli[d],
             cli'[c].pc = "save" =>
               cli'[c].keep = Without(Readable(files[cli'[c].file]), cli'[c].id)
      PROVE  TailsOK' /\ RestKept' /\ AppliedOK'
  <2>1. RestKept'
    BY <1>0, <1>3 DEF RestKept, Without
  <2>2. TailsOK'
    BY <1>0, <1>3 DEF TailsOK
  <2>3. \A q \in Requests : InFiles(q)' <=> InFiles(q)
    BY <1>3 DEF InFiles
  <2>4. AppliedOK'
    <3> SUFFICES ASSUME NEW q \in Requests, <<"applied", q>> \in audit'
                 PROVE  /\ status'[q] = "approved"
                        /\ \/ <<"revoked", q>> \in audit'
                           \/ <<"revoked_all", FileOf(lease'[q])>> \in audit'
                           \/ InFiles(q)'
      BY DEF AppliedOK
    <3>1. <<"applied", q>> \in audit
      BY <1>3
    <3>2. status'[q] = "approved" /\ lease'[q] = lease[q]
      BY <1>0, <1>a, <3>1 DEF AppliedOK
    <3> QED
      BY <1>0, <1>3, <2>3, <3>1, <3>2 DEF AppliedOK
  <2> QED
    BY <2>1, <2>2, <2>4
<1>4. ASSUME NEW c \in Clis, RevokeSave(c)
      PROVE  TailsOK' /\ RestKept' /\ AppliedOK'
  <2> DEFINE k == cli[c].file
             saved == Saved(c)
  <2>0. CASE files' = files /\ audit' = audit
    <3>1. cli'[c].pc = "idle" /\ \A d \in Clis \ {c} : cli'[d] = cli[d]
      BY <1>0, <1>4, RevokeMoves
    <3>2. audit \subseteq audit' /\ cli'[c].pc # "save"
      BY <2>0, <3>1
    <3> QED
      BY <1>3, <2>0, <3>1, <3>2
  <2> SUFFICES ASSUME ~(files' = files /\ audit' = audit)
               PROVE  TailsOK' /\ RestKept' /\ AppliedOK'
    BY <2>0
  <2>1. /\ cli[c].pc = "save" /\ k \in Files
        /\ files' = [files EXCEPT ![k] = saved]
        /\ audit' = audit \cup {<<"revoked", cli[c].id>>}
        /\ cli'[c].pc = "idle" /\ \A d \in Clis \ {c} : cli'[d] = cli[d]
    BY <1>0, <1>4, SaveHolds, RevokeMoves DEF RevokeSave, Audit
  <2>2. saved.tail.kind = "none" /\ Readable(saved) = cli[c].keep
    BY DEF NoTail, Readable, Saved
  <2> HIDE DEF k, saved
  <2>3. /\ files'[k] = saved /\ \A l \in Files \ {k} : files'[l] = files[l]
    BY <1>t, <2>1
  <2>4. TailsOK'
    BY <1>0, <2>2, <2>3 DEF TailsOK
  <2>5. RestKept'
    <3> SUFFICES ASSUME NEW d \in Clis, cli'[d].pc = "save"
                 PROVE  \A g \in Readable(files'[cli'[d].file]) :
                          g \in cli'[d].keep \/ g.id = cli'[d].id
      BY DEF RestKept
    <3>1. d # c /\ cli'[d] = cli[d]
      BY <2>1
    <3>2. cli[d].file \in Files /\ cli[d].file # k
      BY <1>0, <2>1, <3>1, SaveHolds DEF FlockOK, k
    <3> QED
      BY <1>0, <2>3, <3>1, <3>2 DEF RestKept
  <2>6. AppliedOK'
    <3> SUFFICES ASSUME NEW q \in Requests, <<"applied", q>> \in audit'
                 PROVE  /\ status'[q] = "approved"
                        /\ \/ <<"revoked", q>> \in audit'
                           \/ <<"revoked_all", FileOf(lease'[q])>> \in audit'
                           \/ InFiles(q)'
      BY DEF AppliedOK
    <3>1. <<"applied", q>> \in audit
      BY <2>1
    <3>2. ASSUME InFiles(q) PROVE InFiles(q)' \/ q = cli[c].id
      <4>1. PICK l \in Files : \E g \in Readable(files[l]) : g.id = q
        BY <3>2 DEF InFiles
      <4>2. PICK g \in Readable(files[l]) : g.id = q
        BY <4>1
      <4>3. CASE l = k
        <5>1. g \in cli[c].keep \/ g.id = cli[c].id
          BY <1>0, <2>1, <4>2, <4>3 DEF RestKept, k
        <5> QED
          BY <2>1, <2>2, <2>3, <4>2, <5>1 DEF InFiles
      <4> QED
        BY <2>3, <4>2, <4>3 DEF InFiles
    <3> QED
      BY <1>0, <1>a, <2>1, <3>1, <3>2 DEF AppliedOK
  <2> QED
    BY <2>4, <2>5, <2>6
<1>5. ASSUME RevokeAll
      PROVE  TailsOK' /\ RestKept' /\ AppliedOK'
  <2> DEFINE empty == EmptyFile
  <2>1. PICK k \in Files : /\ files' = [files EXCEPT ![k] = empty]
                           /\ audit' = audit \cup {<<"revoked_all", k>>}
    BY <1>5 DEF RevokeAll
  <2>2. empty.tail.kind = "none" /\ Readable(empty) = {}
    BY DEF EmptyFile, NoTail, Readable
  <2> HIDE DEF empty
  <2>3. /\ cli' = cli /\ files'[k] = empty /\ \A l \in Files \ {k} : files'[l] = files[l]
    BY <1>5, <1>t, <2>1 DEF RevokeAll
  <2>4. TailsOK'
    BY <1>0, <2>2, <2>3 DEF TailsOK
  <2>5. RestKept'
    <3>1. \A d \in Clis : cli[d].pc = "save" => cli[d].file \in Files
      BY <1>0, SaveHolds
    <3>2. \A l \in Files : Readable(files'[l]) \subseteq Readable(files[l])
      BY <2>2, <2>3
    <3> QED
      BY <1>0, <2>3, <3>1, <3>2 DEF RestKept
  <2>6. ASSUME NEW q \in Requests, InFiles(q)
        PROVE  InFiles(q)' \/ FileOf(lease[q]) = k
    <3>1. PICK l \in Files : \E g \in Readable(files[l]) : g.id = q
      BY <2>6 DEF InFiles
    <3>2. PICK g \in Readable(files[l]) : g.id = q
      BY <3>1
    <3>3. g \in Held(l)
      BY <3>2 DEF Held
    <3>4. FileOf(lease[q]) = l
      BY <1>0, <3>2, <3>3 DEF GrantsOK
    <3> QED
      BY <2>3, <3>2, <3>4 DEF InFiles
  <2>7. AppliedOK'
    <3> SUFFICES ASSUME NEW q \in Requests, <<"applied", q>> \in audit'
                 PROVE  /\ status'[q] = "approved"
                        /\ \/ <<"revoked", q>> \in audit'
                           \/ <<"revoked_all", FileOf(lease'[q])>> \in audit'
                           \/ InFiles(q)'
      BY DEF AppliedOK
    <3>1. <<"applied", q>> \in audit
      BY <2>1
    <3>2. status'[q] = "approved" /\ lease'[q] = lease[q]
      BY <1>0, <1>a, <3>1 DEF AppliedOK
    <3> QED
      BY <1>0, <2>1, <2>6, <3>1, <3>2 DEF AppliedOK
  <2> QED
    BY <2>4, <2>5, <2>7
<1>6. ASSUME files' = files, cli' = cli, audit' = audit
      PROVE  TailsOK' /\ RestKept' /\ AppliedOK'
  <2>1. TailsOK' /\ RestKept'
    BY <1>0, <1>6 DEF TailsOK, RestKept
  <2>2. \A q \in Requests : InFiles(q)' <=> InFiles(q)
    BY <1>6 DEF InFiles
  <2>3. AppliedOK'
    BY <1>0, <1>a, <1>6, <2>2 DEF AppliedOK
  <2> QED
    BY <2>1, <2>3
<1>7. ASSUME NEW c \in Clis, RevokeFind(c) \/ RevokeStat(c) \/ RevokeLoad(c)
      PROVE  TailsOK' /\ RestKept' /\ AppliedOK'
  <2>1. /\ files' = files /\ \A d \in Clis \ {c} : cli'[d] = cli[d]
        /\ cli'[c].pc = "save" =>
             cli'[c].keep = Without(Readable(files[cli'[c].file]), cli'[c].id)
        /\ audit' = audit \/ Audit("revoked", cli[c].id)
    BY <1>0, <1>7, RevokeMoves
  <2>2. \A q \in Requests : <<"applied", q>> \in audit' => <<"applied", q>> \in audit
    BY <2>1 DEF Audit
  <2> QED
    BY <1>3, <2>1, <2>2, AuditGrows
<1> QED
  BY <1>0, <1>1, <1>2, <1>4, <1>5, <1>6, <1>7, QuietOrNot

\* As long as no file operation fails, concurrent appends, rewrites and
\* removals lose no applied grant that nobody revoked.
THEOREM NoAppliedGrantLost == Spec => []AppliedKept
<1>1. KInv => AppliedKept
  BY DEF KInv, AppliedOK, AppliedKept, InFiles, AllGrants
<1>2. Init => UInv /\ KInv
  BY UInvInit, KInvInit
<1>3. UInv /\ KInv /\ [Next]_vars => (UInv /\ KInv)'
  BY UInvNext, KInvNext
<1> QED
  BY <1>1, <1>2, <1>3, PTL DEF Spec

\* Grants are always decided by an operator, and what clients are told of them
\* is on record, for every value of the constants: the theorems above together.
THEOREM GrantsAlwaysSound == Spec => []GrantsSound
BY UpgradeTypeCorrect, EveryGrantBacked, AtMostOneGrant, GrantedAlwaysOnRecord, PTL
   DEF GrantsSound
=============================================================================
