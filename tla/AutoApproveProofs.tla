--------------------------- MODULE AutoApproveProofs ---------------------------
(***************************************************************************)
(* Proofs about AutoApprove for every set of processes, every TTL and idle *)
(* window and every bound.                                                 *)
(***************************************************************************)
EXTENDS AutoApprove, SequenceTheorems, TLAPS

\* The steps that hold the flock when it was taken.
Renewing == {"renewRead", "renewRemove", "truncate", "write"}

-----------------------------------------------------------------------------
LEMMA IdleType == IdleProc \in Proc /\ IdleProc.pc = "idle" /\ IdleProc.by = 0
BY DEF IdleProc, Proc, Steps, NoLease, Lease

LEMMA LeaseType ==
  ASSUME TypeOK, Held
  PROVE  file.lease \in Lease /\ Current \in Lease /\ Current.id = file.lease.id
<1>1. file.lease \in Lease
  BY DEF TypeOK, Held, Contents
<1> QED
  BY <1>1 DEF Current, Effective, Lease

LEMMA StoredType == ASSUME NEW l \in Lease
                    PROVE  /\ Stored(l) \in Contents /\ Stored(l).kind = "lease"
                           /\ Stored(l).lease = l
BY DEF Stored, Contents

LEMMA EmptyType == /\ NoFile \in Contents /\ Blank \in Contents
                   /\ NoFile.kind # "lease" /\ Blank.kind # "lease"
BY DEF NoFile, Blank, Contents

LEMMA RenewedType == ASSUME NEW l \in Lease, NEW now \in Nat
                     PROVE  /\ Renewed(l, now) \in Lease
                            /\ Renewed(l, now).id = l.id /\ Renewed(l, now).max = l.max
                            /\ Renewed(l, now).expires <= l.max
<1>1. l.id \in Nat /\ l.max \in Nat /\ l.idle \in Nat /\ l.expires \in Nat
  BY DEF Lease
<1> DEFINE e == Least(now + IF l.idle > 0 THEN l.idle ELSE DefaultIdle, l.max)
<1>2. e \in Nat /\ e <= l.max
  BY <1>1, AutoApproveAssumption DEF Least
<1>3. Renewed(l, now) = [l EXCEPT !.expires = e]
  BY DEF Renewed
<1> HIDE DEF e
<1> QED
  BY <1>1, <1>2, <1>3 DEF Lease

\* The processes after an os.Remove by p.
LEMMA RemovingType ==
  ASSUME TypeOK, NEW p \in Procs, Removing(p, IdleProc)
  PROVE  /\ file' = NoFile /\ proc' \in [Procs -> Proc] /\ proc'[p] = IdleProc
         /\ \A q \in Procs \ {p} :
              /\ proc'[q].pc = proc[q].pc /\ proc'[q].by = proc[q].by
              /\ proc'[q].now = proc[q].now /\ proc'[q].write = proc[q].write
<1>1. /\ file' = NoFile
      /\ proc' = [q \in Procs |->
                    IF q = p THEN IdleProc
                    ELSE IF proc[q].pc = "write" THEN [proc[q] EXCEPT !.unlinked = TRUE]
                    ELSE proc[q]]
  BY DEF Removing
<1>2. \A q \in Procs : proc[q] \in Proc
  BY DEF TypeOK
<1>3. ASSUME NEW q \in Procs
      PROVE  /\ [proc[q] EXCEPT !.unlinked = TRUE] \in Proc
             /\ [proc[q] EXCEPT !.unlinked = TRUE].pc = proc[q].pc
             /\ [proc[q] EXCEPT !.unlinked = TRUE].by = proc[q].by
             /\ [proc[q] EXCEPT !.unlinked = TRUE].now = proc[q].now
             /\ [proc[q] EXCEPT !.unlinked = TRUE].write = proc[q].write
  BY <1>2 DEF Proc
<1>4. proc' \in [Procs -> Proc]
  BY <1>1, <1>2, <1>3, IdleType
<1>5. proc'[p] = IdleProc
  BY <1>1
<1> QED
  BY <1>1, <1>3, <1>4, <1>5

\* A step of p that does not remove the file: what p becomes.
LEMMA ProcType ==
  ASSUME TypeOK, NEW p \in Procs, NEW h \in Proc, proc' = [proc EXCEPT ![p] = h]
  PROVE  /\ proc' \in [Procs -> Proc] /\ proc'[p] = h
         /\ \A q \in Procs \ {p} : proc'[q] = proc[q]
BY DEF TypeOK

LEMMA ReturnType ==
  ASSUME TypeOK, NEW p \in Procs, Return(p)
  PROVE  /\ lock' \in Procs \cup {NoProc} /\ lock' # p
         /\ lock' # NoProc => lock' = lock
         /\ approvals' \subseteq [id : Nat, now : Nat]
<1>1. lock' = IF lock = p THEN NoProc ELSE lock
  BY DEF Return, Unlock
<1>2. proc[p] \in Proc
  BY DEF TypeOK
<1>3. [id |-> proc[p].by, now |-> proc[p].now] \in [id : Nat, now : Nat]
  BY <1>2 DEF Proc
<1>4. approvals' \subseteq [id : Nat, now : Nat]
  BY <1>3 DEF Return, Approving, TypeOK
<1> QED
  BY <1>1, <1>4, AutoApproveAssumption DEF TypeOK

\* The counters, whatever happens.
LEMMA CounterType ==
  TypeOK /\ [Next]_vars => clock' \in Nat /\ requests' \in Nat /\ ops' \in Nat /\ faults' \in Nat
<1> SUFFICES ASSUME TypeOK, [Next]_vars
             PROVE  clock' \in Nat /\ requests' \in Nat /\ ops' \in Nat /\ faults' \in Nat
  OBVIOUS
<1>1. clock \in Nat /\ requests \in Nat /\ ops \in Nat /\ faults \in Nat
  BY DEF TypeOK
<1>2. /\ clock' = clock \/ clock' = clock + 1
      /\ requests' = requests \/ requests' = requests + 1
      /\ ops' = ops \/ ops' = ops + 1
      /\ faults' = faults \/ faults' = faults + 1
  BY DEF Next, Enable, Disable, Start, Continue, Read, Remove, Lock, RenewRead,
         RenewRemove, Truncate, Write, Die, Tick, Fault, vars
<1> QED
  BY <1>1, <1>2

\* What the flock's holder does: the part of TypeOK about the processes.
LockOK == /\ lock \in Procs \cup {NoProc}
          /\ proc \in [Procs -> Proc]
          /\ lock # NoProc => proc[lock].pc \in Renewing

LEMMA LockedStays ==
  ASSUME TypeOK, NEW p \in Procs, NEW h \in Proc, proc' = [proc EXCEPT ![p] = h],
         \/ lock' = lock /\ (lock = p => h.pc \in Renewing)
         \/ lock' = p /\ h.pc \in Renewing
         \/ Return(p)
         \/ lock' = IF lock = p THEN NoProc ELSE lock
  PROVE  LockOK'
<1>1. /\ proc' \in [Procs -> Proc] /\ proc'[p] = h
      /\ \A q \in Procs \ {p} : proc'[q] = proc[q]
  BY ProcType
<1>2. /\ lock \in Procs \cup {NoProc}
      /\ lock # NoProc => proc[lock].pc \in Renewing
  BY DEF TypeOK, Renewing
<1>3. CASE lock' = lock /\ (lock = p => h.pc \in Renewing)
  BY <1>1, <1>2, <1>3 DEF LockOK
<1>4. CASE lock' = p /\ h.pc \in Renewing
  BY <1>1, <1>4 DEF LockOK
<1>5. CASE lock' = IF lock = p THEN NoProc ELSE lock
  BY <1>1, <1>2, <1>5, AutoApproveAssumption DEF LockOK
<1>6. CASE Return(p)
  BY <1>5, <1>6 DEF Return, Unlock
<1> QED
  BY <1>3, <1>4, <1>5, <1>6

LEMMA LockedRemoving ==
  ASSUME TypeOK, NEW p \in Procs, Removing(p, IdleProc),
         (lock' = lock /\ proc[p].pc \notin Renewing) \/ Return(p)
  PROVE  LockOK'
<1>1. /\ proc' \in [Procs -> Proc] /\ proc'[p] = IdleProc
      /\ \A q \in Procs \ {p} : proc'[q].pc = proc[q].pc
  BY RemovingType
<1>2. /\ lock \in Procs \cup {NoProc}
      /\ lock # NoProc => proc[lock].pc \in Renewing
  BY DEF TypeOK, Renewing
<1>3. CASE lock' = lock /\ proc[p].pc \notin Renewing
  BY <1>1, <1>2, <1>3 DEF LockOK
<1>4. CASE Return(p)
  <2>1. lock' = IF lock = p THEN NoProc ELSE lock
    BY <1>4 DEF Return, Unlock
  <2> QED
    BY <1>1, <1>2, <2>1, AutoApproveAssumption DEF LockOK
<1> QED
  BY <1>3, <1>4

\* Replacing the program point of a process.
LEMMA GotoType ==
  ASSUME TypeOK, NEW p \in Procs, NEW pc \in Steps
  PROVE  /\ [proc[p] EXCEPT !.pc = pc] \in Proc
         /\ [proc[p] EXCEPT !.pc = pc].pc = pc
         /\ [proc EXCEPT ![p].pc = pc] = [proc EXCEPT ![p] = [proc[p] EXCEPT !.pc = pc]]
<1>1. proc \in [Procs -> Proc] /\ proc[p] \in Proc
  BY DEF TypeOK
<1> QED
  BY <1>1 DEF Proc

LEMMA LockNext == TypeOK /\ [Next]_vars => LockOK'
<1> SUFFICES ASSUME TypeOK, [Next]_vars PROVE LockOK'
  OBVIOUS
<1>0. /\ proc \in [Procs -> Proc] /\ clock \in Nat
      /\ lock \in Procs \cup {NoProc}
      /\ lock # NoProc => proc[lock].pc \in Renewing
  BY DEF TypeOK, Renewing
<1>1. ASSUME NEW p \in Procs, Enable(p) PROVE LockOK'
  <2>1. PICK l : /\ proc' = [proc EXCEPT ![p] = [IdleProc EXCEPT !.pc = "truncate", !.write = l]]
                 /\ l \in Lease
    <3>1. PICK ttl \in TTLs, window \in IdleWindows :
            LET idle == Least(IF window > 0 THEN window ELSE DefaultIdle, ttl)
                fresh == [id |-> Len(enabled) + 1, expires |-> clock + idle,
                          max |-> clock + ttl, idle |-> idle]
            IN  proc' = [proc EXCEPT ![p] = [IdleProc EXCEPT !.pc = "truncate", !.write = fresh]]
      BY <1>1 DEF Enable
    <3> DEFINE idle == Least(IF window > 0 THEN window ELSE DefaultIdle, ttl)
               fresh == [id |-> Len(enabled) + 1, expires |-> clock + idle,
                         max |-> clock + ttl, idle |-> idle]
    <3>2. idle \in Nat /\ clock + idle \in Nat /\ clock + ttl \in Nat
      BY <1>0, AutoApproveAssumption DEF Least
    <3>3. Len(enabled) + 1 \in Nat
      BY DEF TypeOK
    <3> HIDE DEF idle
    <3>4. fresh \in Lease
      BY <3>2, <3>3 DEF Lease
    <3> QED
      BY <3>1, <3>4 DEF idle
  <2>2. [IdleProc EXCEPT !.pc = "truncate", !.write = l] \in Proc
    BY <2>1 DEF IdleProc, Proc, Steps
  <2>3. lock' = lock /\ lock # p
    BY <1>0, <1>1, AutoApproveAssumption DEF Enable, Renewing
  <2> QED
    BY <2>1, <2>2, <2>3, LockedStays
<1>2. ASSUME NEW p \in Procs, Disable(p) PROVE LockOK'
  BY <1>2, LockedRemoving DEF Disable, Renewing
<1>3. ASSUME NEW p \in Procs, Start(p) PROVE LockOK'
  <2>1. PICK pc \in {"renew", "read", "status"} :
          proc' = [proc EXCEPT ![p] = [IdleProc EXCEPT !.pc = pc, !.now = clock]]
    BY <1>3 DEF Start
  <2>2. [IdleProc EXCEPT !.pc = pc, !.now = clock] \in Proc
    BY <1>0 DEF IdleProc, Proc, Steps, NoLease, Lease
  <2>3. lock' = lock /\ lock # p
    BY <1>0, <1>3, AutoApproveAssumption DEF Start, Renewing
  <2> QED
    BY <2>1, <2>2, <2>3, LockedStays
<1>4. ASSUME NEW p \in Procs, Read(p) PROVE LockOK'
  <2>1. lock' = lock /\ lock # p
    BY <1>0, <1>4, AutoApproveAssumption DEF Read, Renewing
  <2>2. proc[p] \in Proc
    BY <1>0
  <2>3. CASE Held /\ proc' = [proc EXCEPT ![p].pc = "renew", ![p].by = file.lease.id]
    <3>1. file.lease.id \in Nat
      BY <2>3, LeaseType DEF Lease
    <3> DEFINE h == [proc[p] EXCEPT !.pc = "renew", !.by = file.lease.id]
    <3>2. h \in Proc /\ proc' = [proc EXCEPT ![p] = h]
      BY <1>0, <2>2, <2>3, <3>1 DEF Proc, Steps
    <3> HIDE DEF h
    <3> QED
      BY <2>1, <3>2, LockedStays
  <2>4. CASE Goto(p, "remove")
    BY <2>1, <2>4, GotoType, LockedStays DEF Goto, Steps
  <2>5. CASE proc' = [proc EXCEPT ![p] = IdleProc]
    BY <2>1, <2>5, IdleType, LockedStays
  <2> QED
    BY <1>4, <2>3, <2>4, <2>5 DEF Read, Finds
<1>5. ASSUME NEW p \in Procs, Remove(p) PROVE LockOK'
  BY <1>5, LockedRemoving DEF Remove, Renewing
<1>6. ASSUME NEW p \in Procs, Lock(p) PROVE LockOK'
  <2> DEFINE h == [proc[p] EXCEPT !.pc = "renewRead"]
  <2>1. h \in Proc /\ h.pc \in Renewing /\ proc' = [proc EXCEPT ![p] = h]
    BY <1>6, GotoType DEF Lock, Goto, Steps, Renewing
  <2> HIDE DEF h
  <2> QED
    BY <1>6, <2>1, LockedStays DEF Lock
<1>7. ASSUME NEW p \in Procs, RenewRead(p) PROVE LockOK'
  <2>1. proc[p] \in Proc
    BY <1>0
  <2>2. CASE /\ Held /\ lock' = lock
             /\ proc' = [proc EXCEPT ![p].pc = "truncate",
                                     ![p].write = Renewed(Current, proc[p].now)]
    <3> DEFINE h == [proc[p] EXCEPT !.pc = "truncate", !.write = Renewed(Current, proc[p].now)]
    <3>1. Renewed(Current, proc[p].now) \in Lease
      BY <2>1, <2>2, LeaseType, RenewedType DEF Proc
    <3>2. h \in Proc /\ h.pc \in Renewing /\ proc' = [proc EXCEPT ![p] = h]
      BY <1>0, <2>1, <2>2, <3>1 DEF Proc, Steps, Renewing
    <3> HIDE DEF h
    <3> QED
      BY <2>2, <3>2, LockedStays
  <2>3. CASE Goto(p, "renewRemove") /\ lock' = lock
    <3> DEFINE h == [proc[p] EXCEPT !.pc = "renewRemove"]
    <3>1. h \in Proc /\ h.pc \in Renewing /\ proc' = [proc EXCEPT ![p] = h]
      BY <2>3, GotoType DEF Goto, Steps, Renewing
    <3> HIDE DEF h
    <3> QED
      BY <2>3, <3>1, LockedStays
  <2>4. CASE proc' = [proc EXCEPT ![p] = IdleProc] /\ Return(p)
    BY <2>4, IdleType, LockedStays
  <2> QED
    BY <1>7, <2>2, <2>3, <2>4 DEF RenewRead, Finds
<1>8. ASSUME NEW p \in Procs, RenewRemove(p) PROVE LockOK'
  BY <1>8, LockedRemoving DEF RenewRemove
<1>9. ASSUME NEW p \in Procs, Truncate(p) PROVE LockOK'
  <2> DEFINE h == [proc[p] EXCEPT !.pc = "write"]
  <2>1. h \in Proc /\ h.pc \in Renewing
    BY GotoType DEF Steps, Renewing
  <2>2. CASE Goto(p, "write") /\ lock' = lock
    <3>1. proc' = [proc EXCEPT ![p] = h]
      BY <2>2, GotoType DEF Goto, Steps
    <3> HIDE DEF h
    <3> QED
      BY <2>1, <2>2, <3>1, LockedStays
  <2>3. CASE proc' = [proc EXCEPT ![p] = IdleProc] /\ Return(p)
    BY <2>3, IdleType, LockedStays
  <2> QED
    BY <1>9, <2>2, <2>3 DEF Truncate
<1>10. ASSUME NEW p \in Procs, Write(p) PROVE LockOK'
  BY <1>10, IdleType, LockedStays DEF Write
<1>11. ASSUME NEW p \in Procs, Die(p) PROVE LockOK'
  BY <1>11, IdleType, LockedStays DEF Die
<1>12. CASE Tick \/ UNCHANGED vars
  BY <1>0, <1>12 DEF Tick, vars, LockOK
<1> QED
  BY <1>1, <1>2, <1>3, <1>4, <1>5, <1>6, <1>7, <1>8, <1>9, <1>10, <1>11, <1>12
     DEF Next, Continue

\* The other part of TypeOK: the file and the history of leases.
DataOK == /\ file \in Contents
          /\ enabled \in Seq(Terms)
          /\ activity \in Seq(SUBSET Nat) /\ Len(activity) = Len(enabled)
          /\ written \subseteq Lease
          /\ approvals \subseteq [id : Nat, now : Nat]

LEMMA ExceptSeqType ==
  ASSUME NEW s \in Seq(SUBSET Nat), NEW i, NEW n \in Nat
  PROVE  /\ [s EXCEPT ![i] = @ \cup {n}] \in Seq(SUBSET Nat)
         /\ Len([s EXCEPT ![i] = @ \cup {n}]) = Len(s)
<1>1. s \in [1..Len(s) -> SUBSET Nat] /\ Len(s) \in Nat
  OBVIOUS
<1> DEFINE t == [s EXCEPT ![i] = @ \cup {n}]
<1>2. t \in [1..Len(s) -> SUBSET Nat]
  BY <1>1
<1>3. t \in Seq(SUBSET Nat) /\ Len(t) = Len(s)
  BY <1>1, <1>2
<1> QED
  BY <1>3

LEMMA DataNext == TypeOK /\ [Next]_vars => DataOK'
<1> SUFFICES ASSUME TypeOK, [Next]_vars PROVE DataOK'
  OBVIOUS
<1>0. DataOK /\ proc \in [Procs -> Proc] /\ clock \in Nat
  BY DEF TypeOK, DataOK
<1>1. ASSUME NEW p \in Procs, Enable(p) PROVE DataOK'
  <2>1. PICK ttl \in TTLs, window \in IdleWindows :
          LET idle == Least(IF window > 0 THEN window ELSE DefaultIdle, ttl) IN
          /\ enabled' = Append(enabled, [at |-> clock, max |-> clock + ttl, idle |-> idle])
          /\ activity' = Append(activity, {clock})
    BY <1>1 DEF Enable
  <2> DEFINE idle == Least(IF window > 0 THEN window ELSE DefaultIdle, ttl)
             terms == [at |-> clock, max |-> clock + ttl, idle |-> idle]
  <2>2. idle \in Nat /\ clock + ttl \in Nat
    BY <1>0, AutoApproveAssumption DEF Least
  <2> HIDE DEF idle
  <2>3. terms \in Terms /\ {clock} \in SUBSET Nat
    BY <1>0, <2>2 DEF Terms
  <2>4. enabled' = Append(enabled, terms) /\ activity' = Append(activity, {clock})
    BY <2>1 DEF idle
  <2> HIDE DEF terms
  <2>5. /\ enabled' \in Seq(Terms) /\ Len(enabled') = Len(enabled) + 1
        /\ activity' \in Seq(SUBSET Nat) /\ Len(activity') = Len(activity) + 1
    BY <1>0, <2>3, <2>4, AppendProperties DEF DataOK
  <2>6. UNCHANGED <<file, written, approvals>>
    BY <1>1 DEF Enable
  <2> QED
    BY <1>0, <2>5, <2>6 DEF DataOK
<1>2. ASSUME NEW p \in Procs, Disable(p) PROVE DataOK'
  <2>3. file' \in Contents
    BY <1>2, EmptyType DEF Disable, Removing
  <2> QED
    BY <1>0, <1>2, <2>3 DEF Disable, DataOK
<1>3. ASSUME NEW p \in Procs, Start(p) \/ Read(p) \/ Lock(p) \/ Die(p) PROVE DataOK'
  BY <1>0, <1>3 DEF DataOK, Start, Read, Lock, Die
<1>4. ASSUME NEW p \in Procs, Remove(p) PROVE DataOK'
  BY <1>0, <1>4, EmptyType DEF DataOK, Remove, Removing
<1>5. ASSUME NEW p \in Procs, RenewRead(p) PROVE DataOK'
  <2>1. approvals' = approvals \/ Return(p)
    BY <1>5 DEF RenewRead
  <2>2. approvals' \subseteq [id : Nat, now : Nat]
    BY <1>0, <2>1, ReturnType DEF DataOK
  <2>3. activity' \in Seq(SUBSET Nat) /\ Len(activity') = Len(activity)
    <3>1. proc[p].now \in Nat
      BY <1>0 DEF Proc
    <3>2. CASE activity' = activity
      BY <1>0, <3>2 DEF DataOK
    <3>3. CASE activity' = [activity EXCEPT ![file.lease.id] = @ \cup {proc[p].now}]
      <4>1. PICK i, n : i = file.lease.id /\ n = proc[p].now
        OBVIOUS
      <4>2. activity \in Seq(SUBSET Nat) /\ n \in Nat
        BY <1>0, <3>1, <4>1 DEF DataOK
      <4>3. activity' = [activity EXCEPT ![i] = @ \cup {n}]
        BY <3>3, <4>1
      <4> QED
        BY <4>2, <4>3, ExceptSeqType
    <3> QED
      BY <1>5, <3>2, <3>3 DEF RenewRead
  <2> QED
    BY <1>0, <1>5, <2>2, <2>3 DEF DataOK, RenewRead
<1>6. ASSUME NEW p \in Procs, RenewRemove(p) PROVE DataOK'
  <2>1. approvals' \subseteq [id : Nat, now : Nat]
    BY <1>6, ReturnType DEF RenewRemove
  <2>2. file' \in Contents
    BY <1>6, EmptyType DEF RenewRemove, Removing
  <2> QED
    BY <1>0, <1>6, <2>1, <2>2 DEF RenewRemove, DataOK
<1>7. ASSUME NEW p \in Procs, Truncate(p) PROVE DataOK'
  <2>1. approvals' = approvals \/ Return(p)
    BY <1>7 DEF Truncate
  <2>2. approvals' \subseteq [id : Nat, now : Nat]
    BY <1>0, <2>1, ReturnType DEF DataOK
  <2>3. file' \in Contents
    BY <1>0, <1>7, EmptyType DEF Truncate, DataOK
  <2> QED
    BY <1>0, <1>7, <2>2, <2>3 DEF Truncate, DataOK
<1>8. ASSUME NEW p \in Procs, Write(p) PROVE DataOK'
  <2>1. approvals' \subseteq [id : Nat, now : Nat]
    BY <1>8, ReturnType DEF Write
  <2>2. proc[p].write \in Lease
    BY <1>0 DEF Proc
  <2>3. file' \in Contents /\ written' \subseteq Lease
    <3>1. CASE file' = file /\ written' = written
      BY <1>0, <3>1 DEF DataOK
    <3>2. CASE file' = Stored(proc[p].write) /\ written' = written \cup {proc[p].write}
      BY <1>0, <2>2, <3>2, StoredType DEF DataOK
    <3>3. CASE file' = Blank /\ written' = written
      BY <1>0, <3>3, EmptyType DEF DataOK
    <3> QED
      BY <1>8, <3>1, <3>2, <3>3 DEF Write
  <2> QED
    BY <1>0, <1>8, <2>1, <2>3 DEF Write, DataOK
<1>9. CASE Tick \/ UNCHANGED vars
  BY <1>0, <1>9 DEF Tick, vars, DataOK
<1> QED
  BY <1>1, <1>2, <1>3, <1>4, <1>5, <1>6, <1>7, <1>8, <1>9 DEF Next, Continue

LEMMA TypeInit == Init => TypeOK
<1> SUFFICES ASSUME Init PROVE TypeOK
  OBVIOUS
<1>1. DataOK
  <2>1. CASE file = NoFile /\ enabled = <<>> /\ activity = <<>> /\ written = {}
    BY <2>1, EmptyType DEF Init, DataOK
  <2>2. ASSUME NEW e \in TTLs \cap 1..MaxTTL,
               LET old == [id |-> 1, expires |-> e, max |-> 0, idle |-> 0] IN
                 /\ file = Stored(old) /\ written = {old}
                 /\ enabled = <<[at |-> 0, max |-> e, idle |-> e]>>
                 /\ activity = <<{0}>>
        PROVE  DataOK
    <3>1. e \in Nat
      BY AutoApproveAssumption
    <3> DEFINE old == [id |-> 1, expires |-> e, max |-> 0, idle |-> 0]
               terms == [at |-> 0, max |-> e, idle |-> e]
    <3>2. old \in Lease /\ terms \in Terms
      BY <3>1 DEF Lease, Terms
    <3>3. file = Stored(old) /\ written = {old} /\ enabled = <<terms>> /\ activity = <<{0}>>
      BY <2>2
    <3> HIDE DEF old, terms
    <3>4. file \in Contents /\ written \subseteq Lease
      BY <3>2, <3>3, StoredType
    <3>5. enabled \in Seq(Terms) /\ activity \in Seq(SUBSET Nat) /\ Len(activity) = Len(enabled)
      BY <3>2, <3>3
    <3> QED
      BY <3>4, <3>5 DEF Init, DataOK
  <2> QED
    BY <2>1, <2>2 DEF Init
<1>2. proc \in [Procs -> Proc]
  BY IdleType DEF Init
<1> QED
  BY <1>1, <1>2 DEF Init, DataOK, TypeOK

LEMMA TypeNext == TypeOK /\ [Next]_vars => TypeOK'
BY CounterType, LockNext, DataNext DEF LockOK, DataOK, TypeOK, Renewing

\* Whatever fails or dies, every variable keeps its kind and the flock is
\* held only within a renewal.
THEOREM AutoApproveTypeCorrect == Spec => []TypeOK
BY TypeInit, TypeNext, PTL DEF Spec

-----------------------------------------------------------------------------
\* A lease of the sequence e of enabled ones that keeps to its terms.
InTerms(e, l) ==
  /\ l.id \in 1..Len(e)
  /\ Effective(l).expires <= e[l.id].max
  /\ Effective(l).max = e[l.id].max

Granted(e, id, now) == id \in 1..Len(e) /\ now < e[id].max

\* Every lease at hand keeps to its terms: the one in the file, those about
\* to be written and those a request relies on.
AInv ==
  /\ TypeOK
  /\ \A i \in 1..Len(enabled) : enabled[i].max <= enabled[i].at + MaxTTL
  /\ Held => InTerms(enabled, file.lease)
  /\ \A p \in Procs : proc[p].pc \in {"truncate", "write"} => InTerms(enabled, proc[p].write)
  /\ \A p \in Procs : proc[p].by # 0 => Granted(enabled, proc[p].by, proc[p].now)
  /\ \A a \in approvals : Granted(enabled, a.id, a.now)

LEMMA AInvInit == Init => AInv
<1> SUFFICES ASSUME Init PROVE AInv
  OBVIOUS
<1>1. TypeOK
  BY TypeInit
<1>2. \A p \in Procs : proc[p].pc = "idle" /\ proc[p].by = 0
  BY IdleType DEF Init
<1>3. CASE file = NoFile /\ enabled = <<>>
  BY <1>1, <1>2, <1>3, EmptyType DEF Init, AInv, Held
<1>4. ASSUME NEW e \in TTLs \cap 1..MaxTTL,
             file = Stored([id |-> 1, expires |-> e, max |-> 0, idle |-> 0]),
             enabled = <<[at |-> 0, max |-> e, idle |-> e]>>
      PROVE  AInv
  <2>1. e \in 1..MaxTTL
    OBVIOUS
  <2>2. file.lease = [id |-> 1, expires |-> e, max |-> 0, idle |-> 0]
    BY <1>4 DEF Stored
  <2>3. Effective(file.lease) = [id |-> 1, expires |-> e, max |-> e, idle |-> 0]
    BY <2>2 DEF Effective
  <2>4. Len(enabled) = 1 /\ enabled[1] = [at |-> 0, max |-> e, idle |-> e]
    BY <1>4
  <2>5. InTerms(enabled, file.lease)
    BY <2>1, <2>2, <2>3, <2>4 DEF InTerms
  <2>6. \A i \in 1..Len(enabled) : enabled[i].max <= enabled[i].at + MaxTTL
    BY <2>1, <2>4, AutoApproveAssumption
  <2> QED
    BY <1>1, <1>2, <2>5, <2>6 DEF Init, AInv
<1> QED
  BY <1>3, <1>4 DEF Init

\* A step keeps the leases enabled so far, and adds one at most.
LEMMA EnabledGrows ==
  ASSUME AInv, [Next]_vars
  PROVE  /\ \A l : InTerms(enabled, l) => InTerms(enabled', l)
         /\ \A id, now : Granted(enabled, id, now) => Granted(enabled', id, now)
         /\ \A i \in 1..Len(enabled') : enabled'[i].max <= enabled'[i].at + MaxTTL
<1>0. /\ enabled \in Seq(Terms) /\ clock \in Nat
      /\ \A i \in 1..Len(enabled) : enabled[i].max <= enabled[i].at + MaxTTL
  BY DEF AInv, TypeOK
<1>1. CASE enabled' = enabled
  BY <1>0, <1>1
<1>2. ASSUME NEW ttl \in TTLs, NEW i, ttl <= MaxTTL,
             enabled' = Append(enabled, [at |-> clock, max |-> clock + ttl, idle |-> i])
      PROVE  /\ \A l : InTerms(enabled, l) => InTerms(enabled', l)
             /\ \A id, now : Granted(enabled, id, now) => Granted(enabled', id, now)
             /\ \A k \in 1..Len(enabled') : enabled'[k].max <= enabled'[k].at + MaxTTL
  <2> DEFINE terms == [at |-> clock, max |-> clock + ttl, idle |-> i]
  <2>1. terms.max <= terms.at + MaxTTL
    BY <1>0, <1>2, AutoApproveAssumption
  <2>2. enabled' = Append(enabled, terms)
    BY <1>2
  <2> HIDE DEF terms
  <2>3. /\ Len(enabled') = Len(enabled) + 1 /\ Len(enabled) \in Nat
        /\ \A k \in 1..Len(enabled) : enabled'[k] = enabled[k]
        /\ enabled'[Len(enabled) + 1] = terms
    BY <1>0, <2>2
  <2>4. \A k \in 1..Len(enabled) : k \in 1..Len(enabled')
    BY <2>3
  <2>5. \A k \in 1..Len(enabled') : k \in 1..Len(enabled) \/ k = Len(enabled) + 1
    BY <2>3
  <2> QED
    BY <1>0, <2>1, <2>3, <2>4, <2>5 DEF InTerms, Granted
<1>3. \/ enabled' = enabled
      \/ \E ttl \in TTLs : /\ ttl <= MaxTTL
                           /\ \E i : enabled' = Append(enabled, [at |-> clock,
                                                        max |-> clock + ttl, idle |-> i])
  BY DEF Next, Enable, Disable, Start, Continue, Read, Remove, Lock, RenewRead,
         RenewRemove, Truncate, Write, Die, Tick, vars
<1> QED
  BY <1>1, <1>2, <1>3

\* What a step does to the file, to what a process writes or relies on, and
\* to the approvals.
LEMMA FileMoves ==
  ASSUME AInv, [Next]_vars
  PROVE  Held' => \/ Held /\ file' = file
                  \/ \E p \in Procs : proc[p].pc = "write" /\ file' = Stored(proc[p].write)
<1>1. CASE file' = file
  BY <1>1 DEF Held
<1>2. CASE file' \in {NoFile, Blank}
  BY <1>2, EmptyType DEF Held
<1>3. CASE \E p \in Procs : proc[p].pc = "write" /\ file' = Stored(proc[p].write)
  BY <1>3
<1> QED
  BY <1>1, <1>2, <1>3 DEF Next, Enable, Disable, Start, Continue, Read, Remove, Lock,
     RenewRead, RenewRemove, Truncate, Write, Die, Tick, vars, Removing

LEMMA ApprovalMoves ==
  ASSUME AInv, [Next]_vars, NEW a \in approvals'
  PROVE  \/ a \in approvals
         \/ \E p \in Procs : proc[p].by # 0 /\ a.id = proc[p].by /\ a.now = proc[p].now
<1>1. CASE approvals' = approvals
  BY <1>1
<1>2. ASSUME NEW p \in Procs, Approving(p)
      PROVE  \/ a \in approvals
             \/ proc[p].by # 0 /\ a.id = proc[p].by /\ a.now = proc[p].now
  BY <1>2 DEF Approving
<1> QED
  BY <1>1, <1>2 DEF Next, Enable, Disable, Start, Continue, Read, Remove, Lock,
     RenewRead, RenewRemove, Truncate, Write, Die, Tick, vars, Return

\* A live lease keeps to its terms for as long as it is renewed.
LEMMA RenewalInTerms ==
  ASSUME AInv, NEW now \in Nat, Finds(now)
  PROVE  /\ InTerms(enabled, Renewed(Current, now))
         /\ Granted(enabled, file.lease.id, now)
<1> DEFINE c == Current
           r == Renewed(c, now)
<1>1. /\ c \in Lease /\ c.id = file.lease.id /\ now < c.max
      /\ InTerms(enabled, file.lease) /\ enabled \in Seq(Terms)
  BY LeaseType DEF Finds, Live, AInv, TypeOK
<1>2. c.max = enabled[c.id].max /\ c.id \in 1..Len(enabled)
  BY <1>1 DEF InTerms, Current
<1>3. r \in Lease /\ r.id = c.id /\ r.max = c.max /\ r.expires <= c.max
  BY <1>1, RenewedType
<1> HIDE DEF c, r
<1>4. r.max # 0
  BY <1>1, <1>3 DEF Lease
<1>5. Effective(r) = r
  BY <1>4 DEF Effective
<1>6. InTerms(enabled, r)
  BY <1>2, <1>3, <1>5 DEF InTerms
<1>7. Granted(enabled, file.lease.id, now)
  BY <1>1, <1>2 DEF Granted
<1> QED
  BY <1>6, <1>7 DEF c, r

\* The lease of an enable keeps to the terms it adds.
LEMMA EnableInTerms ==
  ASSUME AInv, NEW p \in Procs, Enable(p)
  PROVE  /\ proc' = [proc EXCEPT ![p] = proc'[p]]
         /\ proc'[p].by = 0 /\ InTerms(enabled', proc'[p].write)
<1>1. PICK ttl \in TTLs, window \in IdleWindows :
        LET idle == Least(IF window > 0 THEN window ELSE DefaultIdle, ttl)
            fresh == [id |-> Len(enabled) + 1, expires |-> clock + idle,
                      max |-> clock + ttl, idle |-> idle]
        IN  /\ 0 < ttl
            /\ enabled' = Append(enabled, [at |-> clock, max |-> clock + ttl, idle |-> idle])
            /\ proc' = [proc EXCEPT ![p] = [IdleProc EXCEPT !.pc = "truncate", !.write = fresh]]
  BY DEF Enable
<1> DEFINE idle == Least(IF window > 0 THEN window ELSE DefaultIdle, ttl)
           terms == [at |-> clock, max |-> clock + ttl, idle |-> idle]
           fresh == [id |-> Len(enabled) + 1, expires |-> clock + idle,
                     max |-> clock + ttl, idle |-> idle]
           h == [IdleProc EXCEPT !.pc = "truncate", !.write = fresh]
<1>2. ttl \in Nat /\ 0 < ttl /\ clock \in Nat /\ enabled \in Seq(Terms)
  BY <1>1, AutoApproveAssumption DEF AInv, TypeOK
<1>3. idle \in Nat /\ idle <= ttl
  BY <1>2, AutoApproveAssumption DEF Least
<1>4. enabled' = Append(enabled, terms) /\ proc' = [proc EXCEPT ![p] = h]
  BY <1>1
<1> HIDE DEF idle
<1>5. fresh.expires <= terms.max /\ fresh.max = terms.max /\ fresh.max # 0
  BY <1>2, <1>3
<1>6. fresh.id = Len(enabled) + 1
  OBVIOUS
<1>7. h.by = 0 /\ h.write = fresh
  BY DEF IdleProc
<1>8. Effective(fresh) = fresh
  BY <1>5 DEF Effective
<1> HIDE DEF terms, fresh, h
<1>9. /\ Len(enabled) + 1 \in 1..Len(enabled') /\ enabled'[Len(enabled) + 1] = terms
  BY <1>2, <1>4
<1>10. InTerms(enabled', fresh)
  BY <1>5, <1>6, <1>8, <1>9 DEF InTerms
<1>11. proc'[p] = h
  BY <1>4 DEF AInv, TypeOK
<1> QED
  BY <1>4, <1>7, <1>10, <1>11

LEMMA ProcMoves ==
  ASSUME AInv, [Next]_vars, NEW q \in Procs
  PROVE  /\ proc'[q].pc \in {"truncate", "write"} => InTerms(enabled', proc'[q].write)
         /\ proc'[q].by # 0 => Granted(enabled', proc'[q].by, proc'[q].now)
<1> DEFINE Good(h) == /\ h.pc \in {"truncate", "write"} => InTerms(enabled', h.write)
                      /\ h.by # 0 => Granted(enabled', h.by, h.now)
<1>0. /\ TypeOK /\ proc \in [Procs -> Proc]
      /\ \A p \in Procs : proc[p] \in Proc
  BY DEF AInv, TypeOK
<1>1. \A p \in Procs : Good(proc[p])
  BY EnabledGrows DEF AInv
<1>2. Good(IdleProc)
  BY DEF IdleProc
<1>3. ASSUME NEW p \in Procs, NEW h, Good(h), proc' = [proc EXCEPT ![p] = h]
      PROVE  Good(proc'[q])
  <2>1. proc'[q] = h \/ proc'[q] = proc[q]
    BY <1>0, <1>3
  <2> HIDE DEF Good
  <2> QED
    BY <1>1, <1>3, <2>1
<1>4. ASSUME NEW p \in Procs, NEW pc \in Steps, Goto(p, pc),
             pc \in {"truncate", "write"} => proc[p].pc \in {"truncate", "write"}
      PROVE  Good(proc'[q])
  <2> DEFINE h == [proc[p] EXCEPT !.pc = pc]
  <2>1. h.pc = pc /\ h.by = proc[p].by /\ h.now = proc[p].now /\ h.write = proc[p].write
    BY <1>0 DEF Proc
  <2>2. proc' = [proc EXCEPT ![p] = h]
    BY <1>0, <1>4, GotoType DEF Goto
  <2> HIDE DEF h
  <2>3. Good(h)
    BY <1>1, <1>4, <2>1
  <2> QED
    BY <1>3, <2>2, <2>3
<1>5. ASSUME NEW p \in Procs, Removing(p, IdleProc) PROVE Good(proc'[q])
  <2>1. CASE q = p
    BY <1>0, <1>2, <1>5, <2>1, RemovingType
  <2>2. CASE q # p
    <3>1. /\ proc'[q].pc = proc[q].pc /\ proc'[q].by = proc[q].by
          /\ proc'[q].now = proc[q].now /\ proc'[q].write = proc[q].write
      BY <1>0, <1>5, <2>2, RemovingType
    <3> QED
      BY <1>1, <3>1
  <2> QED
    BY <2>1, <2>2
<1>6. ASSUME NEW p \in Procs, Enable(p) PROVE Good(proc'[q])
  <2>1. Good(proc'[p])
    BY <1>6, EnableInTerms
  <2>2. proc' = [proc EXCEPT ![p] = proc'[p]]
    BY <1>6, EnableInTerms
  <2> HIDE DEF Good
  <2> QED
    BY <1>3, <2>1, <2>2
<1>7. ASSUME NEW p \in Procs, Start(p) PROVE Good(proc'[q])
  <2>1. PICK pc \in {"renew", "read", "status"} :
          proc' = [proc EXCEPT ![p] = [IdleProc EXCEPT !.pc = pc, !.now = clock]]
    BY <1>7 DEF Start
  <2> DEFINE h == [IdleProc EXCEPT !.pc = pc, !.now = clock]
  <2>2. h.pc = pc /\ h.by = 0
    BY DEF IdleProc
  <2>3. Good(h)
    BY <2>2
  <2> HIDE DEF h, Good
  <2> QED
    BY <1>3, <2>1, <2>3 DEF h
<1>8. ASSUME NEW p \in Procs, Read(p) PROVE Good(proc'[q])
  <2>1. proc[p].now \in Nat
    BY <1>0 DEF Proc
  <2>2. CASE /\ Finds(proc[p].now)
             /\ proc' = [proc EXCEPT ![p].pc = "renew", ![p].by = file.lease.id]
    <3> DEFINE h == [proc[p] EXCEPT !.pc = "renew", !.by = file.lease.id]
    <3>1. proc' = [proc EXCEPT ![p] = h]
      BY <1>0, <2>2
    <3>2. h.pc = "renew" /\ h.by = file.lease.id /\ h.now = proc[p].now
      BY <1>0 DEF Proc
    <3>3. Granted(enabled', file.lease.id, proc[p].now)
      BY <2>1, <2>2, RenewalInTerms, EnabledGrows
    <3>4. Good(h)
      BY <3>2, <3>3
    <3> HIDE DEF h, Good
    <3> QED
      BY <1>3, <3>1, <3>4
  <2>3. CASE Goto(p, "remove")
    BY <1>4, <2>3 DEF Steps
  <2>4. CASE proc' = [proc EXCEPT ![p] = IdleProc]
    BY <1>2, <1>3, <2>4
  <2> HIDE DEF Good
  <2> QED
    BY <1>8, <2>2, <2>3, <2>4 DEF Read
<1>9. ASSUME NEW p \in Procs, Lock(p) PROVE Good(proc'[q])
  BY <1>4, <1>9 DEF Lock, Steps
<1>10. ASSUME NEW p \in Procs, RenewRead(p) PROVE Good(proc'[q])
  <2>1. proc[p].now \in Nat
    BY <1>0 DEF Proc
  <2>2. CASE /\ Finds(proc[p].now)
             /\ proc' = [proc EXCEPT ![p].pc = "truncate",
                                     ![p].write = Renewed(Current, proc[p].now)]
    <3> DEFINE l == Renewed(Current, proc[p].now)
               h == [proc[p] EXCEPT !.pc = "truncate", !.write = l]
    <3>1. proc' = [proc EXCEPT ![p] = h]
      BY <1>0, <2>2
    <3>2. h.by = proc[p].by /\ h.write = l /\ h.now = proc[p].now
      BY <1>0 DEF Proc
    <3>3. InTerms(enabled', l)
      BY <2>1, <2>2, RenewalInTerms, EnabledGrows
    <3> HIDE DEF l
    <3>4. Good(h)
      BY <1>1, <3>2, <3>3
    <3> HIDE DEF h, Good
    <3> QED
      BY <1>3, <3>1, <3>4
  <2>3. CASE Goto(p, "renewRemove")
    BY <1>4, <2>3 DEF Steps
  <2>4. CASE proc' = [proc EXCEPT ![p] = IdleProc]
    BY <1>2, <1>3, <2>4
  <2> HIDE DEF Good
  <2> QED
    BY <1>10, <2>2, <2>3, <2>4 DEF RenewRead
<1>11. ASSUME NEW p \in Procs, Truncate(p) PROVE Good(proc'[q])
  <2>1. CASE Goto(p, "write")
    BY <1>4, <1>11, <2>1 DEF Steps, Truncate
  <2>2. CASE proc' = [proc EXCEPT ![p] = IdleProc]
    BY <1>2, <1>3, <2>2
  <2> HIDE DEF Good
  <2> QED
    BY <1>11, <2>1, <2>2 DEF Truncate
<1>12. ASSUME NEW p \in Procs, Write(p) \/ Die(p) PROVE Good(proc'[q])
  BY <1>2, <1>3, <1>12 DEF Write, Die
<1>13. ASSUME NEW p \in Procs, Disable(p) \/ Remove(p) \/ RenewRemove(p) PROVE Good(proc'[q])
  BY <1>5, <1>13 DEF Disable, Remove, RenewRemove
<1>14. Good(proc'[q])
  <2>1. \/ \E p \in Procs : \/ Enable(p) \/ Disable(p) \/ Start(p) \/ Die(p)
                            \/ Read(p) \/ Remove(p) \/ Lock(p) \/ RenewRead(p)
                            \/ RenewRemove(p) \/ Truncate(p) \/ Write(p)
        \/ proc' = proc
    BY DEF Next, Continue, Tick, vars
  <2>3. CASE proc' = proc
    BY <1>1, <2>3
  <2> HIDE DEF Good
  <2>2. ASSUME NEW p \in Procs,
               \/ Enable(p) \/ Disable(p) \/ Start(p) \/ Die(p)
               \/ Read(p) \/ Remove(p) \/ Lock(p) \/ RenewRead(p)
               \/ RenewRemove(p) \/ Truncate(p) \/ Write(p)
        PROVE  Good(proc'[q])
    BY <2>2, <1>6, <1>7, <1>8, <1>9, <1>10, <1>11, <1>12, <1>13
  <2>4. CASE proc' # proc
    <3>1. PICK p \in Procs : \/ Enable(p) \/ Disable(p) \/ Start(p) \/ Die(p)
                             \/ Read(p) \/ Remove(p) \/ Lock(p) \/ RenewRead(p)
                             \/ RenewRemove(p) \/ Truncate(p) \/ Write(p)
      BY <2>1, <2>4
    <3> QED
      BY <2>2, <3>1
  <2> QED
    BY <2>3, <2>4
<1> QED
  BY <1>14

LEMMA AInvNext == AInv /\ [Next]_vars => AInv'
<1> SUFFICES ASSUME AInv, [Next]_vars PROVE AInv'
  OBVIOUS
<1>1. TypeOK'
  BY TypeNext DEF AInv
<1>2. Held' => InTerms(enabled', file'.lease)
  <2>1. ASSUME Held, file' = file PROVE InTerms(enabled', file'.lease)
    BY <2>1, EnabledGrows DEF AInv
  <2>2. ASSUME NEW p \in Procs, proc[p].pc = "write", file' = Stored(proc[p].write)
        PROVE  InTerms(enabled', file'.lease)
    <3>1. InTerms(enabled, proc[p].write)
      BY <2>2 DEF AInv
    <3>2. file'.lease = proc[p].write
      BY <2>2 DEF Stored
    <3> QED
      BY <3>1, <3>2, EnabledGrows
  <2> QED
    BY <2>1, <2>2, FileMoves
<1>3. \A a \in approvals' : Granted(enabled', a.id, a.now)
  <2> SUFFICES ASSUME NEW a \in approvals' PROVE Granted(enabled', a.id, a.now)
    OBVIOUS
  <2>1. Granted(enabled, a.id, a.now)
    BY ApprovalMoves DEF AInv
  <2> QED
    BY <2>1, EnabledGrows
<1> QED
  BY <1>1, <1>2, <1>3, EnabledGrows, ProcMoves DEF AInv

LEMMA AutoApproveInvariant == Spec => []AInv
BY AInvInit, AInvNext, PTL DEF Spec

\* No sequence of renewals, races or failed operations stretches a lease past
\* the ceiling it was enabled with.
THEOREM EveryCeilingKept == Spec => []CeilingKept
<1>1. AInv => CeilingKept
  BY LeaseType DEF AInv, CeilingKept, InTerms, Current
<1> QED
  BY <1>1, AutoApproveInvariant, PTL

\* A request approved without a prompt began before the ceiling of the lease
\* that approved it.
THEOREM EveryAutoApprovalBelowCeiling == Spec => []ApprovedBelowCeiling
<1>1. AInv => ApprovedBelowCeiling
  BY DEF AInv, ApprovedBelowCeiling, Granted
<1> QED
  BY <1>1, AutoApproveInvariant, PTL

-----------------------------------------------------------------------------
\* What a process may be about to write: what it was about to write before,
\* a fresh lease, or a renewal of the lease in the file.
Pending(p) == proc[p].pc \in {"truncate", "write"}

LEMMA PendingMoves ==
  ASSUME TypeOK, [Next]_vars, NEW q \in Procs, Pending(q)'
  PROVE  \/ Pending(q) /\ proc'[q].write = proc[q].write
         \/ Enable(q)
         \/ /\ RenewRead(q) /\ Finds(proc[q].now)
            /\ Renewed(Current, proc[q].now).expires > Current.expires
            /\ proc'[q].write = Renewed(Current, proc[q].now)
<1> DEFINE Same == Pending(q) /\ proc'[q].write = proc[q].write
<1>0. /\ proc \in [Procs -> Proc] /\ \A p \in Procs : proc[p] \in Proc
      /\ proc'[q].pc \in {"truncate", "write"}
  BY DEF TypeOK, Pending
<1>1. CASE proc' = proc
  BY <1>0, <1>1 DEF Pending
<1>2. ASSUME NEW p \in Procs, NEW h, proc' = [proc EXCEPT ![p] = h],
             h.pc \notin {"truncate", "write"}
      PROVE  Same
  <2>1. q # p
    BY <1>0, <1>2
  <2> QED
    BY <1>0, <1>2, <2>1 DEF Pending
<1>3. ASSUME NEW p \in Procs, NEW pc \in Steps, Goto(p, pc),
             pc \in {"truncate", "write"} => Pending(p)
      PROVE  Same
  <2> DEFINE h == [proc[p] EXCEPT !.pc = pc]
  <2>1. proc' = [proc EXCEPT ![p] = h] /\ h.pc = pc /\ h.write = proc[p].write
    BY <1>0, <1>3, GotoType DEF Goto, Proc
  <2> HIDE DEF h
  <2>2. CASE pc \in {"truncate", "write"}
    BY <1>0, <1>3, <2>1, <2>2 DEF Pending
  <2> QED
    BY <1>2, <2>1, <2>2
<1>4. ASSUME NEW p \in Procs, Removing(p, IdleProc) PROVE Same
  <2>1. q # p
    BY <1>0, <1>4, RemovingType, IdleType
  <2> QED
    BY <1>0, <1>4, <2>1, RemovingType DEF Pending
<1>5. ASSUME NEW p \in Procs, proc' = [proc EXCEPT ![p] = IdleProc] PROVE Same
  BY <1>2, <1>5, IdleType
<1>6. ASSUME NEW p \in Procs, Enable(p) PROVE Same \/ Enable(q)
  <2>1. CASE p # q
    <3>1. PICK h : proc' = [proc EXCEPT ![p] = h]
      BY <1>6 DEF Enable
    <3> QED
      BY <1>0, <2>1, <3>1 DEF Pending
  <2> QED
    BY <1>6, <2>1
<1>7. ASSUME NEW p \in Procs, Start(p) PROVE Same
  <2>1. PICK pc \in {"renew", "read", "status"} :
          proc' = [proc EXCEPT ![p] = [IdleProc EXCEPT !.pc = pc, !.now = clock]]
    BY <1>7 DEF Start
  <2> DEFINE h == [IdleProc EXCEPT !.pc = pc, !.now = clock]
  <2>2. h.pc \notin {"truncate", "write"}
    BY DEF IdleProc
  <2> HIDE DEF h
  <2> QED
    BY <1>2, <2>1, <2>2 DEF h
<1>8. ASSUME NEW p \in Procs, Read(p) PROVE Same
  <2>1. CASE proc' = [proc EXCEPT ![p].pc = "renew", ![p].by = file.lease.id]
    <3> DEFINE h == [proc[p] EXCEPT !.pc = "renew", !.by = file.lease.id]
    <3>1. proc' = [proc EXCEPT ![p] = h] /\ h.pc = "renew"
      BY <1>0, <2>1 DEF Proc
    <3> HIDE DEF h
    <3> QED
      BY <1>2, <3>1
  <2>2. CASE Goto(p, "remove")
    BY <1>3, <2>2 DEF Steps
  <2> HIDE DEF Same
  <2> QED
    BY <1>5, <1>8, <2>1, <2>2 DEF Read
<1>9. ASSUME NEW p \in Procs, Lock(p) PROVE Same
  BY <1>3, <1>9 DEF Lock, Steps
<1>10. ASSUME NEW p \in Procs, RenewRead(p)
       PROVE  \/ Same
              \/ /\ RenewRead(q) /\ Finds(proc[q].now)
                 /\ Renewed(Current, proc[q].now).expires > Current.expires
                 /\ proc'[q].write = Renewed(Current, proc[q].now)
  <2>1. CASE /\ Finds(proc[p].now)
             /\ Renewed(Current, proc[p].now).expires > Current.expires
             /\ proc' = [proc EXCEPT ![p].pc = "truncate",
                                     ![p].write = Renewed(Current, proc[p].now)]
    <3>1. CASE p # q
      BY <1>0, <2>1, <3>1 DEF Pending
    <3>2. CASE p = q
      <4>1. proc'[q].write = Renewed(Current, proc[q].now)
        BY <1>0, <2>1, <3>2 DEF Proc
      <4> QED
        BY <1>10, <2>1, <3>2, <4>1
    <3> QED
      BY <3>1, <3>2
  <2>2. CASE Goto(p, "renewRemove")
    BY <1>3, <2>2 DEF Steps
  <2> HIDE DEF Same
  <2> QED
    BY <1>5, <1>10, <2>1, <2>2 DEF RenewRead
<1>11. ASSUME NEW p \in Procs, Truncate(p) PROVE Same
  <2>1. CASE Goto(p, "write")
    BY <1>3, <1>11, <2>1 DEF Steps, Truncate, Pending
  <2> HIDE DEF Same
  <2> QED
    BY <1>5, <1>11, <2>1 DEF Truncate
<1>12. ASSUME NEW p \in Procs, Write(p) \/ Die(p) PROVE Same
  BY <1>5, <1>12 DEF Write, Die
<1>13. ASSUME NEW p \in Procs, Disable(p) \/ Remove(p) \/ RenewRemove(p) PROVE Same
  BY <1>4, <1>13 DEF Disable, Remove, RenewRemove
<1>14. CASE Tick \/ UNCHANGED vars
  BY <1>1, <1>14 DEF Tick, vars
<1> HIDE DEF Same
<1>15. ASSUME NEW p \in Procs, Enable(p) \/ Disable(p) \/ Start(p) \/ Continue(p) \/ Die(p)
       PROVE  \/ Same \/ Enable(q)
              \/ /\ RenewRead(q) /\ Finds(proc[q].now)
                 /\ Renewed(Current, proc[q].now).expires > Current.expires
                 /\ proc'[q].write = Renewed(Current, proc[q].now)
  BY <1>15, <1>6, <1>7, <1>8, <1>9, <1>10, <1>11, <1>12, <1>13 DEF Continue
<1> QED
  BY <1>14, <1>15 DEF Next, Same

-----------------------------------------------------------------------------
\* A lease of the sequence e that lives no longer than its idle window after
\* one of its uses v; a lease of the format before max has no window of its
\* own, and is never renewed.
InUse(e, v, l) ==
  /\ l.max = 0 \/ (l.idle # 0 /\ l.idle = e[l.id].idle)
  /\ \E a \in v[l.id] : l.expires <= a + e[l.id].idle

UseInv ==
  /\ Held => InUse(enabled, activity, file.lease)
  /\ \A p \in Procs : Pending(p) => InUse(enabled, activity, proc[p].write)

LEMMA UseInvInit == Init => UseInv
<1> SUFFICES ASSUME Init PROVE UseInv
  OBVIOUS
<1>1. \A p \in Procs : ~Pending(p)
  BY IdleType DEF Init, Pending
<1>2. CASE file = NoFile
  BY <1>1, <1>2, EmptyType DEF UseInv, Held
<1>3. ASSUME NEW e \in TTLs \cap 1..MaxTTL,
             file = Stored([id |-> 1, expires |-> e, max |-> 0, idle |-> 0]),
             enabled = <<[at |-> 0, max |-> e, idle |-> e]>>, activity = <<{0}>>
      PROVE  UseInv
  <2>1. file.lease = [id |-> 1, expires |-> e, max |-> 0, idle |-> 0]
    BY <1>3 DEF Stored
  <2>2. enabled[1].idle = e /\ activity[1] = {0} /\ e \in Nat
    BY <1>3, AutoApproveAssumption
  <2>3. InUse(enabled, activity, file.lease)
    BY <2>1, <2>2 DEF InUse
  <2> QED
    BY <1>1, <2>3 DEF UseInv
<1> QED
  BY <1>2, <1>3 DEF Init

\* No step takes back terms or uses.
LEMMA UsesGrow ==
  ASSUME AInv, [Next]_vars
  PROVE  \A i \in 1..Len(enabled) : enabled'[i] = enabled[i] /\ activity[i] \subseteq activity'[i]
<1>0. /\ enabled \in Seq(Terms) /\ activity \in Seq(SUBSET Nat) /\ Len(activity) = Len(enabled)
  BY DEF AInv, TypeOK
<1>1. CASE enabled' = enabled /\ activity' = activity
  BY <1>1
<1>2. ASSUME NEW t, NEW u, enabled' = Append(enabled, t), activity' = Append(activity, u)
      PROVE  \A i \in 1..Len(enabled) : enabled'[i] = enabled[i] /\ activity[i] \subseteq activity'[i]
  BY <1>0, <1>2
<1>3. ASSUME NEW k, NEW n, enabled' = enabled, activity' = [activity EXCEPT ![k] = @ \cup {n}]
      PROVE  \A i \in 1..Len(enabled) : enabled'[i] = enabled[i] /\ activity[i] \subseteq activity'[i]
  BY <1>0, <1>3
<1>4. \/ enabled' = enabled /\ activity' = activity
      \/ \E t, u : enabled' = Append(enabled, t) /\ activity' = Append(activity, u)
      \/ \E k, n : enabled' = enabled /\ activity' = [activity EXCEPT ![k] = @ \cup {n}]
  <2>1. ASSUME NEW p \in Procs, Enable(p)
        PROVE  \E t, u : enabled' = Append(enabled, t) /\ activity' = Append(activity, u)
    BY <2>1 DEF Enable
  <2>2. ASSUME NEW p \in Procs, RenewRead(p)
        PROVE  \/ enabled' = enabled /\ activity' = activity
               \/ \E k, n : enabled' = enabled /\ activity' = [activity EXCEPT ![k] = @ \cup {n}]
    BY <2>2 DEF RenewRead
  <2> QED
    BY <2>1, <2>2 DEF Next, Disable, Start, Continue, Read, Remove, Lock,
       RenewRemove, Truncate, Write, Die, Tick, vars
<1> QED
  BY <1>1, <1>2, <1>3, <1>4

LEMMA StaysInUse ==
  ASSUME AInv, [Next]_vars, NEW l, InTerms(enabled, l), InUse(enabled, activity, l)
  PROVE  InUse(enabled', activity', l)
<1>1. l.id \in 1..Len(enabled)
  BY DEF InTerms
<1>2. enabled'[l.id] = enabled[l.id] /\ activity[l.id] \subseteq activity'[l.id]
  BY <1>1, UsesGrow
<1> QED
  BY <1>2 DEF InUse

\* The lease of an enable starts with one idle window.
LEMMA EnableInUse ==
  ASSUME AInv, NEW p \in Procs, Enable(p)
  PROVE  InUse(enabled', activity', proc'[p].write)
<1>1. PICK ttl \in TTLs, window \in IdleWindows :
        LET idle == Least(IF window > 0 THEN window ELSE DefaultIdle, ttl)
            fresh == [id |-> Len(enabled) + 1, expires |-> clock + idle,
                      max |-> clock + ttl, idle |-> idle]
        IN  /\ 0 < ttl
            /\ enabled' = Append(enabled, [at |-> clock, max |-> clock + ttl, idle |-> idle])
            /\ activity' = Append(activity, {clock})
            /\ proc' = [proc EXCEPT ![p] = [IdleProc EXCEPT !.pc = "truncate", !.write = fresh]]
  BY DEF Enable
<1> DEFINE idle == Least(IF window > 0 THEN window ELSE DefaultIdle, ttl)
           terms == [at |-> clock, max |-> clock + ttl, idle |-> idle]
           fresh == [id |-> Len(enabled) + 1, expires |-> clock + idle,
                     max |-> clock + ttl, idle |-> idle]
           h == [IdleProc EXCEPT !.pc = "truncate", !.write = fresh]
<1>2. /\ ttl \in Nat /\ 0 < ttl /\ clock \in Nat /\ enabled \in Seq(Terms)
      /\ activity \in Seq(SUBSET Nat) /\ Len(activity) = Len(enabled)
      /\ proc \in [Procs -> Proc]
  BY <1>1, AutoApproveAssumption DEF AInv, TypeOK
<1>3. idle \in Nat /\ idle # 0
  BY <1>2, AutoApproveAssumption DEF Least
<1>4. /\ enabled' = Append(enabled, terms) /\ activity' = Append(activity, {clock})
      /\ proc' = [proc EXCEPT ![p] = h]
  BY <1>1
<1> HIDE DEF idle
<1>5. terms.idle = idle /\ fresh.idle = idle /\ fresh.expires = clock + idle
      /\ fresh.id = Len(enabled) + 1
  OBVIOUS
<1>6. h.write = fresh
  BY DEF IdleProc
<1> HIDE DEF terms, fresh, h
<1>7. enabled'[Len(enabled) + 1] = terms /\ activity'[Len(enabled) + 1] = {clock}
  BY <1>2, <1>4
<1>8. InUse(enabled', activity', fresh)
  BY <1>2, <1>3, <1>5, <1>7 DEF InUse
<1>9. proc'[p] = h
  BY <1>2, <1>4
<1> QED
  BY <1>6, <1>8, <1>9

\* A renewal is a use, and what it saves lives one window beyond it.  It
\* never renews a lease of the old format, whose expiry is its ceiling.
LEMMA RenewalInUse ==
  ASSUME AInv, UseInv, NEW p \in Procs, RenewRead(p), Finds(proc[p].now),
         Renewed(Current, proc[p].now).expires > Current.expires
  PROVE  InUse(enabled', activity', Renewed(Current, proc[p].now))
<1> DEFINE now == proc[p].now
           r == Renewed(Current, now)
           l == file.lease
<1>1. /\ Held /\ l \in Lease /\ Current \in Lease /\ Current.id = l.id
      /\ InTerms(enabled, l) /\ InUse(enabled, activity, l)
      /\ activity \in Seq(SUBSET Nat) /\ Len(activity) = Len(enabled)
      /\ enabled \in Seq(Terms) /\ now \in Nat
  BY LeaseType DEF AInv, UseInv, Finds, TypeOK, Proc
<1>2. r \in Lease /\ r.id = l.id /\ r.max = Current.max /\ r.expires <= Current.max
  BY <1>1, RenewedType
<1>3. l.max # 0
  <2>1. CASE l.max = 0
    <3>1. Current.max = l.expires /\ Current.expires = l.expires
      BY <1>1, <2>1 DEF Current, Effective, Lease
    <3> QED
      BY <1>1, <1>2, <3>1 DEF Lease
  <2> QED
    BY <2>1
<1>4. Current = l
  BY <1>3 DEF Current, Effective
<1>5. l.idle # 0 /\ l.idle = enabled[l.id].idle /\ l.idle \in Nat
  BY <1>1, <1>3 DEF InUse, Lease
<1>6. r = [l EXCEPT !.expires = Least(now + l.idle, l.max)]
  BY <1>4, <1>5 DEF Renewed
<1>7. r.idle = l.idle /\ r.expires <= now + l.idle
  BY <1>1, <1>5, <1>6 DEF Lease, Least
<1>8. enabled' = enabled /\ activity' = [activity EXCEPT ![l.id] = @ \cup {now}]
  BY DEF RenewRead
<1>9. l.id \in 1..Len(activity)
  BY <1>1 DEF InTerms
<1>10. now \in activity'[l.id]
  BY <1>1, <1>8, <1>9
<1> HIDE DEF now, r, l
<1>11. InUse(enabled', activity', r)
  BY <1>2, <1>5, <1>7, <1>8, <1>10 DEF InUse
<1> QED
  BY <1>11 DEF r, now

LEMMA UseInvNext == AInv /\ UseInv /\ [Next]_vars => UseInv'
<1> SUFFICES ASSUME AInv, UseInv, [Next]_vars PROVE UseInv'
  OBVIOUS
<1>1. \A p \in Procs : Pending(p) =>
        InTerms(enabled, proc[p].write) /\ InUse(enabled, activity, proc[p].write)
  BY DEF AInv, UseInv, Pending
<1>2. Held' => InUse(enabled', activity', file'.lease)
  <2>1. ASSUME Held, file' = file PROVE InUse(enabled', activity', file'.lease)
    BY <2>1, StaysInUse DEF AInv, UseInv
  <2>2. ASSUME NEW p \in Procs, proc[p].pc = "write", file' = Stored(proc[p].write)
        PROVE  InUse(enabled', activity', file'.lease)
    <3>1. file'.lease = proc[p].write
      BY <2>2 DEF Stored
    <3> QED
      BY <1>1, <2>2, <3>1, StaysInUse DEF Pending
  <2> QED
    BY <2>1, <2>2, FileMoves
<1>3. ASSUME NEW q \in Procs, Pending(q)' PROVE InUse(enabled', activity', proc'[q].write)
  BY <1>1, <1>3, PendingMoves, StaysInUse, EnableInUse, RenewalInUse DEF AInv
<1>4. \A q \in Procs : Pending(q)' => InUse(enabled', activity', proc'[q].write)
  BY <1>3
<1> QED
  BY <1>2, <1>4 DEF UseInv

\* However many processes use a lease at once, and in whatever order their
\* renewals reach the file, it never outlives its idle window after a use.
THEOREM EveryIdleGapExpires == Spec => []IdleGapsExpire
<1>1. UseInv => IdleGapsExpire
  BY DEF UseInv, InUse, IdleGapsExpire
<1>2. Init => AInv /\ UseInv
  BY AInvInit, UseInvInit
<1>3. AInv /\ UseInv /\ [Next]_vars => (AInv /\ UseInv)'
  BY AInvNext, UseInvNext
<1> QED
  BY <1>1, <1>2, <1>3, PTL DEF Spec

-----------------------------------------------------------------------------
\* Who is about to write what, as long as the flock has not failed: a lease
\* that was written before is renewed by the flock's holder; no two processes
\* write the same lease; what is about to be written lives longer than all of
\* that lease before it.
Known(id) == \E l \in written : l.id = id
Judging(p) == proc[p].pc \in {"renewRead", "renewRemove"}

Order ==
  /\ \A p \in Procs : Judging(p) => lock = p
  /\ \A p \in Procs : Pending(p) /\ Known(proc[p].write.id) => lock = p
  /\ \A p, q \in Procs :
       Pending(p) /\ Pending(q) /\ proc[p].write.id = proc[q].write.id => p = q
  /\ \A p \in Procs : Pending(p) =>
       \A l \in written : l.id = proc[p].write.id => l.expires < proc[p].write.expires
  /\ Held => /\ file.lease \in written
             /\ \A l \in written : l.id = file.lease.id => l.expires <= file.lease.expires

OrderInv ==
  /\ \A l \in written : InTerms(enabled, l)
  /\ faults = 0 => Order

LEMMA OrderInvInit == Init => OrderInv
<1> SUFFICES ASSUME Init PROVE OrderInv
  OBVIOUS
<1>1. \A p \in Procs : ~Judging(p) /\ ~Pending(p)
  BY IdleType DEF Init, Pending, Judging
<1>2. CASE file = NoFile /\ written = {}
  BY <1>1, <1>2, EmptyType DEF OrderInv, Order, Held
<1>3. ASSUME NEW e \in TTLs \cap 1..MaxTTL, NEW old,
             old = [id |-> 1, expires |-> e, max |-> 0, idle |-> 0],
             file = Stored(old), written = {old}
      PROVE  OrderInv
  <2>1. file.lease = old /\ file.kind = "lease" /\ old.expires \in Nat
    BY <1>3, AutoApproveAssumption DEF Stored
  <2>2. InTerms(enabled, old)
    BY <2>1, AInvInit DEF AInv, Held
  <2> QED
    BY <1>1, <1>3, <2>1, <2>2 DEF OrderInv, Order
<1> QED
  BY <1>2, <1>3 DEF Init

\* What a step does to the leases written: it adds one at most, which was
\* pending and is in the file from then on.
LEMMA WrittenMoves ==
  ASSUME [Next]_vars
  PROVE  \/ written' = written /\ (Held' => Held /\ file' = file)
         \/ \E p \in Procs : /\ Write(p) /\ written' = written \cup {proc[p].write}
                             /\ file' = Stored(proc[p].write)
<1>1. CASE file' = file /\ written' = written
  BY <1>1 DEF Held
<1>2. CASE file' \in {NoFile, Blank} /\ written' = written
  BY <1>2, EmptyType DEF Held
<1> QED
  BY <1>1, <1>2 DEF Next, Enable, Disable, Start, Continue, Read, Remove, Lock,
     RenewRead, RenewRemove, Truncate, Write, Die, Tick, vars, Removing

LEMMA NoFault ==
  ASSUME TypeOK, [Next]_vars, faults' = 0
  PROVE  faults = 0 /\ ~Fault
<1>1. faults \in Nat
  BY DEF TypeOK
<1>2. faults' = faults \/ faults' = faults + 1
  BY DEF Next, Enable, Disable, Start, Continue, Read, Remove, Lock, RenewRead,
         RenewRemove, Truncate, Write, Die, Tick, Fault, vars
<1> QED
  BY <1>1, <1>2 DEF Fault

\* Without a fault, a renewal judges the lease with the flock in its hands.
LEMMA JudgingMoves ==
  ASSUME TypeOK, [Next]_vars, ~Fault, NEW q \in Procs, Judging(q)'
  PROVE  Judging(q) \/ lock' = q
<1>0. /\ proc \in [Procs -> Proc] /\ \A p \in Procs : proc[p] \in Proc
      /\ proc'[q].pc \in {"renewRead", "renewRemove"}
  BY DEF TypeOK, Judging
<1>1. CASE proc' = proc
  BY <1>0, <1>1 DEF Judging
<1>2. ASSUME NEW p \in Procs, NEW h, proc' = [proc EXCEPT ![p] = h],
             h.pc \notin {"renewRead", "renewRemove"} \/ Judging(p)
      PROVE  Judging(q)
  BY <1>0, <1>2 DEF Judging
<1>3. ASSUME NEW p \in Procs, NEW pc \in Steps, Goto(p, pc),
             pc \notin {"renewRead", "renewRemove"} \/ Judging(p)
      PROVE  Judging(q)
  <2> DEFINE h == [proc[p] EXCEPT !.pc = pc]
  <2>1. proc' = [proc EXCEPT ![p] = h] /\ h.pc = pc
    BY <1>0, <1>3, GotoType DEF Goto
  <2> HIDE DEF h
  <2> QED
    BY <1>2, <1>3, <2>1
<1>4. ASSUME NEW p \in Procs, Removing(p, IdleProc) PROVE Judging(q)
  <2>1. q # p
    BY <1>0, <1>4, RemovingType, IdleType
  <2> QED
    BY <1>0, <1>4, <2>1, RemovingType DEF Judging
<1>5. ASSUME NEW p \in Procs, proc' = [proc EXCEPT ![p] = IdleProc] PROVE Judging(q)
  BY <1>2, <1>5, IdleType
<1>6. ASSUME NEW p \in Procs, Enable(p) PROVE Judging(q)
  <2>1. PICK l : proc' = [proc EXCEPT ![p] = [IdleProc EXCEPT !.pc = "truncate", !.write = l]]
    BY <1>6 DEF Enable
  <2> DEFINE h == [IdleProc EXCEPT !.pc = "truncate", !.write = l]
  <2>2. h.pc = "truncate"
    BY DEF IdleProc
  <2> HIDE DEF h
  <2> QED
    BY <1>2, <2>1, <2>2 DEF h
<1>7. ASSUME NEW p \in Procs, Start(p) PROVE Judging(q)
  <2>1. PICK pc \in {"renew", "read", "status"} :
          proc' = [proc EXCEPT ![p] = [IdleProc EXCEPT !.pc = pc, !.now = clock]]
    BY <1>7 DEF Start
  <2> DEFINE h == [IdleProc EXCEPT !.pc = pc, !.now = clock]
  <2>2. h.pc \notin {"renewRead", "renewRemove"}
    BY DEF IdleProc
  <2> HIDE DEF h
  <2> QED
    BY <1>2, <2>1, <2>2 DEF h
<1>8. ASSUME NEW p \in Procs, Read(p) PROVE Judging(q)
  <2>1. CASE proc' = [proc EXCEPT ![p].pc = "renew", ![p].by = file.lease.id]
    <3> DEFINE h == [proc[p] EXCEPT !.pc = "renew", !.by = file.lease.id]
    <3>1. proc' = [proc EXCEPT ![p] = h] /\ h.pc = "renew"
      BY <1>0, <2>1 DEF Proc
    <3> HIDE DEF h
    <3> QED
      BY <1>2, <3>1
  <2>2. CASE Goto(p, "remove")
    BY <1>3, <2>2 DEF Steps
  <2> QED
    BY <1>5, <1>8, <2>1, <2>2 DEF Read
<1>9. ASSUME NEW p \in Procs, Lock(p) PROVE Judging(q) \/ lock' = q
  <2>1. lock' = p /\ proc' = [proc EXCEPT ![p].pc = "renewRead"]
    BY <1>9 DEF Lock, Goto
  <2> QED
    BY <1>0, <2>1 DEF Judging
<1>10. ASSUME NEW p \in Procs, RenewRead(p) PROVE Judging(q)
  <2>1. Judging(p)
    BY <1>10 DEF RenewRead, Judging
  <2>2. CASE proc' = [proc EXCEPT ![p].pc = "truncate", ![p].write = Renewed(Current, proc[p].now)]
    <3> DEFINE h == [proc[p] EXCEPT !.pc = "truncate", !.write = Renewed(Current, proc[p].now)]
    <3>1. proc' = [proc EXCEPT ![p] = h]
      BY <1>0, <2>2
    <3> HIDE DEF h
    <3> QED
      BY <1>2, <2>1, <3>1
  <2>3. CASE Goto(p, "renewRemove")
    BY <1>3, <2>1, <2>3 DEF Steps
  <2> QED
    BY <1>5, <1>10, <2>2, <2>3 DEF RenewRead
<1>11. ASSUME NEW p \in Procs, Truncate(p) PROVE Judging(q)
  <2>1. CASE Goto(p, "write")
    BY <1>3, <2>1 DEF Steps
  <2> QED
    BY <1>5, <1>11, <2>1 DEF Truncate
<1>12. ASSUME NEW p \in Procs, Write(p) \/ Die(p) PROVE Judging(q)
  BY <1>5, <1>12 DEF Write, Die
<1>13. ASSUME NEW p \in Procs, Disable(p) \/ Remove(p) \/ RenewRemove(p) PROVE Judging(q)
  BY <1>4, <1>13 DEF Disable, Remove, RenewRemove
<1>14. CASE Tick \/ UNCHANGED vars
  BY <1>1, <1>14 DEF Tick, vars
<1> QED
  BY <1>6, <1>7, <1>8, <1>9, <1>10, <1>11, <1>12, <1>13, <1>14 DEF Next, Continue

\* Without a fault, the flock stays with its holder until that is through.
LEMMA LockMoves ==
  ASSUME TypeOK, [Next]_vars, ~Fault, NEW q \in Procs, lock = q
  PROVE  lock' = q \/ proc'[q] = IdleProc
<1>0. proc \in [Procs -> Proc] /\ NoProc \notin Procs
  BY AutoApproveAssumption DEF TypeOK
<1>1. CASE lock' = lock
  BY <1>1
<1>2. ASSUME NEW p \in Procs, Unlock(p), proc' = [proc EXCEPT ![p] = IdleProc]
      PROVE  lock' = q \/ proc'[q] = IdleProc
  BY <1>0, <1>2 DEF Unlock
<1>3. ASSUME NEW p \in Procs, RenewRemove(p) PROVE lock' = q \/ proc'[q] = IdleProc
  BY <1>3, RemovingType DEF RenewRemove, Return, Unlock
<1>4. ASSUME NEW p \in Procs, Lock(p) PROVE lock' = q
  BY <1>0, <1>4 DEF Lock
<1>5. ASSUME NEW p \in Procs, RenewRead(p) \/ Truncate(p) \/ Write(p)
      PROVE  lock' = q \/ proc'[q] = IdleProc
  BY <1>1, <1>2, <1>5 DEF RenewRead, Truncate, Write, Return
<1>6. ASSUME NEW p \in Procs, Enable(p) \/ Disable(p) \/ Start(p) \/ Read(p) \/ Remove(p)
      PROVE  lock' = q
  BY <1>6 DEF Enable, Disable, Start, Read, Remove
<1>7. ASSUME NEW p \in Procs, Die(p) PROVE FALSE
  BY <1>7 DEF Die
<1> QED
  BY <1>3, <1>4, <1>5, <1>6, <1>7 DEF Next, Continue, Tick, vars

\* Nobody but the process that enables or renews moves.
LEMMA OnlyOneMoves ==
  ASSUME TypeOK, NEW p \in Procs, Enable(p) \/ RenewRead(p), NEW q \in Procs, q # p
  PROVE  proc'[q] = proc[q] /\ written' = written
<1>1. proc \in [Procs -> Proc]
  BY DEF TypeOK
<1>2. \/ \E h : proc' = [proc EXCEPT ![p] = h]
      \/ \E pc : proc' = [proc EXCEPT ![p].pc = pc]
      \/ \E l : proc' = [proc EXCEPT ![p].pc = "truncate", ![p].write = l]
  BY DEF Enable, RenewRead, Goto
<1>3. proc'[q] = proc[q]
  BY <1>1, <1>2
<1> QED
  BY <1>3 DEF Enable, RenewRead

LEMMA FreshId ==
  ASSUME TypeOK, NEW p \in Procs, Enable(p)
  PROVE  proc'[p].write.id = Len(enabled) + 1 /\ Len(enabled) \in Nat /\ written' = written
<1>1. PICK e, m, i : proc' = [proc EXCEPT ![p] = [IdleProc EXCEPT !.pc = "truncate",
                       !.write = [id |-> Len(enabled) + 1, expires |-> e, max |-> m, idle |-> i]]]
  BY DEF Enable
<1> DEFINE l == [id |-> Len(enabled) + 1, expires |-> e, max |-> m, idle |-> i]
           h == [IdleProc EXCEPT !.pc = "truncate", !.write = l]
<1>2. l.id = Len(enabled) + 1
  OBVIOUS
<1> HIDE DEF l
<1>3. h.write = l
  BY DEF IdleProc
<1>4. proc'[p] = h
  BY <1>1 DEF TypeOK, l
<1> QED
  BY <1>2, <1>3, <1>4 DEF TypeOK, Enable

LEMMA OrderNext ==
  ASSUME AInv, OrderInv, [Next]_vars, faults' = 0
  PROVE  Order'
<1>0. /\ TypeOK /\ faults = 0 /\ ~Fault /\ Order
      /\ \A l \in written : InTerms(enabled, l) /\ l \in Lease
      /\ \A p \in Procs : Pending(p) => InTerms(enabled, proc[p].write)
      /\ \A p \in Procs : proc[p] \in Proc
  BY NoFault DEF AInv, OrderInv, TypeOK, Pending
\* A process that is about to write after the step.
<1> DEFINE Kept(q) == Pending(q) /\ proc'[q].write = proc[q].write
           Renews(q) == /\ RenewRead(q) /\ Finds(proc[q].now)
                        /\ Renewed(Current, proc[q].now).expires > Current.expires
                        /\ proc'[q].write = Renewed(Current, proc[q].now)
<1>1. \A q \in Procs : Pending(q)' => Kept(q) \/ Enable(q) \/ Renews(q)
  BY <1>0, PendingMoves
<1>2. ASSUME NEW p \in Procs, Renews(p)
      PROVE  /\ Held /\ lock = p /\ proc'[p].write.id = file.lease.id
             /\ proc'[p].write.expires > file.lease.expires
             /\ file.lease \in written /\ written' = written
  <2>1. Held /\ proc[p].now \in Nat
    BY <1>0, <1>2 DEF Finds, Proc
  <2>2. Judging(p) /\ written' = written
    BY <1>2 DEF RenewRead, Judging
  <2>3. Current.expires = file.lease.expires
    BY <1>0, <2>1, LeaseType DEF Current, Effective, Lease
  <2>4. proc'[p].write.id = file.lease.id
    BY <1>0, <1>2, <2>1, LeaseType, RenewedType
  <2> QED
    BY <1>0, <1>2, <2>1, <2>2, <2>3, <2>4 DEF Order
<1>3. ASSUME NEW p \in Procs, Enable(p)
      PROVE  /\ written' = written
             /\ \A l \in written : l.id # proc'[p].write.id
             /\ \A q \in Procs : Pending(q) => proc[q].write.id # proc'[p].write.id
  BY <1>0, <1>3, FreshId DEF InTerms
<1>4. ASSUME NEW p \in Procs, Write(p) PROVE ~Pending(p)' /\ Pending(p)
  <2>1. proc'[p] = IdleProc
    BY <1>0, <1>4 DEF Write, TypeOK
  <2> QED
    BY <1>4, <2>1, IdleType DEF Pending, Write
<1>5. \A q \in Procs : Pending(q)' \/ Judging(q)' => proc'[q] # IdleProc
  BY IdleType DEF Pending, Judging
<1> HIDE DEF Renews
<1>6. ASSUME NEW q \in Procs, Judging(q)' PROVE lock' = q
  BY <1>0, <1>5, <1>6, JudgingMoves, LockMoves DEF Order
<1>7. ASSUME NEW q \in Procs, Kept(q), NEW l \in written', l.id = proc'[q].write.id, Pending(q)'
      PROVE  l \in written
  <2>1. ASSUME NEW p \in Procs, Write(p), l = proc[p].write PROVE FALSE
    <3>1. p = q
      BY <1>0, <1>4, <1>7, <2>1 DEF Order
    <3> QED
      BY <1>4, <1>7, <2>1, <3>1
  <2> QED
    BY <2>1, WrittenMoves
<1>8. ASSUME NEW q \in Procs, Pending(q)', NEW l \in written', l.id = proc'[q].write.id
      PROVE  lock' = q /\ l.expires < proc'[q].write.expires
  <2>1. CASE Kept(q)
    <3>1. l \in written
      BY <1>7, <1>8, <2>1
    <3>2. lock = q /\ l.expires < proc[q].write.expires
      BY <1>0, <1>8, <2>1, <3>1 DEF Order, Known
    <3> QED
      BY <1>0, <1>5, <1>8, <2>1, <3>2, LockMoves
  <2>2. CASE Enable(q)
    BY <1>3, <1>8, <2>2
  <2>3. CASE Renews(q)
    <3>1. /\ lock = q /\ l \in written /\ l.id = file.lease.id /\ Held
          /\ proc'[q].write.expires > file.lease.expires
      BY <1>2, <1>8, <2>3
    <3>2. l.expires <= file.lease.expires
      BY <1>0, <3>1 DEF Order
    <3>3. TypeOK'
      BY TypeNext DEF AInv
    <3>4. l.expires \in Nat /\ file.lease.expires \in Nat /\ proc'[q].write.expires \in Nat
      BY <1>0, <3>1, <3>3, LeaseType DEF Lease, TypeOK, Proc
    <3> QED
      BY <1>0, <1>5, <1>8, <3>1, <3>2, <3>4, LockMoves
  <2> QED
    BY <1>1, <1>8, <2>1, <2>2, <2>3
<1>9. ASSUME NEW p \in Procs, NEW q \in Procs, Pending(p)', Pending(q)',
             proc'[p].write.id = proc'[q].write.id
      PROVE  p = q
  <2>1. ASSUME NEW a \in Procs, NEW b \in Procs, a # b, Pending(a)', Pending(b)',
               proc'[a].write.id = proc'[b].write.id, Enable(a) \/ Renews(a)
        PROVE  FALSE
    <3>1. proc'[b] = proc[b]
      BY <1>0, <2>1, OnlyOneMoves DEF Renews
    <3>2. Pending(b)
      BY <2>1, <3>1 DEF Pending
    <3>3. CASE Enable(a)
      BY <1>3, <2>1, <3>1, <3>2, <3>3
    <3>4. CASE Renews(a)
      <4>1. Known(proc[b].write.id) /\ lock = a
        BY <1>2, <2>1, <3>1, <3>4 DEF Known
      <4> QED
        BY <1>0, <2>1, <3>2, <4>1 DEF Order
    <3> QED
      BY <2>1, <3>3, <3>4
  <2>2. CASE Kept(p) /\ Kept(q)
    BY <1>0, <1>9, <2>2 DEF Order
  <2> QED
    BY <1>1, <1>9, <2>1, <2>2
<1>10. Held' => /\ file'.lease \in written'
                /\ \A l \in written' : l.id = file'.lease.id => l.expires <= file'.lease.expires
  <2>1. ASSUME NEW p \in Procs, Write(p), written' = written \cup {proc[p].write},
               file' = Stored(proc[p].write)
        PROVE  /\ file'.lease \in written'
               /\ \A l \in written' : l.id = file'.lease.id => l.expires <= file'.lease.expires
    <3>1. file'.lease = proc[p].write
      BY <2>1 DEF Stored
    <3>2. \A l \in written : l.id = proc[p].write.id => l.expires < proc[p].write.expires
      BY <1>0, <1>4, <2>1 DEF Order
    <3>3. proc[p].write.expires \in Nat /\ \A l \in written : l.expires \in Nat
      BY <1>0 DEF Proc, Lease
    <3> QED
      BY <2>1, <3>1, <3>2, <3>3
  <2>2. CASE written' = written /\ (Held' => Held /\ file' = file)
    BY <1>0, <2>2 DEF Order
  <2> QED
    BY <2>1, <2>2, WrittenMoves
<1>11. /\ \A p \in Procs : (Judging(p) => lock = p)'
       /\ \A p \in Procs : (Pending(p) /\ Known(proc[p].write.id) => lock = p)'
       /\ \A p \in Procs : (Pending(p) =>
            \A l \in written : l.id = proc[p].write.id => l.expires < proc[p].write.expires)'
  BY <1>6, <1>8 DEF Known
<1>12. \A p, q \in Procs :
         (Pending(p) /\ Pending(q) /\ proc[p].write.id = proc[q].write.id => p = q)'
  BY <1>9
<1> QED
  BY <1>10, <1>11, <1>12 DEF Order

LEMMA OrderInvNext == AInv /\ OrderInv /\ [Next]_vars => OrderInv'
<1> SUFFICES ASSUME AInv, OrderInv, [Next]_vars PROVE OrderInv'
  OBVIOUS
<1>1. ASSUME NEW l \in written' PROVE InTerms(enabled', l)
  <2>1. l \in written \/ \E p \in Procs : Write(p) /\ l = proc[p].write
    BY WrittenMoves
  <2>2. InTerms(enabled, l)
    BY <2>1 DEF AInv, OrderInv, Write
  <2> QED
    BY <2>2, EnabledGrows
<1>2. \A l \in written' : InTerms(enabled', l)
  BY <1>1
<1>3. faults' = 0 => Order'
  BY OrderNext
<1> QED
  BY <1>2, <1>3 DEF OrderInv

\* While the flock can be taken, no renewal, however late it is written,
\* takes back what another one has saved, also beside operations that ignore
\* the flock.
THEOREM NoRenewalTakenBack == Spec => []NeverShortened
<1>1. OrderInv => NeverShortened
  BY DEF OrderInv, Order, NeverShortened
<1>2. Init => AInv /\ OrderInv
  BY AInvInit, OrderInvInit
<1>3. AInv /\ OrderInv /\ [Next]_vars => (AInv /\ OrderInv)'
  BY AInvNext, OrderInvNext
<1> QED
  BY <1>1, <1>2, <1>3, PTL DEF Spec

\* The ceiling holds for the lease of auto_approve.go and its approvals, for every value of the
\* constants: the theorems above together.
THEOREM LeaseAlwaysSound == Spec => []LeaseSound
BY AutoApproveTypeCorrect, EveryCeilingKept, EveryAutoApprovalBelowCeiling, PTL
   DEF LeaseSound
=============================================================================
