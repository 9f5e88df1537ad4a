------------------------------ MODULE AutoApprove ------------------------------
(***************************************************************************)
(* The auto-approve lease: an operator pre-authorises a short window, and  *)
(* every capbroker process that finds the lease live approves its request  *)
(* without a prompt and renews the lease.                                  *)
(*                                                                         *)
(* The lease is one file, auto-approve.lease, shared by processes.  Only   *)
(* renewals take the flock; enabling, disabling and the removal of an      *)
(* expired lease do not.  os.WriteFile truncates the file first, so others *)
(* can see it blank, and a process that dies there leaves it blank.        *)
(***************************************************************************)
EXTENDS Naturals, Sequences

CONSTANTS
  Procs,        \* capbroker processes
  TTLs,         \* --ttl values of enable
  IdleWindows,  \* --idle-window values, 0 for the default
  MaxTTL,       \* MaxAutoApproveTTL
  DefaultIdle,  \* DefaultAutoApproveIdleWindow
  NoProc,       \* nobody holds the flock
  MaxClock,     \* bound: the last instant
  MaxRequests,  \* bound: requests and status commands
  MaxOps,       \* bound: enable and disable commands
  MaxFaults     \* bound: failed file operations and killed processes

ASSUME AutoApproveAssumption ==
  /\ TTLs \subseteq Nat /\ IdleWindows \subseteq Nat /\ NoProc \notin Procs
  /\ MaxTTL \in Nat \ {0} /\ DefaultIdle \in Nat \ {0}
  /\ MaxClock \in Nat /\ MaxRequests \in Nat /\ MaxOps \in Nat /\ MaxFaults \in Nat

VARIABLES
  file,      \* auto-approve.lease
  lock,      \* the holder of the flock on auto-approve.lease.lock
  proc,      \* the processes
  enabled,   \* every lease ever enabled, in order: its terms
  activity,  \* per lease, the instants that kept it alive
  written,   \* the leases written to the file so far
  approvals, \* automatic approvals: the lease and the request's instant
  clock, requests, ops, faults

vars == <<file, lock, proc, enabled, activity, written, approvals,
          clock, requests, ops, faults>>

\* The terms of a lease; max is 0 in a lease of the format before max.
Terms == [at : Nat, max : Nat, idle : Nat]
Lease == [id : Nat, expires : Nat, max : Nat, idle : Nat]

\* No file, a file that does not parse (truncated or mixed), or a lease.
NoFile == [kind |-> "none"]
Blank == [kind |-> "blank"]
Stored(l) == [kind |-> "lease", lease |-> l]
Contents == [kind : {"none", "blank"}] \cup [kind : {"lease"}, lease : Lease]

NoLease == [id |-> 0, expires |-> 0, max |-> 0, idle |-> 0]

Steps == {"idle", "status", "read", "remove", "renew", "renewRead", "renewRemove",
          "truncate", "write"}

\* A process: its time.Now(), the lease that approves its request (0 when a
\* session does), what it is about to write and whether its open file was
\* removed.
Proc == [pc : Steps, now : Nat, by : Nat, write : Lease, unlinked : BOOLEAN]

IdleProc == [pc |-> "idle", now |-> 0, by |-> 0, write |-> NoLease, unlinked |-> FALSE]

-----------------------------------------------------------------------------
Least(a, b) == IF a < b THEN a ELSE b

Fault == faults < MaxFaults /\ faults' = faults + 1

Live(l, now) == now < l.expires /\ now < l.max

\* readAutoApproveLease: a lease without max has its expiry for one.
Effective(l) == IF l.max = 0 THEN [l EXCEPT !.max = l.expires] ELSE l

Held == file.kind = "lease"
Current == Effective(file.lease)

Finds(now) == Held /\ Live(Current, now)
FindsExpired(now) == Held /\ ~Live(Current, now)

\* A plausible bug: a renewal ignores the ceiling.
RenewedUncapped(l, now) ==
  [l EXCEPT !.expires = now + IF l.idle > 0 THEN l.idle ELSE DefaultIdle]

\* A plausible bug: a renewal extends the lease as far as it may.
RenewedToCeiling(l, now) == [l EXCEPT !.expires = l.max]

\* renewAutoApproveLeaseUnsafe: the lease it wants to write.
Renewed(l, now) ==
  [l EXCEPT !.expires = Least(now + IF l.idle > 0 THEN l.idle ELSE DefaultIdle, l.max)]

Goto(p, pc) == proc' = [proc EXCEPT ![p].pc = pc]

\* os.Remove: who has the file open writes to the removed one from now on.
Removing(p, next) ==
  /\ file' = NoFile
  /\ proc' = [q \in Procs |->
                IF q = p THEN next
                ELSE IF proc[q].pc = "write" THEN [proc[q] EXCEPT !.unlinked = TRUE]
                ELSE proc[q]]

\* The request is approved by the lease its process has read, if any.
Approving(p) ==
  approvals' = IF proc[p].by = 0 THEN approvals
               ELSE approvals \cup {[id |-> proc[p].by, now |-> proc[p].now]}

Unlock(p) == lock' = IF lock = p THEN NoProc ELSE lock

\* renewAutoApproveLease returns, and ensureApproved approves the request.
Return(p) == Unlock(p) /\ Approving(p)

-----------------------------------------------------------------------------
\* At first there is no lease, or one in the format before max.
Init ==
  /\ \/ file = NoFile /\ enabled = <<>> /\ activity = <<>> /\ written = {}
     \/ \E e \in TTLs \cap 1..MaxTTL :
          LET old == [id |-> 1, expires |-> e, max |-> 0, idle |-> 0] IN
            /\ file = Stored(old) /\ written = {old}
            /\ enabled = <<[at |-> 0, max |-> e, idle |-> e]>>
            /\ activity = <<{0}>>
  /\ lock = NoProc
  /\ proc = [p \in Procs |-> IdleProc]
  /\ approvals = {}
  /\ clock = 0 /\ requests = 0 /\ ops = 0 /\ faults = 0

\* enableAutoApproveWithIdle up to the write; idle and ttl are clamped.
Enable(p) ==
  /\ proc[p].pc = "idle" /\ ops < MaxOps /\ ops' = ops + 1
  /\ \E ttl \in TTLs, window \in IdleWindows :
       LET idle == Least(IF window > 0 THEN window ELSE DefaultIdle, ttl)
           fresh == [id |-> Len(enabled) + 1, expires |-> clock + idle,
                     max |-> clock + ttl, idle |-> idle]
       IN
       /\ 0 < ttl /\ ttl <= MaxTTL
       /\ enabled' = Append(enabled, [at |-> clock, max |-> clock + ttl, idle |-> idle])
       /\ activity' = Append(activity, {clock})
       /\ proc' = [proc EXCEPT ![p] = [IdleProc EXCEPT !.pc = "truncate", !.write = fresh]]
  /\ UNCHANGED <<file, lock, written, approvals, clock, requests, faults>>

\* disableAutoApprove.
Disable(p) ==
  /\ proc[p].pc = "idle" /\ ops < MaxOps /\ ops' = ops + 1
  /\ Removing(p, IdleProc)
  /\ UNCHANGED <<lock, enabled, activity, written, approvals, clock, requests, faults>>

\* ensureApproved of a request with a session, of one without, and
\* auto-approve status: each takes the time first.
Start(p) ==
  /\ proc[p].pc = "idle" /\ requests < MaxRequests /\ requests' = requests + 1
  /\ \E pc \in {"renew", "read", "status"} :
       proc' = [proc EXCEPT ![p] = [IdleProc EXCEPT !.pc = pc, !.now = clock]]
  /\ UNCHANGED <<file, lock, enabled, activity, written, approvals,
                 clock, ops, faults>>

\* readAutoApproveLease; without a live lease the request is prompted for.
Read(p) ==
  /\ proc[p].pc \in {"read", "status"}
  /\ \/ /\ Finds(proc[p].now) /\ proc[p].pc = "read"
        /\ proc' = [proc EXCEPT ![p].pc = "renew", ![p].by = file.lease.id]
     \/ FindsExpired(proc[p].now) /\ Goto(p, "remove")
     \/ /\ ~Held \/ (Finds(proc[p].now) /\ proc[p].pc = "status")
        /\ proc' = [proc EXCEPT ![p] = IdleProc]
  /\ UNCHANGED <<file, lock, enabled, activity, written, approvals,
                 clock, requests, ops, faults>>

\* The expired lease is removed, or whatever the file holds by now.
Remove(p) ==
  /\ proc[p].pc = "remove"
  /\ Removing(p, IdleProc)
  /\ UNCHANGED <<lock, enabled, activity, written, approvals,
                 clock, requests, ops, faults>>

\* A plausible bug: the flock is shared.
LockShared(p) ==
  /\ proc[p].pc = "renew" /\ Goto(p, "renewRead") /\ lock' = p
  /\ UNCHANGED <<file, enabled, activity, written, approvals,
                 clock, requests, ops, faults>>

\* lockAutoApproveLease; on an error the renewal goes on without the lock.
Lock(p) ==
  /\ proc[p].pc = "renew" /\ Goto(p, "renewRead")
  /\ \/ lock = NoProc /\ lock' = p /\ UNCHANGED faults
     \/ Fault /\ UNCHANGED lock
  /\ UNCHANGED <<file, enabled, activity, written, approvals,
                 clock, requests, ops>>

\* The read of renewAutoApproveLeaseUnsafe and what it decides to write.
RenewRead(p) ==
  LET now == proc[p].now
      next == Renewed(Current, now)
  IN
  /\ proc[p].pc = "renewRead"
  /\ \/ /\ Finds(now) /\ next.expires > Current.expires
        /\ proc' = [proc EXCEPT ![p].pc = "truncate", ![p].write = next]
        /\ UNCHANGED <<lock, approvals>>
     \/ /\ FindsExpired(now) /\ Goto(p, "renewRemove")
        /\ UNCHANGED <<lock, approvals>>
     \/ /\ ~Held \/ (Finds(now) /\ next.expires <= Current.expires)
        /\ proc' = [proc EXCEPT ![p] = IdleProc] /\ Return(p)
  /\ activity' = IF Finds(now) THEN [activity EXCEPT ![file.lease.id] = @ \cup {now}]
                               ELSE activity
  /\ UNCHANGED <<file, enabled, written, clock, requests, ops, faults>>

RenewRemove(p) ==
  /\ proc[p].pc = "renewRemove"
  /\ Removing(p, IdleProc) /\ Return(p)
  /\ UNCHANGED <<enabled, activity, written, clock, requests, ops, faults>>

\* os.WriteFile opens the file with O_CREATE and O_TRUNC; a failure ends it.
Truncate(p) ==
  /\ proc[p].pc = "truncate"
  /\ \/ Goto(p, "write") /\ file' = Blank /\ UNCHANGED <<lock, approvals, faults>>
     \/ Fault /\ proc' = [proc EXCEPT ![p] = IdleProc] /\ Return(p) /\ UNCHANGED file
  /\ UNCHANGED <<enabled, activity, written, clock, requests, ops>>

\* The content arrives, or a part of it.  Over another content it may leave
\* a mix of both.
Write(p) ==
  /\ proc[p].pc = "write"
  /\ \/ proc[p].unlinked /\ UNCHANGED <<file, written, faults>>
     \/ /\ ~proc[p].unlinked /\ UNCHANGED faults
        /\ file' = Stored(proc[p].write) /\ written' = written \cup {proc[p].write}
     \/ /\ ~proc[p].unlinked /\ file' = Blank /\ UNCHANGED written
        /\ (Held /\ UNCHANGED faults) \/ Fault
  /\ proc' = [proc EXCEPT ![p] = IdleProc] /\ Return(p)
  /\ UNCHANGED <<enabled, activity, clock, requests, ops>>

\* A process is killed; the kernel releases its flock.
Die(p) ==
  /\ proc[p].pc # "idle" /\ Fault
  /\ proc' = [proc EXCEPT ![p] = IdleProc]
  /\ lock' = IF lock = p THEN NoProc ELSE lock
  /\ UNCHANGED <<file, enabled, activity, written, approvals,
                 clock, requests, ops>>

Tick ==
  /\ clock < MaxClock /\ clock' = clock + 1
  /\ UNCHANGED <<file, lock, proc, enabled, activity, written, approvals,
                 requests, ops, faults>>

Continue(p) ==
  Read(p) \/ Remove(p) \/ Lock(p) \/ RenewRead(p) \/ RenewRemove(p) \/ Truncate(p) \/ Write(p)

Next == \/ \E p \in Procs : Enable(p) \/ Disable(p) \/ Start(p) \/ Continue(p) \/ Die(p)
        \/ Tick

Spec == Init /\ [][Next]_vars

-----------------------------------------------------------------------------
\* Every variable holds a value of its kind, and the flock is held only
\* within a renewal.
TypeOK ==
  /\ file \in Contents
  /\ lock \in Procs \cup {NoProc}
  /\ proc \in [Procs -> Proc]
  /\ lock # NoProc => proc[lock].pc \in {"renewRead", "renewRemove", "truncate", "write"}
  /\ enabled \in Seq(Terms)
  /\ activity \in Seq(SUBSET Nat) /\ Len(activity) = Len(enabled)
  /\ written \subseteq Lease
  /\ approvals \subseteq [id : Nat, now : Nat]
  /\ clock \in Nat /\ requests \in Nat /\ ops \in Nat /\ faults \in Nat

\* "the lease cannot live longer than this": however many processes renew,
\* remove, enable or die at once, the file never holds a lease that lives
\* past the ceiling set when it was enabled.
CeilingKept ==
  Held => LET terms == enabled[file.lease.id] IN
            /\ file.lease.id \in 1..Len(enabled)
            /\ Current.expires <= terms.max /\ Current.max = terms.max
            /\ terms.max <= terms.at + MaxTTL

\* A request is approved without a prompt only at an instant before the
\* ceiling of a lease an operator enabled, whatever the file holds by then.
ApprovedBelowCeiling ==
  \A a \in approvals : a.id \in 1..Len(enabled) /\ a.now < enabled[a.id].max

\* The ceiling holds for the lease and for everything approved under it, with
\* writers that do not take the lock.
LeaseSound == TypeOK /\ CeilingKept /\ ApprovedBelowCeiling

\* "idle gaps expire it within minutes": a lease lives at most its idle
\* window longer than its last use, also when uses are written out of order.
IdleGapsExpire ==
  Held => \E a \in activity[file.lease.id] :
            file.lease.expires <= a + enabled[file.lease.id].idle

\* "concurrent renewals cannot race and clobber each other's bumps": unless
\* the lock fails, a renewal never takes back what another one wrote.
NeverShortened ==
  Held /\ faults = 0 =>
    \A l \in written : l.id = file.lease.id => l.expires <= file.lease.expires
=============================================================================
