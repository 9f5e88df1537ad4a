---------------------------- MODULE UpgradeIntake ----------------------------
(***************************************************************************)
(* createRequest of upgrades as a whole: the two guards of UpgradeGuards,  *)
(* then the request store, which may fail after both guards have been      *)
(* spent.  Stored requests are decided by operators and outlive a crash    *)
(* of the daemon; the guards do not.                                       *)
(***************************************************************************)
EXTENDS UpgradeGuards

CONSTANTS
  Nothing,    \* the handler has nothing to store
  MaxStored,  \* bound: stored requests
  MaxFaults   \* bound: saves that fail

ASSUME UpgradeIntakeAssumption ==
  Nothing \notin [key : Keys, at : Nat, run : Nat] /\ MaxStored \in Nat /\ MaxFaults \in Nat

VARIABLES
  job,      \* what a handler that passed both guards is about to store
  store,    \* the stored upgrade requests, pending and decided
  faults

intakeVars == <<vars, job, store, faults>>

Request == [key : Keys, at : Nat, run : Nat, status : {"pending", "decided"}]

IntakeInit == Init /\ job = [p \in Posts |-> Nothing] /\ store = <<>> /\ faults = 0

\* A handler takes a request when it has answered the one before.
Receive(p) ==
  /\ job[p] = Nothing /\ Post(p)
  /\ UNCHANGED <<job, store, faults>>

CheckQuota(p) == Allow(p) /\ UNCHANGED <<job, store, faults>>

\* A plausible bug: the justification is marked when the request is stored.
CheckDuplicateOnly(p) ==
  LET k == post[p].key IN
  /\ post[p].pc = "mark" /\ Answer(p)
  /\ IF \E e \in seen : e.key = k /\ clock <= e.now + DedupWindow
     THEN UNCHANGED <<job, passed>>
     ELSE /\ job' = [job EXCEPT ![p] = [key |-> k, at |-> clock, run |-> crashes]]
          /\ passed' = [passed EXCEPT ![k] = {clock}]
  /\ UNCHANGED <<spent, history, advice, clock, crashes, seen, store, faults>>

\* markIfFresh, and the answer to a duplicate.
CheckDuplicate(p) ==
  LET k == post[p].key IN
  /\ Mark(p)
  /\ job' = IF \E e \in seen' \ seen : e.key = k
            THEN [job EXCEPT ![p] = [key |-> k, at |-> clock, run |-> crashes]] ELSE job
  /\ UNCHANGED <<store, faults>>

\* store.create: 201, or 500 with both guards spent.
Store(p) ==
  /\ job[p] # Nothing /\ job' = [job EXCEPT ![p] = Nothing]
  /\ \/ /\ Len(store) < MaxStored
        /\ store' = Append(store, [key |-> job[p].key, at |-> job[p].at, run |-> job[p].run, status |-> "pending"])
        /\ UNCHANGED faults
     \/ faults < MaxFaults /\ faults' = faults + 1 /\ UNCHANGED store
  /\ UNCHANGED vars

\* decidePermissionUpgrade, either way.
Decide(i) ==
  /\ store[i].status = "pending" /\ store' = [store EXCEPT ![i].status = "decided"]
  /\ UNCHANGED <<vars, job, faults>>

DaemonCrash ==
  /\ Crash /\ job' = [p \in Posts |-> Nothing] /\ UNCHANGED <<store, faults>>

TimePasses == Tick /\ UNCHANGED <<job, store, faults>>

IntakeNext == \/ \E p \in Posts : Receive(p) \/ CheckQuota(p) \/ CheckDuplicate(p) \/ Store(p)
              \/ \E i \in DOMAIN store : Decide(i)
              \/ DaemonCrash \/ TimePasses

IntakeSpec == IntakeInit /\ [][IntakeNext]_intakeVars
-----------------------------------------------------------------------------
\* Every variable of the intake holds a value of its kind; what a handler is
\* about to store is of this daemon run and past both guards.
IntakeTypeOK ==
  /\ job \in [Posts -> [key : Keys, at : Nat, run : Nat] \cup {Nothing}]
  /\ \A p \in Posts : job[p] # Nothing => post[p].pc = "idle" /\ job[p].run = crashes
  /\ store \in Seq(Request) /\ Len(store) <= MaxStored
  /\ faults \in 0..MaxFaults

\* What the operator is asked to review in one window stays within the quota
\* for each daemon run, though failing saves, a crash and handlers that
\* overtake each other come in between.
StoredWithinQuota ==
  \A i \in DOMAIN store :
    Cardinality({j \in DOMAIN store :
      /\ store[j].key[1] = store[i].key[1] /\ store[j].run = store[i].run
      /\ store[j].at >= store[i].at /\ store[j].at + 2 * Skew < store[i].at + Window}) <= Limit

\* Two requests with one justification are never both stored in one daemon run
\* when they came within the dedup window.
StoredApart ==
  \A i, j \in DOMAIN store :
    i # j /\ store[i].key = store[j].key /\ store[i].run = store[j].run /\ store[i].at <= store[j].at
      => store[j].at + Skew > store[i].at + DedupWindow

\* A justification that is stored, or about to be, is one the cache refuses
\* until its window is over, for handlers that do not read an early clock.
StoredIsRefused ==
  \A r \in {store[i] : i \in DOMAIN store} \cup ({job[p] : p \in Posts} \ {Nothing}) :
    r.run = crashes /\ clock + Skew <= r.at + DedupWindow => \E e \in seen : e.key = r.key

\* What is stored keeps to the quota and the dedup window, and its repetition
\* is refused, though a save fails or the guards are lost in a restart.
IntakeSound == IntakeTypeOK /\ StoredWithinQuota /\ StoredApart /\ StoredIsRefused
=============================================================================
