------------------------------ MODULE StateFile ------------------------------
(***************************************************************************)
(* How capbroker keeps a list in a JSON file: load it, change it, write it *)
(* to a temporary file of a fixed name, rename that over the file.         *)
(* Locked: remote-requests.json, whose callers are goroutines of one       *)
(* daemon under a mutex.  Not Locked: grants.json, which the daemon's      *)
(* deciders and the operator's commands change with no lock, all of them   *)
(* through one grants.json.tmp.  A behaviour is about one of the two.      *)
(*                                                                         *)
(* A file is a sequence of blocks: its entries, then End.  A write starts  *)
(* at offset 0, so that the rest of a longer file stays behind it; a write *)
(* that ends early (a full disk, a kill) leaves the blocks it got to.      *)
(* Entries have one length here, so that such a file may still parse.      *)
(***************************************************************************)
EXTENDS Naturals, Sequences, FiniteSets

CONSTANTS
  Procs,      \* callers: goroutines, and processes when there is no lock
  Nobody,     \* holds the mutex when nobody does
  NoMutex,    \* stands for the mutex of a file that has none
  MaxCalls,   \* bound: calls
  MaxFaults   \* bound: deaths and failing file operations

ASSUME StateFileAssumption ==
  /\ IsFiniteSet(Procs) /\ Nobody \notin Procs
  /\ NoMutex \notin Procs \cup {Nobody}
  /\ MaxCalls \in Nat /\ MaxFaults \in Nat

VARIABLES
  call,     \* the callers
  mutex,    \* remoteStore.mu, if the file has it
  disk,     \* the content of each inode
  path,     \* the inode the file's name leads to, NoInode if it is missing
  tmp,      \* the same for the temporary name
  expired,  \* entries that have expired
  stored,   \* entries whose creation was reported as done
  lone,     \* callers whose save met no other save since it opened its file
  met,      \* two saves have overlapped
  calls, faults

files == <<disk, path, tmp>>
vars == <<call, mutex, disk, path, tmp, expired, stored, lone, met, calls, faults>>

End == [id |-> 0, rev |-> 0]
Entry == [id : 1..MaxCalls, rev : {0, 1}]
NoInode == 0
Inodes == 1..(Cardinality(Procs) + 2)

Locked == mutex # NoMutex

\* The operations of the request store, and of grants.json.
StoreOps == {"create", "update"}
SessionOps == {"createGrant", "revoke", "revokeAll"}
Creations == {"create", "createGrant"}

Idle == [pc |-> "idle", op |-> "create", id |-> 0, data |-> <<>>, fd |-> NoInode]

Saving == {p \in Procs : call[p].pc \in {"write", "rename"}}

-----------------------------------------------------------------------------
\* What json.Unmarshal accepts: a list and nothing behind it.
Parses(blocks) ==
  /\ blocks # <<>> /\ blocks[Len(blocks)] = End
  /\ \A i \in 1..(Len(blocks) - 1) : blocks[i] # End

Entries(blocks) == SubSeq(blocks, 1, Len(blocks) - 1)

Missing == path = NoInode
Whole == Missing \/ Parses(disk[path])
Blocks == IF Missing THEN <<>> ELSE disk[path]
Content == IF Missing THEN <<>> ELSE Entries(disk[path])

\* A write at offset 0.
Over(old, data) == data \o SubSeq(old, Len(data) + 1, Len(old))

\* The elements of a list at these places, in their order.
Sublist(list, places) ==
  [n \in 1..Cardinality(places) |->
     list[CHOOSE i \in places : Cardinality(places \cap 1..i) = n]]

Alive(list) == Sublist(list, {i \in DOMAIN list : list[i].id \notin expired})
Without(list, id) == Sublist(list, {i \in DOMAIN list : list[i].id # id})
Revised(list, id) == [i \in DOMAIN list |-> IF list[i].id = id THEN [list[i] EXCEPT !.rev = 1] ELSE list[i]]

\* The list a call saves: createGrant prunes what has expired,
\* remoteStore.create does not.
Changed(op, list, id) ==
  CASE op = "create"      -> Append(list, [id |-> id, rev |-> 0])
    [] op = "createGrant" -> Alive(Append(list, [id |-> id, rev |-> 0]))
    [] op = "update"      -> Revised(list, id)
    [] op = "revoke"      -> Without(list, id)

\* An update callback refuses an entry that is decided; the store refuses one
\* that is not there.
Refused(op, list, id) ==
  op = "update" /\ ~\E i \in DOMAIN list : list[i].id = id /\ list[i].rev = 0

-----------------------------------------------------------------------------
\* The call returns to its caller; its deferred Unlock gives the mutex back.
Return(p) ==
  /\ call' = [call EXCEPT ![p] = Idle]
  /\ mutex' = IF mutex = p THEN Nobody ELSE mutex

\* A file operation that fails, or the end of the caller's process.
Fault == faults < MaxFaults /\ faults' = faults + 1

\* A plausible bug: an error returns without giving the mutex back.
FailHolding(p) == Fault /\ call' = [call EXCEPT ![p] = Idle] /\ UNCHANGED mutex

Fail(p) == Fault /\ Return(p)

Init ==
  /\ call = [p \in Procs |-> Idle] /\ mutex \in {Nobody, NoMutex}
  /\ disk = [i \in Inodes |-> <<>>] /\ path = NoInode /\ tmp = NoInode
  /\ expired = {} /\ stored = {} /\ lone = {} /\ met = FALSE
  /\ calls = 0 /\ faults = 0

\* A call of create (the request store's, or createGrant), update or
\* revokeGrants begins.  revokeGrants of all saves null without a load.
Begin(p) ==
  /\ call[p].pc = "idle" /\ calls < MaxCalls /\ calls' = calls + 1
  /\ \E op \in IF Locked THEN StoreOps ELSE SessionOps, id \in 1..MaxCalls :
       /\ IF op \in Creations THEN id = calls' ELSE id <= calls
       /\ op = "revokeAll" => id = 1
       /\ call' = [call EXCEPT ![p] =
            [Idle EXCEPT !.pc = IF Locked THEN "lock" ELSE IF op = "revokeAll" THEN "open" ELSE "load",
                         !.op = op, !.id = id, !.data = <<End>>]]
  /\ UNCHANGED <<mutex, files, expired, stored, lone, met, faults>>

\* A plausible bug: the load and the save are not under the mutex.
LockNothing(p) ==
  /\ call[p].pc = "lock"
  /\ call' = [call EXCEPT ![p].pc = "load"]
  /\ UNCHANGED <<mutex, files, expired, stored, lone, met, calls, faults>>

Lock(p) ==
  /\ call[p].pc = "lock" /\ mutex = Nobody
  /\ mutex' = p /\ call' = [call EXCEPT ![p].pc = "load"]
  /\ UNCHANGED <<files, expired, stored, lone, met, calls, faults>>

\* loadGrants, loadLocked, and the change in memory.
Load(p) ==
  LET c == call[p] IN
  /\ c.pc = "load"
  /\ IF ~Whole \/ Refused(c.op, Content, c.id)
     THEN Return(p)
     ELSE /\ call' = [call EXCEPT ![p].pc = "open", ![p].data = Append(Changed(c.op, Content, c.id), End)]
          /\ UNCHANGED mutex
  /\ UNCHANGED <<files, expired, stored, lone, met, calls, faults>>

\* An inode that no name and no open file leads to.
FreeInode == CHOOSE i \in Inodes : i \notin {path, tmp} \cup {call[p].fd : p \in Procs}

\* A plausible bug: the temporary file is opened without O_TRUNC.
OpenKeeping(p) ==
  /\ call[p].pc = "open"
  /\ LET i == IF tmp = NoInode THEN FreeInode ELSE tmp IN
       /\ tmp' = i /\ disk' = IF tmp = NoInode THEN [disk EXCEPT ![i] = <<>>] ELSE disk
       /\ call' = [call EXCEPT ![p].pc = "write", ![p].fd = i]
  /\ lone' = IF Saving = {} THEN {p} ELSE {}
  /\ met' = (met \/ Saving # {})
  /\ UNCHANGED <<mutex, path, expired, stored, calls, faults>>

\* os.WriteFile opens the temporary file, emptied if it is there.
Open(p) ==
  /\ call[p].pc = "open"
  /\ LET i == IF tmp = NoInode THEN FreeInode ELSE tmp IN
       /\ tmp' = i /\ disk' = [disk EXCEPT ![i] = <<>>]
       /\ call' = [call EXCEPT ![p].pc = "write", ![p].fd = i]
  /\ lone' = IF Saving = {} THEN {p} ELSE {}
  /\ met' = (met \/ Saving # {})
  /\ UNCHANGED <<mutex, path, expired, stored, calls, faults>>

Write(p) ==
  LET c == call[p] IN
  /\ c.pc = "write"
  /\ disk' = [disk EXCEPT ![c.fd] = Over(@, c.data)]
  /\ call' = [call EXCEPT ![p].pc = "rename"]
  /\ UNCHANGED <<mutex, path, tmp, expired, stored, lone, met, calls, faults>>

\* A plausible bug: the error of a write that ended early is not looked at.
IgnoreShortWrite(p) ==
  LET c == call[p] IN
  /\ c.pc = "write" /\ Fault
  /\ \E n \in 0..(Len(c.data) - 1) : disk' = [disk EXCEPT ![c.fd] = Over(@, SubSeq(c.data, 1, n))]
  /\ call' = [call EXCEPT ![p].pc = "rename"]
  /\ UNCHANGED <<mutex, path, tmp, expired, stored, lone, met, calls>>

\* The write ends early, with an error or with its process.
ShortWrite(p) ==
  LET c == call[p] IN
  /\ c.pc = "write" /\ Fail(p)
  /\ \E n \in 0..(Len(c.data) - 1) : disk' = [disk EXCEPT ![c.fd] = Over(@, SubSeq(c.data, 1, n))]
  /\ UNCHANGED <<path, tmp, expired, stored, lone, met, calls>>

\* os.Rename, which fails when another caller has renamed the file away.
Rename(p) ==
  /\ call[p].pc = "rename" /\ Return(p)
  /\ IF tmp = NoInode
     THEN UNCHANGED <<path, tmp, stored>>
     ELSE /\ path' = tmp /\ tmp' = NoInode
          /\ stored' = stored \cup IF call[p].op \in Creations THEN {call[p].id} ELSE {}
  /\ UNCHANGED <<disk, expired, lone, met, calls, faults>>

\* A load, an open or a rename fails; the caller gets the error.
FailedCall(p) ==
  /\ call[p].pc \in {"load", "open", "rename"} /\ Fail(p)
  /\ UNCHANGED <<files, expired, stored, lone, met, calls>>

\* The caller's process dies, perhaps with its file renamed and nobody told.
\* The daemon takes all its goroutines with it.
Die(p) ==
  LET gone == IF Locked THEN Procs ELSE {p} IN
  /\ call[p].pc \notin {"idle", "lock"} /\ Fault
  /\ \/ UNCHANGED <<path, tmp>>
     \/ /\ call[p].pc = "rename" /\ tmp # NoInode
        /\ path' = tmp /\ tmp' = NoInode
  /\ call' = [q \in Procs |-> IF q \in gone THEN Idle ELSE call[q]]
  /\ mutex' = IF Locked THEN Nobody ELSE mutex
  /\ UNCHANGED <<disk, expired, stored, lone, met, calls>>

\* A session's ExpiresAt passes.
Expire(id) ==
  /\ ~Locked /\ id \in 1..calls \ expired
  /\ expired' = expired \cup {id}
  /\ UNCHANGED <<call, mutex, files, stored, lone, met, calls, faults>>

Step(p) == Lock(p) \/ Load(p) \/ Open(p) \/ Write(p) \/ Rename(p)

Next == \/ \E p \in Procs : Begin(p) \/ Step(p) \/ ShortWrite(p) \/ FailedCall(p) \/ Die(p)
        \/ \E id \in 1..MaxCalls : Expire(id)

\* sync.Mutex starves no waiter; a goroutine with work to do runs.
Fairness == \A p \in Procs : WF_vars(Step(p)) /\ SF_vars(Lock(p))

Spec == Init /\ [][Next]_vars /\ Fairness
-----------------------------------------------------------------------------
Call == [pc : {"idle", "lock", "load", "open", "write", "rename"},
         op : StoreOps \cup SessionOps, id : 0..MaxCalls, data : Seq(Entry \cup {End}), fd : Inodes \cup {NoInode}]

\* Every variable holds a value of its kind; the mutex, where there is one, is
\* held exactly by the caller inside it, and only operations of its file use
\* it; the file and the temporary file are never one file.
TypeOK ==
  /\ call \in [Procs -> Call]
  /\ mutex \in Procs \cup {Nobody, NoMutex}
  /\ \A p \in Procs : Locked => /\ mutex = p <=> call[p].pc \notin {"idle", "lock"}
                               /\ call[p].op \in StoreOps
  /\ disk \in [Inodes -> Seq(Entry \cup {End})]
  /\ path \in Inodes \cup {NoInode} /\ tmp \in Inodes \cup {NoInode}
  /\ path = tmp => path = NoInode
  /\ expired \subseteq 1..MaxCalls /\ stored \subseteq 1..MaxCalls
  /\ lone \subseteq Procs /\ met \in BOOLEAN
  /\ calls \in 0..MaxCalls /\ faults \in 0..MaxFaults

\* The request store is an AtomicFile: its mutex makes load, change and save
\* one update of the current list, a crash or an error anywhere leaves the old
\* list or the new one, and what a client was told is stored is never lost.
\* grants.json promises nothing of the kind and maps to the empty list.
ListView == INSTANCE AtomicFile WITH
  content <- IF Locked THEN Content ELSE <<>>,
  stored <- IF Locked THEN stored ELSE {},
  Ids <- 1..MaxCalls
ImplementsAtomicFile == ListView!Spec

\* Every call returns, whatever fails on its way: on the request store the
\* mutex is given back on all of them.
CallReturns == \A p \in Procs : (call[p].pc # "idle") ~> (call[p].pc = "idle")

\* As long as no two saves overlap, also grants.json changes only to the whole
\* list a caller has built, in one step, whatever a failing or killed save has
\* left in the temporary file.  This is the save of LocalAuthority.
WholeUnlessOverlapped ==
  [][~met' /\ Blocks' # Blocks => \E p \in Procs : call[p].pc = "rename" /\ Blocks' = call[p].data]_vars

\* Whatever overlapping saves have done to grants.json, a save that meets no
\* other and no fault leaves exactly its list in effect.
LoneSaveTakesEffect ==
  [][\A p \in lone : call[p].pc = "rename" /\ call'[p].pc = "idle" /\ faults' = faults
                      => Blocks' = call[p].data]_vars
=============================================================================
