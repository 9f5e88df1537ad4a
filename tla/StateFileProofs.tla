---------------------------- MODULE StateFileProofs ----------------------------
(***************************************************************************)
(* Proofs about StateFile, for every number of callers, calls and faults:  *)
(* with its mutex it is an AtomicFile (SInv); without, a save that meets   *)
(* no other still takes effect whole (UnlockedInv).                        *)
(***************************************************************************)
EXTENDS StateFile, Functions, FiniteSetTheorems, SequenceTheorems, WellFoundedInduction, TLAPS

Block == Entry \cup {End}

\* Within the mutex; beyond the load; with the temporary file open.
Inside(p) == call[p].pc \notin {"idle", "lock"}
Loaded(p) == call[p].pc \in {"open", "write", "rename"}
Writing(p) == call[p].pc \in {"write", "rename"}

Creating(p) == call[p].pc # "idle" /\ call[p].op = "create"

\* The file parses; no two of its entries have one id, and each id was given
\* to a call.
ListOK ==
  /\ Content \in Seq(Entry) /\ (Missing \/ Parses(disk[path]))
  /\ \A i, j \in DOMAIN Content : Content[i].id = Content[j].id => i = j
  /\ \A i \in DOMAIN Content : Content[i].id <= calls

\* A caller has a file open exactly between its open and its rename, and that
\* is the temporary file; what it saves is its change of the current list.
CallOK(p) ==
  /\ IF Writing(p) THEN call[p].fd = tmp /\ tmp # NoInode ELSE call[p].fd = NoInode
  /\ Loaded(p) => /\ call[p].data = Append(Changed(call[p].op, Content, call[p].id), End)
                  /\ ~Refused(call[p].op, Content, call[p].id)
  /\ call[p].pc = "write" => disk[tmp] = <<>>
  /\ call[p].pc = "rename" => disk[tmp] = call[p].data

\* Every creation has an id of its own, which is not in the list yet.
IdsOK ==
  /\ \A p \in Procs : Creating(p) =>
       /\ call[p].id \in 1..calls
       /\ \A i \in DOMAIN Content : Content[i].id # call[p].id
  /\ \A p, q \in Procs : Creating(p) /\ Creating(q) /\ call[p].id = call[q].id => p = q

SInv == Locked /\ TypeOK /\ ListOK /\ IdsOK /\ \A p \in Procs : CallOK(p)

-----------------------------------------------------------------------------
\* The blocks of a file that holds a list.
LEMMA FileOfList ==
  ASSUME NEW list \in Seq(Entry)
  PROVE  /\ Append(list, End) \in Seq(Block) /\ Append(list, End) # <<>>
         /\ Parses(Append(list, End)) /\ Entries(Append(list, End)) = list
<1> DEFINE b == Append(list, End)
<1>1. list \in Seq(Block) /\ End \in Block
  BY DEF Block
<1>2. /\ b \in Seq(Block) /\ b # <<>> /\ Len(b) = Len(list) + 1 /\ Len(list) \in Nat
      /\ \A i \in 1..Len(list) : b[i] = list[i]
      /\ b[Len(list) + 1] = End
  BY <1>1, AppendProperties
<1>3. \A i \in 1..Len(list) : list[i] \in Entry /\ list[i] # End
  <2>1. \A i \in 1..Len(list) : list[i] \in Entry
    OBVIOUS
  <2>2. \A e \in Entry : e # End
    BY StateFileAssumption DEF Entry, End
  <2> QED
    BY <2>1, <2>2
<1> HIDE DEF b
<1>4. Parses(b)
  BY <1>2, <1>3 DEF Parses
<1>5. Entries(b) = list
  <2>1. Entries(b) = SubSeq(b, 1, Len(list))
    BY <1>2 DEF Entries
  <2>2. \A i \in 1..Len(list) : b[i] \in Entry
    BY <1>2, <1>3
  <2>3. /\ SubSeq(b, 1, Len(list)) \in Seq(Entry)
        /\ Len(SubSeq(b, 1, Len(list))) = IF 1 <= Len(list) THEN Len(list) - 1 + 1 ELSE 0
        /\ \A i \in 1..(Len(list) - 1 + 1) : SubSeq(b, 1, Len(list))[i] = b[1 + i - 1]
    BY <1>2, <2>2, SubSeqProperties
  <2> DEFINE s == SubSeq(b, 1, Len(list))
  <2>4. s \in Seq(Entry) /\ Len(s) = Len(list)
    BY <1>2, <2>3
  <2>5. \A i \in 1..Len(list) : s[i] = list[i]
    BY <1>2, <2>3
  <2> HIDE DEF s
  <2>6. s = list
    BY <2>4, <2>5, SeqEqual
  <2> QED
    BY <2>1, <2>6 DEF s
<1> QED
  BY <1>2, <1>4, <1>5 DEF b

LEMMA OverType ==
  ASSUME NEW old \in Seq(Block), NEW data \in Seq(Block)
  PROVE  /\ Over(old, data) \in Seq(Block)
         /\ Over(<<>>, data) = data
<1>1. Len(old) \in Nat /\ Len(data) \in Nat
  BY LenProperties
<1>2. SubSeq(old, Len(data) + 1, Len(old)) \in Seq(Block)
  <2>1. \A i \in (Len(data) + 1)..Len(old) : old[i] \in Block
    BY <1>1, ElementOfSeq
  <2> QED
    BY <1>1, <2>1, SubSeqProperties
<1>3. Over(old, data) \in Seq(Block)
  BY <1>2, ConcatProperties DEF Over
<1>4. SubSeq(<<>>, Len(data) + 1, Len(<<>>)) = <<>>
  BY <1>1, EmptySeq, SubSeqEmpty
<1>5. Over(<<>>, data) = data \o <<>>
  BY <1>4 DEF Over
<1> QED
  BY <1>3, <1>5, ConcatEmptySeq

LEMMA PartType ==
  ASSUME NEW data \in Seq(Block), NEW n \in 0..(Len(data) - 1)
  PROVE  SubSeq(data, 1, n) \in Seq(Block)
<1>1. Len(data) \in Nat /\ n \in Int
  BY LenProperties
<1>2. \A i \in 1..n : data[i] \in Block
  BY <1>1, ElementOfSeq
<1> QED
  BY <1>1, <1>2, SubSeqProperties

\* What a creation and an update make of a list.
LEMMA ChangedList ==
  ASSUME NEW list \in Seq(Entry), NEW op \in {"create", "update"}, NEW id,
         op = "create" => id \in 1..MaxCalls
  PROVE  /\ Changed(op, list, id) \in Seq(Entry)
         /\ op = "create" => Changed(op, list, id) = Append(list, [id |-> id, rev |-> 0])
         /\ op = "update" => /\ Changed(op, list, id) = Revised(list, id)
                             /\ DOMAIN Revised(list, id) = DOMAIN list
                             /\ \A i \in DOMAIN list : Revised(list, id)[i].id = list[i].id
<1>1. CASE op = "create"
  <2>1. Changed(op, list, id) = Append(list, [id |-> id, rev |-> 0])
    BY <1>1 DEF Changed
  <2>2. [id |-> id, rev |-> 0] \in Entry
    BY <1>1 DEF Entry
  <2>3. Append(list, [id |-> id, rev |-> 0]) \in Seq(Entry)
    BY <2>2, AppendProperties
  <2> QED
    BY <1>1, <2>1, <2>3
<1>2. CASE op = "update"
  <2>1. Changed(op, list, id) = Revised(list, id)
    BY <1>2 DEF Changed
  <2>2. DOMAIN list = 1..Len(list) /\ Len(list) \in Nat
    BY LenProperties
  <2>3. \A i \in DOMAIN list : list[i] \in Entry
    BY <2>2, ElementOfSeq
  <2> DEFINE new(i) == IF list[i].id = id THEN [list[i] EXCEPT !.rev = 1] ELSE list[i]
  <2>4. \A i \in DOMAIN list : new(i) \in Entry /\ new(i).id = list[i].id
    BY <2>3 DEF Entry
  <2>5. Revised(list, id) = [i \in 1..Len(list) |-> new(i)]
    BY <2>2 DEF Revised
  <2> HIDE DEF new
  <2>6. Revised(list, id) \in [1..Len(list) -> Entry]
    BY <2>2, <2>4, <2>5
  <2>7. Revised(list, id) \in Seq(Entry)
    BY <2>2, <2>6
  <2> QED
    BY <1>2, <2>1, <2>2, <2>4, <2>5, <2>7
<1> QED
  BY <1>1, <1>2

-----------------------------------------------------------------------------
\* A set of numbers that is not empty has a least one.
LEMMA LeastNumber ==
  ASSUME NEW S \in SUBSET Nat, S # {}
  PROVE  \E m \in S : \A n \in S : m <= n
<1>1. IsWellFoundedOn(OpToRel(<, Nat), Nat)
  BY NatLessThanWellFounded
<1>2. PICK m \in S : \A n \in S : ~(<<n, m>> \in OpToRel(<, Nat))
  BY <1>1, WFMin, Zenon
<1>3. \A n \in S : ~(n < m)
  BY <1>2 DEF OpToRel
<1> QED
  BY <1>3

\* Each rank up to the number of the places is that of one of them.
LEMMA PlaceOfRank ==
  ASSUME NEW len \in Nat, NEW places \in SUBSET (1..len), NEW n \in 1..Cardinality(places)
  PROVE  \E i \in places : Cardinality(places \cap 1..i) = n
<1> DEFINE upto(m) == places \cap 1..m
           T == {m \in Nat : Cardinality(upto(m)) >= n}
<1>1. ASSUME NEW m \in Nat PROVE IsFiniteSet(upto(m)) /\ Cardinality(upto(m)) \in Nat
  <2>1. IsFiniteSet(1..m)
    BY FS_Interval
  <2> QED
    BY <2>1, FS_Subset, FS_CardinalityType
<1>2. len \in T
  <2>1. upto(len) = places
    OBVIOUS
  <2>2. Cardinality(places) \in Nat
    BY <1>1, <2>1
  <2> QED
    BY <2>1, <2>2
<1>3. PICK m \in T : \A k \in T : m <= k
  <2>1. T \in SUBSET Nat /\ T # {}
    BY <1>2
  <2> HIDE DEF T
  <2> QED
    BY <2>1, LeastNumber
<1>4. m # 0
  <2>1. upto(0) = {}
    OBVIOUS
  <2> QED
    BY <2>1, FS_EmptySet
<1>5. m - 1 \in Nat /\ ~(m - 1 \in T)
  BY <1>3, <1>4
<1>6. Cardinality(upto(m - 1)) < n /\ Cardinality(upto(m)) >= n
  <2>1. upto(len) = places
    OBVIOUS
  <2>2. Cardinality(places) \in Nat
    BY <1>1, <2>1
  <2>3. n \in Nat
    BY <2>2
  <2>4. Cardinality(upto(m)) >= n /\ ~(Cardinality(upto(m - 1)) >= n)
    BY <1>3, <1>5
  <2>5. Cardinality(upto(m - 1)) \in Nat
    BY <1>1, <1>5
  <2> HIDE DEF upto
  <2> QED
    BY <2>3, <2>4, <2>5
<1>7. upto(m) = IF m \in places THEN upto(m - 1) \cup {m} ELSE upto(m - 1)
  BY <1>5
<1>8. m \notin upto(m - 1)
  BY <1>5
<1> HIDE DEF upto, T
<1>9. m \in places
  BY <1>1, <1>5, <1>6, <1>7
<1>10. Cardinality(upto(m)) = Cardinality(upto(m - 1)) + 1
  BY <1>1, <1>5, <1>7, <1>8, <1>9, FS_AddElement
<1>11. Cardinality(upto(m)) = n
  BY <1>1, <1>5, <1>6, <1>10
<1> QED
  BY <1>9, <1>11 DEF upto

\* A list keeps its kind when elements are taken out of it.
LEMMA SublistType ==
  ASSUME NEW list \in Seq(Entry), NEW places \in SUBSET DOMAIN list
  PROVE  Sublist(list, places) \in Seq(Entry)
<1> DEFINE n == Cardinality(places)
           at(j) == CHOOSE i \in places : Cardinality(places \cap 1..i) = j
<1>1. Len(list) \in Nat /\ DOMAIN list = 1..Len(list)
  BY LenProperties
<1>2. n \in Nat
  <2>1. IsFiniteSet(1..Len(list))
    BY <1>1, FS_Interval
  <2>2. IsFiniteSet(places)
    BY <1>1, <2>1, FS_Subset
  <2> QED
    BY <2>2, FS_CardinalityType
<1>3. ASSUME NEW j \in 1..n PROVE list[at(j)] \in Entry
  <2>1. at(j) \in places
    BY <1>1, PlaceOfRank
  <2> HIDE DEF at
  <2> QED
    BY <1>1, <2>1, ElementOfSeq
<1>4. Sublist(list, places) = [j \in 1..n |-> list[at(j)]]
  BY DEF Sublist
<1> HIDE DEF at, n
<1>5. Sublist(list, places) \in [1..n -> Entry]
  BY <1>3, <1>4
<1> QED
  BY <1>2, <1>5

-----------------------------------------------------------------------------
\* The parts of TypeOK that every step has to keep.
CallsOK ==
  /\ call \in [Procs -> Call]
  /\ mutex \in Procs \cup {Nobody}
  /\ \A p \in Procs : mutex = p <=> Inside(p)
  /\ \A p \in Procs : call[p].op \in StoreOps

LEMMA IdleType == Idle \in Call /\ Idle.op \in StoreOps /\ Idle.pc = "idle" /\ Idle.fd = NoInode
<1>1. <<>> \in Seq(Entry \cup {End})
  BY EmptySeq
<1> QED
  BY <1>1, StateFileAssumption DEF Idle, Call, NoInode, StoreOps

LEMMA CallsType == Locked /\ TypeOK => CallsOK
BY DEF TypeOK, CallsOK, Inside, Locked

\* One caller moves on: within the mutex or outside it, into it or out of it.
LEMMA CallsNext ==
  ASSUME Locked, TypeOK, NEW p \in Procs, NEW h \in Call, call' = [call EXCEPT ![p] = h],
         h.op \in StoreOps,
         \/ mutex' = mutex /\ (Inside(p) <=> h.pc \notin {"idle", "lock"})
         \/ mutex = Nobody /\ mutex' = p /\ h.pc \notin {"idle", "lock"}
         \/ Inside(p) /\ mutex' = Nobody /\ h.pc \in {"idle", "lock"}
  PROVE  /\ CallsOK' /\ call'[p] = h
         /\ \A q \in Procs \ {p} : call'[q] = call[q]
<1>1. CallsOK
  BY CallsType
<1>2. call'[p] = h /\ \A q \in Procs \ {p} : call'[q] = call[q]
  BY <1>1 DEF CallsOK
<1>3. call' \in [Procs -> Call]
  BY <1>1 DEF CallsOK
<1>4. ASSUME NEW q \in Procs PROVE mutex' = q <=> call'[q].pc \notin {"idle", "lock"}
  BY <1>1, <1>2, StateFileAssumption DEF CallsOK, Inside
<1>5. mutex' \in Procs \cup {Nobody}
  BY <1>1 DEF CallsOK
<1>6. \A q \in Procs : call'[q].op \in StoreOps
  BY <1>1, <1>2 DEF CallsOK
<1> QED
  BY <1>2, <1>3, <1>4, <1>5, <1>6 DEF CallsOK, Inside

LEMMA ReturnCalls ==
  ASSUME Locked, TypeOK, NEW p \in Procs, Inside(p), Return(p)
  PROVE  /\ CallsOK' /\ mutex' = Nobody /\ call'[p] = Idle
         /\ \A q \in Procs \ {p} : call'[q] = call[q]
<1>1. CallsOK
  BY CallsType
<1>2. mutex = p /\ mutex' = Nobody /\ call' = [call EXCEPT ![p] = Idle]
  BY <1>1 DEF CallsOK, Return
<1> QED
  BY <1>2, IdleType, CallsNext

\* Callers, the file and the temporary file together lead to fewer inodes than
\* there are.
LEMMA FreeInodeOK ==
  ASSUME tmp = NoInode
  PROVE  /\ FreeInode \in Inodes /\ FreeInode # path /\ FreeInode # NoInode
         /\ \A p \in Procs : call[p].fd # FreeInode
<1> DEFINE fds == {call[p].fd : p \in Procs}
           n == Cardinality(Procs)
<1>1. n \in Nat
  BY FS_CardinalityType, StateFileAssumption
<1>2. IsFiniteSet(fds) /\ Cardinality(fds) <= n
  <2> DEFINE f == [p \in Procs |-> call[p].fd]
  <2>1. f \in Surjection(Procs, fds)
    BY DEF Surjection
  <2> QED
    BY <2>1, FS_Surjection, StateFileAssumption
<1>3. /\ IsFiniteSet(fds \cup {path}) /\ Cardinality(fds \cup {path}) <= n + 1
      /\ Cardinality(fds \cup {path}) \in Nat
  <2>1. Cardinality(fds) \in Nat
    BY <1>2, FS_CardinalityType
  <2> HIDE DEF fds
  <2>2. /\ IsFiniteSet(fds \cup {path})
        /\ Cardinality(fds \cup {path})
             = IF path \in fds THEN Cardinality(fds) ELSE Cardinality(fds) + 1
    BY <1>2, FS_AddElement
  <2> QED
    BY <1>1, <1>2, <2>1, <2>2
<1>4. Cardinality(Inodes) = n + 2 /\ \A i \in Inodes : i # NoInode
  BY <1>1, FS_Interval DEF Inodes, NoInode
<1>5. \E i \in Inodes : i \notin fds \cup {path}
  <2> SUFFICES ASSUME Inodes \subseteq fds \cup {path} PROVE FALSE
    OBVIOUS
  <2>1. Cardinality(Inodes) <= Cardinality(fds \cup {path})
    BY <1>3, FS_Subset
  <2> QED
    BY <1>1, <1>3, <1>4, <2>1
<1>6. \E i \in Inodes : i \notin {path, tmp} \cup {call[p].fd : p \in Procs}
  BY <1>4, <1>5
<1>7. FreeInode \in Inodes /\ FreeInode \notin {path, tmp} \cup {call[p].fd : p \in Procs}
  BY <1>6 DEF FreeInode
<1> QED
  BY <1>4, <1>7

-----------------------------------------------------------------------------
\* Nobody else is within the mutex, or has a file open.
LEMMA Alone ==
  ASSUME Locked, SInv, NEW p \in Procs, Inside(p), NEW q \in Procs, q # p
  PROVE  ~Inside(q) /\ call[q].fd = NoInode
<1>1. CallsOK /\ CallOK(q)
  BY CallsType DEF SInv
<1>2. ~Inside(q)
  BY <1>1 DEF CallsOK
<1> QED
  BY <1>1, <1>2 DEF CallOK, Inside, Writing

LEMMA OutsideOK ==
  ASSUME NEW q \in Procs, ~Inside(q)', call'[q].fd = NoInode
  PROVE  CallOK(q)'
BY DEF CallOK, Inside, Writing, Loaded

LEMMA ListKept ==
  ASSUME SInv, path' = path, path # NoInode => disk'[path] = disk[path],
         calls' \in {calls, calls + 1}
  PROVE  Content' = Content /\ ListOK' /\ Missing' = Missing
<1>1. Missing' = Missing
  BY DEF Missing
<1>2. Content' = Content
  BY <1>1 DEF Content, Missing
<1>3. \A i \in DOMAIN Content : Content[i].id <= calls'
  <2>1. /\ Content \in Seq(Entry) /\ calls \in Nat
        /\ \A i \in DOMAIN Content : Content[i].id <= calls
    BY StateFileAssumption DEF SInv, ListOK, TypeOK
  <2>2. \A i \in DOMAIN Content : Content[i].id \in Nat
    <3>1. \A i \in DOMAIN Content : Content[i] \in Entry
      BY <2>1, LenProperties, ElementOfSeq
    <3> QED
      BY <3>1, StateFileAssumption DEF Entry
  <2> QED
    BY <2>1, <2>2
<1>4. Missing' \/ Parses(disk'[path'])
  BY <1>1 DEF SInv, ListOK, Missing
<1> QED
  BY <1>1, <1>2, <1>3, <1>4 DEF SInv, ListOK

LEMMA IdsKept ==
  ASSUME SInv, Content' = Content, calls' = calls,
         \A q \in Procs : Creating(q)' => Creating(q) /\ call'[q].id = call[q].id
  PROVE  IdsOK'
<1>1. ASSUME NEW q \in Procs, Creating(q)'
      PROVE  call'[q].id \in 1..calls' /\ \A i \in DOMAIN Content' : Content'[i].id # call'[q].id
  BY <1>1 DEF SInv, IdsOK
<1>2. ASSUME NEW q \in Procs, NEW r \in Procs, Creating(q)', Creating(r)',
             call'[q].id = call'[r].id
      PROVE  q = r
  BY <1>2 DEF SInv, IdsOK
<1> QED
  BY <1>1, <1>2 DEF IdsOK

\* A caller within the mutex returns and leaves the list as it is.
LEMMA Leaves ==
  ASSUME Locked, SInv, NEW p \in Procs, Inside(p), Return(p), calls' = calls,
         path' = path, path # NoInode => disk'[path] = disk[path]
  PROVE  CallsOK' /\ ListOK' /\ IdsOK' /\ \A q \in Procs : CallOK(q)'
<1>1. /\ CallsOK' /\ call'[p] = Idle
      /\ \A q \in Procs \ {p} : call'[q] = call[q]
  BY ReturnCalls DEF SInv
<1>2. Content' = Content /\ ListOK'
  BY ListKept
<1>3. \A q \in Procs : Creating(q)' => Creating(q) /\ call'[q].id = call[q].id
  BY <1>1, IdleType DEF Creating
<1>4. IdsOK'
  BY <1>2, <1>3, IdsKept
<1>5. ASSUME NEW q \in Procs PROVE CallOK(q)'
  <2>1. CASE q = p
    BY <1>1, <2>1, IdleType, OutsideOK DEF Inside
  <2>2. CASE q # p
    BY <1>1, <2>2, Alone, OutsideOK DEF Inside
  <2> QED
    BY <2>1, <2>2
<1> QED
  BY <1>1, <1>2, <1>4, <1>5

\* A caller within the mutex moves on there, and leaves the list as it is.
LEMMA Advances ==
  ASSUME Locked, SInv, NEW p \in Procs, Inside(p), calls' = calls, mutex' = mutex,
         NEW h \in Call, call' = [call EXCEPT ![p] = h], h.pc \notin {"idle", "lock"},
         h.op = call[p].op, h.id = call[p].id, expired' = expired,
         path' = path, path # NoInode => disk'[path] = disk[path]
  PROVE  /\ CallsOK' /\ ListOK' /\ IdsOK' /\ call'[p] = h /\ Content' = Content
         /\ CallOK(p)' => \A q \in Procs : CallOK(q)'
<1>o. h.op \in StoreOps
  BY CallsType DEF SInv, CallsOK
<1>1. /\ CallsOK' /\ call'[p] = h
      /\ \A q \in Procs \ {p} : call'[q] = call[q]
  BY <1>o, CallsNext DEF SInv
<1>2. Content' = Content /\ ListOK'
  BY ListKept
<1>3. \A q \in Procs : Creating(q)' => Creating(q) /\ call'[q].id = call[q].id
  BY <1>1 DEF Creating, Inside
<1>4. IdsOK'
  BY <1>2, <1>3, IdsKept
<1>5. ASSUME NEW q \in Procs, q # p PROVE CallOK(q)'
  BY <1>1, <1>5, Alone, OutsideOK DEF Inside
<1> QED
  BY <1>1, <1>2, <1>4, <1>5

\* A caller outside the mutex moves, and touches no file.
LEMMA Waits ==
  ASSUME Locked, SInv, NEW p \in Procs, ~Inside(p), CallsOK',
         \A q \in Procs \ {p} : call'[q] = call[q],
         call'[p].fd = NoInode, call'[p].pc \in {"lock", "load"},
         calls' \in {calls, calls + 1}, expired' = expired, files' = files
  PROVE  /\ ListOK' /\ Content' = Content
         /\ \A q \in Procs : CallOK(q)'
<1>1. Content' = Content /\ ListOK'
  BY ListKept DEF files
<1>2. ASSUME NEW q \in Procs, q # p PROVE CallOK(q)'
  <2>1. CallOK(q)
    BY DEF SInv
  <2>2. Changed(call'[q].op, Content', call'[q].id)
          = Changed(call'[q].op, Content, call'[q].id)
    BY <1>1
  <2>3. call'[q] = call[q] /\ tmp' = tmp /\ disk' = disk
    BY <1>2 DEF files
  <2>4. /\ Writing(q)' = Writing(q) /\ Loaded(q)' = Loaded(q)
        /\ Changed(call[q].op, Content, call[q].id)' = Changed(call[q].op, Content, call[q].id)
        /\ Refused(call[q].op, Content, call[q].id)' = Refused(call[q].op, Content, call[q].id)
    BY <1>1, <2>3 DEF Writing, Loaded, Changed, Refused, Revised, Alive, Without
  <2> QED
    BY <2>1, <2>3, <2>4 DEF CallOK
<1>3. CallOK(p)'
  BY DEF CallOK, Writing, Loaded
<1> QED
  BY <1>1, <1>2, <1>3

\* A caller that is done with its temporary file puts it in the file's place:
\* the file then holds its change of the list.
LEMMA Publishes ==
  ASSUME Locked, SInv, NEW p \in Procs, call[p].pc = "rename",
         path' = tmp, disk' = disk, calls' = calls,
         \A q \in Procs : Creating(q)' => q # p /\ Creating(q) /\ call'[q].id = call[q].id
  PROVE  /\ ListOK' /\ IdsOK' /\ tmp # NoInode
         /\ Content' = Changed(call[p].op, Content, call[p].id)
         /\ ~Refused(call[p].op, Content, call[p].id)
         /\ call[p].op \in {"create", "update"}
         /\ call[p].op = "create" => Creating(p) /\ call[p].id \in 1..MaxCalls
<1> DEFINE op == call[p].op
           id == call[p].id
           new == Changed(op, Content, id)
<1>1. /\ TypeOK /\ ListOK /\ IdsOK /\ CallOK(p) /\ call[p] \in Call /\ calls \in 0..MaxCalls
      /\ Content \in Seq(Entry)
  BY DEF SInv, TypeOK, ListOK
<1>2. op \in {"create", "update"}
  BY <1>1, CallsType DEF CallsOK, StoreOps
<1>3. op = "create" => Creating(p) /\ id \in 1..calls /\ id \in 1..MaxCalls
                       /\ \A i \in DOMAIN Content : Content[i].id # id
  BY <1>1, StateFileAssumption DEF Creating, IdsOK
<1>4. new \in Seq(Entry)
  BY <1>1, <1>2, <1>3, ChangedList
<1>5. tmp # NoInode /\ disk[tmp] = Append(new, End) /\ ~Refused(op, Content, id)
  BY <1>1 DEF CallOK, Writing, Loaded
<1>6. Parses(disk[tmp]) /\ Entries(disk[tmp]) = new
  BY <1>4, <1>5, FileOfList
<1>7. ~Missing' /\ Parses(disk'[path'])
  BY <1>5, <1>6 DEF Missing
<1>8. Content' = new
  <2>1. Content' = Entries(disk'[path'])
    BY <1>7 DEF Content
  <2> QED
    BY <1>6, <2>1
<1>l. DOMAIN Content = 1..Len(Content) /\ Len(Content) \in Nat
  BY <1>1, LenProperties
\* The new list holds the old ids and, of a creation, the new one.
<1>9. /\ \A i, j \in DOMAIN new : new[i].id = new[j].id => i = j
      /\ \A i \in DOMAIN new : \/ \E j \in DOMAIN Content : new[i].id = Content[j].id
                               \/ op = "create" /\ new[i].id = id
  <2>1. CASE op = "create"
    <3> DEFINE e == [id |-> id, rev |-> 0]
    <3>1. new = Append(Content, e) /\ e \in Entry
      <4>1. op = "create" => id \in 1..MaxCalls
        BY <1>3
      <4>2. new = Append(Content, e)
        BY <1>1, <1>2, <2>1, <4>1, ChangedList
      <4>3. e \in Entry
        BY <1>3, <2>1 DEF Entry
      <4> QED
        BY <4>2, <4>3
    <3>2. e.id = id
      OBVIOUS
    <3> HIDE DEF e, new
    <3>3. /\ DOMAIN new = 1..(Len(Content) + 1) /\ new[Len(Content) + 1] = e
          /\ \A i \in 1..Len(Content) : new[i] = Content[i]
      BY <1>1, <1>4, <3>1, AppendProperties, LenProperties
    <3>4. \A i \in DOMAIN new : i \in DOMAIN Content \/ i = Len(Content) + 1
      BY <1>l, <3>3
    <3> QED
      BY <1>1, <1>3, <1>l, <2>1, <3>2, <3>3, <3>4 DEF ListOK
  <2>2. CASE op = "update"
    <3>1. DOMAIN new = DOMAIN Content /\ \A i \in DOMAIN Content : new[i].id = Content[i].id
      BY <1>1, <1>2, <2>2, ChangedList
    <3> HIDE DEF new
    <3> QED
      BY <1>1, <3>1 DEF ListOK
  <2> QED
    BY <1>2, <2>1, <2>2
<1>10. ListOK'
  <2>1. \A i \in DOMAIN new : new[i].id <= calls
    BY <1>1, <1>3, <1>9 DEF ListOK
  <2> QED
    BY <1>4, <1>7, <1>8, <1>9, <2>1 DEF ListOK
<1>11. IdsOK'
  <2>1. ASSUME NEW q \in Procs, Creating(q)'
        PROVE  /\ call'[q].id \in 1..calls'
               /\ \A i \in DOMAIN Content' : Content'[i].id # call'[q].id
    <3>1. /\ q # p /\ Creating(q) /\ call'[q].id = call[q].id
          /\ call[q].id \in 1..calls /\ \A j \in DOMAIN Content : Content[j].id # call[q].id
      BY <1>1, <2>1 DEF IdsOK
    <3>2. op = "create" => id # call[q].id
      BY <1>1, <1>3, <3>1 DEF IdsOK
    <3> QED
      BY <1>8, <1>9, <3>1, <3>2
  <2>2. ASSUME NEW q \in Procs, NEW r \in Procs, Creating(q)', Creating(r)',
               call'[q].id = call'[r].id
        PROVE  q = r
    BY <1>1, <2>2 DEF IdsOK
  <2> QED
    BY <2>1, <2>2 DEF IdsOK
<1> QED
  BY <1>2, <1>3, <1>5, <1>8, <1>10, <1>11

-----------------------------------------------------------------------------
FilesOK ==
  /\ disk \in [Inodes -> Seq(Block)]
  /\ path \in Inodes \cup {NoInode} /\ tmp \in Inodes \cup {NoInode}
  /\ path = tmp => path = NoInode

CountsOK ==
  /\ expired \subseteq 1..MaxCalls /\ stored \subseteq 1..MaxCalls
  /\ lone \subseteq Procs /\ met \in BOOLEAN
  /\ calls \in 0..MaxCalls /\ faults \in 0..MaxFaults

LEMMA TypeParts == Locked /\ TypeOK <=> CallsOK /\ FilesOK /\ CountsOK
BY StateFileAssumption DEF TypeOK, CallsOK, FilesOK, CountsOK, Inside, Block, Locked

LEMMA Inductive ==
  ASSUME CallsOK', FilesOK', CountsOK', ListOK', IdsOK', \A q \in Procs : CallOK(q)'
  PROVE  SInv'
<1>1. Locked' /\ TypeOK'
  BY TypeParts, PTL
<1> QED
  BY <1>1 DEF SInv

LEMMA FaultCounted == ASSUME CountsOK, Fault PROVE faults' \in 0..MaxFaults
BY StateFileAssumption DEF CountsOK, Fault

LEMMA SInvInit == Locked /\ Init => SInv
<1> SUFFICES ASSUME Locked, Init PROVE SInv
  OBVIOUS
<1>1. CallsOK
  BY IdleType, StateFileAssumption DEF Init, CallsOK, Inside, Locked
<1>2. FilesOK
  <2>1. <<>> \in Seq(Block)
    BY EmptySeq
  <2> QED
    BY <2>1 DEF Init, FilesOK
<1>3. CountsOK
  <2>1. expired = {} /\ stored = {} /\ lone = {} /\ calls = 0 /\ faults = 0
    BY DEF Init
  <2>2. met \in BOOLEAN
    BY DEF Init
  <2>3. 0 \in 0..MaxCalls /\ 0 \in 0..MaxFaults
    BY StateFileAssumption
  <2> QED
    BY <2>1, <2>2, <2>3 DEF CountsOK
<1>4. Content = <<>> /\ Missing
  BY DEF Init, Content, Missing
<1>5. ListOK
  BY <1>4, EmptySeq DEF ListOK
<1>6. \A p \in Procs : call[p] = Idle
  BY DEF Init
<1>7. IdsOK
  BY <1>6, IdleType DEF IdsOK, Creating
<1>8. \A p \in Procs : CallOK(p)
  BY <1>6, IdleType DEF CallOK, Writing, Loaded
<1> QED
  BY <1>1, <1>2, <1>3, <1>5, <1>7, <1>8, TypeParts DEF SInv

LEMMA BeginKeeps ==
  ASSUME Locked, SInv, NEW p \in Procs, Begin(p)
  PROVE  SInv' /\ Content' = Content /\ stored' = stored
<1>1. PICK op \in StoreOps, id \in 1..MaxCalls :
        /\ IF op = "create" THEN id = calls' ELSE id <= calls
        /\ call' = [call EXCEPT ![p] =
             [Idle EXCEPT !.pc = "lock", !.op = op, !.id = id, !.data = <<End>>]]
  BY DEF Begin, StoreOps, SessionOps, Creations
<1> DEFINE h == [Idle EXCEPT !.pc = "lock", !.op = op, !.id = id, !.data = <<End>>]
<1>2. /\ h \in Call /\ h.pc = "lock" /\ h.op = op /\ h.id = id /\ h.fd = NoInode
  <2>1. <<End>> \in Seq(Entry \cup {End})
    OBVIOUS
  <2>2. id \in 0..MaxCalls
    OBVIOUS
  <2> DEFINE end == <<End>>
  <2> HIDE DEF end
  <2>3. end \in Seq(Entry \cup {End})
    BY <2>1 DEF end
  <2>4. h = [Idle EXCEPT !.pc = "lock", !.op = op, !.id = id, !.data = end]
    BY DEF end
  <2> HIDE DEF h
  <2> QED
    BY <2>2, <2>3, <2>4, IdleType DEF Call, StoreOps
<1>3. /\ TypeOK /\ CallsOK /\ FilesOK /\ CountsOK /\ IdsOK /\ ListOK
      /\ ~Inside(p) /\ ~Creating(p)
      /\ calls' = calls + 1 /\ calls < MaxCalls /\ UNCHANGED <<mutex, files, expired, stored, lone, met, faults>>
  BY TypeParts DEF SInv, Begin, Inside, Creating
<1> HIDE DEF h
<1>o. call' = [call EXCEPT ![p] = h] /\ h.op \in StoreOps /\ mutex' = mutex
  BY <1>1, <1>2, <1>3 DEF h
<1>4. CallsOK' /\ call'[p] = h /\ \A q \in Procs \ {p} : call'[q] = call[q]
  BY <1>2, <1>3, <1>o, CallsNext
<1>5. ListOK' /\ Content' = Content /\ \A q \in Procs : CallOK(q)'
  BY <1>2, <1>3, <1>4, Waits
<1>6. FilesOK' /\ CountsOK'
  BY <1>3, StateFileAssumption DEF FilesOK, CountsOK, files
<1>7. calls \in Nat /\ \A i \in DOMAIN Content : Content[i].id # calls + 1
  <2>1. calls \in Nat
    BY <1>3 DEF CountsOK
  <2>2. \A i \in DOMAIN Content : Content[i].id <= calls
    BY <1>3 DEF ListOK
  <2>3. calls <= calls /\ ~(calls + 1 <= calls)
    BY <2>1
  <2> QED
    BY <2>1, <2>2, <2>3
<1>8. ASSUME NEW q \in Procs, Creating(q)'
      PROVE  /\ q # p => Creating(q) /\ call'[q].id = call[q].id /\ call[q].id \in 1..calls
             /\ q = p => call'[q].id = calls + 1
             /\ call'[q].id \in 1..calls'
             /\ \A i \in DOMAIN Content' : Content'[i].id # call'[q].id
  <2>1. CASE q = p
    BY <1>1, <1>2, <1>3, <1>4, <1>5, <1>7, <1>8, <2>1 DEF Creating
  <2>2. CASE q # p
    <3>1. Creating(q) /\ call'[q] = call[q]
      BY <1>4, <1>8, <2>2 DEF Creating
    <3> QED
      BY <1>3, <1>5, <1>7, <2>2, <3>1 DEF IdsOK
  <2> QED
    BY <2>1, <2>2
<1>9. IdsOK'
  <2>1. ASSUME NEW q \in Procs, NEW r \in Procs, Creating(q)', Creating(r)',
               call'[q].id = call'[r].id
        PROVE  q = r
    BY <1>3, <1>7, <1>8, <2>1 DEF IdsOK
  <2> QED
    BY <1>8, <2>1 DEF IdsOK
<1> QED
  BY <1>3, <1>4, <1>5, <1>6, <1>9, Inductive

LEMMA LockKeeps ==
  ASSUME Locked, SInv, NEW p \in Procs, Lock(p)
  PROVE  SInv' /\ Content' = Content /\ stored' = stored
<1> DEFINE h == [call[p] EXCEPT !.pc = "load"]
<1>1. /\ TypeOK /\ CallsOK /\ FilesOK /\ CountsOK /\ CallOK(p) /\ call[p] \in Call
      /\ call[p].pc = "lock" /\ mutex = Nobody /\ mutex' = p
      /\ call' = [call EXCEPT ![p] = h]
      /\ UNCHANGED <<files, expired, stored, lone, met, calls, faults>>
  BY TypeParts DEF SInv, Lock, CallsOK
<1>2. h \in Call /\ h.pc = "load" /\ h.op = call[p].op /\ h.id = call[p].id /\ h.fd = NoInode
  BY <1>1 DEF Call, CallOK, Writing
<1> HIDE DEF h
<1>o. h.op \in StoreOps
  BY <1>1, <1>2 DEF CallsOK
<1>3. CallsOK' /\ call'[p] = h /\ \A q \in Procs \ {p} : call'[q] = call[q]
  BY <1>1, <1>2, <1>o, CallsNext
<1>4. ListOK' /\ Content' = Content /\ \A q \in Procs : CallOK(q)'
  BY <1>1, <1>2, <1>3, Waits DEF Inside
<1>5. \A q \in Procs : Creating(q)' => Creating(q) /\ call'[q].id = call[q].id
  BY <1>1, <1>2, <1>3 DEF Creating
<1>6. IdsOK'
  BY <1>1, <1>4, <1>5, IdsKept
<1>7. FilesOK' /\ CountsOK'
  BY <1>1 DEF FilesOK, CountsOK, files
<1> QED
  BY <1>1, <1>3, <1>4, <1>6, <1>7, Inductive

LEMMA LoadKeeps ==
  ASSUME Locked, SInv, NEW p \in Procs, Load(p)
  PROVE  SInv' /\ Content' = Content /\ stored' = stored
<1> DEFINE new == Changed(call[p].op, Content, call[p].id)
           h == [call[p] EXCEPT !.pc = "open", !.data = Append(new, End)]
<1>1. /\ TypeOK /\ CallsOK /\ FilesOK /\ CountsOK /\ ListOK /\ IdsOK /\ CallOK(p) /\ call[p] \in Call
      /\ call[p].pc = "load" /\ Inside(p)
      /\ path' = path /\ disk' = disk /\ tmp' = tmp
      /\ UNCHANGED <<files, expired, stored, lone, met, calls, faults>>
  BY TypeParts DEF SInv, Load, CallsOK, Inside, files
<1>2. FilesOK' /\ CountsOK'
  BY <1>1 DEF FilesOK, CountsOK
<1>3. CASE ~Whole \/ Refused(call[p].op, Content, call[p].id)
  <2>1. Return(p)
    BY <1>3 DEF Load
  <2>2. CallsOK' /\ ListOK' /\ IdsOK' /\ \A q \in Procs : CallOK(q)'
    BY <1>1, <2>1, Leaves
  <2>3. Content' = Content
    BY <1>1, ListKept
  <2> QED
    BY <1>1, <1>2, <2>2, <2>3, Inductive
<1>4. CASE ~(~Whole \/ Refused(call[p].op, Content, call[p].id))
  <2>1. call' = [call EXCEPT ![p] = h] /\ mutex' = mutex
    BY <1>1, <1>4 DEF Load, CallsOK
  <2>2. /\ call[p].op \in {"create", "update"}
        /\ call[p].op = "create" => call[p].id \in 1..MaxCalls
    <3>1. call[p].op \in {"create", "update"}
      BY <1>1, CallsType DEF CallsOK, StoreOps
    <3>2. call[p].op = "create" => call[p].id \in 1..calls
      BY <1>1 DEF Creating, IdsOK, Inside
    <3> QED
      BY <1>1, <3>1, <3>2, StateFileAssumption DEF CountsOK
  <2>3. new \in Seq(Entry)
    BY <1>1, <2>2, ChangedList DEF ListOK
  <2>4. Append(new, End) \in Seq(Entry \cup {End})
    BY <2>3, FileOfList DEF Block
  <2> HIDE DEF new
  <2>5. /\ h \in Call /\ h.pc = "open" /\ h.op = call[p].op /\ h.id = call[p].id
        /\ h.fd = NoInode /\ h.data = Append(new, End)
    BY <1>1, <2>4 DEF Call, CallOK, Writing
  <2> HIDE DEF h
  <2>6. /\ CallsOK' /\ ListOK' /\ IdsOK' /\ call'[p] = h /\ Content' = Content
        /\ CallOK(p)' => \A q \in Procs : CallOK(q)'
    BY <1>1, <2>1, <2>5, Advances
  <2>7. CallOK(p)'
    <3>1. call'[p].op = call[p].op /\ call'[p].id = call[p].id /\ expired' = expired
      BY <1>1, <2>5, <2>6
    <3>2. /\ Changed(call[p].op, Content, call[p].id)' = new
          /\ ~Refused(call[p].op, Content, call[p].id)'
      BY <1>4, <2>6, <3>1 DEF new, Changed, Refused, Revised, Alive, Without
    <3> QED
      BY <2>5, <2>6, <3>2 DEF CallOK, Writing, Loaded
  <2> QED
    BY <1>1, <1>2, <2>6, <2>7, Inductive
<1> QED
  BY <1>3, <1>4

\* The same caller, further on in its save of the same list.
LEMMA StillSaves ==
  ASSUME Locked, SInv, NEW p \in Procs, Loaded(p), Content' = Content, expired' = expired,
         call'[p].op = call[p].op, call'[p].id = call[p].id, call'[p].data = call[p].data
  PROVE  /\ call'[p].data = Append(Changed(call[p].op, Content, call[p].id)', End)
         /\ ~Refused(call[p].op, Content, call[p].id)'
<1>1. CallOK(p)
  BY DEF SInv
<1>2. Changed(call[p].op, Content, call[p].id)' = Changed(call[p].op, Content, call[p].id)
  BY DEF Changed, Revised, Alive, Without
<1>3. Refused(call[p].op, Content, call[p].id)' = Refused(call[p].op, Content, call[p].id)
  BY DEF Refused
<1> QED
  BY <1>1, <1>2, <1>3 DEF CallOK

LEMMA OpenKeeps ==
  ASSUME Locked, SInv, NEW p \in Procs, Open(p)
  PROVE  SInv' /\ Content' = Content /\ stored' = stored
<1> DEFINE i == IF tmp = NoInode THEN FreeInode ELSE tmp
           h == [call[p] EXCEPT !.pc = "write", !.fd = i]
<1>1. /\ TypeOK /\ CallsOK /\ FilesOK /\ CountsOK /\ CallOK(p) /\ call[p] \in Call
      /\ call[p].pc = "open" /\ Inside(p) /\ Loaded(p)
      /\ tmp' = i /\ disk' = [disk EXCEPT ![i] = <<>>] /\ call' = [call EXCEPT ![p] = h]
      /\ lone' = (IF Saving = {} THEN {p} ELSE {}) /\ met' = (met \/ Saving # {})
      /\ mutex' = mutex /\ path' = path /\ expired' = expired /\ stored' = stored
      /\ calls' = calls /\ faults' = faults
  BY TypeParts DEF SInv, Open, CallsOK, Inside, Loaded
<1>2. i \in Inodes /\ i # path /\ i # NoInode
  <2>2. CASE tmp = NoInode
    BY <1>1, <2>2, FreeInodeOK
  <2>3. CASE tmp # NoInode
    BY <1>1, <2>3 DEF FilesOK
  <2> QED
    BY <2>2, <2>3
<1> HIDE DEF i
<1>3. /\ h \in Call /\ h.pc = "write" /\ h.op = call[p].op /\ h.id = call[p].id
      /\ h.fd = i /\ h.data = call[p].data
  BY <1>1, <1>2 DEF Call
<1> HIDE DEF h
<1>4. path # NoInode => disk'[path] = disk[path]
  BY <1>1, <1>2 DEF FilesOK
<1>5. /\ CallsOK' /\ ListOK' /\ IdsOK' /\ call'[p] = h /\ Content' = Content
      /\ CallOK(p)' => \A q \in Procs : CallOK(q)'
  BY <1>1, <1>3, <1>4, Advances
<1>6. disk'[tmp'] = <<>>
  BY <1>1, <1>2 DEF FilesOK
<1>7. CallOK(p)'
  BY <1>1, <1>2, <1>3, <1>5, <1>6, StillSaves DEF CallOK, Writing, Loaded
<1>8. FilesOK'
  BY <1>1, <1>2, EmptySeq DEF FilesOK
<1>9. CountsOK'
  <2>1. met' \in BOOLEAN
    BY <1>1 DEF CountsOK
  <2> QED
    BY <1>1, <2>1 DEF CountsOK
<1> QED
  BY <1>1, <1>5, <1>7, <1>8, <1>9, Inductive

LEMMA WriteKeeps ==
  ASSUME Locked, SInv, NEW p \in Procs, Write(p)
  PROVE  SInv' /\ Content' = Content /\ stored' = stored
<1> DEFINE h == [call[p] EXCEPT !.pc = "rename"]
           data == call[p].data
<1>1. /\ TypeOK /\ CallsOK /\ FilesOK /\ CountsOK /\ CallOK(p) /\ call[p] \in Call
      /\ call[p].pc = "write" /\ Inside(p) /\ Loaded(p) /\ Writing(p)
      /\ disk' = [disk EXCEPT ![call[p].fd] = Over(disk[call[p].fd], data)]
      /\ call' = [call EXCEPT ![p] = h]
      /\ mutex' = mutex /\ path' = path /\ tmp' = tmp
      /\ UNCHANGED <<expired, stored, lone, met, calls, faults>>
  BY TypeParts DEF SInv, Write, CallsOK, Inside, Loaded, Writing
<1>2. call[p].fd = tmp /\ tmp \in Inodes /\ tmp # path /\ tmp # NoInode /\ disk[tmp] = <<>>
  BY <1>1 DEF CallOK, FilesOK
<1>3. data \in Seq(Block)
  BY <1>1 DEF Call, Block
<1>4. disk' = [disk EXCEPT ![tmp] = data]
  BY <1>1, <1>2, <1>3, EmptySeq, OverType
<1>5. /\ h \in Call /\ h.pc = "rename" /\ h.op = call[p].op /\ h.id = call[p].id
      /\ h.fd = call[p].fd /\ h.data = data
  BY <1>1 DEF Call
<1> HIDE DEF h
<1>6. path # NoInode => disk'[path] = disk[path]
  BY <1>1, <1>2, <1>4 DEF FilesOK
<1>7. /\ CallsOK' /\ ListOK' /\ IdsOK' /\ call'[p] = h /\ Content' = Content
      /\ CallOK(p)' => \A q \in Procs : CallOK(q)'
  BY <1>1, <1>5, <1>6, Advances
<1>8. disk'[tmp'] = data
  BY <1>1, <1>2, <1>4 DEF FilesOK
<1>9. CallOK(p)'
  BY <1>1, <1>2, <1>5, <1>7, <1>8, StillSaves DEF CallOK, Writing, Loaded
<1>10. FilesOK' /\ CountsOK'
  BY <1>1, <1>2, <1>3, <1>4 DEF FilesOK, CountsOK
<1> QED
  BY <1>1, <1>7, <1>9, <1>10, Inductive

LEMMA ShortWriteKeeps ==
  ASSUME Locked, SInv, NEW p \in Procs, ShortWrite(p)
  PROVE  SInv' /\ Content' = Content /\ stored' = stored
<1>1. /\ TypeOK /\ CallsOK /\ FilesOK /\ CountsOK /\ CallOK(p) /\ call[p] \in Call
      /\ call[p].pc = "write" /\ Inside(p) /\ Writing(p)
      /\ Fault /\ Return(p)
      /\ path' = path /\ tmp' = tmp
      /\ UNCHANGED <<expired, stored, lone, met, calls>>
  BY TypeParts DEF SInv, ShortWrite, Fail, CallsOK, Inside, Writing
<1>2. PICK n \in 0..(Len(call[p].data) - 1) :
        disk' = [disk EXCEPT ![call[p].fd] = Over(disk[call[p].fd], SubSeq(call[p].data, 1, n))]
  BY DEF ShortWrite
<1>3. call[p].fd = tmp /\ tmp \in Inodes /\ tmp # path /\ tmp # NoInode
  BY <1>1 DEF CallOK, FilesOK
<1>4. call[p].data \in Seq(Block) /\ disk[tmp] \in Seq(Block)
  BY <1>1, <1>3 DEF Call, Block, FilesOK
<1>5. Over(disk[tmp], SubSeq(call[p].data, 1, n)) \in Seq(Block)
  BY <1>4, PartType, OverType
<1>6. path # NoInode => disk'[path] = disk[path]
  BY <1>1, <1>2, <1>3 DEF FilesOK
<1>7. CallsOK' /\ ListOK' /\ IdsOK' /\ \A q \in Procs : CallOK(q)'
  BY <1>1, <1>6, Leaves
<1>8. Content' = Content
  BY <1>1, <1>6, ListKept
<1>9. FilesOK'
  BY <1>1, <1>2, <1>3, <1>5 DEF FilesOK
<1>10. CountsOK'
  BY <1>1, FaultCounted DEF CountsOK
<1> QED
  BY <1>1, <1>7, <1>8, <1>9, <1>10, Inductive

LEMMA FailedCallKeeps ==
  ASSUME Locked, SInv, NEW p \in Procs, FailedCall(p)
  PROVE  SInv' /\ Content' = Content /\ stored' = stored
<1>1. /\ TypeOK /\ CallsOK /\ FilesOK /\ CountsOK /\ Inside(p)
      /\ Fault /\ Return(p)
      /\ path' = path /\ tmp' = tmp /\ disk' = disk
      /\ UNCHANGED <<expired, stored, lone, met, calls>>
  BY TypeParts DEF SInv, FailedCall, Fail, Inside, files
<1>2. CallsOK' /\ ListOK' /\ IdsOK' /\ \A q \in Procs : CallOK(q)'
  BY <1>1, Leaves
<1>3. Content' = Content
  BY <1>1, ListKept
<1>4. FilesOK' /\ CountsOK'
  BY <1>1, FaultCounted DEF FilesOK, CountsOK
<1> QED
  BY <1>1, <1>2, <1>3, <1>4, Inductive

\* The file's list as an AtomicFile.
List == INSTANCE AtomicFile WITH content <- Content, Ids <- 1..MaxCalls

\* What a caller's save makes of the abstract list.
LEMMA SaveRefines ==
  ASSUME Locked, SInv, NEW p \in Procs, call[p].pc = "rename", call[p].op \in {"create", "update"},
         Content' = Changed(call[p].op, Content, call[p].id),
         ~Refused(call[p].op, Content, call[p].id),
         call[p].op = "create" => Creating(p) /\ call[p].id \in 1..MaxCalls,
         \/ stored' = stored
         \/ call[p].op = "create" /\ stored' = stored \cup {call[p].id}
  PROVE  List!Next
<1> DEFINE id == call[p].id
<1>1. ListOK /\ IdsOK /\ Content \in Seq(Entry)
  BY DEF SInv, ListOK
<1>2. CASE call[p].op = "create"
  <2>1. Content' = Append(Content, [id |-> id, rev |-> 0]) /\ id \in 1..MaxCalls
    BY <1>1, <1>2, ChangedList
  <2>2. \A i \in DOMAIN Content : Content[i].id # id
    BY <1>1, <1>2 DEF IdsOK
  <2>3. stored' \in {stored, stored \cup {id}}
    OBVIOUS
  <2>4. List!Create(id)
    BY <2>1, <2>2, <2>3 DEF List!Create, List!Fresh
  <2> QED
    BY <2>1, <2>4 DEF List!Next
<1>3. CASE call[p].op = "update"
  <2>1. Content' = Revised(Content, id) /\ stored' = stored
    BY <1>1, <1>3, ChangedList
  <2>2. PICK i \in DOMAIN Content : Content[i].id = id /\ Content[i].rev = 0
    BY <1>3 DEF Refused
  <2>3. \A j \in DOMAIN Content : Content[j].id = id <=> j = i
    BY <1>1, <2>2 DEF ListOK
  <2>4. Revised(Content, id) = [Content EXCEPT ![i].rev = 1]
    BY <1>1, <2>2, <2>3 DEF Revised
  <2>5. List!Revise(i)
    BY <2>1, <2>2, <2>4 DEF List!Revise
  <2> QED
    BY <2>5 DEF List!Next
<1> QED
  BY <1>2, <1>3

LEMMA RenameKeeps ==
  ASSUME Locked, SInv, NEW p \in Procs, Rename(p)
  PROVE  SInv' /\ List!Next
<1>1. /\ TypeOK /\ CallsOK /\ FilesOK /\ CountsOK /\ CallOK(p) /\ call[p].pc = "rename" /\ Inside(p)
      /\ Writing(p) /\ Return(p) /\ disk' = disk
      /\ UNCHANGED <<expired, lone, met, calls, faults>>
  BY TypeParts DEF SInv, Rename, Inside, Writing
<1>2. /\ tmp # NoInode /\ path' = tmp /\ tmp' = NoInode
      /\ stored' = stored \cup (IF call[p].op = "create" THEN {call[p].id} ELSE {})
  BY <1>1 DEF CallOK, Rename, CallsOK, StoreOps, Creations
<1>3. /\ CallsOK' /\ call'[p] = Idle
      /\ \A q \in Procs \ {p} : call'[q] = call[q]
  BY <1>1, ReturnCalls
<1>4. \A q \in Procs : Creating(q)' => q # p /\ Creating(q) /\ call'[q].id = call[q].id
  BY <1>3, IdleType DEF Creating
<1>5. /\ ListOK' /\ IdsOK'
      /\ Content' = Changed(call[p].op, Content, call[p].id)
      /\ ~Refused(call[p].op, Content, call[p].id)
      /\ call[p].op \in {"create", "update"}
      /\ call[p].op = "create" => Creating(p) /\ call[p].id \in 1..MaxCalls
  BY <1>1, <1>2, <1>4, Publishes
<1>6. ASSUME NEW q \in Procs PROVE CallOK(q)'
  <2>1. CASE q = p
    BY <1>3, <2>1, IdleType, OutsideOK DEF Inside
  <2>2. CASE q # p
    BY <1>1, <1>3, <2>2, Alone, OutsideOK DEF Inside
  <2> QED
    BY <2>1, <2>2
<1>7. FilesOK'
  BY <1>1, <1>2 DEF FilesOK
<1>8. CountsOK'
  BY <1>1, <1>2, <1>5 DEF CountsOK
<1>9. SInv'
  BY <1>1, <1>3, <1>5, <1>6, <1>7, <1>8, Inductive
<1>10. stored' = stored \/ (call[p].op = "create" /\ stored' = stored \cup {call[p].id})
  BY <1>2
<1> QED
  BY <1>1, <1>5, <1>9, <1>10, SaveRefines

LEMMA DieKeeps ==
  ASSUME Locked, SInv, NEW p \in Procs, Die(p)
  PROVE  SInv' /\ (List!Next \/ (Content' = Content /\ stored' = stored))
<1>1. /\ TypeOK /\ CallsOK /\ FilesOK /\ CountsOK
      /\ call' = [q \in Procs |-> Idle] /\ mutex' = Nobody
      /\ Fault /\ disk' = disk /\ UNCHANGED <<expired, stored, lone, met, calls>>
  BY TypeParts DEF SInv, Die
<1>2. \A q \in Procs : call'[q] = Idle
  BY <1>1
<1>3. CallsOK'
  BY <1>1, <1>2, IdleType, StateFileAssumption DEF CallsOK, Inside
<1>4. ASSUME NEW q \in Procs PROVE CallOK(q)' /\ ~Creating(q)'
  BY <1>2, IdleType, OutsideOK DEF Inside, Creating
<1>5. CountsOK'
  BY <1>1, FaultCounted DEF CountsOK
<1>6. CASE path' = path /\ tmp' = tmp
  <2>1. ListOK' /\ Content' = Content
    BY <1>1, <1>6, ListKept
  <2>2. IdsOK'
    BY <1>4 DEF IdsOK
  <2>3. FilesOK'
    BY <1>1, <1>6 DEF FilesOK
  <2> QED
    BY <1>1, <1>3, <1>4, <1>5, <2>1, <2>2, <2>3, Inductive
<1>7. CASE call[p].pc = "rename" /\ tmp # NoInode /\ path' = tmp /\ tmp' = NoInode
  <2>1. /\ ListOK' /\ IdsOK'
        /\ Content' = Changed(call[p].op, Content, call[p].id)
        /\ ~Refused(call[p].op, Content, call[p].id)
        /\ call[p].op \in {"create", "update"}
        /\ call[p].op = "create" => Creating(p) /\ call[p].id \in 1..MaxCalls
    BY <1>1, <1>4, <1>7, Publishes
  <2>2. FilesOK'
    BY <1>1, <1>7 DEF FilesOK
  <2>3. List!Next
    BY <1>1, <1>7, <2>1, SaveRefines
  <2> QED
    BY <1>1, <1>3, <1>4, <1>5, <2>1, <2>2, <2>3, Inductive
<1> QED
  BY <1>6, <1>7 DEF Die

LEMMA SInvNext ==
  ASSUME Locked, SInv, [Next]_vars
  PROVE  SInv' /\ [List!Next]_<<Content, stored>>
<1>1. ASSUME NEW p \in Procs, Begin(p) \/ Step(p) \/ ShortWrite(p) \/ FailedCall(p) \/ Die(p)
      PROVE  SInv' /\ [List!Next]_<<Content, stored>>
  BY <1>1, BeginKeeps, LockKeeps, LoadKeeps, OpenKeeps, WriteKeeps, RenameKeeps,
     ShortWriteKeeps, FailedCallKeeps, DieKeeps DEF Step
<1>2. ASSUME NEW id \in 1..MaxCalls, Expire(id)
      PROVE  FALSE
  BY <1>2 DEF Expire, SInv
<1>3. CASE UNCHANGED vars
  <2>1. /\ call' = call /\ mutex' = mutex /\ disk' = disk /\ path' = path /\ tmp' = tmp
        /\ expired' = expired /\ stored' = stored /\ lone' = lone /\ met' = met
        /\ calls' = calls /\ faults' = faults
    BY <1>3 DEF vars
  <2>2. Content' = Content /\ Missing' = Missing
    BY <2>1 DEF Content, Missing
  <2>3. SInv' = SInv
    BY <2>1, <2>2 DEF SInv, Locked, TypeOK, ListOK, IdsOK, CallOK, Creating, Writing, Loaded,
       Changed, Refused, Revised, Alive, Without
  <2> QED
    BY <2>1, <2>2, <2>3
<1> QED
  BY <1>1, <1>2, <1>3 DEF Next

\* A file without a mutex never gets one.
LEMMA StaysUnlocked == ~Locked /\ [Next]_vars => ~Locked'
<1> SUFFICES ASSUME mutex = NoMutex, [Next]_vars PROVE mutex' = NoMutex
  BY DEF Locked
<1>1. \A p \in Procs : mutex # p /\ mutex # Nobody
  BY StateFileAssumption
<1>2. ASSUME NEW p \in Procs, Begin(p) \/ Step(p) \/ ShortWrite(p) \/ FailedCall(p) \/ Die(p)
      PROVE  mutex' = NoMutex
  BY <1>1, <1>2 DEF Begin, Step, Lock, Load, Open, Write, Rename, ShortWrite, FailedCall, Die,
     Fail, Return, Locked
<1>3. ASSUME NEW id \in 1..MaxCalls, Expire(id) PROVE mutex' = NoMutex
  BY <1>3 DEF Expire
<1> QED
  BY <1>2, <1>3 DEF Next, vars

-----------------------------------------------------------------------------
\* Without the mutex: only what creates or revokes sessions loads the file.
CallersOK ==
  \A p \in Procs : /\ call[p].pc # "idle" => call[p].id \in 1..MaxCalls
                   /\ call[p].pc = "load" => call[p].op \in {"createGrant", "revoke"}

\* What a save that met no other has: the temporary file to itself, and in it
\* what it has written so far.
SaveOK(p) ==
  p \in Saving => /\ call[p].fd = tmp /\ tmp # NoInode
                  /\ call[p].pc = "write" => disk[tmp] = <<>>
                  /\ call[p].pc = "rename" => disk[tmp] = call[p].data

\* A save is alone as long as it is lone, and all saves are until two have met.
SavesOK ==
  /\ \A p \in lone : p \in Saving => Saving = {p} /\ SaveOK(p)
  /\ ~met => Saving \subseteq lone

UnlockedInv == ~Locked /\ TypeOK /\ CallersOK /\ SavesOK

LEMMA UnlockedTypes ==
  ~Locked /\ TypeOK <=> mutex = NoMutex /\ call \in [Procs -> Call] /\ FilesOK /\ CountsOK
BY DEF TypeOK, FilesOK, CountsOK, Block, Locked

LEMMA UnlockedTypesNext ==
  ASSUME (mutex = NoMutex /\ call \in [Procs -> Call] /\ FilesOK /\ CountsOK)'
  PROVE  (~Locked /\ TypeOK)'
BY UnlockedTypes, PTL

\* The list of a file that parses.
LEMMA ContentType ==
  ASSUME FilesOK, Whole
  PROVE  Content \in Seq(Entry)
<1>1. CASE Missing
  BY <1>1, EmptySeq DEF Content
<1>2. CASE ~Missing
  <2>1. PICK b : b = disk[path]
    OBVIOUS
  <2>2. b \in Seq(Block) /\ Parses(b) /\ Content = Entries(b)
    BY <1>2, <2>1 DEF FilesOK, Missing, Whole, Content
  <2>3. Len(b) \in Nat /\ \A i \in 1..(Len(b) - 1) : b[i] \in Entry
    <3>1. Len(b) \in Nat
      BY <2>2, LenProperties
    <3>2. \A i \in 1..Len(b) : b[i] \in Block
      BY <2>2, ElementOfSeq
    <3> QED
      BY <2>2, <3>1, <3>2 DEF Parses, Block
  <2>4. SubSeq(b, 1, Len(b) - 1) \in Seq(Entry)
    BY <2>3, SubSeqProperties
  <2> QED
    BY <2>2, <2>4 DEF Entries
<1> QED
  BY <1>1, <1>2

\* What createGrant and revokeGrants save.
LEMMA SessionsType ==
  ASSUME NEW list \in Seq(Entry), NEW op \in {"createGrant", "revoke"}, NEW id \in 1..MaxCalls
  PROVE  Append(Changed(op, list, id), End) \in Seq(Block)
<1>1. CASE op = "createGrant"
  <2> DEFINE longer == Append(list, [id |-> id, rev |-> 0])
  <2>1. longer \in Seq(Entry)
    <3>1. [id |-> id, rev |-> 0] \in Entry
      BY DEF Entry
    <3> QED
      BY <3>1, AppendProperties
  <2> HIDE DEF longer
  <2>2. Alive(longer) \in Seq(Entry)
    BY <2>1, SublistType DEF Alive
  <2>3. Changed(op, list, id) = Alive(longer)
    BY <1>1 DEF Changed, longer
  <2> QED
    BY <2>2, <2>3, FileOfList
<1>2. CASE op = "revoke"
  <2>1. Without(list, id) \in Seq(Entry)
    BY SublistType DEF Without
  <2>2. Changed(op, list, id) = Without(list, id)
    BY <1>2 DEF Changed
  <2> QED
    BY <2>1, <2>2, FileOfList
<1> QED
  BY <1>1, <1>2

-----------------------------------------------------------------------------
\* One caller moves, and others do not.
LEMMA OneMoves ==
  ASSUME call \in [Procs -> Call], NEW p \in Procs, NEW h \in Call, call' = [call EXCEPT ![p] = h]
  PROVE  /\ call' \in [Procs -> Call] /\ call'[p] = h
         /\ \A q \in Procs \ {p} : call'[q] = call[q]
OBVIOUS

\* A caller begins, loads, or ends its call: the saves of the others stay what
\* they are, for its own end is the only one that may touch the temporary file.
LEMMA OthersSave ==
  ASSUME SavesOK, lone \subseteq Procs, lone' = lone, met' = met, NEW p \in Procs,
         \A q \in Procs \ {p} : call'[q] = call[q],
         call'[p].pc \notin {"write", "rename"},
         p \in Saving \/ (disk' = disk /\ tmp' = tmp)
  PROVE  SavesOK'
<1>1. Saving' \subseteq Saving \ {p}
  BY DEF Saving
<1>2. \A q \in Procs \ {p} : q \in Saving' <=> q \in Saving
  BY DEF Saving
<1>3. ASSUME NEW q \in lone, q \in Saving'
      PROVE  Saving' = {q} /\ SaveOK(q)'
  <2>1. q \in Procs \ {p} /\ q \in Saving /\ Saving = {q} /\ SaveOK(q)
    BY <1>1, <1>3 DEF SavesOK
  <2>2. disk' = disk /\ tmp' = tmp /\ call'[q] = call[q]
    BY <2>1
  <2>3. Saving' = {q}
    BY <1>1, <1>3, <2>1
  <2> QED
    BY <2>1, <2>2, <2>3 DEF SaveOK
<1>4. ~met' => Saving' \subseteq lone'
  BY <1>1 DEF SavesOK
<1> QED
  BY <1>3, <1>4 DEF SavesOK

LEMMA UnlockedStart == ~Locked /\ Init => UnlockedInv
<1> SUFFICES ASSUME mutex = NoMutex, Init PROVE UnlockedInv
  BY DEF Locked
<1>1. FilesOK
  <2>1. <<>> \in Seq(Block)
    BY EmptySeq
  <2> QED
    BY <2>1 DEF Init, FilesOK
<1>2. CountsOK
  <2>1. 0 \in 0..MaxCalls /\ 0 \in 0..MaxFaults
    BY StateFileAssumption
  <2>2. met \in BOOLEAN /\ expired = {} /\ stored = {} /\ lone = {} /\ calls = 0 /\ faults = 0
    BY DEF Init
  <2> QED
    BY <2>1, <2>2 DEF CountsOK
<1>3. call \in [Procs -> Call] /\ \A p \in Procs : call[p].pc = "idle"
  BY IdleType DEF Init
<1>4. CallersOK /\ SavesOK
  BY <1>3 DEF Init, CallersOK, SavesOK, Saving
<1> QED
  BY <1>1, <1>2, <1>3, <1>4, UnlockedTypes DEF UnlockedInv, Locked

\* The next three state what each step keeps: the kinds, the loads, the saves.
LEMMA UnlockedEnds ==
  ASSUME UnlockedInv, NEW p \in Procs, call' = [call EXCEPT ![p] = Idle], mutex' = mutex,
         FilesOK', CountsOK', lone' = lone, met' = met,
         p \in Saving \/ (disk' = disk /\ tmp' = tmp)
  PROVE  UnlockedInv'
<1>1. mutex = NoMutex /\ call \in [Procs -> Call] /\ CountsOK /\ CallersOK /\ SavesOK
  BY UnlockedTypes DEF UnlockedInv
<1>2. /\ call' \in [Procs -> Call] /\ call'[p] = Idle
      /\ \A q \in Procs \ {p} : call'[q] = call[q]
  BY <1>1, IdleType, OneMoves
<1>3. CallersOK'
  BY <1>1, <1>2, IdleType DEF CallersOK
<1>4. SavesOK'
  BY <1>1, <1>2, IdleType, OthersSave DEF CountsOK
<1>5. (~Locked /\ TypeOK)'
  BY <1>1, <1>2, UnlockedTypesNext
<1> QED
  BY <1>3, <1>4, <1>5 DEF UnlockedInv

LEMMA UnlockedBegin ==
  ASSUME UnlockedInv, NEW p \in Procs, Begin(p)
  PROVE  UnlockedInv'
<1>1. mutex = NoMutex /\ call \in [Procs -> Call] /\ FilesOK /\ CountsOK /\ CallersOK /\ SavesOK
  BY UnlockedTypes DEF UnlockedInv
<1>2. PICK op \in SessionOps, id \in 1..MaxCalls :
        call' = [call EXCEPT ![p] =
          [Idle EXCEPT !.pc = IF op = "revokeAll" THEN "open" ELSE "load",
                       !.op = op, !.id = id, !.data = <<End>>]]
  BY <1>1 DEF Begin, Locked
<1>3. PICK pc \in {"open", "load"}, data \in Seq(Block) :
        /\ pc = "load" => op \in {"createGrant", "revoke"}
        /\ call' = [call EXCEPT ![p] = [Idle EXCEPT !.pc = pc, !.op = op, !.id = id, !.data = data]]
  <2>1. <<End>> \in Seq(Block)
    BY DEF Block
  <2> DEFINE pc == IF op = "revokeAll" THEN "open" ELSE "load"
             data == <<End>>
  <2>2. pc \in {"open", "load"} /\ (pc = "load" => op \in {"createGrant", "revoke"})
    BY DEF SessionOps
  <2>3. call' = [call EXCEPT ![p] = [Idle EXCEPT !.pc = pc, !.op = op, !.id = id, !.data = data]]
    BY <1>2
  <2>4. data \in Seq(Block)
    BY <2>1
  <2> HIDE DEF pc, data
  <2> QED
    BY <2>2, <2>3, <2>4
<1> DEFINE h == [Idle EXCEPT !.pc = pc, !.op = op, !.id = id, !.data = data]
<1>4. h \in Call /\ h.pc = pc /\ h.op = op /\ h.id = id
  <2>1. id \in 0..MaxCalls
    OBVIOUS
  <2> QED
    BY <2>1, IdleType DEF Call, Block
<1> HIDE DEF h
<1>5. call' \in [Procs -> Call] /\ call'[p] = h /\ \A q \in Procs \ {p} : call'[q] = call[q]
  BY <1>1, <1>3, <1>4, OneMoves DEF h
<1>6. /\ mutex' = mutex /\ disk' = disk /\ path' = path /\ tmp' = tmp /\ lone' = lone /\ met' = met
      /\ calls' = calls + 1 /\ calls < MaxCalls /\ UNCHANGED <<expired, stored, faults>>
  BY DEF Begin, files
<1>7. FilesOK' /\ CountsOK'
  BY <1>1, <1>6, StateFileAssumption DEF FilesOK, CountsOK
<1>8. CallersOK'
  BY <1>1, <1>3, <1>4, <1>5 DEF CallersOK
<1>9. SavesOK'
  BY <1>1, <1>3, <1>4, <1>5, <1>6, OthersSave DEF CountsOK
<1>10. (~Locked /\ TypeOK)'
  BY <1>1, <1>5, <1>6, <1>7, UnlockedTypesNext
<1> QED
  BY <1>8, <1>9, <1>10 DEF UnlockedInv

LEMMA UnlockedLoad ==
  ASSUME UnlockedInv, NEW p \in Procs, Load(p)
  PROVE  UnlockedInv'
<1>1. mutex = NoMutex /\ call \in [Procs -> Call] /\ FilesOK /\ CountsOK /\ CallersOK /\ SavesOK
  BY UnlockedTypes DEF UnlockedInv
<1>2. /\ call[p].pc = "load" /\ disk' = disk /\ path' = path /\ tmp' = tmp
      /\ UNCHANGED <<expired, stored, lone, met, calls, faults>>
  BY DEF Load, files
<1>3. FilesOK' /\ CountsOK'
  BY <1>1, <1>2 DEF FilesOK, CountsOK
<1>4. CASE Return(p)
  <2>1. mutex' = mutex /\ call' = [call EXCEPT ![p] = Idle]
    BY <1>1, <1>4, StateFileAssumption DEF Return
  <2> QED
    BY <1>2, <1>3, <2>1, UnlockedEnds
<1>5. CASE ~Return(p)
  <2> DEFINE data == Append(Changed(call[p].op, Content, call[p].id), End)
             h == [call[p] EXCEPT !.pc = "open", !.data = data]
  <2>1. Whole /\ mutex' = mutex /\ call' = [call EXCEPT ![p] = h]
    BY <1>1, <1>5 DEF Load
  <2>2. data \in Seq(Block)
    BY <1>1, <1>2, <2>1, ContentType, SessionsType DEF CallersOK
  <2> HIDE DEF data
  <2>3. h \in Call /\ h.pc = "open" /\ h.id = call[p].id
    BY <1>1, <2>2 DEF Call, Block
  <2> HIDE DEF h
  <2>4. call' \in [Procs -> Call] /\ call'[p] = h /\ \A q \in Procs \ {p} : call'[q] = call[q]
    BY <1>1, <2>1, <2>3, OneMoves
  <2>5. CallersOK'
    BY <1>1, <1>2, <2>3, <2>4 DEF CallersOK
  <2>6. SavesOK'
    BY <1>1, <1>2, <2>3, <2>4, OthersSave DEF CountsOK
  <2>7. (~Locked /\ TypeOK)'
    BY <1>1, <1>3, <2>1, <2>4, UnlockedTypesNext
  <2> QED
    BY <2>5, <2>6, <2>7 DEF UnlockedInv
<1> QED
  BY <1>4, <1>5

\* Where a save writes to.
LEMMA OpenedInode ==
  ASSUME FilesOK, NEW i, i = IF tmp = NoInode THEN FreeInode ELSE tmp
  PROVE  i \in Inodes /\ i # path /\ i # NoInode
<1>1. CASE tmp = NoInode
  BY <1>1, FreeInodeOK
<1>2. CASE tmp # NoInode
  BY <1>2 DEF FilesOK
<1> QED
  BY <1>1, <1>2

LEMMA UnlockedOpen ==
  ASSUME UnlockedInv, NEW p \in Procs, Open(p)
  PROVE  UnlockedInv'
<1>1. mutex = NoMutex /\ call \in [Procs -> Call] /\ FilesOK /\ CountsOK /\ CallersOK /\ SavesOK
  BY UnlockedTypes DEF UnlockedInv
<1>2. PICK i : i = IF tmp = NoInode THEN FreeInode ELSE tmp
  OBVIOUS
<1> DEFINE h == [call[p] EXCEPT !.pc = "write", !.fd = i]
<1>3. /\ call[p].pc = "open" /\ call' = [call EXCEPT ![p] = h]
      /\ tmp' = i /\ disk' = [disk EXCEPT ![i] = <<>>] /\ path' = path /\ mutex' = mutex
      /\ lone' = (IF Saving = {} THEN {p} ELSE {}) /\ met' = (met \/ Saving # {})
      /\ UNCHANGED <<expired, stored, calls, faults>>
  BY <1>2 DEF Open
<1>4. i \in Inodes /\ i # path /\ i # NoInode
  BY <1>1, <1>2, OpenedInode
<1>5. h \in Call /\ h.pc = "write" /\ h.fd = i /\ h.id = call[p].id
  BY <1>1, <1>4 DEF Call
<1> HIDE DEF h
<1>6. call' \in [Procs -> Call] /\ call'[p] = h /\ \A q \in Procs \ {p} : call'[q] = call[q]
  BY <1>1, <1>3, <1>5, OneMoves
<1>7. FilesOK'
  BY <1>1, <1>3, <1>4, EmptySeq DEF FilesOK
<1>8. CountsOK'
  <2>1. met' \in BOOLEAN
    BY <1>1, <1>3 DEF CountsOK
  <2> QED
    BY <1>1, <1>3, <2>1 DEF CountsOK
<1>9. CallersOK'
  BY <1>1, <1>3, <1>5, <1>6 DEF CallersOK
<1>10. SavesOK'
  <2>1. CASE Saving = {}
    <3>1. Saving' = {p} /\ lone' = {p}
      BY <1>3, <1>5, <1>6, <2>1 DEF Saving
    <3>2. disk'[i] = <<>> /\ tmp' = i
      BY <1>1, <1>3, <1>4 DEF FilesOK
    <3>3. SaveOK(p)'
      BY <1>4, <1>5, <1>6, <3>2 DEF SaveOK
    <3> QED
      BY <3>1, <3>3 DEF SavesOK
  <2>2. CASE Saving # {}
    BY <1>3, <2>2 DEF SavesOK
  <2> QED
    BY <2>1, <2>2
<1>11. (~Locked /\ TypeOK)'
  BY <1>1, <1>3, <1>6, <1>7, <1>8, UnlockedTypesNext
<1> QED
  BY <1>9, <1>10, <1>11 DEF UnlockedInv

\* Any write leaves a file of blocks.
LEMMA DiskType ==
  ASSUME FilesOK, NEW fd, NEW data \in Seq(Block),
         disk' = [disk EXCEPT ![fd] = Over(@, data)], path' = path, tmp' = tmp
  PROVE  FilesOK'
<1>1. disk \in [Inodes -> Seq(Block)]
  BY DEF FilesOK
<1>2. fd \in Inodes => Over(disk[fd], data) \in Seq(Block)
  BY <1>1, OverType
<1>3. disk' \in [Inodes -> Seq(Block)]
  BY <1>1, <1>2
<1> QED
  BY <1>3 DEF FilesOK

LEMMA UnlockedWrite ==
  ASSUME UnlockedInv, NEW p \in Procs, Write(p)
  PROVE  UnlockedInv'
<1>1. mutex = NoMutex /\ call \in [Procs -> Call] /\ FilesOK /\ CountsOK /\ CallersOK /\ SavesOK
  BY UnlockedTypes DEF UnlockedInv
<1> DEFINE h == [call[p] EXCEPT !.pc = "rename"]
<1>2. PICK data, fd : data = call[p].data /\ fd = call[p].fd
  OBVIOUS
<1>3. /\ call[p].pc = "write" /\ call' = [call EXCEPT ![p] = h]
      /\ disk' = [disk EXCEPT ![fd] = Over(@, data)] /\ path' = path /\ tmp' = tmp /\ mutex' = mutex
      /\ UNCHANGED <<expired, stored, lone, met, calls, faults>>
  BY <1>2 DEF Write
<1>4. /\ h \in Call /\ h.pc = "rename" /\ h.fd = fd /\ h.data = data /\ h.id = call[p].id /\ data \in Seq(Block)
  BY <1>1, <1>2 DEF Call, Block
<1> HIDE DEF h
<1>5. call' \in [Procs -> Call] /\ call'[p] = h /\ \A q \in Procs \ {p} : call'[q] = call[q]
  BY <1>1, <1>3, <1>4, OneMoves
<1>6. FilesOK'
  BY <1>1, <1>3, <1>4, DiskType
<1>7. CountsOK'
  BY <1>1, <1>3 DEF CountsOK
<1>8. CallersOK'
  BY <1>1, <1>3, <1>4, <1>5 DEF CallersOK
<1>9. Saving' = Saving /\ p \in Saving
  BY <1>3, <1>4, <1>5 DEF Saving
<1>10. ASSUME NEW q \in lone, q \in Saving PROVE Saving' = {q} /\ SaveOK(q)'
  <2>1. Saving = {q} /\ q = p /\ SaveOK(p)
    BY <1>1, <1>9, <1>10 DEF SavesOK
  <2>2. fd = tmp /\ tmp # NoInode /\ tmp \in Inodes /\ disk[tmp] = <<>>
    BY <1>1, <1>2, <1>3, <1>9, <2>1 DEF SaveOK, FilesOK
  <2>3. disk'[tmp] = data
    <3>1. Over(disk[tmp], data) = data
      BY <1>4, <2>2, EmptySeq, OverType
    <3> QED
      BY <1>1, <1>3, <2>2, <3>1 DEF FilesOK
  <2> QED
    BY <1>3, <1>4, <1>5, <1>9, <2>1, <2>2, <2>3 DEF SaveOK
<1>11. SavesOK'
  BY <1>1, <1>3, <1>9, <1>10 DEF SavesOK
<1>12. (~Locked /\ TypeOK)'
  BY <1>1, <1>3, <1>5, <1>6, <1>7, UnlockedTypesNext
<1> QED
  BY <1>8, <1>11, <1>12 DEF UnlockedInv

\* Without a mutex a call that ends gives none back.
LEMMA UnlockedFails ==
  ASSUME UnlockedInv, NEW p \in Procs, Fail(p), UNCHANGED <<expired, stored, lone, met, calls>>
  PROVE  mutex' = mutex /\ call' = [call EXCEPT ![p] = Idle] /\ CountsOK'
<1>1. mutex = NoMutex /\ CountsOK
  BY UnlockedTypes DEF UnlockedInv
<1>2. mutex' = mutex /\ call' = [call EXCEPT ![p] = Idle]
  BY <1>1, StateFileAssumption DEF Fail, Return
<1>3. faults' \in 0..MaxFaults
  BY <1>1, FaultCounted DEF Fail
<1> QED
  BY <1>1, <1>2, <1>3 DEF CountsOK

LEMMA UnlockedShortWrite ==
  ASSUME UnlockedInv, NEW p \in Procs, ShortWrite(p)
  PROVE  UnlockedInv'
<1>1. call \in [Procs -> Call] /\ FilesOK
  BY UnlockedTypes DEF UnlockedInv
<1>2. /\ call[p].pc = "write" /\ Fail(p)
      /\ path' = path /\ tmp' = tmp /\ UNCHANGED <<expired, stored, lone, met, calls>>
  BY DEF ShortWrite
<1>3. PICK n \in 0..(Len(call[p].data) - 1) :
        disk' = [disk EXCEPT ![call[p].fd] = Over(@, SubSeq(call[p].data, 1, n))]
  BY DEF ShortWrite
<1>4. SubSeq(call[p].data, 1, n) \in Seq(Block)
  <2>1. call[p].data \in Seq(Block)
    BY <1>1 DEF Call, Block
  <2> QED
    BY <2>1, PartType
<1>5. FilesOK'
  BY <1>1, <1>2, <1>3, <1>4, DiskType
<1>6. mutex' = mutex /\ call' = [call EXCEPT ![p] = Idle] /\ CountsOK'
  BY <1>2, UnlockedFails
<1>7. p \in Saving
  BY <1>2 DEF Saving
<1> QED
  BY <1>2, <1>5, <1>6, <1>7, UnlockedEnds

LEMMA UnlockedFailedCall ==
  ASSUME UnlockedInv, NEW p \in Procs, FailedCall(p)
  PROVE  UnlockedInv'
<1>1. FilesOK
  BY UnlockedTypes DEF UnlockedInv
<1>2. /\ Fail(p) /\ disk' = disk /\ path' = path /\ tmp' = tmp
      /\ UNCHANGED <<expired, stored, lone, met, calls>>
  BY DEF FailedCall, files
<1>3. FilesOK'
  BY <1>1, <1>2 DEF FilesOK
<1>4. mutex' = mutex /\ call' = [call EXCEPT ![p] = Idle] /\ CountsOK'
  BY <1>2, UnlockedFails
<1> QED
  BY <1>2, <1>3, <1>4, UnlockedEnds

LEMMA UnlockedRename ==
  ASSUME UnlockedInv, NEW p \in Procs, Rename(p)
  PROVE  UnlockedInv'
<1>1. mutex = NoMutex /\ call \in [Procs -> Call] /\ FilesOK /\ CountsOK
  BY UnlockedTypes DEF UnlockedInv
<1>2. /\ call[p].pc = "rename" /\ Return(p) /\ disk' = disk
      /\ UNCHANGED <<expired, lone, met, calls, faults>>
      /\ \/ path' = path /\ tmp' = tmp /\ stored' = stored
         \/ /\ tmp # NoInode /\ path' = tmp /\ tmp' = NoInode
            /\ stored' = stored \cup IF call[p].op \in Creations THEN {call[p].id} ELSE {}
  BY DEF Rename
<1>3. mutex' = mutex /\ call' = [call EXCEPT ![p] = Idle]
  BY <1>1, <1>2, StateFileAssumption DEF Return
<1>4. FilesOK'
  BY <1>1, <1>2 DEF FilesOK, NoInode
<1>5. CountsOK'
  <2>1. call[p].op \in Creations => call[p].id \in 1..MaxCalls
    BY <1>1, <1>2 DEF UnlockedInv, CallersOK
  <2> QED
    BY <1>1, <1>2, <2>1 DEF CountsOK
<1>6. p \in Saving
  BY <1>2 DEF Saving
<1> QED
  BY <1>2, <1>3, <1>4, <1>5, <1>6, UnlockedEnds

LEMMA UnlockedDie ==
  ASSUME UnlockedInv, NEW p \in Procs, Die(p)
  PROVE  UnlockedInv'
<1>1. mutex = NoMutex /\ call \in [Procs -> Call] /\ FilesOK /\ CountsOK
  BY UnlockedTypes DEF UnlockedInv
<1>2. /\ mutex' = mutex /\ disk' = disk /\ Fault /\ UNCHANGED <<expired, stored, lone, met, calls>>
      /\ call' = [q \in Procs |-> IF q \in {p} THEN Idle ELSE call[q]]
      /\ \/ path' = path /\ tmp' = tmp
         \/ /\ call[p].pc = "rename" /\ tmp # NoInode
            /\ path' = tmp /\ tmp' = NoInode
  BY <1>1 DEF Die, Locked
<1>3. call' = [call EXCEPT ![p] = Idle]
  BY <1>1, <1>2
<1>4. FilesOK'
  BY <1>1, <1>2 DEF FilesOK, NoInode
<1>5. CountsOK'
  BY <1>1, <1>2, FaultCounted DEF CountsOK
<1>6. p \in Saving \/ (disk' = disk /\ tmp' = tmp)
  BY <1>2 DEF Saving
<1> QED
  BY <1>2, <1>3, <1>4, <1>5, <1>6, UnlockedEnds

LEMMA UnlockedExpire ==
  ASSUME UnlockedInv, NEW id \in 1..MaxCalls, Expire(id)
  PROVE  UnlockedInv'
<1>1. mutex = NoMutex /\ call \in [Procs -> Call] /\ FilesOK /\ CountsOK /\ CallersOK /\ SavesOK
  BY UnlockedTypes DEF UnlockedInv
<1>2. /\ expired' = expired \cup {id}
      /\ UNCHANGED <<call, mutex, disk, path, tmp, stored, lone, met, calls, faults>>
  BY DEF Expire, files
<1>3. FilesOK' /\ CountsOK'
  BY <1>1, <1>2 DEF FilesOK, CountsOK
<1>4. CallersOK' /\ SavesOK'
  BY <1>1, <1>2 DEF CallersOK, SavesOK, SaveOK, Saving
<1>5. (~Locked /\ TypeOK)'
  BY <1>1, <1>2, <1>3, UnlockedTypesNext
<1> QED
  BY <1>4, <1>5 DEF UnlockedInv

\* What holds without the mutex, through every step.
LEMMA UnlockedNext == UnlockedInv /\ [Next]_vars => UnlockedInv'
<1> SUFFICES ASSUME UnlockedInv, [Next]_vars PROVE UnlockedInv'
  OBVIOUS
<1>1. ASSUME NEW p \in Procs, Begin(p) \/ Step(p) \/ ShortWrite(p) \/ FailedCall(p) \/ Die(p)
      PROVE  UnlockedInv'
  <2>1. ~Lock(p)
    BY UnlockedTypes, StateFileAssumption DEF UnlockedInv, Lock
  <2> QED
    BY <1>1, <2>1, UnlockedBegin, UnlockedLoad, UnlockedOpen, UnlockedWrite, UnlockedRename,
       UnlockedShortWrite, UnlockedFailedCall, UnlockedDie DEF Step
<1>2. ASSUME NEW id \in 1..MaxCalls, Expire(id) PROVE UnlockedInv'
  BY <1>2, UnlockedExpire
<1>3. CASE UNCHANGED vars
  BY <1>3 DEF vars, UnlockedInv, Locked, TypeOK, CallersOK, SavesOK, SaveOK, Saving
<1> QED
  BY <1>1, <1>2, <1>3 DEF Next

-----------------------------------------------------------------------------
\* With the mutex or without: a save has the temporary file to itself if it is
\* lone, and every save has until two have met.
Effective ==
  /\ TypeOK
  /\ \A p \in lone : SaveOK(p)
  /\ ~met => \A p \in Procs : SaveOK(p)

LEMMA LockedIsEffective == SInv => Effective
BY DEF SInv, Effective, TypeOK, CallOK, Writing, Saving, SaveOK

LEMMA UnlockedIsEffective == UnlockedInv => Effective
<1> SUFFICES ASSUME UnlockedInv PROVE Effective
  OBVIOUS
<1>1. \A p \in lone : SaveOK(p)
  BY DEF UnlockedInv, SavesOK, SaveOK
<1>2. ~met => \A p \in Procs : SaveOK(p)
  BY <1>1 DEF UnlockedInv, SavesOK, SaveOK
<1> QED
  BY <1>1, <1>2 DEF UnlockedInv, Effective

\* One step of a file operation, seen by who reads the file.
LEMMA BlocksStep ==
  ASSUME Effective, [Next]_vars, ~met', Blocks' # Blocks
  PROVE  \E p \in Procs : call[p].pc = "rename" /\ Blocks' = call[p].data
<1>1. /\ FilesOK /\ TypeOK /\ (~met => \A p \in Procs : SaveOK(p))
  BY DEF Effective, TypeOK, FilesOK, Block
<1>2. ~(path' = path /\ (path # NoInode => disk'[path] = disk[path]))
  BY DEF Blocks, Missing
<1>3. PICK p \in Procs : Begin(p) \/ Step(p) \/ ShortWrite(p) \/ FailedCall(p) \/ Die(p)
  <2>1. \A id \in 1..MaxCalls : ~Expire(id)
    BY <1>2 DEF Expire, files
  <2> QED
    BY <1>2, <2>1 DEF Next, vars
<1>4. ~Begin(p) /\ ~Lock(p) /\ ~Load(p) /\ ~FailedCall(p)
  BY <1>2 DEF Begin, Lock, Load, FailedCall, files
<1>5. ~Open(p)
  <2> SUFFICES ASSUME Open(p) PROVE FALSE
    OBVIOUS
  <2>1. PICK i : i = IF tmp = NoInode THEN FreeInode ELSE tmp
    OBVIOUS
  <2>2. path' = path /\ disk' = [disk EXCEPT ![i] = <<>>] /\ i # path
    BY <1>1, <2>1, OpenedInode DEF Open
  <2> QED
    BY <1>1, <1>2, <2>2 DEF FilesOK
<1>6. ~Write(p) /\ ~ShortWrite(p)
  <2> SUFFICES ASSUME Write(p) \/ ShortWrite(p) PROVE FALSE
    OBVIOUS
  <2>1. path' = path /\ met' = met /\ p \in Saving /\ \E d : disk' = [disk EXCEPT ![call[p].fd] = d]
    BY DEF Write, ShortWrite, Saving
  <2>2. call[p].fd # path
    BY <1>1, <2>1 DEF SaveOK, FilesOK
  <2> QED
    BY <1>1, <1>2, <2>1, <2>2 DEF FilesOK
<1>7. CASE Rename(p) \/ Die(p)
  <2>1. /\ call[p].pc = "rename" /\ tmp # NoInode /\ path' = tmp /\ disk' = disk /\ met' = met
    BY <1>2, <1>7 DEF Rename, Die
  <2>2. Blocks' = disk[tmp]
    BY <2>1 DEF Blocks, Missing
  <2>3. disk[tmp] = call[p].data
    BY <1>1, <2>1 DEF SaveOK, Saving
  <2> QED
    BY <2>1, <2>2, <2>3
<1> QED
  BY <1>3, <1>4, <1>5, <1>6, <1>7 DEF Step

\* The end of a save that met no other and no fault.
LEMMA LoneStep ==
  ASSUME Effective, [Next]_vars, NEW p \in lone, call[p].pc = "rename", call'[p].pc = "idle",
         faults' = faults
  PROVE  Blocks' = call[p].data
<1>1. /\ p \in Procs /\ call \in [Procs -> Call] /\ SaveOK(p) /\ faults \in Nat
  BY DEF Effective, TypeOK
<1>2. call'[p] # call[p]
  OBVIOUS
<1>3. PICK q \in Procs : Begin(q) \/ Step(q) \/ ShortWrite(q) \/ FailedCall(q) \/ Die(q)
  <2>1. \A id \in 1..MaxCalls : ~Expire(id)
    BY <1>2 DEF Expire
  <2> QED
    BY <1>2, <2>1 DEF Next, vars
<1>4. ~ShortWrite(q) /\ ~FailedCall(q) /\ ~Die(q)
  BY <1>1 DEF ShortWrite, FailedCall, Die, Fail, Fault
<1>5. ~Begin(q) /\ ~Lock(q) /\ ~Load(q) /\ ~Open(q) /\ ~Write(q)
  BY <1>1, <1>2 DEF Begin, Lock, Load, Return, Open, Write
<1>6. Rename(q) /\ q = p
  BY <1>1, <1>2, <1>3, <1>4, <1>5 DEF Step, Rename, Return
<1>7. tmp # NoInode /\ disk[tmp] = call[p].data
  BY <1>1 DEF SaveOK, Saving
<1>8. path' = tmp /\ disk' = disk
  BY <1>6, <1>7 DEF Rename
<1> QED
  BY <1>7, <1>8 DEF Blocks, Missing

\* The file is of its kind under every interleaving, failure and death, with the
\* mutex and without: the mutex is held exactly by the caller inside it, the file
\* and the temporary file are never one (remote_store.go and grants.go, load,
\* change, save).
THEOREM StateFileTypeCorrect == Spec => []TypeOK
<1>1. Init => SInv \/ UnlockedInv
  BY SInvInit, UnlockedStart
<1>2. (SInv \/ UnlockedInv) /\ [Next]_vars => (SInv \/ UnlockedInv)'
  BY SInvNext, UnlockedNext DEF SInv
<1>3. SInv \/ UnlockedInv => TypeOK
  BY DEF SInv, UnlockedInv
<1> QED
  BY <1>1, <1>2, <1>3, PTL DEF Spec

\* As long as no two saves overlap, the file changes only to the whole list a
\* caller has built, in one step, for every number of callers, calls and faults.
THEOREM AlwaysWholeUnlessOverlapped == Spec => WholeUnlessOverlapped
<1>1. Init => SInv \/ UnlockedInv
  BY SInvInit, UnlockedStart
<1>2. (SInv \/ UnlockedInv) /\ [Next]_vars => (SInv \/ UnlockedInv)'
  BY SInvNext, UnlockedNext DEF SInv
<1>3. (SInv \/ UnlockedInv) /\ [Next]_vars =>
        [~met' /\ Blocks' # Blocks => \E p \in Procs : call[p].pc = "rename" /\ Blocks' = call[p].data]_vars
  BY BlocksStep, LockedIsEffective, UnlockedIsEffective
<1> QED
  BY <1>1, <1>2, <1>3, PTL DEF Spec, WholeUnlessOverlapped

\* A save that met no other and no fault leaves exactly its list in effect,
\* whatever overlapping saves have done before.
THEOREM LoneSaveAlwaysTakesEffect == Spec => LoneSaveTakesEffect
<1>1. Init => SInv \/ UnlockedInv
  BY SInvInit, UnlockedStart
<1>2. (SInv \/ UnlockedInv) /\ [Next]_vars => (SInv \/ UnlockedInv)'
  BY SInvNext, UnlockedNext DEF SInv
<1>3. (SInv \/ UnlockedInv) /\ [Next]_vars =>
        [\A p \in lone : call[p].pc = "rename" /\ call'[p].pc = "idle" /\ faults' = faults
                         => Blocks' = call[p].data]_vars
  BY LoneStep, LockedIsEffective, UnlockedIsEffective
<1> QED
  BY <1>1, <1>2, <1>3, PTL DEF Spec, LoneSaveTakesEffect

\* The request store's load, change and save by a temporary file and a rename
\* are one update of a list, for every number of goroutines, calls and faults.
THEOREM StoreIsAtomic == Spec => ImplementsAtomicFile
<1>1. Locked /\ Init => SInv
  BY SInvInit
<1>2. SInv /\ [Next]_vars => SInv'
  BY SInvNext DEF SInv
<1>3. ~Locked /\ [Next]_vars => ~Locked'
  BY StaysUnlocked
<1>4. Init => ListView!Init
  BY DEF Init, ListView!Init, Content, Missing
<1>5. SInv /\ SInv' /\ [Next]_vars => [ListView!Next]_(ListView!afVars)
  <2> SUFFICES ASSUME SInv, SInv', [Next]_vars PROVE [ListView!Next]_(ListView!afVars)
    OBVIOUS
  <2>1. Locked /\ Locked' /\ [List!Next]_<<Content, stored>>
    BY SInvNext DEF SInv
  <2>2. CASE List!Next
    BY <2>1, <2>2 DEF List!Next, List!Create, List!Revise, List!Fresh,
       ListView!Next, ListView!Create, ListView!Revise, ListView!Fresh
  <2>3. CASE UNCHANGED <<Content, stored>>
    BY <2>1, <2>3 DEF ListView!afVars
  <2> QED
    BY <2>1, <2>2, <2>3
<1>6. ~Locked /\ ~Locked' => [ListView!Next]_(ListView!afVars)
  BY DEF ListView!afVars
<1> QED
  BY <1>1, <1>2, <1>3, <1>4, <1>5, <1>6, PTL DEF Spec, ImplementsAtomicFile, ListView!Spec
=============================================================================
