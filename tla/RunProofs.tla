------------------------------- MODULE RunProofs -------------------------------
(***************************************************************************)
(* What an approved command runs with, for every value of the constants:   *)
(* the permissions it is accepted under (Permissions), the values of its   *)
(* vault (VaultRead), and its run (ScopedRun).  The three share no         *)
(* variable; each has a part of its own below.                             *)
(***************************************************************************)
EXTENDS Permissions, VaultRead, ScopedRun, FiniteSetTheorems, SequenceTheorems, TLAPS

(***************************************************************************)
(* Permissions                                                             *)
(***************************************************************************)
GivenIn(k, id) == \E g \in given : g.id = id /\ SourceOf(g) = k

\* Ids are given in order; what is revoked was given, and a rewrite leaves it out.
GivenOK ==
  /\ IsFiniteSet(given) /\ Cardinality(given) <= MaxGrants
  /\ \A g \in given : g.id <= Cardinality(given)
  /\ \A id \in reported : \E g \in given : g.id = id
  /\ \A s \in sought : GivenIn(s.source, s.id)
  /\ \A k \in Sources :
       IF Locked(k) THEN GivenIn(k, loaded[k].id) /\ \A g \in loaded[k].keep : g.id # loaded[k].id
                    ELSE loaded[k].keep = {}

\* What a file holds, or will hold again after a rewrite of it.
HeldIn(k) == GrantsIn(grants[k]) \cup loaded[k].keep

\* A file holds only grants of its kind that were given, and a revoked one only
\* when it had been loaded by then.
Known ==
  \A k \in Sources : \A g \in HeldIn(k) :
    g \in given /\ SourceOf(g) = k /\ (g.id \in reported => g.id \in exposed)

\* What was given and neither revoked nor lost with an unended line stays in its
\* file, and in every rewrite of it, until it expires.
Stays ==
  \A g \in given :
    g.id \notin reported \cup swallowed /\ clock < g.expires =>
      LET k == SourceOf(g) IN
      /\ g \in GrantsIn(grants[k])
      /\ Locked(k) => g \in loaded[k].keep \/ g.id = loaded[k].id

PermissionsInv == PermissionsTypeOK /\ GivenOK /\ Known /\ Stays
-----------------------------------------------------------------------------
\* A grant is no other line, and what expires does so before Never.
LEMMA GrantsAndLines ==
  /\ Comment \notin Grant /\ LongLine \notin Grant /\ NoLine \notin Grant /\ NoLine # LongLine
  /\ Never \in Nat /\ Never > MaxClock
  /\ \A g \in Grant : SourceOf(g) \in Sources
<1>1. \A g \in Grant : g.id \in 1..MaxGrants
  BY DEF Grant
<1>2. Comment.id = 0 /\ LongLine.id = 0 /\ NoLine.id = 0
  BY DEF Comment, LongLine, NoLine
<1>3. NoLine # LongLine
  <2>1. "long" \in DOMAIN LongLine /\ "long" \notin DOMAIN NoLine
    BY DEF LongLine, NoLine
  <2> QED
    BY <2>1
<1> QED
  BY <1>1, <1>2, <1>3, PermissionsAssumption DEF Never, SourceOf, Sources

\* The grants of a file are those among its lines.
LEMMA FileGrants ==
  ASSUME NEW file \in GrantFile
  PROVE  GrantsIn(file) = {g \in Grant : g \in file.lines \/ g = file.last}
BY GrantsAndLines DEF GrantFile, Line, GrantsIn, LinesOf

\* A file that a rewrite leaves holds what the rewrite kept.
LEMMA Rewritten ==
  ASSUME NEW keep \in SUBSET Grant
  PROVE  /\ [lines |-> keep, last |-> NoLine] \in GrantFile
         /\ GrantsIn([lines |-> keep, last |-> NoLine]) = keep
<1>1. [lines |-> keep, last |-> NoLine] \in GrantFile
  BY DEF GrantFile, Line
<1> QED
  BY <1>1, FileGrants, GrantsAndLines

\* An append adds a grant, or costs it and the last line that was not ended.
LEMMA Appended ==
  ASSUME NEW file \in GrantFile, NEW g \in Grant
  PROVE  /\ AppendGrant(file, g) \in GrantFile /\ Swallowed(file, g) \subseteq 1..MaxGrants
         /\ GrantsIn(AppendGrant(file, g)) \subseteq GrantsIn(file) \cup {g}
         /\ \A h \in GrantsIn(file) \cup {g} :
              h \in GrantsIn(AppendGrant(file, g)) \/ h.id \in Swallowed(file, g)
<1> DEFINE line == CASE file.last = NoLine   -> g
                     [] file.last = LongLine -> LongLine
                     [] OTHER                -> Comment
           new == [lines |-> file.lines \cup {line}, last |-> NoLine]
<1>1. AppendGrant(file, g) = new
  BY DEF AppendGrant
<1>2. line \in Line /\ (line \in Grant => line = g) /\ (file.last = NoLine => line = g)
  <2>1. CASE file.last = NoLine
    <3>1. line = g
      BY <2>1, GrantsAndLines
    <3> QED
      BY <3>1 DEF Line
  <2>2. CASE file.last = LongLine
    <3>1. line = LongLine
      BY <2>2, GrantsAndLines
    <3> QED
      BY <2>2, <3>1, GrantsAndLines DEF Line
  <2>3. CASE file.last \notin {NoLine, LongLine}
    <3>1. line = Comment
      BY <2>3
    <3> QED
      BY <2>3, <3>1, GrantsAndLines DEF Line
  <2> QED
    BY <2>1, <2>2, <2>3
<1>3. new \in GrantFile
  BY <1>2 DEF GrantFile
<1>4. GrantsIn(new) = {h \in Grant : h \in file.lines \cup {line}}
  BY <1>3, FileGrants, GrantsAndLines
<1>5. GrantsIn(file) = {h \in Grant : h \in file.lines \/ h = file.last}
  BY FileGrants
<1> HIDE DEF line, new
<1>6. Swallowed(file, g) \subseteq 1..MaxGrants
  BY DEF Swallowed, Grant
<1>7. ASSUME NEW h \in GrantsIn(file) \cup {g}
      PROVE  h \in GrantsIn(new) \/ h.id \in Swallowed(file, g)
  <2>1. CASE file.last = NoLine
    BY <1>2, <1>4, <1>5, <2>1, GrantsAndLines
  <2>2. CASE file.last # NoLine
    <3>1. Swallowed(file, g) = {g.id} \cup {x.id : x \in {file.last} \cap Grant}
      BY <2>2 DEF Swallowed
    <3> QED
      BY <1>4, <1>5, <3>1
  <2> QED
    BY <2>1, <2>2
<1> QED
  BY <1>1, <1>2, <1>3, <1>4, <1>5, <1>6, <1>7

\* Before anything is decided.
LEMMA PermissionsStart == PermissionsInit => PermissionsInv
<1> SUFFICES ASSUME PermissionsInit PROVE PermissionsInv
  OBVIOUS
<1>1. NoFile \in GrantFile /\ GrantsIn(NoFile) = {}
  BY Rewritten DEF NoFile
<1>2. NoRewrite \in [id : 0..MaxGrants, keep : SUBSET Grant] /\ NoRewrite.id = 0 /\ NoRewrite.keep = {}
  BY PermissionsAssumption DEF NoRewrite
<1>3. \A k \in Sources : grants[k] = NoFile /\ loaded[k] = NoRewrite
  BY DEF PermissionsInit
<1>4. PermissionsTypeOK
  BY <1>1, <1>2, PermissionsAssumption DEF PermissionsInit, PermissionsTypeOK
<1>5. GivenOK
  BY <1>2, <1>3, FS_EmptySet, PermissionsAssumption DEF PermissionsInit, GivenOK, Locked
<1>6. Known /\ Stays
  BY <1>1, <1>2, <1>3 DEF PermissionsInit, Known, Stays, HeldIn
<1> QED
  BY <1>4, <1>5, <1>6 DEF PermissionsInv

\* A decision adds one grant, with an id that nothing has had.
LEMMA DecideKeeps ==
  ASSUME PermissionsInv, NEW r \in asked, NEW m \in Modes, Decide(r, m)
  PROVE  PermissionsInv'
<1> DEFINE n == Cardinality(given) + 1
           new == [id |-> n, profile |-> r.profile, resource |-> r.resource,
                   expires |-> Expiry(m)]
           k == SourceOf(new)
<1>1. /\ n \in 1..MaxGrants /\ Cardinality(given) \in Nat
      /\ \A g \in given : g \in Grant /\ g.id \in Nat /\ g.id < n
      /\ n \notin reported
  <2>1. IsFiniteSet(given) /\ Cardinality(given) \in Nat
    BY FS_CardinalityType DEF PermissionsInv, GivenOK
  <2>2. Cardinality(given) < MaxGrants
    BY DEF Decide
  <2> QED
    BY <2>1, <2>2, PermissionsAssumption
    DEF PermissionsInv, PermissionsTypeOK, GivenOK, Grant
<1>2. Expiry(m) \in 1..Never
  <2>1. clock \in Nat /\ clock <= MaxClock
    BY PermissionsAssumption DEF PermissionsInv, PermissionsTypeOK
  <2> QED
    BY <2>1, PermissionsAssumption DEF Expiry, Never, Modes
<1>3. new \in Grant /\ new \notin given /\ new.id = n
  <2>1. r.profile \in Profiles /\ r.resource \in Texts
    BY DEF PermissionsInv, PermissionsTypeOK
  <2> QED
    BY <1>1, <1>2, <2>1 DEF Grant
<1>4. /\ given' = given \cup {new} /\ asked' \subseteq asked
      /\ grants' = [grants EXCEPT ![k] = AppendGrant(grants[k], new)]
      /\ swallowed' = swallowed \cup Swallowed(grants[k], new)
      /\ UNCHANGED <<config, sought, loaded, reported, exposed, clock, edits>>
      /\ ~Locked(k)
  BY DEF Decide, revocationVars
<1> HIDE DEF new
<1>5. k \in Sources /\ grants[k] \in GrantFile /\ DOMAIN grants = Sources
  BY <1>3, GrantsAndLines DEF PermissionsInv, PermissionsTypeOK
<1> HIDE DEF k
<1>6. /\ grants'[k] \in GrantFile /\ swallowed' \subseteq 1..MaxGrants
      /\ \A l \in Sources \ {k} : grants'[l] = grants[l]
      /\ GrantsIn(grants'[k]) \subseteq GrantsIn(grants[k]) \cup {new}
      /\ \A h \in GrantsIn(grants[k]) \cup {new} : h \in GrantsIn(grants'[k]) \/ h.id \in swallowed'
  BY <1>3, <1>4, <1>5, Appended DEF PermissionsInv, PermissionsTypeOK
<1>7. PermissionsTypeOK'
  <2>1. \A g, h \in given' : g.id = h.id => g = h
    BY <1>1, <1>3, <1>4 DEF PermissionsInv, PermissionsTypeOK
  <2>2. grants' \in [Sources -> GrantFile]
    BY <1>4, <1>5, <1>6 DEF PermissionsInv, PermissionsTypeOK
  <2> QED
    BY <1>3, <1>4, <1>6, <2>1, <2>2 DEF PermissionsInv, PermissionsTypeOK
<1>8. GivenOK'
  <2>1. IsFiniteSet(given') /\ Cardinality(given') = n
    BY <1>3, <1>4, FS_AddElement DEF PermissionsInv, GivenOK
  <2>2. \A g \in given' : g.id <= n
    BY <1>1, <1>3, <1>4
  <2>3. \A id \in reported' : \E g \in given' : g.id = id
    BY <1>4 DEF PermissionsInv, GivenOK
  <2>4. \A s \in sought' : \E g \in given' : g.id = s.id /\ SourceOf(g) = s.source
    BY <1>4 DEF PermissionsInv, GivenOK, GivenIn
  <2>5. \A l \in Sources :
          IF loaded[l].id # 0
            THEN /\ \E g \in given' : g.id = loaded[l].id /\ SourceOf(g) = l
                 /\ \A g \in loaded[l].keep : g.id # loaded[l].id
            ELSE loaded[l].keep = {}
    BY <1>4 DEF PermissionsInv, GivenOK, GivenIn, Locked
  <2>6. n <= MaxGrants
    BY <1>1, PermissionsAssumption
  <2> HIDE DEF n
  <2> QED
    BY <1>4, <2>1, <2>2, <2>3, <2>4, <2>5, <2>6 DEF GivenOK, GivenIn, Locked
<1>9. Known'
  <2> SUFFICES ASSUME NEW l \in Sources, NEW g \in HeldIn(l)'
               PROVE  g \in given' /\ SourceOf(g) = l /\ (g.id \in reported => g.id \in exposed)
    BY <1>4 DEF Known
  <2>1. g \in HeldIn(l) \/ (l = k /\ g = new)
    BY <1>4, <1>6 DEF HeldIn
  <2> QED
    BY <1>1, <1>3, <1>4, <2>1 DEF PermissionsInv, Known, k
<1>10. Stays'
  <2> SUFFICES ASSUME NEW g \in given', g.id \notin reported \cup swallowed', clock < g.expires
               PROVE  /\ g \in GrantsIn(grants'[SourceOf(g)])
                      /\ Locked(SourceOf(g)) => \/ g \in loaded[SourceOf(g)].keep
                                                \/ g.id = loaded[SourceOf(g)].id
    BY <1>4 DEF Stays, Locked
  <2>1. CASE g = new
    BY <1>4, <1>6, <2>1 DEF k
  <2>2. CASE g \in given
    <3>1. g \in Grant /\ SourceOf(g) \in Sources
      BY <1>1, <2>2, GrantsAndLines
    <3>2. /\ g \in GrantsIn(grants[SourceOf(g)])
          /\ Locked(SourceOf(g)) => \/ g \in loaded[SourceOf(g)].keep
                                    \/ g.id = loaded[SourceOf(g)].id
      BY <1>4, <2>2 DEF PermissionsInv, Stays
    <3> QED
      BY <1>6, <3>1, <3>2
  <2> QED
    BY <1>4, <2>1, <2>2
<1> QED
  BY <1>7, <1>8, <1>9, <1>10 DEF PermissionsInv

\* A report concerns no grant of the other file, and leaves none of this one that
\* is not marked as exposed, once the file holds none of what was reported.
LEMMA ReportKnows ==
  ASSUME PermissionsInv, NEW k \in Sources, NEW ids \in SUBSET (1..MaxGrants), Report(k, ids),
         \A id \in ids : GivenIn(k, id),
         UNCHANGED given,
         \A l \in Sources : HeldIn(l)' \subseteq HeldIn(l),
         \A g \in HeldIn(k)' : g.id \in ids => g \in loaded[k].keep
  PROVE  /\ Known' /\ reported' \subseteq 1..MaxGrants /\ exposed' \subseteq reported'
         /\ reported' = reported \cup ids
         /\ \A id \in reported' : \E g \in given' : g.id = id
<1>1. reported' = reported \cup ids /\ exposed' \subseteq exposed \cup ids
  BY DEF Report
<1>2. ASSUME NEW l \in Sources, NEW g \in HeldIn(l)'
      PROVE  g \in given' /\ SourceOf(g) = l /\ (g.id \in reported' => g.id \in exposed')
  <2>1. g \in given /\ SourceOf(g) = l /\ (g.id \in reported => g.id \in exposed)
    BY <1>2 DEF PermissionsInv, Known
  <2>2. CASE g.id \notin ids
    BY <1>1, <2>1, <2>2 DEF Report
  <2>3. CASE g.id \in ids
    <3>1. l = k
      BY <2>1, <2>3 DEF GivenIn, PermissionsInv, PermissionsTypeOK
    <3>2. g \in loaded[k].keep
      BY <1>2, <2>3, <3>1
    <3> QED
      BY <2>1, <2>3, <3>2 DEF Report
  <2> QED
    BY <2>2, <2>3
<1> QED
  BY <1>1, <1>2 DEF Known, PermissionsInv, PermissionsTypeOK, GivenOK, GivenIn

\* To look for a grant, and to give up, change no file.
LEMMA SeekKeeps ==
  ASSUME PermissionsInv, NEW k \in Sources,
         (\E id \in 1..MaxGrants : Seek(k, id)) \/ GiveUpRevoking(k)
  PROVE  PermissionsInv'
<1>1. UNCHANGED <<config, asked, grants, given, reported, exposed, swallowed, clock>>
  BY DEF Seek, GiveUpRevoking
<1>2. PermissionsTypeOK' /\ (\A s \in sought' : GivenIn(s.source, s.id)')
  <2>1. CASE \E id \in 1..MaxGrants : Seek(k, id)
    <3>1. PICK id \in 1..MaxGrants : Seek(k, id)
      BY <2>1
    <3>2. /\ sought' = sought \cup {[source |-> k, id |-> id]} /\ UNCHANGED loaded
          /\ edits' \in 0..MaxEdits
      BY <3>1, PermissionsAssumption DEF Seek, Edit, PermissionsInv, PermissionsTypeOK
    <3>3. GivenIn(k, id)
      BY <3>1 DEF Seek, Holds, GivenIn, HeldIn, PermissionsInv, Known
    <3> QED
      BY <1>1, <3>2, <3>3 DEF PermissionsInv, PermissionsTypeOK, GivenOK, GivenIn
  <2>2. CASE GiveUpRevoking(k)
    <3>1. sought' \subseteq sought /\ UNCHANGED edits
      BY <2>2 DEF GiveUpRevoking
    <3>2. loaded' = loaded \/ loaded' = [loaded EXCEPT ![k] = NoRewrite]
      BY <2>2 DEF GiveUpRevoking
    <3>3. NoRewrite \in [id : 0..MaxGrants, keep : SUBSET Grant]
      BY PermissionsAssumption DEF NoRewrite
    <3>4. loaded' \in [Sources -> [id : 0..MaxGrants, keep : SUBSET Grant]]
      BY <3>2, <3>3 DEF PermissionsInv, PermissionsTypeOK
    <3> QED
      BY <1>1, <3>1, <3>4 DEF PermissionsInv, PermissionsTypeOK, GivenOK, GivenIn
  <2> QED
    BY <2>1, <2>2
<1>3. \A l \in Sources : loaded'[l] = loaded[l] \/ (loaded'[l].id = 0 /\ loaded'[l].keep = {})
  <2>1. loaded' = loaded \/ loaded' = [loaded EXCEPT ![k] = NoRewrite]
    BY DEF Seek, GiveUpRevoking
  <2> QED
    BY <2>1 DEF NoRewrite, PermissionsInv, PermissionsTypeOK
<1>4. GivenOK'
  <2>1. \A l \in Sources :
          IF loaded'[l].id # 0 THEN GivenIn(l, loaded'[l].id) /\ \A g \in loaded'[l].keep : g.id # loaded'[l].id
                               ELSE loaded'[l].keep = {}
    BY <1>3 DEF PermissionsInv, GivenOK, Locked
  <2> QED
    BY <1>1, <1>2, <2>1 DEF PermissionsInv, GivenOK, GivenIn, Locked
<1>5. Known'
  <2>1. \A l \in Sources : HeldIn(l)' \subseteq HeldIn(l)
    BY <1>1, <1>3 DEF HeldIn
  <2> QED
    BY <1>1, <2>1 DEF PermissionsInv, Known
<1>6. Stays'
  <2>1. \A g \in given : SourceOf(g) \in Sources
    BY GrantsAndLines DEF PermissionsInv, PermissionsTypeOK
  <2> QED
    BY <1>1, <1>3, <2>1 DEF PermissionsInv, Stays, Locked
<1> QED
  BY <1>2, <1>4, <1>5, <1>6 DEF PermissionsInv

\* A revocation that has found its grant reports it, or loads what to keep.
LEMMA SoughtKeeps ==
  ASSUME PermissionsInv, NEW s \in sought, Gone(s) \/ Load(s)
  PROVE  PermissionsInv'
<1> DEFINE k == s.source
<1>1. /\ UNCHANGED <<config, asked, grants, given, swallowed, clock, edits>> /\ sought' \subseteq sought
      /\ k \in Sources /\ s.id \in 1..MaxGrants /\ GivenIn(k, s.id)
  BY DEF Gone, Load, PermissionsInv, PermissionsTypeOK, GivenOK
<1>2. CASE Report(k, {s.id}) /\ UNCHANGED loaded /\ ~Holds(grants[k], s.id)
  <2>1. \A l \in Sources : HeldIn(l)' = HeldIn(l)
    BY <1>1, <1>2 DEF HeldIn
  <2>2. \A g \in HeldIn(k)' : g.id \in {s.id} => g \in loaded[k].keep
    BY <1>2, <2>1, <1>1 DEF HeldIn, Holds
  <2>3. /\ Known' /\ reported' \subseteq 1..MaxGrants /\ exposed' \subseteq reported'
        /\ reported' = reported \cup {s.id}
        /\ \A id \in reported' : \E g \in given' : g.id = id
    <3>1. {s.id} \in SUBSET (1..MaxGrants) /\ \A id \in {s.id} : GivenIn(k, id)
      BY <1>1
    <3> HIDE DEF k
    <3> QED
      BY <1>1, <1>2, <2>1, <2>2, <3>1, ReportKnows
  <2>4. PermissionsTypeOK' /\ GivenOK' /\ Stays'
    BY <1>1, <1>2, <2>3 DEF PermissionsInv, PermissionsTypeOK, GivenOK, GivenIn, Stays, Locked
  <2> QED
    BY <2>3, <2>4 DEF PermissionsInv
<1>3. CASE Load(s) /\ Holds(grants[k], s.id)
  <2>1. /\ ~Locked(k) /\ UNCHANGED <<reported, exposed>>
        /\ loaded' = [loaded EXCEPT ![k] = [id |-> s.id, keep |-> Rewrite(grants[k], s.id)]]
    BY <1>3 DEF Load
  <2>2. Rewrite(grants[k], s.id) \subseteq GrantsIn(grants[k]) /\ GrantsIn(grants[k]) \subseteq Grant
    BY <1>1, FileGrants DEF Rewrite, PermissionsInv, PermissionsTypeOK
  <2>3. /\ loaded'[k].id = s.id /\ loaded'[k].keep = Rewrite(grants[k], s.id)
        /\ \A l \in Sources \ {k} : loaded'[l] = loaded[l]
    BY <1>1, <2>1 DEF PermissionsInv, PermissionsTypeOK
  <2>4. PermissionsTypeOK'
    <3>1. [id |-> s.id, keep |-> Rewrite(grants[k], s.id)] \in [id : 0..MaxGrants, keep : SUBSET Grant]
      BY <1>1, <2>2
    <3>2. loaded' \in [Sources -> [id : 0..MaxGrants, keep : SUBSET Grant]]
      BY <1>1, <2>1, <3>1 DEF PermissionsInv, PermissionsTypeOK
    <3> QED
      BY <1>1, <2>1, <3>2 DEF PermissionsInv, PermissionsTypeOK
  <2>5. GivenOK'
    <3>1. s.id # 0 /\ \A g \in Rewrite(grants[k], s.id) : g.id # s.id
      BY <1>1 DEF Rewrite
    <3>2. \A l \in Sources :
            IF loaded'[l].id # 0 THEN GivenIn(l, loaded'[l].id) /\ \A g \in loaded'[l].keep : g.id # loaded'[l].id
                                 ELSE loaded'[l].keep = {}
      BY <1>1, <2>3, <3>1 DEF PermissionsInv, GivenOK, Locked
    <3> QED
      BY <1>1, <2>1, <3>2 DEF PermissionsInv, GivenOK, GivenIn, Locked
  <2>6. Known'
    <3>1. \A l \in Sources : HeldIn(l)' \subseteq HeldIn(l)
      BY <1>1, <2>2, <2>3 DEF HeldIn
    <3> QED
      BY <1>1, <2>1, <3>1 DEF PermissionsInv, Known
  <2>7. Stays'
    <3>1. \A g \in given : SourceOf(g) \in Sources
      BY GrantsAndLines DEF PermissionsInv, PermissionsTypeOK
    <3> QED
      BY <1>1, <2>1, <2>3, <3>1 DEF PermissionsInv, Stays, Locked, Rewrite
  <2> QED
    BY <2>4, <2>5, <2>6, <2>7 DEF PermissionsInv
<1>4. Gone(s) => Report(k, {s.id}) /\ UNCHANGED loaded /\ ~Holds(grants[k], s.id)
  <2>1. GrantsIn(NoFile) = {}
    BY Rewritten DEF NoFile
  <2> QED
    BY <2>1 DEF Gone, Holds
<1>5. Load(s) => \/ Report(k, {s.id}) /\ UNCHANGED loaded /\ ~Holds(grants[k], s.id)
                 \/ Load(s) /\ Holds(grants[k], s.id)
  BY DEF Load
<1> QED
  BY <1>2, <1>3, <1>4, <1>5

\* The rewrite takes its grant out of the file, and no other that the file held
\* when it was loaded.
LEMMA SaveKeeps ==
  ASSUME PermissionsInv, NEW k \in Sources, Save(k)
  PROVE  PermissionsInv'
<1> DEFINE id == loaded[k].id
           keep == loaded[k].keep
           new == [lines |-> keep, last |-> NoLine]
<1>1. /\ UNCHANGED <<config, asked, sought, given, swallowed, clock, edits>> /\ Locked(k)
      /\ grants' = [grants EXCEPT ![k] = new] /\ loaded' = [loaded EXCEPT ![k] = NoRewrite]
      /\ Report(k, {id})
  BY DEF Save
<1>2. keep \in SUBSET Grant /\ new \in GrantFile /\ GrantsIn(new) = keep
  <2>1. keep \in SUBSET Grant
    BY DEF PermissionsInv, PermissionsTypeOK
  <2> QED
    BY <2>1, Rewritten
<1>3. /\ grants'[k] = new /\ loaded'[k].id = 0 /\ loaded'[k].keep = {}
      /\ \A l \in Sources \ {k} : grants'[l] = grants[l] /\ loaded'[l] = loaded[l]
  BY <1>1 DEF NoRewrite, PermissionsInv, PermissionsTypeOK
<1>4. /\ id \in 1..MaxGrants /\ GivenIn(k, id) /\ \A g \in keep : g.id # id
  BY <1>1, PermissionsAssumption DEF Locked, PermissionsInv, PermissionsTypeOK, GivenOK
<1> HIDE DEF new
<1>5. /\ Known' /\ reported' \subseteq 1..MaxGrants /\ exposed' \subseteq reported'
      /\ reported' = reported \cup {id}
      /\ \A i \in reported' : \E g \in given' : g.id = i
  <2>1. \A l \in Sources : HeldIn(l)' \subseteq HeldIn(l)
    BY <1>2, <1>3 DEF HeldIn
  <2>2. HeldIn(k)' = keep
    BY <1>2, <1>3 DEF HeldIn
  <2>3. \A g \in HeldIn(k)' : g.id \in {id} => g \in loaded[k].keep
    BY <2>2
  <2>4. {id} \in SUBSET (1..MaxGrants) /\ \A i \in {id} : GivenIn(k, i)
    BY <1>4
  <2> HIDE DEF id, keep
  <2> QED
    BY <1>1, <2>1, <2>3, <2>4, ReportKnows
<1>6. PermissionsTypeOK'
  <2>1. grants' \in [Sources -> GrantFile]
    BY <1>1, <1>2 DEF PermissionsInv, PermissionsTypeOK
  <2>2. loaded' \in [Sources -> [id : 0..MaxGrants, keep : SUBSET Grant]]
    BY <1>1, PermissionsAssumption DEF NoRewrite, PermissionsInv, PermissionsTypeOK
  <2> QED
    BY <1>1, <1>5, <2>1, <2>2 DEF PermissionsInv, PermissionsTypeOK
<1>7. GivenOK'
  <2>1. \A l \in Sources :
          IF loaded'[l].id # 0 THEN GivenIn(l, loaded'[l].id) /\ \A g \in loaded'[l].keep : g.id # loaded'[l].id
                               ELSE loaded'[l].keep = {}
    BY <1>3 DEF PermissionsInv, GivenOK, Locked
  <2> QED
    BY <1>1, <1>5, <2>1 DEF PermissionsInv, GivenOK, GivenIn, Locked
<1>8. Stays'
  <2> SUFFICES ASSUME NEW g \in given, g.id \notin reported' \cup swallowed, clock < g.expires
               PROVE  /\ g \in GrantsIn(grants'[SourceOf(g)])
                      /\ loaded'[SourceOf(g)].id # 0 => \/ g \in loaded'[SourceOf(g)].keep
                                                       \/ g.id = loaded'[SourceOf(g)].id
    BY <1>1 DEF Stays, Locked
  <2>1. SourceOf(g) \in Sources
    BY GrantsAndLines DEF PermissionsInv, PermissionsTypeOK
  <2>2. /\ g \in GrantsIn(grants[SourceOf(g)])
        /\ loaded[SourceOf(g)].id # 0 => \/ g \in loaded[SourceOf(g)].keep
                                         \/ g.id = loaded[SourceOf(g)].id
    BY <1>5 DEF PermissionsInv, Stays, Locked
  <2>3. g.id # id
    BY <1>5
  <2>4. CASE SourceOf(g) = k
    BY <1>1, <1>2, <1>3, <2>2, <2>3, <2>4 DEF Locked
  <2>5. CASE SourceOf(g) # k
    BY <1>3, <2>1, <2>2, <2>5
  <2> QED
    BY <2>4, <2>5
<1> QED
  BY <1>5, <1>6, <1>7, <1>8 DEF PermissionsInv

\* To revoke all of a kind removes its file, and what a rewrite of it will bring
\* back is exposed.
LEMMA RevokeAllKeeps ==
  ASSUME PermissionsInv, NEW k \in Sources, RevokeAll(k)
  PROVE  PermissionsInv'
<1> DEFINE ids == {g.id : g \in GrantsIn(grants[k])}
<1>1. /\ UNCHANGED <<config, asked, sought, loaded, given, swallowed, clock>>
      /\ grants' = [grants EXCEPT ![k] = NoFile] /\ Report(k, ids)
      /\ edits' \in 0..MaxEdits
  BY PermissionsAssumption DEF RevokeAll, Edit, PermissionsInv, PermissionsTypeOK
<1>2. NoFile \in GrantFile /\ GrantsIn(NoFile) = {}
  BY Rewritten DEF NoFile
<1>3. grants'[k] = NoFile /\ \A l \in Sources \ {k} : grants'[l] = grants[l]
  BY <1>1 DEF PermissionsInv, PermissionsTypeOK
<1>4. \A g \in GrantsIn(grants[k]) : g \in given /\ SourceOf(g) = k /\ g.id \in 1..MaxGrants
  BY DEF PermissionsInv, PermissionsTypeOK, Known, HeldIn, Grant
<1>5. ids \in SUBSET (1..MaxGrants) /\ \A id \in ids : GivenIn(k, id)
  BY <1>4 DEF GivenIn
<1>6. \A g \in GrantsIn(grants[k]) : g.id \in ids
  OBVIOUS
<1> HIDE DEF ids
<1>7. /\ Known' /\ reported' \subseteq 1..MaxGrants /\ exposed' \subseteq reported'
      /\ reported' = reported \cup ids
      /\ \A id \in reported' : \E g \in given' : g.id = id
  <2>1. \A l \in Sources : HeldIn(l)' \subseteq HeldIn(l)
    BY <1>1, <1>2, <1>3 DEF HeldIn
  <2>2. HeldIn(k)' = loaded[k].keep
    BY <1>1, <1>2, <1>3 DEF HeldIn
  <2> QED
    BY <1>1, <1>5, <2>1, <2>2, ReportKnows
<1>8. PermissionsTypeOK'
  <2>1. grants' \in [Sources -> GrantFile]
    BY <1>1, <1>2 DEF PermissionsInv, PermissionsTypeOK
  <2> QED
    BY <1>1, <1>7, <2>1 DEF PermissionsInv, PermissionsTypeOK
<1>9. GivenOK'
  BY <1>1, <1>7 DEF PermissionsInv, GivenOK, GivenIn, Locked
<1>10. Stays'
  <2> SUFFICES ASSUME NEW g \in given, g.id \notin reported' \cup swallowed, clock < g.expires
               PROVE  /\ g \in GrantsIn(grants'[SourceOf(g)])
                      /\ Locked(SourceOf(g)) => \/ g \in loaded[SourceOf(g)].keep
                                                \/ g.id = loaded[SourceOf(g)].id
    BY <1>1 DEF Stays, Locked
  <2>1. SourceOf(g) \in Sources
    BY GrantsAndLines DEF PermissionsInv, PermissionsTypeOK
  <2>2. /\ g \in GrantsIn(grants[SourceOf(g)])
        /\ Locked(SourceOf(g)) => \/ g \in loaded[SourceOf(g)].keep
                                  \/ g.id = loaded[SourceOf(g)].id
    BY <1>7 DEF PermissionsInv, Stays
  <2>3. SourceOf(g) # k
    BY <1>6, <1>7, <2>2
  <2> QED
    BY <1>3, <2>1, <2>2, <2>3
<1> QED
  BY <1>7, <1>8, <1>9, <1>10 DEF PermissionsInv

\* Pruning takes out what has expired.
LEMMA PruneKeeps == ASSUME PermissionsInv, Prune PROVE PermissionsInv'
<1> DEFINE k == "temporal"
           keep == {g \in GrantsIn(grants[k]) : clock < g.expires}
           new == [lines |-> keep, last |-> NoLine]
<1>1. /\ UNCHANGED <<config, asked, sought, loaded, reported, exposed, given, swallowed, clock>>
      /\ grants' = [grants EXCEPT ![k] = new] /\ ~Locked(k) /\ edits' \in 0..MaxEdits
  BY PermissionsAssumption DEF Prune, Edit, revocationVars, PermissionsInv, PermissionsTypeOK
<1>2. k \in Sources /\ grants \in [Sources -> GrantFile]
  BY DEF Sources, PermissionsInv, PermissionsTypeOK
<1>3. keep \in SUBSET Grant
  BY <1>2, FileGrants
<1>4. new \in GrantFile /\ GrantsIn(new) = keep
  BY <1>3, Rewritten
<1>5. grants'[k] = new /\ \A l \in Sources \ {k} : grants'[l] = grants[l]
  BY <1>1, <1>2
<1>6. PermissionsTypeOK'
  <2>1. grants' \in [Sources -> GrantFile]
    BY <1>1, <1>2, <1>4
  <2> QED
    BY <1>1, <2>1 DEF PermissionsInv, PermissionsTypeOK
<1>7. GivenOK'
  BY <1>1 DEF PermissionsInv, GivenOK, GivenIn, Locked
<1>8. Known'
  <2>1. \A l \in Sources : HeldIn(l)' \subseteq HeldIn(l)
    BY <1>1, <1>4, <1>5 DEF HeldIn
  <2> QED
    BY <1>1, <2>1 DEF PermissionsInv, Known
<1>9. Stays'
  <2>1. \A g \in given : SourceOf(g) \in Sources
    BY GrantsAndLines DEF PermissionsInv, PermissionsTypeOK
  <2> HIDE DEF new
  <2> QED
    BY <1>1, <1>4, <1>5, <2>1 DEF PermissionsInv, Stays, Locked
<1> QED
  BY <1>6, <1>7, <1>8, <1>9 DEF PermissionsInv

\* The other steps leave the grants in the files as they are.
LEMMA OthersKeep ==
  ASSUME PermissionsInv,
         \/ \E p \in Profiles, t \in Texts : Ask(p, t)
         \/ \E k \in Sources, line \in Line, ended \in BOOLEAN : EditByHand(k, line, ended)
         \/ Restart \/ Tick \/ UNCHANGED permissionVars
  PROVE  PermissionsInv'
<1>1. UNCHANGED <<sought, loaded, reported, exposed, given, swallowed>>
  BY DEF Ask, EditByHand, Restart, Tick, permissionVars, revocationVars
<1>2. clock \in Nat /\ clock' \in 0..MaxClock /\ clock <= clock' /\ \A g \in given : g.expires \in Nat
  BY GrantsAndLines, PermissionsAssumption
  DEF Ask, EditByHand, Restart, Tick, permissionVars, PermissionsInv, PermissionsTypeOK, Grant
<1>3. /\ grants' \in [Sources -> GrantFile]
      /\ \A l \in Sources : GrantsIn(grants'[l]) = GrantsIn(grants[l])
  <2>1. ASSUME NEW k \in Sources, NEW line \in Line, NEW ended \in BOOLEAN, EditByHand(k, line, ended)
        PROVE  /\ grants' \in [Sources -> GrantFile]
               /\ \A l \in Sources : GrantsIn(grants'[l]) = GrantsIn(grants[l])
    <3> DEFINE file == grants[k]
               lines == LinesOf(file)
               new == IF ended THEN [lines |-> lines \cup {line}, last |-> NoLine]
                               ELSE [lines |-> lines \ ({line} \cap Grant), last |-> line]
    <3>1. file \in GrantFile /\ line \in {Comment, LongLine} \cup GrantsIn(file)
      BY <2>1 DEF EditByHand, PermissionsInv, PermissionsTypeOK
    <3>2. lines \subseteq Line
      BY <3>1 DEF LinesOf, GrantFile
    <3>3. new \in GrantFile
      BY <3>2 DEF GrantFile
    <3>4. grants' = [grants EXCEPT ![k] = new]
      BY <2>1 DEF EditByHand
    <3>5. GrantsIn(file) = lines \cap Grant
      BY <3>1, FileGrants, GrantsAndLines DEF LinesOf
    <3>6. GrantsIn(new) = lines \cap Grant
      <4>1. GrantsIn(new) = {g \in Grant : g \in new.lines \/ g = new.last}
        BY <3>3, FileGrants
      <4>2. CASE ended
        BY <3>1, <3>5, <4>1, <4>2, GrantsAndLines
      <4>3. CASE ~ended
        BY <3>1, <3>5, <4>1, <4>3, GrantsAndLines
      <4> QED
        BY <4>2, <4>3
    <3> HIDE DEF new
    <3> QED
      BY <3>3, <3>4, <3>5, <3>6 DEF PermissionsInv, PermissionsTypeOK
  <2>2. CASE UNCHANGED grants
    BY <2>2 DEF PermissionsInv, PermissionsTypeOK
  <2> QED
    BY <2>1, <2>2 DEF Ask, Restart, Tick, permissionVars
<1>4. PermissionsTypeOK'
  <2>1. config' \in Configs
    BY DEF Ask, EditByHand, Restart, Tick, permissionVars, PermissionsInv, PermissionsTypeOK
  <2>2. asked' \subseteq [profile : Profiles, resource : Texts]
    BY DEF Ask, EditByHand, Restart, Tick, permissionVars, PermissionsInv, PermissionsTypeOK
  <2>3. edits' \in 0..MaxEdits
    BY PermissionsAssumption
    DEF Ask, EditByHand, Edit, Restart, Tick, permissionVars, PermissionsInv, PermissionsTypeOK
  <2> QED
    BY <1>1, <1>2, <1>3, <2>1, <2>2, <2>3 DEF PermissionsInv, PermissionsTypeOK
<1>5. GivenOK'
  BY <1>1 DEF PermissionsInv, GivenOK, GivenIn, Locked
<1>6. Known'
  BY <1>1, <1>3 DEF PermissionsInv, Known, HeldIn
<1>7. Stays'
  <2>1. \A g \in given : SourceOf(g) \in Sources /\ (clock' < g.expires => clock < g.expires)
    BY <1>2, GrantsAndLines DEF PermissionsInv, PermissionsTypeOK
  <2> QED
    BY <1>1, <1>3, <2>1 DEF PermissionsInv, Stays, Locked
<1> QED
  BY <1>4, <1>5, <1>6, <1>7 DEF PermissionsInv

\* The files hold what was given and not revoked, whatever the operator does.
THEOREM PermissionsInvariant == PermissionsSpec => []PermissionsInv
<1>1. ASSUME PermissionsInv, PermissionsNext PROVE PermissionsInv'
  <2>1. CASE Revoke
    BY <1>1, <2>1, SeekKeeps, SoughtKeeps, SaveKeeps, RevokeAllKeeps DEF Revoke
  <2> QED
    BY <1>1, <2>1, DecideKeeps, PruneKeeps, OthersKeep DEF PermissionsNext
<1>2. ASSUME PermissionsInv, UNCHANGED permissionVars PROVE PermissionsInv'
  BY <1>2, OthersKeep
<1> QED
  BY PermissionsStart, <1>1, <1>2, PTL DEF PermissionsSpec
-----------------------------------------------------------------------------
\* Beyond its static resources a profile has only those of grants the operator
\* gave for it that have not expired, and none that was revoked unless another
\* revocation had it loaded by then (permission_grants.go:145-175,
\* cmd_grants.go:295-384).
THEOREM OnlyGrantedAllowed == PermissionsSpec => []NothingElseAllowed
<1>1. ASSUME PermissionsInv PROVE NothingElseAllowed
  <2> SUFFICES ASSUME NEW p \in Profiles, NEW t \in Effective(p, clock) \ config.static[p]
               PROVE  \E g \in given : /\ Running(g) /\ g.profile = p /\ g.resource = t
                                       /\ (g.id \in reported => g.id \in exposed)
    BY DEF NothingElseAllowed
  <2>1. \/ \E g \in GrantsIn(grants["permanent"]) : g.profile = p /\ g.resource = t
        \/ \E g \in GrantsIn(grants["temporal"]) : g.profile = p /\ g.resource = t /\ ~Expired(g, clock)
    BY DEF Effective
  <2>2. /\ clock \in Nat /\ clock < Never
        /\ \A g \in given : g.expires \in Nat
    BY <1>1, GrantsAndLines, PermissionsAssumption DEF PermissionsInv, PermissionsTypeOK, Grant
  <2>3. \A k \in Sources : \A g \in GrantsIn(grants[k]) :
          g \in given /\ SourceOf(g) = k /\ (g.id \in reported => g.id \in exposed)
    BY <1>1 DEF PermissionsInv, Known, HeldIn
  <2>4. CASE \E g \in GrantsIn(grants["permanent"]) : g.profile = p /\ g.resource = t
    <3>1. PICK g \in GrantsIn(grants["permanent"]) : g.profile = p /\ g.resource = t
      BY <2>4
    <3>2. g \in given /\ SourceOf(g) = "permanent" /\ (g.id \in reported => g.id \in exposed)
      BY <2>3 DEF Sources
    <3>3. Running(g)
      BY <2>2, <3>2 DEF Running, SourceOf
    <3> QED
      BY <3>1, <3>2, <3>3
  <2>5. CASE \E g \in GrantsIn(grants["temporal"]) :
               g.profile = p /\ g.resource = t /\ ~Expired(g, clock)
    <3>1. PICK g \in GrantsIn(grants["temporal"]) :
            g.profile = p /\ g.resource = t /\ ~Expired(g, clock)
      BY <2>5
    <3>2. g \in given /\ (g.id \in reported => g.id \in exposed)
      BY <2>3 DEF Sources
    <3>3. Running(g)
      BY <2>2, <3>1, <3>2 DEF Running, Expired
    <3> QED
      BY <3>1, <3>2, <3>3
  <2> QED
    BY <2>1, <2>4, <2>5
<1> QED
  BY <1>1, PermissionsInvariant, PTL

\* What was granted can be used up to its expiry, unless its profile has become
\* the meta-profile, a line hides the file, or an append has lost it
\* (permission_grants.go:74-141, policy.go:58-65).
THEOREM GrantsAlwaysHonoured == PermissionsSpec => []GrantHonoured
<1>1. ASSUME PermissionsInv PROVE GrantHonoured
  <2> SUFFICES ASSUME NEW g \in given, Running(g), g.id \notin reported, g.expires # clock,
                      Extends(g.profile), ~Unreadable(grants[SourceOf(g)]), g.id \notin swallowed
               PROVE  g.resource \in Effective(g.profile, clock)
    BY DEF GrantHonoured
  <2>1. clock \in Nat /\ g.expires \in Nat /\ clock < g.expires
    <3>1. clock \in Nat /\ g \in Grant
      BY <1>1, PermissionsAssumption DEF PermissionsInv, PermissionsTypeOK
    <3>2. g.expires \in Nat
      BY <3>1, GrantsAndLines DEF Grant
    <3>3. clock <= g.expires /\ g.expires # clock
      BY DEF Running
    <3> QED
      BY <3>1, <3>2, <3>3
  <2>2. g \in GrantsIn(grants[SourceOf(g)])
    BY <1>1, <2>1 DEF PermissionsInv, Stays
  <2>3. ~Expired(g, clock)
    BY <2>1 DEF Expired
  <2>4. CASE SourceOf(g) = "permanent"
    BY <2>2, <2>4 DEF Effective
  <2>5. CASE SourceOf(g) # "permanent"
    <3>1. SourceOf(g) = "temporal"
      BY <2>5 DEF SourceOf
    <3> QED
      BY <2>2, <2>3, <3>1 DEF Effective
  <2> QED
    BY <2>4, <2>5
<1> QED
  BY <1>1, PermissionsInvariant, PTL

\* No grant extends the profile of upgrades itself (policy.go:58-65).
THEOREM MetaProfileStatic == PermissionsSpec => []NoSelfExtension
<1>1. NoSelfExtension
  BY DEF NoSelfExtension, Allowed, Effective, Extends
<1> QED
  BY <1>1, PTL

\* Nothing beyond configuration and grants is allowed, whatever expires, is
\* revoked, pruned, edited or restarted: the theorems above together.
THEOREM OnlyGrantedEver == PermissionsSpec => []OnlyGranted
<1>1. PermissionsInv => PermissionsTypeOK
  BY DEF PermissionsInv
<1> QED
  BY <1>1, PermissionsInvariant, OnlyGrantedAllowed, MetaProfileStatic, PTL DEF OnlyGranted
-----------------------------------------------------------------------------
(***************************************************************************)
(* VaultRead                                                               *)
(***************************************************************************)
Counts == [Outputs -> Nat]

VTypeOK ==
  /\ read \in Reads /\ stage \in {"token", "run", "done"} /\ token \in {"none", "blank", "token"}
  /\ binary \in {"none", "running", "succeeded", "failed", "killed"} /\ forked \in 0..Descendants
  /\ piped \in Counts /\ written \in Counts /\ kept \in Counts
  /\ exceeded \in [Outputs -> BOOLEAN]
  /\ elapsed \in 0..MaxElapsed /\ result \in Results

\* What one stream has taken is accounted for, byte by byte until the flag.
StreamOK(s) ==
  /\ piped[s] <= PipeRoom /\ written[s] <= MaxOutput /\ kept[s] <= Cap
  /\ IF exceeded[s] THEN written[s] > Cap ELSE written[s] = kept[s] + piped[s]

\* Nothing is running before the read is prepared, nor after it is done, and
\* then nothing is left to copy; so what the result was taken from stays.
PhaseOK ==
  /\ stage = "token" => binary = "none"
  /\ stage = "run" => binary # "none"
  /\ binary = "none" => forked = 0 /\ \A s \in Outputs : piped[s] = 0
  /\ binary # "none" => token = "token"
  /\ stage = "done" => binary # "running" /\ forked = 0 /\ \A s \in Outputs : piped[s] = 0

ResultOK ==
  stage = "done" =>
    /\ result.ok => /\ binary = "succeeded" /\ ~exceeded["stdout"]
                    /\ result.of = kept["stdout"] /\ kept["stdout"] > 0
    /\ ~result.ok => \/ binary \in {"none", "failed", "killed"}
                     \/ written["stdout"] \notin 1..Cap
                     \/ ~Meaningful

VInv == VTypeOK /\ (\A s \in Outputs : StreamOK(s)) /\ PhaseOK /\ ResultOK
-----------------------------------------------------------------------------
\* Initially nothing has run.
LEMMA InitVInv == ReadInit => VInv
<1> SUFFICES ASSUME ReadInit PROVE VInv
    OBVIOUS
<1> USE VaultReadAssumption DEF ReadInit
<1>1. VTypeOK
      BY DEF VTypeOK, Counts, Results, Failure, Outputs
<1>2. \A s \in Outputs : StreamOK(s)
      BY DEF StreamOK, Outputs
<1>3. PhaseOK /\ ResultOK
      BY DEF PhaseOK, ResultOK, Outputs
<1> QED BY <1>1, <1>2, <1>3 DEF VInv

\* What the child writes is in the pipe.
LEMMA OutputStep ==
  ASSUME VInv, NEW s \in Outputs, NEW n \in 1..PipeRoom, Output(s, n)
  PROVE  VInv'
<1> USE VaultReadAssumption
<1>0. stage = "run" /\ binary # "none" /\ n \in Nat
      BY DEF VInv, VTypeOK, PhaseOK, Output, Holders
<1>1. VTypeOK'
      BY <1>0 DEF VInv, VTypeOK, Counts, Output
<1>2. ASSUME NEW u \in Outputs PROVE StreamOK(u)'
  <2>1. StreamOK(u) /\ piped[u] \in Nat /\ written[u] \in Nat /\ kept[u] \in Nat
        BY DEF VInv, VTypeOK, Counts
  <2>2. CASE u = s
        BY <1>0, <2>1, <2>2 DEF StreamOK, Output, VInv, VTypeOK, Counts
  <2>3. CASE u # s
        BY <2>1, <2>3 DEF StreamOK, Output, VInv, VTypeOK, Counts
  <2> QED BY <2>2, <2>3
<1>3. PhaseOK' /\ ResultOK'
      BY <1>0 DEF VInv, PhaseOK, ResultOK, Output
<1> QED BY <1>1, <1>2, <1>3 DEF VInv

\* A write of the copier keeps everything or raises the flag.
LEMMA CopyStep ==
  ASSUME VInv, NEW s \in Outputs, NEW n \in 1..PipeRoom, CopyOutput(s, n)
  PROVE  VInv'
<1> USE VaultReadAssumption
<1>0. /\ piped[s] \in Nat /\ n \in Nat /\ n >= 1 /\ n <= piped[s]
      /\ kept[s] \in Nat /\ written[s] \in Nat /\ exceeded[s] \in BOOLEAN
      BY DEF VInv, VTypeOK, Counts, CopyOutput
<1>1. stage = "run" /\ binary # "none"
      BY <1>0 DEF VInv, VTypeOK, PhaseOK, CopyOutput
<1>2. Keep(s, n) \in Nat /\ Flag(s, n) \in BOOLEAN
      BY <1>0 DEF Keep, Flag
<1>3. VTypeOK'
      BY <1>0, <1>2 DEF VInv, VTypeOK, Counts, CopyOutput
<1>4. ASSUME NEW u \in Outputs PROVE StreamOK(u)'
  <2>1. StreamOK(u) /\ piped[u] \in Nat /\ written[u] \in Nat /\ kept[u] \in Nat
        BY DEF VInv, VTypeOK, Counts
  <2>2. CASE u = s
    <3>1. DOMAIN piped = Outputs /\ DOMAIN kept = Outputs /\ DOMAIN exceeded = Outputs
          BY DEF VInv, VTypeOK, Counts
    <3>2. /\ piped'[u] = piped[u] - n /\ written'[u] = written[u]
          /\ kept'[u] = Keep(s, n) /\ exceeded'[u] = Flag(s, n)
          BY <2>2, <3>1 DEF CopyOutput
    <3>3. Cap \in Nat /\ piped[s] <= PipeRoom /\ PipeRoom \in Nat /\ MaxOutput \in Nat
          BY <2>1, <2>2 DEF StreamOK
    <3>4. CASE exceeded[s]
      <4>1. exceeded'[u] = TRUE
            BY <3>2, <3>4 DEF Flag
      <4> QED BY <1>0, <2>1, <2>2, <3>2, <3>3, <3>4, <4>1 DEF StreamOK, Keep
    <3>5. CASE ~exceeded[s] /\ kept[s] + n > Cap
      <4>1. exceeded'[u] = TRUE
            BY <3>2, <3>5 DEF Flag
      <4> QED BY <1>0, <2>1, <2>2, <3>2, <3>3, <3>5, <4>1 DEF StreamOK, Keep
    <3>6. CASE ~exceeded[s] /\ ~(kept[s] + n > Cap)
      <4>1. exceeded'[u] = FALSE
            BY <3>2, <3>6 DEF Flag
      <4> QED BY <1>0, <2>1, <2>2, <3>2, <3>3, <3>6, <4>1 DEF StreamOK, Keep
    <3> QED BY <1>0, <3>4, <3>5, <3>6
  <2>3. CASE u # s
        BY <2>1, <2>3 DEF StreamOK, CopyOutput, VInv, VTypeOK, Counts
  <2> QED BY <2>2, <2>3
<1>5. PhaseOK' /\ ResultOK'
      BY <1>1 DEF VInv, PhaseOK, ResultOK, CopyOutput
<1> QED BY <1>3, <1>4, <1>5 DEF VInv

\* The read returns what was kept, when that is all, or refuses.
LEMMA FinishStep == ASSUME VInv, FinishRead PROVE VInv'
<1> USE VaultReadAssumption
<1>0. /\ binary # "none" /\ binary # "running" /\ forked = 0 /\ \A s \in Outputs : piped[s] = 0
      BY DEF VInv, VTypeOK, PhaseOK, FinishRead, Holders
<1>1. result' \in Results /\ stage' = "done"
      BY DEF FinishRead, Finished, Return, Results, Failure, VInv, VTypeOK, Counts, Outputs
<1>2. VTypeOK'
      BY <1>1 DEF VInv, VTypeOK, FinishRead
<1>3. \A s \in Outputs : StreamOK(s)'
      BY DEF VInv, StreamOK, FinishRead
<1>4. PhaseOK'
      BY <1>0, <1>1 DEF VInv, PhaseOK, FinishRead
<1>5. ResultOK'
  <2> DEFINE out == "stdout"
  <2>1. /\ out \in Outputs /\ StreamOK(out) /\ piped[out] = 0
        /\ kept[out] \in Nat /\ written[out] \in Nat /\ exceeded[out] \in BOOLEAN
        BY <1>0 DEF Outputs, VInv, VTypeOK, Counts
  <2>2. CASE binary = "succeeded" /\ ~exceeded[out] /\ kept[out] > 0 /\ Meaningful
        BY <2>1, <2>2 DEF ResultOK, FinishRead, Finished, Return
  <2>3. CASE ~(binary = "succeeded" /\ ~exceeded[out] /\ kept[out] > 0 /\ Meaningful)
    <3>1. ~result'.ok
          BY <2>3 DEF FinishRead, Finished, Return, Failure
    <3>2. binary \in {"failed", "killed"} \/ written[out] \notin 1..Cap \/ ~Meaningful
          BY <1>0, <2>1, <2>3 DEF StreamOK, VInv, VTypeOK
    <3> QED BY <3>1, <3>2 DEF ResultOK, Meaningful, FinishRead
  <2> QED BY <2>2, <2>3
<1> QED BY <1>2, <1>3, <1>4, <1>5 DEF VInv

\* The steps that move no byte.
LEMMA OtherStep ==
  ASSUME VInv,
         StartRead \/ StartFails \/ Fork \/ DescendantExit \/ ChildExit \/ KillAtTimeout \/ Elapse \/ UNCHANGED readVars
  PROVE  VInv'
<1> USE VaultReadAssumption
<1>0. UNCHANGED <<read, piped, written, kept, exceeded>>
      BY DEF StartRead, StartFails, Fork, DescendantExit, ChildExit, KillAtTimeout, Elapse, readVars
<1>1. \A s \in Outputs : StreamOK(s)'
      BY <1>0 DEF VInv, StreamOK
<1>2. CASE StartRead
  <2>1. CASE Usable(read) /\ (read.vault = "bw" => read.field)
    <3>1. read.raw = "token" /\ stage' = "run" /\ token' = read.raw /\ binary' = "running"
          BY <1>2, <2>1 DEF StartRead, Usable, SourceYields
    <3> QED BY <1>1, <1>2, <3>1 DEF VInv, VTypeOK, PhaseOK, ResultOK, StartRead
  <2>2. CASE ~(Usable(read) /\ (read.vault = "bw" => read.field))
    <3>1. stage' = "done" /\ result' = Failure /\ UNCHANGED <<token, binary>>
          BY <1>2, <2>2 DEF StartRead, Return
    <3> QED BY <1>1, <1>2, <3>1 DEF VInv, VTypeOK, PhaseOK, ResultOK, StartRead, Failure, Results
  <2> QED BY <2>1, <2>2
<1>3. CASE StartFails
  <2>1. stage = "token" /\ stage' = "done" /\ result' = Failure
        BY <1>3 DEF StartFails, Return
  <2> QED BY <1>1, <1>3, <2>1 DEF VInv, VTypeOK, PhaseOK, ResultOK, StartFails, Failure, Results
<1>f. /\ Descendants \in Nat /\ forked \in Nat /\ forked <= Descendants
      BY DEF VInv, VTypeOK
<1>4. CASE Fork
  <2>1. forked' \in 0..Descendants
        BY <1>4, <1>f DEF Fork
  <2> QED BY <1>1, <1>4, <2>1 DEF VInv, VTypeOK, PhaseOK, ResultOK, Fork, Meaningful
<1>5. CASE DescendantExit
  <2>1. forked' \in 0..Descendants /\ forked # 0
        BY <1>5, <1>f DEF DescendantExit
  <2>2. stage = "run" /\ binary # "none"
        BY <2>1 DEF VInv, VTypeOK, PhaseOK
  <2> QED BY <1>1, <1>5, <2>1, <2>2 DEF VInv, VTypeOK, PhaseOK, ResultOK, DescendantExit, Meaningful
<1>6. CASE ChildExit
      BY <1>1, <1>6 DEF VInv, VTypeOK, PhaseOK, ResultOK, ChildExit, Meaningful
<1>7. CASE KillAtTimeout
      BY <1>1, <1>7 DEF VInv, VTypeOK, PhaseOK, ResultOK, KillAtTimeout, Meaningful
<1>8. CASE Elapse
      BY <1>1, <1>8 DEF VInv, VTypeOK, PhaseOK, ResultOK, Elapse, Meaningful
<1>9. CASE UNCHANGED readVars
      BY <1>1, <1>9 DEF VInv, VTypeOK, PhaseOK, ResultOK, readVars, Meaningful
<1> QED BY <1>2, <1>3, <1>4, <1>5, <1>6, <1>7, <1>8, <1>9

\* The invariant of a vault read, whatever the child writes and when it dies.
THEOREM VaultInvariant == ReadSpec => []VInv
<1>1. VInv /\ [ReadNext]_readVars => VInv'
      BY OutputStep, CopyStep, FinishStep, OtherStep DEF ReadNext
<1> QED BY InitVInv, <1>1, PTL DEF ReadSpec
-----------------------------------------------------------------------------
\* Type correctness, with every byte accounted for.
THEOREM VaultTypeCorrect == ReadSpec => []ReadTypeOK
<1>1. VInv => ReadTypeOK
      BY VaultReadAssumption DEF VInv, VTypeOK, StreamOK, ReadTypeOK, Counts
<1> QED BY <1>1, VaultInvariant, PTL

\* A value is the whole output of a successful child (vault.go:38-62).
THEOREM ValuesAreWhole == ReadSpec => []WholeOrNothing
<1>1. VInv => WholeOrNothing
      BY DEF VInv, VTypeOK, StreamOK, PhaseOK, ResultOK, WholeOrNothing, Counts, Outputs
<1> QED BY <1>1, VaultInvariant, PTL

\* A read is refused only for a reason; the cap itself is none.
THEOREM RefusalsHaveAReason == ReadSpec => []RefusedForAReason
<1>1. VInv => RefusedForAReason
      BY DEF VInv, ResultOK, RefusedForAReason
<1> QED BY <1>1, VaultInvariant, PTL

\* The binary never runs without a token (vault.go:111-121).
THEOREM NeverWithoutToken == ReadSpec => []NoTokenNoRead
<1>1. VInv => NoTokenNoRead
      BY DEF VInv, PhaseOK, NoTokenNoRead
<1> QED BY <1>1, VaultInvariant, PTL

\* Vault reads yield whole values, and refuse for a reason, for every value of the
\* constants: the theorems above together.
THEOREM ReadsAlwaysSound == ReadSpec => []ReadSound
BY VaultTypeCorrect, ValuesAreWhole, RefusalsHaveAReason, NeverWithoutToken, PTL
   DEF ReadSound

(***************************************************************************)
(* ScopedRun                                                               *)
(***************************************************************************)
\* Everything written to a stream is shown, in the scanner's buffer, or in the
\* pipe, in this order; what is shown is redacted.
Carried(s) ==
  /\ Len(wrote[s]) = Len(shown[s]) + Len(buffer[s]) + Len(pipe[s])
  /\ \A i \in 1..Len(shown[s]) : shown[s][i].holds = wrote[s][i].holds \ (redactions \ MultiLine)
  /\ \A i \in 1..Len(buffer[s]) : buffer[s][i] = wrote[s][Len(shown[s]) + i]
  /\ \A i \in 1..Len(pipe[s]) : pipe[s][i] = wrote[s][Len(shown[s]) + Len(buffer[s]) + i]

\* A stream that was copied to its end.
Drained(s) == s \notin open /\ pipe[s] = <<>> /\ buffer[s] = <<>>

\* What is shown is whole lines, the last of them perhaps ended by the end of the
\* stream; what is in the buffer is the begin of one line.
InLines(s) ==
  /\ \A i \in 1..Len(shown[s]) : shown[s][i].last = (wrote[s][i].last \/ i = Len(wrote[s]))
  /\ Len(shown[s]) = 0 \/ wrote[s][Len(shown[s])].last \/ Drained(s)
  /\ \A i \in 1..(Len(buffer[s]) - 1) : ~buffer[s][i].last

\* A copy ends at the end of its stream, or with a full buffer and no newline.
DoneOK(s) ==
  pump[s] = "done" =>
    Drained(s) \/ (Len(buffer[s]) = LineSize /\ ~buffer[s][LineSize].last)

\* The values are at hand and redacted before the command starts; its files are
\* there as long as it runs, and gone when the run returns, for which both
\* copies must have ended.
PhasesOK ==
  /\ redactions = Redactable(resolved)
  /\ pc \in {"prepare", "files", "copy", "wait", "clean"} \/ child # "none" => resolved = Names
  /\ pc \in {"approved", "resolve", "prepare"} => dir = Absent
  /\ pc = "ended" => dir = Absent \/ stuck
  /\ pc \in {"copy", "wait"} => dir.files = Files
  /\ child = "running" => pc \in {"copy", "wait"}
  /\ pc \in {"approved", "resolve", "prepare", "files"} => child = "none"
  /\ child = "none" => open = {} /\ \A s \in Streams : pump[s] = "none" /\ wrote[s] = <<>>
  /\ child = "exited" => open = {}
  /\ pc \in {"wait", "clean", "ended"} /\ child # "none" => \A s \in Streams : pump[s] = "done"
  /\ pending # <<>> => child \in {"running", "left"} /\ pending[1].on \in open

StreamsOK == \A s \in Streams : Carried(s) /\ InLines(s) /\ DoneOK(s)

RunInv == TypeOK /\ PhasesOK /\ StreamsOK
-----------------------------------------------------------------------------
\* A function on 1..n is a sequence of length n.
LEMMA FunctionIsSeq ==
  ASSUME NEW S, NEW n \in Nat, NEW f \in [1..n -> S]
  PROVE  f \in Seq(S) /\ Len(f) = n
<1>1. [1..n -> S] \in {[1..m -> S] : m \in Nat}
  OBVIOUS
<1>2. f \in UNION {[1..m -> S] : m \in Nat}
  BY <1>1
<1>3. f \in Seq(S)
  BY <1>2, SeqDef, Zenon
<1> QED
  BY <1>3, LenProperties

\* What is printed of a buffer is its pieces, redacted, as one line.
LEMMA PrintedPieces ==
  ASSUME TypeOK, NEW s \in Streams
  PROVE  /\ Printed(buffer[s]) \in Seq([holds : SUBSET Names, last : BOOLEAN])
         /\ Len(Printed(buffer[s])) = Len(buffer[s])
         /\ \A i \in 1..Len(buffer[s]) :
              Printed(buffer[s])[i] = [holds |-> buffer[s][i].holds \ (redactions \ MultiLine),
                                       last |-> i = Len(buffer[s])]
<1> DEFINE n == Len(buffer[s])
<1>1. buffer[s] \in Seq(Piece) /\ n \in Nat /\ DOMAIN buffer[s] = 1..n
  BY LenProperties DEF TypeOK
<1>2. ASSUME NEW i \in 1..n PROVE buffer[s][i].holds \in SUBSET Names
  <2>1. buffer[s][i] \in Piece
    BY <1>1, ElementOfSeq
  <2> QED
    BY <2>1, ScopedRunAssumption DEF Piece
<1>3. Printed(buffer[s]) = [i \in 1..n |-> [holds |-> buffer[s][i].holds \ (redactions \ MultiLine), last |-> i = n]]
  BY <1>1 DEF Printed, Redact
<1>4. \A i \in 1..n : [holds |-> buffer[s][i].holds \ (redactions \ MultiLine), last |-> i = n]
                        \in [holds : SUBSET Names, last : BOOLEAN]
  BY <1>2
<1>5. Printed(buffer[s]) \in [1..n -> [holds : SUBSET Names, last : BOOLEAN]]
  BY <1>3, <1>4
<1> QED
  BY <1>1, <1>3, <1>5, FunctionIsSeq

\* Every step leaves values of their kinds.
LEMMA RunTypeStep == TypeOK /\ [Next]_vars => TypeOK'
<1> SUFFICES ASSUME TypeOK, [Next]_vars PROVE TypeOK'
  OBVIOUS
<1> USE ScopedRunAssumption DEF dirVars
<1>r. \A ns \in SUBSET Names : Redactable(ns) \subseteq Names
  BY DEF Redactable
<1>f. Fault => faults' \in 0..MaxFaults
  BY DEF TypeOK, Fault
<1>n. Env \subseteq Names /\ Files \subseteq Names
  BY DEF Names
<1>e. <<>> \in Seq(Piece) /\ Len(<<>>) = 0 /\ <<>> \in Seq([on : Streams, piece : Piece])
  BY EmptySeq
<1>a. Absent \in [made : BOOLEAN, files : SUBSET Files]
  BY DEF Absent
<1>0. CASE UNCHANGED vars
  BY <1>0 DEF TypeOK, vars
<1>1. CASE ResolveHere
  BY <1>1 DEF TypeOK, ResolveHere, childVars, ioVars
<1>2. CASE UseLease
  BY <1>2, <1>r DEF TypeOK, UseLease, childVars, ioVars
<1>3. ASSUME NEW n \in Names, Resolve(n) PROVE TypeOK'
  <2>1. Redactable({n}) \subseteq Names
    BY <1>r
  <2>2. faults' \in 0..MaxFaults
    BY <1>3, <1>f DEF TypeOK, Resolve
  <2> QED
    BY <1>3, <2>1, <2>2 DEF TypeOK, Resolve, childVars, ioVars
<1>4. CASE Resolved
  BY <1>4 DEF TypeOK, Resolved, childVars, ioVars
<1>5. CASE Prepare
  <2>1. Redactable(Env) \subseteq Names
    BY <1>r, <1>n
  <2>2. faults' \in 0..MaxFaults
    BY <1>5, <1>f DEF TypeOK, Prepare
  <2>3. dir' \in [made : BOOLEAN, files : SUBSET Files]
    <3>1. dir \in [made : BOOLEAN, files : SUBSET Files]
      BY DEF TypeOK
    <3>2. [made |-> TRUE, files |-> {}] \in [made : BOOLEAN, files : SUBSET Files]
      OBVIOUS
    <3> QED
      BY <1>5, <1>a, <3>1, <3>2 DEF Prepare
  <2> QED
    BY <1>5, <2>1, <2>2, <2>3 DEF TypeOK, Prepare, childVars, ioVars
<1>6. ASSUME NEW f \in Files, WriteFile(f) PROVE TypeOK'
  <2>1. Redactable({f}) \subseteq Names
    BY <1>r, <1>n
  <2>2. dir' \in [made : BOOLEAN, files : SUBSET Files]
    <3>1. dir \in [made : BOOLEAN, files : SUBSET Files]
      BY DEF TypeOK
    <3>2. [dir EXCEPT !.files = @ \cup {f}] \in [made : BOOLEAN, files : SUBSET Files]
      BY <3>1
    <3> QED
      BY <1>6, <1>a, <3>1, <3>2 DEF WriteFile
  <2>3. faults' \in 0..MaxFaults
    BY <1>6, <1>f DEF TypeOK, WriteFile
  <2> QED
    BY <1>6, <2>1, <2>2, <2>3 DEF TypeOK, WriteFile, childVars, ioVars
<1>7. CASE Start
  <2>1. faults' \in 0..MaxFaults
    BY <1>7, <1>f DEF TypeOK, Start
  <2> QED
    BY <1>7, <2>1 DEF TypeOK, Start
<1>8. CASE Copied
  BY <1>8 DEF TypeOK, Copied, childVars, ioVars
<1>9. CASE Wait
  BY <1>9 DEF TypeOK, Wait, childVars, ioVars
<1>10. CASE Cleanup
  <2>1. dir' \in [made : BOOLEAN, files : SUBSET Files] /\ stuck' \in BOOLEAN
    <3>1. dir \in [made : BOOLEAN, files : SUBSET Files] /\ stuck \in BOOLEAN
      BY DEF TypeOK
    <3>2. \A left \in SUBSET dir.files :
            [dir EXCEPT !.files = left] \in [made : BOOLEAN, files : SUBSET Files]
      BY <3>1
    <3> QED
      BY <1>10, <1>a, <3>1, <3>2 DEF Cleanup
  <2>2. faults' \in 0..MaxFaults
    BY <1>10, <1>f DEF TypeOK, Cleanup
  <2> QED
    BY <1>10, <2>1, <2>2 DEF TypeOK, Cleanup, childVars, ioVars
<1>11. ASSUME NEW s \in Streams, Read(s) PROVE TypeOK'
  <2>1. /\ Tail(pipe[s]) \in Seq(Piece) /\ Len(Tail(pipe[s])) = Len(pipe[s]) - 1
        /\ Head(pipe[s]) \in Piece
    BY <1>11, HeadTailProperties DEF TypeOK, Read
  <2>2. /\ Append(buffer[s], Head(pipe[s])) \in Seq(Piece)
        /\ Len(Append(buffer[s], Head(pipe[s]))) = Len(buffer[s]) + 1
    BY <2>1, AppendProperties DEF TypeOK
  <2>3. Len(pipe[s]) \in Nat /\ Len(buffer[s]) \in Nat
    BY LenProperties DEF TypeOK
  <2>4. pipe' \in [Streams -> Seq(Piece)] /\ buffer' \in [Streams -> Seq(Piece)]
    BY <1>11, <2>1, <2>2 DEF TypeOK, Read
  <2>5. \A t \in Streams : Len(pipe'[t]) <= PipeSize /\ Len(buffer'[t]) <= LineSize
    BY <1>11, <2>1, <2>2, <2>3 DEF TypeOK, Read
  <2> QED
    BY <1>11, <2>4, <2>5 DEF TypeOK, Read, childVars
<1>p. ASSUME NEW s \in Streams
      PROVE  shown[s] \o Printed(buffer[s]) \in Seq([holds : SUBSET Names, last : BOOLEAN])
  BY PrintedPieces, ConcatProperties DEF TypeOK
<1>s. ASSUME NEW s \in Streams,
             shown' = [shown EXCEPT ![s] = @ \o Printed(buffer[s])], buffer' = [buffer EXCEPT ![s] = <<>>]
      PROVE  /\ shown' \in [Streams -> Seq([holds : SUBSET Names, last : BOOLEAN])]
             /\ buffer' \in [Streams -> Seq(Piece)]
             /\ \A t \in Streams : Len(buffer'[t]) <= LineSize
  <2>1. /\ shown \in [Streams -> Seq([holds : SUBSET Names, last : BOOLEAN])]
        /\ buffer \in [Streams -> Seq(Piece)]
        /\ \A t \in Streams : Len(buffer[t]) <= LineSize
    BY DEF TypeOK
  <2>2. shown' \in [Streams -> Seq([holds : SUBSET Names, last : BOOLEAN])]
    BY <1>s, <1>p, <2>1
  <2>3. buffer' \in [Streams -> Seq(Piece)]
    BY <1>s, <1>e, <2>1
  <2>4. \A t \in Streams : buffer'[t] = IF t = s THEN <<>> ELSE buffer[t]
    BY <1>s, <2>1
  <2>5. LineSize \in Nat
    OBVIOUS
  <2>6. \A t \in Streams : Len(buffer'[t]) <= LineSize
    BY <1>e, <2>1, <2>4, <2>5
  <2> QED
    BY <2>2, <2>3, <2>6
<1>12. ASSUME NEW s \in Streams, PrintLine(s) PROVE TypeOK'
  <2>1. /\ shown' \in [Streams -> Seq([holds : SUBSET Names, last : BOOLEAN])]
        /\ buffer' \in [Streams -> Seq(Piece)]
        /\ \A t \in Streams : Len(buffer'[t]) <= LineSize
    BY <1>12, <1>s DEF PrintLine
  <2> QED
    BY <1>12, <2>1 DEF TypeOK, PrintLine, childVars
<1>13. ASSUME NEW s \in Streams, Finish(s) PROVE TypeOK'
  <2>1. /\ shown' \in [Streams -> Seq([holds : SUBSET Names, last : BOOLEAN])]
        /\ buffer' \in [Streams -> Seq(Piece)]
        /\ \A t \in Streams : Len(buffer'[t]) <= LineSize
    BY <1>13, <1>s DEF Finish
  <2>2. pump' \in [Streams -> {"none", "reading", "done"}]
    BY <1>13 DEF TypeOK, Finish
  <2> QED
    BY <1>13, <2>1, <2>2 DEF TypeOK, Finish, childVars
<1>14. ASSUME NEW s \in Streams, GiveUp(s) PROVE TypeOK'
  BY <1>14 DEF TypeOK, GiveUp, childVars
<1>15. ASSUME NEW s \in Streams, Compose(s) PROVE TypeOK'
  <2>1. PICK piece \in Piece : pending' = <<[on |-> s, piece |-> piece]>>
    BY <1>15 DEF Compose
  <2>2. [on |-> s, piece |-> piece] \in [on : Streams, piece : Piece]
    BY <2>1
  <2>3. pending' \in Seq([on : Streams, piece : Piece]) /\ Len(pending') = 1
    BY <2>1, <2>2
  <2>4. Len(pending') <= 1
    BY <2>3
  <2>5. /\ child \in {"running", "left"} /\ open \subseteq Streams
        /\ <<pc, resolved, redactions, dir, stuck, child, open, wrote, pipe, buffer, pump, shown, faults>>'
             = <<pc, resolved, redactions, dir, stuck, child, open, wrote, pipe, buffer, pump, shown, faults>>
    BY <1>15 DEF TypeOK, Compose, ioVars
  <2> QED
    BY <2>3, <2>4, <2>5 DEF TypeOK
<1>16. CASE Push
  <2> DEFINE s == pending[1].on
             x == pending[1].piece
  <2>1. s \in Streams /\ x \in Piece
    <3>1. pending \in Seq([on : Streams, piece : Piece]) /\ pending # <<>>
      BY <1>16 DEF TypeOK, Push
    <3>2. 1 \in 1..Len(pending)
      BY <3>1, EmptySeq
    <3>3. pending[1] \in [on : Streams, piece : Piece]
      BY <3>1, <3>2, ElementOfSeq
    <3> QED
      BY <3>3
  <2>2. /\ Append(pipe[s], x) \in Seq(Piece) /\ Append(wrote[s], x) \in Seq(Piece)
        /\ Len(Append(pipe[s], x)) = Len(pipe[s]) + 1
    BY <2>1, AppendProperties DEF TypeOK
  <2>3. Len(pipe[s]) \in Nat
    BY <2>1, LenProperties DEF TypeOK
  <2>4. /\ pipe' = [pipe EXCEPT ![s] = Append(@, x)]
        /\ wrote' = [wrote EXCEPT ![s] = Append(@, x)]
        /\ Len(pipe[s]) < PipeSize
    BY <1>16 DEF Push
  <2>5. pipe' \in [Streams -> Seq(Piece)] /\ wrote' \in [Streams -> Seq(Piece)]
    BY <2>1, <2>2, <2>4 DEF TypeOK
  <2>6. \A t \in Streams : Len(pipe'[t]) <= PipeSize
    <3>1. PipeSize \in Nat /\ \A t \in Streams : Len(pipe[t]) <= PipeSize
      BY ScopedRunAssumption DEF TypeOK
    <3>2. pipe'[s] = Append(pipe[s], x) /\ \A t \in Streams \ {s} : pipe'[t] = pipe[t]
      BY <2>1, <2>4 DEF TypeOK
    <3>3. Len(pipe'[s]) <= PipeSize
      BY <2>2, <2>3, <2>4, <3>1, <3>2
    <3> QED
      BY <3>1, <3>2, <3>3
  <2>7. pending' \in Seq([on : Streams, piece : Piece]) /\ Len(pending') <= 1
    BY <1>16, <1>e DEF Push
  <2>8. <<pc, resolved, redactions, dir, stuck, child, open, buffer, pump, shown, faults>>'
          = <<pc, resolved, redactions, dir, stuck, child, open, buffer, pump, shown, faults>>
    BY <1>16 DEF Push
  <2> QED
    BY <2>5, <2>6, <2>7, <2>8 DEF TypeOK
<1>17. ASSUME NEW s \in Streams, CloseStream(s) PROVE TypeOK'
  BY <1>17 DEF TypeOK, CloseStream, ioVars
<1>18. CASE Exit
  BY <1>18 DEF TypeOK, Exit, ioVars
<1>19. CASE DescendantExits
  BY <1>19 DEF TypeOK, DescendantExits, ioVars
<1>20. CASE Kill
  <2>1. pending' \in Seq([on : Streams, piece : Piece]) /\ Len(pending') <= 1
    BY <1>20, <1>e DEF Kill
  <2>2. pump' \in [Streams -> {"none", "reading", "done"}]
    BY <1>20 DEF Kill
  <2>3. child' \in {"none", "exited"} /\ open' = {} /\ pc' = "killed"
    BY <1>20 DEF Kill
  <2>4. <<resolved, redactions, dir, stuck, wrote, pipe, buffer, shown, faults>>'
          = <<resolved, redactions, dir, stuck, wrote, pipe, buffer, shown, faults>>
    BY <1>20 DEF Kill
  <2> QED
    BY <2>1, <2>2, <2>3, <2>4 DEF TypeOK
<1> QED
  BY <1>0, <1>1, <1>2, <1>3, <1>4, <1>5, <1>6, <1>7, <1>8, <1>9, <1>10, <1>11, <1>12, <1>13,
     <1>14, <1>15, <1>16, <1>17, <1>18, <1>19, <1>20 DEF Next, Broker, Copy, Command
-----------------------------------------------------------------------------
\* The phases of the run and of the command, through every step.
LEMMA PhasesStep == TypeOK /\ PhasesOK /\ [Next]_vars => PhasesOK'
<1> SUFFICES ASSUME TypeOK, PhasesOK, [Next]_vars PROVE PhasesOK'
  OBVIOUS
<1> USE DEF dirVars
<1>r. \A ns, ms \in SUBSET Names : Redactable(ns \cup ms) = Redactable(ns) \cup Redactable(ms)
  BY DEF Redactable
<1>n. Env \subseteq Names /\ Files \subseteq Names /\ resolved \subseteq Names
  BY DEF Names, TypeOK
<1>u. \A ns \in SUBSET Names : Redactable(Names) \cup Redactable(ns) = Redactable(Names)
  BY DEF Redactable
<1>0. CASE UNCHANGED vars
  BY <1>0 DEF PhasesOK, vars
<1>1. CASE ResolveHere
  BY <1>1 DEF PhasesOK, ResolveHere, childVars, ioVars
<1>2. CASE UseLease
  BY <1>2 DEF PhasesOK, UseLease, childVars, ioVars
<1>3. ASSUME NEW n \in Names, Resolve(n) PROVE PhasesOK'
  <2>1. redactions' = Redactable(resolved')
    BY <1>3, <1>r, <1>n DEF PhasesOK, Resolve
  <2> QED
    BY <1>3, <2>1 DEF PhasesOK, Resolve, childVars, ioVars
<1>4. CASE Resolved
  BY <1>4 DEF PhasesOK, Resolved, childVars, ioVars
<1>5. CASE Prepare
  <2>1. redactions' = Redactable(resolved')
    BY <1>5, <1>u, <1>n DEF PhasesOK, Prepare
  <2> QED
    BY <1>5, <2>1 DEF PhasesOK, Prepare, childVars, ioVars
<1>6. ASSUME NEW f \in Files, WriteFile(f) PROVE PhasesOK'
  <2>1. {f} \in SUBSET Names
    BY <1>n
  <2>2. redactions' = Redactable(resolved')
    BY <1>6, <1>u, <2>1 DEF PhasesOK, WriteFile
  <2> QED
    BY <1>6, <2>2 DEF PhasesOK, WriteFile, childVars, ioVars
<1>7. CASE Start
  <2>1. CASE pc' = "copy"
    BY <1>7, <2>1 DEF PhasesOK, Start
  <2>2. CASE pc' # "copy"
    BY <1>7, <2>2 DEF PhasesOK, Start
  <2> QED
    BY <2>1, <2>2
<1>8. CASE Copied
  BY <1>8 DEF PhasesOK, Copied, childVars, ioVars
<1>9. CASE Wait
  BY <1>9 DEF PhasesOK, Wait, childVars, ioVars
<1>10. CASE Cleanup
  BY <1>10 DEF PhasesOK, Cleanup, childVars, ioVars
<1>11. ASSUME NEW s \in Streams, Read(s) PROVE PhasesOK'
  BY <1>11 DEF PhasesOK, Read, childVars
<1>12. ASSUME NEW s \in Streams, PrintLine(s) PROVE PhasesOK'
  BY <1>12 DEF PhasesOK, PrintLine, childVars
<1>d. ASSUME NEW s \in Streams, pump[s] = "reading", pump' = [pump EXCEPT ![s] = "done"],
             UNCHANGED <<pc, resolved, redactions, dirVars, childVars>>
      PROVE  PhasesOK'
  <2>1. child # "none"
    BY <1>d DEF PhasesOK
  <2>2. (\A t \in Streams : pump[t] = "done") => \A t \in Streams : pump'[t] = "done"
    BY <1>d DEF TypeOK
  <2> QED
    BY <1>d, <2>1, <2>2 DEF PhasesOK, childVars
<1>13. ASSUME NEW s \in Streams, Finish(s) PROVE PhasesOK'
  BY <1>13, <1>d DEF Finish
<1>14. ASSUME NEW s \in Streams, GiveUp(s) PROVE PhasesOK'
  BY <1>14, <1>d DEF GiveUp
<1>15. ASSUME NEW s \in Streams, Compose(s) PROVE PhasesOK'
  <2>1. PICK piece \in Piece : pending' = <<[on |-> s, piece |-> piece]>>
    BY <1>15 DEF Compose
  <2>2. pending'[1].on = s
    BY <2>1
  <2> QED
    BY <1>15, <2>2 DEF PhasesOK, Compose, ioVars
<1>16. CASE Push
  BY <1>16 DEF PhasesOK, Push
<1>17. ASSUME NEW s \in Streams, CloseStream(s) PROVE PhasesOK'
  BY <1>17 DEF PhasesOK, CloseStream, ioVars
<1>18. CASE Exit
  BY <1>18 DEF PhasesOK, Exit, ioVars
<1>19. CASE DescendantExits
  BY <1>19 DEF PhasesOK, DescendantExits, ioVars
<1>20. CASE Kill
  BY <1>20 DEF PhasesOK, Kill
<1> QED
  BY <1>0, <1>1, <1>2, <1>3, <1>4, <1>5, <1>6, <1>7, <1>8, <1>9, <1>10, <1>11, <1>12, <1>13,
     <1>14, <1>15, <1>16, <1>17, <1>18, <1>19, <1>20 DEF Next, Broker, Copy, Command
-----------------------------------------------------------------------------
\* What StreamsOK says of one stream.
StreamCopied(s) == Carried(s) /\ InLines(s) /\ DoneOK(s)

\* What the lengths of a stream's sequences are.
LEMMA StreamTypes ==
  ASSUME TypeOK, NEW s \in Streams
  PROVE  /\ wrote[s] \in Seq(Piece) /\ pipe[s] \in Seq(Piece) /\ buffer[s] \in Seq(Piece)
         /\ shown[s] \in Seq([holds : SUBSET Names, last : BOOLEAN])
         /\ Len(wrote[s]) \in Nat /\ Len(pipe[s]) \in Nat
         /\ Len(buffer[s]) \in Nat /\ Len(shown[s]) \in Nat
BY LenProperties DEF TypeOK

\* A step that moves no piece of a stream keeps what holds of it.
LEMMA StreamUntouched ==
  ASSUME TypeOK, NEW s \in Streams, StreamCopied(s),
         wrote'[s] = wrote[s], shown'[s] = shown[s], buffer'[s] = buffer[s], pipe'[s] = pipe[s],
         redactions' = redactions, s \notin open => s \notin open',
         pump'[s] = "done" => pump[s] = "done"
  PROVE  StreamCopied(s)'
<1>1. Carried(s)'
  BY DEF StreamCopied, Carried
<1>2. Drained(s) => Drained(s)'
  BY DEF Drained
<1>3. InLines(s)'
  BY <1>2 DEF StreamCopied, InLines
<1>4. DoneOK(s)'
  BY <1>2 DEF StreamCopied, DoneOK
<1> QED
  BY <1>1, <1>3, <1>4 DEF StreamCopied

\* Nothing has moved before the command runs.
LEMMA NothingMoved ==
  ASSUME TypeOK, PhasesOK, child = "none", NEW s \in Streams, StreamCopied(s)
  PROVE  wrote[s] = <<>> /\ shown[s] = <<>> /\ buffer[s] = <<>> /\ pipe[s] = <<>>
<1>1. wrote[s] = <<>> /\ Len(wrote[s]) = 0
  BY EmptySeq DEF PhasesOK
<1>p. PICK h, b, p : h = Len(shown[s]) /\ b = Len(buffer[s]) /\ p = Len(pipe[s])
  OBVIOUS
<1>s. h \in Nat /\ b \in Nat /\ p \in Nat /\ 0 = h + b + p
  BY <1>1, <1>p, StreamTypes DEF StreamCopied, Carried
<1>t. h = 0 /\ b = 0 /\ p = 0
  BY <1>s
<1>2. Len(shown[s]) = 0 /\ Len(buffer[s]) = 0 /\ Len(pipe[s]) = 0
  BY <1>p, <1>t
<1> QED
  BY <1>1, <1>2, StreamTypes, EmptySeq

\* An empty stream that nobody has copied yet.
LEMMA EmptyStream ==
  ASSUME NEW s \in Streams, pump'[s] # "done",
         wrote'[s] = <<>>, shown'[s] = <<>>, buffer'[s] = <<>>, pipe'[s] = <<>>
  PROVE  StreamCopied(s)'
<1>1. Len(wrote'[s]) = 0 /\ Len(shown'[s]) = 0 /\ Len(buffer'[s]) = 0 /\ Len(pipe'[s]) = 0
  BY EmptySeq
<1>2. 1..0 = {} /\ 1..(0 - 1) = {}
  OBVIOUS
<1> QED
  BY <1>1, <1>2 DEF StreamCopied, Carried, InLines, DoneOK

\* A piece goes from the pipe to the buffer.
LEMMA ReadMoves ==
  ASSUME TypeOK, NEW s \in Streams, StreamCopied(s), Read(s)
  PROVE  StreamCopied(s)'
<1>p. PICK w, h, b, p : w = wrote[s] /\ h = shown[s] /\ b = buffer[s] /\ p = pipe[s]
  OBVIOUS
<1>0. b \in Seq(Piece) /\ p \in Seq(Piece) /\ p # <<>>
  BY <1>p, StreamTypes DEF Read
<1>1. /\ Len(w) \in Nat /\ Len(h) \in Nat /\ Len(b) \in Nat /\ Len(p) \in Nat
  BY <1>p, StreamTypes
<1>2. Len(p) > 0 /\ Head(p) = p[1] /\ Head(p) \in Piece
  BY <1>0, HeadTailProperties, EmptySeq
<1>3. /\ Len(Tail(p)) = Len(p) - 1
      /\ \A i \in 1..(Len(p) - 1) : Tail(p)[i] = p[i + 1]
  BY <1>0, HeadTailProperties
<1>4. /\ Len(Append(b, p[1])) = Len(b) + 1
      /\ \A i \in 1..Len(b) : Append(b, p[1])[i] = b[i]
      /\ Append(b, p[1])[Len(b) + 1] = p[1]
  BY <1>0, <1>2, AppendProperties
<1>5. /\ wrote'[s] = w /\ shown'[s] = h /\ buffer'[s] = Append(b, p[1]) /\ pipe'[s] = Tail(p)
      /\ redactions' = redactions /\ open' = open /\ pump'[s] = "reading"
  BY <1>p, <1>2 DEF TypeOK, Read, childVars
<1>6. /\ Len(w) = Len(h) + Len(b) + Len(p)
      /\ \A i \in 1..Len(h) : h[i].holds = w[i].holds \ (redactions \ MultiLine)
      /\ \A i \in 1..Len(b) : b[i] = w[Len(h) + i]
      /\ \A i \in 1..Len(p) : p[i] = w[Len(h) + Len(b) + i]
  BY <1>p DEF StreamCopied, Carried
<1>7. Carried(s)'
  <2>1. ASSUME NEW i \in 1..(Len(b) + 1) PROVE Append(b, p[1])[i] = w[Len(h) + i]
    <3>1. CASE i \in 1..Len(b)
      BY <3>1, <1>4, <1>6
    <3>2. CASE i = Len(b) + 1
      <4>1. p[1] = w[Len(h) + Len(b) + 1]
        BY <1>1, <1>2, <1>6
      <4>2. Len(h) + i = Len(h) + Len(b) + 1
        BY <3>2, <1>1
      <4> QED
        BY <3>2, <4>1, <4>2, <1>4
    <3> QED
      BY <3>1, <3>2, <1>1
  <2>2. ASSUME NEW i \in 1..(Len(p) - 1) PROVE Tail(p)[i] = w[Len(h) + (Len(b) + 1) + i]
    <3>1. p[i + 1] = w[Len(h) + Len(b) + (i + 1)]
      BY <1>1, <1>6
    <3>2. Len(h) + Len(b) + (i + 1) = Len(h) + (Len(b) + 1) + i
      BY <1>1
    <3> QED
      BY <3>1, <3>2, <1>3
  <2>3. Len(w) = Len(h) + (Len(b) + 1) + (Len(p) - 1)
    BY <1>1, <1>6
  <2>4. PICK c, q : c = Append(b, p[1]) /\ q = Tail(p)
    OBVIOUS
  <2>5. /\ Len(w) = Len(h) + Len(c) + Len(q)
        /\ \A i \in 1..Len(c) : c[i] = w[Len(h) + i]
        /\ \A i \in 1..Len(q) : q[i] = w[Len(h) + Len(c) + i]
    BY <1>3, <1>4, <2>1, <2>2, <2>3, <2>4
  <2>6. wrote'[s] = w /\ shown'[s] = h /\ buffer'[s] = c /\ pipe'[s] = q /\ redactions' = redactions
    BY <1>5, <2>4
  <2> QED
    BY <1>6, <2>5, <2>6 DEF Carried
<1>8. InLines(s)'
  <2>1. ~Drained(s)
    BY <1>p, <1>0 DEF Drained
  <2>2. /\ \A i \in 1..Len(h) : h[i].last = (w[i].last \/ i = Len(w))
        /\ Len(h) = 0 \/ w[Len(h)].last
        /\ \A i \in 1..(Len(b) - 1) : ~b[i].last
    BY <1>p, <2>1 DEF StreamCopied, InLines
  <2>3. \A i \in 1..Len(b) : ~b[i].last
    BY <1>p, <2>2, <1>0, <1>1, EmptySeq DEF Read
  <2>4. \A i \in 1..((Len(b) + 1) - 1) : ~Append(b, p[1])[i].last
    BY <2>3, <1>1, <1>4
  <2> QED
    BY <1>4, <1>5, <2>2, <2>4 DEF InLines
<1>9. DoneOK(s)'
  BY <1>5 DEF DoneOK
<1> QED
  BY <1>7, <1>8, <1>9 DEF StreamCopied

\* What is in the buffer is printed: a whole line, or the rest of the output.
Prints(s) ==
  /\ shown' = [shown EXCEPT ![s] = @ \o Printed(buffer[s])]
  /\ buffer' = [buffer EXCEPT ![s] = <<>>]
  /\ UNCHANGED <<redactions, wrote, pipe, open>>
  /\ \/ buffer[s] # <<>> /\ buffer[s][Len(buffer[s])].last
     \/ /\ s \notin open /\ pipe[s] = <<>>
        /\ ~(buffer[s] # <<>> /\ buffer[s][Len(buffer[s])].last)

\* A stream keeps what holds of it when its buffer is printed.
LEMMA PrintMoves ==
  ASSUME TypeOK, NEW s \in Streams, StreamCopied(s), Prints(s)
  PROVE  Carried(s)' /\ InLines(s)'
<1>p. PICK w, h, b, p, r :
        w = wrote[s] /\ h = shown[s] /\ b = buffer[s] /\ p = pipe[s] /\ r = Printed(buffer[s])
  OBVIOUS
<1>0. /\ h \in Seq([holds : SUBSET Names, last : BOOLEAN])
      /\ r \in Seq([holds : SUBSET Names, last : BOOLEAN])
      /\ b \in Seq(Piece) /\ p \in Seq(Piece) /\ w \in Seq(Piece)
  BY <1>p, StreamTypes, PrintedPieces
<1>1. Len(w) \in Nat /\ Len(h) \in Nat /\ Len(b) \in Nat /\ Len(p) \in Nat /\ Len(r) = Len(b)
  BY <1>p, StreamTypes, PrintedPieces
<1>2. \A i \in 1..Len(b) : r[i].holds = b[i].holds \ (redactions \ MultiLine) /\ r[i].last = (i = Len(b))
  <2>1. \A i \in 1..Len(b) : r[i] = [holds |-> b[i].holds \ (redactions \ MultiLine), last |-> i = Len(b)]
    BY <1>p, PrintedPieces
  <2>2. ASSUME NEW i \in 1..Len(b)
        PROVE  r[i].holds = b[i].holds \ (redactions \ MultiLine) /\ r[i].last = (i = Len(b))
    <3>1. PICK z : z = (i = Len(b))
      OBVIOUS
    <3>2. r[i] = [holds |-> b[i].holds \ (redactions \ MultiLine), last |-> z]
      BY <2>1, <3>1
    <3> QED
      BY <3>1, <3>2
  <2> QED
    BY <2>2
<1>3. /\ Len(w) = Len(h) + Len(b) + Len(p)
      /\ \A i \in 1..Len(h) : h[i].holds = w[i].holds \ (redactions \ MultiLine)
      /\ \A i \in 1..Len(b) : b[i] = w[Len(h) + i]
      /\ \A i \in 1..Len(p) : p[i] = w[Len(h) + Len(b) + i]
  BY <1>p DEF StreamCopied, Carried
<1>4. /\ \A i \in 1..Len(h) : h[i].last = (w[i].last \/ i = Len(w))
      /\ Len(h) = 0 \/ w[Len(h)].last \/ Drained(s)
      /\ \A i \in 1..(Len(b) - 1) : ~b[i].last
  BY <1>p DEF StreamCopied, InLines
<1>5. \/ Len(b) > 0 /\ b[Len(b)].last
      \/ Len(p) = 0 /\ (Len(b) > 0 => ~b[Len(b)].last)
  BY <1>p, <1>0, <1>1, EmptySeq DEF Prints
<1>6. PICK g : g = h \o r
  OBVIOUS
<1>7. /\ Len(g) = Len(h) + Len(b)
      /\ \A i \in 1..(Len(h) + Len(b)) : g[i] = IF i <= Len(h) THEN h[i] ELSE r[i - Len(h)]
  <2>1. /\ Len(h \o r) = Len(h) + Len(r)
        /\ \A i \in 1..Len(h) + Len(r) :
             (h \o r)[i] = IF i <= Len(h) THEN h[i] ELSE r[i - Len(h)]
    BY <1>0, ConcatProperties
  <2> QED
    BY <1>1, <1>6, <2>1
<1>8. /\ wrote'[s] = w /\ shown'[s] = g /\ buffer'[s] = <<>> /\ pipe'[s] = p
      /\ redactions' = redactions /\ open' = open
  BY <1>p, <1>6 DEF TypeOK, Prints
<1>e. Len(<<>>) = 0 /\ 1..0 = {} /\ 1..(0 - 1) = {}
  BY EmptySeq
<1>9. ASSUME NEW i \in 1..Len(g)
      PROVE  g[i].holds = w[i].holds \ (redactions \ MultiLine) /\ g[i].last = (w[i].last \/ i = Len(w))
  <2>1. CASE i <= Len(h)
    BY <2>1, <1>1, <1>3, <1>4, <1>7
  <2>2. CASE i > Len(h)
    <3>1. PICK j \in 1..Len(b) : j = i - Len(h)
      BY <2>2, <1>1, <1>7
    <3>a. Len(h) + j = i /\ i \in 1..(Len(h) + Len(b)) /\ ~(i <= Len(h))
      BY <2>2, <3>1, <1>1, <1>7
    <3>b. g[i] = r[j]
      BY <3>1, <3>a, <1>7
    <3>c. w[i] = b[j]
      BY <3>a, <1>3
    <3>2. g[i] = r[j] /\ w[i] = b[j] /\ Len(h) + j = i
      BY <3>a, <3>b, <3>c
    <3>3. g[i].holds = b[j].holds \ (redactions \ MultiLine) /\ g[i].last = (j = Len(b))
      BY <3>2, <1>2
    <3>4. (j = Len(b)) = (b[j].last \/ i = Len(w))
      <4>1. CASE j = Len(b)
        <5>1. b[j].last \/ i = Len(w)
          <6>1. CASE b[Len(b)].last
            BY <4>1, <6>1
          <6>2. CASE Len(p) = 0
            BY <4>1, <6>2, <3>2, <1>1, <1>3
          <6> QED
            BY <6>1, <6>2, <1>5
        <5> QED
          BY <4>1, <5>1
      <4>2. CASE j # Len(b)
        <5>1. ~b[j].last /\ i # Len(w)
          <6>1. j \in 1..(Len(b) - 1)
            BY <4>2, <1>1
          <6>2. ~b[j].last
            BY <6>1, <1>4
          <6>3. i # Len(w)
            BY <6>1, <3>a, <1>1, <1>3
          <6> QED
            BY <6>2, <6>3
        <5> QED
          BY <4>2, <5>1
      <4> QED
        BY <4>1, <4>2
    <3> QED
      BY <3>2, <3>3, <3>4
  <2> QED
    BY <2>1, <2>2, <1>1, <1>7
<1>10. Carried(s)'
  <2>4. PICK c : c = <<>>
    OBVIOUS
  <2>5. Len(c) = 0 /\ buffer'[s] = c
    BY <1>e, <1>8, <2>4
  <2>1. Len(w) = Len(g) + Len(c) + Len(p)
    BY <1>1, <1>3, <1>7, <2>5
  <2>2. ASSUME NEW i \in 1..Len(p) PROVE p[i] = w[Len(g) + Len(c) + i]
    <3>1. Len(g) + Len(c) + i = Len(h) + Len(b) + i
      BY <1>1, <1>7, <2>5
    <3> QED
      BY <3>1, <1>3
  <2>3. \A i \in 1..Len(c) : c[i] = w[Len(g) + i]
    BY <1>e, <2>5
  <2>8. /\ Len(w) = Len(g) + Len(c) + Len(p)
        /\ \A i \in 1..Len(c) : c[i] = w[Len(g) + i]
        /\ \A i \in 1..Len(p) : p[i] = w[Len(g) + Len(c) + i]
    BY <2>1, <2>2, <2>3
  <2>6. wrote'[s] = w /\ shown'[s] = g /\ buffer'[s] = c /\ pipe'[s] = p /\ redactions' = redactions
    BY <1>8, <2>5
  <2>7. \A i \in 1..Len(g) : g[i].holds = w[i].holds \ (redactions \ MultiLine)
    BY <1>9
  <2> QED
    BY <2>6, <2>7, <2>8 DEF Carried
<1>11. InLines(s)'
  <2>1. Len(g) = 0 \/ w[Len(g)].last \/ Drained(s)'
    <3>1. CASE Len(b) > 0 /\ b[Len(b)].last
      BY <3>1, <1>1, <1>3, <1>7
    <3>2. CASE s \notin open /\ pipe[s] = <<>>
      BY <3>2, <1>8, <1>p DEF Drained
    <3> QED
      BY <3>1, <3>2, <1>p, <1>0, EmptySeq DEF Prints
  <2>2. \A i \in 1..(Len(<<>>) - 1) : ~<<>>[i].last
    BY <1>e
  <2> QED
    BY <1>8, <1>9, <2>1, <2>2 DEF InLines
<1> QED
  BY <1>10, <1>11

\* The command adds a piece to a stream that is still open.
LEMMA PushMoves ==
  ASSUME TypeOK, PhasesOK, NEW s \in Streams, StreamCopied(s), Push, pending[1].on = s
  PROVE  StreamCopied(s)'
<1>p. PICK w, h, b, p, x :
        w = wrote[s] /\ h = shown[s] /\ b = buffer[s] /\ p = pipe[s] /\ x = pending[1].piece
  OBVIOUS
<1>0. b \in Seq(Piece) /\ p \in Seq(Piece) /\ w \in Seq(Piece)
  BY <1>p, StreamTypes
<1>1. Len(w) \in Nat /\ Len(h) \in Nat /\ Len(b) \in Nat /\ Len(p) \in Nat
  BY <1>p, StreamTypes
<1>2. x \in Piece /\ s \in open
  <2>1. pending \in Seq([on : Streams, piece : Piece]) /\ pending # <<>>
    BY DEF TypeOK, Push
  <2>2. 1 \in 1..Len(pending)
    BY <2>1, EmptySeq
  <2>3. pending[1] \in [on : Streams, piece : Piece]
    BY <2>1, <2>2, ElementOfSeq
  <2> QED
    BY <1>p, <2>1, <2>3 DEF PhasesOK
<1>3. /\ Len(w) = Len(h) + Len(b) + Len(p)
      /\ \A i \in 1..Len(h) : h[i].holds = w[i].holds \ (redactions \ MultiLine)
      /\ \A i \in 1..Len(b) : b[i] = w[Len(h) + i]
      /\ \A i \in 1..Len(p) : p[i] = w[Len(h) + Len(b) + i]
  BY <1>p DEF StreamCopied, Carried
<1>4. /\ \A i \in 1..Len(h) : h[i].last = (w[i].last \/ i = Len(w))
      /\ Len(h) = 0 \/ w[Len(h)].last
      /\ \A i \in 1..(Len(b) - 1) : ~b[i].last
  BY <1>p, <1>2 DEF StreamCopied, InLines, Drained
<1>5. PICK v, q : v = Append(w, x) /\ q = Append(p, x)
  OBVIOUS
<1>6. /\ Len(v) = Len(w) + 1 /\ Len(q) = Len(p) + 1
      /\ \A i \in 1..Len(w) : v[i] = w[i]
      /\ \A i \in 1..Len(p) : q[i] = p[i]
      /\ v[Len(w) + 1] = x /\ q[Len(p) + 1] = x
  BY <1>0, <1>2, <1>5, AppendProperties
<1>7. /\ wrote'[s] = v /\ shown'[s] = h /\ buffer'[s] = b /\ pipe'[s] = q
      /\ redactions' = redactions /\ open' = open /\ pump' = pump
  BY <1>p, <1>5 DEF TypeOK, Push
<1>8. Carried(s)'
  <2>1. Len(v) = Len(h) + Len(b) + Len(q)
    BY <1>1, <1>3, <1>6
  <2>2. \A i \in 1..Len(h) : h[i].holds = v[i].holds \ (redactions \ MultiLine)
    BY <1>1, <1>3, <1>6
  <2>3. \A i \in 1..Len(b) : b[i] = v[Len(h) + i]
    BY <1>1, <1>3, <1>6
  <2>4. ASSUME NEW i \in 1..Len(q) PROVE q[i] = v[Len(h) + Len(b) + i]
    <3>1. CASE i <= Len(p)
      BY <3>1, <1>1, <1>3, <1>6
    <3>2. CASE i = Len(p) + 1
      <4>1. Len(h) + Len(b) + i = Len(w) + 1
        BY <3>2, <1>1, <1>3
      <4> QED
        BY <3>2, <4>1, <1>6
    <3> QED
      BY <3>1, <3>2, <1>1, <1>6
  <2> QED
    BY <1>7, <2>1, <2>2, <2>3, <2>4 DEF Carried
<1>9. InLines(s)'
  <2>1. ASSUME NEW i \in 1..Len(h) PROVE h[i].last = (v[i].last \/ i = Len(v))
    <3>1. v[i] = w[i] /\ i # Len(v)
      BY <1>1, <1>3, <1>6
    <3>2. i = Len(w) => w[i].last
      BY <1>1, <1>3, <1>4
    <3> QED
      BY <3>1, <3>2, <1>4
  <2>2. Len(h) = 0 \/ v[Len(h)].last
    BY <1>1, <1>3, <1>4, <1>6
  <2> QED
    BY <1>4, <1>7, <2>1, <2>2 DEF InLines
<1>10. DoneOK(s)'
  BY <1>p, <1>2, <1>7 DEF StreamCopied, DoneOK, Drained
<1> QED
  BY <1>8, <1>9, <1>10 DEF StreamCopied

\* A step leaves what holds of each stream, or moves its pieces as above.
LEMMA StreamsStep == TypeOK /\ PhasesOK /\ StreamsOK /\ [Next]_vars => StreamsOK'
<1> SUFFICES ASSUME TypeOK, PhasesOK, StreamsOK, [Next]_vars, NEW t \in Streams
             PROVE  StreamCopied(t)'
  BY DEF StreamsOK, StreamCopied
<1>s. StreamCopied(t)
  BY DEF StreamsOK, StreamCopied
<1>k. CASE UNCHANGED <<redactions, open, wrote, pipe, buffer, shown, pump>>
  BY <1>k, <1>s, StreamUntouched
<1>e. CASE pc \in {"approved", "resolve", "prepare", "files"} /\ UNCHANGED <<wrote, pipe, buffer, shown, pump>>
  <2>1. child = "none" /\ pump[t] = "none"
    BY <1>e DEF PhasesOK
  <2> QED
    BY <1>e, <1>s, <2>1, NothingMoved, EmptyStream
<1>0. CASE UNCHANGED vars
  BY <1>0, <1>k DEF vars
<1>1. CASE ResolveHere \/ UseLease \/ (\E n \in Names : Resolve(n)) \/ Resolved \/ Prepare
             \/ \E f \in Files : WriteFile(f)
  BY <1>1, <1>e DEF ResolveHere, UseLease, Resolve, Resolved, Prepare, WriteFile, childVars, ioVars
<1>7. CASE Start
  <2>1. CASE pc' = "copy"
    <3>1. pump'[t] = "reading" /\ child = "none"
      BY <1>7, <2>1 DEF Start, PhasesOK
    <3>2. wrote' = wrote /\ shown' = shown /\ buffer' = buffer /\ pipe' = pipe
      BY <1>7 DEF Start
    <3> QED
      BY <1>s, <3>1, <3>2, NothingMoved, EmptyStream
  <2>2. CASE pc' # "copy"
    BY <1>7, <2>2, <1>e DEF Start
  <2> QED
    BY <2>1, <2>2
<1>8. CASE Copied \/ Wait \/ Cleanup
  BY <1>8, <1>k DEF Copied, Wait, Cleanup, childVars, ioVars
<1>11. ASSUME NEW s \in Streams, Read(s) PROVE StreamCopied(t)'
  <2>1. CASE t = s
    BY <1>11, <1>s, <2>1, ReadMoves
  <2>2. CASE t # s
    <3>1. /\ wrote' = wrote /\ shown' = shown /\ redactions' = redactions /\ open' = open /\ pump' = pump
          /\ buffer'[t] = buffer[t] /\ pipe'[t] = pipe[t]
      BY <1>11, <2>2 DEF Read, TypeOK, childVars
    <3> QED
      BY <1>s, <3>1, StreamUntouched
  <2> QED
    BY <2>1, <2>2
<1>12. ASSUME NEW s \in Streams, PrintLine(s) \/ Finish(s) PROVE StreamCopied(t)'
  <2>1. CASE t = s
    <3>1. Prints(t)
      BY <1>12, <2>1 DEF PrintLine, Finish, Prints, childVars
    <3>2. Carried(t)' /\ InLines(t)'
      BY <1>s, <3>1, PrintMoves
    <3>3. DoneOK(t)'
      <4>1. CASE PrintLine(s)
        BY <4>1, <2>1 DEF PrintLine, DoneOK
      <4>2. CASE Finish(s)
        BY <4>2, <2>1 DEF Finish, DoneOK, Drained, TypeOK, childVars
      <4> QED
        BY <1>12, <4>1, <4>2
    <3> QED
      BY <3>2, <3>3 DEF StreamCopied
  <2>2. CASE t # s
    <3>1. /\ wrote' = wrote /\ pipe' = pipe /\ redactions' = redactions /\ open' = open
          /\ buffer'[t] = buffer[t] /\ shown'[t] = shown[t] /\ pump'[t] = pump[t]
      BY <1>12, <2>2 DEF PrintLine, Finish, TypeOK, childVars
    <3> QED
      BY <1>s, <3>1, StreamUntouched
  <2> QED
    BY <2>1, <2>2
<1>14. ASSUME NEW s \in Streams, GiveUp(s) PROVE StreamCopied(t)'
  <2>1. CASE t = s
    BY <1>14, <1>s, <2>1 DEF GiveUp, TypeOK, childVars, StreamCopied, Carried, InLines, DoneOK, Drained
  <2>2. CASE t # s
    <3>1. /\ wrote' = wrote /\ pipe' = pipe /\ redactions' = redactions /\ open' = open
          /\ buffer' = buffer /\ shown' = shown /\ pump'[t] = pump[t]
      BY <1>14, <2>2 DEF GiveUp, TypeOK, childVars
    <3> QED
      BY <1>s, <3>1, StreamUntouched
  <2> QED
    BY <2>1, <2>2
<1>15. ASSUME NEW s \in Streams, Compose(s) PROVE StreamCopied(t)'
  BY <1>15, <1>k DEF Compose, ioVars
<1>16. CASE Push
  <2>1. CASE t = pending[1].on
    BY <1>16, <1>s, <2>1, PushMoves
  <2>2. CASE t # pending[1].on
    <3>1. /\ shown' = shown /\ buffer' = buffer /\ redactions' = redactions /\ open' = open
          /\ pipe'[t] = pipe[t] /\ wrote'[t] = wrote[t] /\ pump' = pump
      BY <1>16, <2>2 DEF Push, TypeOK
    <3> QED
      BY <1>s, <3>1, StreamUntouched
  <2> QED
    BY <2>1, <2>2
<1>17. CASE (\E s \in Streams : CloseStream(s)) \/ Exit \/ DescendantExits
  <2>1. /\ UNCHANGED <<redactions, wrote, pipe, buffer, shown, pump>>
        /\ open' \subseteq open
    BY <1>17 DEF CloseStream, Exit, DescendantExits, ioVars
  <2> QED
    BY <1>s, <2>1, StreamUntouched
<1>20. CASE Kill
  <2>1. /\ UNCHANGED <<redactions, wrote, pipe, buffer, shown>>
        /\ pump'[t] = "none" /\ open' = {}
    BY <1>20 DEF Kill
  <2> QED
    BY <1>s, <2>1, StreamUntouched
<1> QED
  BY <1>0, <1>1, <1>7, <1>8, <1>11, <1>12, <1>14, <1>15, <1>16, <1>17, <1>20
  DEF Next, Broker, Copy, Command
-----------------------------------------------------------------------------
\* Before the command is approved nothing is there.
LEMMA RunStart == Init => RunInv
<1> SUFFICES ASSUME Init PROVE RunInv
  OBVIOUS
<1>1. TypeOK
  <2>1. /\ <<>> \in Seq(Piece) /\ <<>> \in Seq([holds : SUBSET Names, last : BOOLEAN])
        /\ <<>> \in Seq([on : Streams, piece : Piece]) /\ Len(<<>>) = 0
    BY EmptySeq
  <2>2. /\ wrote \in [Streams -> Seq(Piece)] /\ pipe \in [Streams -> Seq(Piece)]
        /\ buffer \in [Streams -> Seq(Piece)]
        /\ shown \in [Streams -> Seq([holds : SUBSET Names, last : BOOLEAN])]
        /\ pump \in [Streams -> {"none", "reading", "done"}]
    BY <2>1 DEF Init
  <2>3. \A s \in Streams : Len(pipe[s]) <= PipeSize /\ Len(buffer[s]) <= LineSize
    BY <2>1, ScopedRunAssumption DEF Init
  <2>4. dir \in [made : BOOLEAN, files : SUBSET Files] /\ faults \in 0..MaxFaults
    BY ScopedRunAssumption DEF Init, Absent
  <2>5. pending \in Seq([on : Streams, piece : Piece]) /\ Len(pending) <= 1
    BY <2>1 DEF Init
  <2> QED
    BY <2>2, <2>3, <2>4, <2>5 DEF Init, TypeOK
<1>2. PhasesOK
  BY DEF Init, PhasesOK, Redactable
<1>3. ASSUME NEW s \in Streams PROVE Carried(s) /\ InLines(s) /\ DoneOK(s)
  <2>1. /\ wrote[s] = <<>> /\ shown[s] = <<>> /\ buffer[s] = <<>> /\ pipe[s] = <<>>
        /\ pump[s] = "none"
    BY DEF Init
  <2>2. Len(<<>>) = 0 /\ 1..0 = {} /\ 1..(0 - 1) = {}
    BY EmptySeq
  <2> QED
    BY <2>1, <2>2 DEF Carried, InLines, DoneOK
<1> QED
  BY <1>1, <1>2, <1>3 DEF RunInv, StreamsOK

\* The invariant of a run, whatever the command writes and which operation fails.
THEOREM RunInvariant == Spec => []RunInv
<1>1. RunInv /\ [Next]_vars => RunInv'
  BY RunTypeStep, PhasesStep, StreamsStep DEF RunInv
<1> QED
  BY RunStart, <1>1, PTL DEF Spec

\* The command has its secrets as long as it runs, and the host no longer unless
\* os.RemoveAll itself fails, for every value of the constants
\* (lease_files.go:11-68, exec.go:49-77).
THEOREM RunsAlwaysSound == Spec => []RunSound
<1>1. RunInv => RunSound
  BY DEF RunInv, PhasesOK, RunSound, NothingLeft, EquippedThroughout
<1> QED
  BY <1>1, RunInvariant, PTL

\* No stream ever shows a value of one line that is long enough to be redacted
\* (secrets.go:165-169, exec.go:79-98).
THEOREM ShownAlwaysRedacted == Spec => []ShownRedacted
<1>1. RunInv => ShownRedacted
  <2> SUFFICES ASSUME RunInv, NEW s \in Streams, NEW i \in DOMAIN shown[s],
                      NEW n \in shown[s][i].holds,
                      n \notin MultiLine
               PROVE  Length[n] < MinRedacted
    BY DEF ShownRedacted
  <2>1. TypeOK /\ PhasesOK /\ StreamCopied(s)
    BY DEF RunInv, StreamsOK, StreamCopied
  <2>2. i \in 1..Len(shown[s]) /\ wrote[s] \in Seq(Piece)
    BY <2>1, StreamTypes, LenProperties
  <2>3. PICK h, w, b, p : h = shown[s] /\ w = wrote[s] /\ b = Len(buffer[s]) /\ p = Len(pipe[s])
    OBVIOUS
  <2>4. /\ Len(w) = Len(h) + b + p /\ Len(w) \in Nat /\ Len(h) \in Nat /\ b \in Nat /\ p \in Nat
        /\ h[i].holds = w[i].holds \ (redactions \ MultiLine)
    BY <2>1, <2>2, <2>3, StreamTypes DEF StreamCopied, Carried
  <2>5. i \in 1..Len(w)
    <3>1. i \in 1..Len(h)
      BY <2>2, <2>3
    <3>2. Len(h) <= Len(w)
      BY <2>4
    <3> QED
      BY <2>4, <3>1, <3>2
  <2>6. w[i] \in Piece
    BY <2>2, <2>3, <2>5, ElementOfSeq
  <2>7. n \in Names /\ n \notin redactions
    BY <2>3, <2>4, <2>6, ScopedRunAssumption DEF Piece
  <2>8. wrote[s] # <<>>
    BY <2>3, <2>5, EmptySeq
  <2>9. resolved = Names
    BY <2>1, <2>8 DEF PhasesOK
  <2>10. ~(Length[n] >= MinRedacted)
    BY <2>1, <2>7, <2>9 DEF PhasesOK, Redactable, LongEnough
  <2> QED
    BY <2>7, <2>10, ScopedRunAssumption
<1> QED
  BY <1>1, RunInvariant, PTL

\* A stream shows every line that was written to it, in order, up to the first
\* line that does not fit the scanner's buffer, for every value of the constants
\* (exec.go:79-88).
THEOREM OutputAlwaysUpToLongLine == Spec => []OutputUpToLongLine
<1>1. RunInv => OutputUpToLongLine
  <2> SUFFICES ASSUME RunInv, pc = "ended", NEW s \in Streams
               PROVE  ShowsAll(s) \/ \E n \in 0..Len(wrote[s]) : ShowsFirst(s, n) /\ LongLineAfter(s, n)
    BY DEF OutputUpToLongLine
  <2>1. TypeOK /\ PhasesOK /\ StreamCopied(s)
    BY DEF RunInv, StreamsOK, StreamCopied
  <2>2. PICK h, w, b, p : h = shown[s] /\ w = wrote[s] /\ b = buffer[s] /\ p = pipe[s]
    OBVIOUS
  <2>3. /\ Len(w) \in Nat /\ Len(h) \in Nat /\ Len(b) \in Nat /\ Len(p) \in Nat
        /\ Len(w) = Len(h) + Len(b) + Len(p)
        /\ \A i \in 1..Len(b) : b[i] = w[Len(h) + i]
    BY <2>1, <2>2, StreamTypes DEF StreamCopied, Carried
  <2>4. ShowsFirst(s, Len(h))
    BY <2>1, <2>2 DEF StreamCopied, Carried, InLines, ShowsFirst, Redact
  <2>5. CASE child = "none" \/ Drained(s)
    <3>1. b = <<>> /\ p = <<>>
      BY <2>1, <2>2, <2>5, NothingMoved DEF Drained
    <3>2. Len(h) = Len(w)
      BY <3>1, <2>3, EmptySeq
    <3> QED
      BY <2>2, <2>4, <3>2 DEF ShowsAll
  <2>6. CASE child # "none" /\ ~Drained(s)
    <3>1. pump[s] = "done"
      BY <2>1, <2>6 DEF PhasesOK
    <3>2. /\ Len(b) = LineSize /\ ~b[Len(b)].last
          /\ \A i \in 1..(Len(b) - 1) : ~b[i].last
          /\ Len(h) = 0 \/ w[Len(h)].last
      BY <2>1, <2>2, <2>6, <3>1 DEF StreamCopied, DoneOK, InLines
    <3>3. ASSUME NEW i \in 1..LineSize PROVE ~w[Len(h) + i].last
      <4>1. b[i] = w[Len(h) + i]
        BY <2>3, <3>2
      <4>2. i \in 1..(Len(b) - 1) \/ i = Len(b)
        BY <3>2, ScopedRunAssumption
      <4> QED
        BY <3>2, <4>1, <4>2
    <3>4. Len(h) \in 0..Len(w) /\ Len(h) + LineSize <= Len(w)
      BY <2>3, <3>2
    <3>5. LongLineAfter(s, Len(h))
      BY <2>2, <3>2, <3>3, <3>4 DEF LongLineAfter
    <3> QED
      BY <2>2, <2>4, <3>4, <3>5
  <2> QED
    BY <2>5, <2>6
<1> QED
  BY <1>1, RunInvariant, PTL
=============================================================================
