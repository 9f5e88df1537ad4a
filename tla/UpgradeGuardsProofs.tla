-------------------------- MODULE UpgradeGuardsProofs --------------------------
(***************************************************************************)
(* Proofs about UpgradeGuards, and then about UpgradeIntake around it, for *)
(* every set of handlers, agents and justifications, every limit, window   *)
(* and skew, and every bound.                                              *)
(***************************************************************************)
EXTENDS UpgradeIntake, FiniteSetTheorems, WellFoundedInduction,
        SequenceTheorems, TLAPS

-----------------------------------------------------------------------------
\* A set of indices that is not empty has a first one: of the intervals that
\* end at an index, one contains no other.
LEMMA FirstType ==
  ASSUME NEW indices \in SUBSET Nat, indices # {}
  PROVE  First(indices) \in indices /\ \A j \in indices : First(indices) <= j
<1> DEFINE upTo == {0..i : i \in indices}
<1>1. upTo \subseteq FiniteSubsetsOf(Nat)
  <2>1. ASSUME NEW i \in indices PROVE 0..i \in FiniteSubsetsOf(Nat)
    <3>1. IsFiniteSet(0..i) /\ 0..i \subseteq Nat
      BY FS_Interval
    <3> QED
      BY <3>1 DEF FiniteSubsetsOf
  <2> QED
    BY <2>1
<1>2. IsWellFoundedOn(StrictSubsetOrdering(Nat), FiniteSubsetsOf(Nat))
  BY FS_StrictSubsetOrderingWellFounded
<1>3. upTo # {}
  OBVIOUS
<1> HIDE DEF upTo
<1>4. PICK least \in upTo : \A other \in upTo : <<other, least>> \notin StrictSubsetOrdering(Nat)
  BY <1>1, <1>2, <1>3, WFMin, Zenon
<1>5. PICK i \in indices : least = 0..i
  BY <1>4 DEF upTo
<1>6. ASSUME NEW j \in indices PROVE i <= j
  <2>1. 0..j \in upTo /\ 0..j \subseteq Nat /\ 0..i \subseteq Nat /\ i \in Nat /\ j \in Nat
    BY DEF upTo
  <2>2. ~(0..j \subseteq 0..i /\ 0..j # 0..i)
    BY <1>4, <1>5, <2>1 DEF StrictSubsetOrdering
  <2>3. ASSUME j < i PROVE FALSE
    <3>1. 0..j \subseteq 0..i /\ i \in 0..i /\ i \notin 0..j
      BY <2>1, <2>3
    <3> QED
      BY <2>2, <3>1
  <2> QED
    BY <2>1, <2>3
<1>7. \E k \in indices : \A j \in indices : k <= j
  BY <1>6
<1> QED
  BY <1>7 DEF First

LEMMA IdleType == Idle \in Handler /\ Idle.pc = "idle"
<1>1. PICK a \in Agents, x \in Reasons : TRUE
  BY UpgradeGuardsAssumption
<1>2. <<a, x>> \in Keys
  BY DEF Keys
<1>3. (CHOOSE k \in Keys : TRUE) \in Keys
  BY <1>2
<1> QED
  BY <1>3 DEF Idle, Handler

LEMMA KeyType ==
  ASSUME TypeOK, NEW p \in Posts
  PROVE  /\ post[p] \in Handler /\ post[p].key \in Keys
         /\ post[p].key[1] \in Agents /\ post[p].since \in Nat
  BY DEF TypeOK, Handler, Keys

\* An upgrade more behind the others.
LEMMA AppendType ==
  ASSUME NEW s \in Seq(Passage), NEW e \in Passage
  PROVE  /\ Append(s, e) \in Seq(Passage)
         /\ DOMAIN s = 1..Len(s) /\ Len(s) \in Nat
         /\ DOMAIN Append(s, e) = 1..(Len(s) + 1)
         /\ \A i \in DOMAIN s : Append(s, e)[i] = s[i]
         /\ Append(s, e)[Len(s) + 1] = e
<1>1. DOMAIN s = 1..Len(s) /\ Len(s) \in Nat
  BY LenProperties
<1>2. /\ Append(s, e) \in Seq(Passage) /\ Len(Append(s, e)) = Len(s) + 1
      /\ \A i \in 1..Len(s) : Append(s, e)[i] = s[i]
      /\ Append(s, e)[Len(s) + 1] = e
  BY AppendProperties
<1>3. DOMAIN Append(s, e) = 1..Len(Append(s, e))
  BY <1>2, LenProperties
<1> QED
  BY <1>1, <1>2, <1>3

-----------------------------------------------------------------------------
LEMMA TypeInit == Init => TypeOK
<1> SUFFICES ASSUME Init PROVE TypeOK
  OBVIOUS
<1>1. post \in [Posts -> Handler]
  BY IdleType DEF Init
<1>2. spent \in [Agents -> Seq(Passage)]
  BY DEF Init
<1> QED
  BY <1>1, <1>2 DEF Init, TypeOK

\* Handlers stay handlers when one of them answers or moves on.
LEMMA AnswerType ==
  ASSUME TypeOK, NEW p \in Posts, Answer(p) \/ Passed(p)
  PROVE  post' \in [Posts -> Handler]
<1>1. CASE Answer(p)
  BY <1>1, IdleType DEF Answer, TypeOK
<1>2. CASE Passed(p)
  <2> DEFINE h == [post[p] EXCEPT !.pc = "mark", !.since = clock]
  <2>1. post[p] \in Handler /\ clock \in Nat /\ post \in [Posts -> Handler]
    BY KeyType DEF TypeOK
  <2>2. h \in Handler
    BY <2>1 DEF Handler
  <2>3. post' = [post EXCEPT ![p] = h]
    BY <1>2, <2>1 DEF Passed
  <2> HIDE DEF h
  <2> QED
    BY <2>1, <2>2, <2>3
<1> QED
  BY <1>1, <1>2

\* What a refusal advises is an instant.
LEMMA RetryType == ASSUME clock \in Nat, NEW a, NEW now PROVE RetryAt(a, now) \in SUBSET Nat
<1> DEFINE d == spent[a][First(Live(a, now))].now + Window - now
<1>1. Told(d) \subseteq Nat
  BY DEF Told, Nearest
<1>2. RetryAt(a, now) = {clock + w : w \in Told(d)}
  BY DEF RetryAt
<1> HIDE DEF d
<1> QED
  BY <1>1, <1>2

LEMMA TypeNext == TypeOK /\ [Next]_vars => TypeOK'
<1> SUFFICES ASSUME TypeOK, [Next]_vars PROVE TypeOK'
  OBVIOUS
<1>1. ASSUME NEW p \in Posts, Post(p) PROVE TypeOK'
  <2>1. post' \in [Posts -> Handler]
    BY <1>1 DEF Post, TypeOK, Handler
  <2> QED
    BY <1>1, <2>1 DEF Post, TypeOK
<1>2. ASSUME NEW p \in Posts, Allow(p) PROVE TypeOK'
  <2> DEFINE a == post[p].key[1]
  <2>1. PICK now \in post[p].since..clock :
          IF Cardinality(Live(a, now)) >= Limit
          THEN /\ advice' = [advice EXCEPT ![a] = RetryAt(a, now)]
               /\ Answer(p)
               /\ UNCHANGED <<spent, history>>
          ELSE /\ spent' = [spent EXCEPT ![a] = Append(@, [now |-> now, at |-> clock])]
               /\ history' = [history EXCEPT ![a] = Live(a, now) \cup {Len(spent[a]) + 1}]
               /\ advice' = [advice EXCEPT ![a] = {}]
               /\ Passed(p)
    BY <1>2 DEF Allow
  <2>2. a \in Agents /\ now \in Nat /\ clock \in Nat /\ [now |-> now, at |-> clock] \in Passage
    BY KeyType DEF TypeOK, Passage
  <2>3. spent[a] \in Seq(Passage) /\ history[a] \subseteq DOMAIN spent[a]
    BY <2>2 DEF TypeOK
  <2>4. Live(a, now) \subseteq history[a]
    BY DEF Live
  <2>5. post' \in [Posts -> Handler]
    BY <2>1, AnswerType
  <2>6. UNCHANGED <<seen, passed, clock, crashes>>
    BY <1>2 DEF Allow
  <2> HIDE DEF a
  <2>7. CASE Cardinality(Live(a, now)) >= Limit
    <3>1. advice' = [advice EXCEPT ![a] = RetryAt(a, now)] /\ UNCHANGED <<spent, history>>
      BY <2>1, <2>7
    <3>2. RetryAt(a, now) \in SUBSET Nat
      BY <2>2, RetryType
    <3>3. advice' \in [Agents -> SUBSET Nat]
      BY <3>1, <3>2 DEF TypeOK
    <3> QED
      BY <2>5, <2>6, <3>1, <3>3 DEF TypeOK
  <2>8. CASE ~(Cardinality(Live(a, now)) >= Limit)
    <3> DEFINE e == [now |-> now, at |-> clock]
    <3>1. /\ Append(spent[a], e) \in Seq(Passage) /\ DOMAIN spent[a] = 1..Len(spent[a])
          /\ DOMAIN Append(spent[a], e) = 1..(Len(spent[a]) + 1) /\ Len(spent[a]) \in Nat
      BY <2>2, <2>3, AppendType
    <3>2. /\ spent' = [spent EXCEPT ![a] = Append(spent[a], e)]
          /\ history' = [history EXCEPT ![a] = Live(a, now) \cup {Len(spent[a]) + 1}]
          /\ advice' = [advice EXCEPT ![a] = {}]
      BY <2>1, <2>8
    <3> HIDE DEF e
    <3>3. spent' \in [Agents -> Seq(Passage)] /\ advice' \in [Agents -> SUBSET Nat]
      BY <3>1, <3>2 DEF TypeOK
    <3>4. Live(a, now) \cup {Len(spent[a]) + 1} \subseteq 1..(Len(spent[a]) + 1)
      BY <2>3, <2>4, <3>1
    <3>5. /\ history' \in [Agents -> SUBSET Nat]
          /\ \A b \in Agents : history'[b] \subseteq DOMAIN spent'[b]
      BY <2>2, <3>1, <3>2, <3>4 DEF TypeOK
    <3> QED
      BY <2>5, <2>6, <3>3, <3>5 DEF TypeOK
  <2> QED
    BY <2>7, <2>8
<1>3. ASSUME NEW p \in Posts, Mark(p) PROVE TypeOK'
  <2> DEFINE k == post[p].key
             fresh(now) == {e \in seen : now <= e.now + DedupWindow}
  <2>1. PICK now \in post[p].since..clock :
          IF \E e \in fresh(now) : e.key = k
          THEN seen' = fresh(now) /\ UNCHANGED passed
          ELSE /\ seen' = fresh(now) \cup {[key |-> k, now |-> now]}
               /\ passed' = [passed EXCEPT ![k] = {clock}]
    BY <1>3 DEF Mark
  <2>2. k \in Keys /\ now \in Nat /\ clock \in Nat
    BY KeyType DEF TypeOK
  <2>3. fresh(now) \subseteq seen
    OBVIOUS
  <2>4. post' \in [Posts -> Handler]
    BY <1>3, AnswerType DEF Mark
  <2>5. UNCHANGED <<spent, history, advice, clock, crashes>>
    BY <1>3 DEF Mark
  <2> HIDE DEF k, fresh
  <2>6. passed' \in [Keys -> SUBSET Nat]
    BY <2>1, <2>2 DEF TypeOK
  <2>7. /\ seen' \subseteq [key : Keys, now : Nat]
        /\ \A e, f \in seen' : e.key = f.key => e = f
    <3>1. CASE \E e \in fresh(now) : e.key = k
      BY <2>1, <2>3, <3>1 DEF TypeOK
    <3>2. CASE ~\E e \in fresh(now) : e.key = k
      <4>1. seen' = fresh(now) \cup {[key |-> k, now |-> now]}
        BY <2>1, <3>2
      <4> QED
        BY <2>2, <2>3, <3>2, <4>1 DEF TypeOK
    <3> QED
      BY <3>1, <3>2
  <2> QED
    BY <2>4, <2>5, <2>6, <2>7 DEF TypeOK
<1>4. CASE Crash
  <2>1. post' \in [Posts -> Handler] /\ spent' \in [Agents -> Seq(Passage)]
    BY <1>4, IdleType DEF Crash
  <2> QED
    BY <1>4, <2>1 DEF Crash, TypeOK
<1>5. CASE Tick \/ UNCHANGED vars
  BY <1>5 DEF Tick, vars, TypeOK
<1> QED
  BY <1>1, <1>2, <1>3, <1>4, <1>5 DEF Next

\* The handlers, the limiter's and the cache's data keep their kind; the cache
\* has one entry for a justification (markIfFresh).
THEOREM GuardsTypeCorrect == Spec => []TypeOK
  BY TypeInit, TypeNext, PTL DEF Spec
-----------------------------------------------------------------------------
\* A handler waits no longer than Skew for a mutex.
PostOK(p) ==
  post[p].pc # "idle" => post[p].since <= clock /\ clock <= post[p].since + Skew

\* The upgrades of an agent lie in the order of their true instants, each
\* near the instant its handler read.
PassagesOK(a) ==
  /\ \A i \in DOMAIN spent[a] : /\ spent[a][i].now <= spent[a][i].at
                                /\ spent[a][i].at <= spent[a][i].now + Skew
                                /\ spent[a][i].at <= clock
  /\ \A i, j \in DOMAIN spent[a] : i <= j => spent[a][i].at <= spent[a][j].at

\* What the history dropped is out of the window, and the history is not
\* longer than the limit.
HistoryOK(a) ==
  /\ \A i \in DOMAIN spent[a] \ history[a] : spent[a][i].at + Window <= clock + Skew
  /\ IsFiniteSet(history[a]) /\ Cardinality(history[a]) <= Limit

\* The quota of one agent.
QuotaOK(a) ==
  \A i \in DOMAIN spent[a] :
    i + Limit \in DOMAIN spent[a] => spent[a][i + Limit].at + Skew >= spent[a][i].at + Window

\* An advised instant is near the one at which an entry expires, up to the
\* rounding, and to the wait for the mutex when it is later.
About(t, expiry) == 2 * expiry <= 2 * t + Second /\ 2 * t <= 2 * expiry + Second + 2 * Skew

\* The history is full, and the instants are about the expiry of its first entry.
Advisable(a, instants) ==
  /\ Cardinality(history[a]) >= Limit
  /\ \E i \in history[a] : /\ \A j \in history[a] : i <= j
                           /\ \A t \in instants : About(t, spent[a][i].now + Window)

AdviceOK(a) == advice[a] # {} => Advisable(a, advice[a])

\* The cache remembers what it let pass until the window is over.
Remembered(k, t) == \E e \in seen : e.key = k /\ t <= e.now + Skew

MarkOK(k) ==
  \A t \in passed[k] : Remembered(k, t) \/ t + DedupWindow < clock + Skew

GInv == /\ TypeOK
        /\ \A p \in Posts : PostOK(p)
        /\ \A a \in Agents : PassagesOK(a) /\ HistoryOK(a) /\ QuotaOK(a) /\ AdviceOK(a)
        /\ \A k \in Keys : MarkOK(k)

-----------------------------------------------------------------------------
\* How a step can touch the limiter's data of an agent: an upgrade passes ...
Admits(a, now) ==
  /\ Cardinality(Live(a, now)) < Limit
  /\ spent'[a] = Append(spent[a], [now |-> now, at |-> clock])
  /\ history'[a] = Live(a, now) \cup {Len(spent[a]) + 1}
  /\ advice'[a] = {} /\ clock' = clock

\* ... or is refused, or nothing happens to it ...
Keeps(a) ==
  /\ spent'[a] = spent[a] /\ history'[a] = history[a]
  /\ \/ advice'[a] = advice[a]
     \/ Advisable(a, advice'[a])

\* ... or the daemon starts afresh.
Forgets(a) == spent'[a] = <<>> /\ history'[a] = {} /\ advice'[a] = {}

\* The instant a handler judges by is at most Skew old.
LEMMA NowRange ==
  ASSUME TypeOK, NEW p \in Posts, PostOK(p), post[p].pc # "idle",
         NEW now \in post[p].since..clock
  PROVE  now \in Nat /\ clock \in Nat /\ now <= clock /\ clock <= now + Skew
<1>1. post[p].since \in Nat /\ clock \in Nat /\ Skew \in Nat
  BY KeyType, UpgradeGuardsAssumption DEF TypeOK
<1> QED
  BY <1>1 DEF PostOK

LEMMA ClockNext == TypeOK /\ [Next]_vars => clock' \in Nat /\ clock <= clock'
<1> SUFFICES ASSUME TypeOK, [Next]_vars PROVE clock' \in Nat /\ clock <= clock'
  OBVIOUS
<1>1. clock \in Nat
  BY DEF TypeOK
<1>2. clock' = clock \/ clock' = clock + 1
  BY DEF Next, Post, Allow, Mark, Crash, Tick, vars
<1> QED
  BY <1>1, <1>2

\* What is live is part of the history, and finite as it is.
LEMMA LiveSubset ==
  ASSUME TypeOK, NEW a \in Agents, IsFiniteSet(history[a]), NEW now \in Nat
  PROVE  /\ Live(a, now) \subseteq history[a] /\ IsFiniteSet(Live(a, now))
         /\ Cardinality(Live(a, now)) \in Nat /\ Cardinality(history[a]) \in Nat
         /\ Cardinality(Live(a, now)) <= Cardinality(history[a])
         /\ Cardinality(Live(a, now)) = Cardinality(history[a]) => Live(a, now) = history[a]
<1>1. Live(a, now) \in SUBSET history[a]
  BY DEF Live
<1>2. /\ IsFiniteSet(Live(a, now))
      /\ Cardinality(Live(a, now)) <= Cardinality(history[a])
      /\ Cardinality(history[a]) = Cardinality(Live(a, now)) => history[a] = Live(a, now)
  BY <1>1, FS_Subset
<1> QED
  BY <1>1, <1>2, FS_CardinalityType

LEMMA PassageType ==
  ASSUME TypeOK, NEW a \in Agents
  PROVE  /\ spent[a] \in Seq(Passage) /\ Len(spent[a]) \in Nat
         /\ DOMAIN spent[a] = 1..Len(spent[a])
         /\ \A i \in DOMAIN spent[a] : spent[a][i].now \in Nat /\ spent[a][i].at \in Nat
         /\ history[a] \subseteq DOMAIN spent[a]
<1>1. spent[a] \in Seq(Passage)
  BY DEF TypeOK
<1>2. /\ DOMAIN spent[a] = 1..Len(spent[a]) /\ Len(spent[a]) \in Nat
      /\ \A i \in DOMAIN spent[a] : spent[a][i] \in Passage
  BY <1>1, LenProperties
<1> QED
  BY <1>1, <1>2 DEF TypeOK, Passage

\* A refusal advises the expiry of kept[0], which is the first of the history.
LEMMA RefusalAdvises ==
  ASSUME TypeOK, NEW a \in Agents, HistoryOK(a), NEW now \in 0..clock, clock <= now + Skew,
         Cardinality(Live(a, now)) >= Limit
  PROVE  Advisable(a, RetryAt(a, now))
<1>1. /\ clock \in Nat /\ now \in Nat /\ now <= clock /\ Skew \in Nat
      /\ Window \in Nat /\ Limit \in Nat \ {0} /\ Second \in Nat
  BY UpgradeGuardsAssumption DEF TypeOK
<1>2. IsFiniteSet(history[a]) /\ Cardinality(history[a]) <= Limit
  BY DEF HistoryOK
<1>3. /\ Cardinality(Live(a, now)) \in Nat /\ Cardinality(history[a]) \in Nat
      /\ Cardinality(Live(a, now)) <= Cardinality(history[a])
      /\ Cardinality(Live(a, now)) = Cardinality(history[a]) => Live(a, now) = history[a]
  BY <1>1, <1>2, LiveSubset
<1>4. Live(a, now) = history[a] /\ Cardinality(history[a]) >= Limit
  BY <1>1, <1>2, <1>3
<1>5. history[a] \subseteq Nat /\ history[a] # {}
  <2>1. history[a] \in SUBSET Nat
    BY DEF TypeOK
  <2>2. Cardinality(history[a]) # 0
    BY <1>1, <1>3, <1>4
  <2> QED
    BY <2>1, <2>2, FS_EmptySet
<1> DEFINE i == First(Live(a, now))
<1>6. i \in history[a] /\ \A j \in history[a] : i <= j
  BY <1>4, <1>5, FirstType
<1>7. PICK e \in Nat : e = spent[a][i].now
  BY <1>6, PassageType
<1>8. now < e + Window
  BY <1>4, <1>6, <1>7 DEF Live
<1>9. RetryAt(a, now) = {clock + w : w \in Told(e + Window - now)}
  BY <1>7 DEF RetryAt
<1> HIDE DEF i
<1>10. ASSUME NEW t \in RetryAt(a, now) PROVE About(t, e + Window)
  <2>1. PICK w \in Told(e + Window - now) : t = clock + w
    BY <1>9
  <2>2. PICK d \in Nat : d = e + Window - now
    BY <1>1, <1>8
  <2>3. /\ w \in Nat /\ 2 * w <= 2 * d + Second /\ 2 * d <= 2 * w + Second
    BY <2>1, <2>2 DEF Told, Nearest
  <2> QED
    BY <1>1, <2>1, <2>2, <2>3 DEF About
<1> QED
  BY <1>4, <1>6, <1>7, <1>10 DEF Advisable

LEMMA AgentNext ==
  ASSUME TypeOK, \A p \in Posts : PostOK(p), [Next]_vars, NEW a \in Agents,
         HistoryOK(a)
  PROVE  \/ Keeps(a) \/ Forgets(a)
         \/ \E now \in 0..clock : clock <= now + Skew /\ Admits(a, now)
<1>1. ASSUME NEW p \in Posts, Allow(p)
      PROVE  \/ Keeps(a)
             \/ \E now \in 0..clock : clock <= now + Skew /\ Admits(a, now)
  <2> DEFINE b == post[p].key[1]
  <2>1. PICK now \in post[p].since..clock :
          IF Cardinality(Live(b, now)) >= Limit
          THEN /\ advice' = [advice EXCEPT ![b] = RetryAt(b, now)]
               /\ UNCHANGED <<spent, history>>
          ELSE /\ spent' = [spent EXCEPT ![b] = Append(@, [now |-> now, at |-> clock])]
               /\ history' = [history EXCEPT ![b] = Live(b, now) \cup {Len(spent[b]) + 1}]
               /\ advice' = [advice EXCEPT ![b] = {}]
    BY <1>1 DEF Allow
  <2>2. now \in 0..clock /\ clock <= now + Skew
    BY <1>1, NowRange DEF Allow
  <2>3. b \in Agents /\ clock' = clock
    BY <1>1, KeyType DEF Allow
  <2>4. Live(b, now) \subseteq history[b] /\ history[b] \subseteq Nat
    BY <2>3 DEF Live, TypeOK
  <2> HIDE DEF b
  <2>5. CASE a # b
    <3>1. /\ spent' = spent \/ \E s : spent' = [spent EXCEPT ![b] = s]
          /\ history' = history \/ \E s : history' = [history EXCEPT ![b] = s]
          /\ \E s : advice' = [advice EXCEPT ![b] = s]
      BY <2>1, Zenon
    <3>2. spent'[a] = spent[a]
      BY <2>5, <3>1 DEF TypeOK
    <3>3. history'[a] = history[a] /\ advice'[a] = advice[a]
      BY <2>5, <3>1 DEF TypeOK
    <3> QED
      BY <3>2, <3>3 DEF Keeps
  <2>6. CASE a = b /\ Cardinality(Live(b, now)) >= Limit
    <3>1. advice'[b] = RetryAt(b, now) /\ spent' = spent /\ history' = history
      BY <2>1, <2>3, <2>6 DEF TypeOK
    <3>2. Advisable(b, RetryAt(b, now))
      BY <2>2, <2>3, <2>6, RefusalAdvises
    <3> QED
      BY <2>6, <3>1, <3>2 DEF Keeps
  <2>7. CASE a = b /\ ~(Cardinality(Live(b, now)) >= Limit)
    <3>1. Limit \in Nat
      BY UpgradeGuardsAssumption
    <3>2. spent'[b] = Append(spent[b], [now |-> now, at |-> clock])
      BY <2>1, <2>3, <2>7 DEF TypeOK
    <3>3. /\ history'[b] = Live(b, now) \cup {Len(spent[b]) + 1}
          /\ advice'[b] = {}
      BY <2>1, <2>3, <2>7 DEF TypeOK
    <3>4. IsFiniteSet(Live(b, now))
      <4>1. /\ history[b] \subseteq 1..Len(spent[b]) /\ Len(spent[b]) \in Nat
        BY <2>3, LenProperties DEF TypeOK
      <4>2. Live(b, now) \subseteq 1..Len(spent[b])
        BY <2>4, <4>1
      <4>3. IsFiniteSet(1..Len(spent[b]))
        BY <4>1, FS_Interval
      <4> QED
        BY <4>2, <4>3, FS_Subset
    <3>5. Cardinality(Live(b, now)) < Limit
      <4>1. Cardinality(Live(b, now)) \in Nat
        BY <3>4, FS_CardinalityType
      <4> QED
        BY <2>7, <3>1, <4>1
    <3> QED
      BY <2>2, <2>3, <2>7, <3>2, <3>3, <3>5 DEF Admits
  <2> QED
    BY <2>5, <2>6, <2>7
<1>2. CASE Crash
  BY <1>2 DEF Crash, Forgets
<1>3. ASSUME NEW p \in Posts, Post(p) \/ Mark(p) PROVE Keeps(a)
  BY <1>3 DEF Post, Mark, Keeps
<1>4. CASE Tick \/ UNCHANGED vars
  BY <1>4 DEF Tick, vars, Keeps
<1> QED
  BY <1>1, <1>2, <1>3, <1>4 DEF Next

\* Of Limit upgrades in a row one is not live while a new one may pass.
LEMMA OneExpired ==
  ASSUME TypeOK, NEW a \in Agents, IsFiniteSet(history[a]), NEW now \in Nat,
         Cardinality(Live(a, now)) < Limit,
         NEW i \in Nat, NEW n \in Nat, i + Limit = n
  PROVE  \E j \in i..(n - 1) : j \notin Live(a, now)
<1> SUFFICES ASSUME i..(n - 1) \subseteq Live(a, now) PROVE FALSE
  OBVIOUS
<1>1. Limit \in Nat /\ n - 1 \in Int /\ i \in Int /\ i <= n - 1
  BY UpgradeGuardsAssumption
<1>2. Cardinality(i..(n - 1)) = (n - 1) - i + 1
  <2>1. ~(i > n - 1)
    BY <1>1
  <2> QED
    BY <1>1, <2>1, FS_Interval
<1>3. Cardinality(i..(n - 1)) <= Cardinality(Live(a, now))
  BY LiveSubset, FS_Subset
<1>4. Cardinality(Live(a, now)) \in Nat
  BY LiveSubset
<1> QED
  BY <1>1, <1>2, <1>3, <1>4

\* What an agent gets past the limiter.
LEMMA AdmitNext ==
  ASSUME TypeOK, NEW a \in Agents, PassagesOK(a), HistoryOK(a), QuotaOK(a),
         NEW now \in 0..clock, clock <= now + Skew, Admits(a, now)
  PROVE  PassagesOK(a)' /\ HistoryOK(a)' /\ QuotaOK(a)' /\ AdviceOK(a)'
<1> DEFINE e == [now |-> now, at |-> clock]
           n == Len(spent[a]) + 1
<1>1. /\ clock \in Nat /\ now \in Nat /\ now <= clock /\ clock' = clock
      /\ Skew \in Nat /\ Window \in Nat /\ Limit \in Nat /\ Limit > 0
  BY UpgradeGuardsAssumption DEF TypeOK, Admits
<1>2. e \in Passage /\ e.now = now /\ e.at = clock
  BY <1>1 DEF Passage
<1>3. /\ Len(spent[a]) \in Nat /\ DOMAIN spent[a] = 1..Len(spent[a])
      /\ spent[a] \in Seq(Passage) /\ history[a] \subseteq 1..Len(spent[a])
      /\ \A i \in 1..Len(spent[a]) : spent[a][i].now \in Nat /\ spent[a][i].at \in Nat
  BY PassageType
<1>4. /\ DOMAIN spent'[a] = 1..n /\ n \in Nat
      /\ \A i \in 1..Len(spent[a]) : spent'[a][i] = spent[a][i]
      /\ spent'[a][n] = e
  BY <1>2, <1>3, AppendType DEF Admits
<1>5. /\ history'[a] = Live(a, now) \cup {n} /\ advice'[a] = {}
      /\ Cardinality(Live(a, now)) < Limit
  BY DEF Admits
<1>6. /\ IsFiniteSet(history[a]) /\ Cardinality(history[a]) <= Limit
      /\ Live(a, now) \subseteq history[a] /\ IsFiniteSet(Live(a, now))
      /\ Cardinality(Live(a, now)) \in Nat
  BY <1>1, LiveSubset DEF HistoryOK
<1>7. \A i \in 1..n : i \in 1..Len(spent[a]) \/ i = n
  BY <1>3
<1> HIDE DEF e, n
<1>8. \* What is not live is out of the window.
      \A i \in 1..Len(spent[a]) \ Live(a, now) : spent[a][i].at + Window <= clock + Skew
  <2> SUFFICES ASSUME NEW i \in 1..Len(spent[a]), i \notin Live(a, now)
               PROVE  spent[a][i].at + Window <= clock + Skew
    OBVIOUS
  <2>1. spent[a][i].now \in Nat /\ spent[a][i].at \in Nat
    BY <1>3
  <2>2. CASE i \notin history[a]
    BY <1>3, <2>2 DEF HistoryOK
  <2>3. CASE i \in history[a]
    <3>1. spent[a][i].now + Window <= now
      BY <1>1, <2>1, <2>3 DEF Live
    <3>2. spent[a][i].at <= spent[a][i].now + Skew
      BY <1>3 DEF PassagesOK
    <3>3. PICK x \in Nat, y \in Nat : x = spent[a][i].at /\ y = spent[a][i].now
      BY <2>1
    <3>4. y + Window <= now /\ x <= y + Skew
      BY <3>1, <3>2, <3>3
    <3>5. x + Window <= clock + Skew
      BY <1>1, <3>4
    <3> QED
      BY <3>3, <3>5
  <2> QED
    BY <2>2, <2>3
<1>9. PassagesOK(a)'
  <2>1. ASSUME NEW i \in 1..n
        PROVE  /\ spent'[a][i].now <= spent'[a][i].at
               /\ spent'[a][i].at <= spent'[a][i].now + Skew
               /\ spent'[a][i].at <= clock'
    <3>1. CASE i = n
      BY <1>1, <1>2, <1>4, <3>1
    <3>2. CASE i \in 1..Len(spent[a])
      BY <1>1, <1>3, <1>4, <3>2 DEF PassagesOK
    <3> QED
      BY <1>7, <3>1, <3>2
  <2>2. ASSUME NEW i \in 1..n, NEW j \in 1..n, i <= j
        PROVE  spent'[a][i].at <= spent'[a][j].at
    <3>1. CASE j = n
      BY <1>1, <1>2, <1>4, <2>1, <3>1
    <3>2. CASE j # n
      <4>1. i \in 1..Len(spent[a]) /\ j \in 1..Len(spent[a])
        BY <1>3, <1>4, <1>7, <2>2, <3>2 DEF n
      <4> QED
        BY <1>3, <1>4, <2>2, <4>1 DEF PassagesOK
    <3> QED
      BY <3>1, <3>2
  <2> QED
    BY <1>4, <2>1, <2>2 DEF PassagesOK
<1>10. HistoryOK(a)'
  <2>1. ASSUME NEW i \in 1..n \ history'[a]
        PROVE  spent'[a][i].at + Window <= clock' + Skew
    <3>1. i \in 1..Len(spent[a]) \ Live(a, now)
      BY <1>5, <1>7
    <3> QED
      BY <1>1, <1>4, <1>8, <3>1
  <2>2. /\ IsFiniteSet(Live(a, now) \cup {n})
        /\ \/ Cardinality(Live(a, now) \cup {n}) = Cardinality(Live(a, now))
           \/ Cardinality(Live(a, now) \cup {n}) = Cardinality(Live(a, now)) + 1
    BY <1>6, FS_AddElement
  <2>3. Cardinality(Live(a, now) \cup {n}) <= Limit
    BY <1>1, <1>5, <1>6, <2>2
  <2> QED
    BY <1>4, <1>5, <2>1, <2>2, <2>3 DEF HistoryOK
<1>11. QuotaOK(a)'
  <2> SUFFICES ASSUME NEW i \in 1..n, i + Limit \in 1..n
               PROVE  spent'[a][i + Limit].at + Skew >= spent'[a][i].at + Window
    BY <1>4 DEF QuotaOK
  <2>0. i \in 1..Len(spent[a])
    BY <1>1, <1>3 DEF n
  <2>1. CASE i + Limit \in 1..Len(spent[a])
    BY <1>3, <1>4, <2>0, <2>1 DEF QuotaOK
  <2>2. CASE i + Limit = n
    <3>1. \E j \in i..(n - 1) : j \notin Live(a, now)
      <4>1. i \in Nat /\ n \in Nat
        BY <1>3, <1>4, <2>0
      <4>2. IsFiniteSet(history[a]) /\ now \in Nat /\ Cardinality(Live(a, now)) < Limit
        BY <1>1, <1>5, <1>6
      <4> QED
        BY <2>2, <4>1, <4>2, OneExpired
    <3>2. PICK j \in i..(n - 1) : j \notin Live(a, now)
      BY <3>1
    <3>3. j \in 1..Len(spent[a]) /\ i <= j
      BY <1>3, <2>0, <3>2 DEF n
    <3>4. spent[a][j].at + Window <= clock + Skew
      BY <1>8, <3>2, <3>3
    <3>5. spent[a][i].at <= spent[a][j].at
      BY <1>3, <2>0, <3>3 DEF PassagesOK
    <3>6. spent[a][i].at \in Nat /\ spent[a][j].at \in Nat
      BY <1>3, <2>0, <3>3
    <3>7. spent'[a][i].at = spent[a][i].at /\ spent'[a][i + Limit].at = clock
      BY <1>2, <1>4, <2>0, <2>2
    <3> QED
      BY <1>1, <3>4, <3>5, <3>6, <3>7
  <2> QED
    BY <1>7, <2>1, <2>2
<1>12. AdviceOK(a)'
  BY <1>5 DEF AdviceOK
<1> QED
  BY <1>9, <1>10, <1>11, <1>12

LEMMA AgentsNext ==
  GInv /\ [Next]_vars
    => \A a \in Agents : PassagesOK(a)' /\ HistoryOK(a)' /\ QuotaOK(a)' /\ AdviceOK(a)'
<1> SUFFICES ASSUME GInv, [Next]_vars, NEW a \in Agents
             PROVE  PassagesOK(a)' /\ HistoryOK(a)' /\ QuotaOK(a)' /\ AdviceOK(a)'
  OBVIOUS
<1>1. TypeOK /\ PassagesOK(a) /\ HistoryOK(a) /\ QuotaOK(a) /\ AdviceOK(a)
  BY DEF GInv
<1>2. /\ clock \in Nat /\ clock' \in Nat /\ clock <= clock'
      /\ Skew \in Nat /\ Window \in Nat /\ Limit \in Nat
  BY <1>1, ClockNext, UpgradeGuardsAssumption DEF TypeOK
<1>3. CASE Keeps(a)
  <2>1. \A i \in DOMAIN spent[a] : spent[a][i].now \in Nat /\ spent[a][i].at \in Nat
    BY <1>1, PassageType
  <2>2. spent'[a] = spent[a] /\ history'[a] = history[a]
    BY <1>3 DEF Keeps
  <2>3. PassagesOK(a)' /\ HistoryOK(a)' /\ QuotaOK(a)'
    <3>1. PassagesOK(a)'
      BY <1>1, <1>2, <2>1, <2>2 DEF PassagesOK
    <3>2. HistoryOK(a)'
      BY <1>1, <1>2, <2>1, <2>2 DEF HistoryOK
    <3>3. QuotaOK(a)'
      BY <1>1, <2>2 DEF QuotaOK
    <3> QED
      BY <3>1, <3>2, <3>3
  <2>4. AdviceOK(a)'
    BY <1>1, <1>3, <2>2 DEF AdviceOK, Advisable, Keeps
  <2> QED
    BY <2>3, <2>4
<1>4. CASE Forgets(a)
  <2>1. spent'[a] = <<>> /\ history'[a] = {} /\ advice'[a] = {} /\ DOMAIN spent'[a] = {}
    BY <1>4 DEF Forgets
  <2>2. HistoryOK(a)'
    BY <1>2, <2>1, FS_EmptySet DEF HistoryOK
  <2> QED
    BY <2>1, <2>2 DEF PassagesOK, QuotaOK, AdviceOK
<1>5. ASSUME NEW now \in 0..clock, clock <= now + Skew, Admits(a, now)
      PROVE  PassagesOK(a)' /\ HistoryOK(a)' /\ QuotaOK(a)' /\ AdviceOK(a)'
  BY <1>1, <1>5, AdmitNext
<1> QED
  BY <1>1, <1>3, <1>4, <1>5, AgentNext DEF GInv
-----------------------------------------------------------------------------
LEMMA PostsNext == GInv /\ [Next]_vars => \A p \in Posts : PostOK(p)'
<1> SUFFICES ASSUME GInv, [Next]_vars, NEW p \in Posts PROVE PostOK(p)'
  OBVIOUS
<1>1. /\ TypeOK /\ PostOK(p) /\ clock \in Nat /\ Skew \in Nat
      /\ post \in [Posts -> Handler] /\ post[p].since \in Nat
  BY KeyType, UpgradeGuardsAssumption DEF GInv, TypeOK
<1>2. ASSUME NEW q \in Posts, Post(q) PROVE PostOK(p)'
  <2>1. clock' = clock /\ (post'[p] = post[p] \/ post'[p].since = clock)
    BY <1>1, <1>2 DEF Post
  <2> QED
    BY <1>1, <2>1 DEF PostOK
<1>3. ASSUME NEW q \in Posts, Allow(q) \/ Mark(q) PROVE PostOK(p)'
  <2>1. clock' = clock /\ (Answer(q) \/ Passed(q))
    BY <1>3 DEF Allow, Mark
  <2>2. post'[p] = post[p] \/ post'[p] = Idle \/ post'[p].since = clock
    BY <1>1, <2>1 DEF Answer, Passed, Handler
  <2> QED
    BY <1>1, <2>1, <2>2, IdleType DEF PostOK
<1>4. CASE Crash
  BY <1>4, IdleType DEF Crash, PostOK
<1>5. CASE Tick
  <2>1. post' = post /\ clock' = clock + 1 /\ (post[p].pc # "idle" => clock < post[p].since + Skew)
    BY <1>1, <1>5 DEF Tick, Handler
  <2> QED
    BY <1>1, <2>1 DEF PostOK
<1>6. CASE UNCHANGED vars
  BY <1>1, <1>6 DEF vars, PostOK
<1> QED
  BY <1>2, <1>3, <1>4, <1>5, <1>6 DEF Next

-----------------------------------------------------------------------------
\* How a step can touch the cache's data of a justification: it passes, being
\* marked by a handler that found no fresh entry of it ...
Marks(k, now) ==
  /\ \A e \in seen : e.key = k => e.now + DedupWindow < now
  /\ passed'[k] = {clock} /\ [key |-> k, now |-> now] \in seen'

\* ... or the cache drops no entry of it but what is out of its window ...
KeepsFresh(k) ==
  /\ passed'[k] = passed[k]
  /\ \A e \in seen : e.key = k => e \in seen' \/ e.now + DedupWindow < clock

\* ... or the daemon starts afresh.
StartsAfresh(k) == passed'[k] = {} /\ crashes' # crashes

LEMMA KeyNext ==
  ASSUME TypeOK, \A p \in Posts : PostOK(p), [Next]_vars, NEW k \in Keys
  PROVE  \/ KeepsFresh(k) \/ StartsAfresh(k)
         \/ \E now \in 0..clock : clock <= now + Skew /\ Marks(k, now)
<1>1. ASSUME NEW p \in Posts, Mark(p)
      PROVE  \/ KeepsFresh(k)
             \/ \E now \in 0..clock : clock <= now + Skew /\ Marks(k, now)
  <2> DEFINE key == post[p].key
             fresh(now) == {e \in seen : now <= e.now + DedupWindow}
  <2>1. PICK now \in post[p].since..clock :
          IF \E e \in fresh(now) : e.key = key
          THEN seen' = fresh(now) /\ UNCHANGED passed
          ELSE /\ seen' = fresh(now) \cup {[key |-> key, now |-> now]}
               /\ passed' = [passed EXCEPT ![key] = {clock}]
    BY <1>1 DEF Mark
  <2>2. now \in Nat /\ clock \in Nat /\ now <= clock /\ clock <= now + Skew /\ now \in 0..clock
    BY <1>1, NowRange DEF Mark
  <2>3. \A e \in seen : e.now \in Nat
    BY DEF TypeOK
  <2>4. \A e \in seen : e \in fresh(now) \/ e.now + DedupWindow < now
    BY <2>2, <2>3, UpgradeGuardsAssumption
  <2>5. key \in Keys
    BY KeyType
  <2> HIDE DEF key, fresh
  <2>6. fresh(now) \subseteq seen'
    BY <2>1
  <2>7. \A e \in seen : e \in seen' \/ e.now + DedupWindow < clock
    BY <2>2, <2>3, <2>4, <2>6, UpgradeGuardsAssumption
  <2>8. CASE passed'[k] = passed[k]
    BY <2>7, <2>8 DEF KeepsFresh
  <2>9. CASE passed'[k] # passed[k]
    <3>1. ~\E e \in fresh(now) : e.key = key
      BY <2>1, <2>9
    <3>2. /\ passed' = [passed EXCEPT ![key] = {clock}]
          /\ seen' = fresh(now) \cup {[key |-> key, now |-> now]}
      BY <2>1, <3>1
    <3>3. k = key /\ passed'[k] = {clock}
      BY <2>5, <2>9, <3>2 DEF TypeOK
    <3>4. Marks(k, now)
      BY <2>4, <3>1, <3>2, <3>3 DEF Marks
    <3> QED
      BY <2>2, <3>4
  <2> QED
    BY <2>8, <2>9
<1>2. CASE Crash
  <2>1. crashes \in Nat /\ crashes' = crashes + 1
    BY <1>2 DEF Crash, TypeOK
  <2>2. crashes' # crashes
    BY <2>1
  <2> QED
    BY <1>2, <2>2 DEF Crash, StartsAfresh
<1>3. ASSUME NEW p \in Posts, Post(p) \/ Allow(p) PROVE KeepsFresh(k)
  BY <1>3 DEF Post, Allow, KeepsFresh
<1>4. CASE Tick \/ UNCHANGED vars
  BY <1>4 DEF Tick, vars, KeepsFresh
<1> QED
  BY <1>1, <1>2, <1>3, <1>4 DEF Next

LEMMA KeysNext == GInv /\ [Next]_vars => \A k \in Keys : MarkOK(k)'
<1> SUFFICES ASSUME GInv, [Next]_vars, NEW k \in Keys PROVE MarkOK(k)'
  OBVIOUS
<1>1. TypeOK /\ MarkOK(k) /\ (\A p \in Posts : PostOK(p))
  BY DEF GInv
<1>2. /\ clock \in Nat /\ clock' \in Nat /\ clock <= clock'
      /\ Skew \in Nat /\ DedupWindow \in Nat
  BY <1>1, ClockNext, UpgradeGuardsAssumption DEF TypeOK
<1>3. /\ \A e \in seen : e.now \in Nat
      /\ \A t \in passed[k] : t \in Nat
  BY <1>1 DEF TypeOK
<1>4. CASE KeepsFresh(k)
  <2> SUFFICES ASSUME NEW t \in passed[k]
               PROVE  Remembered(k, t)' \/ t + DedupWindow < clock' + Skew
    BY <1>4 DEF KeepsFresh, MarkOK
  <2>1. CASE Remembered(k, t)
    <3>1. PICK e \in seen : e.key = k /\ t <= e.now + Skew
      BY <2>1 DEF Remembered
    <3>2. CASE e \in seen'
      BY <3>1, <3>2 DEF Remembered
    <3>3. CASE e.now + DedupWindow < clock
      BY <1>2, <1>3, <3>1, <3>3
    <3> QED
      BY <1>4, <3>1, <3>2, <3>3 DEF KeepsFresh
  <2>2. CASE t + DedupWindow < clock + Skew
    BY <1>2, <1>3, <2>2
  <2> QED
    BY <1>1, <2>1, <2>2 DEF MarkOK
<1>5. CASE StartsAfresh(k)
  BY <1>5 DEF StartsAfresh, MarkOK
<1>6. ASSUME NEW now \in 0..clock, clock <= now + Skew, Marks(k, now) PROVE MarkOK(k)'
  <2> DEFINE e == [key |-> k, now |-> now]
  <2>1. e \in seen' /\ e.key = k /\ clock <= e.now + Skew /\ passed'[k] = {clock}
    BY <1>6 DEF Marks
  <2> HIDE DEF e
  <2> QED
    BY <2>1 DEF MarkOK, Remembered
<1> QED
  BY <1>1, <1>4, <1>5, <1>6, KeyNext

-----------------------------------------------------------------------------
LEMMA GInvInit == Init => GInv
<1> SUFFICES ASSUME Init PROVE GInv
  OBVIOUS
<1>1. TypeOK
  BY TypeInit
<1>2. \A p \in Posts : PostOK(p)
  BY IdleType DEF Init, PostOK
<1>3. ASSUME NEW a \in Agents PROVE PassagesOK(a) /\ HistoryOK(a) /\ QuotaOK(a) /\ AdviceOK(a)
  <2>1. spent[a] = <<>> /\ history[a] = {} /\ advice[a] = {} /\ DOMAIN spent[a] = {}
    BY DEF Init
  <2>2. HistoryOK(a)
    BY <2>1, FS_EmptySet, UpgradeGuardsAssumption DEF HistoryOK
  <2> QED
    BY <2>1, <2>2 DEF PassagesOK, QuotaOK, AdviceOK
<1>4. \A k \in Keys : MarkOK(k)
  BY DEF Init, MarkOK
<1> QED
  BY <1>1, <1>2, <1>3, <1>4 DEF GInv

LEMMA GuardsNext == GInv /\ [Next]_vars => GInv'
<1> SUFFICES ASSUME GInv, [Next]_vars PROVE GInv'
  OBVIOUS
<1>1. TypeOK'
  BY TypeNext DEF GInv
<1>2. \A p \in Posts : PostOK(p)'
  BY PostsNext
<1>3. \A a \in Agents : PassagesOK(a)' /\ HistoryOK(a)' /\ QuotaOK(a)' /\ AdviceOK(a)'
  BY AgentsNext
<1>4. \A k \in Keys : MarkOK(k)'
  BY KeysNext
<1> QED
  BY <1>1, <1>2, <1>3, <1>4 DEF GInv

LEMMA GuardsInvariant == Spec => []GInv
  BY GInvInit, GuardsNext, PTL DEF Spec

-----------------------------------------------------------------------------
\* Between two daemon starts rateLimiter.allow lets no agent have more than its
\* limit within a window, up to the time a handler waits for the mutex and
\* however the handlers overtake each other.
THEOREM QuotaAlwaysKept == Spec => []QuotaKept
<1>1. GInv => QuotaKept
  BY DEF GInv, QuotaOK, QuotaKept
<1> QED
  BY <1>1, GuardsInvariant, PTL

\* A refusal of rateLimiter.allow, which throws away the history it filtered in
\* place, filtered nothing out of it.
THEOREM RefusalsFilterNothing == Spec => []RefusalFiltersNothing
<1>1. ASSUME GInv PROVE RefusalFiltersNothing
  <2> SUFFICES ASSUME NEW a \in Agents, NEW now \in 0..clock,
                      Cardinality(Live(a, now)) >= Limit
               PROVE  Live(a, now) = history[a]
    BY DEF RefusalFiltersNothing
  <2>1. /\ TypeOK /\ clock \in Nat /\ now \in Nat /\ Limit \in Nat
        /\ IsFiniteSet(history[a]) /\ Cardinality(history[a]) <= Limit
    BY <1>1, UpgradeGuardsAssumption DEF GInv, TypeOK, HistoryOK
  <2>2. /\ Cardinality(Live(a, now)) \in Nat /\ Cardinality(history[a]) \in Nat
        /\ Cardinality(Live(a, now)) <= Cardinality(history[a])
        /\ Cardinality(Live(a, now)) = Cardinality(history[a]) => Live(a, now) = history[a]
    BY <2>1, LiveSubset
  <2> QED
    BY <2>1, <2>2
<1> QED
  BY <1>1, GuardsInvariant, PTL

\* An agent that rateLimiter.allow refused is below its limit half a second
\* after the whole seconds it was told to wait, and is refused again when it
\* comes earlier than half a second and two waits for the mutex before, unless
\* another upgrade of it passed since.
THEOREM RetriesHonest == Spec => []RetryHonest
<1>1. ASSUME GInv PROVE RetryHonest
  <2> SUFFICES ASSUME NEW a \in Agents, NEW t \in advice[a]
               PROVE  /\ 2 * clock >= 2 * t + Second => Cardinality(Live(a, clock)) < Limit
                      /\ 2 * clock + Second + 4 * Skew < 2 * t
                           => Cardinality(Live(a, clock)) >= Limit
    BY DEF RetryHonest
  <2>1. /\ TypeOK /\ clock \in Nat /\ Limit \in Nat /\ Window \in Nat /\ AdviceOK(a)
        /\ Second \in Nat /\ Skew \in Nat /\ t \in Nat /\ PassagesOK(a)
        /\ IsFiniteSet(history[a]) /\ Cardinality(history[a]) <= Limit
    BY <1>1, UpgradeGuardsAssumption DEF GInv, TypeOK, HistoryOK
  <2>2. Cardinality(history[a]) >= Limit
    BY <2>1 DEF AdviceOK, Advisable
  <2>3. PICK i \in history[a] : /\ \A j \in history[a] : i <= j
                               /\ About(t, spent[a][i].now + Window)
    BY <2>1 DEF AdviceOK, Advisable
  <2>4. \A j \in history[a] : /\ j \in DOMAIN spent[a]
                             /\ spent[a][j].now \in Nat /\ spent[a][j].at \in Nat
    BY <2>1, PassageType DEF TypeOK
  <2>5. PICK e \in Nat : e = spent[a][i].now
    BY <2>3, <2>4
  <2>6. /\ Cardinality(Live(a, clock)) \in Nat /\ Cardinality(history[a]) \in Nat
        /\ Cardinality(Live(a, clock)) <= Cardinality(history[a])
        /\ Cardinality(Live(a, clock)) = Cardinality(history[a]) => Live(a, clock) = history[a]
    BY <2>1, LiveSubset
  <2>7. ASSUME 2 * clock >= 2 * t + Second PROVE Cardinality(Live(a, clock)) < Limit
    <3>1. clock >= e + Window
      BY <2>1, <2>3, <2>5, <2>7 DEF About
    <3>2. i \notin Live(a, clock)
      BY <2>1, <2>5, <3>1 DEF Live
    <3> QED
      BY <2>1, <2>3, <2>6, <3>2
  <2>8. ASSUME 2 * clock + Second + 4 * Skew < 2 * t PROVE Cardinality(Live(a, clock)) >= Limit
    <3>1. clock + Skew < e + Window
      BY <2>1, <2>3, <2>5, <2>8 DEF About
    <3>2. ASSUME NEW j \in history[a] PROVE clock < spent[a][j].now + Window
      <4>1. PICK n \in Nat, x \in Nat, y \in Nat :
              n = spent[a][j].now /\ x = spent[a][i].at /\ y = spent[a][j].at
        BY <2>3, <2>4
      <4>2. e <= x /\ x <= y /\ y <= n + Skew
        BY <2>1, <2>3, <2>4, <2>5, <4>1 DEF PassagesOK
      <4>3. clock < n + Window
        BY <2>1, <2>5, <3>1, <4>2
      <4> QED
        BY <4>1, <4>3
    <3>3. Live(a, clock) = history[a]
      BY <3>2 DEF Live
    <3> QED
      BY <2>2, <3>3
  <2> QED
    BY <2>7, <2>8
<1> QED
  BY <1>1, GuardsInvariant, PTL

\* reasonDedupCache.markIfFresh lets a justification pass again only when the
\* window is over, up to the time a handler waits for the mutex.
THEOREM DuplicatesKeptApart == Spec => DuplicatesApart
<1> DEFINE Apart == \A k \in Keys : \A t \in passed[k] :
             passed'[k] # passed[k] /\ crashes' = crashes => clock + Skew > t + DedupWindow
<1>1. ASSUME GInv, [Next]_vars PROVE Apart
  <2> SUFFICES ASSUME NEW k \in Keys, NEW t \in passed[k],
                      passed'[k] # passed[k], crashes' = crashes
               PROVE  clock + Skew > t + DedupWindow
    OBVIOUS
  <2>1. TypeOK /\ MarkOK(k) /\ (\A p \in Posts : PostOK(p))
    BY <1>1 DEF GInv
  <2>2. /\ clock \in Nat /\ Skew \in Nat /\ DedupWindow \in Nat /\ t \in Nat
        /\ \A e \in seen : e.now \in Nat
    BY <2>1, UpgradeGuardsAssumption DEF TypeOK
  <2>3. PICK now \in 0..clock : Marks(k, now)
    BY <1>1, <2>1, KeyNext DEF KeepsFresh, StartsAfresh
  <2>4. CASE Remembered(k, t)
    <3>1. PICK e \in seen : e.key = k /\ t <= e.now + Skew
      BY <2>4 DEF Remembered
    <3>2. e.now + DedupWindow < now
      BY <2>3, <3>1 DEF Marks
    <3> QED
      BY <2>2, <3>1, <3>2
  <2>5. CASE t + DedupWindow < clock + Skew
    BY <2>2, <2>5
  <2> QED
    BY <2>1, <2>4, <2>5 DEF MarkOK
<1>2. GInv /\ [Next]_vars => [Apart]_vars
  BY <1>1
<1> QED
  BY <1>2, GuardsInvariant, PTL DEF Spec, DuplicatesApart

\* The limiter keeps its history and its quota, for every value of the
\* constants: the theorems above together.
THEOREM LimitsAlwaysSound == Spec => []LimitsSound
BY GuardsTypeCorrect, RefusalsFilterNothing, QuotaAlwaysKept, PTL
   DEF LimitsSound
-----------------------------------------------------------------------------
\* A request that is stored, or about to be, carries what no step changes.
Alike(s, r) == s.key = r.key /\ s.at = r.at /\ s.run = r.run

LEMMA JobType ==
  ASSUME IntakeTypeOK, NEW p \in Posts, job[p] # Nothing
  PROVE  /\ job[p] \in [key : Keys, at : Nat, run : Nat]
         /\ job[p].key \in Keys /\ job[p].key[1] \in Agents
         /\ job[p].at \in Nat /\ job[p].run = crashes /\ post[p].pc = "idle"
  BY DEF IntakeTypeOK, Keys

LEMMA StoreType ==
  ASSUME IntakeTypeOK
  PROVE  /\ store \in Seq(Request) /\ Len(store) \in Nat /\ DOMAIN store = 1..Len(store)
         /\ \A i \in DOMAIN store :
              /\ store[i] \in Request /\ store[i].key \in Keys /\ store[i].key[1] \in Agents
              /\ store[i].at \in Nat /\ store[i].run \in Nat
<1>1. store \in Seq(Request)
  BY DEF IntakeTypeOK
<1>2. /\ DOMAIN store = 1..Len(store) /\ Len(store) \in Nat
      /\ \A i \in DOMAIN store : store[i] \in Request
  BY <1>1, LenProperties
<1> QED
  BY <1>1, <1>2 DEF Request, Keys

\* What the duplicate check hands over is of this run and of this instant, and
\* the cache had no fresh entry of it.
Accepts(p) ==
  LET k == post[p].key IN
  /\ job' = [job EXCEPT ![p] = [key |-> k, at |-> clock, run |-> crashes]]
  /\ \E now \in 0..clock : clock <= now + Skew /\ Marks(k, now)

LEMMA CheckDuplicateNext ==
  ASSUME TypeOK, IntakeTypeOK, \A p \in Posts : PostOK(p),
         NEW p \in Posts, CheckDuplicate(p)
  PROVE  /\ post[p].pc = "mark" /\ job[p] = Nothing
         /\ post' = [post EXCEPT ![p] = Idle]
         /\ UNCHANGED <<spent, history, clock, crashes, store, faults>>
         /\ job' = job \/ Accepts(p)
<1> DEFINE k == post[p].key
           fresh(now) == {e \in seen : now <= e.now + DedupWindow}
<1>1. /\ Mark(p) /\ post[p].pc = "mark" /\ post' = [post EXCEPT ![p] = Idle]
      /\ UNCHANGED <<spent, history, clock, crashes, store, faults>>
      /\ job' = IF \E e \in seen' \ seen : e.key = k
                THEN [job EXCEPT ![p] = [key |-> k, at |-> clock, run |-> crashes]] ELSE job
  BY DEF CheckDuplicate, Mark, Answer
<1>2. job[p] = Nothing
  BY <1>1, JobType
<1>3. PICK now \in post[p].since..clock :
        IF \E e \in fresh(now) : e.key = k
        THEN seen' = fresh(now) /\ UNCHANGED passed
        ELSE /\ seen' = fresh(now) \cup {[key |-> k, now |-> now]}
             /\ passed' = [passed EXCEPT ![k] = {clock}]
  BY <1>1 DEF Mark
<1>4. /\ now \in Nat /\ clock \in Nat /\ now <= clock /\ clock <= now + Skew /\ now \in 0..clock
      /\ k \in Keys /\ \A e \in seen : e.now \in Nat
  BY <1>1, NowRange, KeyType DEF TypeOK
<1>5. \A e \in seen : e \in fresh(now) \/ e.now + DedupWindow < now
  BY <1>4, UpgradeGuardsAssumption
<1>6. fresh(now) \subseteq seen
  OBVIOUS
<1> HIDE DEF k, fresh
<1>7. CASE \E e \in seen' \ seen : e.key = k
  <2>1. ~\E e \in fresh(now) : e.key = k
    BY <1>3, <1>6, <1>7
  <2>2. /\ seen' = fresh(now) \cup {[key |-> k, now |-> now]}
        /\ passed' = [passed EXCEPT ![k] = {clock}]
    BY <1>3, <2>1
  <2>3. passed'[k] = {clock}
    BY <1>4, <2>2 DEF TypeOK
  <2>4. Marks(k, now)
    BY <1>5, <2>1, <2>2, <2>3 DEF Marks
  <2> QED
    BY <1>1, <1>2, <1>4, <1>7, <2>4 DEF Accepts, k
<1> QED
  BY <1>1, <1>2, <1>7

\* The store gains what the handler had, or fails to.
LEMMA StoreNext ==
  ASSUME IntakeTypeOK, NEW p \in Posts, Store(p)
  PROVE  /\ job[p] # Nothing /\ job' = [job EXCEPT ![p] = Nothing] /\ UNCHANGED vars
         /\ \/ store' = store
            \/ /\ store' \in Seq(Request) /\ DOMAIN store' = 1..(Len(store) + 1)
               /\ \A i \in DOMAIN store : store'[i] = store[i]
               /\ Alike(store'[Len(store) + 1], job[p])
               /\ Len(store') <= MaxStored
<1>1. /\ job[p] # Nothing /\ job' = [job EXCEPT ![p] = Nothing] /\ UNCHANGED vars
      /\ \/ store' = store
         \/ /\ Len(store) < MaxStored
            /\ store' = Append(store, [key |-> job[p].key, at |-> job[p].at, run |-> job[p].run, status |-> "pending"])
  BY DEF Store
<1> DEFINE r == [key |-> job[p].key, at |-> job[p].at, run |-> job[p].run, status |-> "pending"]
<1>2. r \in Request /\ Alike(r, job[p])
  BY <1>1, JobType DEF Request, Alike
<1>3. store \in Seq(Request) /\ Len(store) \in Nat /\ DOMAIN store = 1..Len(store)
  BY StoreType
<1> HIDE DEF r
<1>4. CASE Len(store) < MaxStored /\ store' = Append(store, r)
  <2>1. /\ Append(store, r) \in Seq(Request) /\ Len(Append(store, r)) = Len(store) + 1
        /\ \A i \in 1..Len(store) : Append(store, r)[i] = store[i]
        /\ Append(store, r)[Len(store) + 1] = r
    BY <1>2, <1>3, AppendProperties
  <2>2. DOMAIN Append(store, r) = 1..(Len(store) + 1)
    BY <2>1, LenProperties
  <2>3. Len(store') <= MaxStored
    BY <1>3, <1>4, <2>1, UpgradeIntakeAssumption
  <2> QED
    BY <1>1, <1>2, <1>3, <1>4, <2>1, <2>2, <2>3
<1> QED
  BY <1>1, <1>4 DEF r

\* A decision changes nothing a request carries.
LEMMA DecideNext ==
  ASSUME IntakeTypeOK, NEW d \in DOMAIN store, Decide(d)
  PROVE  /\ store' \in Seq(Request) /\ DOMAIN store' = DOMAIN store /\ Len(store') <= MaxStored
         /\ \A i \in DOMAIN store : Alike(store'[i], store[i])
         /\ UNCHANGED <<vars, job, faults>>
<1>1. /\ UNCHANGED <<vars, job, faults>>
      /\ store' = [store EXCEPT ![d] = [store[d] EXCEPT !.status = "decided"]]
  BY DEF Decide
<1>2. /\ store \in Seq(Request) /\ Len(store) \in Nat /\ DOMAIN store = 1..Len(store)
      /\ \A i \in DOMAIN store : store[i] \in Request
  BY StoreType
<1>3. [store[d] EXCEPT !.status = "decided"] \in Request
  BY <1>2 DEF Request
<1>4. store' \in Seq(Request) /\ Len(store') = Len(store)
  BY <1>1, <1>2, <1>3, ExceptSeq
<1>5. DOMAIN store' = DOMAIN store
  BY <1>1
<1>6. \A i \in DOMAIN store : Alike(store'[i], store[i])
  BY <1>1, <1>2 DEF Alike, Request
<1>7. Len(store') <= MaxStored
  BY <1>4 DEF IntakeTypeOK
<1> QED
  BY <1>1, <1>4, <1>5, <1>6, <1>7

\* Each step of the intake is one of the guards or leaves them alone.
LEMMA IntakeStep == [IntakeNext]_intakeVars => [Next]_vars
BY DEF IntakeNext, intakeVars, Receive, CheckQuota, CheckDuplicate, Store, Decide, DaemonCrash,
       TimePasses, Next
LEMMA IntakeTypeInit == IntakeInit => IntakeTypeOK
<1> SUFFICES ASSUME IntakeInit PROVE IntakeTypeOK
  OBVIOUS
<1>1. store \in Seq(Request) /\ Len(store) = 0
  BY DEF IntakeInit
<1> QED
  BY <1>1, UpgradeIntakeAssumption DEF IntakeInit, IntakeTypeOK

\* A handler that works on a request has nothing to store.
LEMMA BusyHasNothing ==
  ASSUME IntakeTypeOK, NEW p \in Posts, post[p].pc # "idle"
  PROVE  job[p] = Nothing
  BY JobType

LEMMA IntakeTypeNext ==
  TypeOK /\ (\A p \in Posts : PostOK(p)) /\ IntakeTypeOK /\ [IntakeNext]_intakeVars => IntakeTypeOK'
<1> SUFFICES ASSUME TypeOK, \A p \in Posts : PostOK(p), IntakeTypeOK, [IntakeNext]_intakeVars
             PROVE  IntakeTypeOK'
  OBVIOUS
<1> DEFINE Jobs == [key : Keys, at : Nat, run : Nat] \cup {Nothing}
<1>0. /\ job \in [Posts -> Jobs] /\ post \in [Posts -> Handler] /\ clock \in Nat /\ crashes \in Nat
      /\ \A q \in Posts : job[q] # Nothing => post[q].pc = "idle" /\ job[q].run = crashes
  BY DEF IntakeTypeOK, TypeOK
<1>1. ASSUME NEW p \in Posts, Receive(p) PROVE IntakeTypeOK'
  <2>1. /\ job[p] = Nothing /\ UNCHANGED <<job, store, faults, crashes>>
        /\ \A q \in Posts \ {p} : post'[q] = post[q]
    BY <1>0, <1>1 DEF Receive, Post
  <2> QED
    BY <1>0, <2>1 DEF IntakeTypeOK
<1>2. ASSUME NEW p \in Posts, CheckQuota(p) PROVE IntakeTypeOK'
  <2>1. post[p].pc = "allow" /\ UNCHANGED <<job, store, faults, crashes>> /\ (Answer(p) \/ Passed(p))
    BY <1>2 DEF CheckQuota, Allow
  <2>2. job[p] = Nothing /\ \A q \in Posts \ {p} : post'[q] = post[q]
    BY <1>0, <2>1, BusyHasNothing DEF Answer, Passed
  <2> QED
    BY <1>0, <2>1, <2>2 DEF IntakeTypeOK
<1>3. ASSUME NEW p \in Posts, CheckDuplicate(p) PROVE IntakeTypeOK'
  <2>1. /\ job[p] = Nothing /\ post' = [post EXCEPT ![p] = Idle]
        /\ UNCHANGED <<clock, crashes, store, faults>> /\ (job' = job \/ Accepts(p))
    BY <1>3, CheckDuplicateNext
  <2>2. post[p].key \in Keys /\ post'[p].pc = "idle" /\ \A q \in Posts \ {p} : post'[q] = post[q]
    BY <1>0, <2>1, KeyType, IdleType
  <2>3. CASE job' = job
    BY <1>0, <2>1, <2>2, <2>3 DEF IntakeTypeOK
  <2>4. CASE Accepts(p)
    <3>1. job' = [job EXCEPT ![p] = [key |-> post[p].key, at |-> clock, run |-> crashes]]
      BY <2>4 DEF Accepts
    <3>2. job' \in [Posts -> Jobs]
      BY <1>0, <2>2, <3>1
    <3>3. \A q \in Posts : job'[q] # Nothing => post'[q].pc = "idle" /\ job'[q].run = crashes
      BY <1>0, <2>2, <3>1
    <3> QED
      BY <2>1, <3>2, <3>3 DEF IntakeTypeOK
  <2> QED
    BY <2>1, <2>3, <2>4
<1>4. ASSUME NEW p \in Posts, Store(p) PROVE IntakeTypeOK'
  <2>1. /\ job' = [job EXCEPT ![p] = Nothing] /\ UNCHANGED vars
        /\ store' \in Seq(Request) /\ Len(store') <= MaxStored
    BY <1>4, StoreNext DEF IntakeTypeOK
  <2>2. faults' \in 0..MaxFaults
    BY <1>4, UpgradeIntakeAssumption DEF Store, IntakeTypeOK
  <2>3. job' \in [Posts -> Jobs]
    BY <1>0, <2>1
  <2>4. \A q \in Posts : job'[q] # Nothing => post'[q].pc = "idle" /\ job'[q].run = crashes'
    BY <1>0, <2>1 DEF vars
  <2> QED
    BY <2>1, <2>2, <2>3, <2>4 DEF IntakeTypeOK
<1>5. ASSUME NEW d \in DOMAIN store, Decide(d) PROVE IntakeTypeOK'
  <2>1. store' \in Seq(Request) /\ Len(store') <= MaxStored /\ UNCHANGED <<vars, job, faults>>
    BY <1>5, DecideNext
  <2> QED
    BY <1>0, <2>1 DEF IntakeTypeOK, vars
<1>6. CASE DaemonCrash
  BY <1>0, <1>6 DEF DaemonCrash, IntakeTypeOK
<1>7. CASE TimePasses \/ UNCHANGED intakeVars
  BY <1>0, <1>7 DEF TimePasses, Tick, intakeVars, vars, IntakeTypeOK
<1> QED
  BY <1>1, <1>2, <1>3, <1>4, <1>5, <1>6, <1>7 DEF IntakeNext

-----------------------------------------------------------------------------
\* What came at t in daemon run n is remembered by the cache, or its window is
\* over.
RecordOK(k, t, n) ==
  /\ t <= clock /\ n <= crashes
  /\ n = crashes => Remembered(k, t) \/ t + DedupWindow < clock + Skew

RecordsOK ==
  /\ \A i \in DOMAIN store : RecordOK(store[i].key, store[i].at, store[i].run)
  /\ \A p \in Posts : job[p] # Nothing => RecordOK(job[p].key, job[p].at, job[p].run)

\* What is out of its window stays so.
LEMMA Later ==
  ASSUME NEW t \in Nat, NEW w \in Nat, NEW s \in Nat, NEW c \in Nat, NEW d \in Nat,
         t + w < c + s, c <= d
  PROVE  t + w < d + s
  OBVIOUS

LEMMA RecordKept ==
  ASSUME TypeOK, \A p \in Posts : PostOK(p), [Next]_vars,
         NEW k \in Keys, NEW t \in Nat, NEW n \in Nat, RecordOK(k, t, n)
  PROVE  RecordOK(k, t, n)'
<1>1. /\ clock \in Nat /\ clock' \in Nat /\ clock <= clock' /\ crashes \in Nat
      /\ Skew \in Nat /\ DedupWindow \in Nat /\ t \in Nat /\ n \in Nat
  BY ClockNext, UpgradeGuardsAssumption DEF TypeOK
<1>2. crashes' = crashes \/ crashes' = crashes + 1
  BY DEF Next, Post, Allow, Mark, Crash, Tick, vars
<1>0. \A e \in seen : e.now \in Nat
  BY DEF TypeOK
<1>3. t <= clock' /\ n <= crashes'
  BY <1>1, <1>2 DEF RecordOK
<1>4. ASSUME n = crashes', crashes' = crashes
      PROVE  Remembered(k, t)' \/ t + DedupWindow < clock' + Skew
  <2>1. CASE t + DedupWindow < clock + Skew
    <3>1. t + DedupWindow < clock' + Skew
      BY <1>1, <2>1, Later
    <3> QED
      BY <3>1
  <2>2. CASE Remembered(k, t)
    <3>1. PICK e \in seen : e.key = k /\ t <= e.now + Skew
      BY <2>2 DEF Remembered
    <3>2. CASE KeepsFresh(k)
      <4>1. e \in seen' \/ e.now + DedupWindow < clock
        BY <3>1, <3>2 DEF KeepsFresh
      <4>2. CASE e \in seen'
        BY <3>1, <4>2 DEF Remembered
      <4>3. CASE e.now + DedupWindow < clock
        <5>1. t + DedupWindow < clock + Skew
          BY <1>0, <1>1, <3>1, <4>3
        <5>2. t + DedupWindow < clock' + Skew
          BY <1>1, <5>1, Later
        <5> QED
          BY <5>2
      <4> QED
        BY <4>1, <4>2, <4>3
    <3>3. ASSUME NEW now \in 0..clock, Marks(k, now)
          PROVE  t + DedupWindow < clock' + Skew
      <4>1. e.now + DedupWindow < now /\ now \in Nat /\ now <= clock
        BY <1>0, <1>1, <3>1, <3>3 DEF Marks
      <4>2. t + DedupWindow < clock + Skew
        BY <1>0, <1>1, <3>1, <4>1
      <4> QED
        BY <1>1, <4>2, Later
    <3> QED
      BY <1>4, <3>2, <3>3, KeyNext DEF StartsAfresh
  <2> QED
    BY <1>4, <2>1, <2>2 DEF RecordOK
<1>5. n = crashes' => crashes' = crashes
  BY <1>1, <1>2 DEF RecordOK
<1> QED
  BY <1>3, <1>4, <1>5 DEF RecordOK
-----------------------------------------------------------------------------
\* What a step does to the requests in the store and to those about to be
\* stored: it leaves both alone, but that some are dropped ...
Unmoved ==
  DOMAIN store' = DOMAIN store /\ \A i \in DOMAIN store : Alike(store'[i], store[i])
JobsKept == \A q \in Posts : job'[q] = job[q] \/ job'[q] = Nothing

\* ... or a handler stores what it had.
Moves(p) ==
  /\ job[p] # Nothing /\ job' = [job EXCEPT ![p] = Nothing] /\ UNCHANGED vars
  /\ DOMAIN store' = 1..(Len(store) + 1)
  /\ \A i \in DOMAIN store : store'[i] = store[i]
  /\ Alike(store'[Len(store) + 1], job[p])

LEMMA Moved ==
  ASSUME TypeOK, \A p \in Posts : PostOK(p), IntakeTypeOK, [IntakeNext]_intakeVars
  PROVE  \/ Unmoved /\ JobsKept
         \/ /\ Unmoved /\ UNCHANGED <<clock, crashes>>
            /\ \E p \in Posts : post[p].pc = "mark" /\ job[p] = Nothing /\ Accepts(p)
         \/ \E p \in Posts : Moves(p)
<1>0. job \in [Posts -> [key : Keys, at : Nat, run : Nat] \cup {Nothing}]
  BY DEF IntakeTypeOK
<1>1. store' = store => Unmoved
  BY DEF Unmoved, Alike
<1>2. job' = job => JobsKept
  BY DEF JobsKept
<1>3. ASSUME NEW p \in Posts, Receive(p) \/ CheckQuota(p) PROVE Unmoved /\ JobsKept
  BY <1>1, <1>2, <1>3 DEF Receive, CheckQuota
<1>4. ASSUME NEW p \in Posts, CheckDuplicate(p)
      PROVE  \/ Unmoved /\ JobsKept
             \/ /\ Unmoved /\ UNCHANGED <<clock, crashes>>
                /\ post[p].pc = "mark" /\ job[p] = Nothing /\ Accepts(p)
  <2>1. /\ post[p].pc = "mark" /\ job[p] = Nothing /\ UNCHANGED <<clock, crashes, store>>
        /\ (job' = job \/ Accepts(p))
    BY <1>4, CheckDuplicateNext
  <2> QED
    BY <1>1, <1>2, <2>1
<1>5. ASSUME NEW p \in Posts, Store(p) PROVE (Unmoved /\ JobsKept) \/ Moves(p)
  <2>1. /\ job[p] # Nothing /\ job' = [job EXCEPT ![p] = Nothing] /\ UNCHANGED vars
        /\ \/ store' = store
           \/ /\ DOMAIN store' = 1..(Len(store) + 1)
              /\ \A i \in DOMAIN store : store'[i] = store[i]
              /\ Alike(store'[Len(store) + 1], job[p])
    BY <1>5, StoreNext
  <2>2. JobsKept
    BY <1>0, <2>1 DEF JobsKept
  <2> QED
    BY <1>1, <2>1, <2>2 DEF Moves
<1>6. ASSUME NEW d \in DOMAIN store, Decide(d) PROVE Unmoved /\ JobsKept
  BY <1>2, <1>6, DecideNext DEF Unmoved
<1>7. CASE DaemonCrash
  BY <1>1, <1>7 DEF DaemonCrash, JobsKept
<1>8. CASE TimePasses \/ UNCHANGED intakeVars
  BY <1>1, <1>2, <1>8 DEF TimePasses, intakeVars
<1> QED
  BY <1>3, <1>4, <1>5, <1>6, <1>7, <1>8 DEF IntakeNext

LEMMA RecordsNext ==
  ASSUME TypeOK, \A p \in Posts : PostOK(p), IntakeTypeOK, RecordsOK, [IntakeNext]_intakeVars
  PROVE  RecordsOK'
<1>1. \A k \in Keys, t \in Nat, n \in Nat : RecordOK(k, t, n) => RecordOK(k, t, n)'
  BY IntakeStep, RecordKept
<1>2. /\ DOMAIN store = 1..Len(store) /\ Len(store) \in Nat /\ clock \in Nat /\ crashes \in Nat
      /\ \A i \in DOMAIN store : store[i].key \in Keys /\ store[i].at \in Nat /\ store[i].run \in Nat
  BY StoreType DEF TypeOK
<1>3. \A p \in Posts : job[p] # Nothing => job[p].key \in Keys /\ job[p].at \in Nat /\ job[p].run \in Nat
  BY <1>2, JobType
<1>4. ASSUME NEW i \in DOMAIN store', NEW j \in DOMAIN store, Alike(store'[i], store[j])
      PROVE  RecordOK(store[i].key, store[i].at, store[i].run)'
  <2>1. PICK k \in Keys, t \in Nat, n \in Nat : k = store[j].key /\ t = store[j].at /\ n = store[j].run
    BY <1>2
  <2>2. RecordOK(k, t, n)'
    BY <1>1, <2>1 DEF RecordsOK
  <2> QED
    BY <1>4, <2>1, <2>2 DEF RecordOK, Remembered, Alike
<1>5. ASSUME NEW i \in DOMAIN store', NEW p \in Posts, job[p] # Nothing, Alike(store'[i], job[p])
      PROVE  RecordOK(store[i].key, store[i].at, store[i].run)'
  <2>1. PICK k \in Keys, t \in Nat, n \in Nat : k = job[p].key /\ t = job[p].at /\ n = job[p].run
    BY <1>3, <1>5
  <2>2. RecordOK(k, t, n)'
    BY <1>1, <1>5, <2>1 DEF RecordsOK
  <2> QED
    BY <1>5, <2>1, <2>2 DEF RecordOK, Remembered, Alike
<1>6. ASSUME NEW p \in Posts, job'[p] # Nothing, job'[p] = job[p]
      PROVE  RecordOK(job[p].key, job[p].at, job[p].run)'
  <2>1. PICK k \in Keys, t \in Nat, n \in Nat : k = job[p].key /\ t = job[p].at /\ n = job[p].run
    BY <1>3, <1>6
  <2>2. RecordOK(k, t, n)'
    BY <1>1, <1>6, <2>1 DEF RecordsOK
  <2> QED
    BY <1>6, <2>1, <2>2 DEF RecordOK, Remembered
<1>7. CASE Unmoved /\ JobsKept
  BY <1>4, <1>6, <1>7 DEF Unmoved, JobsKept, RecordsOK
<1>8. ASSUME NEW p \in Posts, Moves(p) PROVE RecordsOK'
  <2>1. \A q \in Posts : job'[q] = job[q] \/ job'[q] = Nothing
    BY <1>8 DEF Moves, IntakeTypeOK
  <2>2. \A i \in DOMAIN store' : i \in DOMAIN store \/ i = Len(store) + 1
    BY <1>2, <1>8 DEF Moves
  <2>3. ASSUME NEW i \in DOMAIN store' PROVE RecordOK(store[i].key, store[i].at, store[i].run)'
    BY <1>4, <1>5, <1>8, <2>2 DEF Moves, Alike
  <2> QED
    BY <1>6, <2>1, <2>3 DEF RecordsOK
<1>9. ASSUME NEW p \in Posts, Accepts(p), Unmoved, UNCHANGED <<clock, crashes>>, post[p].pc = "mark" PROVE RecordsOK'
  <2>1. PICK now \in 0..clock : clock <= now + Skew /\ Marks(post[p].key, now)
    BY <1>9 DEF Accepts
  <2>2. job' = [job EXCEPT ![p] = [key |-> post[p].key, at |-> clock, run |-> crashes]]
    BY <1>9 DEF Accepts
  <2>3. /\ job'[p].key = post[p].key /\ job'[p].at = clock /\ job'[p].run = crashes
        /\ \A q \in Posts \ {p} : job'[q] = job[q]
    BY <2>2 DEF IntakeTypeOK
  <2>4. \E e \in seen' : e.key = post[p].key /\ clock <= e.now + Skew
    <3> DEFINE e == [key |-> post[p].key, now |-> now]
    <3>1. e \in seen' /\ e.key = post[p].key /\ clock <= e.now + Skew
      BY <2>1 DEF Marks
    <3> HIDE DEF e
    <3> QED
      BY <3>1
  <2>5. RecordOK(job[p].key, job[p].at, job[p].run)'
    BY <1>2, <1>9, <2>3, <2>4 DEF RecordOK, Remembered
  <2> QED
    BY <1>4, <1>6, <1>9, <2>3, <2>5 DEF Unmoved, RecordsOK
<1> QED
  BY <1>7, <1>8, <1>9, Moved
-----------------------------------------------------------------------------
\* Of two requests with one justification the later came when the window of the
\* earlier was over.
FarApart(r, s) ==
  r.key = s.key /\ r.run = s.run /\ r.at <= s.at => s.at + Skew > r.at + DedupWindow

SeparateOK ==
  /\ \A i, j \in DOMAIN store : i # j => FarApart(store[i], store[j])
  /\ \A i \in DOMAIN store, p \in Posts :
       job[p] # Nothing => FarApart(store[i], job[p]) /\ FarApart(job[p], store[i])
  /\ \A p, q \in Posts :
       p # q /\ job[p] # Nothing /\ job[q] # Nothing => FarApart(job[p], job[q])

LEMMA FarAlike ==
  ASSUME NEW r, NEW s, NEW x, NEW y, FarApart(r, s), Alike(x, r), Alike(y, s)
  PROVE  FarApart(x, y)
  BY DEF FarApart, Alike

\* A justification the cache lets pass is far from every earlier request.
LEMMA NewFarApart ==
  ASSUME TypeOK, NEW k \in Keys, NEW t \in Nat, RecordOK(k, t, crashes),
         NEW now \in 0..clock, Marks(k, now)
  PROVE  t <= clock /\ clock + Skew > t + DedupWindow
<1>1. /\ clock \in Nat /\ now \in Nat /\ now <= clock /\ t \in Nat /\ crashes \in Nat
      /\ Skew \in Nat /\ DedupWindow \in Nat
  BY UpgradeGuardsAssumption DEF TypeOK
<1>2. \A e \in seen : e.now \in Nat
  BY DEF TypeOK
<1>3. t <= clock /\ (Remembered(k, t) \/ t + DedupWindow < clock + Skew)
  BY DEF RecordOK
<1>4. CASE Remembered(k, t)
  <2>1. PICK e \in seen : e.key = k /\ t <= e.now + Skew
    BY <1>4 DEF Remembered
  <2>2. e.now + DedupWindow < now
    BY <2>1 DEF Marks
  <2> QED
    BY <1>1, <1>2, <1>3, <2>1, <2>2
<1>5. CASE t + DedupWindow < clock + Skew
  BY <1>1, <1>3, <1>5
<1> QED
  BY <1>3, <1>4, <1>5

LEMMA SeparateNext ==
  ASSUME TypeOK, \A p \in Posts : PostOK(p), IntakeTypeOK, RecordsOK, SeparateOK, [IntakeNext]_intakeVars
  PROVE  SeparateOK'
<1>1. /\ DOMAIN store = 1..Len(store) /\ Len(store) \in Nat /\ clock \in Nat /\ crashes \in Nat
      /\ Skew \in Nat /\ DedupWindow \in Nat
      /\ \A i \in DOMAIN store : store[i].key \in Keys /\ store[i].at \in Nat /\ store[i].run \in Nat
  BY StoreType, UpgradeGuardsAssumption DEF TypeOK
<1>2. \A p \in Posts : job[p] # Nothing => job[p].key \in Keys /\ job[p].at \in Nat /\ job[p].run = crashes
  BY JobType
<1>3. CASE Unmoved /\ JobsKept
  <2>1. \A q \in Posts : job'[q] # Nothing => job'[q] = job[q] /\ Alike(job'[q], job[q])
    BY <1>3 DEF JobsKept, Alike
  <2>2. \A i \in DOMAIN store' : i \in DOMAIN store /\ Alike(store'[i], store[i])
    BY <1>3 DEF Unmoved
  <2>3. \A i, j \in DOMAIN store' : i # j => FarApart(store'[i], store'[j])
    BY <2>2, FarAlike DEF SeparateOK
  <2>4. \A i \in DOMAIN store', p \in Posts :
          job'[p] # Nothing => FarApart(store'[i], job'[p]) /\ FarApart(job'[p], store'[i])
    BY <2>1, <2>2, FarAlike DEF SeparateOK
  <2>5. \A p, q \in Posts : p # q /\ job'[p] # Nothing /\ job'[q] # Nothing => FarApart(job'[p], job'[q])
    BY <2>1 DEF SeparateOK
  <2> QED
    BY <2>3, <2>4, <2>5 DEF SeparateOK, FarApart
<1>4. ASSUME NEW p \in Posts, Moves(p) PROVE SeparateOK'
  <2> DEFINE n == Len(store) + 1
  <2>1. \A q \in Posts : job'[q] # Nothing => q # p /\ job'[q] = job[q] /\ Alike(job'[q], job[q])
    BY <1>4 DEF Moves, IntakeTypeOK, Alike
  <2>2. /\ \A i \in DOMAIN store' : i \in DOMAIN store \/ i = n
        /\ \A i \in DOMAIN store : Alike(store'[i], store[i])
        /\ Alike(store'[n], job[p]) /\ job[p] # Nothing
    BY <1>1, <1>4 DEF Moves, Alike
  <2> HIDE DEF n
  <2>3. ASSUME NEW i \in DOMAIN store', NEW j \in DOMAIN store', i # j
        PROVE  FarApart(store'[i], store'[j])
    <3>1. CASE i = n
      BY <2>2, <2>3, <3>1, FarAlike DEF SeparateOK
    <3>2. CASE j = n
      BY <2>2, <2>3, <3>2, FarAlike DEF SeparateOK
    <3>3. CASE i \in DOMAIN store /\ j \in DOMAIN store
      BY <2>2, <2>3, <3>3, FarAlike DEF SeparateOK
    <3> QED
      BY <2>2, <3>1, <3>2, <3>3
  <2>4. ASSUME NEW i \in DOMAIN store', NEW q \in Posts, job'[q] # Nothing
        PROVE  FarApart(store'[i], job'[q]) /\ FarApart(job'[q], store'[i])
    <3>1. CASE i = n
      BY <2>1, <2>2, <2>4, <3>1, FarAlike DEF SeparateOK
    <3>2. CASE i \in DOMAIN store
      BY <2>1, <2>2, <2>4, <3>2, FarAlike DEF SeparateOK
    <3> QED
      BY <2>2, <3>1, <3>2
  <2>5. \A q, r \in Posts : q # r /\ job'[q] # Nothing /\ job'[r] # Nothing => FarApart(job'[q], job'[r])
    BY <2>1 DEF SeparateOK
  <2> QED
    BY <2>3, <2>4, <2>5 DEF SeparateOK, FarApart
<1>5. ASSUME NEW p \in Posts, Accepts(p), Unmoved, job[p] = Nothing, post[p].pc = "mark" PROVE SeparateOK'
  <2>1. PICK now \in 0..clock : Marks(post[p].key, now)
    BY <1>5 DEF Accepts
  <2>2. post[p].key \in Keys
    BY KeyType
  <2>3. /\ job'[p].key = post[p].key /\ job'[p].at = clock /\ job'[p].run = crashes
        /\ \A q \in Posts \ {p} : job'[q] = job[q]
    BY <1>5 DEF Accepts, IntakeTypeOK
  <2>4. ASSUME NEW t \in Nat, RecordOK(post[p].key, t, crashes)
        PROVE  t <= clock /\ clock + Skew > t + DedupWindow
    BY <2>1, <2>2, <2>4, NewFarApart
  <2>5. \A i \in DOMAIN store' : i \in DOMAIN store /\ Alike(store'[i], store[i])
    BY <1>5 DEF Unmoved
  <2>6. ASSUME NEW i \in DOMAIN store
        PROVE  FarApart(store[i], job'[p]) /\ FarApart(job'[p], store[i])
    <3> SUFFICES ASSUME store[i].key = post[p].key, store[i].run = crashes
                 PROVE  FarApart(store[i], job'[p]) /\ FarApart(job'[p], store[i])
      BY <2>3 DEF FarApart
    <3>1. store[i].at <= clock /\ clock + Skew > store[i].at + DedupWindow /\ store[i].at \in Nat
      BY <1>1, <2>4 DEF RecordsOK
    <3> QED
      BY <1>1, <2>3, <3>1 DEF FarApart
  <2>7. ASSUME NEW q \in Posts \ {p}, job[q] # Nothing
        PROVE  FarApart(job[q], job'[p]) /\ FarApart(job'[p], job[q])
    <3> SUFFICES ASSUME job[q].key = post[p].key
                 PROVE  FarApart(job[q], job'[p]) /\ FarApart(job'[p], job[q])
      BY <2>3 DEF FarApart
    <3>1. job[q].at <= clock /\ clock + Skew > job[q].at + DedupWindow /\ job[q].at \in Nat
      BY <1>2, <2>4, <2>7 DEF RecordsOK
    <3> QED
      BY <1>1, <2>3, <3>1 DEF FarApart
  <2>8. \A i, j \in DOMAIN store' : i # j => FarApart(store'[i], store'[j])
    BY <2>5, FarAlike DEF SeparateOK
  <2>9. ASSUME NEW i \in DOMAIN store', NEW q \in Posts, job'[q] # Nothing
        PROVE  FarApart(store'[i], job'[q]) /\ FarApart(job'[q], store'[i])
    <3>1. FarApart(store[i], job'[q]) /\ FarApart(job'[q], store[i]) /\ Alike(job'[q], job'[q])
      BY <2>3, <2>5, <2>6, <2>9 DEF SeparateOK, Alike
    <3> QED
      BY <2>5, <3>1, FarAlike
  <2>10. \A q, r \in Posts : q # r /\ job'[q] # Nothing /\ job'[r] # Nothing => FarApart(job'[q], job'[r])
    BY <2>3, <2>7 DEF SeparateOK
  <2> QED
    BY <2>8, <2>9, <2>10 DEF SeparateOK, FarApart
<1> QED
  BY <1>3, <1>4, <1>5, Moved
-----------------------------------------------------------------------------
\* An upgrade of the agent that came at t is the i-th the limiter let pass.
Paid(a, t, i) ==
  i \in DOMAIN spent[a] /\ spent[a][i].at <= t /\ t <= spent[a][i].at + Skew

\* A handler works on an upgrade of the agent that passed the limiter.
Holds(p, a) ==
  \/ job[p] # Nothing /\ job[p].key[1] = a
  \/ post[p].pc = "mark" /\ post[p].key[1] = a

\* Whatever is stored, about to be, or on its way to the duplicate check has a
\* passage of the limiter of its own.
Sourced(fs, fp) ==
  /\ \A i \in DOMAIN store : store[i].run = crashes => Paid(store[i].key[1], store[i].at, fs[i])
  /\ \A p \in Posts : job[p] # Nothing => Paid(job[p].key[1], job[p].at, fp[p])
  /\ \A p \in Posts : post[p].pc = "mark" =>
       /\ fp[p] \in DOMAIN spent[post[p].key[1]]
       /\ spent[post[p].key[1]][fp[p]].at = post[p].since
  /\ \A i, j \in DOMAIN store :
       i # j /\ store[i].key[1] = store[j].key[1] /\ store[i].run = crashes
         /\ store[j].run = crashes => fs[i] # fs[j]
  /\ \A i \in DOMAIN store, p \in Posts :
       store[i].run = crashes /\ Holds(p, store[i].key[1]) => fs[i] # fp[p]
  /\ \A p, q \in Posts, a \in Agents : p # q /\ Holds(p, a) /\ Holds(q, a) => fp[p] # fp[q]

SourcesOK ==
  \E fs \in [DOMAIN store -> Nat], fp \in [Posts -> Nat] : Sourced(fs, fp)

\* The requests of one agent and run that came within a window of the i-th.
Near(i) ==
  {j \in DOMAIN store :
     /\ store[j].key[1] = store[i].key[1] /\ store[j].run = store[i].run
     /\ store[j].at >= store[i].at /\ store[j].at + 2 * Skew < store[i].at + Window}

\* Of the passages within a window there are no more than the limit.
LEMMA FewPassages ==
  ASSUME TypeOK, NEW a \in Agents, PassagesOK(a), QuotaOK(a), NEW t \in Nat,
         NEW T \in SUBSET DOMAIN spent[a],
         \A m \in T : t <= spent[a][m].at + Skew /\ spent[a][m].at + 2 * Skew < t + Window
  PROVE  IsFiniteSet(T) /\ Cardinality(T) <= Limit
<1>1. /\ DOMAIN spent[a] = 1..Len(spent[a]) /\ Len(spent[a]) \in Nat
      /\ \A i \in DOMAIN spent[a] : spent[a][i].at \in Nat
  BY PassageType
<1>2. Limit \in Nat /\ Limit > 0 /\ Skew \in Nat /\ Window \in Nat /\ t \in Nat
  BY UpgradeGuardsAssumption
<1>3. CASE T = {}
  BY <1>2, <1>3, FS_EmptySet
<1>4. CASE T # {}
  <2>1. PICK f \in T : \A j \in T : f <= j
    <3>1. T \in SUBSET Nat
      BY <1>1
    <3> QED
      BY <1>4, <3>1, FirstType
  <2>2. f \in Nat /\ f \in DOMAIN spent[a] /\ f + Limit \in Nat /\ f + Limit > 0
    BY <1>1, <1>2, <2>1
  <2>3. ASSUME NEW m \in T PROVE m < f + Limit
    <3> SUFFICES ASSUME m >= f + Limit PROVE FALSE
      BY <1>1, <1>2, <2>2
    <3>1. m \in DOMAIN spent[a] /\ m \in Nat
      BY <1>1
    <3>2. f + Limit \in DOMAIN spent[a]
      BY <1>1, <2>2, <3>1
    <3>3. spent[a][f + Limit].at <= spent[a][m].at
      BY <3>1, <3>2 DEF PassagesOK
    <3>4. spent[a][f + Limit].at + Skew >= spent[a][f].at + Window
      BY <2>2, <3>2 DEF QuotaOK
    <3> DEFINE x == spent[a][f].at
               y == spent[a][f + Limit].at
               z == spent[a][m].at
    <3>5. /\ x \in Nat /\ y \in Nat /\ z \in Nat /\ y <= z /\ y + Skew >= x + Window
          /\ t <= x + Skew /\ z + 2 * Skew < t + Window
      BY <1>1, <2>1, <2>2, <3>1, <3>2, <3>3, <3>4
    <3> HIDE DEF x, y, z
    <3> QED
      BY <1>2, <3>5
  <2>4. T \subseteq f..(f + Limit - 1)
    BY <1>1, <1>2, <2>1, <2>2, <2>3
  <2>5. /\ IsFiniteSet(f..(f + Limit - 1))
        /\ Cardinality(f..(f + Limit - 1)) = Limit
    <3>1. f \in Int /\ f + Limit - 1 \in Int /\ f <= f + Limit - 1 /\ (f + Limit - 1) - f + 1 = Limit
      BY <1>2, <2>2
    <3> DEFINE g == f + Limit - 1
    <3>2. f \in Int /\ g \in Int /\ ~(f > g) /\ g - f + 1 = Limit
      BY <3>1
    <3> HIDE DEF g
    <3>3. IsFiniteSet(f..g) /\ Cardinality(f..g) = g - f + 1
      BY <3>2, FS_Interval
    <3> QED
      BY <3>2, <3>3 DEF g
  <2> QED
    BY <2>4, <2>5, FS_Subset
<1> QED
  BY <1>3, <1>4

LEMMA FewStored ==
  ASSUME TypeOK, IntakeTypeOK, \A a \in Agents : PassagesOK(a) /\ QuotaOK(a), SourcesOK,
         NEW i \in DOMAIN store, store[i].run = crashes
  PROVE  Cardinality(Near(i)) <= Limit
<1> DEFINE a == store[i].key[1]
           t == store[i].at
           S == Near(i)
<1>1. PICK fs \in [DOMAIN store -> Nat], fp \in [Posts -> Nat] : Sourced(fs, fp)
  BY DEF SourcesOK
<1>2. /\ a \in Agents /\ t \in Nat /\ Skew \in Nat /\ Window \in Nat
      /\ \A j \in DOMAIN store : store[j].at \in Nat
  BY StoreType, UpgradeGuardsAssumption
<1>3. \A j \in S : /\ j \in DOMAIN store /\ store[j].key[1] = a /\ store[j].run = crashes
                   /\ store[j].at >= t /\ store[j].at + 2 * Skew < t + Window
  BY DEF Near
<1>4. \A j \in DOMAIN spent[a] : spent[a][j].at \in Nat
  BY <1>2, PassageType
<1> DEFINE T == {fs[j] : j \in S}
<1>5. ASSUME NEW j \in S PROVE fs[j] \in DOMAIN spent[a]
                              /\ t <= spent[a][fs[j]].at + Skew
                              /\ spent[a][fs[j]].at + 2 * Skew < t + Window
  <2>1. Paid(a, store[j].at, fs[j])
    BY <1>1, <1>3 DEF Sourced
  <2> DEFINE x == spent[a][fs[j]].at
             y == store[j].at
  <2>2. fs[j] \in DOMAIN spent[a] /\ x <= y /\ y <= x + Skew /\ x \in Nat /\ y \in Nat
    BY <1>2, <1>3, <1>4, <2>1 DEF Paid
  <2>3. y >= t /\ y + 2 * Skew < t + Window
    BY <1>3
  <2> HIDE DEF x, y, t
  <2>4. t <= x + Skew /\ x + 2 * Skew < t + Window
    BY <1>2, <2>2, <2>3
  <2> QED
    BY <2>2, <2>4 DEF x
<1>6. T \in SUBSET DOMAIN spent[a]
  BY <1>5
<1>7. \A m \in T : t <= spent[a][m].at + Skew /\ spent[a][m].at + 2 * Skew < t + Window
  BY <1>5
<1>8. \A j, l \in S : j # l => fs[j] # fs[l]
  BY <1>1, <1>3 DEF Sourced
<1> DEFINE g == [j \in S |-> fs[j]]
<1>9. g \in Injection(S, T)
  BY <1>8 DEF Injection, IsInjective
<1> HIDE DEF a, t, S, T, g
<1>10. IsFiniteSet(T) /\ Cardinality(T) <= Limit
  BY <1>2, <1>6, <1>7, FewPassages
<1>11. IsFiniteSet(S) /\ Cardinality(S) <= Cardinality(T)
  BY <1>9, <1>10, FS_Injection
<1>12. Cardinality(S) \in Nat /\ Cardinality(T) \in Nat /\ Limit \in Nat
  BY <1>10, <1>11, FS_CardinalityType, UpgradeGuardsAssumption
<1> QED
  BY <1>10, <1>11, <1>12 DEF S
-----------------------------------------------------------------------------
\* The limiter forgets no passage.
SpentKept ==
  \A a \in Agents : /\ DOMAIN spent[a] \subseteq DOMAIN spent'[a]
                    /\ \A i \in DOMAIN spent[a] : spent'[a][i] = spent[a][i]

LEMMA PaidKept ==
  ASSUME SpentKept, NEW a \in Agents, NEW t, NEW i, Paid(a, t, i)
  PROVE  i \in DOMAIN spent'[a] /\ spent'[a][i].at <= t /\ t <= spent'[a][i].at + Skew
  BY DEF SpentKept, Paid

\* A handler that holds a passage is one of a request's.
LEMMA HoldsPaid ==
  ASSUME TypeOK, IntakeTypeOK, NEW fs, NEW fp, Sourced(fs, fp),
         NEW p \in Posts, NEW a \in Agents, Holds(p, a)
  PROVE  fp[p] \in DOMAIN spent[a]
  BY DEF Holds, Sourced, Paid

\* Steps after which the same requests, or fewer, have the same passages.
LEMMA SourcesKept ==
  ASSUME TypeOK, IntakeTypeOK, SourcesOK, Unmoved, JobsKept, SpentKept, crashes' = crashes,
         \A q \in Posts : post'[q].pc = "mark" => post'[q] = post[q]
  PROVE  SourcesOK'
<1>1. PICK fs \in [DOMAIN store -> Nat], fp \in [Posts -> Nat] : Sourced(fs, fp)
  BY DEF SourcesOK
<1>2. /\ \A i \in DOMAIN store' : i \in DOMAIN store /\ Alike(store'[i], store[i])
      /\ DOMAIN store' = DOMAIN store
  BY DEF Unmoved
<1>3. \A i \in DOMAIN store : store[i].key[1] \in Agents
  BY StoreType
<1>4. \A q \in Posts : /\ job'[q] # Nothing => job'[q] = job[q]
                       /\ job[q] # Nothing => job[q].key[1] \in Agents
                       /\ post[q].key[1] \in Agents
  BY JobType, KeyType DEF JobsKept
<1>5. \A q \in Posts : \A a : Holds(q, a)' => Holds(q, a)
  BY <1>4 DEF Holds
<1>6. ASSUME NEW i \in DOMAIN store', store'[i].run = crashes'
      PROVE  Paid(store[i].key[1], store[i].at, fs[i])'
  <2>1. Paid(store[i].key[1], store[i].at, fs[i])
    BY <1>1, <1>2, <1>6 DEF Sourced, Alike
  <2> QED
    BY <1>2, <1>3, <2>1, PaidKept DEF Paid, Alike
<1>7. ASSUME NEW q \in Posts, job'[q] # Nothing
      PROVE  Paid(job[q].key[1], job[q].at, fp[q])'
  <2>1. Paid(job[q].key[1], job[q].at, fp[q])
    BY <1>1, <1>4, <1>7 DEF Sourced
  <2> QED
    BY <1>4, <1>7, <2>1, PaidKept DEF Paid
<1>8. ASSUME NEW q \in Posts, post'[q].pc = "mark"
      PROVE  /\ fp[q] \in DOMAIN spent'[post'[q].key[1]]
             /\ spent'[post'[q].key[1]][fp[q]].at = post'[q].since
  BY <1>1, <1>4, <1>8 DEF Sourced, SpentKept
<1>9. \A i, j \in DOMAIN store' :
        i # j /\ store'[i].key[1] = store'[j].key[1] /\ store'[i].run = crashes'
          /\ store'[j].run = crashes' => fs[i] # fs[j]
  BY <1>1, <1>2 DEF Sourced, Alike
<1>10. \A i \in DOMAIN store', q \in Posts :
         store'[i].run = crashes' /\ Holds(q, store[i].key[1])' => fs[i] # fp[q]
  <2> SUFFICES ASSUME NEW i \in DOMAIN store', NEW q \in Posts, NEW a, a = store'[i].key[1],
                      store'[i].run = crashes', Holds(q, a)'
               PROVE  fs[i] # fp[q]
    BY DEF Holds
  <2>1. Holds(q, store[i].key[1])
    BY <1>2, <1>5 DEF Alike
  <2> QED
    BY <1>1, <1>2, <2>1 DEF Sourced, Alike
<1>11. \A q, r \in Posts, a \in Agents : q # r /\ Holds(q, a)' /\ Holds(r, a)' => fp[q] # fp[r]
  BY <1>1, <1>5 DEF Sourced
<1>12. Sourced(fs, fp)'
  BY <1>6, <1>7, <1>8, <1>9, <1>10, <1>11 DEF Sourced
<1> QED
  BY <1>2, <1>12 DEF SourcesOK

\* The limiter lets an upgrade pass.
Passes(p, a, e) ==
  /\ post[p].key[1] = a /\ job[p] = Nothing /\ UNCHANGED <<job, store, crashes>>
  /\ e.at = clock
  /\ spent' = [spent EXCEPT ![a] = Append(spent[a], e)]
  /\ post' = [post EXCEPT ![p].pc = "mark", ![p].since = clock]

LEMMA SourcesAdmitted ==
  ASSUME TypeOK, IntakeTypeOK, SourcesOK, NEW p \in Posts, NEW a \in Agents,
         NEW e \in Passage, Passes(p, a, e)
  PROVE  SourcesOK'
<1>1. PICK fs \in [DOMAIN store -> Nat], fp \in [Posts -> Nat] : Sourced(fs, fp)
  BY DEF SourcesOK
<1>2. /\ spent[a] \in Seq(Passage) /\ DOMAIN spent[a] = 1..Len(spent[a]) /\ Len(spent[a]) \in Nat
  BY PassageType
<1>2a. PICK n \in Nat : n = Len(spent[a]) + 1
  BY <1>2
<1>3. /\ DOMAIN Append(spent[a], e) = 1..n
      /\ \A i \in DOMAIN spent[a] : Append(spent[a], e)[i] = spent[a][i]
      /\ Append(spent[a], e)[n] = e
  BY <1>2, <1>2a, AppendType
<1>4. spent'[a] = Append(spent[a], e) /\ \A b \in Agents \ {a} : spent'[b] = spent[b]
  BY DEF TypeOK, Passes
<1>5. n \in Nat /\ n \in DOMAIN spent'[a] /\ n \notin DOMAIN spent[a]
  BY <1>2, <1>3, <1>4, <1>2a
<1>6. SpentKept
  <2>1. /\ DOMAIN spent[a] \subseteq DOMAIN spent'[a]
        /\ \A i \in DOMAIN spent[a] : spent'[a][i] = spent[a][i]
    BY <1>2, <1>3, <1>4, <1>2a
  <2>2. ASSUME NEW b \in Agents
        PROVE  /\ DOMAIN spent[b] \subseteq DOMAIN spent'[b]
               /\ \A i \in DOMAIN spent[b] : spent'[b][i] = spent[b][i]
    BY <1>4, <2>1
  <2> QED
    BY <2>2 DEF SpentKept
<1>7. spent'[a][n].at = clock
  BY <1>3, <1>4 DEF Passes
<1>8. /\ post'[p].pc = "mark" /\ post'[p].since = clock /\ post'[p].key = post[p].key
      /\ \A q \in Posts \ {p} : post'[q] = post[q]
  BY DEF TypeOK, Handler, Passes
<1>0. job' = job /\ store' = store /\ crashes' = crashes /\ job[p] = Nothing
  BY DEF Passes
<1>9a. PICK gp \in [Posts -> Nat] : gp = [fp EXCEPT ![p] = n]
  OBVIOUS
<1>9. /\ gp \in [Posts -> Nat] /\ gp[p] = n /\ \A q \in Posts \ {p} : gp[q] = fp[q]
  BY <1>9a
<1>10. /\ \A i \in DOMAIN store : store[i].key[1] \in Agents
       /\ \A q \in Posts : /\ job[q] # Nothing => job[q].key[1] \in Agents
                           /\ post[q].key[1] \in Agents
  BY StoreType, JobType, KeyType
<1>11. /\ \A q \in Posts \ {p} : \A b : Holds(q, b)' => Holds(q, b)
       /\ \A b : Holds(p, b)' => b = a
  BY <1>0, <1>8 DEF Holds, Passes
<1>12. ASSUME NEW i \in DOMAIN store, store[i].run = crashes
       PROVE  /\ Paid(store[i].key[1], store[i].at, fs[i])'
              /\ fs[i] \in DOMAIN spent[store[i].key[1]]
  <2>1. Paid(store[i].key[1], store[i].at, fs[i])
    BY <1>1, <1>12 DEF Sourced
  <2> QED
    BY <1>0, <1>6, <1>10, <2>1, PaidKept DEF Paid
<1>13. ASSUME NEW q \in Posts, job[q] # Nothing
       PROVE  Paid(job[q].key[1], job[q].at, gp[q])'
  <2>1. Paid(job[q].key[1], job[q].at, fp[q]) /\ q # p
    BY <1>0, <1>1, <1>13 DEF Sourced
  <2>2. gp[q] = fp[q] /\ job'[q] = job[q]
    BY <1>0, <1>9, <2>1
  <2>3. /\ fp[q] \in DOMAIN spent'[job[q].key[1]]
        /\ spent'[job[q].key[1]][fp[q]].at <= job[q].at
        /\ job[q].at <= spent'[job[q].key[1]][fp[q]].at + Skew
    BY <1>6, <1>10, <1>13, <2>1, PaidKept
  <2> QED
    BY <2>2, <2>3 DEF Paid
<1>14. ASSUME NEW q \in Posts, post'[q].pc = "mark"
       PROVE  /\ gp[q] \in DOMAIN spent'[post'[q].key[1]]
              /\ spent'[post'[q].key[1]][gp[q]].at = post'[q].since
  <2>1. CASE q = p
    <3>1. post'[q].key[1] = a /\ post'[q].since = clock /\ gp[q] = n
      BY <1>8, <1>9, <2>1 DEF Passes
    <3> QED
      BY <1>5, <1>7, <3>1
  <2>2. CASE q # p
    <3>1. post'[q] = post[q] /\ gp[q] = fp[q]
      BY <1>8, <1>9, <2>2
    <3>2. /\ fp[q] \in DOMAIN spent[post[q].key[1]]
          /\ spent[post[q].key[1]][fp[q]].at = post[q].since
      BY <1>1, <1>14, <3>1 DEF Sourced
    <3>3. /\ DOMAIN spent[post[q].key[1]] \subseteq DOMAIN spent'[post[q].key[1]]
          /\ spent'[post[q].key[1]][fp[q]] = spent[post[q].key[1]][fp[q]]
      BY <1>6, <1>10, <3>2 DEF SpentKept
    <3> QED
      BY <3>1, <3>2, <3>3
  <2> QED
    BY <2>1, <2>2
<1>15. ASSUME NEW i \in DOMAIN store, NEW q \in Posts, store[i].run = crashes,
              NEW b, b = store[i].key[1], Holds(q, b)'
       PROVE  fs[i] # gp[q]
  <2>1. CASE q = p
    BY <1>5, <1>9, <1>11, <1>12, <1>15, <2>1
  <2>2. CASE q # p
    BY <1>1, <1>9, <1>11, <1>15, <2>2 DEF Sourced
  <2> QED
    BY <2>1, <2>2
<1>16. ASSUME NEW q \in Posts, NEW r \in Posts, NEW b \in Agents, q # r, Holds(q, b)', Holds(r, b)'
       PROVE  gp[q] # gp[r]
  <2>1. CASE q # p /\ r # p
    BY <1>1, <1>9, <1>11, <1>16, <2>1 DEF Sourced
  <2>2. CASE q = p
    <3>1. b = a /\ r # p /\ Holds(r, a)
      BY <1>11, <1>16, <2>2
    <3>2. fp[r] \in DOMAIN spent[a]
      BY <1>1, <3>1, HoldsPaid
    <3> QED
      BY <1>5, <1>9, <2>2, <3>1, <3>2
  <2>3. CASE r = p
    <3>1. b = a /\ q # p /\ Holds(q, a)
      BY <1>11, <1>16, <2>3
    <3>2. fp[q] \in DOMAIN spent[a]
      BY <1>1, <3>1, HoldsPaid
    <3> QED
      BY <1>5, <1>9, <2>3, <3>1, <3>2
  <2> QED
    BY <2>1, <2>2, <2>3
<1>17. \A i \in DOMAIN store, q \in Posts :
         store[i].run = crashes /\ Holds(q, store[i].key[1])' => fs[i] # gp[q]
  BY <1>0, <1>15 DEF Holds
<1>18. \A i, j \in DOMAIN store :
         i # j /\ store[i].key[1] = store[j].key[1] /\ store[i].run = crashes
           /\ store[j].run = crashes => fs[i] # fs[j]
  BY <1>1 DEF Sourced
<1>19. Sourced(fs, gp)'
  BY <1>12, <1>13, <1>14, <1>16, <1>17, <1>18, <1>0 DEF Sourced
<1> QED
  BY <1>0, <1>9, <1>19 DEF SourcesOK
\* The duplicate check hands a request over to the store.
LEMMA SourcesAccepted ==
  ASSUME TypeOK, IntakeTypeOK, SourcesOK, NEW p \in Posts, PostOK(p), CheckDuplicate(p),
         \A q \in Posts : PostOK(q), Accepts(p)
  PROVE  SourcesOK'
<1>1. PICK fs \in [DOMAIN store -> Nat], fp \in [Posts -> Nat] : Sourced(fs, fp)
  BY DEF SourcesOK
<1>2. /\ post[p].pc = "mark" /\ job[p] = Nothing /\ post' = [post EXCEPT ![p] = Idle]
      /\ spent' = spent /\ crashes' = crashes /\ store' = store /\ clock' = clock
  BY CheckDuplicateNext
<1>3. /\ job'[p].key = post[p].key /\ job'[p].at = clock /\ job'[p].run = crashes
      /\ \A q \in Posts \ {p} : job'[q] = job[q]
  BY DEF Accepts, IntakeTypeOK
<1>4. post'[p].pc = "idle" /\ \A q \in Posts \ {p} : post'[q] = post[q]
  BY <1>2, IdleType DEF TypeOK
<1>5. \A q \in Posts : \A a : Holds(q, a)' => Holds(q, a)
  BY <1>2, <1>3, <1>4 DEF Holds
<1>6. Paid(job'[p].key[1], job'[p].at, fp[p])
  <2>1. /\ fp[p] \in DOMAIN spent[post[p].key[1]]
        /\ spent[post[p].key[1]][fp[p]].at = post[p].since
    BY <1>1, <1>2 DEF Sourced
  <2>2. post[p].since <= clock /\ clock <= post[p].since + Skew
    BY <1>2 DEF PostOK
  <2> QED
    BY <1>3, <2>1, <2>2 DEF Paid
<1>7. ASSUME NEW q \in Posts, job'[q] # Nothing
      PROVE  Paid(job[q].key[1], job[q].at, fp[q])'
  <2>1. Paid(job'[q].key[1], job'[q].at, fp[q])
    BY <1>1, <1>3, <1>6, <1>7 DEF Sourced
  <2> QED
    BY <1>2, <2>1 DEF Paid
<1>8. ASSUME NEW i \in DOMAIN store, store[i].run = crashes
      PROVE  Paid(store[i].key[1], store[i].at, fs[i])'
  <2>1. Paid(store[i].key[1], store[i].at, fs[i])
    BY <1>1, <1>8 DEF Sourced
  <2> QED
    BY <1>2, <2>1 DEF Paid
<1>9. \A q \in Posts : post'[q].pc = "mark" =>
        /\ fp[q] \in DOMAIN spent[post'[q].key[1]]
        /\ spent[post'[q].key[1]][fp[q]].at = post'[q].since
  BY <1>1, <1>4 DEF Sourced
<1>10. ASSUME NEW i \in DOMAIN store, NEW q \in Posts, store[i].run = crashes,
              NEW a, a = store[i].key[1], Holds(q, a)'
       PROVE  fs[i] # fp[q]
  BY <1>1, <1>5, <1>10 DEF Sourced
<1>11. \A i \in DOMAIN store, q \in Posts :
         store[i].run = crashes /\ Holds(q, store[i].key[1])' => fs[i] # fp[q]
  BY <1>2, <1>10 DEF Holds
<1>12. \A q, r \in Posts, a \in Agents : q # r /\ Holds(q, a)' /\ Holds(r, a)' => fp[q] # fp[r]
  BY <1>1, <1>5 DEF Sourced
<1>13. \A i, j \in DOMAIN store :
         i # j /\ store[i].key[1] = store[j].key[1] /\ store[i].run = crashes
           /\ store[j].run = crashes => fs[i] # fs[j]
  BY <1>1 DEF Sourced
<1>14. Sourced(fs, fp)'
  BY <1>2, <1>7, <1>8, <1>9, <1>11, <1>12, <1>13 DEF Sourced
<1> QED
  BY <1>2, <1>14 DEF SourcesOK

\* The store gains what the handler had.
LEMMA SourcesMoved ==
  ASSUME TypeOK, IntakeTypeOK, SourcesOK, NEW p \in Posts, Moves(p)
  PROVE  SourcesOK'
<1>1. PICK fs \in [DOMAIN store -> Nat], fp \in [Posts -> Nat] : Sourced(fs, fp)
  BY DEF SourcesOK
<1>2. /\ DOMAIN store = 1..Len(store) /\ Len(store) \in Nat
      /\ \A i \in DOMAIN store : store[i].key[1] \in Agents
  BY StoreType
<1>3. PICK n \in Nat : n = Len(store) + 1
  BY <1>2
<1>4. /\ DOMAIN store' = 1..n /\ n \notin DOMAIN store /\ n \in DOMAIN store'
      /\ \A i \in DOMAIN store' : i \in DOMAIN store \/ i = n
      /\ \A i \in DOMAIN store : store'[i] = store[i]
      /\ Alike(store'[n], job[p]) /\ job[p] # Nothing
  BY <1>2, <1>3 DEF Moves
<1>5. /\ job'[p] = Nothing /\ \A q \in Posts \ {p} : job'[q] = job[q]
  BY DEF Moves, IntakeTypeOK
<1>6. post' = post /\ spent' = spent /\ crashes' = crashes
  BY DEF Moves, vars
<1>7. post[p].pc # "mark" /\ job[p].run = crashes /\ job[p].key[1] \in Agents
  BY <1>4, JobType
<1>8. PICK gs \in [1..n -> Nat] : gs = [i \in 1..n |-> IF i = n THEN fp[p] ELSE fs[i]]
  <2>1. \A i \in 1..n : i = n \/ i \in DOMAIN store
    BY <1>4
  <2>2. \A i \in 1..n : (IF i = n THEN fp[p] ELSE fs[i]) \in Nat
    BY <2>1
  <2> QED
    BY <2>2
<1>9. gs[n] = fp[p] /\ \A i \in DOMAIN store : gs[i] = fs[i]
  BY <1>2, <1>3, <1>4, <1>8
<1>10. /\ \A q \in Posts : \A a : Holds(q, a)' => Holds(q, a) /\ q # p
       /\ Holds(p, job[p].key[1])
  BY <1>4, <1>5, <1>6, <1>7 DEF Holds
<1>11. ASSUME NEW i \in DOMAIN store', store'[i].run = crashes
       PROVE  Paid(store'[i].key[1], store'[i].at, gs[i])
  <2>1. CASE i = n
    <3>1. Paid(job[p].key[1], job[p].at, fp[p])
      BY <1>1, <1>4 DEF Sourced
    <3>2. store'[i].key = job[p].key /\ store'[i].at = job[p].at /\ gs[i] = fp[p]
      BY <1>4, <1>9, <2>1 DEF Alike
    <3> QED
      BY <3>1, <3>2
  <2>2. CASE i \in DOMAIN store
    <3>1. store'[i] = store[i] /\ gs[i] = fs[i] /\ store[i].run = crashes
      BY <1>4, <1>9, <1>11, <2>2
    <3> QED
      BY <1>1, <2>2, <3>1 DEF Sourced
  <2> QED
    BY <1>4, <2>1, <2>2
<1>12. ASSUME NEW i \in DOMAIN store', store'[i].run = crashes
       PROVE  Paid(store[i].key[1], store[i].at, gs[i])'
  BY <1>6, <1>11, <1>12 DEF Paid
<1>13. ASSUME NEW q \in Posts, job'[q] # Nothing
       PROVE  Paid(job[q].key[1], job[q].at, fp[q])'
  <2>1. Paid(job[q].key[1], job[q].at, fp[q]) /\ job'[q] = job[q]
    BY <1>1, <1>5, <1>13 DEF Sourced
  <2> QED
    BY <1>6, <2>1 DEF Paid
<1>14. ASSUME NEW i \in DOMAIN store', NEW j \in DOMAIN store', i # j,
              store'[i].key[1] = store'[j].key[1], store'[i].run = crashes, store'[j].run = crashes
       PROVE  gs[i] # gs[j]
  <2>1. CASE i \in DOMAIN store /\ j \in DOMAIN store
    BY <1>1, <1>4, <1>9, <1>14, <2>1 DEF Sourced
  <2>2. CASE i = n
    <3>1. j \in DOMAIN store /\ store'[j] = store[j] /\ gs[j] = fs[j] /\ gs[i] = fp[p]
      BY <1>4, <1>9, <1>14, <2>2
    <3>2. Holds(p, store[j].key[1]) /\ store[j].run = crashes
      BY <1>4, <1>10, <1>14, <2>2, <3>1 DEF Alike
    <3> QED
      BY <1>1, <3>1, <3>2 DEF Sourced
  <2>3. CASE j = n
    <3>1. i \in DOMAIN store /\ store'[i] = store[i] /\ gs[i] = fs[i] /\ gs[j] = fp[p]
      BY <1>4, <1>9, <1>14, <2>3
    <3>2. Holds(p, store[i].key[1]) /\ store[i].run = crashes
      BY <1>4, <1>10, <1>14, <2>3, <3>1 DEF Alike
    <3> QED
      BY <1>1, <3>1, <3>2 DEF Sourced
  <2> QED
    BY <1>4, <2>1, <2>2, <2>3
<1>15. ASSUME NEW i \in DOMAIN store', NEW q \in Posts, store'[i].run = crashes,
              NEW a, a = store'[i].key[1], Holds(q, a)'
       PROVE  gs[i] # fp[q]
  <2>1. Holds(q, a) /\ q # p
    BY <1>10, <1>15
  <2>2. CASE i \in DOMAIN store
    BY <1>1, <1>4, <1>9, <1>15, <2>1, <2>2 DEF Sourced
  <2>3. CASE i = n
    <3>1. a = job[p].key[1] /\ a \in Agents /\ Holds(p, a) /\ gs[i] = fp[p]
      BY <1>4, <1>7, <1>9, <1>10, <1>15, <2>3 DEF Alike
    <3> QED
      BY <1>1, <2>1, <3>1 DEF Sourced
  <2> QED
    BY <1>4, <2>2, <2>3
<1>16. \A i \in DOMAIN store', q \in Posts :
         store'[i].run = crashes /\ Holds(q, store[i].key[1])' => gs[i] # fp[q]
  BY <1>15 DEF Holds
<1>17. \A q, r \in Posts, a \in Agents : q # r /\ Holds(q, a)' /\ Holds(r, a)' => fp[q] # fp[r]
  BY <1>1, <1>10 DEF Sourced
<1>18. \A q \in Posts : post'[q].pc = "mark" =>
         /\ fp[q] \in DOMAIN spent'[post'[q].key[1]]
         /\ spent'[post'[q].key[1]][fp[q]].at = post'[q].since
  BY <1>1, <1>6 DEF Sourced
<1>19. \A i, j \in DOMAIN store' :
         i # j /\ store'[i].key[1] = store'[j].key[1] /\ store'[i].run = crashes'
           /\ store'[j].run = crashes' => gs[i] # gs[j]
  <2> SUFFICES ASSUME NEW i \in DOMAIN store', NEW j \in DOMAIN store', i # j,
                      store'[i].key[1] = store'[j].key[1], store'[i].run = crashes', store'[j].run = crashes'
               PROVE  gs[i] # gs[j]
    OBVIOUS
  <2>1. store'[i].run = crashes /\ store'[j].run = crashes
    BY <1>6
  <2> QED
    BY <1>14, <2>1
<1>20. /\ \A i \in DOMAIN store' : store'[i].run = crashes'
            => Paid(store[i].key[1], store[i].at, gs[i])'
       /\ \A i \in DOMAIN store', q \in Posts :
            store'[i].run = crashes' /\ Holds(q, store[i].key[1])' => gs[i] # fp[q]
  BY <1>6, <1>12, <1>16
<1>21. Sourced(gs, fp)'
  BY <1>13, <1>17, <1>18, <1>19, <1>20 DEF Sourced
<1> QED
  BY <1>4, <1>8, <1>21 DEF SourcesOK
LEMMA SourcesNext ==
  ASSUME TypeOK, \A p \in Posts : PostOK(p), IntakeTypeOK, RecordsOK, SourcesOK, [IntakeNext]_intakeVars
  PROVE  SourcesOK'
<1>1. store' = store => Unmoved
  BY DEF Unmoved, Alike
<1>2. job' = job => JobsKept
  BY DEF JobsKept
<1>3. spent' = spent => SpentKept
  BY DEF SpentKept
<1>4. post \in [Posts -> Handler]
  BY DEF TypeOK
<1>5. ASSUME NEW p \in Posts, Receive(p) PROVE SourcesOK'
  <2>1. \A q \in Posts : post'[q].pc = "mark" => post'[q] = post[q]
    BY <1>4, <1>5 DEF Receive, Post
  <2> QED
    BY <1>1, <1>2, <1>3, <1>5, <2>1, SourcesKept DEF Receive, Post
<1>6. ASSUME NEW p \in Posts, CheckQuota(p) PROVE SourcesOK'
  <2> DEFINE a == post[p].key[1]
  <2>1. PICK now \in post[p].since..clock :
          IF Cardinality(Live(a, now)) >= Limit
          THEN Answer(p) /\ UNCHANGED <<spent, history>>
          ELSE /\ spent' = [spent EXCEPT ![a] = Append(@, [now |-> now, at |-> clock])]
               /\ Passed(p)
    BY <1>6 DEF CheckQuota, Allow
  <2>2. post[p].pc = "allow" /\ UNCHANGED <<job, store, crashes>>
    BY <1>6 DEF CheckQuota, Allow
  <2>3. job[p] = Nothing
    BY <2>2, BusyHasNothing
  <2>4. CASE Cardinality(Live(a, now)) >= Limit
    <3>1. Answer(p) /\ spent' = spent
      BY <2>1, <2>4
    <3>2. \A q \in Posts : post'[q].pc = "mark" => post'[q] = post[q]
      BY <1>4, <3>1, IdleType DEF Answer
    <3> QED
      BY <1>1, <1>2, <1>3, <2>2, <3>1, <3>2, SourcesKept
  <2>5. CASE ~(Cardinality(Live(a, now)) >= Limit)
    <3>1. /\ spent' = [spent EXCEPT ![a] = Append(@, [now |-> now, at |-> clock])]
          /\ Passed(p)
      BY <2>1, <2>5
    <3>2. now \in Nat /\ clock \in Nat /\ a \in Agents
      BY KeyType DEF TypeOK
    <3>3. PICK e \in Passage : e = [now |-> now, at |-> clock]
      BY <3>2 DEF Passage
    <3>4. Passes(p, a, e)
      BY <2>2, <2>3, <3>1, <3>3 DEF Passes, Passed
    <3>5. PICK b \in Agents : b = a
      BY <3>2
    <3> QED
      BY <3>4, <3>5, SourcesAdmitted
  <2> QED
    BY <2>4, <2>5
<1>7. ASSUME NEW p \in Posts, CheckDuplicate(p) PROVE SourcesOK'
  <2>1. /\ post' = [post EXCEPT ![p] = Idle] /\ UNCHANGED <<spent, crashes, store>>
        /\ job' = job \/ Accepts(p)
    BY <1>7, CheckDuplicateNext
  <2>2. \A q \in Posts : post'[q].pc = "mark" => post'[q] = post[q]
    BY <1>4, <2>1, IdleType
  <2>3. CASE job' = job
    BY <1>1, <1>2, <1>3, <2>1, <2>2, <2>3, SourcesKept
  <2>4. CASE Accepts(p)
    BY <1>7, <2>4, SourcesAccepted
  <2> QED
    BY <2>1, <2>3, <2>4
<1>8. ASSUME NEW p \in Posts, Store(p) PROVE SourcesOK'
  <2>1. /\ job[p] # Nothing /\ job' = [job EXCEPT ![p] = Nothing] /\ UNCHANGED vars
        /\ \/ store' = store
           \/ /\ DOMAIN store' = 1..(Len(store) + 1)
              /\ \A i \in DOMAIN store : store'[i] = store[i]
              /\ Alike(store'[Len(store) + 1], job[p])
    BY <1>8, StoreNext
  <2>2. CASE store' = store
    <3>1. JobsKept
      BY <2>1 DEF JobsKept, IntakeTypeOK
    <3> QED
      BY <1>1, <1>3, <2>1, <2>2, <3>1, SourcesKept DEF vars
  <2>3. CASE Moves(p)
    BY <2>3, SourcesMoved
  <2> QED
    BY <2>1, <2>2, <2>3 DEF Moves
<1>9. ASSUME NEW d \in DOMAIN store, Decide(d) PROVE SourcesOK'
  <2>1. Unmoved /\ job' = job /\ UNCHANGED vars
    BY <1>9, DecideNext DEF Unmoved
  <2> QED
    BY <1>2, <1>3, <2>1, SourcesKept DEF vars
<1>10. CASE DaemonCrash
  <2>1. PICK fs \in [DOMAIN store -> Nat], fp \in [Posts -> Nat] : Sourced(fs, fp)
    BY DEF SourcesOK
  <2>2. /\ crashes \in Nat /\ crashes' = crashes + 1 /\ store' = store
        /\ \A q \in Posts : job'[q] = Nothing /\ post'[q].pc = "idle"
    BY <1>10, IdleType DEF DaemonCrash, Crash, TypeOK
  <2>3. \A i \in DOMAIN store : store[i].run # crashes'
    BY <2>2, StoreType DEF RecordsOK, RecordOK
  <2>4. \A q \in Posts : \A a : ~Holds(q, a)'
    BY <2>2 DEF Holds
  <2>5. Sourced(fs, fp)'
    BY <2>2, <2>3, <2>4 DEF Sourced
  <2> QED
    BY <2>1, <2>2, <2>5 DEF SourcesOK
<1>11. CASE TimePasses
  BY <1>1, <1>2, <1>3, <1>11, SourcesKept DEF TimePasses, Tick
<1>12. CASE UNCHANGED intakeVars
  BY <1>1, <1>2, <1>3, <1>12, SourcesKept DEF intakeVars, vars
<1> QED
  BY <1>5, <1>6, <1>7, <1>8, <1>9, <1>10, <1>11, <1>12 DEF IntakeNext

LEMMA FewOfThisRun ==
  TypeOK /\ IntakeTypeOK /\ (\A a \in Agents : PassagesOK(a) /\ QuotaOK(a)) /\ SourcesOK
    => \A i \in DOMAIN store : store[i].run = crashes => Cardinality(Near(i)) <= Limit
  BY FewStored

\* What a daemon run stored is not added to by a later one.
LEMMA NearFrozen ==
  ASSUME TypeOK, \A p \in Posts : PostOK(p), IntakeTypeOK, [IntakeNext]_intakeVars,
         NEW i \in DOMAIN store, store[i].run # crashes \/ Unmoved
  PROVE  i \in DOMAIN store' /\ Near(i)' = Near(i) /\ store'[i].run = store[i].run
<1>1. DOMAIN store = 1..Len(store) /\ Len(store) \in Nat
  BY StoreType
<1>2. CASE Unmoved
  BY <1>2 DEF Unmoved, Near, Alike
<1>3. ASSUME NEW p \in Posts, Moves(p), store[i].run # crashes
      PROVE  i \in DOMAIN store' /\ Near(i)' = Near(i) /\ store'[i].run = store[i].run
  <2>1. job[p].run = crashes
    BY <1>3, JobType DEF Moves
  <2>2. /\ \A j \in DOMAIN store' : j \in DOMAIN store \/ store'[j].run = crashes
        /\ \A j \in DOMAIN store : j \in DOMAIN store' /\ store'[j] = store[j]
    BY <1>1, <1>3, <2>1 DEF Moves, Alike
  <2> QED
    BY <1>3, <2>2 DEF Near
<1> QED
  BY <1>2, <1>3, Moved

LEMMA QuotaNext ==
  ASSUME TypeOK, \A p \in Posts : PostOK(p), IntakeTypeOK, RecordsOK, StoredWithinQuota,
         [IntakeNext]_intakeVars, \A i \in DOMAIN store' : store'[i].run = crashes' => Cardinality(Near(i)') <= Limit
  PROVE  StoredWithinQuota'
<1> SUFFICES ASSUME NEW i \in DOMAIN store' PROVE Cardinality(Near(i)') <= Limit
  BY DEF StoredWithinQuota, Near
<1>1. DOMAIN store = 1..Len(store) /\ Len(store) \in Nat /\ crashes \in Nat
  BY StoreType DEF TypeOK
<1>2. ASSUME NEW p \in Posts, Moves(p) PROVE Cardinality(Near(i)') <= Limit
  <2>1. crashes' = crashes /\ job[p].run = crashes
    BY <1>2, JobType DEF Moves, vars
  <2>2. CASE store'[i].run = crashes
    BY <2>1, <2>2
  <2>3. CASE store'[i].run # crashes
    <3>1. i \in DOMAIN store /\ store[i].run # crashes
      BY <1>1, <1>2, <2>1, <2>3 DEF Moves, Alike
    <3>2. Near(i)' = Near(i) /\ Cardinality(Near(i)) <= Limit
      BY <3>1, NearFrozen DEF StoredWithinQuota, Near
    <3> QED
      BY <3>2
  <2> QED
    BY <2>2, <2>3
<1>3. CASE Unmoved
  <2>1. i \in DOMAIN store /\ Near(i)' = Near(i)
    BY <1>3, NearFrozen DEF Unmoved
  <2>2. Cardinality(Near(i)) <= Limit
    BY <2>1 DEF StoredWithinQuota, Near
  <2> QED
    BY <2>1, <2>2
<1> QED
  BY <1>2, <1>3, Moved

-----------------------------------------------------------------------------
IntakeInv == GInv /\ IntakeTypeOK /\ RecordsOK /\ SeparateOK /\ SourcesOK /\ StoredWithinQuota

LEMMA IntakeInvInit == IntakeInit => IntakeInv
<1> SUFFICES ASSUME IntakeInit PROVE IntakeInv
  OBVIOUS
<1>1. GInv /\ IntakeTypeOK
  BY GInvInit, IntakeTypeInit DEF IntakeInit
<1>2. /\ DOMAIN store = {} /\ \A p \in Posts : job[p] = Nothing /\ post[p].pc = "idle"
  BY IdleType DEF IntakeInit, Init
<1>3. RecordsOK /\ SeparateOK /\ StoredWithinQuota
  BY <1>2 DEF RecordsOK, SeparateOK, StoredWithinQuota
<1>4. SourcesOK
  <2> DEFINE fs == [i \in DOMAIN store |-> 0]
             fp == [p \in Posts |-> 0]
  <2>1. fs \in [DOMAIN store -> Nat] /\ fp \in [Posts -> Nat]
    OBVIOUS
  <2>2. Sourced(fs, fp)
    BY <1>2 DEF Sourced, Holds
  <2> QED
    BY <2>1, <2>2 DEF SourcesOK
<1> QED
  BY <1>1, <1>3, <1>4 DEF IntakeInv

LEMMA IntakeInvNext == IntakeInv /\ [IntakeNext]_intakeVars => IntakeInv'
<1> SUFFICES ASSUME IntakeInv, [IntakeNext]_intakeVars PROVE IntakeInv'
  OBVIOUS
<1>1. /\ GInv /\ TypeOK /\ (\A p \in Posts : PostOK(p)) /\ IntakeTypeOK
      /\ RecordsOK /\ SeparateOK /\ SourcesOK /\ StoredWithinQuota
  BY DEF IntakeInv, GInv
<1>2. GInv'
  BY <1>1, IntakeStep, GuardsNext
<1>3. IntakeTypeOK'
  BY <1>1, IntakeTypeNext
<1>4. RecordsOK'
  BY <1>1, RecordsNext
<1>5. SeparateOK'
  BY <1>1, SeparateNext
<1>6. SourcesOK'
  BY <1>1, SourcesNext
<1>7. (\A i \in DOMAIN store : store[i].run = crashes => Cardinality(Near(i)) <= Limit)'
  <2>1. (TypeOK /\ IntakeTypeOK /\ (\A a \in Agents : PassagesOK(a) /\ QuotaOK(a)) /\ SourcesOK)'
    BY <1>2, <1>3, <1>6 DEF GInv
  <2> QED
    BY <2>1, FewOfThisRun, PTL
<1>8. StoredWithinQuota'
  <2>1. \A i \in DOMAIN store' : store'[i].run = crashes' => Cardinality(Near(i)') <= Limit
    BY <1>7
  <2> QED
    BY <1>1, <2>1, QuotaNext
<1> QED
  BY <1>2, <1>3, <1>4, <1>5, <1>6, <1>8 DEF IntakeInv

\* createRequest as a whole uses the guards as they are meant to be used, so
\* that what holds of them alone holds within it.
THEOREM GuardsWithinIntake == IntakeSpec => Spec
<1>1. IntakeInit => Init
  BY DEF IntakeInit
<1> QED
  BY <1>1, IntakeStep, PTL DEF IntakeSpec, Spec

\* What createRequest stores keeps to the quota of its agent and to the dedup
\* window, and the cache refuses its repetition, for every limit and window and
\* though saves fail, handlers overtake each other and the daemon restarts.
THEOREM IntakeAlwaysSound == IntakeSpec => []IntakeSound
<1>1. ASSUME IntakeInv PROVE IntakeSound
  <2>1. TypeOK /\ IntakeTypeOK /\ RecordsOK /\ SeparateOK /\ StoredWithinQuota
    BY <1>1 DEF IntakeInv, GInv
  <2>2. StoredApart
    BY <2>1 DEF SeparateOK, FarApart, StoredApart
  <2>3. StoredIsRefused
    <3>1. /\ clock \in Nat /\ Skew \in Nat /\ DedupWindow \in Nat
          /\ \A i \in DOMAIN store : store[i].at \in Nat
      BY <2>1, StoreType, UpgradeGuardsAssumption DEF TypeOK
    <3>2. ASSUME NEW i \in DOMAIN store, store[i].run = crashes,
                 clock + Skew <= store[i].at + DedupWindow
          PROVE  \E e \in seen : e.key = store[i].key
      <4>1. \/ Remembered(store[i].key, store[i].at)
            \/ store[i].at + DedupWindow < clock + Skew
        BY <2>1, <3>2 DEF RecordsOK, RecordOK
      <4> QED
        BY <3>1, <3>2, <4>1 DEF Remembered
    <3>3. ASSUME NEW p \in Posts, job[p] # Nothing, job[p].run = crashes,
                 clock + Skew <= job[p].at + DedupWindow
          PROVE  \E e \in seen : e.key = job[p].key
      <4>1. \/ Remembered(job[p].key, job[p].at)
            \/ job[p].at + DedupWindow < clock + Skew
        BY <2>1, <3>3 DEF RecordsOK, RecordOK
      <4>2. job[p].at \in Nat
        BY <2>1, <3>3, JobType
      <4> QED
        BY <3>1, <3>3, <4>1, <4>2 DEF Remembered
    <3> QED
      BY <3>2, <3>3 DEF StoredIsRefused
  <2> QED
    BY <2>1, <2>2, <2>3 DEF IntakeSound
<1>2. IntakeSpec => []IntakeInv
  BY IntakeInvInit, IntakeInvNext, PTL DEF IntakeSpec
<1> QED
  BY <1>1, <1>2, PTL

\* Within createRequest the quota, the limiter's history and Retry-After are
\* what they are for the guards alone.
THEOREM LimitsWithinIntake == IntakeSpec => [](LimitsSound /\ RetryHonest)
  BY GuardsWithinIntake, LimitsAlwaysSound, RetriesHonest, PTL
=============================================================================
