----------------------------- MODULE UpgradeGuards -----------------------------
(***************************************************************************)
(* The guards a permission-upgrade request passes before it is stored: the *)
(* hourly quota of its agent (rateLimiter) and the window in which the     *)
(* same justification is refused (reasonDedupCache).  Both live in the     *)
(* daemon's memory and are used by concurrent handlers.                    *)
(*                                                                         *)
(* A handler reads the clock before it takes a guard's mutex, so a guard   *)
(* can see its instants out of order.  Skew bounds how long a handler      *)
(* waits between the two.                                                  *)
(***************************************************************************)
EXTENDS Naturals, FiniteSets, Sequences

CONSTANTS
  Posts,        \* handlers of POST /v1/requests
  Agents,
  Reasons,      \* target profile, target resource and reason
  Limit,        \* upgrades an agent may ask for in a window
  Window,       \* the limiter's window
  DedupWindow,
  Skew,
  Second,       \* ticks of the clock in a second
  MaxClock,     \* bound: the last instant
  MaxCrashes    \* bound: daemon crashes

ASSUME UpgradeGuardsAssumption ==
  /\ Agents # {} /\ Reasons # {}
  /\ Limit \in Nat \ {0} /\ Window \in Nat \ {0} /\ DedupWindow \in Nat \ {0}
  /\ Second \in Nat \ {0} /\ Skew \in Nat /\ MaxClock \in Nat /\ MaxCrashes \in Nat

VARIABLES
  post,     \* the handlers
  spent,    \* upgrades the limiter let pass, of each agent, in this daemon run
  history,  \* the limiter's history of each agent: indices of spent
  seen,     \* the entries of the dedup cache
  passed,   \* when the dedup cache last let a justification pass
  advice,   \* the instants the last refused post of an agent was told to retry at
  clock, crashes

vars == <<post, spent, history, seen, passed, advice, clock, crashes>>

Keys == Agents \X Reasons

Handler == [pc : {"idle", "allow", "mark"}, key : Keys, since : Nat]

Idle == [pc |-> "idle", key |-> CHOOSE k \in Keys : TRUE, since |-> 0]

\* An upgrade that passed: the instant its handler read, and the true one.
Passage == [now : Nat, at : Nat]

-----------------------------------------------------------------------------
\* The handler answers, or goes on from the limiter to the dedup cache.
Answer(p) == post' = [post EXCEPT ![p] = Idle]
Passed(p) == post' = [post EXCEPT ![p].pc = "mark", ![p].since = clock]

\* A plausible bug: the instant an entry expires it still counts.
LiveTooLong(a, now) == {i \in history[a] : now <= spent[a][i].now + Window}

\* t.After(now.Add(-window)).
Live(a, now) == {i \in history[a] : now < spent[a][i].now + Window}

\* kept[0] is the entry that was appended first.
First(indices) == CHOOSE i \in indices : \A j \in indices : i <= j

\* The whole seconds nearest to a duration: two when it lies half way.
Nearest(d) ==
  {w \in 0..(d + Second) : w % Second = 0 /\ 2 * w <= 2 * d + Second /\ 2 * d <= 2 * w + Second}

\* What a refusal says: its Retry-After, in which %.0f takes the even second
\* half way, and its text, in which Round takes the later one.
Told(d) == {w \in Nearest(d) : w % (2 * Second) = 0 \/ \A v \in Nearest(d) : v <= w}

\* When the caller comes back if it waits as long as it is told, from kept[0]
\* and the instant it was refused.
RetryAt(a, now) == {clock + w : w \in Told(spent[a][First(Live(a, now))].now + Window - now)}

-----------------------------------------------------------------------------
Init ==
  /\ post = [p \in Posts |-> Idle]
  /\ spent = [a \in Agents |-> <<>>]
  /\ history = [a \in Agents |-> {}]
  /\ seen = {}
  /\ passed = [k \in Keys |-> {}]
  /\ advice = [a \in Agents |-> {}]
  /\ clock = 0 /\ crashes = 0

\* createRequest of a valid upgrade request, as far as the guards.
Post(p) ==
  /\ post[p].pc = "idle"
  /\ \E k \in Keys : post' = [post EXCEPT ![p] = [pc |-> "allow", key |-> k, since |-> clock]]
  /\ UNCHANGED <<spent, history, seen, passed, advice, clock, crashes>>

\* A plausible bug: the instants are kept by the time they were read, and one
\* that is older than the newest is not recorded.
AllowForgettingLate(p) ==
  LET a == post[p].key[1] IN
  /\ post[p].pc = "allow"
  /\ \E now \in post[p].since..clock :
       /\ Cardinality(Live(a, now)) < Limit
       /\ spent' = [spent EXCEPT ![a] = Append(@, [now |-> now, at |-> clock])]
       /\ history' = [history EXCEPT ![a] =
            IF \E i \in Live(a, now) : spent[a][i].now >= now THEN Live(a, now)
            ELSE Live(a, now) \cup {Len(spent[a]) + 1}]
       /\ advice' = [advice EXCEPT ![a] = {}]
       /\ Passed(p)
  /\ UNCHANGED <<seen, passed, clock, crashes>>

\* rateLimiter.allow.  A refusal does not store what it filtered.
Allow(p) ==
  LET a == post[p].key[1] IN
  /\ post[p].pc = "allow"
  /\ \E now \in post[p].since..clock :
       LET live == Live(a, now) IN
       IF Cardinality(live) >= Limit
       THEN /\ advice' = [advice EXCEPT ![a] = RetryAt(a, now)]
            /\ Answer(p)
            /\ UNCHANGED <<spent, history>>
       ELSE /\ spent' = [spent EXCEPT ![a] = Append(@, [now |-> now, at |-> clock])]
            /\ history' = [history EXCEPT ![a] = live \cup {Len(spent[a]) + 1}]
            /\ advice' = [advice EXCEPT ![a] = {}]
            /\ Passed(p)
  /\ UNCHANGED <<seen, passed, clock, crashes>>

\* A plausible bug: the cache forgets what was marked before this instant.
MarkForgetting(p) ==
  LET k == post[p].key IN
  /\ post[p].pc = "mark" /\ Answer(p)
  /\ \E now \in post[p].since..clock :
       LET fresh == {e \in seen : now <= e.now} IN
       IF \E e \in fresh : e.key = k
       THEN seen' = fresh /\ UNCHANGED passed
       ELSE /\ seen' = fresh \cup {[key |-> k, now |-> now]}
            /\ passed' = [passed EXCEPT ![k] = {clock}]
  /\ UNCHANGED <<spent, history, advice, clock, crashes>>

\* reasonDedupCache.markIfFresh.  Whatever becomes of the request after it,
\* a failed save included, leaves both guards as they are.
Mark(p) ==
  LET k == post[p].key IN
  /\ post[p].pc = "mark" /\ Answer(p)
  /\ \E now \in post[p].since..clock :
       LET fresh == {e \in seen : now <= e.now + DedupWindow} IN
       IF \E e \in fresh : e.key = k
       THEN seen' = fresh /\ UNCHANGED passed
       ELSE /\ seen' = fresh \cup {[key |-> k, now |-> now]}
            /\ passed' = [passed EXCEPT ![k] = {clock}]
  /\ UNCHANGED <<spent, history, advice, clock, crashes>>

\* The daemon dies and is started again: upgradeGuards makes empty guards.
Crash ==
  /\ crashes < MaxCrashes /\ crashes' = crashes + 1
  /\ post' = [p \in Posts |-> Idle]
  /\ spent' = [a \in Agents |-> <<>>]
  /\ history' = [a \in Agents |-> {}]
  /\ seen' = {} /\ passed' = [k \in Keys |-> {}]
  /\ advice' = [a \in Agents |-> {}]
  /\ UNCHANGED clock

\* Time passes, but no handler waits longer than Skew.
Tick ==
  /\ clock < MaxClock /\ clock' = clock + 1
  /\ \A p \in Posts : post[p].pc \in {"allow", "mark"} => clock < post[p].since + Skew
  /\ UNCHANGED <<post, spent, history, seen, passed, advice, crashes>>

Next == \/ \E p \in Posts : Post(p) \/ Allow(p) \/ Mark(p)
        \/ Crash \/ Tick

Spec == Init /\ [][Next]_vars
-----------------------------------------------------------------------------
\* Every variable holds a value of its kind, and the limiter's history points
\* to upgrades that passed; the dedup cache has one entry for a justification.
TypeOK ==
  /\ post \in [Posts -> Handler]
  /\ spent \in [Agents -> Seq(Passage)]
  /\ history \in [Agents -> SUBSET Nat]
  /\ \A a \in Agents : history[a] \subseteq DOMAIN spent[a]
  /\ seen \subseteq [key : Keys, now : Nat]
  /\ \A e, f \in seen : e.key = f.key => e = f
  /\ passed \in [Keys -> SUBSET Nat]
  /\ advice \in [Agents -> SUBSET Nat]
  /\ clock \in Nat /\ crashes \in Nat

\* allow filters its history in place and stores the result only when it
\* lets the request pass; that is sound because a history never exceeds the
\* limit, so that a refusal filters nothing out.
RefusalFiltersNothing ==
  \A a \in Agents : \A now \in 0..clock :
    Cardinality(Live(a, now)) >= Limit => Live(a, now) = history[a]

\* "enforces an N-per-hour cap per agent": between two daemon starts no agent
\* gets more than Limit upgrades past the limiter within a window, up to the
\* time a handler waits for the mutex and however handlers overtake each other.
QuotaKept ==
  \A a \in Agents : \A i \in DOMAIN spent[a] :
    i + Limit \in DOMAIN spent[a] => spent[a][i + Limit].at + Skew >= spent[a][i].at + Window

\* The limiter's slice holds what it must, and no agent exceeds its quota by
\* more than the wait for the mutex explains.
LimitsSound == TypeOK /\ RefusalFiltersNothing /\ QuotaKept

\* Retry-After is rounded to whole seconds, down as well as up.  Unless another
\* upgrade passed since, an agent that waits as told and half a second more is
\* below its limit, and one that comes earlier than half a second and two waits
\* for the mutex before is refused again.
RetryHonest ==
  \A a \in Agents : \A t \in advice[a] :
    /\ 2 * clock >= 2 * t + Second => Cardinality(Live(a, clock)) < Limit
    /\ 2 * clock + Second + 4 * Skew < 2 * t => Cardinality(Live(a, clock)) >= Limit

\* A justification passes the dedup cache again only when its window is over,
\* up to the time a handler waits for the mutex.
DuplicatesApart ==
  [][\A k \in Keys : \A t \in passed[k] :
       passed'[k] # passed[k] /\ crashes' = crashes => clock + Skew > t + DedupWindow]_vars
=============================================================================
