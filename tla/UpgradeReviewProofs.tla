------------------------- MODULE UpgradeReviewProofs -------------------------
(***************************************************************************)
(* The invariants of UpgradeReview for every number of requests, tabs,     *)
(* browsers, terminals and other clients, and every configuration.         *)
(***************************************************************************)
EXTENDS UpgradeReview, FiniteSetTheorems, TLAPS

Types ==
  /\ config \in Configs
  /\ status \in [Requests -> {"absent", "pending", "decided"}]
  /\ outcome \in [Requests -> Decision \cup {None}]
  /\ cookie \in [Browsers -> Tokens \cup {0}]
  /\ tab \in [Tabs -> Tab] /\ cli \in [Clis -> Cli]
  /\ shown \subseteq Actors \X Requests /\ audit \subseteq Actors \X Requests
  /\ restarts \in 0..MaxRestarts /\ failures \in 0..MaxFailures

\* Two tabs never have the same token.
TokensApart == \A t, u \in Tabs : t # u /\ tab[t].token # 0 => tab[t].token # tab[u].token

\* Those who may decide as o says.
Entitled(o) ==
  \/ /\ o.by \in Signers
     /\ o.by \in o.under.keys \/ (o.under.keys = {} /\ o.under.unsigned)
  \/ /\ o.by \in Actors
     /\ \/ o.under.anonymous /\ o.under.approvers = {}
        \/ /\ \E n \in o.under.approvers : Folded[n] = Folded[o.as]
           /\ o.as # Anonymous
           /\ Address[o.by] # Loopback => Address[o.by] \in o.under.sources

RequestOK(r) ==
  /\ status[r] = "decided" <=> outcome[r] # None
  /\ outcome[r] # None => /\ outcome[r].by \in Reviewers => <<outcome[r].by, r>> \in shown
                          /\ Entitled(outcome[r])

Lone(t) == \A u \in Tabs \ {t} : BrowserOf[u] # BrowserOf[t]

HasForm(t) == (tab[t].pc = "page" /\ tab[t].form) \/ tab[t].pc \in {"posting", "unknown"}

\* What a page shows and what its answer says; the browser of a lone tab has
\* the cookie of the form it shows.
TabOK(t) ==
  /\ tab[t].pc # "blank" => tab[t].req \in Requests /\ status[tab[t].req] # "absent"
  /\ HasForm(t) => <<t, tab[t].req>> \in shown
  /\ tab[t].pc \in {"posting", "unknown"} => tab[t].mode \in Modes
  /\ tab[t].answer # None => tab[t].pc = "page" /\ ~tab[t].form
  /\ tab[t].answer = "applied" =>
       /\ outcome[tab[t].req] # None
       /\ outcome[tab[t].req].by = t /\ outcome[tab[t].req].mode = tab[t].mode
  /\ tab[t].answer = "already" => outcome[tab[t].req] # None
  /\ tab[t].answer \in {"csrf", "unauthorized"} => <<t, tab[t].req>> \in audit \/ failures > 0
  /\ tab[t].answer = "failed" => failures > 0
  /\ Lone(t) =>
       /\ tab[t].pc = "arriving" => tab[t].token # 0
       /\ HasForm(t) => tab[t].token # 0 /\ cookie[BrowserOf[t]] = tab[t].token
       /\ tab[t].pc = "posting" => tab[t].sent = tab[t].token
       /\ tab[t].answer # "csrf"

CliOK(c) ==
  /\ cli[c].pc \in {"ask", "post"} => cli[c].req \in Requests /\ <<c, cli[c].req>> \in shown
  /\ cli[c].pc = "post" => cli[c].mode \in Modes

RInv ==
  /\ Types /\ TokensApart
  /\ \A r \in Requests : RequestOK(r)
  /\ \A t \in Tabs : TabOK(t)
  /\ \A c \in Clis : CliOK(c)

\* What no step takes back.
Kept ==
  /\ shown \subseteq shown' /\ audit \subseteq audit' /\ failures \in Nat /\ failures' \in Nat
  /\ failures <= failures'
  /\ \A r \in Requests : /\ status[r] # "absent" => status'[r] # "absent"
                         /\ outcome[r] # None => outcome'[r] = outcome[r]
-----------------------------------------------------------------------------
\* There are more tokens than browsers and tabs can hold.
LEMMA Fresh ==
  ASSUME Types
  PROVE  /\ FreshToken \in Tokens
         /\ \A t \in Tabs : FreshToken # tab[t].token
<1> USE UpgradeReviewAssumption
<1> DEFINE cookies == {cookie[b] : b \in Browsers}
           tokens  == {tab[t].token : t \in Tabs}
           sents   == {tab[t].sent : t \in Tabs}
           held    == cookies \cup (tokens \cup sents)
<1>1. IsFiniteSet(Browsers)
  <2>1. [t \in Tabs |-> BrowserOf[t]] \in Surjection(Tabs, Browsers)
        BY DEF Surjection, Browsers
  <2> QED BY <2>1, FS_Surjection
<1>2. IsFiniteSet(cookies) /\ Cardinality(cookies) <= Cardinality(Browsers)
  <2>1. [b \in Browsers |-> cookie[b]] \in Surjection(Browsers, cookies)
        BY DEF Surjection
  <2> QED BY <1>1, <2>1, FS_Surjection
<1>3. IsFiniteSet(tokens) /\ Cardinality(tokens) <= Cardinality(Tabs)
  <2>1. [t \in Tabs |-> tab[t].token] \in Surjection(Tabs, tokens)
        BY DEF Surjection
  <2> QED BY <2>1, FS_Surjection
<1>4. IsFiniteSet(sents) /\ Cardinality(sents) <= Cardinality(Tabs)
  <2>1. [t \in Tabs |-> tab[t].sent] \in Surjection(Tabs, sents)
        BY DEF Surjection
  <2> QED BY <2>1, FS_Surjection
<1> HIDE DEF cookies, tokens, sents
<1>5. /\ Cardinality(Browsers) \in Nat /\ Cardinality(Tabs) \in Nat
      /\ Cardinality(cookies) \in Nat /\ Cardinality(tokens) \in Nat /\ Cardinality(sents) \in Nat
      BY <1>1, <1>2, <1>3, <1>4, FS_CardinalityType
<1>6. IsFiniteSet(tokens \cup sents) /\ Cardinality(tokens \cup sents) <= 2 * Cardinality(Tabs)
  <2>1. /\ IsFiniteSet(tokens \cup sents)
        /\ Cardinality(tokens \cup sents) =
             Cardinality(tokens) + Cardinality(sents) - Cardinality(tokens \cap sents)
        BY <1>3, <1>4, FS_Union
  <2>2. Cardinality(tokens \cap sents) \in Nat
        BY <1>3, FS_Intersection, FS_CardinalityType
  <2> QED BY <1>3, <1>4, <1>5, <2>1, <2>2
<1>7. IsFiniteSet(held) /\ Cardinality(held) <= Cardinality(Browsers) + 2 * Cardinality(Tabs)
  <2>1. /\ IsFiniteSet(held)
        /\ Cardinality(held) =
             Cardinality(cookies) + Cardinality(tokens \cup sents) - Cardinality(cookies \cap (tokens \cup sents))
        BY <1>2, <1>6, FS_Union
  <2>2. Cardinality(cookies \cap (tokens \cup sents)) \in Nat
        BY <1>2, FS_Intersection, FS_CardinalityType
  <2>3. Cardinality(tokens \cup sents) \in Nat
        BY <1>6, FS_CardinalityType
  <2> QED BY <1>2, <1>5, <1>6, <2>1, <2>2, <2>3
<1>8. Cardinality(Tokens) = Cardinality(Browsers) + 2 * Cardinality(Tabs) + 1 /\ Tokens \subseteq Nat
  <2> DEFINE n == Cardinality(Browsers) + 2 * Cardinality(Tabs) + 1
  <2>1. n \in Nat /\ n >= 1
        BY <1>5
  <2> HIDE DEF n
  <2>2. Cardinality(1..n) = n
        BY <2>1, FS_Interval
  <2> QED BY <2>1, <2>2 DEF n, Tokens
<1>9. \E k \in Tokens : k \notin held
  <2> SUFFICES ASSUME Tokens \subseteq held PROVE FALSE
      OBVIOUS
  <2>1. Cardinality(Tokens) <= Cardinality(held)
        BY <1>7, FS_Subset
  <2>2. Cardinality(held) \in Nat
        BY <1>7, FS_CardinalityType
  <2> QED BY <1>5, <1>7, <1>8, <2>1, <2>2
<1>10. \E k \in Tokens : /\ \A b \in Browsers : cookie[b] # k
                         /\ \A t \in Tabs : k \notin {tab[t].token, tab[t].sent}
      BY <1>9 DEF cookies, tokens, sents
<1> QED BY <1>10 DEF FreshToken

\* Initially there is nothing.
LEMMA InitRInv == Init => RInv
<1> SUFFICES ASSUME Init PROVE RInv
    OBVIOUS
<1> USE UpgradeReviewAssumption DEF Init
<1>1. Types
      BY DEF Types, Tab, BlankTab, Cli
<1>2. TokensApart
      BY DEF TokensApart, BlankTab
<1>3. \A r \in Requests : RequestOK(r)
      BY DEF RequestOK
<1>4. \A t \in Tabs : TabOK(t)
      BY DEF TabOK, BlankTab, HasForm, Answers
<1>5. \A c \in Clis : CliOK(c)
      BY DEF CliOK
<1> QED BY <1>1, <1>2, <1>3, <1>4, <1>5 DEF RInv

\* A tab that does not move, and whose cookie is as it was, stays right.
LEMMA KeepTab ==
  ASSUME Types, Kept, NEW t \in Tabs, TabOK(t), tab'[t] = tab[t],
         Lone(t) => cookie'[BrowserOf[t]] = cookie[BrowserOf[t]]
  PROVE  TabOK(t)'
<1>1. tab[t].answer # None => tab[t].req \in Requests
      BY DEF TabOK
<1>2. UpgradeReviewAssumption
      BY UpgradeReviewAssumption
<1>3. tab[t].answer \in Answers => tab[t].req \in Requests
      BY <1>1, <1>2 DEF UpgradeReviewAssumption
<1> QED BY <1>3 DEF TabOK, Kept, HasForm, Lone, Answers

\* A terminal that does not move stays right.
LEMMA KeepCli ==
  ASSUME Kept, NEW c \in Clis, CliOK(c), cli'[c] = cli[c]
  PROVE  CliOK(c)'
BY DEF CliOK, Kept

\* A request that is not decided by the step stays right.
LEMMA KeepRequest ==
  ASSUME Kept, NEW r \in Requests, RequestOK(r), outcome'[r] = outcome[r],
         status'[r] = "decided" <=> status[r] = "decided"
  PROVE  RequestOK(r)'
BY DEF RequestOK, Kept

\* The actor's name, and the decision it makes, have their types.
LEMMA RecordType ==
  ASSUME Types, NEW a \in Actors, NEW mode \in Modes
  PROVE  [by |-> a, mode |-> mode, as |-> Operator(a), under |-> config] \in Decision
<1>1. Operator(a) \in DOMAIN Folded \cup {Anonymous}
      BY UpgradeReviewAssumption DEF UpgradeReviewAssumption, Operator
<1> QED BY <1>1 DEF Types, Decision

\* A decision that is recorded is authorized, and is the only change.
LEMMA RecordStep ==
  ASSUME RInv, NEW a \in Actors, NEW r \in Requests, NEW mode \in Modes,
         status[r] = "pending", Authorized(a), a \in Reviewers => <<a, r>> \in shown,
         shown' = shown, Record(a, r, mode)
  PROVE  /\ status' \in [Requests -> {"absent", "pending", "decided"}]
         /\ outcome' \in [Requests -> Decision \cup {None}]
         /\ \A q \in Requests : /\ status[q] # "absent" => status'[q] # "absent"
                                /\ outcome[q] # None => outcome'[q] = outcome[q]
                                /\ RequestOK(q)'
         /\ outcome'[r] # None /\ outcome'[r].by = a /\ outcome'[r].mode = mode
<1> DEFINE rec == [by |-> a, mode |-> mode, as |-> Operator(a), under |-> config]
<1>1. rec \in Decision /\ rec # None
      BY RecordType, UpgradeReviewAssumption DEF RInv, UpgradeReviewAssumption
<1>2. status \in [Requests -> {"absent", "pending", "decided"}] /\ outcome \in [Requests -> Decision \cup {None}]
      BY DEF RInv, Types
<1>3. /\ status' = [status EXCEPT ![r] = "decided"] /\ outcome' = [outcome EXCEPT ![r] = rec]
      BY DEF Record
<1>4. outcome[r] = None
      BY DEF RInv, RequestOK
<1>5. Entitled(rec)
      BY DEF Entitled, Authorized, EscapeHatch, SourceAllowed
<1>6. rec.by = a /\ rec.mode = mode
      OBVIOUS
<1> HIDE DEF rec
<1>7. ASSUME NEW q \in Requests PROVE RequestOK(q)'
  <2>1. CASE q = r
    <3>1. status'[q] = "decided" /\ outcome'[q] = rec
          BY <1>2, <1>3, <2>1
    <3> QED BY <1>1, <1>5, <1>6, <2>1, <3>1 DEF RequestOK
  <2>2. CASE q # r
    <3>1. status'[q] = status[q] /\ outcome'[q] = outcome[q] /\ RequestOK(q)
          BY <1>2, <1>3, <2>2 DEF RInv
    <3> QED BY <3>1 DEF RequestOK
  <2> QED BY <2>1, <2>2
<1>8. outcome'[r] = rec
      BY <1>2, <1>3
<1> QED BY <1>1, <1>2, <1>3, <1>4, <1>6, <1>7, <1>8

\* A failure is counted.
LEMMA FailStep ==
  ASSUME Types, Fail
  PROVE  failures \in Nat /\ failures' \in 0..MaxFailures /\ failures' > 0 /\ failures <= failures'
BY UpgradeReviewAssumption DEF UpgradeReviewAssumption, Types, Fail

\* What decidePermissionUpgrade answers is so.
LEMMA DecideStep ==
  ASSUME RInv, NEW a \in Actors, NEW r \in Requests, NEW mode \in Modes,
         NEW answer \in {"already", "failed", "applied"},
         Authorized(a), a \in Reviewers => <<a, r>> \in shown, shown' = shown, audit' = audit,
         Decide(a, r, mode, answer)
  PROVE  /\ Kept
         /\ status' \in [Requests -> {"absent", "pending", "decided"}]
         /\ outcome' \in [Requests -> Decision \cup {None}]
         /\ failures' \in 0..MaxFailures
         /\ \A q \in Requests : RequestOK(q)'
         /\ answer = "applied" => outcome'[r] # None /\ outcome'[r].by = a /\ outcome'[r].mode = mode
         /\ answer = "already" /\ status[r] # "absent" => outcome'[r] # None
         /\ answer = "failed" => failures' > 0
<1>0. /\ failures \in 0..MaxFailures /\ failures \in Nat /\ Types
      /\ status \in [Requests -> {"absent", "pending", "decided"}]
      /\ outcome \in [Requests -> Decision \cup {None}]
      /\ \A q \in Requests : RequestOK(q)
      BY UpgradeReviewAssumption DEF UpgradeReviewAssumption, RInv, Types
<1>1. CASE status[r] # "pending" /\ answer = "already" /\ UNCHANGED <<status, outcome, failures>>
  <2>1. \A q \in Requests : RequestOK(q)'
        BY <1>0, <1>1 DEF RequestOK
  <2>2. status[r] # "absent" => outcome'[r] # None
        BY <1>0, <1>1 DEF RequestOK
  <2> QED BY <1>0, <1>1, <2>1, <2>2 DEF Kept
<1>2. CASE status[r] = "pending" /\ answer = "failed" /\ Fail /\ UNCHANGED <<status, outcome>>
  <2>1. \A q \in Requests : RequestOK(q)'
        BY <1>0, <1>2 DEF RequestOK
  <2>2. failures' \in Nat
        BY <1>0, <1>2, FailStep
  <2> QED BY <1>0, <1>2, <2>1, <2>2, FailStep DEF Kept
<1>3. CASE status[r] = "pending" /\ Record(a, r, mode) /\ answer = "applied" /\ UNCHANGED failures
      BY <1>0, <1>3, RecordStep DEF Kept
<1>4. CASE status[r] = "pending" /\ Record(a, r, mode) /\ answer = "failed" /\ Fail
  <2>2. failures' \in Nat
        BY <1>0, <1>4, FailStep
  <2> QED BY <1>0, <1>4, <2>2, RecordStep, FailStep DEF Kept
<1> QED BY <1>1, <1>2, <1>3, <1>4 DEF Decide

\* A refused attempt is recorded, or the disk fails.
LEMMA RefusedStep ==
  ASSUME RInv, NEW a \in Actors, NEW r \in Requests, shown' = shown, Refused(a, r)
  PROVE  /\ Kept /\ UNCHANGED <<status, outcome>>
         /\ audit' \subseteq Actors \X Requests
         /\ failures' \in 0..MaxFailures
         /\ \A q \in Requests : RequestOK(q)'
         /\ <<a, r>> \in audit' \/ failures' > 0
<1>0. /\ failures \in 0..MaxFailures /\ failures \in Nat /\ Types /\ audit \subseteq Actors \X Requests
      /\ \A q \in Requests : RequestOK(q)
      BY UpgradeReviewAssumption DEF UpgradeReviewAssumption, RInv, Types
<1>1. UNCHANGED <<status, outcome>>
      BY DEF Refused
<1>2. \A q \in Requests : RequestOK(q)'
      BY <1>0, <1>1 DEF RequestOK
<1>3. CASE audit' = audit \cup {<<a, r>>} /\ UNCHANGED failures
      BY <1>0, <1>1, <1>2, <1>3 DEF Kept
<1>4. CASE Fail /\ UNCHANGED audit
  <2>1. failures' \in Nat
        BY <1>0, <1>4, FailStep
  <2> QED BY <1>0, <1>1, <1>2, <1>4, <2>1, FailStep DEF Kept
<1> QED BY <1>3, <1>4 DEF Refused
-----------------------------------------------------------------------------
\* A step of one tab leaves the others, and the terminals, right.
LEMMA TabStep ==
  ASSUME RInv, Kept, Types', \A r \in Requests : RequestOK(r)',
         NEW t \in Tabs, TabOK(t)', \A u \in Tabs \ {t} : tab'[u] = tab[u],
         \A b \in Browsers \ {BrowserOf[t]} : cookie'[b] = cookie[b], cli' = cli,
         \/ tab'[t].token \in {0, tab[t].token}
         \/ \A u \in Tabs : tab'[t].token # tab[u].token
  PROVE  RInv'
<1>1. ASSUME NEW u \in Tabs PROVE TabOK(u)'
  <2>1. CASE u = t
        BY <2>1
  <2>2. CASE u # t
    <3>1. Lone(u) => BrowserOf[u] # BrowserOf[t]
          BY <2>2 DEF Lone
    <3>2. BrowserOf[u] \in Browsers
          BY DEF Browsers
    <3> QED BY <2>2, <3>1, <3>2, KeepTab DEF RInv
  <2> QED BY <2>1, <2>2
<1>2. TokensApart'
      BY DEF RInv, TokensApart
<1>3. \A c \in Clis : CliOK(c)'
      BY KeepCli DEF RInv
<1> QED BY <1>1, <1>2, <1>3 DEF RInv

\* A step of one terminal leaves the others, and the tabs, right.
LEMMA CliStep ==
  ASSUME RInv, Kept, Types', \A r \in Requests : RequestOK(r)',
         NEW c \in Clis, CliOK(c)', \A d \in Clis \ {c} : cli'[d] = cli[d],
         UNCHANGED <<tab, cookie>>
  PROVE  RInv'
<1>1. \A t \in Tabs : TabOK(t)'
      BY KeepTab DEF RInv
<1>2. TokensApart'
      BY DEF RInv, TokensApart
<1>3. \A d \in Clis : CliOK(d)'
      BY KeepCli DEF RInv
<1> QED BY <1>1, <1>2, <1>3 DEF RInv

\* A step that decides nothing takes nothing back.
LEMMA QuietStep ==
  ASSUME RInv, UNCHANGED <<outcome, audit, failures>>, shown \subseteq shown',
         \A r \in Requests : /\ status'[r] = "decided" <=> status[r] = "decided"
                             /\ status[r] # "absent" => status'[r] # "absent"
  PROVE  Kept /\ \A r \in Requests : RequestOK(r)'
<1>1. Kept
      BY UpgradeReviewAssumption DEF UpgradeReviewAssumption, RInv, Types, Kept
<1> QED BY <1>1, KeepRequest DEF RInv

\* A failure that decides nothing takes nothing back.
LEMMA QuietFailure ==
  ASSUME RInv, UNCHANGED <<status, outcome, audit, shown>>, Fail
  PROVE  Kept /\ failures' \in 0..MaxFailures /\ \A r \in Requests : RequestOK(r)'
<1>1. Kept
      BY FailStep, UpgradeReviewAssumption DEF UpgradeReviewAssumption, RInv, Types, Kept
<1>2. failures' \in 0..MaxFailures
      BY FailStep DEF RInv
<1> QED BY <1>1, <1>2, KeepRequest DEF RInv

\* A new request is not decided.
LEMMA CreateStep == ASSUME RInv, NEW r \in Requests, Create(r) PROVE RInv'
<1>1. status \in [Requests -> {"absent", "pending", "decided"}]
      BY DEF RInv, Types
<1>2. Kept /\ \A q \in Requests : RequestOK(q)'
      BY <1>1, QuietStep DEF Create
<1>3. Types'
      BY <1>1 DEF RInv, Types, Create
<1>4. \A t \in Tabs : TabOK(t)'
      BY <1>2, KeepTab DEF RInv, Create
<1>5. \A c \in Clis : CliOK(c)'
      BY <1>2, KeepCli DEF RInv, Create
<1>6. TokensApart'
      BY DEF RInv, TokensApart, Create
<1> QED BY <1>2, <1>3, <1>4, <1>5, <1>6 DEF RInv

\* A tab that is opened anew shows nothing.
LEMMA OpenStep == ASSUME RInv, NEW t \in Tabs, NEW r \in Requests, Open(t, r) PROVE RInv'
<1>1. Kept /\ \A q \in Requests : RequestOK(q)'
      BY QuietStep DEF Open
<1>2. tab \in [Tabs -> Tab]
      BY DEF RInv, Types
<1>3. tab' = [tab EXCEPT ![t] = [BlankTab EXCEPT !.pc = "loading", !.req = r]]
      BY DEF Open
<1>4. [BlankTab EXCEPT !.pc = "loading", !.req = r] \in Tab
      BY DEF BlankTab, Tab
<1>5. Types'
      BY <1>2, <1>3, <1>4 DEF RInv, Types, Open
<1>6. tab'[t] = [BlankTab EXCEPT !.pc = "loading", !.req = r]
      BY <1>2, <1>3
<1>7. TabOK(t)'
  <2>1. tab'[t].pc = "loading" /\ tab'[t].req = r /\ tab'[t].answer = None
        BY <1>6 DEF BlankTab
  <2>2. None \notin Answers
        BY UpgradeReviewAssumption DEF UpgradeReviewAssumption
  <2>3. ~HasForm(t)' /\ status'[r] # "absent"
        BY <2>1 DEF HasForm, Open
  <2> QED BY <2>1, <2>2, <2>3 DEF TabOK, Answers
<1>8. tab'[t].token = 0
      BY <1>6 DEF BlankTab
<1> QED BY <1>1, <1>2, <1>3, <1>5, <1>7, <1>8, TabStep DEF Open

\* A page has a token of its own.
LEMMA ServeStep == ASSUME RInv, NEW t \in Tabs, Serve(t) PROVE RInv'
<1>1. Kept /\ \A q \in Requests : RequestOK(q)'
      BY QuietStep DEF Serve
<1>2. tab \in [Tabs -> Tab] /\ TabOK(t)
      BY DEF RInv, Types
<1>3. FreshToken \in Tokens /\ \A u \in Tabs : FreshToken # tab[u].token
      BY Fresh DEF RInv
<1>4. tab' = [tab EXCEPT ![t] = [tab[t] EXCEPT !.pc = "arriving", !.token = FreshToken,
                                                !.form = status[tab[t].req] = "pending"]]
      BY <1>2 DEF Serve
<1>5. tab'[t] = [tab[t] EXCEPT !.pc = "arriving", !.token = FreshToken,
                               !.form = status[tab[t].req] = "pending"]
      BY <1>2, <1>4
<1>6. tab'[t] \in Tab
      BY <1>2, <1>3, <1>5 DEF Tab
<1>7. Types'
      BY <1>2, <1>4, <1>5, <1>6 DEF RInv, Types, Serve
<1>8. FreshToken # 0
      BY <1>3 DEF Tokens
<1>9. TabOK(t)'
      BY <1>2, <1>5, <1>8, UpgradeReviewAssumption
      DEF UpgradeReviewAssumption, TabOK, HasForm, Answers, Serve, Tab
<1>10. tab'[t].token = FreshToken
      BY <1>2, <1>5 DEF Tab
<1> QED BY <1>1, <1>2, <1>3, <1>4, <1>7, <1>9, <1>10, TabStep DEF Serve

\* The cookie of the page that arrives is that of its form.
LEMMA ArriveStep == ASSUME RInv, NEW t \in Tabs, Arrive(t) PROVE RInv'
<1>1. Kept /\ \A q \in Requests : RequestOK(q)'
      BY QuietStep DEF Arrive
<1>2. tab \in [Tabs -> Tab] /\ TabOK(t) /\ cookie \in [Browsers -> Tokens \cup {0}]
      BY DEF RInv, Types
<1>3. tab' = [tab EXCEPT ![t] = [tab[t] EXCEPT !.pc = "page"]]
      BY <1>2 DEF Arrive
<1>4. tab'[t] = [tab[t] EXCEPT !.pc = "page"]
      BY <1>2, <1>3
<1>5. tab'[t] \in Tab
      BY <1>2, <1>4 DEF Tab
<1>6. BrowserOf[t] \in Browsers /\ tab[t].req \in Requests
      BY <1>2 DEF Browsers, TabOK, Arrive
<1>7. shown' \subseteq Actors \X Requests
      BY <1>6 DEF RInv, Types, Arrive, Actors, Reviewers
<1>8. cookie' \in [Browsers -> Tokens \cup {0}] /\ cookie'[BrowserOf[t]] = tab[t].token
      BY <1>2, <1>6 DEF Arrive, Tab
<1>9. Types'
      BY <1>2, <1>3, <1>5, <1>7, <1>8 DEF RInv, Types, Arrive
<1>10. TabOK(t)'
  <2>1. /\ tab'[t].pc = "page" /\ tab'[t].req = tab[t].req /\ tab'[t].form = tab[t].form
        /\ tab'[t].token = tab[t].token /\ tab'[t].answer = tab[t].answer
        BY <1>2, <1>4 DEF Tab
  <2>2. tab[t].answer = None
        BY <1>2 DEF TabOK, Arrive
  <2>3. tab[t].form => <<t, tab[t].req>> \in shown'
        BY DEF Arrive
  <2> QED BY <1>2, <1>6, <1>8, <2>1, <2>2, <2>3, UpgradeReviewAssumption
          DEF UpgradeReviewAssumption, TabOK, HasForm, Answers, Arrive, Lone
<1> QED BY <1>1, <1>2, <1>3, <1>4, <1>6, <1>9, <1>10, TabStep DEF Arrive, Tab

\* A page that is lost leaves a blank tab.
LEMMA LosePageStep == ASSUME RInv, NEW t \in Tabs, LosePage(t) PROVE RInv'
<1>1. Kept /\ failures' \in 0..MaxFailures /\ \A q \in Requests : RequestOK(q)'
      BY QuietFailure DEF LosePage
<1>2. tab \in [Tabs -> Tab] /\ cookie \in [Browsers -> Tokens \cup {0}] /\ BlankTab \in Tab
      BY DEF RInv, Types, BlankTab, Tab
<1>3. cookie' \in [Browsers -> Tokens \cup {0}] /\ \A b \in Browsers \ {BrowserOf[t]} : cookie'[b] = cookie[b]
      BY <1>2 DEF LosePage, Tab
<1>4. tab'[t] = BlankTab /\ tab' \in [Tabs -> Tab]
      BY <1>2 DEF LosePage
<1>5. Types'
      BY <1>1, <1>3, <1>4 DEF RInv, Types, LosePage
<1>6. TabOK(t)'
  <2>1. None \notin Answers
        BY UpgradeReviewAssumption DEF UpgradeReviewAssumption
  <2> QED BY <1>4, <2>1 DEF TabOK, HasForm, BlankTab, Answers
<1>7. \A u \in Tabs \ {t} : tab'[u] = tab[u]
      BY <1>2 DEF LosePage
<1>8. tab'[t].token = 0
      BY <1>4 DEF BlankTab
<1> QED BY <1>1, <1>3, <1>5, <1>6, <1>7, <1>8, TabStep DEF LosePage

\* A post goes with the cookie of its browser.
LEMMA SubmitStep == ASSUME RInv, NEW t \in Tabs, NEW mode \in Modes, Submit(t, mode) PROVE RInv'
<1>1. Kept /\ \A q \in Requests : RequestOK(q)'
      BY QuietStep DEF Submit
<1>2. tab \in [Tabs -> Tab] /\ TabOK(t) /\ cookie \in [Browsers -> Tokens \cup {0}]
      BY DEF RInv, Types
<1>3. BrowserOf[t] \in Browsers
      BY DEF Browsers
<1>4. /\ tab'[t] = [tab[t] EXCEPT !.pc = "posting", !.mode = mode, !.sent = cookie[BrowserOf[t]]]
      /\ \A u \in Tabs \ {t} : tab'[u] = tab[u]
      BY <1>2 DEF Submit
<1>5. tab'[t] \in Tab
      BY <1>2, <1>3, <1>4 DEF Tab
<1>6. Types'
      BY <1>2, <1>5 DEF RInv, Types, Submit
<1>7. /\ tab'[t].pc = "posting" /\ tab'[t].mode = mode /\ tab'[t].sent = cookie[BrowserOf[t]]
      /\ tab'[t].req = tab[t].req /\ tab'[t].token = tab[t].token /\ tab'[t].answer = tab[t].answer
      BY <1>2, <1>4 DEF Tab
<1>8. TabOK(t)'
  <2>1. HasForm(t) /\ tab[t].pc # "blank" /\ tab[t].answer = None
        BY <1>2 DEF HasForm, Submit, TabOK
  <2>2. None \notin Answers
        BY UpgradeReviewAssumption DEF UpgradeReviewAssumption
  <2> QED BY <1>2, <1>7, <2>1, <2>2 DEF TabOK, HasForm, Answers, Lone, Submit
<1> QED BY <1>1, <1>4, <1>6, <1>7, <1>8, TabStep DEF Submit

\* The form of a page is answered with the truth, and the token of a lone tab
\* is right.
LEMMA HandleFormStep == ASSUME RInv, NEW t \in Tabs, HandleForm(t) PROVE RInv'
<1> DEFINE refusal == Refusal(t, Verified(tab[t].sent, tab[t].token))
<1>1. /\ tab \in [Tabs -> Tab] /\ TabOK(t) /\ tab[t].pc = "posting"
      /\ tab[t].req \in Requests /\ status[tab[t].req] # "absent" /\ tab[t].mode \in Modes
      /\ <<t, tab[t].req>> \in shown /\ t \in Actors /\ None \notin Answers
      BY UpgradeReviewAssumption
      DEF UpgradeReviewAssumption, RInv, Types, HandleForm, TabOK, HasForm, Actors, Reviewers
<1>2. /\ UNCHANGED <<config, cookie, cli, shown, restarts>>
      BY DEF HandleForm
<1>3. ASSUME NEW answer \in Answers, Told(t, answer)
      PROVE  /\ tab' \in [Tabs -> Tab] /\ \A u \in Tabs \ {t} : tab'[u] = tab[u]
             /\ tab'[t].pc = "page" /\ tab'[t].req = tab[t].req /\ tab'[t].mode = tab[t].mode
             /\ tab'[t].answer = answer /\ ~tab'[t].form /\ tab'[t].token = 0
  <2> DEFINE new == [BlankTab EXCEPT !.pc = "page", !.req = tab[t].req, !.mode = tab[t].mode, !.answer = answer]
  <2>1. new \in Tab
        BY <1>1 DEF BlankTab, Tab
  <2>2. tab' = [tab EXCEPT ![t] = new]
        BY <1>3 DEF Told
  <2>3. /\ new.pc = "page" /\ new.req = tab[t].req /\ new.mode = tab[t].mode
        /\ new.answer = answer /\ ~new.form /\ new.token = 0
        BY DEF BlankTab
  <2> HIDE DEF new
  <2> QED BY <1>1, <2>1, <2>2, <2>3
<1>4. CASE refusal # None /\ Told(t, refusal) /\ Refused(t, tab[t].req)
  <2>1. refusal \in Answers /\ refusal \in {"csrf", "unauthorized"}
        BY <1>4 DEF Refusal, Answers
  <2>2. /\ Kept /\ UNCHANGED <<status, outcome>> /\ audit' \subseteq Actors \X Requests
        /\ failures' \in 0..MaxFailures /\ \A q \in Requests : RequestOK(q)'
        /\ <<t, tab[t].req>> \in audit' \/ failures' > 0
        BY <1>1, <1>2, <1>4, RefusedStep
  <2>3. Lone(t) => refusal # "csrf"
        BY <1>1 DEF TabOK, HasForm, Refusal, Verified
  <2> HIDE DEF refusal
  <2>4. /\ tab' \in [Tabs -> Tab] /\ \A u \in Tabs \ {t} : tab'[u] = tab[u]
        /\ tab'[t].pc = "page" /\ tab'[t].req = tab[t].req /\ tab'[t].mode = tab[t].mode
        /\ tab'[t].answer = refusal /\ ~tab'[t].form /\ tab'[t].token = 0
        BY <1>3, <1>4, <2>1
  <2>5. Types'
        BY <1>2, <2>2, <2>4 DEF RInv, Types
  <2>6. TabOK(t)'
        BY <1>1, <2>1, <2>2, <2>3, <2>4 DEF TabOK, HasForm, Lone
  <2> QED BY <1>2, <2>2, <2>4, <2>5, <2>6, TabStep
<1>5. ASSUME refusal = None, UNCHANGED audit, NEW answer \in {"already", "failed", "applied"},
             Decide(t, tab[t].req, tab[t].mode, answer), Told(t, answer)
      PROVE  RInv'
  <2>1. Authorized(t)
        BY <1>5, <1>1 DEF Refusal, Answers
  <2>2. /\ Kept /\ failures' \in 0..MaxFailures /\ \A q \in Requests : RequestOK(q)'
        /\ status' \in [Requests -> {"absent", "pending", "decided"}]
        /\ outcome' \in [Requests -> Decision \cup {None}]
        /\ answer = "applied" => /\ outcome'[tab[t].req] # None /\ outcome'[tab[t].req].by = t
                                 /\ outcome'[tab[t].req].mode = tab[t].mode
        /\ answer = "already" => outcome'[tab[t].req] # None
        /\ answer = "failed" => failures' > 0
        BY <1>1, <1>2, <1>5, <2>1, DecideStep
  <2>3. /\ tab' \in [Tabs -> Tab] /\ \A u \in Tabs \ {t} : tab'[u] = tab[u]
        /\ tab'[t].pc = "page" /\ tab'[t].req = tab[t].req /\ tab'[t].mode = tab[t].mode
        /\ tab'[t].answer = answer /\ ~tab'[t].form /\ tab'[t].token = 0
        BY <1>3, <1>5 DEF Answers
  <2>4. Types'
        BY <1>2, <1>5, <2>2, <2>3 DEF RInv, Types
  <2>5. status'[tab[t].req] # "absent"
        BY <1>1, <2>2 DEF Kept
  <2>6. TabOK(t)'
        BY <1>1, <2>2, <2>3, <2>5 DEF TabOK, HasForm, Lone
  <2> QED BY <1>2, <2>2, <2>3, <2>4, <2>6, TabStep
<1> QED BY <1>4, <1>5 DEF HandleForm

\* A post whose answer is lost was handled like any other, or not at all.
LEMMA LoseAnswerStep == ASSUME RInv, NEW t \in Tabs, LoseAnswer(t) PROVE RInv'
<1>1. /\ tab \in [Tabs -> Tab] /\ TabOK(t) /\ tab[t].pc = "posting"
      /\ tab[t].req \in Requests /\ status[tab[t].req] # "absent" /\ tab[t].mode \in Modes
      /\ <<t, tab[t].req>> \in shown /\ t \in Actors /\ None \notin Answers
      BY UpgradeReviewAssumption
      DEF UpgradeReviewAssumption, RInv, Types, LoseAnswer, TabOK, HasForm, Actors, Reviewers
<1>2. UNCHANGED <<config, cookie, cli, shown, audit, restarts>> /\ Fail
      BY DEF LoseAnswer
<1>3. /\ failures \in Nat /\ failures' \in 0..MaxFailures /\ failures' \in Nat /\ failures <= failures'
      BY <1>2, FailStep DEF RInv
<1>4. /\ Kept /\ \A q \in Requests : RequestOK(q)'
      /\ status' \in [Requests -> {"absent", "pending", "decided"}]
      /\ outcome' \in [Requests -> Decision \cup {None}]
  <2>1. CASE UNCHANGED <<status, outcome>>
        BY <1>2, <2>1, QuietFailure DEF RInv, Types
  <2>2. CASE Authorized(t) /\ status[tab[t].req] = "pending" /\ Record(t, tab[t].req, tab[t].mode)
        BY <1>1, <1>2, <1>3, <2>2, RecordStep DEF Kept
  <2> QED BY <2>1, <2>2 DEF LoseAnswer
<1>5. /\ tab'[t] = [tab[t] EXCEPT !.pc = "unknown", !.sent = 0]
      /\ \A u \in Tabs \ {t} : tab'[u] = tab[u]
      BY <1>1 DEF LoseAnswer
<1>6. tab'[t] \in Tab
      BY <1>1, <1>5 DEF Tab
<1>7. Types'
      BY <1>1, <1>2, <1>3, <1>4, <1>6 DEF RInv, Types, LoseAnswer
<1>8. /\ tab'[t].pc = "unknown" /\ tab'[t].mode = tab[t].mode /\ tab'[t].req = tab[t].req
      /\ tab'[t].token = tab[t].token /\ tab'[t].answer = tab[t].answer
      BY <1>1, <1>5 DEF Tab
<1>9. tab[t].answer = None /\ HasForm(t)
      BY <1>1 DEF TabOK, HasForm
<1>10. status'[tab[t].req] # "absent" /\ <<t, tab[t].req>> \in shown'
      BY <1>1, <1>4 DEF Kept
<1>11. TabOK(t)'
      BY <1>1, <1>2, <1>8, <1>9, <1>10 DEF TabOK, HasForm, Answers, Lone
<1> QED BY <1>2, <1>4, <1>5, <1>7, <1>8, <1>11, TabStep

\* A post without a field is refused.
LEMMA PostWithoutFormStep ==
  ASSUME RInv, NEW t \in Tabs, NEW r \in Requests, NEW mode \in Modes, PostWithoutForm(t, r, mode)
  PROVE  RInv'
<1>1. UNCHANGED <<config, cookie, tab, cli, shown, restarts>>
      BY DEF PostWithoutForm
<1>2. "csrf" # None /\ t \in Actors
      BY UpgradeReviewAssumption DEF UpgradeReviewAssumption, Answers, Actors, Reviewers
<1>3. Refused(t, r)
  <2>1. \A sent : ~Verified(sent, 0)
        BY DEF Verified
  <2>2. \A sent : Refusal(t, Verified(sent, 0)) = "csrf"
        BY <2>1 DEF Refusal
  <2>3. PICK sent : LET refusal == Refusal(t, Verified(sent, 0)) IN
          (refusal # None /\ Refused(t, r)) \/ refusal = None
        BY DEF PostWithoutForm
  <2> QED BY <1>2, <2>2, <2>3
<1>4. /\ Kept /\ UNCHANGED <<status, outcome>> /\ audit' \subseteq Actors \X Requests
      /\ failures' \in 0..MaxFailures /\ \A q \in Requests : RequestOK(q)'
      BY <1>1, <1>2, <1>3, RefusedStep
<1>5. Types'
      BY <1>1, <1>4 DEF RInv, Types
<1>6. TabOK(t)'
      BY <1>1, <1>4, KeepTab DEF RInv
<1> QED BY <1>1, <1>4, <1>5, <1>6, TabStep
-----------------------------------------------------------------------------
\* The next card shows its request.
LEMMA GoStep ==
  ASSUME RInv, NEW c \in Clis, NEW rest \in SUBSET Requests, Go(c, rest)
  PROVE  /\ cli' \in [Clis -> Cli] /\ CliOK(c)' /\ \A d \in Clis \ {c} : cli'[d] = cli[d]
         /\ shown \subseteq shown' /\ shown' \subseteq Actors \X Requests
<1>1. cli \in [Clis -> Cli] /\ shown \subseteq Actors \X Requests
      BY DEF RInv, Types
<1>2. CASE /\ cli' = [cli EXCEPT ![c] = [pc |-> IF c \in Watching THEN "fetch" ELSE "done",
                                          queue |-> {}, req |-> None, mode |-> None]]
           /\ UNCHANGED shown
      BY <1>1, <1>2 DEF Cli, CliOK
<1>3. ASSUME NEW r \in rest,
             cli' = [cli EXCEPT ![c] = [pc |-> "ask", queue |-> rest \ {r}, req |-> r, mode |-> None]],
             shown' = shown \cup {<<c, r>>}
      PROVE  /\ cli' \in [Clis -> Cli] /\ CliOK(c)' /\ \A d \in Clis \ {c} : cli'[d] = cli[d]
             /\ shown \subseteq shown' /\ shown' \subseteq Actors \X Requests
      BY <1>1, <1>3 DEF Cli, CliOK, Actors, Reviewers
<1> QED BY <1>2, <1>3 DEF Go

\* The steps of a terminal that decide nothing.
LEMMA TerminalStep ==
  ASSUME RInv, NEW c \in Clis,
         Fetch(c) \/ Skip(c) \/ Quit(c) \/ Advance(c) \/ \E mode \in Modes : Choose(c, mode)
  PROVE  RInv'
<1>1. cli \in [Clis -> Cli] /\ CliOK(c) /\ cli[c].queue \in SUBSET Requests
      BY DEF RInv, Types, Cli
<1>2. CASE (Skip(c) \/ Advance(c)) \/ (Fetch(c) /\ UNCHANGED failures)
  <2>1. \E rest \in SUBSET Requests : Go(c, rest)
    <3>1. CASE Skip(c) \/ Advance(c)
          BY <1>1, <3>1 DEF Skip, Advance
    <3>2. CASE Fetch(c) /\ UNCHANGED failures
      <4>1. ~Fail
            BY <3>2, FailStep, UpgradeReviewAssumption DEF UpgradeReviewAssumption, RInv, Types, Fail
      <4> QED BY <3>2, <4>1 DEF Fetch
    <3> QED BY <1>2, <3>1, <3>2
  <2>2. /\ cli' \in [Clis -> Cli] /\ CliOK(c)' /\ \A d \in Clis \ {c} : cli'[d] = cli[d]
        /\ shown \subseteq shown' /\ shown' \subseteq Actors \X Requests
        BY <2>1, GoStep
  <2>3. UNCHANGED <<config, status, outcome, cookie, tab, audit, restarts, failures>>
        BY <1>2 DEF Skip, Advance, Fetch
  <2>4. Kept /\ \A q \in Requests : RequestOK(q)'
        BY <2>2, <2>3, QuietStep
  <2>5. Types'
        BY <2>2, <2>3 DEF RInv, Types
  <2> QED BY <2>2, <2>3, <2>4, <2>5, CliStep
<1>3. CASE Fetch(c) /\ Fail /\ cli' = [cli EXCEPT ![c].pc = "done"] /\ UNCHANGED shown
  <2>1. Kept /\ failures' \in 0..MaxFailures /\ \A q \in Requests : RequestOK(q)'
        BY <1>3, QuietFailure DEF Fetch
  <2>2. cli' \in [Clis -> Cli] /\ CliOK(c)' /\ \A d \in Clis \ {c} : cli'[d] = cli[d]
        BY <1>1, <1>3 DEF Cli, CliOK
  <2>3. Types'
        BY <1>3, <2>1, <2>2 DEF RInv, Types, Fetch
  <2> QED BY <1>3, <2>1, <2>2, <2>3, CliStep DEF Fetch
<1>4. CASE Quit(c)
  <2>1. Kept /\ \A q \in Requests : RequestOK(q)'
        BY <1>4, QuietStep DEF Quit
  <2>2. cli' \in [Clis -> Cli] /\ CliOK(c)' /\ \A d \in Clis \ {c} : cli'[d] = cli[d]
        BY <1>1, <1>4 DEF Cli, CliOK, Quit
  <2>3. Types'
        BY <1>4, <2>2 DEF RInv, Types, Quit
  <2> QED BY <1>4, <2>1, <2>2, <2>3, CliStep DEF Quit
<1>5. ASSUME NEW mode \in Modes, Choose(c, mode) PROVE RInv'
  <2>1. Kept /\ \A q \in Requests : RequestOK(q)'
        BY <1>5, QuietStep DEF Choose
  <2>2. cli' \in [Clis -> Cli] /\ CliOK(c)' /\ \A d \in Clis \ {c} : cli'[d] = cli[d]
    <3>1. /\ cli'[c] = [cli[c] EXCEPT !.pc = "post", !.mode = mode]
          /\ \A d \in Clis \ {c} : cli'[d] = cli[d]
          BY <1>1, <1>5 DEF Choose
    <3>2. cli[c] \in Cli
          BY <1>1
    <3>3. /\ cli'[c] \in Cli /\ cli'[c].pc = "post" /\ cli'[c].mode = mode /\ cli'[c].req = cli[c].req
          BY <3>1, <3>2 DEF Cli
    <3>4. cli' \in [Clis -> Cli]
          BY <1>1, <1>5, <3>3 DEF Choose
    <3>5. UNCHANGED shown /\ cli[c].pc = "ask"
          BY <1>5 DEF Choose
    <3> QED BY <1>1, <3>1, <3>3, <3>4, <3>5 DEF CliOK
  <2>3. Types'
        BY <1>5, <2>2 DEF RInv, Types, Choose
  <2> QED BY <1>5, <2>1, <2>2, <2>3, CliStep DEF Choose
<1>6. Fetch(c) => \/ UNCHANGED failures
                  \/ Fail /\ cli' = [cli EXCEPT ![c].pc = "done"] /\ UNCHANGED shown
      BY DEF Fetch
<1> QED BY <1>2, <1>3, <1>4, <1>5, <1>6

\* A decision of the JSON API is of a request whose card was shown.
LEMMA HandleApiStep == ASSUME RInv, NEW c \in Clis, HandleApi(c) PROVE RInv'
<1>1. /\ cli \in [Clis -> Cli] /\ CliOK(c) /\ cli[c].pc = "post" /\ c \in Actors
      /\ cli[c].req \in Requests /\ cli[c].mode \in Modes /\ <<c, cli[c].req>> \in shown
      BY DEF RInv, Types, CliOK, HandleApi, Actors, Reviewers
<1>2. UNCHANGED <<config, cookie, tab, shown, restarts>>
      BY DEF HandleApi
<1>3. cli' \in [Clis -> Cli] /\ CliOK(c)' /\ \A d \in Clis \ {c} : cli'[d] = cli[d]
      BY <1>1 DEF Cli, CliOK, HandleApi
<1>4. CASE Refused(c, cli[c].req)
  <2>1. /\ Kept /\ UNCHANGED <<status, outcome>> /\ audit' \subseteq Actors \X Requests
        /\ failures' \in 0..MaxFailures /\ \A q \in Requests : RequestOK(q)'
        BY <1>1, <1>2, <1>4, RefusedStep
  <2>2. Types'
        BY <1>2, <1>3, <2>1 DEF RInv, Types
  <2> QED BY <1>2, <1>3, <2>1, <2>2, CliStep
<1>5. ASSUME Authorized(c), UNCHANGED audit, NEW answer \in {"already", "failed", "applied"},
             Decide(c, cli[c].req, cli[c].mode, answer)
      PROVE  RInv'
  <2>1. /\ Kept /\ failures' \in 0..MaxFailures /\ \A q \in Requests : RequestOK(q)'
        /\ status' \in [Requests -> {"absent", "pending", "decided"}]
        /\ outcome' \in [Requests -> Decision \cup {None}]
        BY <1>1, <1>2, <1>5, DecideStep
  <2>2. Types'
        BY <1>2, <1>3, <1>5, <2>1 DEF RInv, Types
  <2> QED BY <1>2, <1>3, <2>1, <2>2, CliStep
<1> QED BY <1>4, <1>5 DEF HandleApi

\* A step of a client that has neither tab nor terminal.
LEMMA OutsideStep ==
  ASSUME RInv, Kept, \A r \in Requests : RequestOK(r)',
         UNCHANGED <<config, cookie, tab, cli, shown, restarts>>,
         status' \in [Requests -> {"absent", "pending", "decided"}],
         outcome' \in [Requests -> Decision \cup {None}],
         audit' \subseteq Actors \X Requests, failures' \in 0..MaxFailures
  PROVE  RInv'
<1>1. Types' /\ TokensApart'
      BY DEF RInv, Types, TokensApart
<1>2. \A t \in Tabs : TabOK(t)'
      BY KeepTab DEF RInv
<1>3. \A c \in Clis : CliOK(c)'
      BY KeepCli DEF RInv
<1> QED BY <1>1, <1>2, <1>3 DEF RInv

\* A script decides like an operator, but need not have seen the request.
LEMMA PostByHandStep ==
  ASSUME RInv, NEW a \in Scripts, NEW r \in Requests, NEW mode \in Modes, PostByHand(a, r, mode)
  PROVE  RInv'
<1>1. a \in Actors /\ a \notin Reviewers
      BY UpgradeReviewAssumption DEF UpgradeReviewAssumption, Actors
<1>2. UNCHANGED <<config, cookie, tab, cli, shown, restarts>>
      BY DEF PostByHand
<1>3. CASE Refused(a, r)
  <2>1. /\ Kept /\ UNCHANGED <<status, outcome>> /\ audit' \subseteq Actors \X Requests
        /\ failures' \in 0..MaxFailures /\ \A q \in Requests : RequestOK(q)'
        BY <1>1, <1>2, <1>3, RefusedStep
  <2>2. /\ status' \in [Requests -> {"absent", "pending", "decided"}]
        /\ outcome' \in [Requests -> Decision \cup {None}]
        BY <2>1 DEF RInv, Types
  <2> QED BY <1>2, <2>1, <2>2, OutsideStep
<1>4. ASSUME Authorized(a), UNCHANGED audit, NEW answer \in {"already", "failed", "applied"},
             Decide(a, r, mode, answer)
      PROVE  RInv'
  <2>1. /\ Kept /\ failures' \in 0..MaxFailures /\ \A q \in Requests : RequestOK(q)'
        /\ status' \in [Requests -> {"absent", "pending", "decided"}]
        /\ outcome' \in [Requests -> Decision \cup {None}]
        BY <1>1, <1>2, <1>4, DecideStep
  <2>2. audit' \subseteq Actors \X Requests
        BY <1>4 DEF RInv, Types
  <2> QED BY <1>2, <2>1, <2>2, OutsideStep
<1> QED BY <1>3, <1>4 DEF PostByHand

\* A signed decision takes a pending request and no other.
LEMMA DecideSignedStep ==
  ASSUME RInv, NEW k \in Signers, NEW r \in Requests, DecideSigned(k, r)
  PROVE  RInv'
<1> DEFINE rec == [by |-> k, mode |-> None, as |-> Anonymous, under |-> config]
<1>1. rec \in Decision /\ rec # None /\ k \notin Reviewers
      BY UpgradeReviewAssumption DEF UpgradeReviewAssumption, RInv, Types, Decision, Actors
<1>2. /\ UNCHANGED <<config, cookie, tab, cli, shown, audit, restarts, failures>>
      /\ status[r] = "pending" /\ status' = [status EXCEPT ![r] = "decided"]
      /\ outcome' = [outcome EXCEPT ![r] = rec]
      BY DEF DecideSigned
<1>3. Entitled(rec) /\ rec.by = k
      BY DEF Entitled, DecideSigned, Signed
<1> HIDE DEF rec
<1>4. /\ status \in [Requests -> {"absent", "pending", "decided"}]
      /\ outcome \in [Requests -> Decision \cup {None}] /\ audit \subseteq Actors \X Requests
      /\ failures \in 0..MaxFailures /\ failures \in Nat /\ \A q \in Requests : RequestOK(q)
      BY UpgradeReviewAssumption DEF UpgradeReviewAssumption, RInv, Types
<1>5. ASSUME NEW q \in Requests PROVE RequestOK(q)'
  <2>1. CASE q = r
    <3>1. status'[q] = "decided" /\ outcome'[q] = rec
          BY <1>2, <1>4, <2>1
    <3> QED BY <1>1, <1>3, <3>1 DEF RequestOK
  <2>2. CASE q # r
    <3>1. status'[q] = status[q] /\ outcome'[q] = outcome[q] /\ RequestOK(q)
          BY <1>2, <1>4, <2>2
    <3> QED BY <1>2, <3>1 DEF RequestOK
  <2> QED BY <2>1, <2>2
<1>6. outcome[r] = None
      BY <1>2, <1>4 DEF RequestOK
<1>7. Kept
      BY <1>2, <1>4, <1>6 DEF Kept
<1>8. /\ status' \in [Requests -> {"absent", "pending", "decided"}]
      /\ outcome' \in [Requests -> Decision \cup {None}]
      BY <1>1, <1>2, <1>4
<1> QED BY <1>2, <1>4, <1>5, <1>7, <1>8, OutsideStep

\* A restart undoes nothing, and leaves forms and cookies as they are.
LEMMA RestartStep == ASSUME RInv, Restart PROVE RInv'
<1>1. /\ tab \in [Tabs -> Tab] /\ cli \in [Clis -> Cli] /\ BlankTab \in Tab /\ None \notin Answers
      BY UpgradeReviewAssumption DEF UpgradeReviewAssumption, RInv, Types, BlankTab, Tab
<1>2. Kept /\ \A q \in Requests : RequestOK(q)'
      BY QuietStep DEF Restart
<1>3. ASSUME NEW t \in Tabs PROVE TabOK(t)' /\ tab'[t] \in Tab /\ tab'[t].token \in {0, tab[t].token}
  <2>1. tab[t] \in Tab /\ TabOK(t)
        BY <1>1 DEF RInv
  <2>2. CASE tab[t].pc = "loading"
    <3>1. tab'[t] = BlankTab
          BY <2>2 DEF Restart
    <3> QED BY <1>1, <3>1 DEF TabOK, HasForm, BlankTab, Answers
  <2>3. CASE tab[t].pc = "posting"
    <3>1. tab'[t] = [tab[t] EXCEPT !.pc = "unknown", !.sent = 0]
          BY <2>3 DEF Restart
    <3>2. tab'[t] \in Tab
          BY <2>1, <3>1 DEF Tab
    <3>3. /\ tab'[t].pc = "unknown" /\ tab'[t].mode = tab[t].mode /\ tab'[t].req = tab[t].req
          /\ tab'[t].token = tab[t].token /\ tab'[t].answer = tab[t].answer
          BY <2>1, <3>1 DEF Tab
    <3>4. tab[t].answer = None /\ HasForm(t)
          BY <2>1, <2>3 DEF TabOK, HasForm
    <3>5. TabOK(t)'
      <4>1. UNCHANGED <<status, outcome, cookie, shown, audit, failures>>
            BY DEF Restart
      <4> QED BY <1>1, <2>1, <2>3, <3>3, <3>4, <4>1 DEF TabOK, HasForm, Answers, Lone
    <3> QED BY <3>2, <3>3, <3>5
  <2>4. CASE tab[t].pc \notin {"loading", "posting"}
    <3>1. tab'[t] = tab[t]
          BY <2>4 DEF Restart
    <3>2. TabOK(t)'
          BY <1>2, <2>1, <3>1, KeepTab DEF RInv, Restart
    <3> QED BY <2>1, <3>1, <3>2
  <2> QED BY <2>2, <2>3, <2>4
<1>4. ASSUME NEW c \in Clis PROVE CliOK(c)' /\ cli'[c] \in Cli
  <2>1. cli[c] \in Cli /\ CliOK(c)
        BY <1>1 DEF RInv
  <2>2. cli'[c] = cli[c] \/ cli'[c] = [cli[c] EXCEPT !.pc = "next"]
        BY DEF Restart
  <2> QED BY <2>1, <2>2 DEF Cli, CliOK, Restart
<1>5. tab' \in [Tabs -> Tab] /\ cli' \in [Clis -> Cli]
      BY <1>3, <1>4 DEF Restart
<1>6. restarts' \in 0..MaxRestarts
  <2>1. restarts \in 0..MaxRestarts /\ MaxRestarts \in Nat
        BY UpgradeReviewAssumption DEF UpgradeReviewAssumption, RInv, Types
  <2>2. restarts < MaxRestarts /\ restarts' = restarts + 1
        BY DEF Restart
  <2> QED BY <2>1, <2>2
<1>7. Types'
      BY <1>5, <1>6 DEF RInv, Types, Restart
<1>8. TokensApart'
      BY <1>3 DEF RInv, TokensApart
<1> QED BY <1>2, <1>3, <1>4, <1>7, <1>8 DEF RInv

\* The invariant, whoever acts and however the configuration is edited.
THEOREM ReviewInvariant == Spec => []RInv
<1>1. RInv /\ [Next]_vars => RInv'
  <2> SUFFICES ASSUME RInv, [Next]_vars PROVE RInv'
      OBVIOUS
  <2>1. CASE UNCHANGED vars
    <3>1. UNCHANGED <<config, status, outcome, cookie, tab, cli, shown, audit, restarts, failures>>
          BY <2>1 DEF vars
    <3>2. Kept /\ \A r \in Requests : RequestOK(r)'
          BY <3>1, QuietStep
    <3>3. Types' /\ TokensApart'
          BY <3>1 DEF RInv, Types, TokensApart
    <3>4. (\A t \in Tabs : TabOK(t)') /\ \A c \in Clis : CliOK(c)'
          BY <3>1, <3>2, KeepTab, KeepCli DEF RInv
    <3> QED BY <3>2, <3>3, <3>4 DEF RInv
  <2>2. CASE Next
        BY <2>2, CreateStep, OpenStep, ServeStep, ArriveStep, LosePageStep, SubmitStep, HandleFormStep,
           LoseAnswerStep, PostWithoutFormStep, TerminalStep, HandleApiStep,
           PostByHandStep, DecideSignedStep, RestartStep DEF Next
  <2> QED BY <2>1, <2>2
<1> QED BY InitRInv, <1>1, PTL DEF Spec
-----------------------------------------------------------------------------
\* Type correctness, with the tokens of tabs apart.
THEOREM ReviewTypeCorrect == Spec => []TypeOK
<1>1. RInv => TypeOK
      BY DEF RInv, Types, TokensApart, RequestOK, TypeOK
<1> QED BY <1>1, ReviewInvariant, PTL

\* Nobody decides in a browser or in review-upgrades what he was not shown there
\* while it was pending (permission_upgrade_http.go:374-439, cmd_review.go:189-214),
\* whatever other clients and signed decisions, which need not see it, decide.
THEOREM NothingDecidedUnseen == Spec => []ShownThenDecided
<1>1. RInv => ShownThenDecided
      BY DEF RInv, RequestOK, ShownThenDecided
<1> QED BY <1>1, ReviewInvariant, PTL

\* Every decision was authorized by the configuration it was made under: that of
\* an operator by upgrade_approvers and the sources, or by the escape hatch
\* (permission_upgrade_http.go:81-154), a signed one by a known key, or by a
\* daemon without keys that takes any (remote_crypto.go:80-106).
THEOREM AlwaysWithAuthority == Spec => []DecidedWithAuthority
<1>1. RInv => DecidedWithAuthority
      BY DEF RInv, RequestOK, Entitled, DecidedWithAuthority
<1> QED BY <1>1, ReviewInvariant, PTL

\* What an operator was told stays so (permission_upgrade_http.go:407-439).
THEOREM ToldTheTruth == Spec => []ToldTruly
<1>1. RInv => ToldTruly
  <2> SUFFICES ASSUME RInv, NEW t \in Tabs, tab[t].answer # None
               PROVE  CASE tab[t].answer = "applied" -> /\ outcome[tab[t].req] # None
                                                        /\ outcome[tab[t].req].by = t
                                                        /\ outcome[tab[t].req].mode = tab[t].mode
                        [] tab[t].answer = "already" -> outcome[tab[t].req] # None
                        [] tab[t].answer \in {"csrf", "unauthorized"} -> <<t, tab[t].req>> \in audit \/ failures > 0
                        [] OTHER -> failures > 0
      BY DEF ToldTruly
  <2>1. TabOK(t) /\ tab[t].answer \in Answers
        BY DEF RInv, Types, Tab
  <2> QED BY <2>1 DEF TabOK, Answers
<1> QED BY <1>1, ReviewInvariant, PTL

\* The form of a lone tab keeps its cookie (permission_upgrade_http.go:161-199).
THEOREM LoneTabsAccepted == Spec => []LoneTabAccepted
<1>1. RInv => LoneTabAccepted
      BY DEF RInv, TabOK, Lone, LoneTabAccepted
<1> QED BY <1>1, ReviewInvariant, PTL

\* Requests are decided by the authorized, and in browsers and terminals by those
\* who saw them, for every value of the constants: the theorems above together.
THEOREM DecisionsAlwaysSound == Spec => []DecisionsSound
BY ReviewTypeCorrect, NothingDecidedUnseen, AlwaysWithAuthority, PTL
   DEF DecisionsSound
=============================================================================
