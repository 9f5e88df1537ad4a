---------------------------- MODULE UpgradeReview ----------------------------
(***************************************************************************)
(* Who decides an upgrade request, and through what: the form of /u/{id}   *)
(* in the tabs of browsers; capbroker review-upgrades in a terminal, which *)
(* uses the JSON API; any other client of the two; and decisions signed    *)
(* with an approver's key, which their endpoint takes for a request of any *)
(* kind.  A post of a form passes the double-submit cookie, then the two   *)
(* layers of authorizeUpgradeOperator, then decidePermissionUpgrade, which *)
(* UpgradeFlow refines and which is one step here: what its claim finds    *)
(* decides.                                                                *)
(*                                                                         *)
(* The daemon may be restarted with an edited configuration while forms    *)
(* are open and answers are under way.                                     *)
(***************************************************************************)
EXTENDS Naturals, FiniteSets

CONSTANTS
  Requests,   \* upgrade requests
  Tabs,       \* browser tabs
  BrowserOf,  \* the browser of each tab; its tabs share a cookie jar
  Clis,       \* review-upgrades processes
  Watching,   \* those started with --watch
  Scripts,    \* other clients of /u/{id} and /v1/upgrades/{id}/decide, as curl
  Signers,    \* clients of /v1/requests/{id}/decision, each with a key of its own
  Modes,      \* what a decision may say
  Address,    \* the address the requests of a tab, process or script come from
  Access,     \* its Cf-Access-Authenticated-User-Email header, or NoName
  Forwarded,  \* its X-Forwarded-User header, or NoName
  Folded,     \* a name without its letter case and surrounding blanks
  None, NoName, Anonymous, Loopback,
  Configs,    \* remote section of the configuration, and whether it was started
              \* with --allow-unsigned-decisions, over the daemon's starts
  MaxRestarts, MaxFailures  \* bounds: restarts; lost messages and disk errors

\* Those that show a request before they decide it, and all operators.
Reviewers == Tabs \cup Clis
Actors == Reviewers \cup Scripts
Browsers == {BrowserOf[t] : t \in Tabs}

\* by whom, what, in whose name, and under which configuration.  A signed
\* decision has no mode and no operator.
Decision == [by : Actors \cup Signers, mode : Modes \cup {None}, as : DOMAIN Folded \cup {Anonymous}, under : Configs]

Answers == {"csrf", "unauthorized", "already", "failed", "applied"}

ASSUME UpgradeReviewAssumption ==
  /\ IsFiniteSet(Tabs) /\ BrowserOf \in [Tabs -> Browsers]
  /\ Tabs \cap Clis = {} /\ Watching \subseteq Clis /\ Modes # {}
  /\ Reviewers \cap Scripts = {} /\ Actors \cap Signers = {}
  /\ \A a \in Actors : {Access[a], Forwarded[a]} \subseteq DOMAIN Folded \cup {NoName}
  /\ \A c \in Configs : c.approvers \subseteq DOMAIN Folded /\ c.anonymous \in BOOLEAN
                        /\ c.keys \subseteq Signers /\ c.unsigned \in BOOLEAN
  /\ None \notin Requests \cup Modes \cup Answers \cup Decision
  /\ MaxRestarts \in Nat /\ MaxFailures \in Nat

VARIABLES
  config,
  status,   \* of each request: absent, pending, or decided
  outcome,  \* who decided it, in which mode, as whom, under which configuration
  cookie,   \* _cb_upgrade_csrf of each browser, 0 when there is none
  tab,
  cli,
  shown,    \* which actor saw which request while it was pending
  audit,    \* refused attempts in audit.jsonl
  restarts, failures

vars == <<config, status, outcome, cookie, tab, cli, shown, audit, restarts, failures>>

Tokens == 1..(Cardinality(Browsers) + 2 * Cardinality(Tabs) + 1)

\* form: the page has the form, which the template leaves out once the request
\* is decided.  sent: the cookie that goes with the post.
Tab == [pc : {"blank", "loading", "arriving", "page", "posting", "unknown"},
        req : Requests \cup {None}, token : Tokens \cup {0}, form : BOOLEAN,
        sent : Tokens \cup {0}, mode : Modes \cup {None},
        answer : Answers \cup {None}]

BlankTab == [pc |-> "blank", req |-> None, token |-> 0, form |-> FALSE,
             sent |-> 0, mode |-> None, answer |-> None]

\* The pending requests a process fetched and has not come to, and the one it
\* asks about or posts.
Cli == [pc : {"fetch", "ask", "post", "next", "done"}, queue : SUBSET Requests,
        req : Requests \cup {None}, mode : Modes \cup {None}]

Fail == failures < MaxFailures /\ failures' = failures + 1
-----------------------------------------------------------------------------

\* randomHex: a token nobody holds.
FreshToken ==
  CHOOSE k \in Tokens : /\ \A b \in Browsers : cookie[b] # k
                        /\ \A t \in Tabs : k \notin {tab[t].token, tab[t].sent}

\* operatorIdent.
Operator(a) == IF Access[a] # NoName THEN Access[a]
               ELSE IF Forwarded[a] # NoName THEN Forwarded[a]
               ELSE Anonymous

\* checkUpgradeSourceAllowed; an entry that is no address matches none.
SourceAllowed(a) ==
  IF config.sources = {} THEN Address[a] = Loopback ELSE Address[a] \in config.sources

EscapeHatch == config.anonymous /\ config.approvers = {}

\* authorizeUpgradeOperator.
Authorized(a) ==
  \/ EscapeHatch
  \/ /\ SourceAllowed(a) /\ Operator(a) # Anonymous
     /\ \E n \in config.approvers : Folded[n] = Folded[Operator(a)]

\* verifyDecisionSignature of a decision that was signed with k.
Signed(k) == k \in config.keys \/ (config.keys = {} /\ config.unsigned)

\* A plausible bug: a missing cookie equals a missing field.
Equal(sent, token) == sent = token

\* verifyUpgradeCSRF.
Verified(sent, token) == sent # 0 /\ token # 0 /\ sent = token

\* The request is claimed for a decision and all it leads to.
Record(a, r, mode) ==
  /\ status' = [status EXCEPT ![r] = "decided"]
  /\ outcome' = [outcome EXCEPT ![r] = [by |-> a, mode |-> mode, as |-> Operator(a), under |-> config]]

\* A plausible bug: the status is not looked at again.
Overwriting(a, r, mode, answer) == answer = "applied" /\ Record(a, r, mode) /\ UNCHANGED failures

\* decidePermissionUpgrade.  It fails with the request as it was, or once the
\* request is claimed.
Decide(a, r, mode, answer) ==
  \/ status[r] # "pending" /\ answer = "already" /\ UNCHANGED <<status, outcome, failures>>
  \/ status[r] = "pending" /\ answer = "failed" /\ Fail /\ UNCHANGED <<status, outcome>>
  \/ /\ status[r] = "pending" /\ Record(a, r, mode)
     /\ \/ answer = "applied" /\ UNCHANGED failures
        \/ answer = "failed" /\ Fail

\* recordUnauthorizedUpgrade, whose own failure is ignored.
Refused(a, r) ==
  /\ \/ audit' = audit \cup {<<a, r>>} /\ UNCHANGED failures
     \/ Fail /\ UNCHANGED audit
  /\ UNCHANGED <<status, outcome>>
-----------------------------------------------------------------------------
Init ==
  /\ config \in Configs
  /\ status = [r \in Requests |-> "absent"]
  /\ outcome = [r \in Requests |-> None]
  /\ cookie = [b \in Browsers |-> 0]
  /\ tab = [t \in Tabs |-> BlankTab]
  /\ cli = [c \in Clis |-> [pc |-> "fetch", queue |-> {}, req |-> None, mode |-> None]]
  /\ shown = {} /\ audit = {} /\ restarts = 0 /\ failures = 0

\* An agent's request is stored.
Create(r) ==
  /\ status[r] = "absent" /\ status' = [status EXCEPT ![r] = "pending"]
  /\ UNCHANGED <<config, outcome, cookie, tab, cli, shown, audit, restarts, failures>>

\* The operator opens /u/{id} in a tab that waits for nothing.
Open(t, r) ==
  /\ tab[t].pc \in {"blank", "page", "unknown"} /\ status[r] # "absent"
  /\ tab' = [tab EXCEPT ![t] = [BlankTab EXCEPT !.pc = "loading", !.req = r]]
  /\ UNCHANGED <<config, status, outcome, cookie, cli, shown, audit, restarts, failures>>

\* handleUpgradeShow: a token, whether or not the page gets the form.
Serve(t) ==
  /\ tab[t].pc = "loading"
  /\ tab' = [tab EXCEPT ![t].pc = "arriving", ![t].token = FreshToken,
                        ![t].form = status[tab[t].req] = "pending"]
  /\ UNCHANGED <<config, status, outcome, cookie, cli, shown, audit, restarts, failures>>

\* A plausible bug: a browser that has a cookie keeps it.
ArriveKeeping(t) ==
  /\ tab[t].pc = "arriving" /\ tab' = [tab EXCEPT ![t].pc = "page"]
  /\ cookie' = [cookie EXCEPT ![BrowserOf[t]] = IF @ = 0 THEN tab[t].token ELSE @]
  /\ shown' = IF tab[t].form THEN shown \cup {<<t, tab[t].req>>} ELSE shown
  /\ UNCHANGED <<config, status, outcome, cli, audit, restarts, failures>>

\* The page is shown; its cookie replaces the one of an earlier page.
Arrive(t) ==
  /\ tab[t].pc = "arriving" /\ tab' = [tab EXCEPT ![t].pc = "page"]
  /\ cookie' = [cookie EXCEPT ![BrowserOf[t]] = tab[t].token]
  /\ shown' = IF tab[t].form THEN shown \cup {<<t, tab[t].req>>} ELSE shown
  /\ UNCHANGED <<config, status, outcome, cli, audit, restarts, failures>>

\* The page does not come, but its headers may have.
LosePage(t) ==
  /\ tab[t].pc \in {"loading", "arriving"} /\ Fail
  /\ tab' = [tab EXCEPT ![t] = BlankTab]
  /\ \/ UNCHANGED cookie
     \/ tab[t].pc = "arriving" /\ cookie' = [cookie EXCEPT ![BrowserOf[t]] = tab[t].token]
  /\ UNCHANGED <<config, status, outcome, cli, shown, audit, restarts>>

\* A button of the form, or the same post again when no answer came.
Submit(t, mode) ==
  /\ \/ tab[t].pc = "page" /\ tab[t].form /\ tab[t].answer = None
     \/ tab[t].pc = "unknown" /\ tab[t].mode = mode
  /\ tab' = [tab EXCEPT ![t].pc = "posting", ![t].mode = mode,
                        ![t].sent = cookie[BrowserOf[t]]]
  /\ UNCHANGED <<config, status, outcome, cookie, cli, shown, audit, restarts, failures>>

\* The answer reaches the tab as a page without the form.
Told(t, answer) ==
  tab' = [tab EXCEPT ![t] = [BlankTab EXCEPT !.pc = "page", !.req = tab[t].req,
                                             !.mode = tab[t].mode, !.answer = answer]]

\* The checks before decidePermissionUpgrade.
Refusal(a, verified) == IF ~verified THEN "csrf"
                        ELSE IF ~Authorized(a) THEN "unauthorized"
                        ELSE None

\* handleUpgradeDecideForm.
HandleForm(t) ==
  LET refusal == Refusal(t, Verified(tab[t].sent, tab[t].token)) IN
  /\ tab[t].pc = "posting"
  /\ \/ refusal # None /\ Told(t, refusal) /\ Refused(t, tab[t].req)
     \/ /\ refusal = None /\ UNCHANGED audit
        /\ \E answer \in {"already", "failed", "applied"} :
             Decide(t, tab[t].req, tab[t].mode, answer) /\ Told(t, answer)
  /\ UNCHANGED <<config, cookie, cli, shown, restarts>>

\* The post is lost, or the answer to it.
LoseAnswer(t) ==
  /\ tab[t].pc = "posting" /\ Fail
  /\ tab' = [tab EXCEPT ![t].pc = "unknown", ![t].sent = 0]
  /\ \/ UNCHANGED <<status, outcome>>
     \/ /\ Verified(tab[t].sent, tab[t].token) /\ Authorized(t)
        /\ status[tab[t].req] = "pending" /\ Record(t, tab[t].req, tab[t].mode)
  /\ UNCHANGED <<config, cookie, cli, shown, audit, restarts>>

\* A post to /u/{id} from elsewhere than one of its forms: no field, and no
\* cookie (SameSite=Strict) unless the page is one of the daemon's own.
PostWithoutForm(t, r, mode) ==
  /\ status[r] = "pending"
  /\ \E sent \in {0, cookie[BrowserOf[t]]} :
       LET refusal == Refusal(t, Verified(sent, 0)) IN
       \/ refusal # None /\ Refused(t, r)
       \/ /\ refusal = None /\ UNCHANGED audit
          /\ \E answer \in {"failed", "applied"} : Decide(t, r, mode, answer)
  /\ UNCHANGED <<config, cookie, tab, cli, shown, restarts>>
-----------------------------------------------------------------------------
\* The next request of those fetched, or the end of the round.
Go(c, rest) ==
  \/ /\ rest = {}
     /\ cli' = [cli EXCEPT ![c] = [pc |-> IF c \in Watching THEN "fetch" ELSE "done",
                                   queue |-> {}, req |-> None, mode |-> None]]
     /\ UNCHANGED shown
  \/ \E r \in rest :
       /\ cli' = [cli EXCEPT ![c] = [pc |-> "ask", queue |-> rest \ {r}, req |-> r, mode |-> None]]
       /\ shown' = shown \cup {<<c, r>>}

\* fetchPendingUpgrades and the first card.  A process that watches goes on
\* when there is nothing; one that gets no answer dies.
Fetch(c) ==
  /\ cli[c].pc = "fetch"
  /\ \/ Go(c, {r \in Requests : status[r] = "pending"}) /\ UNCHANGED failures
     \/ /\ Fail /\ cli' = [cli EXCEPT ![c].pc = "done"] /\ UNCHANGED shown
  /\ UNCHANGED <<config, status, outcome, cookie, tab, audit, restarts>>

Choose(c, mode) ==
  /\ cli[c].pc = "ask"
  /\ cli' = [cli EXCEPT ![c].pc = "post", ![c].mode = mode]
  /\ UNCHANGED <<config, status, outcome, cookie, tab, shown, audit, restarts, failures>>

\* A plausible bug: skipping one request starts a new round.
SkipRound(c) ==
  /\ cli[c].pc = "ask" /\ cli' = [cli EXCEPT ![c] = [@ EXCEPT !.pc = "fetch", !.queue = {}, !.req = None]]
  /\ UNCHANGED <<config, status, outcome, cookie, tab, shown, audit, restarts, failures>>

\* An empty line, "n", or a choice there is not.
Skip(c) ==
  /\ cli[c].pc = "ask" /\ Go(c, cli[c].queue)
  /\ UNCHANGED <<config, status, outcome, cookie, tab, audit, restarts, failures>>

Quit(c) ==
  /\ cli[c].pc = "ask" /\ cli' = [cli EXCEPT ![c] = [@ EXCEPT !.pc = "done", !.queue = {}, !.req = None]]
  /\ UNCHANGED <<config, status, outcome, cookie, tab, shown, audit, restarts, failures>>

\* handleUpgradeAPI.
HandleApi(c) ==
  /\ cli[c].pc = "post" /\ cli' = [cli EXCEPT ![c].pc = "next"]
  /\ \/ ~Authorized(c) /\ Refused(c, cli[c].req)
     \/ /\ Authorized(c) /\ UNCHANGED audit
        /\ \E answer \in {"already", "failed", "applied"} : Decide(c, cli[c].req, cli[c].mode, answer)
  /\ UNCHANGED <<config, cookie, tab, shown, restarts>>

\* A post to handleUpgradeAPI by a client that fetched no card, or to the form
\* with a cookie and a field of its own making.
PostByHand(s, r, mode) ==
  /\ \/ ~Authorized(s) /\ Refused(s, r)
     \/ /\ Authorized(s) /\ UNCHANGED audit
        /\ \E answer \in {"already", "failed", "applied"} : Decide(s, r, mode, answer)
  /\ UNCHANGED <<config, cookie, tab, cli, shown, restarts>>

\* decideRequest, which looks neither at the kind of the request nor at
\* upgrade_approvers, and is not held up by a decision of an operator.
DecideSigned(k, r) ==
  /\ status[r] = "pending" /\ Signed(k)
  /\ status' = [status EXCEPT ![r] = "decided"]
  /\ outcome' = [outcome EXCEPT ![r] = [by |-> k, mode |-> None, as |-> Anonymous, under |-> config]]
  /\ UNCHANGED <<config, cookie, tab, cli, shown, audit, restarts, failures>>

\* The process goes on whatever was answered.
Advance(c) ==
  /\ cli[c].pc = "next" /\ Go(c, cli[c].queue)
  /\ UNCHANGED <<config, status, outcome, cookie, tab, audit, restarts, failures>>

\* The daemon stops, the configuration may be edited, and it starts again.
\* Nothing it kept in memory is needed for a form it has served.
Restart ==
  /\ restarts < MaxRestarts /\ restarts' = restarts + 1
  /\ config' \in Configs
  /\ tab' = [t \in Tabs |-> IF tab[t].pc = "loading" THEN BlankTab
                            ELSE IF tab[t].pc = "posting" THEN [tab[t] EXCEPT !.pc = "unknown", !.sent = 0]
                            ELSE tab[t]]
  /\ cli' = [c \in Clis |-> IF cli[c].pc = "post" THEN [cli[c] EXCEPT !.pc = "next"] ELSE cli[c]]
  /\ UNCHANGED <<status, outcome, cookie, shown, audit, failures>>

Next ==
  \/ \E r \in Requests : Create(r)
  \/ \E t \in Tabs :
       \/ Serve(t) \/ Arrive(t) \/ LosePage(t) \/ HandleForm(t) \/ LoseAnswer(t)
       \/ \E r \in Requests : Open(t, r) \/ \E mode \in Modes : PostWithoutForm(t, r, mode)
       \/ \E mode \in Modes : Submit(t, mode)
  \/ \E c \in Clis :
       Fetch(c) \/ Skip(c) \/ Quit(c) \/ HandleApi(c) \/ Advance(c) \/ \E mode \in Modes : Choose(c, mode)
  \/ \E r \in Requests :
       \/ \E s \in Scripts, mode \in Modes : PostByHand(s, r, mode)
       \/ \E k \in Signers : DecideSigned(k, r)
  \/ Restart

Spec == Init /\ [][Next]_vars

\* The daemon serves and answers, pages arrive, and an operator who keeps
\* opening a request in a tab some day presses a button.
TabFairness(t) ==
  /\ WF_vars(Serve(t)) /\ WF_vars(Arrive(t)) /\ WF_vars(HandleForm(t))
  /\ SF_vars(\E mode \in Modes : Submit(t, mode))
  /\ \A r \in Requests : SF_vars(Open(t, r) /\ status[r] = "pending")

\* The daemon answers and the terminal is attended.
CliFairness(c) ==
  /\ WF_vars(Fetch(c)) /\ WF_vars(HandleApi(c)) /\ WF_vars(Advance(c))
  /\ WF_vars(Skip(c) \/ Quit(c) \/ \E mode \in Modes : Choose(c, mode))

FairSpec == Spec /\ (\A t \in Tabs : TabFairness(t)) /\ (\A c \in Clis : CliFairness(c))
-----------------------------------------------------------------------------
\* Every variable holds a value of its kind; a tab that has the token of a
\* form got it from a page of its own, so no two tabs have the same one.
TypeOK ==
  /\ config \in Configs
  /\ status \in [Requests -> {"absent", "pending", "decided"}]
  /\ outcome \in [Requests -> Decision \cup {None}]
  /\ \A r \in Requests : status[r] = "decided" <=> outcome[r] # None
  /\ cookie \in [Browsers -> Tokens \cup {0}]
  /\ tab \in [Tabs -> Tab] /\ cli \in [Clis -> Cli]
  /\ \A t, u \in Tabs : t # u /\ tab[t].token # 0 => tab[t].token # tab[u].token
  /\ shown \subseteq Actors \X Requests /\ audit \subseteq Actors \X Requests
  /\ restarts \in 0..MaxRestarts /\ failures \in 0..MaxFailures

\* What a browser or a terminal decides, it decides only from a page, or a card,
\* that showed this request to that operator while it was pending.  The code
\* asks this of no other client of its API, and of no signed decision.
ShownThenDecided ==
  \A r \in Requests : outcome[r] # None /\ outcome[r].by \in Reviewers => <<outcome[r].by, r>> \in shown

\* Whatever the edits of the configuration and the forms open across them: as
\* far as operators decide, a daemon without upgrade_approvers decides nothing
\* and one with them decides for nobody anonymous, and for nobody beyond
\* loopback that it does not list; only the escape hatch, which needs an empty
\* list, lifts this.  A signed decision needs a key the daemon knows instead, or
\* a daemon without keys that was told to take any.
DecidedWithAuthority ==
  \A r \in Requests : outcome[r] # None =>
    LET o == outcome[r] IN
    \/ /\ o.by \in Signers
       /\ o.by \in o.under.keys \/ (o.under.keys = {} /\ o.under.unsigned)
    \/ /\ o.by \in Actors
       /\ \/ o.under.anonymous /\ o.under.approvers = {}
          \/ /\ \E n \in o.under.approvers : Folded[n] = Folded[o.as]
             /\ o.as # Anonymous
             /\ Address[o.by] # Loopback => Address[o.by] \in o.under.sources

\* A request is decided by someone authorized then, who saw it unless it was a
\* script or a signed decision.
DecisionsSound == TypeOK /\ ShownThenDecided /\ DecidedWithAuthority

\* What an operator is told is so and stays so, with other operators and
\* repeated posts about: a decision that was applied is the outcome, one that
\* came late finds another, and a refused attempt is in the audit log unless
\* the disk failed.
ToldTruly ==
  \A t \in Tabs : tab[t].answer # None =>
    LET r == tab[t].req IN
    CASE tab[t].answer = "applied" -> outcome[r] # None /\ outcome[r].by = t /\ outcome[r].mode = tab[t].mode
      [] tab[t].answer = "already" -> outcome[r] # None
      [] tab[t].answer \in {"csrf", "unauthorized"} -> <<t, r>> \in audit \/ failures > 0
      [] OTHER -> failures > 0

\* The form of a tab that is alone in its browser is never refused for its
\* token, though pages are lost and the daemon restarts.
LoneTabAccepted ==
  \A t \in Tabs : tab[t].answer = "csrf" => \E u \in Tabs \ {t} : BrowserOf[u] = BrowserOf[t]

\* While an operator in a browser with one tab keeps opening pending requests,
\* every request is decided, whatever other operators, lost messages and
\* restarts do, if from some time on the configuration authorizes that operator.
Reviewed ==
  (\E t \in Tabs : (\A u \in Tabs \ {t} : BrowserOf[u] # BrowserOf[t]) /\ <>[]Authorized(t))
    => \A r \in Requests : status[r] = "pending" ~> status[r] = "decided"

\* A terminal that watches comes to every request that stays pending, until it
\* is told to quit or the daemon does not answer.
Offered ==
  \A c \in Watching, r \in Requests :
    status[r] = "pending" ~> <<c, r>> \in shown \/ status[r] = "decided" \/ cli[c].pc = "done"
=============================================================================
