------------------------------ MODULE Permissions ------------------------------
(***************************************************************************)
(* What an agent may ask for over time: the static resources of a profile, *)
(* extended by the grants that upgrades leave in permanent-grants.jsonl    *)
(* and temporal-grants.jsonl.  The operator decides upgrades, revokes and  *)
(* edits the files by hand; time passes; the daemon is restarted with      *)
(* another configuration.                                                  *)
(*                                                                         *)
(* Appends, prunings and revocations by id hold the flock of a grant file; *)
(* revoke --all and the editor do not, so a revocation by id is three      *)
(* steps here.  UpgradeFlow has the torn writes and the crashes.  A text   *)
(* is a resource value and a pattern; what path.Match says of two texts is *)
(* the constant MatchedBy.                                                 *)
(* A grant file is the set of its lines, and the last of them may lack its *)
(* newline: ids are unique, and neither the order of the others nor a line *)
(* that is there twice matters to any reader.                              *)
(***************************************************************************)
EXTENDS Naturals, FiniteSets

CONSTANTS
  Profiles,
  Texts,       \* resource values, and patterns of them
  MatchedBy,   \* the texts a text matches as a pattern, or equals
  Globs,       \* texts with one of the characters * ? [
  Configs,     \* the configurations the daemon may be started with
  OnceTTL, SessionTTL,
  MaxGrants,   \* bound: decided upgrades
  MaxEdits,    \* bound: revocations, edits by hand, prunings and restarts
  MaxClock     \* bound: the last instant

Kinds == {"command", "vault", "permission-upgrade"}
Modes == {"once", "session", "permanent"}

ASSUME PermissionsAssumption ==
  /\ Globs \subseteq Texts
  /\ MatchedBy \in [Texts -> SUBSET Texts] /\ \A t \in Texts : t \in MatchedBy[t]
  /\ Configs \subseteq [kind : [Profiles -> Kinds], static : [Profiles -> SUBSET Texts]]
  /\ OnceTTL \in Nat \ {0} /\ SessionTTL \in Nat \ {0}
  /\ MaxGrants \in Nat /\ MaxEdits \in Nat /\ MaxClock \in Nat

\* Where a grant is stored, named for the two files.
Sources == {"permanent", "temporal"}

VARIABLES
  config,     \* the configuration of the running daemon
  asked,      \* stored upgrade requests that wait for a decision
  grants,     \* what permanent-grants.jsonl and temporal-grants.jsonl hold
  sought,     \* revocations by id that have found their grant
  loaded,     \* of each file, the revocation by id that holds its lock
  given,      \* every grant ever decided
  reported,   \* ids whose revocation was reported as done
  exposed,    \* those that a revocation of another had loaded by then
  swallowed,  \* ids of grants lost with a line that an edit left unended
  clock, edits

permissionVars == <<config, asked, grants, sought, loaded, given, reported, exposed,
                    swallowed, clock, edits>>

Never == MaxClock + OnceTTL + SessionTTL + 1

Grant == [id : 1..MaxGrants, profile : Profiles, resource : Texts, expires : 1..Never]

\* A line that holds no grant: a comment, or one that does not parse; one of
\* more than a megabyte, which ends the reading of the file; and none at all.
Comment == [id |-> 0]
LongLine == [id |-> 0, long |-> TRUE]
NoLine == [id |-> 0, none |-> TRUE]

Line == Grant \cup {Comment, LongLine}

\* A grant file: its lines, and a last one without its newline.
GrantFile == [lines : SUBSET Line, last : Line \cup {NoLine}]

NoFile == [lines |-> {}, last |-> NoLine]

\* A revocation by id that has computed what to keep.
NoRewrite == [id |-> 0, keep |-> {}]

SourceOf(g) == IF g.expires = Never THEN "permanent" ELSE "temporal"

-----------------------------------------------------------------------------
LinesOf(file) == file.lines \cup ({file.last} \ {NoLine})

\* A plausible bug: a line that does not parse makes the load fail.
GrantsUnlessComment(file) ==
  IF Comment \in LinesOf(file) THEN {} ELSE LinesOf(file) \ {LongLine}

\* loadGrantsJSONL: the grants of a file.
GrantsIn(file) == LinesOf(file) \ {Comment, LongLine}

\* Its error, which comes with the lines read so far.
Unreadable(file) == LongLine \in LinesOf(file)

\* O_APPEND of a grant and its newline.  It continues a last line without one,
\* and that line then holds no grant.
AppendGrant(file, g) ==
  [lines |-> file.lines \cup {CASE file.last = NoLine   -> g
                                [] file.last = LongLine -> LongLine
                                [] OTHER                -> Comment},
   last  |-> NoLine]

\* The grants that such a line costs.
Swallowed(file, g) ==
  IF file.last = NoLine THEN {} ELSE {g.id} \cup {h.id : h \in {file.last} \cap Grant}

\* A plausible bug: a grant lives one instant too long.
ExpiredLate(g, now) == now > g.expires + 1

\* now.After(g.ExpiresAt) of the policy; a permanent grant does not have it.
Expired(g, now) == now > g.expires

\* validateRequestAt does not extend a profile of kind permission-upgrade.
Extends(profile) == config.kind[profile] # "permission-upgrade"

\* effectiveResources: a file that cannot be read to its end extends nothing.
Effective(profile, now) ==
  LET usable(file) == IF Unreadable(file) THEN {} ELSE GrantsIn(file) IN
  config.static[profile] \cup
    IF ~Extends(profile) THEN {}
    ELSE {g.resource : g \in {h \in usable(grants["permanent"]) : h.profile = profile}}
         \cup {g.resource : g \in {h \in usable(grants["temporal"]) :
                                     h.profile = profile /\ ~Expired(h, now)}}

\* matchesAny of the resource: what validateRequestAt accepts.
Allowed(profile, value, now) == \E t \in Effective(profile, now) : value \in MatchedBy[t]

\* validatePermissionUpgradeRequest, of its target and its resource.
MayAsk(profile, resource) ==
  config.kind[profile] # "permission-upgrade" /\ resource \notin Globs

-----------------------------------------------------------------------------
PermissionsInit ==
  /\ config \in Configs
  /\ grants = [k \in Sources |-> NoFile] /\ loaded = [k \in Sources |-> NoRewrite]
  /\ asked = {} /\ sought = {} /\ given = {}
  /\ reported = {} /\ exposed = {} /\ swallowed = {}
  /\ clock = 0 /\ edits = 0

revocationVars == <<sought, loaded, reported, exposed>>

\* createRequest of a valid upgrade request.
Ask(profile, resource) ==
  /\ MayAsk(profile, resource)
  /\ asked' = asked \cup {[profile |-> profile, resource |-> resource]}
  /\ UNCHANGED <<config, grants, revocationVars, given, swallowed, clock, edits>>

\* ExpiresAt of a decided upgrade.
Expiry(mode) == CASE mode = "permanent" -> Never
                  [] mode = "once"      -> clock + OnceTTL
                  [] mode = "session"   -> clock + SessionTTL

\* A revocation by id has the flock of the file.
Locked(k) == loaded[k].id # 0

\* A plausible bug: the grant is appended without the flock.
DecideUnlocked(request, mode) ==
  LET g == [id |-> Cardinality(given) + 1, profile |-> request.profile,
            resource |-> request.resource, expires |-> Expiry(mode)]
      k == SourceOf(g)
  IN
  /\ Cardinality(given) < MaxGrants
  /\ asked' = asked \ {request} /\ given' = given \cup {g}
  /\ grants' = [grants EXCEPT ![k] = AppendGrant(@, g)]
  /\ swallowed' = swallowed \cup Swallowed(grants[k], g)
  /\ UNCHANGED <<config, revocationVars, clock, edits>>

\* applyUpgradeApproval, which does not look at the configuration again, and
\* appendGrantJSONL under the flock.  A file that is unlinked between its two
\* calls is as good as one that is unlinked after them.
Decide(request, mode) ==
  LET g == [id |-> Cardinality(given) + 1, profile |-> request.profile,
            resource |-> request.resource, expires |-> Expiry(mode)]
      k == SourceOf(g)
  IN
  /\ Cardinality(given) < MaxGrants /\ ~Locked(k)
  /\ asked' = asked \ {request} /\ given' = given \cup {g}
  /\ grants' = [grants EXCEPT ![k] = AppendGrant(@, g)]
  /\ swallowed' = swallowed \cup Swallowed(grants[k], g)
  /\ UNCHANGED <<config, revocationVars, clock, edits>>

Edit == edits < MaxEdits /\ edits' = edits + 1

\* The operator's editor leaves a last line: a comment, half a line, far too
\* long a one or a grant of the file; with its newline or without it.
EditByHand(k, line, ended) ==
  /\ Edit /\ line \in {Comment, LongLine} \cup GrantsIn(grants[k])
  /\ LET lines == LinesOf(grants[k]) IN
     grants' = [grants EXCEPT ![k] =
       IF ended THEN [lines |-> lines \cup {line}, last |-> NoLine]
                ELSE [lines |-> lines \ ({line} \cap Grant), last |-> line]]
  /\ UNCHANGED <<config, asked, revocationVars, given, swallowed, clock>>

-----------------------------------------------------------------------------
Holds(file, id) == \E g \in GrantsIn(file) : g.id = id

\* rewriteGrantsJSONLExclude: lines without a grant go too.
Rewrite(file, id) == {g \in GrantsIn(file) : g.id # id}

\* A command reports these as revoked.  A revocation of another may hold them
\* loaded, to be saved again.
Report(k, ids) ==
  /\ reported' = reported \cup ids
  /\ exposed' = (exposed \ ids) \cup {id \in ids : \E g \in loaded[k].keep : g.id = id}

\* revoke --id finds the file of the grant, without the flock.  A file that
\* cannot be read to its end stops the command before.
Seek(k, id) ==
  /\ Edit /\ \A l \in Sources : ~Unreadable(grants[l])
  /\ Holds(grants[k], id) /\ sought' = sought \cup {[source |-> k, id |-> id]}
  /\ UNCHANGED <<config, asked, grants, loaded, given, reported, exposed, swallowed, clock>>

\* os.Stat, without the flock: a file that is gone needs no rewrite.  One that
\* was truncated passes for it; there is nothing to take out of it either.
Gone(s) ==
  /\ grants[s.source] = NoFile /\ sought' = sought \ {s}
  /\ Report(s.source, {s.id})
  /\ UNCHANGED <<config, asked, grants, loaded, given, swallowed, clock, edits>>

\* The flock is taken and the file is loaded; without the grant there is
\* nothing to do.
Load(s) ==
  LET file == grants[s.source] IN
  /\ ~Locked(s.source) /\ ~Unreadable(file) /\ sought' = sought \ {s}
  /\ \/ ~Holds(file, s.id) /\ Report(s.source, {s.id}) /\ UNCHANGED loaded
     \/ /\ Holds(file, s.id) /\ UNCHANGED <<reported, exposed>>
        /\ loaded' = [loaded EXCEPT ![s.source] = [id |-> s.id, keep |-> Rewrite(file, s.id)]]
  /\ UNCHANGED <<config, asked, grants, given, swallowed, clock, edits>>

\* The file is truncated, which fails when it is gone, or replaced.
Save(k) ==
  /\ Locked(k) /\ (loaded[k].keep = {} => grants[k] # NoFile)
  /\ grants' = [grants EXCEPT ![k] = [lines |-> loaded[k].keep, last |-> NoLine]]
  /\ loaded' = [loaded EXCEPT ![k] = NoRewrite]
  /\ Report(k, {loaded[k].id})
  /\ UNCHANGED <<config, asked, sought, given, swallowed, clock, edits>>

\* An error ends a revocation by id, or an interrupt, before or after its load.
GiveUpRevoking(k) ==
  /\ \/ \E s \in sought : s.source = k /\ sought' = sought \ {s} /\ UNCHANGED loaded
     \/ Locked(k) /\ loaded' = [loaded EXCEPT ![k] = NoRewrite] /\ UNCHANGED sought
  /\ UNCHANGED <<config, asked, grants, given, reported, exposed, swallowed, clock, edits>>

\* revoke --all of a kind removes its file, flock or no flock.
RevokeAll(k) ==
  /\ Edit
  /\ grants' = [grants EXCEPT ![k] = NoFile]
  /\ Report(k, {g.id : g \in GrantsIn(grants[k])})
  /\ UNCHANGED <<config, asked, sought, loaded, given, swallowed, clock>>

\* pruneTemporalGrants: now.Before(g.ExpiresAt).  Nothing is written when no
\* grant goes.  Only tests call it so far.
Prune ==
  LET file == grants["temporal"]
      keep == {g \in GrantsIn(file) : clock < g.expires}
  IN
  /\ Edit /\ ~Locked("temporal") /\ ~Unreadable(file) /\ keep # GrantsIn(file)
  /\ grants' = [grants EXCEPT !["temporal"] = [lines |-> keep, last |-> NoLine]]
  /\ UNCHANGED <<config, asked, revocationVars, given, swallowed, clock>>

\* The daemon is restarted with an edited config.json.
Restart ==
  /\ Edit /\ config' \in Configs \ {config}
  /\ UNCHANGED <<asked, grants, revocationVars, given, swallowed, clock>>

Tick == clock < MaxClock /\ clock' = clock + 1
        /\ UNCHANGED <<config, asked, grants, revocationVars, given, swallowed, edits>>

Revoke == \/ \E k \in Sources : \/ \E id \in 1..MaxGrants : Seek(k, id)
                                \/ Save(k) \/ GiveUpRevoking(k) \/ RevokeAll(k)
          \/ \E s \in sought : Gone(s) \/ Load(s)

PermissionsNext ==
  \/ \E p \in Profiles, t \in Texts : Ask(p, t)
  \/ \E r \in asked, m \in Modes : Decide(r, m)
  \/ \E k \in Sources, line \in Line, ended \in BOOLEAN : EditByHand(k, line, ended)
  \/ Revoke \/ Prune \/ Restart \/ Tick

PermissionsSpec == PermissionsInit /\ [][PermissionsNext]_permissionVars
-----------------------------------------------------------------------------
Row(g, expired) == [profile |-> g.profile, resource |-> g.resource, expired |-> expired]

\* A plausible bug: the listing takes the instant of expiry for expired.
ListedExpiredEarly(g) == clock >= g.expires

\* now.After(g.ExpiresAt) of the listing.
ListedExpired(g) == clock > g.expires

\* The rows of collectAllGrants for the two files, with their expired flag.
Rows == {Row(g, FALSE) : g \in GrantsIn(grants["permanent"])}
          \cup {Row(g, ListedExpired(g)) : g \in GrantsIn(grants["temporal"])}

\* capbroker grants fails when it cannot read a file to its end.
ListingFails == \E k \in Sources : Unreadable(grants[k])

\* Every variable holds a value of its kind.
PermissionsTypeOK ==
  /\ config \in Configs
  /\ asked \subseteq [profile : Profiles, resource : Texts]
  /\ grants \in [Sources -> GrantFile]
  /\ sought \subseteq [source : Sources, id : 1..MaxGrants]
  /\ loaded \in [Sources -> [id : 0..MaxGrants, keep : SUBSET Grant]]
  /\ given \subseteq Grant /\ reported \subseteq 1..MaxGrants
  /\ exposed \subseteq reported /\ swallowed \subseteq 1..MaxGrants
  /\ \A g, h \in given : g.id = h.id => g = h
  /\ clock \in 0..MaxClock /\ edits \in 0..MaxEdits

\* A grant the operator gave, at an instant up to its expiry.
Running(g) == g \in given /\ clock <= g.expires

\* Whatever an agent may use beyond the static resources goes back to a grant
\* the operator gave for just that profile and that has not expired.  Once it
\* was reported as revoked, no edit, restart, pruning or revocation of others
\* brings it back, but for one case: revoke --all, or a command that finds its
\* file gone after it, reported it while a revoke --id of another grant had the
\* file loaded, and that one saves it again.
NothingElseAllowed ==
  \A p \in Profiles : \A t \in Effective(p, clock) \ config.static[p] :
    \E g \in given : /\ Running(g) /\ g.profile = p /\ g.resource = t
                     /\ (g.id \in reported => g.id \in exposed)

\* pruneTemporalGrants calls itself not required for correctness: what it, a
\* revocation of others or an edit leaves in the files still counts, up to the
\* instant of expiry itself, at which pruning already drops a grant.  Excepted
\* are the grants of a profile that a restart has made the meta-profile, those
\* of a file that cannot be read to its end, and those that an append lost: it
\* continued a last line that an edit had left without its newline.
GrantHonoured ==
  \A g \in given :
    Running(g) /\ g.id \notin reported /\ g.expires # clock /\ Extends(g.profile) =>
      \/ g.resource \in Effective(g.profile, clock)
      \/ Unreadable(grants[SourceOf(g)])
      \/ g.id \in swallowed

\* "The meta-profile itself must be statically operator-managed": not even a
\* grant that was given while its target was of another kind extends it.
NoSelfExtension ==
  \A p \in Profiles : config.kind[p] = "permission-upgrade" =>
    \A v \in Texts : Allowed(p, v, clock) => \E t \in config.static[p] : v \in MatchedBy[t]

\* An agent may use what is configured or granted, and nothing else: not by
\* edits, rewrites or restarts, and not of the meta-profile.
OnlyGranted == PermissionsTypeOK /\ NothingElseAllowed /\ NoSelfExtension

\* What capbroker grants lists as active is what the daemon accepts beyond the
\* static resources, although each compares instants for itself; but it lists
\* grants of a profile that has become the meta-profile, and the daemon
\* accepts none of these.  Where it cannot read a file it lists nothing.
ListingAgrees ==
  ~ListingFails => \A p \in Profiles :
    LET active == {r.resource : r \in {s \in Rows : s.profile = p /\ ~s.expired}} IN
    Effective(p, clock) = config.static[p] \cup (IF Extends(p) THEN active ELSE {})
=============================================================================
