--------------------------- MODULE MCUpgradeReview ---------------------------
(***************************************************************************)
(* Instances of UpgradeReview for TLC.  Ann writes her name in two ways.   *)
(* t1 and t2 are tabs of one browser, t2 past the proxy that names the     *)
(* operator; t3 is the only tab of another browser; c1 is a terminal on    *)
(* the daemon's host, and s1 a script there.                               *)
(***************************************************************************)
EXTENDS UpgradeReview, TLC

CONSTANTS r2, t1, t2, t3, c1, s1, k1, k2, b1, b3, ann, ANN, bob, proxy

MCBrowserOf == [t \in Tabs |-> IF t = t3 THEN b3 ELSE b1]
MCFolded == [n \in {ann, ANN, bob, Anonymous} |-> IF n = ANN THEN ann ELSE n]
MCAddress == [a \in Actors |-> IF a \in {c1, s1} THEN Loopback ELSE proxy]
MCAccess == [a \in Actors |-> CASE a = c1 -> bob [] a = t1 -> ANN [] OTHER -> NoName]
MCForwarded == [a \in Actors |-> CASE a = t1 -> bob [] a \in {t3, s1} -> ann [] OTHER -> NoName]

Config(approvers, anonymous, sources, keys, unsigned) ==
  [approvers |-> approvers, anonymous |-> anonymous, sources |-> sources,
   keys |-> keys, unsigned |-> unsigned]

Proxied == Config({ann}, FALSE, {proxy}, {k1}, FALSE)
Local   == Config({bob, ann}, TRUE, {}, {}, FALSE)
Dev     == Config({}, TRUE, {proxy}, {}, TRUE)
Closed  == Config({}, FALSE, {Loopback, proxy}, {k1}, TRUE)

MCConfigs == {Proxied, Local, Dev, Closed}

\* Those exchanged while the lone tab and the terminal review.
ExchangedConfigs == {Proxied, Local}

ReviewSymmetry == Permutations(Modes)

\* The lone tab and the terminal meet over one request with a restart and a
\* failure, or over two requests with neither, of which a signed decision takes
\* at most the first.  No fair action is held back: one that may fail may also do
\* without.
Instance ==
  /\ status[r2] # "absent" => restarts + failures = 0
  /\ outcome[r2] # None => outcome[r2].by \notin Signers

MCSpec == Init /\ [][Next /\ Instance']_vars /\ TabFairness(t3) /\ CliFairness(c1)
=============================================================================
