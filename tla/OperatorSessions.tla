--------------------------- MODULE OperatorSessions ---------------------------
(***************************************************************************)
(* The arithmetic of operator sessions (operator_session.go, grants.go): a *)
(* requested session TTL is capped by the daemon and by the profile, and a *)
(* session counts while now is strictly before its expiry.  Durations and  *)
(* instants are natural numbers of one abstract unit.                      *)
(***************************************************************************)
EXTENDS Naturals

CONSTANTS DefaultMaxSession,  \* cap when defaults.max_session_seconds is unset
          DefaultSession      \* TTL when neither profile nor request sets one

ASSUME SessionDefaults == /\ DefaultMaxSession \in Nat \ {0}
                          /\ DefaultSession \in Nat \ {0}

\* The cap: the daemon's, or the profile's when that is set and smaller.
SessionCap(maxSession, profileMax) ==
  LET daemonCap == IF maxSession > 0 THEN maxSession ELSE DefaultMaxSession
  IN  IF profileMax > 0 /\ profileMax < daemonCap THEN profileMax ELSE daemonCap

\* A plausible bug: the requested TTL escapes the cap.
UncappedSessionTTL(maxSession, profileMax, profileTTL, requested) ==
  IF requested > 0 THEN requested
  ELSE IF profileTTL > 0 THEN profileTTL ELSE DefaultSession

\* The TTL of a session: the requested one, else the profile's, else the
\* default, and never more than the cap.  Zero means "not set" everywhere.
RequestedSessionTTL(maxSession, profileMax, profileTTL, requested) ==
  LET cap    == SessionCap(maxSession, profileMax)
      wanted == IF requested > 0 THEN requested
                ELSE IF profileTTL > 0 THEN profileTTL
                ELSE DefaultSession
  IN  IF wanted > cap THEN cap ELSE wanted

\* now.Before(ExpiresAt): the instant of expiry itself is already expired.
Unexpired(expires, now) == now < expires
=============================================================================
