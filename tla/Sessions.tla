------------------------------- MODULE Sessions -------------------------------
(***************************************************************************)
(* What rotating refresh tokens promise: README.md:156, "opaque, rotating".*)
(* A sign-in opens a session, named by its first token.  Until it is       *)
(* closed exactly one token continues it; a refresh puts a token in its    *)
(* place that was never issued before; a closed session stays closed.      *)
(***************************************************************************)
CONSTANT Token

VARIABLES
    live,    \* live[r]: the tokens that continue the session r began
    issued   \* every token that was ever given out

sessionvars == <<live, issued>>

SessionsInit ==
    /\ live = [r \in Token |-> {}]
    /\ issued = {}

Open(t) ==
    /\ t \notin issued
    /\ live' = [live EXCEPT ![t] = {t}]
    /\ issued' = issued \cup {t}

Refresh(r, t) ==
    /\ t \notin issued /\ live[r] # {}
    /\ live' = [live EXCEPT ![r] = {t}]
    /\ issued' = issued \cup {t}

(* Logout and expiry close one session, a detected reuse several.          *)
Close ==
    /\ issued' = issued
    /\ live' = [r \in Token |-> IF live'[r] = {} THEN {} ELSE live[r]]

SessionsNext ==
    \/ Close
    \/ \E t \in Token : Open(t) \/ \E r \in Token : Refresh(r, t)

SessionsSpec == SessionsInit /\ [][SessionsNext]_sessionvars
=============================================================================
