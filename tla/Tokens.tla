-------------------------------- MODULE Tokens --------------------------------
(***************************************************************************)
(* Refresh tokens: the refresh_tokens rows and the requests of             *)
(* backend/app/api/auth.py that issue, rotate and revoke them through      *)
(* backend/app/services/auth.py.                                           *)
(*                                                                         *)
(* A request is one transaction.  It takes the lock of the row of the      *)
(* token it was given (SELECT ... FOR UPDATE) and holds it to its end;     *)
(* what it writes shows at its commit.  A client may present any token it  *)
(* was ever given, at any time, as often as it likes: a client whose reply *)
(* was lost presents the old one again.                                    *)
(***************************************************************************)
EXTENDS Integers

CONSTANTS
    Token,     \* tokens new_refresh_token may draw, never the same twice
    User,
    Handler,   \* requests served at once
    TTL,       \* settings.refresh_token_ttl_seconds, in ticks
    MaxTime,   \* bound: last instant
    Nobody     \* replaced_by_id is NULL

ASSUME TokensAssumption ==
    /\ TTL \in Nat \ {0} /\ MaxTime \in Nat
    /\ Nobody \notin Token

VARIABLES
    now,       \* the clock of the application
    row,       \* row[t]: the committed refresh_tokens row of t
    req,       \* req[h]: the transaction of request h
    struck     \* tokens the UPDATEs of detected reuses had before them (history)

tokenvars == <<now, row, req, struck>>

Never == -1      \* revoked_at is NULL
Instant == 0 .. MaxTime

(* root is the token of the sign-in that the row descends from.  No column *)
(* holds it: replaced_by_id leads from it to the row.                      *)
Row == [user : User \cup {Nobody}, root : Token \cup {Nobody},
        expires : 0 .. (MaxTime + TTL), revoked : Instant \cup {Never},
        next : Token \cup {Nobody}]
Blank == [user |-> Nobody, root |-> Nobody, expires |-> 0,
          revoked |-> Never, next |-> Nobody]

Issued == {t \in Token : row[t] # Blank}
Usable(t) == t \in Issued /\ row[t].revoked = Never

(* seen: revoked_at as the SELECT returned it, at the instant since;       *)
(* found: what the UPDATE of a detected reuse selected, todo: what of it   *)
(* it has not yet locked.                                                  *)
Request == [at : {"idle", "refresh", "logout", "striking"},
            token : Token \cup {Nobody}, seen : Instant \cup {Never},
            since : Instant, found : SUBSET Token, todo : SUBSET Token]
AtRest == [at |-> "idle", token |-> Nobody, seen |-> Never, since |-> 0,
           found |-> {}, todo |-> {}]

(* Mutation: the row is selected without FOR UPDATE.                       *)
LocksOfUpdate(h) == req[h].found \ req[h].todo

(* The rows a transaction has locked: the one it selected FOR UPDATE, and  *)
(* those its UPDATE has reached.                                           *)
Locks(h) == IF req[h].at = "idle" THEN {}
            ELSE {req[h].token} \cup (req[h].found \ req[h].todo)

RowFree(h, t) == \A g \in Handler \ {h} : t \notin Locks(g)

TokensInit ==
    /\ now = 0
    /\ row = [t \in Token |-> Blank]
    /\ req = [h \in Handler |-> AtRest]
    /\ struck = {}

-----------------------------------------------------------------------------
(* A new row of the session that root began.                               *)
Fresh(u, root, at) ==
    [user |-> u, root |-> root, expires |-> at + TTL, revoked |-> Never, next |-> Nobody]

(* login, and register for a new account: authenticate, issue_tokens and   *)
(* commit; nothing is locked.                                              *)
SignIn(u, t) ==
    /\ t \notin Issued
    /\ row' = [row EXCEPT ![t] = Fresh(u, t, now)]
    /\ UNCHANGED <<now, req, struck>>

(* POST /refresh or /logout: SELECT ... FOR UPDATE of the presented token, *)
(* which waits for the lock, and then the clock.  A token that has no row  *)
(* ends the request at once.                                               *)
Present(h, op, t) ==
    /\ req[h].at = "idle" /\ t \in Issued /\ RowFree(h, t)
    /\ req' = [req EXCEPT ![h] = [AtRest EXCEPT !.at = op, !.token = t,
                                    !.seen = row[t].revoked, !.since = now]]
    /\ UNCHANGED <<now, row, struck>>

Finish(h) == req' = [req EXCEPT ![h] = AtRest]

(* Of a token that was revoked before: UPDATE ... WHERE user_id = ... AND  *)
(* revoked_at IS NULL, which sees the rows that are committed as it starts.*)
DetectReuse(h) ==
    LET mine == {t \in Token : Usable(t) /\ row[t].user = row[req[h].token].user}
    IN /\ req[h].at = "refresh" /\ req[h].seen # Never
       /\ req' = [req EXCEPT ![h] = [@ EXCEPT !.at = "striking",
                                              !.found = mine, !.todo = mine]]
       /\ UNCHANGED <<now, row, struck>>

(* The UPDATE reaches one row, in no order it has to keep, and waits for   *)
(* its lock.  A row revoked meanwhile no longer matches and stays as it is.*)
Strike(h, t) ==
    /\ req[h].at = "striking" /\ t \in req[h].todo /\ RowFree(h, t)
    /\ req' = [req EXCEPT ![h].todo = @ \ {t}]
    /\ UNCHANGED <<now, row, struck>>

(* Mutation: every APIError rolls back, this one too.                      *)
RefuseReusedRollsBack(h) ==
    /\ req[h].at = "striking" /\ req[h].todo = {}
    /\ struck' = struck \cup req[h].found
    /\ Finish(h)
    /\ UNCHANGED <<now, row>>

(* 401 refresh_token_reused, after a commit.                               *)
RefuseReused(h) ==
    /\ req[h].at = "striking" /\ req[h].todo = {}
    /\ row' = [t \in Token |->
                 IF t \in req[h].found /\ row[t].revoked = Never
                 THEN [row[t] EXCEPT !.revoked = req[h].since] ELSE row[t]]
    /\ struck' = struck \cup req[h].found
    /\ Finish(h)
    /\ UNCHANGED now

Expired(h) == row[req[h].token].expires <= req[h].since

Revoke(t, at) == row' = [row EXCEPT ![t].revoked = at]

(* 401 refresh_token_expired, after a commit.                              *)
RefuseExpired(h) ==
    /\ req[h].at = "refresh" /\ req[h].seen = Never /\ Expired(h)
    /\ Revoke(req[h].token, req[h].since)
    /\ Finish(h)
    /\ UNCHANGED <<now, struck>>

(* Mutation: the replacement is stored, the old token is left as it was.   *)
RotateAdds(h, new) ==
    LET old == req[h].token
    IN /\ req[h].at = "refresh" /\ req[h].seen = Never /\ ~Expired(h)
       /\ new \notin Issued
       /\ row' = [row EXCEPT ![new] = Fresh(row[old].user, row[old].root, req[h].since)]
       /\ Finish(h)
       /\ UNCHANGED <<now, struck>>

(* The replacement is inserted, the old row revoked and linked to it; the  *)
(* insert shows to others with the commit only.                            *)
Rotate(h, new) ==
    LET old == req[h].token
    IN /\ req[h].at = "refresh" /\ req[h].seen = Never /\ ~Expired(h)
       /\ new \notin Issued
       /\ row' = [row EXCEPT ![new] = Fresh(row[old].user, row[old].root, req[h].since),
                             ![old].revoked = req[h].since, ![old].next = new]
       /\ Finish(h)
       /\ UNCHANGED <<now, struck>>

(* Mutation: a logout marks the token with its expiry.                     *)
LogoutAtExpiry(h) ==
    /\ req[h].at = "logout"
    /\ IF req[h].seen = Never
       THEN Revoke(req[h].token, row[req[h].token].expires) ELSE UNCHANGED row
    /\ Finish(h)
    /\ UNCHANGED <<now, struck>>

(* revoke_refresh_token; a token revoked before is left alone.             *)
Logout(h) ==
    /\ req[h].at = "logout"
    /\ IF req[h].seen = Never THEN Revoke(req[h].token, req[h].since) ELSE UNCHANGED row
    /\ Finish(h)
    /\ UNCHANGED <<now, struck>>

(* The process dies, the client goes away, or PostgreSQL breaks a deadlock *)
(* of two UPDATEs: the transaction is rolled back.                         *)
Abort(h) ==
    /\ req[h].at # "idle"
    /\ Finish(h)
    /\ UNCHANGED <<now, row, struck>>

Tick ==
    /\ now < MaxTime
    /\ now' = now + 1
    /\ UNCHANGED <<row, req, struck>>

Serve(h) ==
    \/ \E op \in {"refresh", "logout"}, t \in Token : Present(h, op, t)
    \/ DetectReuse(h) \/ RefuseReused(h) \/ RefuseExpired(h) \/ Logout(h) \/ Abort(h)
    \/ \E t \in Token : Strike(h, t) \/ Rotate(h, t)

TokensNext ==
    \/ \E u \in User, t \in Token : SignIn(u, t)
    \/ \E h \in Handler : Serve(h)
    \/ Tick

TokensSpec == TokensInit /\ [][TokensNext]_tokenvars

-----------------------------------------------------------------------------
(* Properties.                                                             *)

(* Every variable keeps its type.                                          *)
TokensTypeOK ==
    /\ now \in Instant
    /\ row \in [Token -> Row]
    /\ req \in [Handler -> Request]
    /\ struck \subseteq Token

(* docs/SECURITY.md:5, "reuse revokes other active refresh tokens": once a *)
(* client is told refresh_token_reused, every token of the account that    *)
(* the UPDATE had before it is unusable, although others rotate, expire or *)
(* log out the same rows meanwhile, and although the request fails.  A     *)
(* token whose insert was not yet committed was not before it.             *)
ToldMeansRevoked == \A t \in struck : ~Usable(t)

(* revoked_at and replaced_by_id tell when and by what a token ended: the  *)
(* first revocation stands, whichever requests race for the row.           *)
RevocationStands ==
    [][\A t \in Token : row[t].revoked # Never => row'[t] = row[t]]_tokenvars

(* The rows implement Sessions: however refreshes, retries, logouts and    *)
(* reuse detections interleave, a sign-in has one usable token at most, a  *)
(* refresh replaces exactly it, and what was closed never comes back.      *)
Abstract == INSTANCE Sessions WITH
    live <- [r \in Token |-> {t \in Token : Usable(t) /\ row[t].root = r}],
    issued <- Issued

ImplementsSessions == Abstract!SessionsSpec
=============================================================================
