----------------------------- MODULE TokensProofs -----------------------------
(***************************************************************************)
(* Theorems about Tokens, for any number of tokens, accounts and requests. *)
(*                                                                         *)
(* What is asked of the rows is true only because of the row locks: what a *)
(* request read when it got the lock is still so when it commits.  IInv    *)
(* says that (ReadStands), that locks exclude each other, and that a       *)
(* session has one usable token.                                           *)
(***************************************************************************)
EXTENDS Tokens, TLAPS

(* A row descends from an issued row; what has no row is blank.            *)
Rooted == \A t \in Issued : row[t].root \in Issued

OneUsable ==
    \A s, t \in Token :
      Usable(s) /\ Usable(t) /\ row[s].root = row[t].root => s = t

Exclusive == \A g, h \in Handler : g # h => Locks(g) \cap Locks(h) = {}

(* What a request relies on until it ends.                                 *)
ReadStands ==
    \A h \in Handler : req[h].at # "idle" =>
      /\ req[h].token \in Issued
      /\ req[h].seen = row[req[h].token].revoked
      /\ req[h].found \subseteq Issued /\ req[h].todo \subseteq req[h].found

Told == \A t \in struck : row[t].revoked # Never

IInv == TokensTypeOK /\ Rooted /\ OneUsable /\ Exclusive /\ ReadStands /\ Told

-----------------------------------------------------------------------------
LEMMA NeverIsNoInstant == Never \notin Instant
  BY TokensAssumption DEF Never, Instant

LEMMA InitInv == TokensInit => IInv
  <1> SUFFICES ASSUME TokensInit PROVE IInv
    OBVIOUS
  <1>1. Issued = {}
    BY DEF TokensInit, Issued
  <1>2. TokensTypeOK
    BY TokensAssumption
    DEF TokensInit, TokensTypeOK, Instant, Row, Request, Blank, AtRest, Never
  <1>3. QED
    BY <1>1, <1>2
    DEF IInv, Rooted, OneUsable, Usable, Exclusive, Locks, ReadStands, Told, TokensInit, AtRest

(* A request that ends leaves the others what they rely on, if it wrote no *)
(* issued row but those it had locked.                                     *)
LEMMA EndKeepsOthers ==
  ASSUME IInv, NEW h \in Handler, Finish(h), TokensTypeOK', Issued \subseteq Issued',
         \A t \in Issued \ Locks(h) : row'[t] = row[t]
  PROVE  Exclusive' /\ ReadStands'
  <1>1. req' = [req EXCEPT ![h] = AtRest] /\ req \in [Handler -> Request]
    BY DEF Finish, IInv, TokensTypeOK
  <1>2. Locks(h)' = {} /\ \A g \in Handler \ {h} : req'[g] = req[g] /\ Locks(g)' = Locks(g)
    BY <1>1 DEF Locks, AtRest
  <1>3. Exclusive'
    BY <1>2 DEF IInv, Exclusive
  <1>4. ASSUME NEW g \in Handler, req'[g].at # "idle"
        PROVE  /\ req'[g].token \in Issued'
               /\ req'[g].seen = row'[req'[g].token].revoked
               /\ req'[g].found \subseteq Issued' /\ req'[g].todo \subseteq req'[g].found
    <2>1. g # h /\ req'[g] = req[g]
      BY <1>1, <1>2, <1>4 DEF AtRest
    <2>2. req[g].token \in Locks(g) /\ req[g].token \notin Locks(h)
      BY <1>4, <2>1 DEF IInv, Exclusive, Locks
    <2>3. QED
      BY <1>4, <2>1, <2>2 DEF IInv, ReadStands
  <1>5. QED
    BY <1>3, <1>4 DEF ReadStands

(* A step that writes no row keeps what is said of rows.                   *)
LEMMA RowsStand ==
  ASSUME IInv, row' = row, struck' = struck
  PROVE  Rooted' /\ OneUsable' /\ Told' /\ Issued' = Issued
  BY DEF IInv, Rooted, OneUsable, Told, Issued, Usable

LEMMA AtRestIsRequest == AtRest \in Request
  BY TokensAssumption DEF AtRest, Request, Instant, Never

LEMMA PresentInv ==
  ASSUME IInv, NEW h \in Handler, NEW op \in {"refresh", "logout"}, NEW t \in Token,
         Present(h, op, t)
  PROVE  IInv'
  <1> DEFINE begun == [AtRest EXCEPT !.at = op, !.token = t,
                                     !.seen = row[t].revoked, !.since = now]
  <1>a. row[t] \in Row /\ now \in Instant
    BY DEF IInv, TokensTypeOK
  <1>b. begun \in Request
    BY <1>a, AtRestIsRequest DEF Request, Row
  <1>0. /\ begun.at = op /\ begun.token = t /\ begun.seen = row[t].revoked
        /\ begun.found = {} /\ begun.todo = {}
    BY AtRestIsRequest DEF AtRest, Request
  <1>c. req' = [req EXCEPT ![h] = begun]
    BY DEF Present
  <1> HIDE DEF begun
  <1>1. req'[h] = begun /\ \A g \in Handler \ {h} : req'[g] = req[g]
    BY <1>c DEF IInv, TokensTypeOK
  <1>2. TokensTypeOK'
    BY <1>b, <1>c DEF Present, IInv, TokensTypeOK
  <1>3. req[h].at = "idle" /\ t \in Issued /\ Issued' = Issued /\ row' = row
    BY RowsStand DEF Present
  <1>4. Locks(h)' = {t} /\ \A g \in Handler \ {h} : Locks(g)' = Locks(g)
    BY <1>0, <1>1 DEF Locks
  <1>5. Exclusive'
    BY <1>4 DEF Present, RowFree, IInv, Exclusive
  <1>6. ReadStands'
    BY <1>0, <1>1, <1>3 DEF IInv, ReadStands
  <1>7. QED
    BY <1>2, <1>5, <1>6, RowsStand DEF Present, IInv

LEMMA DetectReuseInv ==
  ASSUME IInv, NEW h \in Handler, DetectReuse(h)
  PROVE  IInv'
  <1> DEFINE mine == {t \in Token : Usable(t) /\ row[t].user = row[req[h].token].user}
  <1>1. req' = [req EXCEPT ![h] = [@ EXCEPT !.at = "striking", !.found = mine, !.todo = mine]]
    BY DEF DetectReuse
  <1>2. mine \subseteq Issued /\ mine \subseteq Token
    BY DEF Usable
  <1> HIDE DEF mine
  <1>3. /\ req'[h] = [req[h] EXCEPT !.at = "striking", !.found = mine, !.todo = mine]
        /\ \A g \in Handler \ {h} : req'[g] = req[g]
    BY <1>1 DEF IInv, TokensTypeOK
  <1>a. req'[h] \in Request
    BY <1>2, <1>3 DEF IInv, TokensTypeOK, Request
  <1>b. req' = [req EXCEPT ![h] = req'[h]]
    BY <1>1 DEF IInv, TokensTypeOK
  <1>4. TokensTypeOK'
    BY <1>a, <1>b DEF DetectReuse, IInv, TokensTypeOK
  <1>5. /\ req[h].at # "idle" /\ Locks(h)' \subseteq Locks(h)
        /\ \A g \in Handler \ {h} : Locks(g)' = Locks(g)
    BY <1>3 DEF DetectReuse, Locks, IInv, TokensTypeOK, Request
  <1>6. Exclusive'
    BY <1>5 DEF IInv, Exclusive
  <1>7. Issued' = Issued /\ row' = row
    BY RowsStand DEF DetectReuse
  <1>8. req'[h].token = req[h].token /\ req'[h].seen = req[h].seen
        /\ req'[h].found = mine /\ req'[h].todo = mine
    BY <1>3 DEF IInv, TokensTypeOK, Request
  <1>9. ReadStands'
    BY <1>2, <1>3, <1>5, <1>7, <1>8 DEF IInv, ReadStands
  <1>10. QED
    BY <1>4, <1>6, <1>9, RowsStand DEF DetectReuse, IInv

LEMMA StrikeInv ==
  ASSUME IInv, NEW h \in Handler, NEW t \in Token, Strike(h, t)
  PROVE  IInv'
  <1>1. /\ req'[h] = [req[h] EXCEPT !.todo = req[h].todo \ {t}]
        /\ \A g \in Handler \ {h} : req'[g] = req[g]
    BY DEF Strike, IInv, TokensTypeOK
  <1>2. TokensTypeOK'
    BY DEF Strike, IInv, TokensTypeOK, Request
  <1>3. /\ req'[h].at = req[h].at /\ req'[h].token = req[h].token
        /\ req'[h].seen = req[h].seen /\ req'[h].found = req[h].found
        /\ req'[h].todo = req[h].todo \ {t}
    BY <1>1 DEF IInv, TokensTypeOK, Request
  <1>4. /\ Locks(h)' \subseteq Locks(h) \cup {t}
        /\ \A g \in Handler \ {h} : Locks(g)' = Locks(g) /\ t \notin Locks(g)
    BY <1>1, <1>3 DEF Strike, Locks, RowFree
  <1>5. Exclusive'
    BY <1>4 DEF IInv, Exclusive
  <1>6. Issued' = Issued /\ row' = row
    BY RowsStand DEF Strike
  <1>7. ReadStands'
    BY <1>1, <1>3, <1>6 DEF IInv, ReadStands
  <1>8. QED
    BY <1>2, <1>5, <1>7, RowsStand DEF Strike, IInv

(* The rows with every token of R revoked that was not.                    *)
Revoking(R, at) ==
    [t \in Token |-> IF t \in R /\ row[t].revoked = Never
                     THEN [row[t] EXCEPT !.revoked = at] ELSE row[t]]

(* A request that ends with the revocation of rows it had locked keeps the *)
(* invariant, and closes sessions.                                         *)
LEMMA RevokingCloses ==
  ASSUME IInv, NEW h \in Handler, NEW R \in SUBSET Issued, R \subseteq Locks(h),
         row' = Revoking(R, req[h].since), Finish(h), now' = now,
         struck' \in {struck, struck \cup R}
  PROVE  IInv' /\ Abstract!Close
  <1>1. /\ req[h].since \in Instant /\ req[h].since # Never
        /\ row \in [Token -> Row] /\ Issued \subseteq Token
    BY NeverIsNoInstant DEF IInv, TokensTypeOK, Request, Issued
  <1>2. ASSUME NEW t \in Token
        PROVE  /\ row'[t] \in Row /\ row'[t].root = row[t].root
               /\ t \notin R => row'[t] = row[t]
               /\ t \in R => row'[t].revoked # Never
               /\ row[t].revoked # Never => row'[t] = row[t]
    <2>1. CASE t \in R /\ row[t].revoked = Never
      <3>1. row'[t] = [row[t] EXCEPT !.revoked = req[h].since]
        BY <2>1 DEF Revoking
      <3>2. QED
        BY <1>1, <2>1, <3>1 DEF Row
    <2>2. CASE ~(t \in R /\ row[t].revoked = Never)
      BY <1>1, <2>2 DEF Revoking
    <2>3. QED
      BY <2>1, <2>2
  <1>3. Issued' = Issued
    <2>1. Blank.revoked = Never
      BY DEF Blank
    <2>2. QED
      BY <1>2, <2>1 DEF Issued
  <1>4. ASSUME NEW t \in Token
        PROVE  Usable(t)' <=> Usable(t) /\ t \notin R
    BY <1>2, <1>3 DEF Usable
  <1>5. TokensTypeOK'
    <2>1. row' \in [Token -> Row]
      BY <1>2 DEF Revoking
    <2>2. req' \in [Handler -> Request]
      BY AtRestIsRequest DEF Finish, IInv, TokensTypeOK
    <2>3. QED
      BY <1>1, <2>1, <2>2 DEF IInv, TokensTypeOK
  <1>6. Exclusive' /\ ReadStands'
    BY <1>1, <1>2, <1>3, <1>5, EndKeepsOthers
  <1>7. Rooted'
    BY <1>1, <1>2, <1>3 DEF IInv, Rooted
  <1>8. OneUsable'
    BY <1>2, <1>4 DEF IInv, OneUsable
  <1>9. Told'
    BY <1>1, <1>2 DEF IInv, Told, TokensTypeOK
  <1>10. Abstract!Close
    <2> DEFINE live == [r \in Token |-> {t \in Token : Usable(t) /\ row[t].root = r}]
    <2>1. ASSUME NEW r \in Token
          PROVE  live'[r] = IF live'[r] = {} THEN {} ELSE live[r]
      <3>1. live'[r] \subseteq live[r]
        BY <1>2, <1>4
      <3>2. \A s, t \in live[r] : s = t
        BY DEF IInv, OneUsable
      <3>3. QED
        BY <3>1, <3>2
    <2>2. live' = [r \in Token |-> IF live'[r] = {} THEN {} ELSE live[r]]
      BY <2>1
    <2>3. QED
      BY <1>3, <2>2 DEF Abstract!Close
  <1>11. QED
    BY <1>5, <1>6, <1>7, <1>8, <1>9, <1>10 DEF IInv

LEMMA RevokeIsRevoking ==
  ASSUME IInv, NEW t \in Issued, row[t].revoked = Never, NEW at, Revoke(t, at)
  PROVE  row' = Revoking({t}, at)
  BY DEF Revoke, Revoking, IInv, TokensTypeOK, Issued

(* Logout, expiry and reuse all end that way.                              *)
LEMMA EndsCloseSessions ==
  ASSUME IInv, NEW h \in Handler,
         RefuseReused(h) \/ RefuseExpired(h) \/ (Logout(h) /\ req[h].seen = Never)
  PROVE  /\ IInv' /\ Abstract!Close
         /\ \A t \in Token : row[t].revoked # Never => row'[t] = row[t]
  <1> DEFINE R == IF req[h].at = "striking" THEN req[h].found ELSE {req[h].token}
  <1>1. /\ req[h].at \in {"refresh", "logout", "striking"}
        /\ req[h].token \in Issued /\ req[h].found \subseteq Issued
        /\ req[h].seen = row[req[h].token].revoked
    BY DEF RefuseReused, RefuseExpired, Logout, IInv, ReadStands
  <1>2. /\ row' = Revoking(R, req[h].since)
        /\ struck' \in {struck, struck \cup R} /\ now' = now /\ Finish(h)
        /\ req[h].at = "striking" => req[h].todo = {}
    <2>1. CASE RefuseReused(h)
      BY <2>1 DEF RefuseReused, Revoking
    <2>2. CASE RefuseExpired(h)
      BY <1>1, <2>2, RevokeIsRevoking DEF RefuseExpired
    <2>3. CASE Logout(h) /\ req[h].seen = Never
      BY <1>1, <2>3, RevokeIsRevoking DEF Logout
    <2>4. QED
      BY <2>1, <2>2, <2>3
  <1>3. R \subseteq Issued /\ R \subseteq Locks(h)
    BY <1>1, <1>2 DEF Locks
  <1>4. IInv' /\ Abstract!Close
    BY <1>2, <1>3, RevokingCloses
  <1>5. \A t \in Token : row[t].revoked # Never => row'[t] = row[t]
    BY <1>2 DEF Revoking
  <1>6. QED
    BY <1>4, <1>5

(* A fresh row beside the others, for a sign-in.                           *)
LEMMA SignInOpens ==
  ASSUME IInv, NEW u \in User, NEW t \in Token, SignIn(u, t)
  PROVE  /\ IInv' /\ Abstract!Open(t)
         /\ \A s \in Token : row[s].revoked # Never => row'[s] = row[s]
  <1>1. /\ row' = [row EXCEPT ![t] = Fresh(u, t, now)] /\ t \notin Issued
        /\ row \in [Token -> Row] /\ now \in Instant
    BY DEF SignIn, IInv, TokensTypeOK
  <1>2. /\ Fresh(u, t, now) \in Row /\ Fresh(u, t, now).root = t
        /\ Fresh(u, t, now).revoked = Never /\ Fresh(u, t, now) # Blank
    BY <1>1, TokensAssumption DEF Fresh, Row, Instant, Blank
  <1>3. /\ row'[t] = Fresh(u, t, now)
        /\ \A s \in Token \ {t} : row'[s] = row[s]
    BY <1>1
  <1>4. /\ Issued' = Issued \cup {t} /\ Usable(t)'
        /\ \A s \in Token \ {t} : Usable(s)' <=> Usable(s)
    BY <1>2, <1>3 DEF Issued, Usable
  <1>5. TokensTypeOK'
    BY <1>1, <1>2 DEF SignIn, IInv, TokensTypeOK
  <1>6. Exclusive' /\ ReadStands'
    <2>1. req' = req /\ \A s \in Issued : row'[s] = row[s]
      BY <1>1, <1>3 DEF SignIn, Issued
    <2>2. QED
      BY <1>4, <2>1 DEF IInv, Exclusive, ReadStands, Locks
  <1>7. Rooted' /\ \A s \in Issued : row[s].root # t
    BY <1>1, <1>2, <1>3, <1>4 DEF IInv, Rooted, Issued
  <1>8. OneUsable'
    BY <1>2, <1>3, <1>4, <1>7 DEF IInv, OneUsable, Usable
  <1>9. Blank.revoked = Never /\ row[t] = Blank
    BY <1>1 DEF Blank, Issued
  <1>10. Told'
    BY <1>3, <1>9 DEF IInv, Told, TokensTypeOK, SignIn
  <1>11. Abstract!Open(t)
    <2> DEFINE live == [r \in Token |-> {s \in Token : Usable(s) /\ row[s].root = r}]
    <2>1. live'[t] = {t}
      BY <1>2, <1>3, <1>4, <1>7 DEF Usable
    <2>a. ~Usable(t) /\ row'[t].root = t
      BY <1>1, <1>2, <1>3 DEF Usable
    <2>2. ASSUME NEW r \in Token \ {t} PROVE live'[r] = live[r]
      <3>1. ASSUME NEW s \in Token
            PROVE  Usable(s)' /\ row'[s].root = r <=> Usable(s) /\ row[s].root = r
        BY <1>3, <1>4, <2>a
      <3>2. QED
        BY <3>1
    <2>3. live' = [live EXCEPT ![t] = {t}]
      BY <2>1, <2>2
    <2>4. QED
      BY <1>1, <1>4, <2>3 DEF Abstract!Open
  <1>12. QED
    BY <1>3, <1>5, <1>6, <1>7, <1>8, <1>9, <1>10, <1>11 DEF IInv

(* A rotation puts the fresh token in the place of the one it revokes.     *)
LEMMA RotateRefreshes ==
  ASSUME IInv, NEW h \in Handler, NEW new \in Token, Rotate(h, new),
         NEW old, old = req[h].token, NEW root, root = row[old].root
  PROVE  /\ IInv' /\ root \in Token /\ Abstract!Refresh(root, new)
         /\ \A s \in Token : row[s].revoked # Never => row'[s] = row[s]
  <1> DEFINE at == req[h].since
             fresh == Fresh(row[old].user, row[old].root, at)
  <1>1. /\ old \in Issued /\ row[old].revoked = Never /\ new \notin Issued
        /\ old \in Token /\ old # new /\ root \in Issued /\ root \in Token
        /\ row \in [Token -> Row] /\ at \in Instant /\ at # Never
    BY NeverIsNoInstant
    DEF Rotate, IInv, ReadStands, Rooted, TokensTypeOK, Request, Issued
  <1>2. /\ row'[new] = fresh
        /\ row'[old] = [row[old] EXCEPT !.revoked = at, !.next = new]
        /\ \A s \in Token \ {old, new} : row'[s] = row[s]
    BY <1>1 DEF Rotate
  <1>3. /\ fresh \in Row /\ fresh.root = root /\ fresh.revoked = Never
    BY <1>1, TokensAssumption DEF Fresh, Row, Instant
  <1>a. fresh # Blank
    <2>1. root # Nobody /\ Blank.root = Nobody
      BY <1>1, TokensAssumption DEF Blank
    <2>2. QED
      BY <1>3, <2>1
  <1>4. /\ row'[old] \in Row /\ row'[old].root = root /\ row'[old].revoked = at
    BY <1>1, <1>2, ZenonT(40) DEF Row
  <1>5. Blank.revoked = Never /\ row[new] = Blank
    BY <1>1 DEF Blank, Issued
  <1>6. Issued' = Issued \cup {new}
    BY <1>1, <1>2, <1>3, <1>4, <1>5, <1>a, ZenonT(40) DEF Issued
  <1>7. /\ Usable(new)' /\ ~Usable(old)' /\ Usable(old)
        /\ \A s \in Token \ {old, new} : Usable(s)' <=> Usable(s)
        /\ ~Usable(new)
    <2>1. Usable(new)' /\ ~Usable(old)' /\ Usable(old) /\ ~Usable(new)
      BY <1>1, <1>2, <1>3, <1>4, <1>6 DEF Usable
    <2>2. ASSUME NEW s \in Token \ {old, new}
          PROVE  Usable(s)' <=> Usable(s)
      BY <1>2, <1>6 DEF Usable
    <2>3. QED
      BY <2>1, <2>2
  <1>b. /\ row'[new].root = root
        /\ \A s \in Token \ {new} : row'[s].root = row[s].root
    BY <1>2, <1>3, <1>4
  <1>8. \A s \in Token \ {old, new} : Usable(s) => row[s].root # root
    BY <1>1, <1>7 DEF IInv, OneUsable
  <1>9. TokensTypeOK'
    <2>1. row' = [row EXCEPT ![new] = row'[new], ![old] = row'[old]]
      BY <1>1, <1>2 DEF Rotate
    <2>2. row' \in [Token -> Row]
      BY <1>1, <1>2, <1>3, <1>4, <2>1
    <2>3. QED
      BY <2>2, AtRestIsRequest DEF Rotate, Finish, IInv, TokensTypeOK
  <1>10. Exclusive' /\ ReadStands'
    <2>1. old \in Locks(h) /\ Issued \subseteq Token
      BY DEF Rotate, Locks, Issued
    <2>2. \A s \in Issued \ Locks(h) : row'[s] = row[s]
      BY <1>1, <1>2, <2>1
    <2>3. QED
      BY <1>6, <1>9, <2>2, EndKeepsOthers DEF Rotate
  <1>11. Rooted'
    <2>1. Issued \subseteq Token
      BY DEF Issued
    <2>2. QED
      BY <1>1, <1>6, <1>b, <2>1 DEF IInv, Rooted
  <1>12. OneUsable'
    <2>1. ASSUME NEW s \in Token, NEW t \in Token, Usable(s)', Usable(t)',
                 row'[s].root = row'[t].root
          PROVE  s = t
      <3>1. s # old /\ t # old
        BY <1>7, <2>1
      <3>2. CASE s = new \/ t = new
        BY <1>7, <1>8, <1>b, <2>1, <3>1, <3>2
      <3>3. CASE s # new /\ t # new
        BY <1>7, <1>b, <2>1, <3>1, <3>3 DEF IInv, OneUsable
      <3>4. QED
        BY <3>2, <3>3
    <2>2. QED
      BY <2>1 DEF OneUsable
  <1>13. Told'
    BY <1>1, <1>2, <1>4, <1>5 DEF IInv, Told, TokensTypeOK, Rotate
  <1>14. Abstract!Refresh(root, new)
    <2> DEFINE live == [r \in Token |-> {s \in Token : Usable(s) /\ row[s].root = r}]
    <2>1. live[root] # {}
      BY <1>1, <1>7
    <2>2. live'[root] = {new}
      <3>1. ASSUME NEW s \in Token, Usable(s)', row'[s].root = root
            PROVE  s = new
        BY <1>7, <1>8, <1>b, <3>1
      <3>2. QED
        BY <1>1, <1>7, <1>b, <3>1
    <2>3. ASSUME NEW r \in Token \ {root} PROVE live'[r] = live[r]
      <3>1. ASSUME NEW s \in Token
            PROVE  Usable(s)' /\ row'[s].root = r <=> Usable(s) /\ row[s].root = r
        BY <1>7, <1>b
      <3>2. QED
        BY <3>1
    <2>4. live' = [live EXCEPT ![root] = {new}]
      BY <2>2, <2>3
    <2>5. QED
      BY <1>1, <1>6, <2>1, <2>4 DEF Abstract!Refresh
  <1>15. \A s \in Token : row[s].revoked # Never => row'[s] = row[s]
    BY <1>1, <1>2, <1>5
  <1>16. IInv'
    BY <1>9, <1>10, <1>11, <1>12, <1>13 DEF IInv
  <1>17. QED
    BY <1>1, <1>14, <1>15, <1>16

-----------------------------------------------------------------------------
(* What one step does, for all the theorems at once.                       *)
LEMMA OneStep ==
  ASSUME IInv, [TokensNext]_tokenvars
  PROVE  /\ IInv'
         /\ \A t \in Token : row[t].revoked # Never => row'[t] = row[t]
         /\ Abstract!SessionsNext \/ (Issued' = Issued /\ row' = row)
  <1>1. ASSUME row' = row, IInv'
        PROVE  /\ \A t \in Token : row[t].revoked # Never => row'[t] = row[t]
               /\ Issued' = Issued /\ row' = row
    BY <1>1 DEF Issued
  <1>2. CASE UNCHANGED tokenvars
    <2>1. IInv' /\ row' = row
      BY <1>2 DEF tokenvars, IInv, TokensTypeOK, Rooted, OneUsable, Usable, Issued,
                  Exclusive, Locks, ReadStands, Told
    <2>2. QED
      BY <1>1, <2>1
  <1>3. ASSUME NEW u \in User, NEW t \in Token, SignIn(u, t)
        PROVE  /\ IInv' /\ Abstract!Open(t)
               /\ \A s \in Token : row[s].revoked # Never => row'[s] = row[s]
    BY <1>3, SignInOpens
  <1>4. CASE Tick
    <2>1. TokensTypeOK'
      BY <1>4, TokensAssumption DEF Tick, IInv, TokensTypeOK, Instant
    <2>2. Exclusive' /\ ReadStands'
      BY <1>4 DEF Tick, IInv, Exclusive, Locks, ReadStands, Issued
    <2>3. QED
      BY <1>1, <1>4, <2>1, <2>2, RowsStand DEF Tick, IInv
  <1>5. ASSUME NEW h \in Handler, NEW t \in Token, NEW op \in {"refresh", "logout"},
               Present(h, op, t) \/ DetectReuse(h) \/ Strike(h, t)
        PROVE  IInv' /\ row' = row
    BY <1>5, PresentInv, DetectReuseInv, StrikeInv DEF Present, DetectReuse, Strike
  <1>6. ASSUME NEW h \in Handler, Abort(h) \/ (Logout(h) /\ req[h].seen # Never)
        PROVE  IInv' /\ row' = row
    <2>1. row' = row /\ now' = now /\ struck' = struck /\ Finish(h)
      BY <1>6 DEF Abort, Logout
    <2>2. TokensTypeOK'
      BY <2>1, AtRestIsRequest DEF Finish, IInv, TokensTypeOK
    <2>3. Issued' = Issued
      BY <2>1, RowsStand
    <2>4. Exclusive' /\ ReadStands'
      BY <2>1, <2>2, <2>3, EndKeepsOthers
    <2>5. QED
      BY <2>1, <2>2, <2>4, RowsStand DEF IInv
  <1>7. ASSUME NEW h \in Handler,
               RefuseReused(h) \/ RefuseExpired(h) \/ (Logout(h) /\ req[h].seen = Never)
        PROVE  /\ IInv' /\ Abstract!Close
               /\ \A t \in Token : row[t].revoked # Never => row'[t] = row[t]
    BY <1>7, EndsCloseSessions
  <1>8. ASSUME NEW h \in Handler, NEW new \in Token, Rotate(h, new)
        PROVE  /\ IInv' /\ \E r \in Token : Abstract!Refresh(r, new)
               /\ \A s \in Token : row[s].revoked # Never => row'[s] = row[s]
    BY <1>8, RotateRefreshes
  <1>9. CASE TokensNext
    <2>1. CASE \E u \in User, t \in Token : SignIn(u, t)
      BY <1>3, <2>1 DEF Abstract!SessionsNext
    <2>2. ASSUME NEW h \in Handler, Serve(h)
          PROVE  /\ IInv'
                 /\ \A t \in Token : row[t].revoked # Never => row'[t] = row[t]
                 /\ Abstract!SessionsNext \/ (Issued' = Issued /\ row' = row)
      <3>1. CASE \/ \E op \in {"refresh", "logout"}, t \in Token : Present(h, op, t)
                 \/ DetectReuse(h) \/ \E t \in Token : Strike(h, t)
        <4>1. Token # {}
          BY <3>1, <2>2 DEF DetectReuse, IInv, ReadStands, Issued
        <4>2. QED
          BY <1>1, <1>5, <3>1, <4>1
      <3>2. CASE Abort(h) \/ (Logout(h) /\ req[h].seen # Never)
        BY <1>1, <1>6, <3>2
      <3>3. CASE RefuseReused(h) \/ RefuseExpired(h) \/ (Logout(h) /\ req[h].seen = Never)
        BY <1>7, <3>3 DEF Abstract!SessionsNext
      <3>4. CASE \E t \in Token : Rotate(h, t)
        BY <1>8, <3>4 DEF Abstract!SessionsNext
      <3>5. QED
        BY <2>2, <3>1, <3>2, <3>3, <3>4 DEF Serve
    <2>3. CASE Tick
      BY <1>4, <2>3
    <2>4. QED
      BY <1>9, <2>1, <2>2, <2>3 DEF TokensNext
  <1>10. QED
    BY <1>2, <1>9

(* The inductive invariant holds for any tokens, accounts and requests.    *)
THEOREM TokensInvariance == TokensSpec => []IInv
  <1>1. IInv /\ [TokensNext]_tokenvars => IInv'
    BY OneStep
  <1>2. QED
    BY InitInv, <1>1, PTL DEF TokensSpec

(* Every variable keeps its type.                                          *)
THEOREM TokensTypeCorrect == TokensSpec => []TokensTypeOK
  <1>1. IInv => TokensTypeOK
    BY DEF IInv
  <1>2. QED
    BY TokensInvariance, <1>1, PTL

(* Once a client is told refresh_token_reused, what the UPDATE had before  *)
(* it is revoked, whatever raced it.                                       *)
THEOREM ReuseIsToldTruly == TokensSpec => []ToldMeansRevoked
  <1>1. IInv => ToldMeansRevoked
    BY DEF IInv, Told, ToldMeansRevoked, Usable
  <1>2. QED
    BY TokensInvariance, <1>1, PTL

(* No request changes a row that is revoked.                               *)
THEOREM FirstRevocationStands == TokensSpec => RevocationStands
  <1>1. IInv /\ [TokensNext]_tokenvars
          => [\A t \in Token : row[t].revoked # Never => row'[t] = row[t]]_tokenvars
    BY OneStep
  <1>2. QED
    BY TokensInvariance, <1>1, PTL DEF TokensSpec, RevocationStands

(* The rows implement Sessions.                                            *)
THEOREM RowsImplementSessions == TokensSpec => ImplementsSessions
  <1>1. TokensInit => Abstract!SessionsInit
    <2> SUFFICES ASSUME TokensInit PROVE Abstract!SessionsInit
      OBVIOUS
    <2>1. Issued = {}
      BY DEF TokensInit, Issued
    <2>2. QED
      BY <2>1 DEF Abstract!SessionsInit, Usable
  <1>2. IInv /\ [TokensNext]_tokenvars => [Abstract!SessionsNext]_(Abstract!sessionvars)
    <2> SUFFICES ASSUME IInv, [TokensNext]_tokenvars
                 PROVE  [Abstract!SessionsNext]_(Abstract!sessionvars)
      OBVIOUS
    <2>1. Issued' = Issued /\ row' = row => UNCHANGED Abstract!sessionvars
      BY DEF Abstract!sessionvars, Usable
    <2>2. QED
      BY OneStep, <2>1
  <1>3. QED
    BY TokensInvariance, <1>1, <1>2, PTL
    DEF TokensSpec, ImplementsSessions, Abstract!SessionsSpec
=============================================================================
