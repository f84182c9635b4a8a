--------------------------- MODULE SchedulerProofs ---------------------------
(***************************************************************************)
(* Proofs about Scheduler, for any number of schedulers, managers, changes *)
(* and flags and every batch size.  The inductive invariant says what a    *)
(* transaction may rely on while it holds its claims and row locks.        *)
(***************************************************************************)
EXTENDS Scheduler, SequenceTheorems, FiniteSetTheorems, TLAPS

-----------------------------------------------------------------------------
(* Types, sharper than SchedTypeOK where the proofs need it.               *)

VersionRow == [by : Change \cup {"api"}, base : Nat]
Entry == [change : Change, base : Nat, version : Nat]
Session == [at : {"asleep", "claimed", "read", "ready", "swapped", "notify"},
            todo : Seq(Change), row : Nat, base : Nat, done : Seq(Entry),
            bumped : SUBSET Env]

Typed ==
    /\ now \in 0 .. MaxTime
    /\ change \in [Change -> {"unknown", "pending", "applied"}]
    /\ history \in [Flag -> Seq(VersionRow)]
    /\ archived \subseteq Flag
    /\ sch \in [Scheduler -> Session]
    /\ mgr \in [Manager -> [at : {"idle", "locked", "bumped"}, flag : SUBSET Flag]]
    /\ crashes \in 0 .. MaxCrashes

(* The batch of s: what is left of it and what is done, never more than    *)
(* Limit; what is claimed is pending; and what was read of the flag whose  *)
(* turn it is can only be older than what there is.                        *)
BatchOK(s) ==
    /\ Len(sch[s].todo) + Len(sch[s].done) <= Limit
    /\ sch[s].at # "asleep" => Len(sch[s].todo) + Len(sch[s].done) > 0
    /\ sch[s].at \in {"read", "ready"} => sch[s].todo # <<>>
    /\ sch[s].at = "swapped" => sch[s].done # <<>>
    /\ sch[s].at = "notify" => sch[s].todo = <<>>
    /\ \A c \in Claimed(s) : change[c] = "pending"
    /\ sch[s].at \in {"read", "ready"} =>
         sch[s].row <= Seen(s, FlagOf[Head(sch[s].todo)])
    /\ sch[s].at = "ready" =>
         sch[s].row <= sch[s].base /\ sch[s].base <= Seen(s, FlagOf[Head(sch[s].todo)])

(* An entry that derives from the last version of its flag.                *)
FollowsLast(d) ==
    d.base = Len(history[FlagOf[d.change]]) /\ d.version = d.base + 1

(* Entries whose environment has been incremented.                         *)
Settled(s) == IF sch[s].at = "swapped" THEN Len(sch[s].done) - 1 ELSE Len(sch[s].done)

(* The environments of the settled entries are incremented and distinct,   *)
(* and these entries derive from the last version of their flags; so does  *)
(* the last entry unless its environment is about to make the batch fail.  *)
WrittenOK(s) ==
    Open(s) =>
      /\ \A i \in 1 .. Settled(s) : EnvOf(sch[s].done[i].change) \in sch[s].bumped
      /\ \A i, j \in 1 .. Settled(s) :
           EnvOf(sch[s].done[i].change) = EnvOf(sch[s].done[j].change) => i = j
      /\ \A i \in 1 .. Len(sch[s].done) :
           (i <= Settled(s) \/ EnvOf(sch[s].done[i].change) \notin sch[s].bumped)
             => FollowsLast(sch[s].done[i])

(* Two transactions never hold the same row or claim the same change.      *)
RowsExclusive ==
    \A p, q \in Process, f \in Flag : RowHeld(p, f) /\ RowHeld(q, f) => p = q

ClaimsApart ==
    \A s, t \in Scheduler : s # t => Claimed(s) \cap Claimed(t) = {}

IInv ==
    /\ Typed
    /\ \A s \in Scheduler : BatchOK(s) /\ WrittenOK(s)
    /\ RowsExclusive
    /\ ClaimsApart
    /\ AppliedOnce
    /\ DerivedFromLast

-----------------------------------------------------------------------------
(* Sequences.                                                              *)

LEMMA TakeHead ==
    ASSUME NEW S, NEW q \in Seq(S), q # <<>>
    PROVE  /\ Head(q) \in ToSet(q) /\ ToSet(q) \subseteq S
           /\ Tail(q) \in Seq(S) /\ Len(Tail(q)) = Len(q) - 1 /\ Len(q) > 0
           /\ ToSet(Tail(q)) \subseteq ToSet(q)
<1>1. Len(q) \in Nat /\ Len(q) > 0 /\ DOMAIN q = 1 .. Len(q)
  OBVIOUS
<1>2. /\ Tail(q) \in Seq(S) /\ Len(Tail(q)) = Len(q) - 1
      /\ \A i \in 1 .. Len(q) - 1 : Tail(q)[i] = q[i + 1]
  BY <1>1
<1>3. ToSet(Tail(q)) \subseteq ToSet(q)
  <2>1. ASSUME NEW i \in DOMAIN Tail(q)
        PROVE  Tail(q)[i] \in ToSet(q)
    <3>1. i \in 1 .. Len(q) - 1
      BY <1>2
    <3>2. i + 1 \in DOMAIN q /\ Tail(q)[i] = q[i + 1]
      BY <1>1, <1>2, <3>1
    <3> QED BY <3>2 DEF ToSet
  <2> QED BY <2>1 DEF ToSet
<1>4. Head(q) \in ToSet(q)
  <2>1. Head(q) = q[1] /\ 1 \in DOMAIN q
    BY <1>1
  <2> QED BY <2>1 DEF ToSet
<1>5. ToSet(q) \subseteq S
  BY <1>1 DEF ToSet
<1> QED BY <1>1, <1>2, <1>3, <1>4, <1>5

LEMMA AddLast ==
    ASSUME NEW S, NEW q \in Seq(S), NEW x \in S
    PROVE  /\ Append(q, x) \in Seq(S) /\ Len(Append(q, x)) = Len(q) + 1
           /\ \A i \in 1 .. Len(q) : Append(q, x)[i] = q[i]
           /\ Append(q, x)[Len(q) + 1] = x
           /\ Last(Append(q, x)) = x
           /\ ToSet(Append(q, x)) = ToSet(q) \cup {x}
<1>1. /\ Append(q, x) \in Seq(S) /\ Len(Append(q, x)) = Len(q) + 1 /\ Len(q) \in Nat
      /\ \A i \in 1 .. Len(q) : Append(q, x)[i] = q[i]
      /\ Append(q, x)[Len(q) + 1] = x
      /\ DOMAIN q = 1 .. Len(q) /\ DOMAIN Append(q, x) = 1 .. Len(q) + 1
  OBVIOUS
<1>2. Last(Append(q, x)) = x
  BY <1>1 DEF Last
<1>3. ToSet(Append(q, x)) = ToSet(q) \cup {x}
  <2>1. ASSUME NEW y \in ToSet(Append(q, x))
        PROVE  y \in ToSet(q) \cup {x}
    <3>1. PICK i \in 1 .. Len(q) + 1 : y = Append(q, x)[i]
      BY <1>1 DEF ToSet
    <3>2. CASE i = Len(q) + 1
      BY <1>1, <3>1, <3>2
    <3>3. CASE i \in 1 .. Len(q)
      BY <1>1, <3>1, <3>3 DEF ToSet
    <3> QED BY <1>1, <3>2, <3>3
  <2>2. ASSUME NEW y \in ToSet(q)
        PROVE  y \in ToSet(Append(q, x))
    <3>1. PICK i \in 1 .. Len(q) : y = q[i]
      BY <1>1 DEF ToSet
    <3>2. i \in DOMAIN Append(q, x) /\ y = Append(q, x)[i]
      BY <1>1, <3>1
    <3> QED BY <3>2 DEF ToSet
  <2>3. x \in ToSet(Append(q, x))
    <3>1. Len(q) + 1 \in DOMAIN Append(q, x)
      BY <1>1
    <3> QED BY <1>1, <3>1 DEF ToSet
  <2> QED BY <2>1, <2>2, <2>3
<1> QED BY <1>1, <1>2, <1>3

LEMMA SeqIsFunction ==
    ASSUME NEW S, NEW q \in Seq(S)
    PROVE  q = [i \in 1 .. Len(q) |-> q[i]]
<1>1. PICK n \in Nat : q \in [1 .. n -> S]
  BY SeqDef
<1>2. Len(q) = n
  BY <1>1
<1> QED BY <1>1, <1>2

-----------------------------------------------------------------------------
(* What the definitions of the model return.                               *)

(* Written, by index; it is a finite set of changes.                       *)
LEMMA WrittenByIndex ==
    ASSUME Typed, NEW s \in Scheduler
    PROVE  /\ Written(s) = {sch[s].done[i].change : i \in 1 .. Len(sch[s].done)}
           /\ Written(s) \subseteq Change /\ ToSet(sch[s].todo) \subseteq Change
           /\ Claimed(s) \subseteq Change
<1>1. sch[s].done \in Seq(Entry) /\ sch[s].todo \in Seq(Change)
  BY DEF Typed, Session
<1>2. DOMAIN sch[s].done = 1 .. Len(sch[s].done)
  BY <1>1
<1>3. Written(s) = {sch[s].done[i].change : i \in 1 .. Len(sch[s].done)}
  BY <1>2 DEF Written, ToSet
<1>4. \A i \in 1 .. Len(sch[s].done) : sch[s].done[i].change \in Change
  <2>1. \A i \in 1 .. Len(sch[s].done) : sch[s].done[i] \in Entry
    BY <1>1
  <2> QED BY <2>1 DEF Entry
<1>5. ToSet(sch[s].todo) \subseteq Change
  BY <1>1 DEF ToSet
<1> QED BY <1>3, <1>4, <1>5 DEF Claimed

LEMMA SeenType ==
    ASSUME Typed, NEW s \in Scheduler, NEW f \in Flag
    PROVE  /\ Seen(s, f) \in Nat /\ Seen(s, f) >= Len(history[f]) /\ Len(history[f]) \in Nat
           /\ Cardinality({c \in Written(s) : FlagOf[c] = f}) \in Nat
<1>1. {c \in Written(s) : FlagOf[c] = f} \subseteq Change
  BY WrittenByIndex
<1>2. Cardinality({c \in Written(s) : FlagOf[c] = f}) \in Nat
  BY <1>1, FS_Subset, FS_CardinalityType, SchedulerAssumption DEF SchedulerAssumption
<1>3. history[f] \in Seq(VersionRow)
  BY DEF Typed
<1> QED BY <1>2, <1>3 DEF Seen

(* A batch is a non-empty sequence of the rows, no longer than Limit.      *)
LEMMA BatchType ==
    ASSUME NEW rows, rows \subseteq Change, rows # {}, NEW b \in Batches(rows)
    PROVE  b \in Seq(Change) /\ ToSet(b) \subseteq rows /\ Len(b) \in 1 .. Limit
<1>1. IsFiniteSet(rows) /\ Limit \in Nat /\ Limit > 0
  BY FS_Subset, SchedulerAssumption DEF SchedulerAssumption
<1>2. Cardinality(rows) \in Nat /\ Cardinality(rows) # 0
  BY <1>1, FS_CardinalityType, FS_EmptySet
<1>3. PICK n \in 1 .. Limit : b \in [1 .. n -> rows]
  BY <1>1, <1>2 DEF Batches
<1>4. b \in Seq(Change) /\ Len(b) = n /\ DOMAIN b = 1 .. n
  BY <1>3
<1> QED BY <1>3, <1>4 DEF ToSet

(* A session that does not move keeps what is said of it.                  *)
LEMMA SessionStays ==
    ASSUME NEW t \in Scheduler, sch'[t] = sch[t]
    PROVE  /\ Open(t)' = Open(t) /\ Written(t)' = Written(t) /\ Claimed(t)' = Claimed(t)
           /\ Settled(t)' = Settled(t)
           /\ history' = history => \A f : Seen(t, f)' = Seen(t, f)
<1>1. Open(t)' = Open(t) /\ Written(t)' = Written(t) /\ Settled(t)' = Settled(t)
  BY DEF Open, Written, Settled
<1> QED BY <1>1 DEF Claimed, Seen

LEMMA OthersStay ==
    ASSUME NEW s \in Scheduler, NEW x, Typed, sch' = [sch EXCEPT ![s] = x], mgr' = mgr
    PROVE  /\ sch'[s] = x
           /\ \A t \in Scheduler : t # s => sch'[t] = sch[t]
           /\ \A q \in Process : q # s => \A f : RowHeld(q, f)' = RowHeld(q, f)
<1>1. \A t \in Scheduler : t # s => sch'[t] = sch[t]
  BY DEF Typed
<1>2. \A t \in Scheduler : t # s => Open(t)' = Open(t) /\ Written(t)' = Written(t)
  BY <1>1, SessionStays
<1>3. \A q \in Process : q # s => \A f : RowHeld(q, f)' = RowHeld(q, f)
  BY <1>2 DEF RowHeld
<1> QED BY <1>1, <1>3 DEF Typed

(* A scheduler's own lock is the one on its written rows.                  *)
LEMMA OwnRows ==
    ASSUME NEW s \in Scheduler, NEW f
    PROVE  RowHeld(s, f) <=> Open(s) /\ \E c \in Written(s) : FlagOf[c] = f
BY SchedulerAssumption DEF RowHeld, SchedulerAssumption

(* A step of one session that touches no row keeps the invariant when the  *)
(* session is in order after it, claims nothing that another claims and    *)
(* takes no row lock that another holds.                                   *)
LEMMA SessionStep ==
    ASSUME IInv, NEW s \in Scheduler, NEW x \in Session,
           sch' = [sch EXCEPT ![s] = x], UNCHANGED <<Rows, mgr>>, crashes' \in 0 .. MaxCrashes,
           BatchOK(s)', WrittenOK(s)',
           \A t \in Scheduler : t # s => Claimed(s)' \cap Claimed(t) = {},
           \A f \in Flag : RowHeld(s, f)' => RowHeld(s, f) \/ RowFree(s, f)
    PROVE  IInv'
<1> USE DEF IInv
<1>1. Typed'
  BY DEF Typed, Rows
<1>2. /\ \A t \in Scheduler : t # s => sch'[t] = sch[t]
      /\ \A q \in Process : q # s => \A f : RowHeld(q, f)' = RowHeld(q, f)
  BY OthersStay
<1>3. ASSUME NEW t \in Scheduler, t # s
      PROVE  BatchOK(t)' /\ WrittenOK(t)' /\ Claimed(t)' = Claimed(t)
  <2>1. /\ sch'[t] = sch[t] /\ Open(t)' = Open(t) /\ Claimed(t)' = Claimed(t)
        /\ Settled(t)' = Settled(t) /\ \A f : Seen(t, f)' = Seen(t, f)
        /\ change' = change /\ history' = history
    BY <1>2, <1>3, SessionStays DEF Rows
  <2>2. BatchOK(t)'
    BY <2>1, Zenon DEF BatchOK
  <2>3. WrittenOK(t)'
    <3>1. \A d : FollowsLast(d)' <=> FollowsLast(d)
      BY <2>1 DEF FollowsLast
    <3> QED BY <2>1, <3>1 DEF WrittenOK
  <2> QED BY <2>1, <2>2, <2>3
<1>4. \A t \in Scheduler : BatchOK(t)' /\ WrittenOK(t)'
  BY <1>3
<1>5. RowsExclusive'
  BY <1>2 DEF RowsExclusive, RowFree
<1>6. ClaimsApart'
  BY <1>3 DEF ClaimsApart
<1>7. AppliedOnce' /\ DerivedFromLast'
  BY DEF AppliedOnce, DerivedFromLast, Rows
<1> QED BY <1>1, <1>4, <1>5, <1>6, <1>7

(* A session that ends, or only has notifications left, holds nothing.     *)
LEMMA EndsOK ==
    ASSUME IInv, NEW s \in Scheduler, NEW x \in Session,
           sch' = [sch EXCEPT ![s] = x], UNCHANGED <<Rows, mgr>>, crashes' \in 0 .. MaxCrashes,
           x.at \in {"asleep", "notify"}, x.todo = <<>>, Len(x.done) <= Limit,
           x.at = "notify" => Len(x.done) > 0
    PROVE  IInv'
<1>1. sch'[s] = x
  BY OthersStay DEF IInv
<1>2. ~Open(s)' /\ Claimed(s)' = {}
  BY <1>1 DEF Open, Claimed
<1>3. BatchOK(s)'
  <2>1. Len(x.todo) = 0 /\ Len(x.done) \in Nat /\ 0 + Len(x.done) = Len(x.done)
    BY DEF Session
  <2>2. /\ x.at \notin {"read", "ready", "swapped"}
        /\ Len(x.todo) + Len(x.done) = Len(x.done)
    BY <2>1
  <2> QED BY <1>1, <1>2, <2>2 DEF BatchOK
<1>4. WrittenOK(s)'
  BY <1>2 DEF WrittenOK
<1>5. \A f \in Flag : ~RowHeld(s, f)'
  BY <1>2, OwnRows, SchedulerAssumption DEF RowHeld, SchedulerAssumption
<1> QED BY <1>2, <1>3, <1>4, <1>5, SessionStep

LEMMA AsleepType == Asleep \in Session /\ Len(Asleep.done) = 0 /\ Asleep.todo = <<>>
BY DEF Asleep, Session

-----------------------------------------------------------------------------
(* The steps of one iteration.                                             *)

LEMMA PollIInv ==
    ASSUME IInv, NEW s \in Scheduler, Poll(s)
    PROVE  IInv'
<1> DEFINE due == {c \in Change : Due(c) /\ \A t \in Scheduler : c \notin Claimed(t)}
<1>1. PICK b \in Batches(due) : sch' = [sch EXCEPT ![s] = [Asleep EXCEPT !.at = "claimed", !.todo = b]]
  BY DEF Poll
<1> DEFINE x == [Asleep EXCEPT !.at = "claimed", !.todo = b]
<1>2. b \in Seq(Change) /\ ToSet(b) \subseteq due /\ Len(b) \in 1 .. Limit
  BY <1>1, BatchType DEF Poll
<1>3. /\ x \in Session /\ x.at = "claimed" /\ x.todo = b /\ x.done = <<>> /\ Len(x.done) = 0
  <2>1. x \in Session /\ x.at = "claimed" /\ x.todo = b /\ x.done = Asleep.done
    BY <1>2, AsleepType DEF Session
  <2>2. Asleep.done = <<>>
    BY DEF Asleep
  <2> HIDE DEF x
  <2> QED BY <2>1, <2>2
<1>3a. {d.change : d \in ToSet(<<>>)} = {}
  BY DEF ToSet
<1>4. UNCHANGED <<Rows, mgr>> /\ crashes' \in 0 .. MaxCrashes
  BY DEF Poll, IInv, Typed
<1>5. sch'[s] = x
  BY <1>1, <1>4, OthersStay DEF IInv
<1> HIDE DEF x
<1>6. Open(s)' /\ Written(s)' = {} /\ Claimed(s)' = ToSet(b)
  BY <1>3, <1>3a, <1>5 DEF Open, Written, Claimed
<1>7. BatchOK(s)'
  <2>1. \A c \in ToSet(b) : change'[c] = "pending"
    BY <1>2, <1>4 DEF Due, Rows
  <2>2. /\ Len(x.todo) + Len(x.done) = Len(b) /\ Len(b) <= Limit /\ Len(b) > 0
        /\ x.at \notin {"asleep", "read", "ready", "swapped", "notify"}
    BY <1>2, <1>3, SchedulerAssumption DEF SchedulerAssumption
  <2> QED BY <1>5, <1>6, <2>1, <2>2 DEF BatchOK
<1>8. WrittenOK(s)'
  BY <1>3, <1>5 DEF WrittenOK, Settled
<1>9. \A t \in Scheduler : t # s => Claimed(s)' \cap Claimed(t) = {}
  BY <1>2, <1>6
<1>10. \A f \in Flag : ~RowHeld(s, f)'
  BY <1>6, SchedulerAssumption DEF RowHeld, SchedulerAssumption
<1> QED BY <1>1, <1>3, <1>4, <1>7, <1>8, <1>9, <1>10, SessionStep DEF x

(* A read: the batch stays as it is, and what was read is not newer than   *)
(* what there is.                                                          *)
LEMMA ReadStep ==
    ASSUME IInv, NEW s \in Scheduler, NEW x \in Session, Move(s, x),
           sch[s].at \in {"claimed", "read"}, x.at \in {"read", "ready"},
           sch[s].todo # <<>>, x.todo = sch[s].todo, x.done = sch[s].done,
           x.bumped = sch[s].bumped, x.row <= Seen(s, FlagOf[Head(x.todo)]),
           x.at = "ready" =>
             x.row <= x.base /\ x.base <= Seen(s, FlagOf[Head(x.todo)])
    PROVE  IInv'
<1>1. /\ sch' = [sch EXCEPT ![s] = x] /\ UNCHANGED <<Rows, mgr>> /\ crashes' \in 0 .. MaxCrashes
      /\ change' = change /\ history' = history
  BY DEF Move, IInv, Typed, Rows
<1>2. sch'[s] = x
  BY <1>1, OthersStay DEF IInv
<1>3. Open(s) /\ Open(s)' /\ Written(s)' = Written(s) /\ Claimed(s)' = Claimed(s)
  BY <1>2 DEF Open, Written, Claimed
<1>4. \A f : Seen(s, f)' = Seen(s, f)
  BY <1>1, <1>3 DEF Seen
<1>5. BatchOK(s)'
  <2>1. BatchOK(s)
    BY DEF IInv
  <2>2. x.at \notin {"asleep", "swapped", "notify"}
    OBVIOUS
  <2> QED BY <1>1, <1>2, <1>3, <1>4, <2>1, <2>2 DEF BatchOK
<1>6. WrittenOK(s)'
  <2>1. WrittenOK(s) /\ Settled(s)' = Settled(s)
    BY <1>2 DEF IInv, Settled
  <2>2. \A d : FollowsLast(d)' <=> FollowsLast(d)
    BY <1>1 DEF FollowsLast
  <2> QED BY <1>2, <1>3, <2>1, <2>2 DEF WrittenOK
<1>7. \A t \in Scheduler : t # s => Claimed(s)' \cap Claimed(t) = {}
  BY <1>3 DEF IInv, ClaimsApart
<1>8. \A f \in Flag : RowHeld(s, f)' => RowHeld(s, f)
  BY <1>3, SchedulerAssumption DEF RowHeld, SchedulerAssumption
<1> QED BY <1>1, <1>5, <1>6, <1>7, <1>8, SessionStep

(* The flag whose turn it is.                                              *)
LEMMA TurnType ==
    ASSUME IInv, NEW s \in Scheduler, sch[s].todo # <<>>
    PROVE  /\ Head(sch[s].todo) \in Change /\ FlagOf[Head(sch[s].todo)] \in Flag
           /\ Seen(s, FlagOf[Head(sch[s].todo)]) \in Nat
<1>1. sch[s].todo \in Seq(Change)
  BY DEF IInv, Typed, Session
<1>2. Head(sch[s].todo) \in Change
  BY <1>1, TakeHead
<1> QED BY <1>2, SeenType, SchedulerAssumption DEF SchedulerAssumption, IInv

LEMMA ReadIInv ==
    ASSUME IInv, NEW s \in Scheduler, ReadConfig(s) \/ ReadChildren(s)
    PROVE  IInv'
<1> DEFINE n == Seen(s, FlagOf[Head(sch[s].todo)])
<1>0. sch[s] \in Session /\ BatchOK(s)
  BY DEF IInv, Typed
<1>1. sch[s].todo # <<>>
  BY <1>0 DEF ReadConfig, ReadChildren, BatchOK
<1>2. n \in Nat
  BY <1>1, TurnType
<1>3. CASE ReadConfig(s)
  <2> DEFINE x == [sch[s] EXCEPT !.at = "read", !.row = n]
  <2>1. /\ x \in Session /\ x.at = "read" /\ x.row = n /\ x.todo = sch[s].todo
        /\ x.done = sch[s].done /\ x.bumped = sch[s].bumped
    BY <1>0, <1>2 DEF Session
  <2>2. Move(s, x) /\ sch[s].at = "claimed"
    BY <1>3 DEF ReadConfig
  <2> HIDE DEF x
  <2>3. x.row <= Seen(s, FlagOf[Head(x.todo)]) /\ x.at # "ready"
    BY <1>2, <2>1
  <2> QED BY <1>1, <2>1, <2>2, <2>3, ReadStep
<1>4. CASE ReadChildren(s)
  <2> DEFINE x == [sch[s] EXCEPT !.at = "ready", !.base = n]
  <2>1. /\ x \in Session /\ x.at = "ready" /\ x.base = n /\ x.todo = sch[s].todo
        /\ x.done = sch[s].done /\ x.bumped = sch[s].bumped /\ x.row = sch[s].row
    BY <1>0, <1>2 DEF Session
  <2>2. Move(s, x) /\ sch[s].at = "read"
    BY <1>4 DEF ReadChildren
  <2>3. sch[s].row <= n
    BY <1>0, <2>2 DEF BatchOK
  <2> HIDE DEF x
  <2>4. /\ x.row <= Seen(s, FlagOf[Head(x.todo)]) /\ x.row <= x.base
        /\ x.base <= Seen(s, FlagOf[Head(x.todo)])
    BY <1>2, <2>1, <2>3
  <2> QED BY <1>1, <2>1, <2>2, <2>4, ReadStep
<1> QED BY <1>3, <1>4

(* The compare-and-swap: nothing has moved since the configuration was     *)
(* read, so the children are those of the last version, and what is        *)
(* written derives from it.                                                *)
LEMMA SwapIInv ==
    ASSUME IInv, NEW s \in Scheduler, Swap(s)
    PROVE  IInv'
<1> DEFINE c == Head(sch[s].todo)
           d == [change |-> c, base |-> sch[s].base, version |-> sch[s].row + 1]
           x == [sch[s] EXCEPT !.at = "swapped", !.todo = Tail(@), !.done = Append(@, d)]
           n == Len(sch[s].done)
<1>0. /\ sch[s] \in Session /\ BatchOK(s) /\ WrittenOK(s) /\ sch[s].at = "ready"
      /\ Open(s) /\ Move(s, x) /\ RowFree(s, FlagOf[c]) /\ Seen(s, FlagOf[c]) = sch[s].row
  BY DEF IInv, Typed, Swap, Open
<1>1. /\ sch[s].todo # <<>> /\ sch[s].todo \in Seq(Change) /\ sch[s].done \in Seq(Entry)
      /\ c \in Change /\ FlagOf[c] \in Flag /\ sch[s].row \in Nat /\ sch[s].base \in Nat
      /\ Seen(s, FlagOf[c]) \in Nat /\ n \in Nat
  BY <1>0, TurnType DEF BatchOK, Session
<1>2. /\ d \in Entry /\ d.change = c /\ d.base = sch[s].row /\ d.version = d.base + 1
  BY <1>0, <1>1 DEF BatchOK, Entry
<1> HIDE DEF d
<1>3. /\ Append(sch[s].done, d) \in Seq(Entry) /\ Len(Append(sch[s].done, d)) = n + 1
      /\ \A i \in 1 .. n : Append(sch[s].done, d)[i] = sch[s].done[i]
      /\ Append(sch[s].done, d)[n + 1] = d
      /\ ToSet(Append(sch[s].done, d)) = ToSet(sch[s].done) \cup {d}
  BY <1>1, <1>2, AddLast
<1>4. /\ c \in ToSet(sch[s].todo) /\ ToSet(Tail(sch[s].todo)) \subseteq ToSet(sch[s].todo)
      /\ Tail(sch[s].todo) \in Seq(Change) /\ Len(Tail(sch[s].todo)) = Len(sch[s].todo) - 1
      /\ Len(sch[s].todo) \in Nat
  BY <1>1, TakeHead
<1>5. /\ x \in Session /\ x.at = "swapped" /\ x.todo = Tail(sch[s].todo)
      /\ x.done = Append(sch[s].done, d) /\ x.bumped = sch[s].bumped
  BY <1>0, <1>3, <1>4 DEF Session
<1> HIDE DEF x, c, n
<1>6. /\ sch' = [sch EXCEPT ![s] = x] /\ UNCHANGED <<Rows, mgr>> /\ crashes' \in 0 .. MaxCrashes
      /\ change' = change /\ history' = history
  BY <1>0 DEF Move, IInv, Typed, Rows
<1>7. sch'[s] = x
  BY <1>6, OthersStay DEF IInv
<1>8. /\ Open(s)' /\ Written(s)' = Written(s) \cup {c}
      /\ Claimed(s)' \subseteq Claimed(s)
  BY <1>0, <1>2, <1>3, <1>4, <1>5, <1>7 DEF Open, Written, Claimed
<1>9. BatchOK(s)'
  <2>1. /\ Len(x.todo) + Len(x.done) <= Limit /\ Len(x.todo) + Len(x.done) > 0
        /\ x.done # <<>>
    <3>1. Len(x.done) = n + 1 /\ Len(x.todo) = Len(sch[s].todo) - 1 /\ n \in Nat
      BY <1>1, <1>3, <1>4, <1>5
    <3>2. Len(sch[s].todo) + n <= Limit /\ Len(sch[s].todo) + n > 0
      BY <1>0 DEF BatchOK, n
    <3>3. x.done # <<>>
      BY <3>1
    <3>4. Len(x.todo) + Len(x.done) = Len(sch[s].todo) + n
      <4>1. \A a, b \in Nat : (a - 1) + (b + 1) = a + b
        OBVIOUS
      <4>2. Len(sch[s].todo) \in Nat
        BY <1>4
      <4> QED BY <3>1, <4>1, <4>2
    <3> QED BY <3>2, <3>3, <3>4
  <2> QED BY <1>0, <1>5, <1>6, <1>7, <1>8, <2>1 DEF BatchOK
<1>10. WrittenOK(s)'
  <2>1. Settled(s) = n /\ Settled(s)' = n
    BY <1>0, <1>1, <1>3, <1>5, <1>7, SMTT(30) DEF Settled, n
  <2>3. EnvOf(c) \notin sch[s].bumped => FollowsLast(d)
    <3> SUFFICES ASSUME EnvOf(c) \notin sch[s].bumped
                 PROVE  FollowsLast(d)
      OBVIOUS
    <3>1. \A i \in 1 .. n : FlagOf[sch[s].done[i].change] # FlagOf[c]
      BY <1>0, <2>1 DEF WrittenOK, EnvOf
    <3>2. {e \in Written(s) : FlagOf[e] = FlagOf[c]} = {}
      BY <3>1, WrittenByIndex DEF n, IInv
    <3>3. Seen(s, FlagOf[c]) = Len(history[FlagOf[c]])
      <4>1. Cardinality({e \in Written(s) : FlagOf[e] = FlagOf[c]}) = 0
        BY <3>2, FS_EmptySet
      <4>2. Len(history[FlagOf[c]]) \in Nat
        BY <1>1, SeenType DEF IInv
      <4> QED BY <4>1, <4>2 DEF Seen
    <3> QED BY <1>0, <1>2, <3>3 DEF FollowsLast
  <2>4. \A i \in 1 .. n + 1 : i \in 1 .. n \/ i = n + 1
    BY <1>1
  <2>5. /\ Len(x.done) = n + 1 /\ x.done[n + 1].change = c /\ x.done[n + 1] = d
        /\ \A i \in 1 .. n : x.done[i] = sch[s].done[i]
    BY <1>2, <1>3, <1>5
  <2>6. \A i \in 1 .. n : EnvOf(x.done[i].change) \in x.bumped
    BY <1>0, <1>5, <2>1, <2>5 DEF WrittenOK
  <2>7. \A i, j \in 1 .. n : EnvOf(x.done[i].change) = EnvOf(x.done[j].change) => i = j
    BY <1>0, <2>1, <2>5 DEF WrittenOK
  <2>8. \A i \in 1 .. n + 1 :
          (i <= n \/ EnvOf(x.done[i].change) \notin x.bumped) => FollowsLast(x.done[i])
    <3>1. \A i \in 1 .. n : i <= n /\ i \in 1 .. Len(sch[s].done)
      BY <1>1 DEF n
    <3>2. \A i \in 1 .. n : FollowsLast(x.done[i])
      BY <1>0, <2>1, <2>5, <3>1 DEF WrittenOK
    <3>3. ~(n + 1 <= n)
      BY <1>1
    <3>4. EnvOf(x.done[n + 1].change) \notin x.bumped => FollowsLast(x.done[n + 1])
      BY <1>5, <2>3, <2>5
    <3> QED BY <2>4, <3>2, <3>3, <3>4
  <2>9. \A i \in 1 .. n + 1 : FollowsLast(x.done[i]) => FollowsLast(sch[s].done[i])'
    BY <1>6, <1>7 DEF FollowsLast
  <2> QED BY <1>7, <2>1, <2>5, <2>6, <2>7, <2>8, <2>9 DEF WrittenOK
<1>11. \A t \in Scheduler : t # s => Claimed(s)' \cap Claimed(t) = {}
  BY <1>8 DEF IInv, ClaimsApart
<1>12. \A f \in Flag : RowHeld(s, f)' => RowHeld(s, f) \/ RowFree(s, f)
  <2>1. s \notin Manager
    BY SchedulerAssumption DEF SchedulerAssumption
  <2> QED BY <1>0, <1>8, <2>1 DEF RowHeld
<1> QED BY <1>5, <1>6, <1>9, <1>10, <1>11, <1>12, SessionStep

(* The increment of the environment settles the last entry.                *)
LEMMA BumpIInv ==
    ASSUME IInv, NEW s \in Scheduler, Bump(s)
    PROVE  IInv'
<1> DEFINE n == Len(sch[s].done)
           e == EnvOf(Last(sch[s].done).change)
           x == [sch[s] EXCEPT !.at = "claimed", !.bumped = @ \cup {e}]
<1>0. /\ sch[s] \in Session /\ BatchOK(s) /\ WrittenOK(s) /\ sch[s].at = "swapped"
      /\ Open(s) /\ Move(s, x) /\ e \notin sch[s].bumped
  BY DEF IInv, Typed, Bump, Open
<1>1. /\ sch[s].done \in Seq(Entry) /\ sch[s].done # <<>>
      /\ n \in Nat /\ n > 0 /\ Last(sch[s].done) = sch[s].done[n]
  BY <1>0 DEF BatchOK, Session, Last
<1>2. sch[s].done[n] \in Entry /\ e = EnvOf(sch[s].done[n].change) /\ e \in Env
  <2>1. sch[s].done[n] \in Entry
    BY <1>1
  <2> QED BY <1>1, <2>1, SchedulerAssumption DEF Entry, EnvOf, SchedulerAssumption
<1> HIDE DEF e
<1>3. /\ x \in Session /\ x.at = "claimed" /\ x.todo = sch[s].todo /\ x.done = sch[s].done
      /\ x.bumped = sch[s].bumped \cup {e}
  BY <1>0, <1>2 DEF Session
<1> HIDE DEF x, n
<1>4. /\ sch' = [sch EXCEPT ![s] = x] /\ UNCHANGED <<Rows, mgr>> /\ crashes' \in 0 .. MaxCrashes
      /\ change' = change /\ history' = history
  BY <1>0 DEF Move, IInv, Typed, Rows
<1>5. sch'[s] = x
  BY <1>4, OthersStay DEF IInv
<1>6. Open(s)' /\ Written(s)' = Written(s) /\ Claimed(s)' = Claimed(s)
  BY <1>0, <1>3, <1>5 DEF Open, Written, Claimed
<1>7. BatchOK(s)'
  BY <1>0, <1>3, <1>4, <1>5, <1>6 DEF BatchOK
<1>8. WrittenOK(s)'
  <2>1. Settled(s) = n - 1 /\ Settled(s)' = n
    BY <1>0, <1>3, <1>5 DEF Settled, n
  <2>2. \A i \in 1 .. n : i = n \/ (i \in 1 .. n - 1 /\ i <= n - 1)
    BY <1>1
  <2>3. \A i \in 1 .. n - 1 : EnvOf(sch[s].done[i].change) \in sch[s].bumped
    BY <1>0, <2>1 DEF WrittenOK
  <2>4. \A i \in 1 .. n : EnvOf(sch[s].done[i].change) \in x.bumped
    BY <1>2, <1>3, <2>2, <2>3
  <2>5. \A i, j \in 1 .. n : EnvOf(sch[s].done[i].change) = EnvOf(sch[s].done[j].change) => i = j
    BY <1>0, <1>2, <2>1, <2>2, <2>3 DEF WrittenOK
  <2>6. \A i \in 1 .. n : FollowsLast(sch[s].done[i])
    BY <1>0, <1>2, <2>1, <2>2 DEF WrittenOK, n
  <2>7. \A i \in 1 .. n : FollowsLast(sch[s].done[i])'
    BY <1>3, <1>4, <1>5, <2>6 DEF FollowsLast
  <2> QED BY <1>3, <1>5, <2>1, <2>4, <2>5, <2>7 DEF WrittenOK, n
<1>9. \A t \in Scheduler : t # s => Claimed(s)' \cap Claimed(t) = {}
  BY <1>6 DEF IInv, ClaimsApart
<1>10. \A f \in Flag : RowHeld(s, f)' => RowHeld(s, f)
  <2>1. s \notin Manager
    BY SchedulerAssumption DEF SchedulerAssumption
  <2> QED BY <1>0, <1>6, <2>1 DEF RowHeld
<1> QED BY <1>3, <1>4, <1>7, <1>8, <1>9, <1>10, SessionStep

(* The transaction is dropped: a failed iteration, a crash or a deadlock.  *)
LEMMA DroppedIInv ==
    ASSUME IInv, NEW s \in Scheduler,
           IterationFails(s) \/ Crash(s) \/ DeadlockVictim(s)
    PROVE  IInv'
<1>1. /\ sch' = [sch EXCEPT ![s] = Asleep] /\ UNCHANGED <<Rows, mgr>>
      /\ crashes' \in 0 .. MaxCrashes
  <2>1. CASE IterationFails(s) \/ DeadlockVictim(s)
    BY <2>1 DEF IterationFails, DeadlockVictim, Move, IInv, Typed
  <2>2. CASE Crash(s)
    BY <2>2, SchedulerAssumption DEF Crash, SchedulerAssumption, IInv, Typed
  <2> QED BY <2>1, <2>2
<1>2. /\ Asleep \in Session /\ Asleep.at = "asleep" /\ Asleep.todo = <<>>
      /\ Len(Asleep.done) = 0 /\ 0 <= Limit
  BY AsleepType, SchedulerAssumption DEF Asleep, SchedulerAssumption
<1> QED BY <1>1, <1>2, EndsOK

LEMMA NotifyIInv ==
    ASSUME IInv, NEW s \in Scheduler, Notify(s)
    PROVE  IInv'
<1> DEFINE x == [sch[s] EXCEPT !.done = Tail(@)]
<1>0. /\ sch[s] \in Session /\ BatchOK(s) /\ sch[s].at = "notify" /\ sch[s].todo = <<>>
      /\ sch[s].done \in Seq(Entry)
  BY DEF IInv, Typed, Notify, BatchOK, Session
<1>1. /\ UNCHANGED <<Rows, mgr>> /\ crashes' \in 0 .. MaxCrashes
      /\ \/ sch' = [sch EXCEPT ![s] = Asleep]
         \/ Len(sch[s].done) # 1 /\ sch' = [sch EXCEPT ![s] = x]
  BY DEF Notify, Move, IInv, Typed
<1>2. CASE sch' = [sch EXCEPT ![s] = Asleep]
  <2>1. /\ Asleep \in Session /\ Asleep.at = "asleep" /\ Asleep.todo = <<>>
        /\ Len(Asleep.done) = 0 /\ 0 <= Limit
    BY AsleepType, SchedulerAssumption DEF Asleep, SchedulerAssumption
  <2> QED BY <1>1, <1>2, <2>1, EndsOK
<1>3. CASE Len(sch[s].done) # 1 /\ sch' = [sch EXCEPT ![s] = x]
  <2>1. Len(sch[s].done) \in Nat /\ Len(sch[s].done) <= Limit /\ Len(sch[s].done) > 1
    <3>1. Len(sch[s].todo) = 0 /\ Len(sch[s].done) \in Nat
      BY <1>0
    <3>2. 0 + Len(sch[s].done) <= Limit /\ 0 + Len(sch[s].done) > 0
      BY <1>0, <3>1 DEF BatchOK
    <3>3. \A a \in Nat : 0 + a = a /\ (a > 0 /\ a # 1 => a > 1)
      OBVIOUS
    <3> QED BY <1>3, <3>1, <3>2, <3>3
  <2>2. Tail(sch[s].done) \in Seq(Entry) /\ Len(Tail(sch[s].done)) = Len(sch[s].done) - 1
    BY <1>0, <2>1
  <2>3. /\ x \in Session /\ x.at = "notify" /\ x.todo = <<>> /\ x.done = Tail(sch[s].done)
    BY <1>0, <2>2 DEF Session
  <2> HIDE DEF x
  <2>4. Len(x.done) <= Limit /\ Len(x.done) > 0
    BY <2>1, <2>2, <2>3, SchedulerAssumption DEF SchedulerAssumption
  <2> QED BY <1>1, <1>3, <2>3, <2>4, EndsOK
<1> QED BY <1>1, <1>2, <1>3

-----------------------------------------------------------------------------
(* History grows: a manager's commit, or the end of a batch.               *)

(* A history gains at most one version of each flag, made by what held the *)
(* flag's row, and no session that goes on held that row.                  *)
Grows(f, row) == history'[f] = Append(history[f], row)

(* Sessions that go on keep what they have read a lower bound, and what    *)
(* they have written derives from the last version still.                  *)
LEMMA OthersFollow ==
    ASSUME IInv, NEW t \in Scheduler, sch'[t] = sch[t],
           \A f \in Flag : history'[f] = history[f] \/ \E row \in VersionRow : Grows(f, row),
           \A f \in Flag : RowHeld(t, f) => history'[f] = history[f],
           \A c \in Claimed(t) : change'[c] = change[c]
    PROVE  BatchOK(t)' /\ WrittenOK(t)'
<1>0. sch[t] \in Session /\ BatchOK(t) /\ WrittenOK(t) /\ history \in [Flag -> Seq(VersionRow)]
  BY DEF IInv, Typed
<1>1. /\ Open(t)' = Open(t) /\ Written(t)' = Written(t) /\ Claimed(t)' = Claimed(t)
      /\ Settled(t)' = Settled(t)
  BY SessionStays
<1>2. \A f \in Flag : /\ Len(history[f]) \in Nat /\ Len(history'[f]) \in Nat
                      /\ Len(history'[f]) >= Len(history[f])
  <2> SUFFICES ASSUME NEW f \in Flag
               PROVE  /\ Len(history[f]) \in Nat /\ Len(history'[f]) \in Nat
                      /\ Len(history'[f]) >= Len(history[f])
    OBVIOUS
  <2>1. history[f] \in Seq(VersionRow)
    BY <1>0
  <2>2. CASE history'[f] = history[f]
    BY <2>1, <2>2
  <2>3. ASSUME NEW row \in VersionRow, history'[f] = Append(history[f], row)
        PROVE  /\ Len(history[f]) \in Nat /\ Len(history'[f]) \in Nat
               /\ Len(history'[f]) >= Len(history[f])
    BY <2>1, <2>3
  <2> QED BY <2>2, <2>3 DEF Grows
<1>3. \A f \in Flag : Seen(t, f) \in Nat /\ Seen(t, f)' \in Nat /\ Seen(t, f)' >= Seen(t, f)
  <2> SUFFICES ASSUME NEW f \in Flag
               PROVE  Seen(t, f) \in Nat /\ Seen(t, f)' \in Nat /\ Seen(t, f)' >= Seen(t, f)
    OBVIOUS
  <2>1. Cardinality({c \in Written(t) : FlagOf[c] = f}) \in Nat
    BY SeenType DEF IInv
  <2>2. /\ Seen(t, f) = Len(history[f]) + Cardinality({c \in Written(t) : FlagOf[c] = f})
        /\ Seen(t, f)' = Len(history'[f]) + Cardinality({c \in Written(t) : FlagOf[c] = f})
    BY <1>1 DEF Seen
  <2> QED BY <1>2, <2>1, <2>2
<1>4. BatchOK(t)'
  <2>1. sch[t].at \in {"read", "ready"} =>
          FlagOf[Head(sch[t].todo)] \in Flag /\ sch[t].row \in Nat /\ sch[t].base \in Nat
    BY <1>0, TurnType DEF BatchOK, Session
  <2>2. sch[t].at \in {"read", "ready"} =>
          sch[t].row <= Seen(t, FlagOf[Head(sch[t].todo)])'
    <3>1. \A a, b, c \in Nat : a <= b /\ c >= b => a <= c
      OBVIOUS
    <3> QED BY <1>0, <1>3, <2>1, <3>1 DEF BatchOK
  <2>3. sch[t].at = "ready" =>
          sch[t].row <= sch[t].base /\ sch[t].base <= Seen(t, FlagOf[Head(sch[t].todo)])'
    <3>1. \A a, b, c \in Nat : a <= b /\ c >= b => a <= c
      OBVIOUS
    <3> QED BY <1>0, <1>3, <2>1, <3>1 DEF BatchOK
  <2> QED BY <1>0, <1>1, <2>2, <2>3 DEF BatchOK
<1>5. WrittenOK(t)'
  <2> SUFFICES ASSUME Open(t)
               PROVE  WrittenOK(t)'
    BY <1>1 DEF WrittenOK
  <2>1. ASSUME NEW i \in 1 .. Len(sch[t].done), FollowsLast(sch[t].done[i])
        PROVE  FollowsLast(sch[t].done[i])'
    <3>1. sch[t].done[i].change \in Written(t) /\ sch[t].done[i].change \in Change
      BY WrittenByIndex DEF IInv
    <3>2. FlagOf[sch[t].done[i].change] \in Flag /\ RowHeld(t, FlagOf[sch[t].done[i].change])
      BY <3>1, OwnRows, SchedulerAssumption DEF SchedulerAssumption
    <3>3. history'[FlagOf[sch[t].done[i].change]] = history[FlagOf[sch[t].done[i].change]]
      BY <3>2
    <3> QED BY <2>1, <3>3 DEF FollowsLast
  <2> QED BY <1>0, <1>1, <2>1 DEF WrittenOK
<1> QED BY <1>4, <1>5

(* AppliedOnce and DerivedFromLast of one flag's history, as a sequence.   *)
Derived(h) == \A v \in DOMAIN h : h[v].base = v - 1
MadeBy(h, c) == {v \in DOMAIN h : h[v].by = c}

LEMMA AppendDerived ==
    ASSUME NEW h \in Seq(VersionRow), NEW row \in VersionRow, Derived(h), row.base = Len(h)
    PROVE  Derived(Append(h, row))
<1>1. /\ DOMAIN h = 1 .. Len(h) /\ DOMAIN Append(h, row) = 1 .. Len(h) + 1 /\ Len(h) \in Nat
      /\ \A v \in 1 .. Len(h) : Append(h, row)[v] = h[v]
      /\ Append(h, row)[Len(h) + 1] = row
  OBVIOUS
<1>2. \A v \in 1 .. Len(h) + 1 : v \in 1 .. Len(h) \/ v = Len(h) + 1
  BY <1>1
<1>3. (Len(h) + 1) - 1 = Len(h)
  BY <1>1
<1> QED BY <1>1, <1>2, <1>3 DEF Derived

LEMMA AppendMade ==
    ASSUME NEW h \in Seq(VersionRow), NEW row \in VersionRow, NEW c
    PROVE  MadeBy(Append(h, row), c) =
             MadeBy(h, c) \cup (IF row.by = c THEN {Len(h) + 1} ELSE {})
<1>1. /\ DOMAIN h = 1 .. Len(h) /\ DOMAIN Append(h, row) = 1 .. Len(h) + 1 /\ Len(h) \in Nat
      /\ \A v \in 1 .. Len(h) : Append(h, row)[v] = h[v]
      /\ Append(h, row)[Len(h) + 1] = row
  OBVIOUS
<1>2. 1 .. Len(h) + 1 = (1 .. Len(h)) \cup {Len(h) + 1}
  BY <1>1
<1> QED BY <1>1, <1>2 DEF MadeBy

LEMMA HistoryInvs ==
    /\ DerivedFromLast <=> \A f \in Flag : Derived(history[f])
    /\ AppliedOnce <=> \A c \in Change :
         /\ change[c] = "applied" <=> MadeBy(history[FlagOf[c]], c) # {}
         /\ \A v, w \in MadeBy(history[FlagOf[c]], c) : v = w
BY DEF DerivedFromLast, Derived, AppliedOnce, MadeBy

-----------------------------------------------------------------------------
(* The managers, the clock and new changes.                                *)

ManagerJob == [at : {"idle", "locked", "bumped"}, flag : SUBSET Flag]

(* A manager that moves leaves the locks of every other process alone.     *)
LEMMA ManagerMoves ==
    ASSUME Typed, NEW m \in Manager, NEW j \in ManagerJob, mgr' = [mgr EXCEPT ![m] = j]
    PROVE  /\ mgr'[m] = j /\ mgr' \in [Manager -> ManagerJob]
           /\ sch' = sch => \A q \in Process : q # m => \A f : RowHeld(q, f)' = RowHeld(q, f)
           /\ \A f : RowHeld(m, f)' <=> j.at \in {"locked", "bumped"} /\ f \in j.flag
<1>1. /\ mgr'[m] = j /\ mgr' \in [Manager -> ManagerJob]
      /\ \A k \in Manager : k # m => mgr'[k] = mgr[k]
  BY DEF Typed, ManagerJob
<1>2. ASSUME sch' = sch, NEW q \in Process, q # m, NEW f
      PROVE  RowHeld(q, f)' = RowHeld(q, f)
  <2>1. Open(q)' = Open(q) /\ Written(q)' = Written(q)
    BY <1>2 DEF Open, Written
  <2> QED BY <1>1, <1>2, <2>1 DEF RowHeld
<1>3. ASSUME NEW f
      PROVE  RowHeld(m, f)' <=> j.at \in {"locked", "bumped"} /\ f \in j.flag
  BY <1>1, SchedulerAssumption DEF RowHeld, SchedulerAssumption
<1> QED BY <1>1, <1>2, <1>3

(* Nothing but the managers' jobs, the clock and the stored changes moves. *)
LEMMA QuietStep ==
    ASSUME IInv, Typed', UNCHANGED <<history, sch>>, RowsExclusive',
           \A c \in Change : change'[c] = change[c]
                             \/ (change[c] = "unknown" /\ change'[c] = "pending")
    PROVE  IInv'
<1>1. ASSUME NEW t \in Scheduler
      PROVE  BatchOK(t)' /\ WrittenOK(t)' /\ Claimed(t)' = Claimed(t)
  <2>1. /\ sch'[t] = sch[t] /\ BatchOK(t) /\ Claimed(t)' = Claimed(t)
        /\ \A c \in Claimed(t) : change'[c] = change[c]
    BY SessionStays, WrittenByIndex DEF IInv, BatchOK
  <2> QED BY <2>1, OthersFollow
<1>2. ClaimsApart'
  BY <1>1 DEF IInv, ClaimsApart
<1>3. AppliedOnce' /\ DerivedFromLast'
  BY DEF IInv, AppliedOnce, DerivedFromLast
<1> QED BY <1>1, <1>2, <1>3 DEF IInv

LEMMA ManagerQuietIInv ==
    ASSUME IInv, NEW m \in Manager, NEW j \in ManagerJob, mgr' = [mgr EXCEPT ![m] = j],
           UNCHANGED <<Rows, sch, crashes>>,
           \A f \in Flag : j.at \in {"locked", "bumped"} /\ f \in j.flag =>
                             RowHeld(m, f) \/ RowFree(m, f)
    PROVE  IInv'
<1>1. /\ mgr' \in [Manager -> ManagerJob]
      /\ \A q \in Process : q # m => \A f : RowHeld(q, f)' = RowHeld(q, f)
      /\ \A f : RowHeld(m, f)' <=> j.at \in {"locked", "bumped"} /\ f \in j.flag
  BY ManagerMoves DEF IInv
<1>2. Typed'
  BY <1>1 DEF IInv, Typed, Rows, ManagerJob
<1>3. RowsExclusive'
  BY <1>1 DEF IInv, RowsExclusive, RowFree
<1>4. UNCHANGED <<history, sch>> /\ change' = change
  BY DEF Rows
<1> QED BY <1>2, <1>3, <1>4, QuietStep

LEMMA NoJobType == NoJob \in ManagerJob /\ NoJob.at = "idle"
BY DEF NoJob, ManagerJob

LEMMA ManagerIInv ==
    ASSUME IInv, NEW m \in Manager,
           \/ \E f \in Flag : ManagerSwap(m, f)
           \/ ManagerBump(m) \/ DeadlockVictim(m)
    PROVE  IInv'
<1>1. ASSUME NEW f \in Flag, ManagerSwap(m, f)
      PROVE  IInv'
  <2> DEFINE j == [at |-> "locked", flag |-> {f}]
  <2>1. j \in ManagerJob /\ j.flag = {f}
    BY DEF ManagerJob
  <2>2. /\ mgr' = [mgr EXCEPT ![m] = j] /\ UNCHANGED <<Rows, sch, crashes>>
        /\ RowFree(m, f)
    BY <1>1 DEF ManagerSwap, ManagerMove
  <2> HIDE DEF j
  <2> QED BY <2>1, <2>2, ManagerQuietIInv
<1>2. CASE ManagerBump(m)
  <2> DEFINE j == [mgr[m] EXCEPT !.at = "bumped"]
  <2>1. j \in ManagerJob /\ j.flag = mgr[m].flag
    BY DEF ManagerJob, IInv, Typed
  <2>2. /\ mgr' = [mgr EXCEPT ![m] = j] /\ UNCHANGED <<Rows, sch, crashes>>
        /\ mgr[m].at = "locked"
    BY <1>2 DEF ManagerBump, ManagerMove
  <2>3. \A f \in j.flag : RowHeld(m, f)
    BY <2>1, <2>2 DEF RowHeld
  <2> HIDE DEF j
  <2> QED BY <2>1, <2>2, <2>3, ManagerQuietIInv
<1>3. CASE DeadlockVictim(m)
  <2>1. mgr' = [mgr EXCEPT ![m] = NoJob] /\ UNCHANGED <<Rows, sch, crashes>>
    BY <1>3, SchedulerAssumption DEF DeadlockVictim, ManagerMove, SchedulerAssumption
  <2> QED BY <2>1, NoJobType, ManagerQuietIInv
<1> QED BY <1>1, <1>2, <1>3

(* A new change, an archive and the clock.                                 *)
LEMMA OutsideIInv ==
    ASSUME IInv, \/ \E c \in Change : Schedule(c)
                 \/ \E m \in Manager, f \in Flag : Archive(m, f)
                 \/ Tick
    PROVE  IInv'
<1>1. /\ UNCHANGED <<history, sch, mgr, crashes>>
      /\ \A c \in Change : change'[c] = change[c]
                           \/ (change[c] = "unknown" /\ change'[c] = "pending")
  <2>1. ASSUME NEW c \in Change, Schedule(c)
        PROVE  /\ UNCHANGED <<history, sch, mgr, crashes>>
               /\ \A d \in Change : change'[d] = change[d]
                                    \/ (change[d] = "unknown" /\ change'[d] = "pending")
    BY <2>1 DEF Schedule, IInv, Typed
  <2>2. CASE (\E m \in Manager, f \in Flag : Archive(m, f)) \/ Tick
    BY <2>2 DEF Archive, Tick
  <2> QED BY <2>1, <2>2
<1>2. Typed'
  <2>1. CASE \E c \in Change : Schedule(c)
    BY <2>1 DEF Schedule, IInv, Typed
  <2>2. CASE \E m \in Manager, f \in Flag : Archive(m, f)
    BY <2>2 DEF Archive, IInv, Typed
  <2>3. CASE Tick
    BY <2>3, SchedulerAssumption DEF Tick, SchedulerAssumption, IInv, Typed
  <2> QED BY <2>1, <2>2, <2>3
<1>3. RowsExclusive'
  BY <1>1 DEF IInv, RowsExclusive, RowHeld, Open, Written
<1> QED BY <1>1, <1>2, <1>3, QuietStep

(* A manager's commit: the version it appends derives from the last one,   *)
(* and no session holds the row it was made under.                         *)
LEMMA ManagerCommitIInv ==
    ASSUME IInv, NEW m \in Manager, ManagerCommit(m)
    PROVE  IInv'
<1> DEFINE row(f) == [by |-> "api", base |-> Len(history[f])]
<1>0. /\ history \in [Flag -> Seq(VersionRow)] /\ mgr[m] \in ManagerJob
      /\ mgr[m].at = "bumped" /\ change' = change /\ sch' = sch
      /\ mgr' = [mgr EXCEPT ![m] = NoJob]
      /\ \A f \in Flag : history'[f] = IF f \in mgr[m].flag THEN Append(history[f], row(f))
                                                           ELSE history[f]
      /\ DOMAIN history' = Flag
  BY DEF IInv, Typed, ManagerJob, ManagerCommit, ManagerMove
<1>1. \A f \in Flag : row(f) \in VersionRow /\ row(f).base = Len(history[f]) /\ row(f).by = "api"
  <2>1. \A f \in Flag : Len(history[f]) \in Nat
    BY <1>0
  <2> QED BY <2>1 DEF VersionRow
<1>2. \A f \in Flag : history[f] \in Seq(VersionRow)
  BY <1>0
<1> HIDE DEF row
<1>3. /\ mgr' \in [Manager -> ManagerJob]
      /\ \A q \in Process : q # m => \A f : RowHeld(q, f)' = RowHeld(q, f)
      /\ \A f : ~RowHeld(m, f)'
  BY <1>0, NoJobType, ManagerMoves DEF IInv
<1>4. Typed'
  <2>1. \A f \in Flag : history'[f] \in Seq(VersionRow)
    <3> SUFFICES ASSUME NEW f \in Flag
                 PROVE  history'[f] \in Seq(VersionRow)
      OBVIOUS
    <3>1. Append(history[f], row(f)) \in Seq(VersionRow)
      BY <1>1, <1>2, AddLast
    <3> QED BY <1>0, <1>2, <3>1
  <2>2. history' = [f \in Flag |-> history'[f]]
    BY DEF ManagerCommit
  <2>3. history' \in [Flag -> Seq(VersionRow)]
    BY <2>1, <2>2
  <2>4. now' = now /\ archived' = archived /\ crashes' = crashes
    BY DEF ManagerCommit
  <2> QED BY <1>0, <1>3, <2>3, <2>4 DEF IInv, Typed, ManagerJob
<1>5. RowsExclusive'
  BY <1>3 DEF IInv, RowsExclusive
<1>6. ASSUME NEW t \in Scheduler
      PROVE  BatchOK(t)' /\ WrittenOK(t)' /\ Claimed(t)' = Claimed(t)
  <2>1. \A f \in Flag : RowHeld(t, f) => history'[f] = history[f]
    <3> SUFFICES ASSUME NEW f \in Flag, RowHeld(t, f), f \in mgr[m].flag
                 PROVE  FALSE
      BY <1>0
    <3>1. RowHeld(m, f)
      BY <1>0 DEF RowHeld
    <3>2. t \in Process /\ m \in Process /\ t # m
      BY SchedulerAssumption DEF SchedulerAssumption, Process
    <3> QED BY <3>1, <3>2 DEF IInv, RowsExclusive
  <2>2. \A f \in Flag : history'[f] = history[f] \/ \E r \in VersionRow : Grows(f, r)
    BY <1>0, <1>1 DEF Grows
  <2>3. sch'[t] = sch[t] /\ Claimed(t)' = Claimed(t)
    BY <1>0, SessionStays
  <2> QED BY <1>0, <2>1, <2>2, <2>3, OthersFollow
<1>7. ClaimsApart'
  BY <1>6 DEF IInv, ClaimsApart
<1>8. DerivedFromLast'
  <2>1. \A f \in Flag : Derived(history[f])
    BY HistoryInvs DEF IInv
  <2>2. \A f \in Flag : Derived(history'[f])
    BY <1>0, <1>1, <1>2, <2>1, AppendDerived
  <2> QED BY <2>2 DEF DerivedFromLast, Derived
<1>9. AppliedOnce'
  <2>1. \A c \in Change : MadeBy(history'[FlagOf[c]], c) = MadeBy(history[FlagOf[c]], c)
    <3> SUFFICES ASSUME NEW c \in Change
                 PROVE  MadeBy(history'[FlagOf[c]], c) = MadeBy(history[FlagOf[c]], c)
      OBVIOUS
    <3>1. FlagOf[c] \in Flag /\ c # "api"
      BY SchedulerAssumption DEF SchedulerAssumption
    <3>2. MadeBy(Append(history[FlagOf[c]], row(FlagOf[c])), c) = MadeBy(history[FlagOf[c]], c)
      <4>1. /\ history[FlagOf[c]] \in Seq(VersionRow) /\ row(FlagOf[c]) \in VersionRow
            /\ row(FlagOf[c]).by # c
        BY <1>1, <1>2, <3>1
      <4>2. MadeBy(Append(history[FlagOf[c]], row(FlagOf[c])), c) =
              MadeBy(history[FlagOf[c]], c) \cup {}
        BY <4>1, AppendMade, Zenon
      <4> QED BY <4>2
    <3> QED BY <1>0, <3>1, <3>2
  <2>2. AppliedOnce
    BY DEF IInv
  <2> QED BY <1>0, <2>1, <2>2 DEF AppliedOnce, MadeBy
<1> QED BY <1>4, <1>5, <1>6, <1>7, <1>8, <1>9 DEF IInv

-----------------------------------------------------------------------------
(* The end of a batch.                                                     *)

EntryRow(d) == [by |-> d.change, base |-> d.base]

(* A batch that ends has written one version of a flag at most, since its  *)
(* settled entries lie in distinct environments; it follows the last.      *)
LEMMA OneInserted ==
    ASSUME IInv, NEW s \in Scheduler, sch[s].at = "claimed", NEW f \in Flag
    PROVE  \/ /\ WithInserted(s, f) = history[f]
              /\ \A c \in Written(s) : FlagOf[c] # f
           \/ \E d \in Entry :
                /\ WithInserted(s, f) = Append(history[f], EntryRow(d))
                /\ EntryRow(d) \in VersionRow /\ d.base = Len(history[f])
                /\ d.change \in Written(s) /\ FlagOf[d.change] = f
                /\ \A c \in Written(s) : FlagOf[c] = f => c = d.change
<1> DEFINE q == sch[s].done
           n == Len(q)
<1>0. /\ Open(s) /\ WrittenOK(s) /\ Settled(s) = n
      /\ q \in Seq(Entry) /\ n \in Nat /\ DOMAIN q = 1 .. n
      /\ \A i \in 1 .. n : q[i] \in Entry /\ q[i].change \in Change
      /\ history[f] \in Seq(VersionRow)
  <2>1. q \in Seq(Entry) /\ history[f] \in Seq(VersionRow)
    BY DEF IInv, Typed, Session
  <2>2. \A i \in 1 .. n : q[i] \in Entry
    BY <2>1
  <2> QED BY <2>1, <2>2 DEF IInv, Open, Settled, Entry
<1>1. \A i, j \in 1 .. n : FlagOf[q[i].change] = FlagOf[q[j].change] => i = j
  BY <1>0 DEF WrittenOK, EnvOf
<1>2. \A i \in 1 .. n : q[i].base = Len(history[FlagOf[q[i].change]])
                        /\ q[i].version = Len(history[FlagOf[q[i].change]]) + 1
  <2>1. \A i \in 1 .. n : i <= n
    BY <1>0
  <2> QED BY <1>0, <2>1 DEF WrittenOK, FollowsLast
<1>3. /\ Inserted(s, f) = {d \in {q[i] : i \in 1 .. n} : FlagOf[d.change] = f}
      /\ Written(s) = {q[i].change : i \in 1 .. n}
  BY <1>0, WrittenByIndex DEF Inserted, ToSet, IInv
<1> HIDE DEF q, n
<1>4. CASE \A i \in 1 .. n : FlagOf[q[i].change] # f
  <2>1. Inserted(s, f) = {}
    BY <1>3, <1>4
  <2>2. WithInserted(s, f) = [v \in DOMAIN history[f] |-> history[f][v]]
    BY <2>1 DEF WithInserted
  <2>3. WithInserted(s, f) = history[f]
    BY <1>0, <2>2
  <2> QED BY <1>3, <1>4, <2>3
<1>5. ASSUME NEW k \in 1 .. n, FlagOf[q[k].change] = f
      PROVE  \E d \in Entry :
                /\ WithInserted(s, f) = Append(history[f], EntryRow(d))
                /\ EntryRow(d) \in VersionRow /\ d.base = Len(history[f])
                /\ d.change \in Written(s) /\ FlagOf[d.change] = f
                /\ \A c \in Written(s) : FlagOf[c] = f => c = d.change
  <2> DEFINE d == q[k]
             h == history[f]
  <2>1. Inserted(s, f) = {d}
    BY <1>1, <1>3, <1>5
  <2>2. /\ d \in Entry /\ d.base = Len(h) /\ d.version = Len(h) + 1
        /\ d.change \in Written(s) /\ FlagOf[d.change] = f
        /\ \A c \in Written(s) : FlagOf[c] = f => c = d.change
    BY <1>0, <1>1, <1>2, <1>3, <1>5
  <2> HIDE DEF d
  <2>3. EntryRow(d) \in VersionRow /\ EntryRow(d).by = d.change
    BY <2>2 DEF EntryRow, VersionRow, Entry
  <2>4. (CHOOSE e \in Inserted(s, f) : e.version = d.version) = d
    BY <2>1
  <2>5. WithInserted(s, f) = [v \in DOMAIN h \cup {Len(h) + 1} |->
                                IF v \in DOMAIN h THEN h[v] ELSE EntryRow(d)]
    <3>1. {e.version : e \in Inserted(s, f)} = {Len(h) + 1}
      BY <2>1, <2>2
    <3>2. \A v \in DOMAIN h \cup {Len(h) + 1} : v \notin DOMAIN h => v = d.version
      BY <2>2
    <3> QED BY <2>4, <3>1, <3>2 DEF WithInserted, EntryRow
  <2>6. WithInserted(s, f) = Append(h, EntryRow(d))
    <3>1. /\ h \in Seq(VersionRow) /\ Len(h) \in Nat /\ DOMAIN h = 1 .. Len(h)
          /\ DOMAIN h \cup {Len(h) + 1} = 1 .. Len(h) + 1
      BY <1>0
    <3> DEFINE r == EntryRow(d)
    <3>2. \A v \in 1 .. Len(h) + 1 : v \notin 1 .. Len(h) <=> v = Len(h) + 1
      BY <3>1
    <3>3. WithInserted(s, f) = [v \in 1 .. Len(h) + 1 |-> IF v = Len(h) + 1 THEN r ELSE h[v]]
      BY <2>5, <3>1, <3>2
    <3>5. r \in VersionRow
      BY <2>3
    <3> HIDE DEF h, r
    <3>4. Append(h, r) = [v \in 1 .. Len(h) + 1 |-> IF v = Len(h) + 1 THEN r ELSE h[v]]
      <4>1. /\ Append(h, r) \in Seq(VersionRow) /\ Len(Append(h, r)) = Len(h) + 1
            /\ \A v \in 1 .. Len(h) : Append(h, r)[v] = h[v]
            /\ Append(h, r)[Len(h) + 1] = r
        BY <3>1, <3>5, AddLast
      <4>2. Append(h, r) = [v \in 1 .. Len(h) + 1 |-> Append(h, r)[v]]
        BY <4>1, SeqIsFunction
      <4>3. \A v \in 1 .. Len(h) + 1 : v \in 1 .. Len(h) \/ v = Len(h) + 1
        BY <3>1
      <4>4. \A v \in 1 .. Len(h) + 1 :
              Append(h, r)[v] = IF v = Len(h) + 1 THEN r ELSE h[v]
        BY <4>1, <4>3
      <4> QED BY <4>2, <4>4
    <3> QED BY <3>3, <3>4 DEF r
  <2> QED BY <2>2, <2>3, <2>6
<1> QED BY <1>4, <1>5

(* The commit of a batch: what it wrote becomes history, and exactly what  *)
(* it wrote becomes applied.                                               *)
LEMMA FinishIInv ==
    ASSUME IInv, NEW s \in Scheduler, Finish(s)
    PROVE  IInv'
<1> DEFINE x == [Asleep EXCEPT !.at = "notify", !.done = sch[s].done]
<1>0. /\ sch[s] \in Session /\ BatchOK(s) /\ sch[s].at = "claimed" /\ sch[s].todo = <<>>
      /\ Open(s) /\ sch' = [sch EXCEPT ![s] = x] /\ mgr' = mgr
      /\ now' = now /\ archived' = archived /\ crashes' = crashes
      /\ history' = [f \in Flag |-> WithInserted(s, f)]
      /\ change' = [c \in Change |-> IF c \in Written(s) THEN "applied" ELSE change[c]]
  BY DEF IInv, Typed, Finish, Open
<1>1. /\ x \in Session /\ x.at = "notify" /\ x.todo = <<>> /\ x.done = sch[s].done
  <2>1. x \in Session /\ x.at = "notify" /\ x.todo = Asleep.todo /\ x.done = sch[s].done
    BY <1>0, AsleepType DEF Session
  <2> HIDE DEF x
  <2> QED BY <2>1, AsleepType
<1> HIDE DEF x
<1>2. /\ sch'[s] = x /\ \A t \in Scheduler : t # s => sch'[t] = sch[t]
      /\ \A q \in Process : q # s => \A f : RowHeld(q, f)' = RowHeld(q, f)
  BY <1>0, OthersStay DEF IInv
<1>3. /\ ~Open(s)' /\ Claimed(s)' = {} /\ \A f : ~RowHeld(s, f)'
  <2>1. ~Open(s)'
    BY <1>1, <1>2 DEF Open
  <2> QED BY <2>1, SchedulerAssumption DEF Claimed, RowHeld, SchedulerAssumption
<1>4. ASSUME NEW f \in Flag
      PROVE  \/ /\ history'[f] = history[f]
                /\ \A c \in Written(s) : FlagOf[c] # f
             \/ \E d \in Entry :
                  /\ history'[f] = Append(history[f], EntryRow(d))
                  /\ EntryRow(d) \in VersionRow /\ d.base = Len(history[f])
                  /\ d.change \in Written(s) /\ FlagOf[d.change] = f
                  /\ \A c \in Written(s) : FlagOf[c] = f => c = d.change
  <2>1. history'[f] = WithInserted(s, f)
    BY <1>0
  <2> QED BY <1>0, <2>1, OneInserted
<1>5. \A f \in Flag : history[f] \in Seq(VersionRow)
  BY DEF IInv, Typed
<1>6. Written(s) \subseteq Claimed(s) /\ Written(s) \subseteq Change
  BY <1>0, WrittenByIndex DEF Claimed, IInv
<1>7. Typed'
  <2>1. \A f \in Flag : WithInserted(s, f) \in Seq(VersionRow)
    <3> SUFFICES ASSUME NEW f \in Flag
                 PROVE  history'[f] \in Seq(VersionRow)
      BY <1>0
    <3>1. CASE history'[f] = history[f]
      BY <1>5, <3>1
    <3>2. CASE \E d \in Entry : /\ history'[f] = Append(history[f], EntryRow(d))
                                /\ EntryRow(d) \in VersionRow
      BY <1>5, <3>2, AddLast
    <3> QED BY <1>4, <3>1, <3>2
  <2>2. history' \in [Flag -> Seq(VersionRow)]
    BY <1>0, <2>1
  <2>3. change' \in [Change -> {"unknown", "pending", "applied"}]
    BY <1>0 DEF IInv, Typed
  <2>4. sch' \in [Scheduler -> Session]
    BY <1>0, <1>1 DEF IInv, Typed
  <2> QED BY <1>0, <2>2, <2>3, <2>4 DEF IInv, Typed
<1>8. ASSUME NEW t \in Scheduler, t # s
      PROVE  BatchOK(t)' /\ WrittenOK(t)' /\ Claimed(t)' = Claimed(t)
  <2>1. \A f \in Flag : RowHeld(t, f) => history'[f] = history[f]
    <3> SUFFICES ASSUME NEW f \in Flag, RowHeld(t, f), NEW c \in Written(s), FlagOf[c] = f
                 PROVE  FALSE
      BY <1>4
    <3>1. RowHeld(s, f)
      BY <1>0, OwnRows
    <3>2. t \in Process /\ s \in Process
      BY DEF Process
    <3> QED BY <1>8, <3>1, <3>2 DEF IInv, RowsExclusive
  <2>2. \A f \in Flag : history'[f] = history[f] \/ \E r \in VersionRow : Grows(f, r)
    BY <1>4 DEF Grows
  <2>3. sch'[t] = sch[t] /\ Claimed(t)' = Claimed(t)
    BY <1>2, <1>8, SessionStays
  <2>4. \A c \in Claimed(t) : change'[c] = change[c]
    <3>1. Claimed(t) \subseteq Change /\ Claimed(s) \cap Claimed(t) = {}
      BY <1>8, WrittenByIndex DEF IInv, ClaimsApart
    <3> QED BY <1>0, <1>6, <3>1
  <2> QED BY <2>1, <2>2, <2>3, <2>4, OthersFollow
<1>9. BatchOK(s)' /\ WrittenOK(s)'
  <2>1. WrittenOK(s)'
    BY <1>3 DEF WrittenOK
  <2>2. Len(x.todo) + Len(x.done) <= Limit /\ Len(x.todo) + Len(x.done) > 0
    BY <1>0, <1>1 DEF BatchOK
  <2>3. BatchOK(s)'
    BY <1>1, <1>2, <1>3, <2>2 DEF BatchOK
  <2> QED BY <2>1, <2>3
<1>10. RowsExclusive'
  BY <1>2, <1>3 DEF IInv, RowsExclusive
<1>11. ClaimsApart'
  BY <1>3, <1>8 DEF IInv, ClaimsApart
<1>12. DerivedFromLast'
  <2>1. \A f \in Flag : Derived(history[f])
    BY HistoryInvs DEF IInv
  <2>2. ASSUME NEW f \in Flag
        PROVE  Derived(history'[f])
    <3>1. CASE history'[f] = history[f]
      BY <2>1, <3>1
    <3>2. ASSUME NEW d \in Entry, history'[f] = Append(history[f], EntryRow(d)),
                 EntryRow(d) \in VersionRow, d.base = Len(history[f])
          PROVE  Derived(history'[f])
      <4>1. EntryRow(d).base = Len(history[f])
        BY <3>2 DEF EntryRow
      <4> QED BY <1>5, <2>1, <3>2, <4>1, AppendDerived
    <3> QED BY <1>4, <3>1, <3>2
  <2> QED BY <2>2 DEF DerivedFromLast, Derived
<1>13. AppliedOnce'
  <2> DEFINE M(c) == MadeBy(history[FlagOf[c]], c)
  <2>1. \A c \in Change : (change[c] = "applied" <=> M(c) # {}) /\ \A v, w \in M(c) : v = w
    BY HistoryInvs DEF IInv
  <2>2. ASSUME NEW c \in Change
        PROVE  /\ change'[c] = "applied" <=> MadeBy(history'[FlagOf[c]], c) # {}
               /\ \A v, w \in MadeBy(history'[FlagOf[c]], c) : v = w
    <3>0. FlagOf[c] \in Flag
      BY SchedulerAssumption DEF SchedulerAssumption
    <3>1. CASE c \notin Written(s)
      <4>1. change'[c] = change[c]
        BY <1>0, <3>1
      <4>2. MadeBy(history'[FlagOf[c]], c) = M(c)
        <5>1. ASSUME NEW d \in Entry, history'[FlagOf[c]] = Append(history[FlagOf[c]], EntryRow(d)),
                     EntryRow(d) \in VersionRow, d.change \in Written(s)
              PROVE  MadeBy(history'[FlagOf[c]], c) = M(c)
          <6>1. EntryRow(d).by # c
            BY <3>1, <5>1 DEF EntryRow
          <6>2. history[FlagOf[c]] \in Seq(VersionRow)
            BY <1>5, <3>0
          <6>3. MadeBy(Append(history[FlagOf[c]], EntryRow(d)), c) =
                  MadeBy(history[FlagOf[c]], c) \cup {}
            BY <5>1, <6>1, <6>2, AppendMade, Zenon
          <6> QED BY <5>1, <6>3
        <5> QED BY <1>4, <3>0, <5>1
      <4> QED BY <2>1, <4>1, <4>2
    <3>2. CASE c \in Written(s)
      <4>1. change'[c] = "applied" /\ change[c] = "pending"
        BY <1>0, <1>6, <3>2 DEF BatchOK
      <4>2. PICK d \in Entry : /\ history'[FlagOf[c]] = Append(history[FlagOf[c]], EntryRow(d))
                               /\ EntryRow(d) \in VersionRow /\ d.change = c
        BY <1>4, <3>0, <3>2
      <4>3. EntryRow(d).by = c
        BY <4>2 DEF EntryRow
      <4>4. MadeBy(history'[FlagOf[c]], c) = M(c) \cup {Len(history[FlagOf[c]]) + 1}
        <5>1. history[FlagOf[c]] \in Seq(VersionRow)
          BY <1>5, <3>0
        <5>2. MadeBy(Append(history[FlagOf[c]], EntryRow(d)), c) =
                MadeBy(history[FlagOf[c]], c) \cup {Len(history[FlagOf[c]]) + 1}
          <6>1. (IF EntryRow(d).by = c THEN {Len(history[FlagOf[c]]) + 1} ELSE {}) =
                  {Len(history[FlagOf[c]]) + 1}
            BY <4>3
          <6>2. EntryRow(d) \in VersionRow
            BY <4>2
          <6> QED BY <5>1, <6>1, <6>2, AppendMade, ZenonT(40)
        <5> QED BY <4>2, <5>2
      <4>5. M(c) = {}
        BY <2>1, <4>1
      <4> QED BY <4>1, <4>4, <4>5
    <3> QED BY <3>1, <3>2
  <2> QED BY <2>2 DEF AppliedOnce, MadeBy
<1> QED BY <1>7, <1>8, <1>9, <1>10, <1>11, <1>12, <1>13 DEF IInv

-----------------------------------------------------------------------------
LEMMA InitIInv == SchedInit => IInv
<1> SUFFICES ASSUME SchedInit
             PROVE  IInv
  OBVIOUS
<1> USE DEF SchedInit
<1>1. Typed
  <2>1. <<[by |-> "api", base |-> 0]>> \in Seq(VersionRow)
    <3>1. [by |-> "api", base |-> 0] \in VersionRow
      BY DEF VersionRow
    <3> QED BY <3>1
  <2> QED BY <2>1, AsleepType, NoJobType, SchedulerAssumption
          DEF Typed, SchedulerAssumption, ManagerJob
<1>2. \A s \in Scheduler : sch[s] = Asleep /\ ~Open(s) /\ Claimed(s) = {}
  BY DEF Open, Claimed, Asleep
<1>3. \A s \in Scheduler : BatchOK(s) /\ WrittenOK(s)
  <2>1. /\ Asleep.at = "asleep" /\ Len(Asleep.todo) = 0 /\ Len(Asleep.done) = 0 /\ 0 <= Limit
    BY AsleepType, SchedulerAssumption DEF Asleep, SchedulerAssumption
  <2>2. Len(Asleep.todo) + Len(Asleep.done) = 0
    BY <2>1
  <2>3. Asleep.at \notin {"read", "ready", "swapped", "notify"}
    BY <2>1
  <2> QED BY <1>2, <2>1, <2>2, <2>3 DEF BatchOK, WrittenOK
<1>4. RowsExclusive /\ ClaimsApart
  BY <1>2 DEF RowsExclusive, ClaimsApart, RowHeld, NoJob
<1>5. \A f \in Flag : /\ history[f] = <<[by |-> "api", base |-> 0]>>
                      /\ DOMAIN history[f] = {1}
                      /\ history[f][1].base = 0 /\ history[f][1].by = "api"
  OBVIOUS
<1>6. DerivedFromLast
  BY <1>5 DEF DerivedFromLast
<1>7. AppliedOnce
  BY <1>5, SchedulerAssumption DEF AppliedOnce, SchedulerAssumption
<1> QED BY <1>1, <1>3, <1>4, <1>6, <1>7 DEF IInv

LEMMA NextIInv == IInv /\ [SchedNext]_schedvars => IInv'
<1> SUFFICES ASSUME IInv, [SchedNext]_schedvars
             PROVE  IInv'
  OBVIOUS
<1>1. CASE UNCHANGED schedvars
  <2>1. Typed' /\ RowsExclusive'
    BY <1>1 DEF IInv, schedvars, Typed, RowsExclusive, RowHeld, Open, Written
  <2> QED BY <1>1, <2>1, QuietStep DEF schedvars
<1>2. ASSUME NEW s \in Scheduler, Iterate(s) \/ Crash(s)
      PROVE  IInv'
  BY <1>2, PollIInv, ReadIInv, SwapIInv, BumpIInv, FinishIInv, NotifyIInv, DroppedIInv
     DEF Iterate
<1>3. CASE (\E c \in Change : Schedule(c)) \/ Tick
  BY <1>3, OutsideIInv
<1>4. ASSUME NEW m \in Manager,
             \/ \E f \in Flag : ManagerSwap(m, f) \/ Archive(m, f)
             \/ ManagerBump(m) \/ ManagerCommit(m)
      PROVE  IInv'
  BY <1>4, ManagerIInv, ManagerCommitIInv, OutsideIInv
<1>5. ASSUME NEW p \in Process, DeadlockVictim(p)
      PROVE  IInv'
  BY <1>5, DroppedIInv, ManagerIInv DEF Process
<1> QED BY <1>1, <1>2, <1>3, <1>4, <1>5 DEF SchedNext

(* The invariant holds of every behaviour.                                 *)
THEOREM SchedInvariance == SchedSpec => []IInv
<1> QED BY InitIInv, NextIInv, PTL DEF SchedSpec

(* Every variable keeps its type, and a batch is never longer than Limit.  *)
THEOREM SchedTypeCorrect == SchedSpec => []SchedTypeOK
<1>1. IInv => SchedTypeOK
  <2> SUFFICES ASSUME IInv
               PROVE  SchedTypeOK
    OBVIOUS
  <2>1. DOMAIN history = Flag
    BY DEF IInv, Typed
  <2>2. ASSUME NEW f \in Flag, NEW v \in DOMAIN history[f]
        PROVE  history[f][v].by \in Change \cup {"api"} /\ history[f][v].base \in Nat
    <3>1. history[f] \in Seq(VersionRow)
      BY DEF IInv, Typed
    <3>2. history[f][v] \in VersionRow
      BY <3>1
    <3> QED BY <3>2 DEF VersionRow
  <2>3. ASSUME NEW s \in Scheduler
        PROVE  /\ sch[s].at \in {"asleep", "claimed", "read", "ready", "swapped", "notify"}
               /\ Len(sch[s].todo) + Len(sch[s].done) <= Limit
               /\ ToSet(sch[s].todo) \cup Written(s) \subseteq Change
               /\ sch[s].bumped \subseteq Env
    BY WrittenByIndex DEF IInv, Typed, Session, BatchOK
  <2> QED BY <2>1, <2>2, <2>3 DEF IInv, Typed, SchedTypeOK
<1> QED BY <1>1, SchedInvariance, PTL

(* No change is applied twice, and one is marked exactly if it was         *)
(* applied, however the schedulers interleave, abort or crash.             *)
THEOREM NoneAppliedTwice == SchedSpec => []AppliedOnce
BY SchedInvariance, PTL DEF IInv

(* No scheduled change drops an edit made since it read the configuration. *)
THEOREM NoEditDropped == SchedSpec => []DerivedFromLast
BY SchedInvariance, PTL DEF IInv
=============================================================================
