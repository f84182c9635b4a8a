------------------------------ MODULE Scheduler ------------------------------
(***************************************************************************)
(* Scheduled changes: schedule_change of backend/app/api/management.py     *)
(* stores them, and the loop of backend/app/scheduler/__init__.py applies  *)
(* the due ones.  Several schedulers may run, beside the management        *)
(* handlers, which change and archive the same flags.                      *)
(*                                                                         *)
(* One iteration is one transaction over a batch of changes: its claims,   *)
(* row locks and writes last until it commits all of them or aborts and    *)
(* drops all of them.  The steps are the awaits that reach PostgreSQL.     *)
(***************************************************************************)
EXTENDS Integers, Sequences, FiniteSets, SequencesExt

CONSTANTS
    Change,      \* scheduled_changes rows
    Flag, Env,
    FlagOf,      \* FlagOf[c]: the flag c changes
    HomeEnv,     \* HomeEnv[f]: the environment of f's config row
    At,          \* At[c]: activate_at
    Bad,         \* changes whose payload _apply_payload or validation refuses
    Scheduler,   \* scheduler processes
    Manager,     \* management handlers that write
    Archivable,  \* flags a manager may archive
    Limit,       \* changes in one batch (20 in the code)
    MaxTime,     \* bound: last instant
    MaxVersion,  \* bound: versions a manager takes a flag to
    MaxCrashes   \* bound: scheduler crashes

ASSUME SchedulerAssumption ==
    /\ FlagOf \in [Change -> Flag] /\ HomeEnv \in [Flag -> Env]
    /\ At \in [Change -> Nat] /\ Bad \subseteq Change /\ Archivable \subseteq Flag
    /\ IsFiniteSet(Change) /\ Limit \in Nat \ {0} /\ MaxTime \in Nat
    /\ MaxVersion \in Nat \ {0} /\ MaxCrashes \in Nat
    /\ Scheduler \cap Manager = {} /\ "api" \notin Change

VARIABLES
    now,       \* the clock of the database and the schedulers
    change,    \* change[c]: unknown, pending or applied (applied_at is set)
    history,   \* history[f]: who made each version of f, and from which
    archived,  \* flags with archived_at set
    sch,       \* sch[s]: the transaction of scheduler s
    mgr,       \* mgr[m]: the transaction of manager m
    crashes    \* crashes so far

schedvars == <<now, change, history, archived, sch, mgr, crashes>>
Rows == <<now, change, history, archived>>

EnvOf(c) == HomeEnv[FlagOf[c]]

(* row: current_version as read; base: the version whose children were     *)
(* read; done: the changes written, each with its base and the version it  *)
(* makes; bumped: environments incremented.                                *)
Asleep == [at |-> "asleep", todo |-> <<>>, row |-> 0, base |-> 0,
           done |-> <<>>, bumped |-> {}]
NoJob == [at |-> "idle", flag |-> {}]

SchedInit ==
    /\ now = 0
    /\ change = [c \in Change |-> "unknown"]
    /\ history = [f \in Flag |-> <<[by |-> "api", base |-> 0]>>]
    /\ archived = {}
    /\ sch = [s \in Scheduler |-> Asleep]
    /\ mgr = [m \in Manager |-> NoJob]
    /\ crashes = 0

-----------------------------------------------------------------------------
(* Locks, as facts about the transactions that hold them.                  *)

Open(s) == sch[s].at \notin {"asleep", "notify"}
Written(s) == {d.change : d \in ToSet(sch[s].done)}
Claimed(s) == IF Open(s) THEN ToSet(sch[s].todo) \cup Written(s) ELSE {}

RowHeld(p, f) ==
    \/ p \in Scheduler /\ Open(p) /\ \E c \in Written(p) : FlagOf[c] = f
    \/ p \in Manager /\ mgr[p].at \in {"locked", "bumped"} /\ f \in mgr[p].flag

EnvHeld(p, e) ==
    \/ p \in Scheduler /\ Open(p) /\ e \in sch[p].bumped
    \/ p \in Manager /\ mgr[p].at = "bumped" /\ \E f \in mgr[p].flag : HomeEnv[f] = e

Process == Scheduler \cup Manager
RowFree(p, f) == \A q \in Process \ {p} : ~RowHeld(q, f)
EnvFree(p, e) == \A q \in Process \ {p} : ~EnvHeld(q, e)

(* p is blocked by a lock that q holds.                                    *)
WaitsFor(p, q) ==
    \/ p \in Scheduler /\ sch[p].at = "ready" /\ RowHeld(q, FlagOf[Head(sch[p].todo)])
    \/ p \in Scheduler /\ sch[p].at = "swapped" /\ EnvHeld(q, EnvOf(Last(sch[p].done).change))
    \/ p \in Manager /\ mgr[p].at = "locked" /\ \E f \in mgr[p].flag : EnvHeld(q, HomeEnv[f])

Deadlocked(p) ==
    \E W \in SUBSET Process :
      p \in W /\ \A q \in W : \E r \in W \ {q} : WaitsFor(q, r)

-----------------------------------------------------------------------------
(* One iteration of the loop, apply_due_changes.                           *)

(* Mutation: only what falls due at this very instant is selected.         *)
DueOnTheInstant(c) == change[c] = "pending" /\ At[c] = now

(* applied_at IS NULL AND activate_at <= now.                              *)
Due(c) == change[c] = "pending" /\ At[c] <= now

(* ORDER BY activate_at LIMIT n: the batches a set of rows may give.       *)
Batches(rows) ==
    {b \in UNION {[1 .. n -> rows] : n \in {IF Cardinality(rows) < Limit
                                             THEN Cardinality(rows) ELSE Limit}} :
       /\ \A i, j \in DOMAIN b : i < j => b[i] # b[j] /\ At[b[i]] <= At[b[j]]
       /\ \A c \in rows \ ToSet(b), i \in DOMAIN b : At[b[i]] <= At[c]}

(* Mutation: the rows are selected without FOR UPDATE SKIP LOCKED.         *)
PollUnclaimed(s) ==
    LET due == {c \in Change : Due(c)}
    IN /\ sch[s].at = "asleep" /\ due # {}
       /\ \E b \in Batches(due) :
            sch' = [sch EXCEPT ![s] = [Asleep EXCEPT !.at = "claimed", !.todo = b]]
       /\ UNCHANGED <<Rows, mgr, crashes>>

(* Mutation: no LIMIT.                                                     *)
PollUnlimited(s) ==
    LET due == {c \in Change : Due(c) /\ \A t \in Scheduler : c \notin Claimed(t)}
    IN /\ sch[s].at = "asleep" /\ due # {}
       /\ sch' = [sch EXCEPT ![s] = [Asleep EXCEPT !.at = "claimed",
                                                   !.todo = SetToSeq(due)]]
       /\ UNCHANGED <<Rows, mgr, crashes>>

(* SELECT ... FOR UPDATE SKIP LOCKED.  With no row the loop sleeps again.  *)
Poll(s) ==
    LET due == {c \in Change : Due(c) /\ \A t \in Scheduler : c \notin Claimed(t)}
    IN /\ sch[s].at = "asleep" /\ due # {}
       /\ \E b \in Batches(due) :
            sch' = [sch EXCEPT ![s] = [Asleep EXCEPT !.at = "claimed", !.todo = b]]
       /\ UNCHANGED <<Rows, mgr, crashes>>

(* What s sees of f: what is committed, and its own writes.                *)
Seen(s, f) ==
    Len(history[f]) + Cardinality({c \in Written(s) : FlagOf[c] = f})

Move(s, session) == sch' = [sch EXCEPT ![s] = session] /\ UNCHANGED <<Rows, mgr, crashes>>

(* session.get(FlagConfig), then the flag and environment joined to it.    *)
ReadConfig(s) ==
    /\ sch[s].at = "claimed" /\ sch[s].todo # <<>>
    /\ FlagOf[Head(sch[s].todo)] \notin archived
    /\ Move(s, [sch[s] EXCEPT !.at = "read", !.row = Seen(s, FlagOf[Head(sch[s].todo)])])

(* The children, with SELECTs of their own; _apply_payload edits them.     *)
ReadChildren(s) ==
    /\ sch[s].at = "read" /\ Head(sch[s].todo) \notin Bad
    /\ Move(s, [sch[s] EXCEPT !.at = "ready", !.base = Seen(s, FlagOf[Head(sch[s].todo)])])

(* Mutation: current_version is read again just before the UPDATE.         *)
SwapRebased(s) ==
    LET c == Head(sch[s].todo)
    IN /\ sch[s].at = "ready" /\ RowFree(s, FlagOf[c])
       /\ Move(s, [sch[s] EXCEPT !.at = "swapped", !.todo = Tail(@),
                     !.done = Append(@, [change |-> c, base |-> sch[s].base,
                                          version |-> Seen(s, FlagOf[c]) + 1])])

(* update_flag's compare-and-swap of current_version.                      *)
Swap(s) ==
    LET c == Head(sch[s].todo)
    IN /\ sch[s].at = "ready" /\ RowFree(s, FlagOf[c])
       /\ Seen(s, FlagOf[c]) = sch[s].row
       /\ Move(s, [sch[s] EXCEPT !.at = "swapped", !.todo = Tail(@),
                     !.done = Append(@, [change |-> c, base |-> sch[s].base,
                                          version |-> sch[s].row + 1])])

(* UPDATE environments SET revision = revision + 1; applied_at is set.     *)
Bump(s) ==
    LET e == EnvOf(Last(sch[s].done).change)
    IN /\ sch[s].at = "swapped" /\ EnvFree(s, e) /\ e \notin sch[s].bumped
       /\ Move(s, [sch[s] EXCEPT !.at = "claimed", !.bumped = @ \cup {e}])

(* The flag_versions rows of f that s has written, and f's rows with them. *)
Inserted(s, f) == {d \in ToSet(sch[s].done) : FlagOf[d.change] = f}

WithInserted(s, f) ==
    [v \in DOMAIN history[f] \cup {d.version : d \in Inserted(s, f)} |->
       IF v \in DOMAIN history[f] THEN history[f][v]
       ELSE LET d == CHOOSE d \in Inserted(s, f) : d.version = v
            IN [by |-> d.change, base |-> d.base]]

(* The end of the batch commits all of it.                                 *)
Finish(s) ==
    /\ sch[s].at = "claimed" /\ sch[s].todo = <<>>
    /\ history' = [f \in Flag |-> WithInserted(s, f)]
    /\ change' = [c \in Change |-> IF c \in Written(s) THEN "applied" ELSE change[c]]
    /\ sch' = [sch EXCEPT ![s] = [Asleep EXCEPT !.at = "notify", !.done = sch[s].done]]
    /\ UNCHANGED <<now, archived, mgr, crashes>>

(* invalidate_and_publish, one change after the other.                     *)
Notify(s) ==
    /\ sch[s].at = "notify"
    /\ Move(s, IF Len(sch[s].done) = 1 THEN Asleep ELSE [sch[s] EXCEPT !.done = Tail(@)])

(* What raises inside the transaction: an archived flag (404), a refused   *)
(* payload, a row another writer moved (409), and a second change in one   *)
(* environment.  The UPDATE of a modified revision expires it in the       *)
(* session, which does not autoflush, and revision += 1 must load it then, *)
(* outside any await.                                                      *)
Raises(s) ==
    \/ /\ sch[s].at = "claimed" /\ sch[s].todo # <<>>
       /\ FlagOf[Head(sch[s].todo)] \in archived
    \/ sch[s].at = "read" /\ Head(sch[s].todo) \in Bad
    \/ /\ sch[s].at = "ready" /\ RowFree(s, FlagOf[Head(sch[s].todo)])
       /\ Seen(s, FlagOf[Head(sch[s].todo)]) # sch[s].row
    \/ sch[s].at = "swapped" /\ EnvOf(Last(sch[s].done).change) \in sch[s].bumped

(* scheduler_iteration_failed: the whole batch is dropped and the loop     *)
(* goes on.                                                                *)
IterationFails(s) == Raises(s) /\ Move(s, Asleep)

(* The process dies, and a new one begins with the loop.                   *)
Crash(s) ==
    /\ sch[s].at # "asleep" /\ crashes < MaxCrashes
    /\ sch' = [sch EXCEPT ![s] = Asleep]
    /\ crashes' = crashes + 1
    /\ UNCHANGED <<Rows, mgr>>

-----------------------------------------------------------------------------
(* The management API.                                                     *)

(* schedule_change.  expected_version is checked now and not kept, and     *)
(* activate_at may have passed.                                            *)
Schedule(c) ==
    /\ change[c] = "unknown" /\ FlagOf[c] \notin archived
    /\ change' = [change EXCEPT ![c] = "pending"]
    /\ UNCHANGED <<now, history, archived, sch, mgr, crashes>>

ManagerMove(m, j) == mgr' = [mgr EXCEPT ![m] = j]

(* update_flag as FlagStore has it, from its compare-and-swap on.          *)
ManagerSwap(m, f) ==
    /\ mgr[m].at = "idle" /\ f \notin archived /\ RowFree(m, f)
    /\ Len(history[f]) < MaxVersion
    /\ ManagerMove(m, [at |-> "locked", flag |-> {f}])
    /\ UNCHANGED <<Rows, sch, crashes>>

ManagerBump(m) ==
    /\ mgr[m].at = "locked" /\ \A f \in mgr[m].flag : EnvFree(m, HomeEnv[f])
    /\ ManagerMove(m, [mgr[m] EXCEPT !.at = "bumped"])
    /\ UNCHANGED <<Rows, sch, crashes>>

ManagerCommit(m) ==
    /\ mgr[m].at = "bumped"
    /\ history' = [f \in Flag |->
         IF f \in mgr[m].flag
         THEN Append(history[f], [by |-> "api", base |-> Len(history[f])])
         ELSE history[f]]
    /\ ManagerMove(m, NoJob)
    /\ UNCHANGED <<now, change, archived, sch, crashes>>

(* archive_flag updates the flag and the environment, not the config row.  *)
Archive(m, f) ==
    /\ mgr[m].at = "idle" /\ f \in Archivable \ archived /\ EnvFree(m, HomeEnv[f])
    /\ archived' = archived \cup {f}
    /\ UNCHANGED <<now, change, history, sch, mgr, crashes>>

(* PostgreSQL aborts one of the transactions that wait for each other.     *)
DeadlockVictim(p) ==
    /\ Deadlocked(p)
    /\ IF p \in Scheduler
       THEN Move(p, Asleep)
       ELSE ManagerMove(p, NoJob) /\ UNCHANGED <<Rows, sch, crashes>>

Tick ==
    /\ now < MaxTime
    /\ now' = now + 1
    /\ UNCHANGED <<change, history, archived, sch, mgr, crashes>>

-----------------------------------------------------------------------------
Iterate(s) ==
    \/ Poll(s) \/ ReadConfig(s) \/ ReadChildren(s) \/ Swap(s) \/ Bump(s)
    \/ Finish(s) \/ Notify(s) \/ IterationFails(s)

SchedNext ==
    \/ \E s \in Scheduler : Iterate(s) \/ Crash(s)
    \/ \E c \in Change : Schedule(c)
    \/ \E m \in Manager :
         \/ \E f \in Flag : ManagerSwap(m, f) \/ Archive(m, f)
         \/ ManagerBump(m) \/ ManagerCommit(m)
    \/ \E p \in Process : DeadlockVictim(p)
    \/ Tick

(* The loop runs for ever, time passes, PostgreSQL finds deadlocks, and a  *)
(* handler that holds locks ends; no one needs to send requests.           *)
SchedFairness ==
    /\ WF_schedvars(Tick)
    /\ \A s \in Scheduler : WF_schedvars(Iterate(s))
    /\ \A m \in Manager : WF_schedvars(ManagerBump(m) \/ ManagerCommit(m))
    /\ WF_schedvars(\E p \in Process : DeadlockVictim(p))

SchedSpec == SchedInit /\ [][SchedNext]_schedvars /\ SchedFairness

-----------------------------------------------------------------------------
(* Properties.                                                             *)

(* Every variable keeps its type; a batch is never longer than Limit.      *)
SchedTypeOK ==
    /\ now \in 0 .. MaxTime
    /\ change \in [Change -> {"unknown", "pending", "applied"}]
    /\ DOMAIN history = Flag
    /\ \A f \in Flag : \A v \in DOMAIN history[f] :
         history[f][v].by \in Change \cup {"api"} /\ history[f][v].base \in Nat
    /\ archived \subseteq Flag
    /\ \A s \in Scheduler :
         /\ sch[s].at \in {"asleep", "claimed", "read", "ready", "swapped", "notify"}
         /\ Len(sch[s].todo) + Len(sch[s].done) <= Limit
         /\ ToSet(sch[s].todo) \cup Written(s) \subseteq Change
         /\ sch[s].bumped \subseteq Env
    /\ mgr \in [Manager -> [at : {"idle", "locked", "bumped"}, flag : SUBSET Flag]]
    /\ crashes \in 0 .. MaxCrashes

(* docs/ARCHITECTURE.md:49: "several scheduler instances can run without   *)
(* applying one change twice".  A change is marked as applied when and     *)
(* only when exactly one version of its flag was made by it, whatever the  *)
(* schedulers interleave, abort or crash.                                  *)
AppliedOnce ==
    \A c \in Change :
      LET made == {v \in DOMAIN history[FlagOf[c]] : history[FlagOf[c]][v].by = c}
      IN /\ change[c] = "applied" <=> made # {}
         /\ \A v, w \in made : v = w

(* README.md:217: no scheduled change drops an edit made between its read  *)
(* of the configuration and its write: every version derives from the one  *)
(* before it.                                                              *)
DerivedFromLast ==
    \A f \in Flag : \A v \in DOMAIN history[f] : history[f][v].base = v - 1

(* README.md:29, a durable scheduler: a stored change whose payload is     *)
(* sound is applied, unless its flag is archived.  Of two due changes that *)
(* share a batch, one that fails or shares an environment with the other   *)
(* must not keep it from being applied.                                    *)
EventuallyApplied ==
    \A c \in Change \ Bad :
      change[c] = "pending" ~> (change[c] = "applied" \/ FlagOf[c] \in archived)

Pending == {c \in Change : change[c] = "pending"}

(* Nothing that is pending spoils a batch.                                 *)
Clear ==
    \A c \in Pending :
      /\ c \notin Bad /\ FlagOf[c] \notin archived
      /\ \A d \in Pending \ {c} : EnvOf(c) # EnvOf(d)

(* What remains of that promise: once the changes that spoil batches are   *)
(* gone for good, every pending change is applied, whatever the other      *)
(* scheduler, managers, deadlocks and a crash do.                          *)
AppliedWhenClear ==
    \A c \in Change : <>[]Clear => (change[c] = "pending" ~> change[c] = "applied")
=============================================================================
