------------------------------ MODULE FlagStore ------------------------------
(***************************************************************************)
(* The configuration store of the control plane: the PostgreSQL rows of    *)
(* the flags, and the request handlers of backend/app/api/management.py    *)
(* that change them through backend/app/services/flags.py.                 *)
(*                                                                         *)
(* A handler is a process.  Each await that reaches PostgreSQL is a step,  *)
(* so that two handlers interleave as two requests do: the reads of a      *)
(* handler see the last commit (READ COMMITTED), its row locks are held    *)
(* from the UPDATE to the commit, and its writes show at the commit.  A    *)
(* request that names a missing or archived flag is refused at its first   *)
(* read and changes nothing, so it is not begun.                           *)
(***************************************************************************)
EXTENDS Integers, FiniteSets

CONSTANTS
    Flag,        \* flags of one project, one (project, key) pair each
    Env,         \* environments of the project
    HomeEnv,     \* HomeEnv[f]: the environment f's create request names
    Rule,        \* targeting rules, told apart by priority
    Handler,     \* request handlers running at once
    Existing,    \* flags already created when the behaviour starts
    Ops,         \* requests the clients send
    MaxVersion,  \* bound: versions of one flag
    MaxGuess     \* how far expected_version may run ahead of what was observed

Writes == {"update", "addRule", "rollback"}
AllOps == Writes \cup {"create", "archive"}

ASSUME StoreAssumption ==
    /\ HomeEnv \in [Flag -> Env]
    /\ Existing \subseteq Flag /\ IsFiniteSet(Existing)
    /\ Ops \subseteq AllOps
    /\ MaxVersion \in Nat \ {0}
    /\ MaxGuess \in Nat

VARIABLES
    flag,      \* flag[f]: the feature_flags row
    config,    \* config[f]: the flag_configs row and its children
    versions,  \* versions[f]: the flag_versions rows, by version
    revision,  \* revision[e]: environments.revision
    pc,        \* pc[h]: where handler h is
    job,       \* job[h]: the request h serves and what it has read
    lastLive   \* lastLive[f]: version of f when it was archived (history)

vars == <<flag, config, versions, revision, pc, job, lastLive>>

(* enabled and the default live in the flag_configs row, everything else   *)
(* in child tables that a reader loads with SELECTs of their own.          *)
Content == [enabled : BOOLEAN, rules : SUBSET Rule]
Version == 0 .. MaxVersion
Config == [version : Version, body : Content]

(* A flag_versions row with the action of the audit event written with it; *)
(* source is source_version, 0 where the column is NULL.                   *)
Snapshot == [body : Content, action : AllOps, source : Version]

Job == [op : AllOps, flag : Flag, expected : Version, body : Content,
        source : Version, prev : Nat]
None == [op |-> "none"]
NoBody == [enabled |-> FALSE, rules |-> {}]

Phase == {"idle", "begun", "loaded", "ready", "written", "committed"}

Current(f) == config[f].version

(* Mutation: the version column is missing from the row's key.             *)
RowsOverwritten(rows, v, row) == [w \in DOMAIN rows \cup {v} |-> row]

(* The flag_versions rows of one flag with one more row.                   *)
WithRow(rows, v, row) ==
    [w \in DOMAIN rows \cup {v} |-> IF w = v THEN row ELSE rows[w]]

Init ==
    /\ flag = [f \in Flag |-> IF f \in Existing THEN "live" ELSE "absent"]
    /\ config = [f \in Flag |->
                   [version |-> IF f \in Existing THEN 1 ELSE 0, body |-> NoBody]]
    /\ versions = [f \in Flag |->
                     [v \in IF f \in Existing THEN {1} ELSE {} |->
                        [body |-> NoBody, action |-> "create", source |-> 0]]]
    /\ revision = [e \in Env |-> Cardinality({f \in Existing : HomeEnv[f] = e})]
    /\ pc = [h \in Handler |-> "idle"]
    /\ job = [h \in Handler |-> None]
    /\ lastLive = [f \in Flag |-> 0]

-----------------------------------------------------------------------------
(* Reads.                                                                  *)

Goto(h, phase, j) ==
    /\ pc' = [pc EXCEPT ![h] = phase]
    /\ job' = [job EXCEPT ![h] = j]

Request(op, f) ==
    [op |-> op, flag |-> f, expected |-> 0, body |-> NoBody, source |-> 0, prev |-> 0]

Stored == <<flag, config, versions, revision, lastLive>>

(* expected_version: a version the client has seen of f, or a guess.       *)
Expectation(f) == 1 .. (Current(f) + MaxGuess)

(* Mutation: the archived check is left out.                               *)
BeginWriteUnchecked(h, op, f, v) ==
    /\ op \in {"update", "rollback"}
    /\ pc[h] = "idle" /\ flag[f] # "absent"
    /\ v \in Expectation(f) /\ v < MaxVersion
    /\ Goto(h, "begun", [Request(op, f) EXCEPT !.expected = v])
    /\ UNCHANGED Stored

(* PUT /flags/{id} and POST .../rollback/{v}: session.get(FeatureFlag).    *)
BeginWrite(h, op, f, v) ==
    /\ op \in {"update", "rollback"}
    /\ pc[h] = "idle" /\ flag[f] = "live"
    /\ v \in Expectation(f) /\ v < MaxVersion
    /\ Goto(h, "begun", [Request(op, f) EXCEPT !.expected = v])
    /\ UNCHANGED Stored

(* POST .../rules: one SELECT joins the config row, its flag and its       *)
(* environment, and refuses an archived flag.                              *)
BeginAddRule(h, f, v) ==
    /\ pc[h] = "idle" /\ flag[f] = "live"
    /\ v \in Expectation(f) /\ v < MaxVersion
    /\ Goto(h, "loaded",
            [Request("addRule", f) EXCEPT
               !.expected = v,
               !.body = [enabled |-> config[f].body.enabled, rules |-> {}],
               !.prev = revision[HomeEnv[f]]])
    /\ UNCHANGED Stored

(* DELETE /flags/{id}: session.get(FeatureFlag) and the archived check.    *)
BeginArchive(h, f) ==
    /\ pc[h] = "idle" /\ flag[f] = "live"
    /\ Goto(h, "begun", Request("archive", f))
    /\ UNCHANGED Stored

(* POST /projects/{id}/flags: the environment is read, then the key check  *)
(* must find no row, archived ones included.  The check implies that there *)
(* was none at the earlier read, so one step stands for both.              *)
BeginCreate(h, f) ==
    /\ pc[h] = "idle" /\ flag[f] = "absent"
    /\ \E c \in Content :
         Goto(h, "ready", [Request("create", f) EXCEPT
                             !.body = c, !.prev = revision[HomeEnv[f]]])
    /\ UNCHANGED Stored

(* archive_flag selects the config rows; their current_version is what it  *)
(* announces.                                                              *)
ReadConfigRow(h) ==
    /\ pc[h] = "begun" /\ job[h].op = "archive"
    /\ Goto(h, "loaded", [job[h] EXCEPT !.expected = Current(job[h].flag)])
    /\ UNCHANGED Stored

(* The environment row, for previous_revision or for revision += 1.  An    *)
(* update has all it needs then: its body comes from the payload.          *)
ReadEnvironment(h) ==
    /\ \/ pc[h] = "begun" /\ job[h].op \in {"update", "rollback"}
       \/ pc[h] = "loaded" /\ job[h].op = "archive"
    /\ \E c \in IF job[h].op = "update" THEN Content ELSE {NoBody} :
         Goto(h, IF job[h].op = "rollback" THEN "loaded" ELSE "ready",
              [job[h] EXCEPT !.prev = revision[HomeEnv[job[h].flag]], !.body = c])
    /\ UNCHANGED Stored

(* append_rule_update: the children arrive with SELECTs of their own, and  *)
(* the new rule must have a priority that none of them has.                *)
ReadChildren(h) ==
    /\ pc[h] = "loaded" /\ job[h].op = "addRule"
    /\ \E r \in Rule \ config[job[h].flag].body.rules :
         Goto(h, "ready", [job[h] EXCEPT
                             !.body.rules = config[job[h].flag].body.rules \cup {r}])
    /\ UNCHANGED Stored

(* Mutation: the rollback takes the body from the live row.                *)
ReadSnapshotFromRow(h) ==
    /\ pc[h] = "loaded" /\ job[h].op = "rollback"
    /\ \E v \in DOMAIN versions[job[h].flag] :
         Goto(h, "ready", [job[h] EXCEPT
                             !.body = config[job[h].flag].body, !.source = v])
    /\ UNCHANGED Stored

(* rollback_flag: the target snapshot becomes the payload.                 *)
ReadSnapshot(h) ==
    /\ pc[h] = "loaded" /\ job[h].op = "rollback"
    /\ \E v \in DOMAIN versions[job[h].flag] :
         Goto(h, "ready", [job[h] EXCEPT
                             !.body = versions[job[h].flag][v].body, !.source = v])
    /\ UNCHANGED Stored

-----------------------------------------------------------------------------
(* Writes.                                                                 *)

(* Mutation: the version is compared before the UPDATE, under no lock.     *)
RowUnlocked(f) == f \in Flag

(* The row lock an UPDATE of f's config row takes, until commit or abort.  *)
RowFree(f) == \A h \in Handler : pc[h] = "written" => job[h].flag # f

(* Mutation: SET current_version = current_version + 1, whatever it is.    *)
SwapRebased(h) ==
    /\ pc[h] = "ready" /\ job[h].op \in Writes
    /\ RowFree(job[h].flag) /\ Current(job[h].flag) < MaxVersion
    /\ Goto(h, "written", [job[h] EXCEPT !.expected = Current(job[h].flag)])
    /\ UNCHANGED Stored

(* UPDATE flag_configs ... WHERE current_version = expected RETURNING id.  *)
CompareAndSwap(h) ==
    /\ pc[h] = "ready" /\ job[h].op \in Writes
    /\ RowFree(job[h].flag)
    /\ Current(job[h].flag) = job[h].expected
    /\ Goto(h, "written", job[h])
    /\ UNCHANGED Stored

(* Mutation: the conflict leaves the handler in its transaction.           *)
ConflictUnfinished(h) ==
    /\ pc[h] = "ready" /\ job[h].op \in Writes
    /\ RowFree(job[h].flag)
    /\ Current(job[h].flag) # job[h].expected
    /\ Goto(h, "conflict", job[h])
    /\ UNCHANGED Stored

(* No row matched: 409 configuration_conflict.                             *)
Conflict(h) ==
    /\ pc[h] = "ready" /\ job[h].op \in Writes
    /\ RowFree(job[h].flag)
    /\ Current(job[h].flag) # job[h].expected
    /\ Goto(h, "idle", None)
    /\ UNCHANGED Stored

(* Mutation: the snapshot is taken before the new children are written.    *)
CommitWriteSnapshotsOld(h) ==
    LET f == job[h].flag
        new == job[h].expected + 1
    IN /\ pc[h] = "written"
       /\ new \notin DOMAIN versions[f]
       /\ config' = [config EXCEPT ![f] = [version |-> new, body |-> job[h].body]]
       /\ versions' = [versions EXCEPT ![f] =
                         WithRow(@, new, [body |-> config[f].body, action |-> job[h].op,
                                          source |-> job[h].source])]
       /\ revision' = [revision EXCEPT ![HomeEnv[f]] = @ + 1]
       /\ Goto(h, "committed", job[h])
       /\ UNCHANGED <<flag, lastLive>>

(* Children deleted and written again, one flag_versions row (unique by    *)
(* version), UPDATE environments SET revision = revision + 1, audit event, *)
(* COMMIT.  The ORM's own view of revision is reset to what the row update *)
(* left in the session, so the flush writes nothing over it.               *)
CommitWrite(h) ==
    LET f == job[h].flag
        new == job[h].expected + 1
    IN /\ pc[h] = "written"
       /\ new \notin DOMAIN versions[f]
       /\ config' = [config EXCEPT ![f] = [version |-> new, body |-> job[h].body]]
       /\ versions' = [versions EXCEPT ![f] =
                         WithRow(@, new, [body |-> job[h].body, action |-> job[h].op,
                                          source |-> job[h].source])]
       /\ revision' = [revision EXCEPT ![HomeEnv[f]] = @ + 1]
       /\ Goto(h, "committed", job[h])
       /\ UNCHANGED <<flag, lastLive>>

(* The INSERT of the flag, waiting for other inserts of its key; config    *)
(* row, children and version 1; revision = what was read + 1; COMMIT.      *)
CommitCreate(h) ==
    LET f == job[h].flag
    IN /\ pc[h] = "ready" /\ job[h].op = "create"
       /\ flag[f] = "absent"
       /\ flag' = [flag EXCEPT ![f] = "live"]
       /\ config' = [config EXCEPT ![f] = [version |-> 1, body |-> job[h].body]]
       /\ versions' = [versions EXCEPT ![f] =
                         WithRow(@, 1, [body |-> job[h].body, action |-> "create",
                                        source |-> 0])]
       /\ revision' = [revision EXCEPT ![HomeEnv[f]] = job[h].prev + 1]
       /\ Goto(h, "committed", job[h])
       /\ UNCHANGED lastLive

(* The key was inserted meanwhile: the unique constraint aborts.           *)
DuplicateKey(h) ==
    /\ pc[h] = "ready" /\ job[h].op = "create"
    /\ flag[job[h].flag] # "absent"
    /\ Goto(h, "idle", None)
    /\ UNCHANGED Stored

(* Mutation: a second archive in flight clears archived_at.                *)
ArchiveToggles(h) ==
    LET f == job[h].flag
    IN /\ pc[h] = "ready" /\ job[h].op = "archive"
       /\ flag' = [flag EXCEPT ![f] = IF @ = "live" THEN "archived" ELSE "live"]
       /\ lastLive' = [lastLive EXCEPT ![f] = IF flag[f] = "live" THEN Current(f) ELSE @]
       /\ revision' = [revision EXCEPT ![HomeEnv[f]] = job[h].prev + 1]
       /\ Goto(h, "committed", job[h])
       /\ UNCHANGED <<config, versions>>

(* archived_at and, from the ORM, revision = what was read + 1; COMMIT.    *)
CommitArchive(h) ==
    LET f == job[h].flag
    IN /\ pc[h] = "ready" /\ job[h].op = "archive"
       /\ flag' = [flag EXCEPT ![f] = "archived"]
       /\ lastLive' = [lastLive EXCEPT ![f] = IF flag[f] = "live" THEN Current(f) ELSE @]
       /\ revision' = [revision EXCEPT ![HomeEnv[f]] = job[h].prev + 1]
       /\ Goto(h, "committed", job[h])
       /\ UNCHANGED <<config, versions>>

(* Mutation: revision is not reset after update_flag added to it.          *)
AnnouncedTwiceAdded(h) ==
    [flag |-> job[h].flag, revision |-> job[h].prev + 2,
     version |-> CASE job[h].op = "create" -> 1
                   [] job[h].op = "archive" -> job[h].expected
                   [] OTHER -> job[h].expected + 1]

(* What invalidate_and_publish is given after the commit.                  *)
Announced(h) ==
    [flag |-> job[h].flag, revision |-> job[h].prev + 1,
     version |-> CASE job[h].op = "create" -> 1
                   [] job[h].op = "archive" -> job[h].expected
                   [] OTHER -> job[h].expected + 1]

(* invalidate_and_publish, and the response; Redis keeps no event.         *)
Notify(h) ==
    /\ pc[h] = "committed"
    /\ Goto(h, "idle", None)
    /\ UNCHANGED Stored

(* The process dies, the client goes away, validation refuses the body or  *)
(* PostgreSQL aborts: what is not committed is rolled back.  After the     *)
(* commit a crash loses the notification only, which Notify covers.        *)
Fail(h) ==
    /\ pc[h] \notin {"idle", "committed"}
    /\ Goto(h, "idle", None)
    /\ UNCHANGED Stored

Begin(h) ==
    \E f \in Flag :
      \/ \E op \in Ops, v \in Version : BeginWrite(h, op, f, v)
      \/ \E v \in Version : "addRule" \in Ops /\ BeginAddRule(h, f, v)
      \/ "archive" \in Ops /\ BeginArchive(h, f)
      \/ "create" \in Ops /\ BeginCreate(h, f)

Step(h) ==
    \/ Begin(h) \/ ReadConfigRow(h) \/ ReadEnvironment(h)
    \/ ReadChildren(h) \/ ReadSnapshot(h)
    \/ CompareAndSwap(h) \/ Conflict(h) \/ CommitWrite(h)
    \/ CommitCreate(h) \/ DuplicateKey(h) \/ CommitArchive(h)
    \/ Notify(h) \/ Fail(h)

Next == \E h \in Handler : Step(h)

Spec == Init /\ [][Next]_vars

-----------------------------------------------------------------------------
(* Properties.                                                             *)

(* Every variable keeps its type.                                          *)
TypeOK ==
    /\ flag \in [Flag -> {"absent", "live", "archived"}]
    /\ config \in [Flag -> Config]
    /\ DOMAIN versions = Flag
    /\ \A f \in Flag : \A v \in DOMAIN versions[f] :
         v \in 1 .. MaxVersion /\ versions[f][v] \in Snapshot
    /\ revision \in [Env -> Nat]
    /\ pc \in [Handler -> Phase]
    /\ job \in [Handler -> Job \cup {None}]
    /\ lastLive \in [Flag -> Version]

(* README.md:45: a flag's versions are 1 .. n without gap or fork, n is    *)
(* current_version, and the last snapshot is what the config row and its   *)
(* children hold, whatever the handlers interleave.                        *)
LinearHistory ==
    \A f \in Flag :
      /\ DOMAIN versions[f] = 1 .. Current(f)
      /\ flag[f] = "absent" <=> Current(f) = 0
      /\ Current(f) > 0 => versions[f][Current(f)].body = config[f].body

(* docs/RELIABILITY.md:17: of the writers that name one expected version,  *)
(* one at most gets past the compare-and-swap.                             *)
OneWinner ==
    \A g, h \in Handler :
      (/\ g # h
       /\ pc[g] \in {"written", "committed"} /\ pc[h] \in {"written", "committed"}
       /\ job[g].op \in Writes /\ job[h].op \in Writes
       /\ job[g].flag = job[h].flag) => job[g].expected # job[h].expected

(* A rollback creates a later version equal to its source, although the    *)
(* source was read before the compare-and-swap and others may have written *)
(* in between (README.md:71).                                              *)
RollbackRestores ==
    \A f \in Flag : \A v \in DOMAIN versions[f] :
      versions[f][v].action = "rollback" =>
        LET s == versions[f][v].source
        IN s \in 1 .. (v - 1) /\ versions[f][s].body = versions[f][v].body

(* An added rule changes nothing else: the version it makes is the one     *)
(* before it plus a rule, although row, children and compare-and-swap are  *)
(* three steps (add_targeting_rule reads, then update_flag replaces all).  *)
(* Holds of clients that name a version they have seen (MaxGuess = 0).     *)
AddRuleKeepsRest ==
    \A f \in Flag : \A v \in DOMAIN versions[f] :
      versions[f][v].action = "addRule" =>
        /\ v > 1
        /\ \E r \in Rule \ versions[f][v - 1].body.rules :
             versions[f][v].body =
               [versions[f][v - 1].body EXCEPT !.rules = @ \cup {r}]

(* The archived check reads the flag before the transaction writes, and an *)
(* archive does not move current_version: a write in flight may land on an *)
(* archived flag, but only one, since the next would have to name a        *)
(* version no one could see before (MaxGuess = 0).                         *)
ArchivedGainsAtMostOne ==
    \A f \in Flag : flag[f] = "archived" => Current(f) <= lastLive[f] + 1

(* While every writer adds to revision in SQL, an announced revision is    *)
(* one the environment has reached: a stream client that fetches the       *)
(* snapshot finds it at least as new (docs/RELIABILITY.md:13).             *)
AnnouncedNotAhead ==
    \A h \in Handler :
      pc[h] = "committed" =>
        Announced(h).revision <= revision[HomeEnv[job[h].flag]]

(* A snapshot, once committed, is never changed or removed (README.md:45). *)
SnapshotsImmutable ==
    [][\A f \in Flag : \A v \in DOMAIN versions[f] :
         v \in DOMAIN versions'[f] /\ versions'[f][v] = versions[f][v]]_vars

(* The store implements the linear history of each flag: the versions, in  *)
(* order, are the history, and every step of a handler is one change of    *)
(* one history or none.                                                    *)
Bodies(f) == [v \in 1 .. Current(f) |-> versions[f][v].body]

Abstract == INSTANCE VersionHistory WITH
    history <- [f \in Flag |-> Bodies(f)],
    archived <- {f \in Flag : flag[f] = "archived"}

ImplementsHistory == Abstract!Spec
=============================================================================
