# CohortSwitch: a TLA+ verification of the control plane and the evaluation path

CohortSwitch is a feature-flag service: a management API stores versioned flag
configurations in PostgreSQL, an evaluation API compiles and caches them in
Redis and serves variations to subjects, a scheduler applies planned changes,
and clients follow an environment by an event stream and a snapshot. This
directory models the parts whose correctness depends on the order in which
requests, transactions, cache calls and clocks interleave, checks them with TLC
on small instances and proves the central ones with TLAPS for all instances.

Paths below are relative to the repository; `flags.py` is
`backend/app/services/flags.py`, `management.py` is
`backend/app/api/management.py`, `cache.py` is `backend/app/services/cache.py`,
`auth.py` is `backend/app/services/auth.py`, and "the scheduler" is
`backend/app/scheduler/__init__.py`.

## 1. The system's parts

| part | state it keeps | operations | interacts with | what is hard | what makes it correct |
|---|---|---|---|---|---|
| Configuration store (`flags.py`, `management.py`) | `feature_flags`, `flag_configs` with child rows, `flag_versions`, `environments.revision` | create, replace, add rule, rollback, archive | announces to cache and stream after each commit; read by cache, export, scheduler | READ COMMITTED reads followed by a compare-and-swap; statements of one transaction; a revision added to in SQL in one place and by the ORM in two | each flag has one linear, immutable history; one writer per version; rollbacks are exact; an edit is not lost |
| Configuration cache (`cache.py`) | one Redis entry per flag and environment, with TTL | single and batch lookup, fill, delete, publish | reads the store, serves the evaluation endpoints | fills racing with invalidations, failing Redis calls, dead writers, pipelines that stop halfway | staleness is bounded; an entry never claims more than it holds |
| Snapshot export (`management.py:567`) | the ETag and copy a client holds | conditional GET | reads the store | three SELECTs while others commit | an ETag that is current means a copy that is current |
| Scheduler | `scheduled_changes`, the transaction of each scheduler | schedule, poll, apply a batch, notify | writes the store through `update_flag`, locks rows beside managers | several schedulers, SKIP LOCKED, batches that fail as a whole, crashes, deadlocks | each change is applied at most once, drops no edit, and a sound change that nothing blocks is applied in the end |
| Configuration compiler (`flags.py`) | child rows | validate, build, persist, load, compile, edit | between the API's payloads and the engine | cumulative ends and shares, rows without order | reading back what was stored gives the same configuration |
| Evaluation engine (`backend/app/evaluation/`) | none | `evaluate_flag` | takes a compiled configuration, a context and a time | bucket and stage boundaries | documented precedence; a rollout whose first share grows, and a plan whose shares grow, only add subjects; deterministic |
| Event stream (`backend/app/api/streaming.py`) | Redis subscriptions | subscribe, forward, heartbeat, degraded event | Pub/Sub of `cache.py`; makes the client fetch the export | events published while no one listens, or while SUBSCRIBE is on its way; connections that break unnoticed | while a client hears nothing, it has what the store has; it is repaired without polling |
| Refresh tokens (`services/auth.py`) | `refresh_tokens`, chained by `replaced_by_id` | register, login, refresh, logout | row lock per token | rotation racing with reuse, expiry, logout and retries; commits of requests that fail | one usable token per sign-in; a reported reuse has closed the sessions that were committed when its UPDATE began; a revocation stands |
| Rate limiter (`core/middleware/`) | Redis counters, a local dictionary | check one request | Redis, with a local fallback | window edges, calls that fail after their effect, crashes, pruning | a bound on what is admitted per window; no refusal within the limit; an answer to every request |
| Python SDK (`sdk/python`) | a decision cache | evaluate, batch, clear, prune | the evaluation API | a TTL over a TTL, answers out of order, time-outs | bounded staleness |
| Keys and permissions | API keys, memberships | check a scope or role | every endpoint | none: one read per request | the role table |
| Organizations, projects, environments | single rows | create, list | the store's foreign keys | unique constraints only | |
| Audit, request context, health, metrics, logs, errors, migration | rows of their own or none | | | none that later requests depend on | |

The hazards, each with its line and the properties aimed at it, are listed in
`PROJECT.json`.

## 2. The modules

### VersionHistory: what the store promises

The abstract specification: every flag has a sequence of configurations; a step
starts one, appends one configuration to one of them, or archives a flag, for
ever. It is what "a linear, immutable version snapshot" (README.md:45) says,
without transactions or handlers.

### FlagStore: the store under concurrent handlers

One process per request handler. Each await that reaches PostgreSQL is a step,
so handlers interleave as two requests do. Reads see the last commit, the lock
of a row goes from its UPDATE to the commit, writes show at the commit.

| variable | code |
|---|---|
| `flag[f]` | the `feature_flags` row: absent, live, archived |
| `config[f]` | the `flag_configs` row (`current_version`, `enabled`) and its children |
| `versions[f]` | the `flag_versions` rows, with the action of their audit event |
| `revision[e]` | `environments.revision` |
| `pc[h]`, `job[h]` | where a handler is, and what it has read so far |
| `lastLive[f]` | history variable: the version at the time of archiving |

A write goes `begun` (flag read) → `loaded` (what it edits is read) → `ready`
(environment read, body complete) → `written` (the compare-and-swap matched and
its row lock is held) → `committed` → `idle` (announced). `Conflict` is the
409; `DuplicateKey` the unique constraint; `Fail` is any abort before the
commit: a crash, a dropped client, a deadlock victim, a refused body.

Abstractions: a body is `enabled` and a set of rules, since only the row and
its children are read by different statements; the children arrive in one
step, although the code loads each kind with a SELECT of its own; name and
description are not versioned and are left out; requests refused at their first
read are not begun; the payload of an update is chosen when it is needed, as no
read depends on it. `MaxGuess` says how far `expected_version` may run ahead of
what a client has seen; 0 are clients that name a version they have read.

### SnapshotSync: a client that fetches the export

Extends FlagStore with one client and the export in its three reads: revision,
config rows, children. The 200 takes the ETag of the first read; a matching
`If-None-Match` is answered with 304, which changes nothing. Here the client
may fetch at any time; in EventStream it fetches when it hears something.

### EventStream: what makes the client fetch

Extends SnapshotSync with the channel of one environment. `conn` is the stream
of the client: `asked` from the "connected" event until Redis has served
SUBSCRIBE, `on` from then, `lost` when the connection to Redis has broken and
the stream does not know. redis-py then either subscribes anew without telling
(`Reconnect`), or raises, and the stream sends "degraded" and ends
(`Degraded`). A handler's announcement of the watched environment reaches
`inbox` if the stream is `on`;
it may also fail, as `invalidate_and_publish` logs a `RedisError` and a process
can die after its commit. `wants` is what the client has heard and not yet
answered with a fetch. The history variable `gap` marks a loss that no one can
notice: an event never published, or published while SUBSCRIBE was on its way
or the connection broken.

### ConfigCache: Redis between readers and writers

The store is reduced to a version number and an archived mark per flag, which
FlagStore justifies (versions are a linear history). Readers look up, read
rows, read children and fill, one key at a time; writers commit, delete and
publish. Any Redis call may fail and any writer may die. Time ticks: an entry
goes `TTL` ticks after its fill, and a reader takes at most `MaxHold` ticks from
its SELECT to its fill. That bound is an assumption about PostgreSQL and the
event loop, not code; without some bound on how late a fill may come, staleness
has none. `quiet[f]` counts the ticks since the last commit of a flag, up to
`QuietLimit`.

### SdkClient: the SDK over the endpoint and its cache

Extends ConfigCache with calls of `CohortSwitchClient.evaluate` and its decision
cache. A call goes `sent` → (`served` by a reader, or answered from the cache)
→ `answered` → received and kept; it may time out at any place while the server
goes on. Batches share the readers and keep nothing. A decision is named by the
version of the configuration it was made from, and one subject is evaluated, so
an entry is named by its flag. A call ends within `MaxFlight` ticks (httpx
times out); `SdkTTL` is the client's `cache_ttl_seconds`, whose default 0 turns
the cache off. `clear_cache` runs at any time, and an answer that is under way
then is still kept afterwards.

### Sessions and Tokens: refresh tokens

Sessions is the promise: a session is opened by a sign-in, has one usable token
or none, a refresh replaces exactly that token, a session that is closed stays
closed, and no token is issued twice.

Tokens has the rows and the requests. A request is one transaction, from its
SELECT ... FOR UPDATE to its commit, and `req[h]` is what it has read. A
refresh of a usable token rotates it (`Rotate`) or, past its expiry, revokes it
(`RefuseExpired`); a refresh of a revoked one is a reuse: an UPDATE selects the
usable rows of the account as it starts (`DetectReuse`), locks them one after
the other in no fixed order (`Strike`), and revokes those that still match
(`RefuseReused`). Both refusals commit before they raise
(`backend/app/api/auth.py:61`). `Abort` is a crash, a client that leaves or
PostgreSQL's choice among deadlocked UPDATEs. `root`, the sign-in a row descends
from, is no column: `replaced_by_id` leads from it to the row. `struck` is a
history variable. A token is drawn at most once, as 48 random bytes are.

### RateLimit: counting with and without Redis

`req[r]` is a request inside `dispatch`, with the window it computed on
arrival. INCR and EXPIRE are steps that may fail with their effect or without
it; `_local_allowed`, which holds a lock, is one step. A process may crash
between any two. `plain` are the processes whose table has lost its default:
the dictionary comprehension of the pruning (line 90) makes a plain dict of the
defaultdict. A request takes at most `Delay` ticks between its clock and its
last call, an assumption. `begun`, `asked`, `admitted`, `refused` and `fell` are
history variables: the requests begun, those asked and admitted per slot, the
slots a request was refused in, the processes that counted for a slot alone.

### Scheduler: planned changes

`sch[s]` is the transaction of one scheduler: the changes it still has to apply,
the row and children it has read, what it has written and which environments it
has incremented; an entry of what it has written names the change, the version
it was derived from and the version it became. `history[f]` lists who made each
version and from which version it was derived. Row locks are derived from the transactions that hold them;
`DeadlockVictim` is PostgreSQL's choice of one of the transactions in a cycle.
Everything a batch raises ends in `IterationFails`, which drops the whole batch
and leaves the changes due. Managers write and archive the same flags.

`Raises` includes the second change of one environment in a batch. The first
`update_flag` adds to `revision` in SQL and then in the ORM; the second UPDATE
of the same environment expires the modified attribute in the session
(`autoflush=False`), and `environment.revision += 1` then has to load it
outside an await.

Left out: the announcements' contents and `environments.revision` (FlagStore
has them); `expected_version` of `schedule_change`, which is checked when the
change is stored and not kept.

### Evaluation: the compiler and the engine

One configuration, from payload to rows to compiled configuration and back, and
`evaluate_flag` on it. Every change is one step here, since who may write when
is FlagStore's subject. Conditions are model values, and a subject is the set
of conditions it meets with its bucket under each salt, so the operators of
`operators.py` and the hash are data. `Loads(rows)` is the set of compiled
configurations a load may give: rules and allocations are sorted, progressive
stages come in the order of a SELECT without ORDER BY, so their order is a
choice. `SortedBy` is the one sort, of a set by a key. `RolloutInput` ..
`FlagInput` are what the schemas admit field by field, `Accepted` what the
validators then demand of the whole; two equal stages of one list are one row of
the model. `NeverRaises` reads the exception of `_rollout_variation` as the answer
`"raise"`, which is no variation.

### How they compose

    VersionHistory  <== implemented by ==  FlagStore
                                               |  extended by  SnapshotSync
                                               |  extended by  EventStream
                                               |
                                               |  its linear history is assumed by
                                               v
                         ConfigCache, Scheduler, Evaluation
                               |  extended by  SdkClient

    Sessions  <== implemented by ==  Tokens            RateLimit (alone)

A step of EventStream, SnapshotSync or SdkClient is a step of the module below
with its own part beside it, so the invariants of both are checked together and
what is proved of the lower one holds of the upper one
(`StreamImplementsSync`, `SyncImplementsStore`, `ServesAsCache`).
`FlagStoreProofs`, `EventStreamProofs` (which has the proofs of SnapshotSync too),
`SchedulerProofs`, `TokensProofs`, `RateLimitProofs`, `ConfigCacheProofs`,
`SdkClientProofs` and `EvaluationProofs` hold the theorems, the MC modules the instances.

## 3. The runs

| run | expected | what it shows |
|---|---|---|
| `store` | pass | two handlers send all five requests to one flag, whose clients name versions they have seen: types, linear history, one winner per version, exact rollbacks, immutable snapshots, an added rule drops no concurrent edit although it reads in three steps, an archived flag gains at most the one version in flight, and FlagStore implements VersionHistory |
| `stream` | pass | updates of two flags of one environment, the stream with one break, and a client that fetches only when it hears something: no announced revision is ahead of the environment, an ETag never covers less than the environment, silence means a current copy, the client is repaired in the end |
| `sync_lost` | violation | with a creation among the writers, the client can hold a current ETag and an old copy |
| `sdk` | pass | two calls, two readers and two writers, failing Redis calls, dying writers, time-outs, a cleared cache: no overstated version, and the staleness of both caches is bounded |
| `sched` | pass | two schedulers, a manager, three changes of three flags, two of them in one environment, an archive, a crash, deadlocks: no change twice, none marked without its version, no edit dropped, and a sound change that nothing blocks is applied in the end |
| `sched_poison` | violation | a due change of an archived flag keeps its neighbours from ever being applied |
| `sched_one_env` | violation | two due changes in one environment fail at every poll |
| `tokens` | pass | two requests and a sign-in race for the tokens of an account over rotation, reuse, expiry, logout and aborts: a reported reuse left nothing usable of what was committed when its UPDATE began, the first revocation stands, and the rows implement Sessions |
| `rate` | pass | two processes, Redis failing at any call, a crash, windows that end under a request: the limit once for Redis, and once more per process that counted alone and per crash; no client within its limit is refused |
| `rate_pruned` | violation | after a pruning, a request ends with an exception as long as Redis is down |
| `eval_all` | pass | every accepted configuration evaluates, to what docs/EVALUATION.md says; conversions lose nothing; a growing first share keeps its cohort, and so does time under a growing plan |
| `eval_ties` | violation | with two stages of one instant the answer depends on the order of rows |

Every run sets `CHECK_DEADLOCK FALSE`: the instances really stop, when the
versions, changes and times of their bounds are used up.

What the violation runs show of the code:

- `sync_lost`. `create_flag` (flags.py:317) and `archive_flag`
  (management.py:398) write the revision they read plus one. When another
  change commits in between, two changes leave one revision, and a client that
  has the first is answered 304 for the second (docs/RELIABILITY.md:21 says 304
  means that no change occurred).
- `sched_poison` and `sched_one_env`. A batch is one transaction, and what fails
  once fails again at the next poll with the same batch, so sound changes beside
  it stay pending for ever.
- `rate_pruned`. The pruning replaces the defaultdict by a plain dict, and
  `self._local[key]` then raises `KeyError` for every key that is not in it.
  docs/SECURITY.md:21 says that the fallback preserves endpoint availability.
- `eval_ties`. Nothing refuses two stages of one instant, and the stages are
  neither ordered by the SELECT nor sorted by `compile_configuration`.

More facts of the code are visible in the models and have no run of their own:

- A handler announces the revision it read plus one, so two concurrent writers
  may announce the same one and the later announces less than its own;
  `AnnouncedNotAhead` is what holds.
- A load may pair the row of one version with the children of the next, since
  each SELECT sees the last commit; `VersionNotOverstated` is what holds: the
  label is never newer than the body, and the compare-and-swap of a writer
  refuses what was edited from such a pair.
- docs/ARCHITECTURE.md:37 names a process failure between commit and deletion as
  the failure window of the cache. A reader that is slow between its SELECT and
  its SET fills the old configuration after the deletion, without any failure.
  `StaleBounded` is what holds of both.
- The stream sends "connected" when SUBSCRIBE is sent, not when it has taken
  effect, and redis-py renews a broken subscription by itself. Events of those
  moments are lost without a sign; `SilenceMeansCurrent` and `StreamRepairs`
  except them by `gap`, until the next fetch.
- A client that presents a token again because the reply was lost is told of a
  reuse, and the sessions of the account are closed. A token whose insert is
  not committed when the UPDATE of a detected reuse starts is not among those
  it revokes, so `ToldMeansRevoked` speaks of the tokens before the UPDATE.
- Growth keeps the cohort of the variation that is first in the rollout, as in
  the repository's README.md:61 ("the first 5%"), and `GrowthKeepsCohort` is about that one. A scheduled
  percentage puts its variation first (scheduler/__init__.py:43): if it came
  last before, its buckets move from the end to the beginning, and subjects lose
  it although its share grew.
- A Redis counter whose EXPIRE fails stays without expiry, but its window never
  comes again. The local table is pruned only where an existing entry is
  incremented, so a burst of first requests may take it past its limit.

### Bounds, and why they are enough

- `MaxVersion` 3 in `store`: a history of three has a first version, one that a
  rollback reads while another is written over it, and a last one; a
  fourth adds no new relation between two writers. 2 where two flags interleave.
- Two handlers show every race of two requests. An edit is lost only where
  commits fall between the reads and the write of another handler; two handlers
  make both commits one after the other. `MaxGuess` 0 are clients that name a
  version they have read, which two of the properties need. The theorems remove
  all these bounds.
- One rule or none: a rule that is dropped shows with one. `stream` has no rules,
  as rows and children that are read apart are the subject of `store` and
  `sync_lost`, and one break: a second begins in a state that is reached
  without the first.
- `sdk`: one flag, since no key of a batch depends on another; TTLs, `MaxHold` and
  `MaxFlight` 1: an entry of either age, a fill inside and after an
  invalidation, an answer that is older than the one it replaces. `QuietLimit`
  4 is the sum of the four, so the bound itself is in reach. `SdkLimit` 0
  prunes at every answer. A partly filled pipeline of two flags is not in this
  run; the theorems have any number of flags.
- Scheduler: `Limit` 2 of three changes, so that a poll leaves rows for the other
  scheduler and a batch can fail after its first write, on an archived flag or the
  second change of an environment, or succeed with two; a manager meets a batch
  on a row and on an environment, in both orders; one crash; times 0 and 1. A
  refused payload (`Bad`) raises where an archived flag does, with the same effect,
  and has no instance; nor have two batches with changes of one flag, for
  which the manager stands.
- Tokens: four tokens are two sign-ins with a refresh each, or one with three;
  one account, since a request reads and writes the rows of one account only;
  a TTL of one tick of two, so a token may expire while a request holds it.
- Rate limiter (`rate`): one client, since no counter or entry of a client is read for
  another; two windows of two ticks, so a request may outlast its window by one.
  `Expiry` is 3, as the code's 61 seconds exceed the window by one, and time 3 is
  reached, when a counter of the first window goes. The limit is two and the
  requests are seven, because each term of `AdmittedBounded` must be in reach of
  a violation: with one process that counted alone, or a crash, the bound is 4;
  with two such processes, or one that crashed and counted again, it is 6, which
  the run attains with a request to spare. With both processes and the crash it
  is 8, for which the theorem stands. The table is pruned at every
  further request of an entry (`LocalLimit` 0), so that the second window finds a
  pruned one. Nothing arrives at the last instant. `rate_pruned` has two clients, one
  process, and prunes at two entries.
- Evaluation: four buckets in place of 10 000. Boundaries are compared, never
  computed with other than by sum and difference, and four buckets leave room
  for three allocations with a bucket between. Time 0 .. 2 is before
  every stage, at and after the first, and at the second; percentage changes and every share are
  enumerated.
- Symmetry is used in runs without liveness, for sets whose elements all
  properties treat alike.

### Fairness

`StreamSpec` assumes that Redis and the stream go on (`Listen`), that a client
that has heard something fetches and a fetch ends, and that a handler that has
committed announces or fails to; each of these is a task of the event loop that
waits for nothing else. Nothing is assumed of writers that have not committed,
nor of breaks. `SchedSpec` assumes weak
fairness of time, of each scheduler's loop (`run` sleeps and polls for ever, and
catches what an iteration raises), of a manager that already holds locks
(a transaction ends), and of PostgreSQL's deadlock detection. A manager or a
client need never act. `AppliedWhenClear` promises the application of a change
only if from some time on all pending changes have sound payloads, flags that
are not archived, and different environments (`Clear`). `sched_poison` and `sched_one_env` show that the
condition is needed. Crashes and manager writes are bounded in number, which is
needed too: a scheduler that always crashes or always loses its
compare-and-swap applies nothing. The other specifications state no fairness;
their properties are safety properties.

## 4. What is proved

`FlagStoreProofs`, for any set of flags, environments, rules and handlers, any
set of requests and any bounds, from `StoreAssumption` (shape of the constants
and finiteness of `Existing`):

| theorem | says |
|---|---|
| `Invariance` | `Spec => []IInv`, the inductive invariant |
| `TypeCorrect`, `HistoryIsLinear`, `WinnerIsUnique`, `RollbackIsExact` | its parts, invariants of `store` |
| `HistoryIsImmutable` | no step changes or removes a snapshot |
| `StoreRefinesHistory` | FlagStore implements VersionHistory under the mapping of `Abstract` |
| `AddedRuleKeepsRest`, `ArchiveIsAlmostFinal` | two further invariants of `store`, where `MaxGuess = 0` |

The argument. `LinearHistory`, `OneWinner` and `RollbackRestores` are not
inductive: a commit is right only because of what its handler relied on since
its compare-and-swap. `HandlersOK` says it, phase by phase. A handler that is
`written` holds the row lock, so the row still has the version it expected; one
that is `committed` is behind the row, so no later writer can match its
version; a rollback that is `ready` or `written` carries a snapshot that exists
and equals its body. With these, a commit appends exactly the version after the
last, and the three properties follow; the unique constraint on versions turns
out never to fire. The steps that only read or move a handler are one lemma
(`QuietStep`); the three commits are one lemma each.

For the last two theorems the invariant is extended (`OInv`) with what observed
versions add: a request never names a version beyond the row, an added rule
that is `ready` with the row's version has the row's body plus a rule, and an
archived flag is at most one version past the one it had when archived. They
fail where a client guesses a version that does not exist yet, which is why
`MaxGuess = 0` is their hypothesis.

`TokensProofs`, for any set of tokens, accounts and requests, any TTL and bound
of time, from `TokensAssumption`:

| theorem | says |
|---|---|
| `TokensInvariance`, `TokensTypeCorrect` | the inductive invariant and the types |
| `ReuseIsToldTruly` | `ToldMeansRevoked` |
| `FirstRevocationStands` | `RevocationStands` |
| `RowsImplementSessions` | Tokens implements Sessions |

The argument: locks are exclusive (`Exclusive`), so what a request read of its
token still stands when it writes (`ReadStands`), although other transactions
commit in between. The rows an UPDATE has reached are locked as well; those
it has not can only have been revoked. Therefore a rotation replaces the one
usable token of its sign-in (`OneUsable`), and a revoked row is never written.

`ConfigCacheProofs` and `SdkClientProofs`, for any flags, readers, writers, calls
and any TTLs and delays, from `CacheAssumption` and `SdkAssumption` (the bounds
are numbers, and `quiet` counts far enough):

| theorem | says |
|---|---|
| `CacheInvariance`, `CacheTypeCorrect` | the inductive invariant of the cache and its types |
| `LabelsAreHonest` | `VersionNotOverstated` |
| `StalenessEnds` | `StaleBounded` |
| `SdkInvariance`, `SdkTypeCorrect` | the inductive invariant of client and cache, and the types |
| `ServesAsCache` | `SdkSpec => CacheSpec`: what holds of the cache holds under any clients |
| `DecisionsExpire` | `SdkStaleBounded` |

The argument follows a configuration on its way. Neither bound is inductive, as
an entry is made of what a reader holds. A reader's rows were the store's when
it began to hold them, so they are superseded for no longer than it holds
them (`ReaderAge`), and its rows are not newer than its bodies (`ReaderLabels`); the
entry it fills inherits both and ages from there (`EntryAge`). A commit sets
the time to zero, which satisfies every bound. An answer is made from an entry or
from a reader, and a reader works for one call and that call's flag
(`Serving`); it ages by its flight (`AnswerAge`), and the decision by its own
age (`DecisionAge`).

`EventStreamProofs`, for what FlagStoreProofs allows, one watched environment and
any number of breaks, from `StoreAssumption` and the assumptions of SnapshotSync
and EventStream:

| theorem | says |
|---|---|
| `StreamImplementsSync`, `SyncImplementsStore` | stream and export are built on the store, step by step |
| `AnnouncementsNotAhead` | `AnnouncedNotAhead` |
| `EtagIsCurrent` | `EtagMeansCurrent` |
| `SilenceIsCurrent` | `SilenceMeansCurrent` |

The last three have the hypothesis `Ops \subseteq Writes`: requests that update,
add a rule or roll back. It cannot be dropped: a creation and an archive write
the revision they read plus one, which takes the environment back when another
commit came in between, and `sync_lost` is the trace. The argument is that
under this hypothesis a revision only grows and each commit takes a new one, so
a revision never stands for two contents. What a writer read is therefore a
lower bound for ever (`RInv`); a client whose copy has the current revision, or
an export that has read it and sees it still stand, read rows that still stand
(`EInv`). `SilenceMeansCurrent` is not inductive, as a commit may come while
the client is silent: `QInv` says that then a handler still has its
announcement to make, or the announcement is in the inbox, or the client wants
a fetch, or a fetch that began after it is under way.

`SchedulerProofs`, for any schedulers, managers, changes, flags and
environments, any `Limit` and any bounds, from the assumptions of Scheduler:

| theorem | says |
|---|---|
| `SchedInvariance`, `SchedTypeCorrect` | the inductive invariant, and the types with the size of a batch |
| `NoneAppliedTwice` | `AppliedOnce` |
| `NoEditDropped` | `DerivedFromLast` |

The argument: neither property is inductive, since a commit marks and appends
what a transaction has decided long before. What a scheduler has claimed is
pending and claimed by no other (`BatchOK`, `ClaimsApart`); rows are held by one
transaction (`RowsExclusive`). So each entry of a batch still follows the last
version of its flag when the batch commits, and two entries of one batch cannot be of
one flag, because their environment would be incremented twice, which fails
(`WrittenOK`). The exception that poisons batches (`sched_one_env`) is thus also
what keeps the second change of a flag from being applied to what it read before
the first.

`RateLimitProofs`, for any clients, processes and requests, any limit and window,
from `RateAssumption`:

| theorem | says |
|---|---|
| `CountInvariance`, `RateTypeCorrect` | the inductive invariant of the counts, and the types |
| `NeverRefusedWithin` | `RefusedOnlyAbove` |
| `AdmittedWithin` | `AdmittedBounded`, if `WindowLen + Delay <= Expiry` |

The argument. For the refusals, a request is counted once at most in each
place (`CountedOnce`): Redis counts it when it leaves `incr`, a process when it is
answered, so a count above the limit stands for more requests than the limit. For the
admissions, the books of a slot are kept (`Budget`): what was admitted, what Redis
has left, what each process has left of its table, and one for a request that
has opened the counter and not returned, never exceed the limit once for Redis,
once for each process that has fallen to its table and once for each crash. Redis gives out each
number of a slot once as long as its counter stands, and the hypothesis says
that the counter outlives every request of its window (`KeptLong`, `OnTime`). The
code's 61 seconds for windows of 60 leave one second for a request between
its clock and its last call (the two time-outs of a second in `core/redis.py` bound each connecting
and each reply, not the request); where that takes longer, a counter may go and
begin again, and the bound fails.

`EvaluationProofs`, for any number of buckets, any conditions, salts, subjects,
payloads, added rules and scheduled changes of the shapes that the schemas admit,
from `EvaluationAssumption`:

| theorem | says |
|---|---|
| `StoredIsSound` | `EvalSpec => []EInv`, the inductive invariant |
| `NothingIsLost` | `RoundTrip` |
| `AlwaysEvaluates` | `NeverRaises` |
| `EvaluationIsDocumented` | `EvaluatesAsDocumented` |
| `GrowthSendsNobodyBack` | `GrowthKeepsCohort` |
| `TimeSendsNobodyBack` | `TimeKeepsCohort` |

The argument. What is stored is sound (`SoundFlag`): allocations have different
ends of which the last is `BucketCount` (`Tiled`), so no bucket is left out;
no two rules share a priority; a rule does one thing; whatever can be served is
a variation of the flag. The properties of one state follow from that.
A load lists the rows, in one order but for the stages (`LoadsAreLoaded`); shares
become ends and ends shares without loss (`SharesTile`, `TilesShare`), so what is
read back is accepted and stored as it was (`FlagReturns`), which the edits of
rules and schedules need in order to keep the invariant; and the engine's loops
find the first of a sorted list, which is the least of the set
(`RolloutServes`, `StagesServe`, `FirstRuleServes`). Growth keeps a
cohort because the salt never changes (`SaltStays`) and the leading share ends
no earlier than before (`LeadServes`); time keeps it because a later stage of
a growing plan has no smaller share (`StagesKeep`).

Sums and sorts run over lists of any length. The library states induction with
an operator as parameter, which the provers cannot instantiate; the lemma
`Least` (a set of naturals has a least element, from the well-foundedness of `<`)
takes its place, applied to the set of counterexamples. The sorted
list of a set exists because every element can be put at the number of elements
up to it (`SortedExists`). The engine's operators are not recursive, only
`Allocations` is, as a function.

Only model-checked: `StreamRepairs`, `AppliedWhenClear`, and the violations of
`EventuallyApplied`, since liveness is beyond the prover. Every invariant and
every action property of a passing run is a theorem.

## 5. What is not modelled, and why

- Keys and permissions: a table that each request reads once.
- Organizations, projects, environments: single inserts under unique
  constraints. There is no endpoint that deletes any of them, so a missing
  parent row is not modelled either.
- The order of row locks among managers (a renaming update locks the
  environment before the flag, an archive the other way round). FlagStore lets
  any handler be aborted, which covers the outcome for the data.
- PostgreSQL's queues of lock waiters, and the order in which SKIP LOCKED lets two
  schedulers apply changes of one flag: no document promises one.
- A restart of Redis that empties it; limits of zero (the settings are positive);
  retries of redis-py that would delay a call beyond `Delay`.
- The size of the SDK's decision cache: only expired entries are pruned, and no
  document states a bound. The typed getters and error parsing of the SDK.
- Passwords, access tokens and hashes: stateless.
- `operators.py` and the hash: pure functions of strings and floats.
- Health, metrics, logging, error formats, migration: no state a request depends on.

## 6. Plan

Done: every component that keeps state other requests depend on, and every
safety property of these as a theorem. What would extend it, in this order:

1. `LockOrder`: renaming updates and archives over flag and environment rows,
   with the waits that FlagStore leaves out.
2. Evaluation: conditions with the missing-attribute rule of `operators.py`, on an
   abstract type lattice.
