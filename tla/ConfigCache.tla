----------------------------- MODULE ConfigCache -----------------------------
(***************************************************************************)
(* The Redis cache of compiled configurations between the evaluation       *)
(* handlers and PostgreSQL (backend/app/services/cache.py).  The store is  *)
(* abstracted to the number of the version it holds, as FlagStore shows    *)
(* that versions are a linear history; a body is named by the version      *)
(* whose children it has.                                                  *)
(*                                                                         *)
(* A reader is load_configuration for one flag or load_configurations for  *)
(* several: get, SELECT the config rows, SELECT their children, set.  A    *)
(* writer has committed a version and runs invalidate_and_publish.  All    *)
(* four may interleave, and every Redis call may fail.                     *)
(***************************************************************************)
EXTENDS Integers, FiniteSets

CONSTANTS
    Flag,        \* flags of one environment: one stable cache key each
    Reader,      \* evaluation requests served at once
    Writer,      \* management requests past or before their commit
    MaxVersion,  \* bound: versions of one flag
    TTL,         \* settings.cache_ttl_seconds, in ticks
    MaxHold,     \* bound: ticks from a reader's SELECT to its set
    QuietLimit   \* bound: ticks counted since a commit

ASSUME CacheAssumption ==
    /\ MaxVersion \in Nat \ {0} /\ TTL \in Nat \ {0} /\ MaxHold \in Nat
    /\ QuietLimit \in Nat /\ QuietLimit > TTL + MaxHold

VARIABLES
    stored,   \* stored[f]: committed version, and whether f is not archived
    cache,    \* cache[f]: the entry under f's key, if there is one
    reader,   \* reader[r]: what request r has read
    writer,   \* writer[w]: what request w has committed
    quiet     \* quiet[f]: ticks since the last commit of f

cachevars == <<stored, cache, reader, writer, quiet>>

Version == 0 .. MaxVersion
Nothing == [version |-> 0, body |-> 0, age |-> 0]
Entry == [version : Version, body : Version, age : 0 .. TTL]
Numbers == UNION {[S -> Version] : S \in SUBSET Flag}   \* by flag
Hit(f) == cache[f] # Nothing

Resting == [at |-> "idle", held |-> 0, rows |-> <<>>, bodies |-> <<>>]
AtRest == [at |-> "idle", flag |-> {}]

CacheInit ==
    /\ stored = [f \in Flag |-> [version |-> 1, live |-> TRUE]]
    /\ cache = [f \in Flag |-> Nothing]
    /\ reader = [r \in Reader |-> Resting]
    /\ writer = [w \in Writer |-> AtRest]
    /\ quiet = [f \in Flag |-> QuietLimit]

-----------------------------------------------------------------------------
(* Readers.                                                                *)

(* GET or MGET.  Hits are answered from the cache; where all are hits the  *)
(* request ends at once, which changes nothing.  A failed call counts as a *)
(* miss of every key.                                                      *)
Lookup(r, wanted) ==
    /\ reader[r].at = "idle"
    /\ \E missed \in {{f \in wanted : ~Hit(f)}, wanted} :
         /\ missed # {}
         /\ reader' = [reader EXCEPT ![r].at = "missed", ![r].rows = [f \in missed |-> 0]]
    /\ UNCHANGED <<stored, cache, writer, quiet>>

(* SELECT flag_configs JOIN feature_flags WHERE archived_at IS NULL.  The  *)
(* flags it does not return are answered with 404.                         *)
ReadRows(r) ==
    LET found == {f \in DOMAIN reader[r].rows : stored[f].live}
    IN /\ reader[r].at = "missed"
       /\ reader' = [reader EXCEPT ![r] =
                       IF found = {} THEN Resting
                       ELSE [@ EXCEPT !.at = "listed",
                                      !.rows = [f \in found |-> stored[f].version]]]
       /\ UNCHANGED <<stored, cache, writer, quiet>>

(* Mutation: the children are loaded first, the row after them.            *)
ReadChildrenFirst(r) ==
    /\ reader[r].at = "listed"
    /\ reader' = [reader EXCEPT
                    ![r].at = "loaded",
                    ![r].rows = [f \in DOMAIN reader[r].rows |-> stored[f].version],
                    ![r].bodies = reader[r].rows]
    /\ UNCHANGED <<stored, cache, writer, quiet>>

(* selectinload: the children come with later SELECTs of their own.        *)
ReadChildren(r) ==
    /\ reader[r].at = "listed"
    /\ reader' = [reader EXCEPT
                    ![r].at = "loaded",
                    ![r].bodies = [f \in DOMAIN reader[r].rows |-> stored[f].version]]
    /\ UNCHANGED <<stored, cache, writer, quiet>>

(* The part of a request that is left when f is done.                      *)
Without(job, f) ==
    LET rest == DOMAIN job.bodies \ {f}
    IN IF rest = {} THEN Resting
       ELSE [job EXCEPT !.rows = [g \in rest |-> job.rows[g]],
                        !.bodies = [g \in rest |-> job.bodies[g]]]

(* Mutation: the entry is stored with one tick more than the TTL.          *)
FillPastTTL(r, f) ==
    /\ reader[r].at = "loaded" /\ f \in DOMAIN reader[r].bodies
    /\ cache' = [cache EXCEPT ![f] = [version |-> reader[r].rows[f],
                                      body |-> reader[r].bodies[f], age |-> -1]]
    /\ reader' = [reader EXCEPT ![r] = Without(@, f)]
    /\ UNCHANGED <<stored, writer, quiet>>

(* SET ... EX ttl, one command of the pipeline, which is no transaction.   *)
Fill(r, f) ==
    /\ reader[r].at = "loaded" /\ f \in DOMAIN reader[r].bodies
    /\ cache' = [cache EXCEPT ![f] = [version |-> reader[r].rows[f],
                                      body |-> reader[r].bodies[f], age |-> 0]]
    /\ reader' = [reader EXCEPT ![r] = Without(@, f)]
    /\ UNCHANGED <<stored, writer, quiet>>

(* RedisError: the request is answered, the rest is not cached.            *)
FillFails(r) ==
    /\ reader[r].at = "loaded"
    /\ reader' = [reader EXCEPT ![r] = Resting]
    /\ UNCHANGED <<stored, cache, writer, quiet>>

-----------------------------------------------------------------------------
(* Writers.                                                                *)

(* An update, added rule, rollback or scheduled change commits.            *)
CommitVersion(w, f) ==
    /\ writer[w].at = "idle" /\ stored[f].live /\ stored[f].version < MaxVersion
    /\ stored' = [stored EXCEPT ![f].version = @ + 1]
    /\ writer' = [writer EXCEPT ![w] = [at |-> "committed", flag |-> {f}]]
    /\ quiet' = [quiet EXCEPT ![f] = 0]
    /\ UNCHANGED <<cache, reader>>

(* archive_flag commits; the version stays.                                *)
CommitArchive(w, f) ==
    /\ writer[w].at = "idle" /\ stored[f].live
    /\ stored' = [stored EXCEPT ![f].live = FALSE]
    /\ writer' = [writer EXCEPT ![w] = [at |-> "committed", flag |-> {f}]]
    /\ quiet' = [quiet EXCEPT ![f] = 0]
    /\ UNCHANGED <<cache, reader>>

(* DEL of the stable key.                                                  *)
Delete(w) ==
    /\ writer[w].at = "committed"
    /\ \E f \in writer[w].flag : cache' = [cache EXCEPT ![f] = Nothing]
    /\ writer' = [writer EXCEPT ![w].at = "deleted"]
    /\ UNCHANGED <<stored, reader, quiet>>

(* PUBLISH; Redis forgets it.                                              *)
Publish(w) ==
    /\ writer[w].at = "deleted"
    /\ writer' = [writer EXCEPT ![w] = AtRest]
    /\ UNCHANGED <<stored, cache, reader, quiet>>

(* The process dies after its commit, or DEL raises RedisError, and then   *)
(* PUBLISH is skipped too, since one try holds both.                       *)
InvalidationFails(w) ==
    /\ writer[w].at \in {"committed", "deleted"}
    /\ writer' = [writer EXCEPT ![w] = AtRest]
    /\ UNCHANGED <<stored, cache, reader, quiet>>

-----------------------------------------------------------------------------
(* Time: entries age and go after TTL ticks; a fill takes MaxHold at most. *)

Aged(entry) ==
    IF entry = Nothing \/ entry.age = TTL THEN Nothing ELSE [entry EXCEPT !.age = @ + 1]

Holding(r) == reader[r].at \in {"listed", "loaded"}

Tick ==
    /\ \A r \in Reader : Holding(r) => reader[r].held < MaxHold
    /\ cache' = [f \in Flag |-> Aged(cache[f])]
    /\ reader' = [r \in Reader |->
                    IF Holding(r) THEN [reader[r] EXCEPT !.held = @ + 1] ELSE reader[r]]
    /\ quiet' = [f \in Flag |-> IF quiet[f] < QuietLimit THEN quiet[f] + 1 ELSE quiet[f]]
    /\ UNCHANGED <<stored, writer>>

CacheNext ==
    \/ \E r \in Reader :
         \/ \E wanted \in SUBSET Flag : Lookup(r, wanted)
         \/ ReadRows(r) \/ ReadChildren(r)
         \/ \E f \in Flag : Fill(r, f)
         \/ FillFails(r)
    \/ \E w \in Writer :
         \/ \E f \in Flag : CommitVersion(w, f) \/ CommitArchive(w, f)
         \/ Delete(w) \/ Publish(w) \/ InvalidationFails(w)
    \/ Tick

CacheSpec == CacheInit /\ [][CacheNext]_cachevars

-----------------------------------------------------------------------------
(* Properties.                                                             *)

(* Every variable keeps its type.                                          *)
CacheTypeOK ==
    /\ stored \in [Flag -> [version : Version, live : BOOLEAN]]
    /\ cache \in [Flag -> Entry]
    /\ reader \in [Reader -> [at : {"idle", "missed", "listed", "loaded"},
                              held : 0 .. MaxHold, rows : Numbers, bodies : Numbers]]
    /\ writer \in [Writer -> [at : {"idle", "committed", "deleted"},
                              flag : SUBSET Flag]]
    /\ quiet \in [Flag -> 0 .. QuietLimit]

(* docs/RELIABILITY.md:13: a cached payload exposes its version.  It may   *)
(* be older than the body next to it, as row and children are read one     *)
(* after the other, but it never claims more than the body has, and        *)
(* neither is ahead of the store.                                          *)
VersionNotOverstated ==
    \A f \in Flag : Hit(f) =>
      cache[f].version <= cache[f].body /\ cache[f].body <= stored[f].version

Stale(f) ==
    Hit(f) /\ (cache[f].version < stored[f].version \/ ~stored[f].live)

(* docs/ARCHITECTURE.md:37: staleness is bounded.  When nothing of a flag  *)
(* was committed for the time of a fill and a TTL, its entry is what the   *)
(* store has, whatever was lost or raced before.                           *)
StaleBounded == \A f \in Flag : Stale(f) => quiet[f] <= TTL + MaxHold
=============================================================================
