----------------------------- MODULE SnapshotSync -----------------------------
(***************************************************************************)
(* A client that follows one environment of the FlagStore by its snapshot: *)
(* GET .../config with If-None-Match (export_configuration in              *)
(* backend/app/api/management.py).  README.md:219 calls revision and ETag  *)
(* "the recovery protocol after disconnect".  The export reads the         *)
(* revision, then the config rows, then their children, with a SELECT      *)
(* each, while the handlers of the store commit in between.                *)
(***************************************************************************)
EXTENDS FlagStore

CONSTANT Watched   \* the environment the client follows

ASSUME WatchedAssumption == Watched \in Env

VARIABLES
    copy,    \* what the client has: the ETag and the flags of its last 200
    fetch    \* the export that is being served

syncvars == <<copy, fetch>>
allvars == <<flag, config, versions, revision, pc, job, lastLive, copy, fetch>>

Empty == [etag |-> -1, flags |-> {}]
NoFetch == [at |-> "idle", etag |-> -1, rows |-> {}]

(* Archived flags disappear from the bundle.                               *)
Listed == {f \in Flag : flag[f] = "live" /\ HomeEnv[f] = Watched}

Row(f) == [flag |-> f, version |-> config[f].version, enabled |-> config[f].body.enabled]

(* One member of the bundle: a row as it was read, with the children that  *)
(* are there now.                                                          *)
Member(row) ==
    [flag |-> row.flag, version |-> row.version,
     body |-> [enabled |-> row.enabled, rules |-> config[row.flag].body.rules]]

Bundle == {Member(Row(f)) : f \in Listed}

SyncInit == Init /\ copy = Empty /\ fetch = NoFetch

(* The revision becomes the ETag; where it equals If-None-Match the answer *)
(* is 304 and the client keeps its copy, which is no step here.            *)
ReadRevision ==
    /\ fetch.at = "idle" /\ revision[Watched] # copy.etag
    /\ fetch' = [at |-> "revised", etag |-> revision[Watched], rows |-> {}]
    /\ UNCHANGED copy

ReadRows ==
    /\ fetch.at = "revised"
    /\ fetch' = [fetch EXCEPT !.at = "listed", !.rows = {Row(f) : f \in Listed}]
    /\ UNCHANGED copy

(* Mutation: the ETag is taken from the environment after the configs.     *)
ReadBodiesLabelledLate ==
    /\ fetch.at = "listed"
    /\ copy' = [etag |-> revision[Watched],
                flags |-> {Member(row) : row \in fetch.rows}]
    /\ fetch' = NoFetch

(* The children, and the 200 with its ETag.                                *)
ReadBodies ==
    /\ fetch.at = "listed"
    /\ copy' = [etag |-> fetch.etag, flags |-> {Member(row) : row \in fetch.rows}]
    /\ fetch' = NoFetch

Export == (ReadRevision \/ ReadRows \/ ReadBodies) /\ UNCHANGED vars

SyncNext == (Next /\ UNCHANGED syncvars) \/ Export

SyncSpec == SyncInit /\ [][SyncNext]_allvars

-----------------------------------------------------------------------------
(* Properties.                                                             *)

(* docs/RELIABILITY.md:21: 304 is answered only when no change occurred.   *)
(* A client whose ETag is the revision has the environment as it is.       *)
EtagMeansCurrent ==
    copy.etag = revision[Watched] => copy.flags = Bundle
=============================================================================
