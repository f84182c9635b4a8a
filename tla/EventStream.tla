------------------------------ MODULE EventStream ------------------------------
(***************************************************************************)
(* The event stream of backend/app/api/streaming.py between the store and  *)
(* a client that keeps a snapshot.  Writers publish on a channel of Redis, *)
(* which forgets what no one listens to; the stream passes on what arrives,*)
(* and the client fetches the snapshot when it hears something             *)
(* (docs/RELIABILITY.md:21).  An event stands for its being heard: what it *)
(* carries is not used.                                                    *)
(*                                                                         *)
(* SUBSCRIBE is sent before the client hears "connected", and takes effect *)
(* some time later.  When the connection to Redis breaks, its client       *)
(* either connects and subscribes anew, which the stream does not notice,  *)
(* or raises RedisError.                                                   *)
(***************************************************************************)
EXTENDS SnapshotSync

CONSTANT MaxBreaks   \* bound: connections that break

ASSUME BreaksAssumption == MaxBreaks \in Nat

VARIABLES
    conn,    \* the stream: off, asked (SUBSCRIBE sent), on, or lost (unnoticed)
    inbox,   \* messages Redis has sent that the stream has not passed on
    wants,   \* the client has heard something since its last fetch began
    gap,     \* an event was lost that the client was to hear (history)
    breaks   \* breaks so far

streamvars == <<conn, inbox, wants, gap, breaks>>
everything == <<allvars, streamvars>>

StreamInit ==
    /\ SyncInit
    /\ conn = "off" /\ inbox = 0 /\ wants = FALSE /\ gap = FALSE /\ breaks = 0

-----------------------------------------------------------------------------
(* Writers.                                                                *)

(* PUBLISH reaches who is subscribed now.                                  *)
Publish ==
    /\ inbox' = IF conn = "on" THEN inbox + 1 ELSE inbox
    /\ gap' = (gap \/ conn \in {"asked", "lost"})

(* The writer dies after its commit, or DEL or PUBLISH raises RedisError,  *)
(* which invalidate_and_publish logs.                                      *)
PublishFails == gap' = TRUE /\ UNCHANGED inbox

(* A step of a handler; in "committed" it is the announcement, on the      *)
(* channel of the flag's environment.                                      *)
Handle(h) ==
    /\ Step(h)
    /\ IF pc[h] = "committed" /\ HomeEnv[job[h].flag] = Watched
          THEN Publish \/ PublishFails
          ELSE UNCHANGED <<inbox, gap>>
    /\ UNCHANGED <<syncvars, conn, wants, breaks>>

-----------------------------------------------------------------------------
(* The stream.                                                             *)

StoreStays == UNCHANGED vars /\ UNCHANGED syncvars

(* Mutation: the stream opens without the event "connected".               *)
OpenQuietly ==
    /\ conn = "off"
    /\ conn' = "asked" /\ UNCHANGED <<inbox, wants, gap, breaks>>
    /\ StoreStays

(* GET /stream/config: subscribe, and "connected".                         *)
Open ==
    /\ conn = "off"
    /\ conn' = "asked" /\ wants' = TRUE
    /\ UNCHANGED <<inbox, gap, breaks>> /\ StoreStays

(* Redis serves SUBSCRIBE.                                                 *)
Subscribed ==
    /\ conn = "asked" /\ conn' = "on"
    /\ UNCHANGED <<inbox, wants, gap, breaks>> /\ StoreStays

(* Mutation: get_message loses the message it was waiting for.             *)
PassOnNothing ==
    /\ conn # "off" /\ inbox > 0
    /\ inbox' = inbox - 1
    /\ UNCHANGED <<conn, wants, gap, breaks>> /\ StoreStays

(* get_message returns one, which becomes an event.                        *)
PassOn ==
    /\ conn # "off" /\ inbox > 0
    /\ inbox' = inbox - 1 /\ wants' = TRUE
    /\ UNCHANGED <<conn, gap, breaks>> /\ StoreStays

(* The connection to Redis breaks.                                         *)
Break ==
    /\ conn \in {"asked", "on"} /\ breaks < MaxBreaks
    /\ conn' = "lost" /\ breaks' = breaks + 1
    /\ UNCHANGED <<inbox, wants, gap>> /\ StoreStays

(* get_message connects and subscribes anew; what it had not read is gone. *)
Reconnect ==
    /\ conn = "lost" /\ conn' = "asked"
    /\ inbox' = 0 /\ gap' = (gap \/ inbox > 0)
    /\ UNCHANGED <<wants, breaks>> /\ StoreStays

(* RedisError: "degraded" asks for a fetch, and the stream ends.           *)
Degraded ==
    /\ conn = "lost" /\ conn' = "off"
    /\ inbox' = 0 /\ wants' = TRUE
    /\ UNCHANGED <<gap, breaks>> /\ StoreStays

(* The client loses the stream: is_disconnected, or a dead process.        *)
Disconnect ==
    /\ conn # "off" /\ breaks < MaxBreaks
    /\ conn' = "off" /\ breaks' = breaks + 1 /\ inbox' = 0
    /\ UNCHANGED <<wants, gap>> /\ StoreStays

-----------------------------------------------------------------------------
(* The client.  What it hears during a fetch makes it fetch again.         *)

(* The revision is read; where it is the client's ETag the answer is 304.  *)
BeginFetch ==
    /\ wants /\ fetch.at = "idle"
    /\ \/ ReadRevision
       \/ revision[Watched] = copy.etag /\ UNCHANGED syncvars
    /\ wants' = FALSE /\ gap' = FALSE
    /\ UNCHANGED <<vars, conn, inbox, breaks>>

FinishFetch == (ReadRows \/ ReadBodies) /\ UNCHANGED <<vars, streamvars>>

Listen == Open \/ Subscribed \/ PassOn \/ Reconnect \/ Degraded

StreamNext ==
    \/ \E h \in Handler : Handle(h)
    \/ Listen \/ Break \/ Disconnect
    \/ BeginFetch \/ FinishFetch

(* The stream and the client go on, and a handler that has committed       *)
(* announces or fails to; nothing is assumed of the other steps.           *)
StreamFairness ==
    /\ WF_everything(Listen) /\ WF_everything(BeginFetch) /\ WF_everything(FinishFetch)
    /\ \A h \in Handler : WF_everything(pc[h] = "committed" /\ Handle(h))

StreamSpec == StreamInit /\ [][StreamNext]_everything /\ StreamFairness

-----------------------------------------------------------------------------
(* Properties.                                                             *)

(* Silence means that nothing changed (docs/RELIABILITY.md:21).  While the *)
(* stream is open and everything heard has been fetched, the client has    *)
(* what the store has, through broken streams, events during a fetch and   *)
(* commits between the SELECTs of the export.  Not so if an event was lost *)
(* of which the stream could not know: never published, before SUBSCRIBE   *)
(* took effect, or before a new connection to Redis had it.                *)
SilenceMeansCurrent ==
    (/\ conn # "off" /\ inbox = 0 /\ ~wants /\ fetch.at = "idle" /\ ~gap
     /\ \A h \in Handler : pc[h] # "committed") => copy.flags = Bundle

(* The snapshot repairs the client's state without polling: in the end it  *)
(* has what the store has, or the last event was lost in one of those      *)
(* ways.                                                                   *)
StreamRepairs == <>[](gap \/ copy.flags = Bundle)
=============================================================================
