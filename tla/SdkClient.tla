------------------------------- MODULE SdkClient -------------------------------
(***************************************************************************)
(* CohortSwitchClient of the Python SDK, with its decision cache, over the *)
(* evaluation endpoint and its configuration cache.  One subject is        *)
(* evaluated: an entry is named by its flag, and a decision by the version *)
(* of the configuration it was made from.  Calls run beside one another.   *)
(* What the cache does not answer is loaded by a reader; readers serve     *)
(* batches too, which neither read nor fill the decision cache.            *)
(***************************************************************************)
EXTENDS ConfigCache

CONSTANTS
    Call,       \* calls of evaluate under way at once
    SdkTTL,     \* cache_ttl_seconds of the client, in ticks
    SdkLimit,   \* entries that start the pruning (10 000)
    MaxFlight   \* ticks after which a call ends with a time-out

ASSUME SdkAssumption ==
    /\ SdkTTL \in Nat \ {0} /\ SdkLimit \in Nat /\ MaxFlight \in Nat
    /\ QuietLimit >= TTL + MaxHold + MaxFlight + SdkTTL

VARIABLES
    call,     \* call[c]: the flag asked for, the reader at work, the answer
    decided   \* _cache: the decisions kept, and their ages

sdkvars == <<cachevars, call, decided>>

NoCall == [at |-> "idle", flag |-> {}, by |-> {}, version |-> 0, flight |-> 0]

Called == [at : {"idle", "sent", "served", "answered"}, flag : SUBSET Flag,
           by : SUBSET Reader, version : Version, flight : 0 .. MaxFlight]

Kept == [version : Version, age : 0 .. SdkTTL]

SdkInit ==
    /\ CacheInit
    /\ call = [c \in Call |-> NoCall]
    /\ decided = <<>>

-----------------------------------------------------------------------------
(* Mutation: an entry is used in the tick in which it expires.             *)
UsableAtExpiry(entry) == entry.age <= SdkTTL

(* expires_at > now.                                                       *)
Usable(entry) == entry.age < SdkTTL

Served(f) == f \in DOMAIN decided /\ Usable(decided[f])

(* evaluate of a flag without a usable entry: POST.                        *)
Send(c, f) ==
    /\ call[c].at = "idle" /\ ~Served(f)
    /\ call' = [call EXCEPT ![c] = [NoCall EXCEPT !.at = "sent", !.flag = {f}]]
    /\ UNCHANGED <<cachevars, decided>>

Answer(c, n) == [call[c] EXCEPT !.at = "answered", !.by = {}, !.version = n]

(* The endpoint finds the configuration in the cache.                      *)
ServeHit(c) ==
    /\ call[c].at = "sent"
    /\ \E f \in call[c].flag :
         Hit(f) /\ call' = [call EXCEPT ![c] = Answer(c, cache[f].version)]
    /\ UNCHANGED <<cachevars, decided>>

(* It does not, or Redis fails.                                            *)
ServeMiss(c, r) ==
    /\ call[c].at = "sent"
    /\ Lookup(r, call[c].flag)
    /\ call' = [call EXCEPT ![c].at = "served", ![c].by = {r}]
    /\ UNCHANGED decided

(* evaluate_batch, whose results are not kept.                             *)
ServeBatch(r, wanted) == Lookup(r, wanted) /\ UNCHANGED <<call, decided>>

(* A flag that is archived is answered with 404, and evaluate raises.      *)
ServeRows(r) ==
    /\ ReadRows(r)
    /\ call' = [c \in Call |->
                  IF call[c].by = {r} /\ reader'[r] = Resting THEN NoCall ELSE call[c]]
    /\ UNCHANGED decided

ServeChildren(r) == ReadChildren(r) /\ UNCHANGED <<call, decided>>

(* The decision follows when the reader has set the configuration, or has  *)
(* failed to.  A call given up in the meantime hears nothing.              *)
Conclude(r, f) ==
    call' = [c \in Call |->
               IF call[c].by = {r} THEN Answer(c, reader[r].rows[f]) ELSE call[c]]

ServeFill(r, f) == Fill(r, f) /\ Conclude(r, f) /\ UNCHANGED decided

ServeFillFails(r) ==
    /\ FillFails(r)
    /\ \E f \in DOMAIN reader[r].rows : Conclude(r, f)
    /\ UNCHANGED decided

-----------------------------------------------------------------------------
(* _prune_cache.                                                           *)
Pruned(table) ==
    LET usable == {f \in DOMAIN table : Usable(table[f])}
    IN IF Cardinality(DOMAIN table) <= SdkLimit THEN table
       ELSE [f \in usable |-> table[f]]

(* The answer arrives and is kept from now on, over what another call may  *)
(* have put there.                                                         *)
Receive(c) ==
    /\ call[c].at = "answered"
    /\ \E f \in call[c].flag :
         decided' = Pruned([g \in DOMAIN decided \cup {f} |->
                      IF g = f THEN [version |-> call[c].version, age |-> 0] ELSE decided[g]])
    /\ call' = [call EXCEPT ![c] = NoCall]
    /\ UNCHANGED cachevars

(* Time-out or broken connection: evaluate raises, the server goes on.     *)
CallFails(c) ==
    /\ call[c].at # "idle"
    /\ call' = [call EXCEPT ![c] = NoCall]
    /\ UNCHANGED <<cachevars, decided>>

(* clear_cache, also while calls are under way.                            *)
ClearCache ==
    /\ decided' = <<>>
    /\ UNCHANGED <<cachevars, call>>

SdkTick ==
    /\ \A c \in Call : call[c].at # "idle" => call[c].flight < MaxFlight
    /\ Tick
    /\ call' = [c \in Call |->
                  IF call[c].at = "idle" THEN call[c] ELSE [call[c] EXCEPT !.flight = @ + 1]]
    /\ decided' = [f \in DOMAIN decided |->
                     IF Usable(decided[f]) THEN [decided[f] EXCEPT !.age = @ + 1] ELSE decided[f]]

Manage(w) ==
    /\ \/ \E f \in Flag : CommitVersion(w, f) \/ CommitArchive(w, f)
       \/ Delete(w) \/ Publish(w) \/ InvalidationFails(w)
    /\ UNCHANGED <<call, decided>>

SdkNext ==
    \/ \E c \in Call :
         \/ \E f \in Flag : Send(c, f)
         \/ \E r \in Reader : ServeMiss(c, r)
         \/ ServeHit(c) \/ Receive(c) \/ CallFails(c)
    \/ \E r \in Reader :
         \/ \E wanted \in SUBSET Flag : ServeBatch(r, wanted)
         \/ \E f \in Flag : ServeFill(r, f)
         \/ ServeRows(r) \/ ServeChildren(r) \/ ServeFillFails(r)
    \/ ClearCache
    \/ \E w \in Writer : Manage(w)
    \/ SdkTick

SdkSpec == SdkInit /\ [][SdkNext]_sdkvars

-----------------------------------------------------------------------------
(* Properties.                                                             *)

(* Every variable keeps its type.                                          *)
SdkTypeOK ==
    /\ CacheTypeOK
    /\ call \in [Call -> Called]
    /\ decided \in UNION {[S -> Kept] : S \in SUBSET Flag}

Outdated(f) == decided[f].version < stored[f].version \/ ~stored[f].live

(* Two caches in a row, and answers that arrive out of order, still bound  *)
(* the age of what an application sees (docs/ARCHITECTURE.md:37 for the    *)
(* server's): a decision the SDK serves without a call is of a version     *)
(* superseded, or of a flag archived, less than a fill, both TTLs and a    *)
(* call ago.                                                               *)
SdkStaleBounded ==
    \A f \in Flag : Served(f) /\ Outdated(f) =>
      quiet[f] < TTL + MaxHold + MaxFlight + SdkTTL
=============================================================================
