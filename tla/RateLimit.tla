------------------------------- MODULE RateLimit -------------------------------
(***************************************************************************)
(* The rate limiter of backend/app/core/middleware: a Redis counter for    *)
(* each client and minute, and a table in the process that counts when     *)
(* Redis does not answer.  Several processes serve requests.  Each call to *)
(* Redis is a step, and may fail: with its effect, when the answer is lost,*)
(* or without.                                                             *)
(***************************************************************************)
EXTENDS Integers, FiniteSets

CONSTANTS
    Key,         \* pairs of bucket (evaluation, management) and identity
    Process,     \* API processes
    Request,     \* requests served at once
    Limit,       \* sdk_rate_limit or management_rate_limit
    WindowLen,   \* ticks in a window (60 seconds)
    Expiry,      \* ticks a counter is kept (61 seconds)
    Delay,       \* ticks from the reading of the clock to the last Redis call
    LocalLimit,  \* entries of the local table that start its pruning (20 000)
    MaxTime,     \* bound: last instant
    MaxAsked,    \* bound: requests in all
    MaxCrashes   \* bound: crashes of processes

ASSUME RateAssumption ==
    /\ Limit \in Nat \ {0} /\ WindowLen \in Nat \ {0} /\ Expiry \in Nat
    /\ Delay \in Nat /\ LocalLimit \in Nat /\ MaxTime \in Nat
    /\ MaxAsked \in Nat /\ MaxCrashes \in Nat
    /\ IsFiniteSet(Process) /\ IsFiniteSet(Request)

VARIABLES
    now,       \* the clock, the same for Redis and the processes
    counter,   \* counter[s]: the Redis key of slot s, 0 where there is none
    expires,   \* expires[s]: when that key goes
    local,     \* local[p]: the table _local of process p
    plain,     \* processes whose table is a dict without a default
    req,       \* req[r]: the request served in r
    asked, admitted, refused,   \* per slot, requests begun and answered (history)
    begun,     \* requests begun in all (history)
    fell,      \* fell[s]: processes that counted for s themselves (history)
    crashes,   \* crashes so far
    raised     \* has a request ended with an exception (history)

ratevars == <<now, counter, expires, local, plain, req,
              begun, asked, admitted, refused, fell, crashes, raised>>
Shared == <<now, counter, expires>>
Tables == <<local, plain, fell, crashes, raised>>
Answers == <<begun, asked, admitted, refused>>

Instant == 0 .. MaxTime
Never == -1
Window == {t \div WindowLen : t \in Instant}

(* One counter: "ratelimit:{bucket}:{identity}:{window}".                  *)
Slot == Key \X Window

Idle == [at |-> "idle"]

RateInit ==
    /\ now = 0
    /\ counter = [s \in Slot |-> 0]
    /\ expires = [s \in Slot |-> Never]
    /\ local = [p \in Process |-> <<>>]
    /\ plain = {}
    /\ req = [r \in Request |-> Idle]
    /\ begun = 0
    /\ asked = [s \in Slot |-> 0]
    /\ admitted = [s \in Slot |-> 0]
    /\ refused = {}
    /\ fell = [s \in Slot |-> {}]
    /\ crashes = 0
    /\ raised = FALSE

-----------------------------------------------------------------------------
(* dispatch.                                                               *)

Goto(r, phase) == req' = [req EXCEPT ![r].at = phase]

(* The slot follows from the clock, which is not read again.  The last     *)
(* instant, a bound, only ends what is kept.                               *)
Arrive(r, p, k) ==
    LET s == <<k, now \div WindowLen>>
    IN /\ req[r] = Idle /\ begun < MaxAsked /\ now < MaxTime
       /\ req' = [req EXCEPT ![r] = [at |-> "incr", process |-> p, slot |-> s,
                                     since |-> now]]
       /\ begun' = begun + 1 /\ asked' = [asked EXCEPT ![s] = @ + 1]
       /\ UNCHANGED <<Shared, Tables, admitted, refused>>

(* call_next, or 429.                                                      *)
Answer(r, allowed) ==
    LET s == req[r].slot
    IN /\ admitted' = [admitted EXCEPT ![s] = IF allowed THEN @ + 1 ELSE @]
       /\ refused' = IF allowed THEN refused ELSE refused \cup {s}
       /\ req' = [req EXCEPT ![r] = Idle]
       /\ UNCHANGED <<begun, asked>>

Counted(s) == counter' = [counter EXCEPT ![s] = @ + 1]

(* INCR; the first of a slot still has to set the expiry.                  *)
Incr(r) ==
    LET s == req[r].slot
    IN /\ req[r].at = "incr"
       /\ Counted(s)
       /\ IF counter[s] = 0
          THEN Goto(r, "expire") /\ UNCHANGED Answers
          ELSE Answer(r, counter[s] + 1 <= Limit)
       /\ UNCHANGED <<now, expires, Tables>>

(* INCR raises RedisError; it may have counted.                            *)
IncrFails(r) ==
    /\ req[r].at = "incr"
    /\ Counted(req[r].slot) \/ UNCHANGED counter
    /\ Goto(r, "local")
    /\ UNCHANGED <<now, expires, Tables, Answers>>

(* Mutation: the counter lives exactly as long as its window.              *)
SetExpiryOfWindow(s) == expires' = [expires EXCEPT ![s] = now + Expiry - 1]

SetExpiry(s) == expires' = [expires EXCEPT ![s] = now + Expiry]

(* EXPIRE, and the answer of the first request.                            *)
Expire(r) ==
    /\ req[r].at = "expire"
    /\ SetExpiry(req[r].slot)
    /\ Answer(r, 1 <= Limit)
    /\ UNCHANGED <<now, counter, Tables>>

(* EXPIRE raises RedisError: the request is counted a second time, by the  *)
(* process, and the key may stay for ever.                                 *)
ExpireFails(r) ==
    /\ req[r].at = "expire"
    /\ SetExpiry(req[r].slot) \/ UNCHANGED expires
    /\ Goto(r, "local")
    /\ UNCHANGED <<now, counter, Tables, Answers>>

-----------------------------------------------------------------------------
(* _local_allowed, which holds the lock throughout.                        *)

With(table, s, n) == [t \in DOMAIN table \cup {s} |-> IF t = s THEN n ELSE table[t]]

(* Entries of the last window and of this one stay.                        *)
Recent(table, w) ==
    LET kept == {s \in DOMAIN table : s[2] >= w - 1}
    IN [s \in kept |-> table[s]]

(* The first request of a slot finds the default, another window.          *)
CountFirst(r) ==
    LET s == req[r].slot
        p == req[r].process
    IN /\ req[r].at = "local" /\ s \notin DOMAIN local[p] /\ p \notin plain
       /\ local' = [local EXCEPT ![p] = With(@, s, 1)]
       /\ fell' = [fell EXCEPT ![s] = @ \cup {p}]
       /\ Answer(r, TRUE)
       /\ UNCHANGED <<Shared, plain, crashes, raised>>

(* A table that was pruned has no default: KeyError, and status 500.       *)
KeyError(r) ==
    LET p == req[r].process
    IN /\ req[r].at = "local" /\ req[r].slot \notin DOMAIN local[p] /\ p \in plain
       /\ raised' = TRUE
       /\ req' = [req EXCEPT ![r] = Idle]
       /\ UNCHANGED <<Shared, local, plain, fell, crashes, Answers>>

(* Mutations: one request too few is admitted, one too many.              *)
SpentEarly(n) == n + 1 >= Limit
SpentLate(n) == n > Limit

Spent(n) == n >= Limit

(* A further request of a slot, and the pruning that only its kind starts. *)
CountAgain(r) ==
    LET s == req[r].slot
        p == req[r].process
        table == With(local[p], s, local[p][s] + 1)
        full == Cardinality(DOMAIN table) > LocalLimit
    IN /\ req[r].at = "local" /\ s \in DOMAIN local[p]
       /\ IF Spent(local[p][s])
          THEN Answer(r, FALSE) /\ UNCHANGED <<local, plain>>
          ELSE /\ local' = [local EXCEPT ![p] = IF full THEN Recent(table, s[2]) ELSE table]
               /\ plain' = IF full THEN plain \cup {p} ELSE plain
               /\ Answer(r, TRUE)
       /\ UNCHANGED <<Shared, fell, crashes, raised>>

-----------------------------------------------------------------------------
(* A process dies with its table and its requests, between INCR and EXPIRE *)
(* too.                                                                    *)
Crash(p) ==
    /\ crashes < MaxCrashes
    /\ crashes' = crashes + 1
    /\ local' = [local EXCEPT ![p] = <<>>]
    /\ plain' = plain \ {p}
    /\ req' = [r \in Request |-> IF req[r] # Idle /\ req[r].process = p THEN Idle ELSE req[r]]
    /\ UNCHANGED <<Shared, Answers, fell, raised>>

(* Redis drops the keys that expire.                                       *)
Tick ==
    /\ now < MaxTime
    /\ \A r \in Request : req[r] # Idle => now < req[r].since + Delay
    /\ now' = now + 1
    /\ counter' = [s \in Slot |-> IF expires[s] = now + 1 THEN 0 ELSE counter[s]]
    /\ expires' = [s \in Slot |-> IF expires[s] = now + 1 THEN Never ELSE expires[s]]
    /\ UNCHANGED <<Tables, req, Answers>>

Serve(r) ==
    \/ \E p \in Process, k \in Key : Arrive(r, p, k)
    \/ Incr(r) \/ IncrFails(r) \/ Expire(r) \/ ExpireFails(r)
    \/ CountFirst(r) \/ CountAgain(r) \/ KeyError(r)

RateNext ==
    \/ \E r \in Request : Serve(r)
    \/ \E p \in Process : Crash(p)
    \/ Tick

RateSpec == RateInit /\ [][RateNext]_ratevars

-----------------------------------------------------------------------------
(* Properties.                                                             *)

(* Every variable keeps its type.                                          *)
RateTypeOK ==
    /\ now \in Instant
    /\ counter \in [Slot -> 0 .. MaxAsked]
    /\ expires \in [Slot -> {Never} \cup 0 .. (MaxTime + Expiry)]
    /\ \A p \in Process :
         /\ DOMAIN local[p] \subseteq Slot
         /\ \A s \in DOMAIN local[p] : local[p][s] \in 1 .. Limit
    /\ plain \subseteq Process
    /\ \A r \in Request : req[r] # Idle =>
         /\ req[r].at \in {"incr", "expire", "local"}
         /\ req[r].process \in Process /\ req[r].slot \in Slot /\ req[r].since \in Instant
    /\ begun \in 0 .. MaxAsked
    /\ asked \in [Slot -> 0 .. MaxAsked] /\ admitted \in [Slot -> 0 .. MaxAsked]
    /\ refused \subseteq Slot /\ fell \in [Slot -> SUBSET Process]
    /\ crashes \in 0 .. MaxCrashes /\ raised \in BOOLEAN

(* README.md:218, "temporarily approximate global limits": how approximate.*)
(* In one window a client gets its limit from Redis, and once more from    *)
(* each process that had to count by itself or lost its table.  Lost       *)
(* answers, late calls and calls that cross the end of the window change   *)
(* nothing, as the counter outlives its window by more than Delay.         *)
AdmittedBounded ==
    \A s \in Slot : admitted[s] <= Limit * (1 + Cardinality(fell[s]) + crashes)

(* A client that stays within its limit is never refused, although one     *)
(* request may be counted by Redis and by the process.                     *)
RefusedOnlyAbove == \A s \in refused : asked[s] > Limit

(* docs/SECURITY.md:21: the local limiter "preserves basic abuse           *)
(* protection and endpoint availability".  A request is answered by the    *)
(* endpoint or with 429, and never ends in an exception.                   *)
FallbackAnswers == ~raised
=============================================================================
