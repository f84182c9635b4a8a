--------------------------- MODULE RateLimitProofs ---------------------------
(***************************************************************************)
(* Proofs about RateLimit, for every set of clients, processes and         *)
(* requests and every limit.  Two inductive invariants: CInv compares what *)
(* was counted with what was asked, and BInv keeps the books of what may   *)
(* still be admitted in a window.                                          *)
(***************************************************************************)
EXTENDS RateLimit, FiniteSetTheorems, TLAPS

-----------------------------------------------------------------------------
(* Requests that are served now: all of a slot, those that have not called *)
(* INCR, those that have still to set the expiry, those of one process.    *)
Active == [at : {"incr", "expire", "local"}, process : Process, slot : Slot,
           since : Instant]
Serving(s) == {r \in Request : req[r] # Idle /\ req[r].slot = s}
Before(s) == {r \in Serving(s) : req[r].at = "incr"}
Opening(s) == {r \in Serving(s) : req[r].at = "expire"}
ServedBy(p, s) == {r \in Serving(s) : req[r].process = p}

Typed ==
    /\ now \in Instant
    /\ counter \in [Slot -> Nat]
    /\ expires \in [Slot -> {Never} \cup 0 .. (MaxTime + Expiry)]
    /\ local = [p \in Process |-> local[p]]
    /\ \A p \in Process : \A s \in DOMAIN local[p] : s \in Slot /\ local[p][s] \in 1 .. Limit
    /\ plain \subseteq Process
    /\ req \in [Request -> Active \cup {Idle}]
    /\ begun \in 0 .. MaxAsked
    /\ asked \in [Slot -> Nat] /\ admitted \in [Slot -> Nat]
    /\ refused \subseteq Slot /\ fell \in [Slot -> SUBSET Process]
    /\ crashes \in 0 .. MaxCrashes /\ raised \in BOOLEAN

(* Redis and a process count a request once at most, Redis at its INCR and *)
(* the process when it is answered; and it is answered once at most.       *)
CountedOnce(s) ==
    /\ asked[s] <= begun
    /\ counter[s] + Cardinality(Before(s)) <= asked[s]
    /\ admitted[s] + Cardinality(Serving(s)) <= asked[s]
    /\ \A p \in Process : s \in DOMAIN local[p] =>
         local[p][s] + Cardinality(ServedBy(p, s)) <= asked[s]

CInv ==
    /\ Typed
    /\ \A s \in Slot : CountedOnce(s)
    /\ RefusedOnlyAbove

-----------------------------------------------------------------------------
(* The instant a window begins.                                            *)
Start(s) == s[2] * WindowLen

(* A request is served within Delay of the instant that chose its slot; no *)
(* counter goes before its time; one request at most opens a counter, which*)
(* then exists; and a table counts only for the slots its process fell to. *)
OnTime(r) ==
    req[r] # Idle =>
      /\ Start(req[r].slot) <= req[r].since
      /\ req[r].since < Start(req[r].slot) + WindowLen
      /\ req[r].since <= now /\ now <= req[r].since + Delay
KeptLong(s) == expires[s] = Never \/ expires[s] >= Start(s) + Expiry
OpensOnce(s) == \A q, r \in Opening(s) : counter[s] > 0 /\ q = r
Fallen == \A p \in Process : \A s \in DOMAIN local[p] : p \in fell[s]

(* What process p may still admit in slot s: the numbers its table has     *)
(* left, all of them where a crash has emptied it, none where it was       *)
(* pruned, and none before it first counted for s.                         *)
Room(s) ==
    {x \in Process \X (1 .. Limit) :
       /\ x[1] \in fell[s]
       /\ IF s \in DOMAIN local[x[1]] THEN local[x[1]][s] + x[2] <= Limit
                                      ELSE x[1] \notin plain}

(* What Redis may still admit: nothing once the counter may have gone.     *)
Left(s) ==
    IF now >= Start(s) + Expiry \/ counter[s] > Limit THEN 0 ELSE Limit - counter[s]

Promised(s) == IF Opening(s) = {} THEN 0 ELSE 1

Allowance(s) == Limit * (1 + Cardinality(fell[s]) + crashes)

Spending(s) == admitted[s] + Cardinality(Room(s)) + Left(s) + Promised(s)

Budget(s) == Spending(s) <= Allowance(s)

BInv ==
    /\ \A r \in Request : OnTime(r)
    /\ \A s \in Slot : KeptLong(s)
    /\ \A s \in Slot : OpensOnce(s)
    /\ Fallen
    /\ \A s \in Slot : Budget(s)

-----------------------------------------------------------------------------
(* How the sets of requests follow the changes of req.                     *)

LEMMA SlotNow ==
  ASSUME RateAssumption, now \in Instant, NEW k \in Key
  PROVE  /\ <<k, now \div WindowLen>> \in Slot
         /\ Start(<<k, now \div WindowLen>>) <= now
         /\ now < Start(<<k, now \div WindowLen>>) + WindowLen
<1>1. /\ (now \div WindowLen) * WindowLen <= now
      /\ now < (now \div WindowLen) * WindowLen + WindowLen
      BY DEF RateAssumption, Instant
<1> QED
    BY <1>1 DEF Slot, Window, Instant, Start

LEMMA StartType ==
  ASSUME RateAssumption, NEW s \in Slot
  PROVE  Start(s) \in Nat
<1>1. PICK t \in Instant : s[2] = t \div WindowLen
      BY DEF Slot, Window
<1>2. s[2] \in Nat
      BY <1>1 DEF Instant, RateAssumption
<1> QED
    BY <1>2 DEF Start, RateAssumption

(* Sets of requests are finite, and lose and gain one element at a time.   *)
LEMMA Counting ==
  ASSUME RateAssumption, NEW S \in SUBSET Request, NEW r \in Request
  PROVE  /\ Cardinality(S) \in Nat
         /\ Cardinality(S \ {r}) = IF r \in S THEN Cardinality(S) - 1 ELSE Cardinality(S)
         /\ Cardinality(S \cup {r}) = IF r \in S THEN Cardinality(S) ELSE Cardinality(S) + 1
         /\ r \in S => Cardinality(S) >= 1
         /\ \A T \in SUBSET S : Cardinality(T) \in Nat /\ Cardinality(T) <= Cardinality(S)
<1>1. IsFiniteSet(S)
      BY FS_Subset DEF RateAssumption
<1>2. Cardinality(S) \in Nat
      BY <1>1, FS_CardinalityType
<1>3. Cardinality(S \ {r}) = IF r \in S THEN Cardinality(S) - 1 ELSE Cardinality(S)
      BY <1>1, FS_RemoveElement
<1>4. Cardinality(S \cup {r}) = IF r \in S THEN Cardinality(S) ELSE Cardinality(S) + 1
      BY <1>1, FS_AddElement
<1>5. Cardinality(S \ {r}) \in Nat
      BY <1>1, FS_RemoveElement, FS_CardinalityType
<1>6. ASSUME NEW T \in SUBSET S
      PROVE  Cardinality(T) \in Nat /\ Cardinality(T) <= Cardinality(S)
      BY <1>1, <1>6, FS_Subset, FS_CardinalityType
<1> QED
    BY <1>2, <1>3, <1>4, <1>5, <1>6

LEMMA Requests ==
  ASSUME NEW s, NEW p
  PROVE  /\ Serving(s) \in SUBSET Request /\ Before(s) \in SUBSET Request
         /\ Opening(s) \in SUBSET Request /\ ServedBy(p, s) \in SUBSET Request
BY DEF Serving, Before, Opening, ServedBy

(* A request that is served has the fields of one.                         *)
LEMMA Served ==
  ASSUME Typed, NEW r \in Request, req[r] # Idle
  PROVE  /\ req[r] \in Active
         /\ req[r].at \in {"incr", "expire", "local"}
         /\ req[r].process \in Process /\ req[r].slot \in Slot /\ req[r].since \in Instant
         /\ r \in Serving(req[r].slot)
         /\ r \in ServedBy(req[r].process, req[r].slot)
BY DEF Typed, Active, Serving, ServedBy

LEMMA IdleApart == Idle \notin Active
BY DEF Idle, Active

LEMMA Ended ==
  ASSUME Typed, NEW r \in Request, req' = [req EXCEPT ![r] = Idle], NEW s, NEW p
  PROVE  /\ req' \in [Request -> Active \cup {Idle}]
         /\ Serving(s)' = Serving(s) \ {r} /\ Before(s)' = Before(s) \ {r}
         /\ Opening(s)' = Opening(s) \ {r} /\ ServedBy(p, s)' = ServedBy(p, s) \ {r}
<1>1. req' \in [Request -> Active \cup {Idle}]
      BY DEF Typed
<1>2. \A q \in Request : req'[q] = IF q = r THEN Idle ELSE req[q]
      BY DEF Typed
<1>3. Serving(s)' = Serving(s) \ {r}
      BY <1>2 DEF Serving
<1>4. /\ Before(s)' = Before(s) \ {r}
      /\ Opening(s)' = Opening(s) \ {r} /\ ServedBy(p, s)' = ServedBy(p, s) \ {r}
      BY <1>2, <1>3 DEF Before, Opening, ServedBy, Serving
<1> QED
    BY <1>1, <1>3, <1>4

LEMMA Moved ==
  ASSUME Typed, NEW r \in Request, req[r] # Idle, NEW phase \in {"expire", "local"},
         Goto(r, phase), NEW s, NEW p
  PROVE  /\ req' \in [Request -> Active \cup {Idle}]
         /\ Serving(s)' = Serving(s) /\ Before(s)' = Before(s) \ {r}
         /\ Opening(s)' = IF phase = "expire" /\ req[r].slot = s
                          THEN Opening(s) \cup {r} ELSE Opening(s) \ {r}
         /\ ServedBy(p, s)' = ServedBy(p, s)
<1>1. req[r] \in Active
      BY Served
<1> DEFINE moved == [req[r] EXCEPT !.at = phase]
<1>2. /\ moved \in Active /\ moved.at = phase /\ moved.slot = req[r].slot
      /\ moved.process = req[r].process
      BY <1>1 DEF Active
<1>3. req' = [req EXCEPT ![r] = moved]
      BY DEF Goto
<1>4. moved # Idle
      BY <1>2, IdleApart
<1> HIDE DEF moved
<1>5. req' \in [Request -> Active \cup {Idle}]
      BY <1>2, <1>3 DEF Typed
<1>6. \A q \in Request : req'[q] = IF q = r THEN moved ELSE req[q]
      BY <1>3 DEF Typed
<1>7. Serving(s)' = Serving(s)
      BY <1>2, <1>4, <1>6 DEF Serving
<1>8. Before(s)' = Before(s) \ {r}
      BY <1>2, <1>6, <1>7 DEF Before, Serving
<1>9. Opening(s)' = IF phase = "expire" /\ req[r].slot = s
                    THEN Opening(s) \cup {r} ELSE Opening(s) \ {r}
      BY <1>2, <1>6, <1>7 DEF Opening, Serving
<1>10. ServedBy(p, s)' = ServedBy(p, s)
      BY <1>2, <1>6, <1>7 DEF ServedBy, Serving
<1> QED
    BY <1>5, <1>7, <1>8, <1>9, <1>10

LEMMA Arrived ==
  ASSUME RateAssumption, Typed, NEW r \in Request, NEW p \in Process, NEW k \in Key,
         Arrive(r, p, k), NEW s
  PROVE  /\ req' \in [Request -> Active \cup {Idle}]
         /\ Serving(s)' = IF s = <<k, now \div WindowLen>>
                          THEN Serving(s) \cup {r} ELSE Serving(s)
         /\ Before(s)' = IF s = <<k, now \div WindowLen>>
                         THEN Before(s) \cup {r} ELSE Before(s)
         /\ Opening(s)' = Opening(s)
         /\ r \notin Serving(s) /\ r \notin Before(s)
         /\ \A q \in Process :
              /\ ServedBy(q, s)' = IF s = <<k, now \div WindowLen>> /\ q = p
                                   THEN ServedBy(q, s) \cup {r} ELSE ServedBy(q, s)
              /\ r \notin ServedBy(q, s)
<1> DEFINE fresh == [at |-> "incr", process |-> p, slot |-> <<k, now \div WindowLen>>,
                     since |-> now]
<1>1. /\ fresh \in Active /\ fresh.at = "incr" /\ fresh.process = p
      /\ fresh.slot = <<k, now \div WindowLen>>
      BY SlotNow DEF Active, Typed
<1>2. req[r] = Idle /\ req' = [req EXCEPT ![r] = fresh]
      BY DEF Arrive
<1>3. fresh # Idle
      BY <1>1, IdleApart
<1> HIDE DEF fresh
<1>4. req' \in [Request -> Active \cup {Idle}]
      BY <1>1, <1>2 DEF Typed
<1>5. \A x \in Request : req'[x] = IF x = r THEN fresh ELSE req[x]
      BY <1>2 DEF Typed
<1>6. Serving(s)' = IF s = <<k, now \div WindowLen>> THEN Serving(s) \cup {r} ELSE Serving(s)
      BY <1>1, <1>2, <1>3, <1>5 DEF Serving
<1>7. r \notin Serving(s) /\ r \notin Before(s) /\ \A q \in Process : r \notin ServedBy(q, s)
      BY <1>2 DEF Serving, Before, ServedBy
<1>8. Before(s)' = IF s = <<k, now \div WindowLen>> THEN Before(s) \cup {r} ELSE Before(s)
      BY <1>1, <1>2, <1>3, <1>5 DEF Before, Serving
<1>9. Opening(s)' = Opening(s)
      BY <1>1, <1>2, <1>3, <1>5 DEF Opening, Serving
<1>10. \A q \in Process :
         ServedBy(q, s)' = IF s = <<k, now \div WindowLen>> /\ q = p
                           THEN ServedBy(q, s) \cup {r} ELSE ServedBy(q, s)
      BY <1>1, <1>2, <1>3, <1>5 DEF ServedBy, Serving
<1> QED
    BY <1>4, <1>6, <1>7, <1>8, <1>9, <1>10

LEMMA Crashed ==
  ASSUME Typed, NEW p \in Process, Crash(p), NEW s, NEW q
  PROVE  /\ req' \in [Request -> Active \cup {Idle}]
         /\ \A r \in Request : req'[r] \in {req[r], Idle}
         /\ \A r \in Request : req'[r] # Idle => req[r].process # p
         /\ Serving(s)' \subseteq Serving(s) /\ Before(s)' \subseteq Before(s)
         /\ Opening(s)' \subseteq Opening(s) /\ ServedBy(q, s)' \subseteq ServedBy(q, s)
<1>1. \A r \in Request :
        req'[r] = IF req[r] # Idle /\ req[r].process = p THEN Idle ELSE req[r]
      BY DEF Crash
<1>2. req' \in [Request -> Active \cup {Idle}]
      BY DEF Crash, Typed
<1>3. \A r \in Request : req'[r] \in {req[r], Idle} /\ (req'[r] # Idle => req'[r] = req[r])
      BY <1>1
<1>4. Serving(s)' \subseteq Serving(s)
      BY <1>3 DEF Serving
<1>5. /\ Before(s)' \subseteq Before(s)
      /\ Opening(s)' \subseteq Opening(s) /\ ServedBy(q, s)' \subseteq ServedBy(q, s)
      BY <1>3, <1>4 DEF Before, Opening, ServedBy, Serving
<1> QED
    BY <1>1, <1>2, <1>3, <1>4, <1>5

LEMMA Untouched ==
  ASSUME req' = req, NEW s, NEW p
  PROVE  /\ Serving(s)' = Serving(s) /\ Before(s)' = Before(s)
         /\ Opening(s)' = Opening(s) /\ ServedBy(p, s)' = ServedBy(p, s)
BY DEF Serving, Before, Opening, ServedBy

-----------------------------------------------------------------------------
(* Types, each part kept by the part of a step that changes it.            *)

AnswersTyped ==
    /\ asked \in [Slot -> Nat] /\ admitted \in [Slot -> Nat] /\ refused \subseteq Slot
    /\ begun \in 0 .. MaxAsked

TablesTyped ==
    /\ local = [p \in Process |-> local[p]]
    /\ \A p \in Process : \A s \in DOMAIN local[p] : s \in Slot /\ local[p][s] \in 1 .. Limit
    /\ plain \subseteq Process /\ fell \in [Slot -> SUBSET Process]
    /\ crashes \in 0 .. MaxCrashes /\ raised \in BOOLEAN

SharedTyped ==
    /\ now \in Instant /\ counter \in [Slot -> Nat]
    /\ expires \in [Slot -> {Never} \cup 0 .. (MaxTime + Expiry)]

LEMMA TypedParts ==
  /\ Typed => AnswersTyped /\ TablesTyped /\ SharedTyped
  /\ AnswersTyped' /\ TablesTyped' /\ SharedTyped' /\ req' \in [Request -> Active \cup {Idle}]
     => Typed'
BY DEF Typed, AnswersTyped, TablesTyped, SharedTyped

LEMMA AnswerTyped ==
  ASSUME Typed, NEW r \in Request, req[r] # Idle, NEW allowed, Answer(r, allowed)
  PROVE  AnswersTyped' /\ req' \in [Request -> Active \cup {Idle}]
<1>1. req[r].slot \in Slot
      BY Served
<1>2. req' = [req EXCEPT ![r] = Idle]
      BY DEF Answer
<1> QED
    BY <1>1, <1>2, Ended DEF Typed, AnswersTyped, Answer

(* A table keeps its type when one more request of the slot is admitted.   *)
LEMMA WithTyped ==
  ASSUME NEW table, \A x \in DOMAIN table : x \in Slot /\ table[x] \in 1 .. Limit,
         NEW s \in Slot, NEW n \in 1 .. Limit
  PROVE  /\ DOMAIN With(table, s, n) = DOMAIN table \cup {s}
         /\ With(table, s, n)[s] = n
         /\ \A x \in DOMAIN table : x # s => With(table, s, n)[x] = table[x]
         /\ \A x \in DOMAIN With(table, s, n) : x \in Slot /\ With(table, s, n)[x] \in 1 .. Limit
BY DEF With

LEMMA RecentPart ==
  ASSUME NEW table, NEW w
  PROVE  /\ DOMAIN Recent(table, w) \subseteq DOMAIN table
         /\ \A x \in DOMAIN Recent(table, w) : Recent(table, w)[x] = table[x]
BY DEF Recent

LEMMA TypedStep ==
  ASSUME RateAssumption, Typed, [RateNext]_ratevars
  PROVE  Typed'
<1> USE TypedParts
<1>1. ASSUME UNCHANGED ratevars
      PROVE  Typed'
      BY <1>1 DEF ratevars, Typed
<1>2. ASSUME NEW r \in Request, NEW p \in Process, NEW k \in Key, Arrive(r, p, k)
      PROVE  Typed'
  <2>1. AnswersTyped'
        BY <1>2, SlotNow DEF Arrive, Typed, AnswersTyped, RateAssumption
  <2>2. TablesTyped' /\ SharedTyped'
        BY <1>2 DEF Arrive, Tables, Shared, TablesTyped, SharedTyped
  <2> QED
      BY <1>2, <2>1, <2>2, Arrived
<1>3. ASSUME NEW r \in Request, Incr(r)
      PROVE  Typed'
  <2>1. req[r] # Idle /\ req[r].slot \in Slot /\ req[r].at = "incr"
        BY <1>3, Served DEF Incr, Idle
  <2>2. TablesTyped'
        BY <1>3 DEF Incr, Tables, TablesTyped
  <2>3. SharedTyped'
        BY <1>3, <2>1 DEF Incr, Counted, SharedTyped
  <2>4. CASE counter[req[r].slot] = 0
    <3>1. AnswersTyped' /\ Goto(r, "expire")
          BY <1>3, <2>4 DEF Incr, Answers, AnswersTyped
    <3> QED
        BY <2>1, <2>2, <2>3, <3>1, Moved
  <2>5. CASE counter[req[r].slot] # 0
    <3>1. Answer(r, counter[req[r].slot] + 1 <= Limit)
          BY <1>3, <2>5 DEF Incr
    <3>2. AnswersTyped' /\ req' \in [Request -> Active \cup {Idle}]
          BY <2>1, <3>1, AnswerTyped, Zenon
    <3> QED
        BY <2>2, <2>3, <3>2
  <2> QED
      BY <2>4, <2>5
<1>4. ASSUME NEW r \in Request, IncrFails(r)
      PROVE  Typed'
  <2>1. req[r] # Idle /\ req[r].slot \in Slot
        BY <1>4, Served DEF IncrFails, Idle
  <2>2. TablesTyped' /\ AnswersTyped' /\ Goto(r, "local")
        BY <1>4 DEF IncrFails, Tables, TablesTyped, Answers, AnswersTyped
  <2>3. SharedTyped'
        BY <1>4, <2>1 DEF IncrFails, Counted, SharedTyped
  <2> QED
      BY <2>1, <2>2, <2>3, Moved
<1>5. ASSUME NEW r \in Request, Expire(r)
      PROVE  Typed'
  <2>1. req[r] # Idle /\ req[r].slot \in Slot
        BY <1>5, Served DEF Expire, Idle
  <2>2. AnswersTyped' /\ req' \in [Request -> Active \cup {Idle}]
        BY <1>5, <2>1, AnswerTyped, Zenon DEF Expire
  <2>4. TablesTyped'
        BY <1>5 DEF Expire, Tables, TablesTyped
  <2>3. SharedTyped'
        BY <1>5, <2>1 DEF Expire, SetExpiry, SharedTyped, Instant, RateAssumption
  <2> QED
      BY <2>2, <2>3, <2>4
<1>6. ASSUME NEW r \in Request, ExpireFails(r)
      PROVE  Typed'
  <2>1. req[r] # Idle /\ req[r].slot \in Slot
        BY <1>6, Served DEF ExpireFails, Idle
  <2>2. TablesTyped' /\ AnswersTyped' /\ Goto(r, "local")
        BY <1>6 DEF ExpireFails, Tables, TablesTyped, Answers, AnswersTyped
  <2>3. SharedTyped'
        BY <1>6, <2>1 DEF ExpireFails, SetExpiry, SharedTyped, Instant, RateAssumption
  <2> QED
      BY <2>1, <2>2, <2>3, Moved
<1>7. ASSUME NEW r \in Request, CountFirst(r)
      PROVE  Typed'
  <2>1. /\ req[r] # Idle /\ req[r].slot \in Slot /\ req[r].process \in Process
        BY <1>7, Served DEF CountFirst, Idle
  <2>2. SharedTyped' /\ AnswersTyped' /\ req' \in [Request -> Active \cup {Idle}]
        BY <1>7, <2>1, AnswerTyped DEF CountFirst, Shared, SharedTyped
  <2>3. 1 \in 1 .. Limit
        BY DEF RateAssumption
  <2>4. \A x \in DOMAIN With(local[req[r].process], req[r].slot, 1) :
          /\ x \in Slot
          /\ With(local[req[r].process], req[r].slot, 1)[x] \in 1 .. Limit
        BY <2>1, <2>3, WithTyped DEF TablesTyped
  <2>5. TablesTyped'
        BY <1>7, <2>1, <2>4 DEF CountFirst, TablesTyped
  <2> QED
      BY <2>2, <2>5
<1>8. ASSUME NEW r \in Request, CountAgain(r)
      PROVE  Typed'
  <2>1. /\ req[r] # Idle /\ req[r].slot \in Slot /\ req[r].process \in Process
        BY <1>8, Served DEF CountAgain, Idle
  <2>2. SharedTyped'
        BY <1>8 DEF CountAgain, Shared, SharedTyped
  <2>3. AnswersTyped' /\ req' \in [Request -> Active \cup {Idle}]
        BY <1>8, <2>1, AnswerTyped DEF CountAgain
  <2> DEFINE p == req[r].process
             s == req[r].slot
             table == With(local[p], s, local[p][s] + 1)
  <2>4. CASE Spent(local[p][s])
        BY <1>8, <2>2, <2>3, <2>4 DEF CountAgain, TablesTyped
  <2>5. CASE ~Spent(local[p][s])
    <3>1. local[p][s] + 1 \in 1 .. Limit
          BY <1>8, <2>1, <2>5 DEF CountAgain, TablesTyped, Spent, RateAssumption
    <3>2. \A x \in DOMAIN table : x \in Slot /\ table[x] \in 1 .. Limit
          BY <2>1, <3>1, WithTyped DEF TablesTyped
    <3>3. \A x \in DOMAIN Recent(table, s[2]) :
            x \in Slot /\ Recent(table, s[2])[x] \in 1 .. Limit
          BY <3>2, RecentPart
    <3>4. /\ \/ local' = [local EXCEPT ![p] = table]
             \/ local' = [local EXCEPT ![p] = Recent(table, s[2])]
          /\ plain' \in {plain, plain \cup {p}}
          /\ UNCHANGED <<fell, crashes, raised>>
          BY <1>8, <2>5 DEF CountAgain
    <3> HIDE DEF table
    <3>5. TablesTyped'
          BY <2>1, <3>2, <3>3, <3>4 DEF TablesTyped
    <3> QED
        BY <2>2, <2>3, <3>5
  <2> QED
      BY <2>4, <2>5
<1>9. ASSUME NEW r \in Request, KeyError(r)
      PROVE  Typed'
  <2>1. AnswersTyped' /\ SharedTyped' /\ TablesTyped'
        BY <1>9 DEF KeyError, Answers, Shared, AnswersTyped, SharedTyped, TablesTyped
  <2> QED
      BY <1>9, <2>1, Ended DEF KeyError
<1>10. ASSUME NEW p \in Process, Crash(p)
       PROVE  Typed'
  <2>1. AnswersTyped' /\ SharedTyped'
        BY <1>10 DEF Crash, Answers, Shared, AnswersTyped, SharedTyped
  <2>2. TablesTyped'
    <3>1. local' = [local EXCEPT ![p] = <<>>] /\ DOMAIN <<>> = {}
          BY <1>10 DEF Crash
    <3>2. \A q \in Process : local'[q] = IF q = p THEN <<>> ELSE local[q]
          BY <3>1 DEF TablesTyped
    <3>3. \A q \in Process : \A s \in DOMAIN local'[q] : s \in Slot /\ local'[q][s] \in 1 .. Limit
          BY <3>1, <3>2 DEF TablesTyped
    <3>4. local' = [q \in Process |-> local'[q]]
          BY <3>1 DEF TablesTyped
    <3>5. plain' \subseteq Process /\ crashes' \in 0 .. MaxCrashes /\ UNCHANGED <<fell, raised>>
          BY <1>10 DEF Crash, TablesTyped, RateAssumption
    <3> QED
        BY <3>3, <3>4, <3>5 DEF TablesTyped
  <2> QED
      BY <1>10, <2>1, <2>2, Crashed
<1>11. ASSUME Tick
       PROVE  Typed'
  <2>1. AnswersTyped' /\ TablesTyped' /\ req' = req
        BY <1>11 DEF Tick, Answers, Tables, AnswersTyped, TablesTyped
  <2>2. SharedTyped'
        BY <1>11 DEF Tick, SharedTyped, Instant, RateAssumption
  <2> QED
      BY <2>1, <2>2 DEF Typed
<1> QED
    BY <1>1, <1>2, <1>3, <1>4, <1>5, <1>6, <1>7, <1>8, <1>9, <1>10, <1>11
    DEF RateNext, Serve

-----------------------------------------------------------------------------
(* What was counted, against what was asked.                               *)

LEMMA CountTypes ==
  ASSUME RateAssumption, Typed, NEW x \in Slot, NEW p
  PROVE  /\ asked[x] \in Nat /\ counter[x] \in Nat /\ admitted[x] \in Nat /\ begun \in Nat
         /\ Cardinality(Before(x)) \in Nat /\ Cardinality(Serving(x)) \in Nat
         /\ Cardinality(ServedBy(p, x)) \in Nat
<1>1. /\ IsFiniteSet(Before(x)) /\ IsFiniteSet(Serving(x)) /\ IsFiniteSet(ServedBy(p, x))
      BY Requests, FS_Subset DEF RateAssumption
<1> QED
    BY <1>1, FS_CardinalityType DEF Typed

(* A request that ends leaves the counts of its slot by one.               *)
LEMMA EndedCounts ==
  ASSUME RateAssumption, Typed, NEW r \in Request, req' = [req EXCEPT ![r] = Idle],
         NEW x \in Slot, NEW p
  PROVE  /\ Cardinality(Before(x)') =
                Cardinality(Before(x)) - (IF r \in Before(x) THEN 1 ELSE 0)
         /\ Cardinality(Serving(x)') =
                Cardinality(Serving(x)) - (IF r \in Serving(x) THEN 1 ELSE 0)
         /\ Cardinality(ServedBy(p, x)') =
                Cardinality(ServedBy(p, x)) - (IF r \in ServedBy(p, x) THEN 1 ELSE 0)
<1>1. /\ Before(x)' = Before(x) \ {r} /\ Serving(x)' = Serving(x) \ {r}
      /\ ServedBy(p, x)' = ServedBy(p, x) \ {r}
      BY Ended
<1>2. /\ Before(x) \in SUBSET Request /\ Serving(x) \in SUBSET Request
      /\ ServedBy(p, x) \in SUBSET Request
      BY Requests
<1>3. \A S \in SUBSET Request :
        Cardinality(S \ {r}) = Cardinality(S) - (IF r \in S THEN 1 ELSE 0)
  <2> SUFFICES ASSUME NEW S \in SUBSET Request
               PROVE  Cardinality(S \ {r}) = Cardinality(S) - (IF r \in S THEN 1 ELSE 0)
      OBVIOUS
  <2>1. /\ Cardinality(S) \in Nat
        /\ Cardinality(S \ {r}) = IF r \in S THEN Cardinality(S) - 1 ELSE Cardinality(S)
        BY Counting
  <2> QED
      BY <2>1
<1> QED
    BY <1>1, <1>2, <1>3

LEMMA MovedCounts ==
  ASSUME RateAssumption, Typed, NEW r \in Request, req[r] # Idle,
         NEW phase \in {"expire", "local"}, Goto(r, phase), NEW x \in Slot, NEW p
  PROVE  /\ Cardinality(Before(x)') =
                Cardinality(Before(x)) - (IF r \in Before(x) THEN 1 ELSE 0)
         /\ Serving(x)' = Serving(x) /\ ServedBy(p, x)' = ServedBy(p, x)
<1>1. Before(x)' = Before(x) \ {r} /\ Serving(x)' = Serving(x) /\ ServedBy(p, x)' = ServedBy(p, x)
      BY Moved
<1>2. Before(x) \in SUBSET Request
      BY Requests
<1>3. /\ Cardinality(Before(x)) \in Nat
      /\ Cardinality(Before(x) \ {r}) =
            IF r \in Before(x) THEN Cardinality(Before(x)) - 1 ELSE Cardinality(Before(x))
      BY <1>2, Counting
<1> QED
    BY <1>1, <1>3

(* The answer, whatever it is, moves a request from those served to those  *)
(* admitted at the most.                                                   *)
LEMMA AnswerCounted ==
  ASSUME RateAssumption, Typed, NEW r \in Request, req[r] # Idle, NEW allowed,
         Answer(r, allowed), NEW x \in Slot, CountedOnce(x)
  PROVE  /\ asked'[x] = asked[x] /\ begun' = begun
         /\ admitted'[x] + Cardinality(Serving(x)') <= asked'[x]
<1>1. req' = [req EXCEPT ![r] = Idle] /\ asked' = asked /\ begun' = begun
      BY DEF Answer
<1>2. r \in Serving(x) <=> x = req[r].slot
      BY DEF Serving
<1>3. \/ admitted'[x] = admitted[x]
      \/ x = req[r].slot /\ admitted'[x] = admitted[x] + 1
      BY DEF Answer, Typed
<1>4. Cardinality(Serving(x)') =
         Cardinality(Serving(x)) - (IF r \in Serving(x) THEN 1 ELSE 0)
      BY <1>1, EndedCounts
<1>5. /\ asked[x] \in Nat /\ admitted[x] \in Nat /\ Cardinality(Serving(x)) \in Nat
      /\ admitted[x] + Cardinality(Serving(x)) <= asked[x]
      BY CountTypes DEF CountedOnce
<1> QED
    BY <1>1, <1>2, <1>3, <1>4, <1>5

(* A count of Redis goes with a request that leaves Before.                *)
LEMMA IncrCounted ==
  ASSUME RateAssumption, Typed, NEW r \in Request, req[r] # Idle, req[r].at = "incr",
         NEW x \in Slot, CountedOnce(x),
         Counted(req[r].slot) \/ UNCHANGED counter,
         Cardinality(Before(x)') =
            Cardinality(Before(x)) - (IF r \in Before(x) THEN 1 ELSE 0)
  PROVE  counter'[x] + Cardinality(Before(x)') <= asked[x]
<1>1. r \in Before(x) <=> x = req[r].slot
      BY DEF Serving, Before
<1>2. \/ counter'[x] = counter[x]
      \/ x = req[r].slot /\ counter'[x] = counter[x] + 1
      BY DEF Counted, Typed
<1> QED
    BY <1>1, <1>2, CountTypes DEF CountedOnce

(* When a request ends, the counts that do not grow stay within their       *)
(* bounds.                                                                 *)
LEMMA LeavingRedis ==
  ASSUME RateAssumption, Typed, NEW r \in Request, req' = [req EXCEPT ![r] = Idle],
         counter' = counter, NEW x \in Slot, CountedOnce(x)
  PROVE  counter'[x] + Cardinality(Before(x)') <= asked[x]
<1>1. Cardinality(Before(x)') = Cardinality(Before(x)) - (IF r \in Before(x) THEN 1 ELSE 0)
      BY EndedCounts
<1> QED
    BY <1>1, CountTypes DEF CountedOnce

LEMMA LeavingEntry ==
  ASSUME RateAssumption, Typed, NEW r \in Request, req' = [req EXCEPT ![r] = Idle],
         NEW x \in Slot, CountedOnce(x), NEW p \in Process, x \in DOMAIN local[p]
  PROVE  local[p][x] + Cardinality(ServedBy(p, x)') <= asked[x]
<1>1. Cardinality(ServedBy(p, x)') =
         Cardinality(ServedBy(p, x)) - (IF r \in ServedBy(p, x) THEN 1 ELSE 0)
      BY EndedCounts
<1>2. local[p][x] \in Nat
      BY DEF Typed
<1> QED
    BY <1>1, <1>2, CountTypes DEF CountedOnce

LEMMA LeavingTable ==
  ASSUME RateAssumption, Typed, NEW r \in Request, req' = [req EXCEPT ![r] = Idle],
         local' = local, NEW x \in Slot, CountedOnce(x)
  PROVE  \A p \in Process : x \in DOMAIN local'[p] =>
           local'[p][x] + Cardinality(ServedBy(p, x)') <= asked[x]
BY LeavingEntry

LEMMA FewerCount ==
  ASSUME RateAssumption, NEW S \in SUBSET Request, NEW T \in SUBSET S
  PROVE  Cardinality(T) \in Nat /\ Cardinality(T) <= Cardinality(S)
<1>1. IsFiniteSet(S)
      BY FS_Subset DEF RateAssumption
<1> QED
    BY <1>1, FS_Subset, FS_CardinalityType

LEMMA CountedStep ==
  ASSUME RateAssumption, Typed, [RateNext]_ratevars, NEW x \in Slot, CountedOnce(x)
  PROVE  CountedOnce(x)'
<1>1. ASSUME UNCHANGED ratevars
      PROVE  CountedOnce(x)'
      BY <1>1, Untouched DEF ratevars, CountedOnce
<1>2. ASSUME NEW r \in Request, NEW p \in Process, NEW k \in Key, Arrive(r, p, k)
      PROVE  CountedOnce(x)'
  <2> DEFINE here == x = <<k, now \div WindowLen>>
  <2>1. /\ begun' = begun + 1 /\ asked'[x] = IF here THEN asked[x] + 1 ELSE asked[x]
        /\ counter' = counter /\ admitted' = admitted /\ local' = local
        BY <1>2 DEF Arrive, Shared, Tables, Typed
  <2>2. Cardinality(Before(x)') = Cardinality(Before(x)) + (IF here THEN 1 ELSE 0)
    <3>1. /\ Before(x)' = IF here THEN Before(x) \cup {r} ELSE Before(x)
          /\ r \notin Before(x)
          BY <1>2, Arrived
    <3>2. Cardinality(Before(x) \cup {r}) = Cardinality(Before(x)) + 1
          BY <3>1, Requests, Counting
    <3> QED
        BY <3>1, <3>2, CountTypes
  <2>3. Cardinality(Serving(x)') = Cardinality(Serving(x)) + (IF here THEN 1 ELSE 0)
    <3>1. /\ Serving(x)' = IF here THEN Serving(x) \cup {r} ELSE Serving(x)
          /\ r \notin Serving(x)
          BY <1>2, Arrived
    <3>2. Cardinality(Serving(x) \cup {r}) = Cardinality(Serving(x)) + 1
          BY <3>1, Requests, Counting
    <3> QED
        BY <3>1, <3>2, CountTypes
  <2>4. \A q \in Process :
          \/ Cardinality(ServedBy(q, x)') = Cardinality(ServedBy(q, x))
          \/ here /\ Cardinality(ServedBy(q, x)') = Cardinality(ServedBy(q, x)) + 1
        BY <1>2, Arrived, Requests, Counting
  <2> HIDE DEF here
  <2>5. \A q \in Process : x \in DOMAIN local'[q] => local'[q][x] \in Nat
        BY <2>1 DEF Typed
  <2> QED
      BY <2>1, <2>2, <2>3, <2>4, <2>5, CountTypes DEF CountedOnce
<1>3. ASSUME NEW r \in Request, Incr(r)
      PROVE  CountedOnce(x)'
  <2>1. req[r] # Idle /\ req[r].at = "incr" /\ Counted(req[r].slot) /\ local' = local
        BY <1>3 DEF Incr, Idle, Tables
  <2>2. CASE counter[req[r].slot] = 0
    <3>1. Goto(r, "expire") /\ UNCHANGED Answers
          BY <1>3, <2>2 DEF Incr
    <3>2. Cardinality(Before(x)') = Cardinality(Before(x)) - (IF r \in Before(x) THEN 1 ELSE 0)
          BY <2>1, <3>1, MovedCounts
    <3>3. Serving(x)' = Serving(x) /\ \A p \in Process : ServedBy(p, x)' = ServedBy(p, x)
          BY <2>1, <3>1, MovedCounts
    <3>4. counter'[x] + Cardinality(Before(x)') <= asked[x]
          BY <2>1, <3>2, IncrCounted
    <3> QED
        BY <2>1, <3>1, <3>3, <3>4 DEF Answers, CountedOnce
  <2>3. CASE counter[req[r].slot] # 0
    <3>1. Answer(r, counter[req[r].slot] + 1 <= Limit)
          BY <1>3, <2>3 DEF Incr
    <3>2. req' = [req EXCEPT ![r] = Idle]
          BY <3>1 DEF Answer
    <3>3. /\ asked'[x] = asked[x] /\ begun' = begun
          /\ admitted'[x] + Cardinality(Serving(x)') <= asked'[x]
          BY <2>1, <3>1, AnswerCounted, Zenon
    <3>4. Cardinality(Before(x)') = Cardinality(Before(x)) - (IF r \in Before(x) THEN 1 ELSE 0)
          BY <3>2, EndedCounts
    <3>5. counter'[x] + Cardinality(Before(x)') <= asked[x]
          BY <2>1, <3>4, IncrCounted
    <3> QED
        BY <2>1, <3>2, <3>3, <3>5, LeavingTable, CountTypes DEF CountedOnce
  <2> QED
      BY <2>2, <2>3
<1>4. ASSUME NEW r \in Request, IncrFails(r)
      PROVE  CountedOnce(x)'
  <2>1. /\ req[r] # Idle /\ req[r].at = "incr" /\ (Counted(req[r].slot) \/ UNCHANGED counter)
        /\ local' = local /\ Goto(r, "local") /\ UNCHANGED Answers
        BY <1>4 DEF IncrFails, Idle, Tables
  <2>2. Cardinality(Before(x)') = Cardinality(Before(x)) - (IF r \in Before(x) THEN 1 ELSE 0)
        BY <2>1, MovedCounts
  <2>3. Serving(x)' = Serving(x) /\ \A p \in Process : ServedBy(p, x)' = ServedBy(p, x)
        BY <2>1, MovedCounts
  <2>4. counter'[x] + Cardinality(Before(x)') <= asked[x]
        BY <2>1, <2>2, IncrCounted
  <2> QED
      BY <2>1, <2>3, <2>4 DEF Answers, CountedOnce
<1>5. ASSUME NEW r \in Request, Expire(r)
      PROVE  CountedOnce(x)'
  <2>1. req[r] # Idle /\ Answer(r, 1 <= Limit) /\ counter' = counter /\ local' = local
        BY <1>5 DEF Expire, Idle, Tables
  <2>2. req' = [req EXCEPT ![r] = Idle]
        BY <2>1 DEF Answer
  <2>3. /\ asked'[x] = asked[x] /\ begun' = begun
        /\ admitted'[x] + Cardinality(Serving(x)') <= asked'[x]
        BY <2>1, AnswerCounted, Zenon
  <2> QED
      BY <2>1, <2>2, <2>3, LeavingRedis, LeavingTable DEF CountedOnce
<1>6. ASSUME NEW r \in Request, ExpireFails(r)
      PROVE  CountedOnce(x)'
  <2>1. /\ req[r] # Idle /\ req[r].at = "expire" /\ counter' = counter
        /\ local' = local /\ Goto(r, "local") /\ UNCHANGED Answers
        BY <1>6 DEF ExpireFails, Idle, Tables
  <2>2. r \notin Before(x)
        BY <2>1 DEF Before
  <2>3. /\ Before(x)' = Before(x) \ {r} /\ Serving(x)' = Serving(x)
        /\ \A p \in Process : ServedBy(p, x)' = ServedBy(p, x)
        BY <2>1, Moved
  <2>4. Before(x)' = Before(x)
        BY <2>2, <2>3
  <2> QED
      BY <2>1, <2>3, <2>4 DEF Answers, CountedOnce
<1>7. ASSUME NEW r \in Request, CountFirst(r)
      PROVE  CountedOnce(x)'
  <2> DEFINE s == req[r].slot
             p == req[r].process
  <2>1. /\ req[r] # Idle /\ Answer(r, TRUE) /\ counter' = counter
        /\ local' = [local EXCEPT ![p] = With(local[p], s, 1)]
    <3>1. req[r] # Idle
          BY <1>7 DEF CountFirst, Idle
    <3> QED
        BY <1>7, <3>1 DEF CountFirst, Shared
  <2>2. req' = [req EXCEPT ![r] = Idle]
        BY <2>1 DEF Answer
  <2>3. /\ asked'[x] = asked[x] /\ begun' = begun
        /\ admitted'[x] + Cardinality(Serving(x)') <= asked'[x]
        BY <2>1, AnswerCounted, Zenon
  <2>4. ASSUME NEW q \in Process, x \in DOMAIN local'[q]
        PROVE  \/ x \in DOMAIN local[q] /\ local'[q][x] = local[q][x]
               \/ x = s /\ q = p /\ local'[q][x] = 1
        BY <2>1, <2>4 DEF With, Typed
  <2>5. x = s => Cardinality(Serving(x)) >= 1 /\ Cardinality(ServedBy(p, x)) <= Cardinality(Serving(x))
    <3>1. x = s => r \in Serving(x) /\ ServedBy(p, x) \in SUBSET Serving(x)
          BY <2>1 DEF Serving, ServedBy
    <3> QED
        BY <3>1, Requests, Counting
  <2>6. ASSUME NEW q \in Process, x \in DOMAIN local'[q], x = s, q = p, local'[q][x] = 1
        PROVE  local'[q][x] + Cardinality(ServedBy(q, x)') <= asked'[x]
    <3>1. r \in ServedBy(q, x)
          BY <2>1, <2>6 DEF Serving, ServedBy
    <3>2. Cardinality(ServedBy(q, x)') = Cardinality(ServedBy(q, x)) - 1
          BY <2>2, <3>1, EndedCounts
    <3>3. /\ Cardinality(ServedBy(q, x)) <= Cardinality(Serving(x))
          /\ admitted[x] + Cardinality(Serving(x)) <= asked[x]
          BY <2>5, <2>6 DEF CountedOnce
    <3> QED
        BY <2>3, <2>6, <3>2, <3>3, CountTypes
  <2>7. ASSUME NEW q \in Process, x \in DOMAIN local'[q]
        PROVE  local'[q][x] + Cardinality(ServedBy(q, x)') <= asked'[x]
        BY <2>2, <2>3, <2>4, <2>6, <2>7, LeavingEntry
  <2> QED
      BY <2>1, <2>2, <2>3, <2>7, LeavingRedis DEF CountedOnce
<1>8. ASSUME NEW r \in Request, CountAgain(r)
      PROVE  CountedOnce(x)'
  <2> DEFINE s == req[r].slot
             p == req[r].process
             table == With(local[p], s, local[p][s] + 1)
  <2>1. req[r] # Idle /\ counter' = counter /\ s \in DOMAIN local[p]
        BY <1>8 DEF CountAgain, Idle, Shared
  <2>2. PICK allowed \in BOOLEAN : Answer(r, allowed)
        BY <1>8 DEF CountAgain
  <2>3. req' = [req EXCEPT ![r] = Idle]
        BY <2>2 DEF Answer
  <2>4. /\ asked'[x] = asked[x] /\ begun' = begun
        /\ admitted'[x] + Cardinality(Serving(x)') <= asked'[x]
        BY <2>1, <2>2, AnswerCounted, Zenon
  <2>5. \/ local' = local
        \/ local' = [local EXCEPT ![p] = table]
        \/ local' = [local EXCEPT ![p] = Recent(table, s[2])]
        BY <1>8 DEF CountAgain
  <2>6. ASSUME NEW q \in Process, x \in DOMAIN local'[q]
        PROVE  /\ x \in DOMAIN local[q]
               /\ \/ local'[q][x] = local[q][x]
                  \/ x = s /\ q = p /\ local'[q][x] = local[q][x] + 1
    <3>1. /\ DOMAIN table = DOMAIN local[p]
          /\ \A y \in DOMAIN table : table[y] = IF y = s THEN local[p][s] + 1 ELSE local[p][y]
          BY <2>1 DEF With
    <3>2. /\ DOMAIN Recent(table, s[2]) \subseteq DOMAIN table
          /\ \A y \in DOMAIN Recent(table, s[2]) : Recent(table, s[2])[y] = table[y]
          BY RecentPart
    <3> HIDE DEF table
    <3>3. CASE local' = local
          BY <2>6, <3>3
    <3>4. CASE local' = [local EXCEPT ![p] = table]
          BY <2>6, <3>1, <3>4 DEF Typed
    <3>5. CASE local' = [local EXCEPT ![p] = Recent(table, s[2])]
          BY <2>6, <3>1, <3>2, <3>5 DEF Typed
    <3> QED
        BY <2>5, <3>3, <3>4, <3>5
  <2>7. ASSUME NEW q \in Process, x \in DOMAIN local[q], x = s, q = p,
               local'[q][x] = local[q][x] + 1
        PROVE  local'[q][x] + Cardinality(ServedBy(q, x)') <= asked'[x]
    <3>1. r \in ServedBy(q, x)
          BY <2>1, <2>7 DEF Serving, ServedBy
    <3>2. Cardinality(ServedBy(q, x)') = Cardinality(ServedBy(q, x)) - 1
          BY <2>3, <3>1, EndedCounts
    <3>3. local[q][x] \in Nat /\ local[q][x] + Cardinality(ServedBy(q, x)) <= asked[x]
          BY <2>7 DEF CountedOnce, Typed
    <3> QED
        BY <2>4, <2>7, <3>2, <3>3, CountTypes
  <2>8. ASSUME NEW q \in Process, x \in DOMAIN local'[q]
        PROVE  local'[q][x] + Cardinality(ServedBy(q, x)') <= asked'[x]
        BY <2>3, <2>4, <2>6, <2>7, <2>8, LeavingEntry
  <2> QED
      BY <2>1, <2>3, <2>4, <2>8, LeavingRedis DEF CountedOnce
<1>9. ASSUME NEW r \in Request, KeyError(r)
      PROVE  CountedOnce(x)'
  <2>1. /\ req' = [req EXCEPT ![r] = Idle] /\ UNCHANGED Answers
        /\ counter' = counter /\ local' = local
        BY <1>9 DEF KeyError, Shared
  <2>2. Cardinality(Serving(x)') =
           Cardinality(Serving(x)) - (IF r \in Serving(x) THEN 1 ELSE 0)
        BY <2>1, EndedCounts
  <2>3. admitted[x] + Cardinality(Serving(x)') <= asked[x]
        BY <2>2, CountTypes DEF CountedOnce
  <2> QED
      BY <2>1, <2>3, LeavingRedis, LeavingTable DEF Answers, CountedOnce
<1>10. ASSUME NEW p \in Process, Crash(p)
       PROVE  CountedOnce(x)'
  <2>1. UNCHANGED Answers /\ counter' = counter
        BY <1>10 DEF Crash, Shared
  <2>2. \A q \in Process : x \in DOMAIN local'[q] => x \in DOMAIN local[q] /\ local'[q] = local[q]
    <3>1. \A q \in Process : local'[q] = IF q = p THEN <<>> ELSE local[q]
          BY <1>10 DEF Crash, Typed
    <3>2. DOMAIN <<>> = {}
          OBVIOUS
    <3> QED
        BY <3>1, <3>2
  <2>3. Cardinality(Before(x)') <= Cardinality(Before(x)) /\ Cardinality(Before(x)') \in Nat
        BY <1>10, Crashed, Requests, FewerCount
  <2>4. Cardinality(Serving(x)') <= Cardinality(Serving(x)) /\ Cardinality(Serving(x)') \in Nat
        BY <1>10, Crashed, Requests, FewerCount
  <2>5. \A q \in Process : /\ Cardinality(ServedBy(q, x)') <= Cardinality(ServedBy(q, x))
                            /\ Cardinality(ServedBy(q, x)') \in Nat
        BY <1>10, Crashed, Requests, FewerCount
  <2>6. ASSUME NEW q \in Process, x \in DOMAIN local'[q]
        PROVE  local'[q][x] + Cardinality(ServedBy(q, x)') <= asked[x]
    <3>1. /\ local'[q][x] = local[q][x] /\ local[q][x] \in Nat
          /\ local[q][x] + Cardinality(ServedBy(q, x)) <= asked[x]
          BY <2>2, <2>6 DEF CountedOnce, Typed
    <3> QED
        BY <2>5, <3>1, CountTypes
  <2> QED
      BY <2>1, <2>3, <2>4, <2>6, CountTypes DEF Answers, CountedOnce
<1>11. ASSUME Tick
       PROVE  CountedOnce(x)'
  <2>1. UNCHANGED Answers /\ local' = local /\ req' = req /\ counter'[x] \in {0, counter[x]}
        BY <1>11 DEF Tick, Tables, Typed
  <2>2. /\ Before(x)' = Before(x) /\ Serving(x)' = Serving(x)
        /\ \A p \in Process : ServedBy(p, x)' = ServedBy(p, x)
        BY <2>1, Untouched
  <2> QED
      BY <2>1, <2>2, CountTypes DEF Answers, CountedOnce
<1> QED
    BY <1>1, <1>2, <1>3, <1>4, <1>5, <1>6, <1>7, <1>8, <1>9, <1>10, <1>11
    DEF RateNext, Serve

LEMMA RefusedStep ==
  ASSUME RateAssumption, CInv, [RateNext]_ratevars
  PROVE  RefusedOnlyAbove'
<1> SUFFICES ASSUME NEW x \in refused'
             PROVE  asked'[x] > Limit
    BY DEF RefusedOnlyAbove
<1>0. Typed
      BY DEF CInv
<1>1. ASSUME x \in refused
      PROVE  asked'[x] > Limit
  <2>1. asked[x] > Limit /\ x \in Slot /\ asked[x] \in Nat
        BY <1>0, <1>1 DEF CInv, RefusedOnlyAbove, Typed
  <2>2. asked'[x] \in {asked[x], asked[x] + 1}
        BY <1>0, <2>1, ZenonT(40) DEF RateNext, Serve, Arrive, Incr, IncrFails, Expire, ExpireFails,
           CountFirst, CountAgain, KeyError, Crash, Tick, Answer, Answers, ratevars, Typed
  <2> QED
      BY <2>1, <2>2 DEF RateAssumption
<1>2. ASSUME NEW r \in Request, Incr(r), x \notin refused
      PROVE  asked'[x] > Limit
  <2>1. /\ req[r] # Idle /\ req[r].at = "incr"
        /\ Answer(r, counter[req[r].slot] + 1 <= Limit)
        BY <1>2 DEF Incr, Idle, Answers
  <2>2. x = req[r].slot /\ ~(counter[x] + 1 <= Limit) /\ asked' = asked
        BY <1>2, <2>1 DEF Answer
  <2>3. x \in Slot
        BY <1>0, <2>1, <2>2, Served
  <2>4. Cardinality(Before(x)) >= 1
    <3>1. r \in Before(x)
          BY <2>1, <2>2 DEF Before, Serving
    <3> QED
        BY <3>1, Requests, Counting
  <2>5. counter[x] + Cardinality(Before(x)) <= asked[x]
        BY <2>3 DEF CInv, CountedOnce
  <2> QED
      BY <1>0, <2>2, <2>3, <2>4, <2>5, CountTypes DEF RateAssumption
<1>3. ASSUME NEW r \in Request, CountAgain(r), x \notin refused
      PROVE  asked'[x] > Limit
  <2> DEFINE p == req[r].process
  <2>1. /\ req[r] # Idle /\ req[r].slot \in DOMAIN local[p]
        BY <1>3 DEF CountAgain, Idle
  <2>2. Answer(r, FALSE) /\ Spent(local[p][req[r].slot])
        BY <1>3 DEF CountAgain, Answer
  <2>3. x = req[r].slot /\ asked' = asked
        BY <1>3, <2>2 DEF Answer
  <2>4. x \in Slot /\ p \in Process /\ local[p][x] \in Nat
        BY <1>0, <2>1, <2>3, Served DEF Typed
  <2>5. Cardinality(ServedBy(p, x)) >= 1
    <3>1. r \in ServedBy(p, x)
          BY <2>1, <2>3 DEF ServedBy, Serving
    <3> QED
        BY <3>1, Requests, Counting
  <2>6. local[p][x] + Cardinality(ServedBy(p, x)) <= asked[x]
        BY <2>1, <2>3, <2>4 DEF CInv, CountedOnce
  <2>7. local[p][x] >= Limit
        BY <2>2, <2>3 DEF Spent
  <2> QED
      BY <1>0, <2>3, <2>4, <2>5, <2>6, <2>7, CountTypes DEF RateAssumption
<1>4. ASSUME x \notin refused
      PROVE  \E r \in Request : Incr(r) \/ CountAgain(r)
  <2>1. /\ UNCHANGED ratevars => refused' = refused
        /\ Tick => refused' = refused
        /\ \A p \in Process : Crash(p) => refused' = refused
        BY DEF ratevars, Tick, Crash, Answers
  <2>2. ASSUME NEW r \in Request
        PROVE  /\ \A p \in Process, k \in Key : Arrive(r, p, k) => refused' = refused
               /\ IncrFails(r) \/ ExpireFails(r) \/ KeyError(r) => refused' = refused
        BY DEF Arrive, IncrFails, ExpireFails, KeyError, Answers
  <2>3. ASSUME NEW r \in Request
        PROVE  /\ Expire(r) => refused' = refused
               /\ CountFirst(r) => refused' = refused
    <3>1. 1 <= Limit
          BY DEF RateAssumption
    <3> QED
        BY <3>1 DEF Expire, CountFirst, Answer
  <2>4. refused' # refused
        BY <1>4
  <2> QED
      BY <2>1, <2>2, <2>3, <2>4 DEF RateNext, Serve
<1> QED
    BY <1>1, <1>2, <1>3, <1>4

LEMMA CInit ==
  ASSUME RateAssumption, RateInit
  PROVE  CInv
<1>1. \A p \in Process : DOMAIN local[p] = {}
      BY DEF RateInit
<1>2. Typed
  <2>1. now \in Instant /\ begun \in 0 .. MaxAsked /\ crashes \in 0 .. MaxCrashes
        BY DEF RateInit, RateAssumption, Instant
  <2>2. /\ counter \in [Slot -> Nat] /\ asked \in [Slot -> Nat] /\ admitted \in [Slot -> Nat]
        /\ expires \in [Slot -> {Never} \cup 0 .. (MaxTime + Expiry)]
        /\ fell \in [Slot -> SUBSET Process]
        BY DEF RateInit
  <2>3. /\ local = [p \in Process |-> local[p]] /\ req \in [Request -> Active \cup {Idle}]
        /\ plain \subseteq Process /\ refused \subseteq Slot /\ raised \in BOOLEAN
        BY DEF RateInit
  <2> QED
      BY <1>1, <2>1, <2>2, <2>3 DEF Typed
<1>3. ASSUME NEW s \in Slot
      PROVE  CountedOnce(s)
  <2>1. Serving(s) = {} /\ Before(s) = {} /\ \A p \in Process : ServedBy(p, s) = {}
        BY DEF RateInit, Serving, Before, ServedBy
  <2> QED
      BY <1>1, <2>1, FS_EmptySet DEF RateInit, CountedOnce
<1> QED
    BY <1>2, <1>3 DEF CInv, RefusedOnlyAbove, RateInit

LEMMA CStep ==
  ASSUME RateAssumption, CInv, [RateNext]_ratevars
  PROVE  CInv'
<1>1. Typed /\ \A s \in Slot : CountedOnce(s)
      BY DEF CInv
<1>2. Typed'
      BY <1>1, TypedStep
<1>3. ASSUME NEW s \in Slot
      PROVE  CountedOnce(s)'
      BY <1>1, <1>3, CountedStep
<1> QED
    BY <1>2, <1>3, RefusedStep DEF CInv

(* Nothing is counted, by Redis or by a process, that was not asked, and   *)
(* each request is answered once at most.                                  *)
THEOREM CountInvariance == RateSpec => []CInv
<1>1. RateInit => CInv
      BY RateAssumption, CInit
<1>2. CInv /\ [RateNext]_ratevars => CInv'
      BY RateAssumption, CStep
<1> QED
    BY <1>1, <1>2, PTL DEF RateSpec

LEMMA CountedTypes == CInv => RateTypeOK
<1> SUFFICES ASSUME CInv
             PROVE  RateTypeOK
    OBVIOUS
<1>0. Typed
      BY DEF CInv
<1>1. ASSUME NEW s \in Slot
      PROVE  /\ counter[s] \in 0 .. MaxAsked
             /\ asked[s] \in 0 .. MaxAsked /\ admitted[s] \in 0 .. MaxAsked
  <2>1. CountedOnce(s)
        BY DEF CInv
  <2>2. begun \in 0 .. MaxAsked
        BY <1>0 DEF Typed
  <2> QED
      BY <1>0, <2>1, <2>2, CountTypes, RateAssumption DEF CountedOnce, RateAssumption
<1>2. /\ counter \in [Slot -> 0 .. MaxAsked]
      /\ asked \in [Slot -> 0 .. MaxAsked] /\ admitted \in [Slot -> 0 .. MaxAsked]
      BY <1>0, <1>1 DEF Typed
<1>3. ASSUME NEW r \in Request, req[r] # Idle
      PROVE  /\ req[r].at \in {"incr", "expire", "local"}
             /\ req[r].process \in Process /\ req[r].slot \in Slot /\ req[r].since \in Instant
      BY <1>0, <1>3, Served
<1> QED
    BY <1>0, <1>2, <1>3 DEF Typed, RateTypeOK

(* Every variable keeps its type: no count exceeds what was asked, and no  *)
(* table the limit.                                                        *)
THEOREM RateTypeCorrect == RateSpec => []RateTypeOK
BY CountInvariance, CountedTypes, PTL

(* A client that stays within its limit is never refused, by Redis or by a *)
(* process, whatever answers are lost between them.                        *)
THEOREM NeverRefusedWithin == RateSpec => []RefusedOnlyAbove
<1>1. CInv => RefusedOnlyAbove
      BY DEF CInv
<1> QED
    BY <1>1, CountInvariance, PTL

-----------------------------------------------------------------------------
(* When the requests of a slot are served, and how its counter is opened.  *)

LEMMA OnTimeStep ==
  ASSUME RateAssumption, Typed, [RateNext]_ratevars, NEW r \in Request, OnTime(r)
  PROVE  OnTime(r)'
<1> SUFFICES ASSUME req'[r] # Idle
             PROVE  /\ Start(req'[r].slot) <= req'[r].since
                    /\ req'[r].since < Start(req'[r].slot) + WindowLen
                    /\ req'[r].since <= now' /\ now' <= req'[r].since + Delay
    BY DEF OnTime, Start
<1>1. ASSUME NEW p \in Process, NEW k \in Key, Arrive(r, p, k)
      PROVE  OnTime(r)'
  <2>1. /\ req'[r] = [at |-> "incr", process |-> p, slot |-> <<k, now \div WindowLen>>,
                      since |-> now]
        /\ now' = now
        BY <1>1 DEF Arrive, Shared, Typed
  <2>2. req'[r].slot = <<k, now \div WindowLen>> /\ req'[r].since = now
        BY <2>1
  <2>3. /\ Start(<<k, now \div WindowLen>>) <= now
        /\ now < Start(<<k, now \div WindowLen>>) + WindowLen
        BY SlotNow DEF Typed
  <2>4. now \in Nat
        BY DEF Typed, Instant, RateAssumption
  <2> QED
      BY <2>1, <2>2, <2>3, <2>4 DEF OnTime, Start, RateAssumption
<1>2. ASSUME ~(\E p \in Process, k \in Key : Arrive(r, p, k))
      PROVE  req[r] # Idle /\ req'[r].slot = req[r].slot /\ req'[r].since = req[r].since
  <2>1. ASSUME NEW q \in Request, NEW phase \in {"expire", "local"}, Goto(q, phase), req[q] # Idle
        PROVE  req[r] # Idle /\ req'[r].slot = req[r].slot /\ req'[r].since = req[r].since
    <3>1. req[q] \in Active
          BY <2>1, Served
    <3>2. req'[q] = [req[q] EXCEPT !.at = phase] /\ \A z \in Request : z # q => req'[z] = req[z]
          BY <2>1 DEF Goto, Typed
    <3>3. req'[q].slot = req[q].slot /\ req'[q].since = req[q].since
          BY <3>1, <3>2 DEF Active
    <3> QED
        BY <2>1, <3>2, <3>3
  <2>2. ASSUME NEW q \in Request, req' = [req EXCEPT ![q] = Idle]
        PROVE  req[r] # Idle /\ req'[r] = req[r]
        BY <2>2 DEF Typed
  <2>3. ASSUME req' = req
        PROVE  req[r] # Idle /\ req'[r] = req[r]
        BY <2>3
  <2>4. ASSUME NEW p \in Process, Crash(p)
        PROVE  req[r] # Idle /\ req'[r] = req[r]
        BY <2>4 DEF Crash
  <2>5. ASSUME NEW q \in Request, NEW p \in Process, NEW k \in Key, Arrive(q, p, k)
        PROVE  req[r] # Idle /\ req'[r] = req[r]
    <3>1. q # r
          BY <1>2, <2>5
    <3>2. req'[r] = req[r]
          BY <2>5, <3>1 DEF Arrive, Typed
    <3> QED
        BY <3>2
  <2>6. ASSUME NEW q \in Request, IncrFails(q) \/ ExpireFails(q)
        PROVE  Goto(q, "local") /\ req[q] # Idle
        BY <2>6 DEF IncrFails, ExpireFails, Idle
  <2>7. ASSUME NEW q \in Request, Incr(q)
        PROVE  \/ Goto(q, "expire") /\ req[q] # Idle
               \/ req' = [req EXCEPT ![q] = Idle]
        BY <2>7 DEF Incr, Answer, Idle
  <2>8. ASSUME NEW q \in Request, Expire(q) \/ CountFirst(q) \/ CountAgain(q) \/ KeyError(q)
        PROVE  req' = [req EXCEPT ![q] = Idle]
        BY <2>8 DEF Expire, CountFirst, CountAgain, KeyError, Answer
  <2>9. UNCHANGED ratevars \/ Tick => req' = req
        BY DEF ratevars, Tick
  <2> QED
      BY <2>1, <2>2, <2>3, <2>4, <2>5, <2>6, <2>7, <2>8, <2>9 DEF RateNext, Serve
<1>3. ASSUME ~(\E p \in Process, k \in Key : Arrive(r, p, k))
      PROVE  OnTime(r)'
  <2>1. /\ req[r] # Idle /\ req'[r].slot = req[r].slot /\ req'[r].since = req[r].since
        /\ req[r].since \in Nat
        BY <1>2, <1>3, Served DEF Instant, RateAssumption
  <2>2. now' = now \/ (now' = now + 1 /\ now < req[r].since + Delay)
    <3>1. Tick => now' = now + 1 /\ now < req[r].since + Delay
          BY <2>1 DEF Tick
    <3>2. UNCHANGED ratevars => now' = now
          BY DEF ratevars
    <3>3. \A p \in Process : Crash(p) => now' = now
          BY DEF Crash, Shared
    <3>4. \A q \in Request : Serve(q) => now' = now
          BY DEF Serve, Arrive, Incr, IncrFails, Expire, ExpireFails, CountFirst, CountAgain,
             KeyError, Shared
    <3> QED
        BY <3>1, <3>2, <3>3, <3>4 DEF RateNext
  <2>3. now \in Nat
        BY DEF Typed, Instant, RateAssumption
  <2> QED
      BY <2>1, <2>2, <2>3 DEF OnTime, Start, RateAssumption
<1> QED
    BY <1>1, <1>3 DEF OnTime, Start

(* While a request of a slot is served its counter has not gone.           *)
LEMMA InTime ==
  ASSUME RateAssumption, WindowLen + Delay <= Expiry, Typed,
         NEW r \in Request, req[r] # Idle, OnTime(r)
  PROVE  /\ now < Start(req[r].slot) + Expiry
         /\ Tick => now + 1 < Start(req[r].slot) + Expiry
<1>1. /\ Start(req[r].slot) \in Nat /\ req[r].since \in Nat /\ now \in Nat
      BY Served, StartType DEF Typed, Instant, RateAssumption
<1>2. /\ req[r].since < Start(req[r].slot) + WindowLen
      /\ now <= req[r].since + Delay
      BY DEF OnTime
<1>3. Tick => now < req[r].since + Delay
      BY DEF Tick
<1> QED
    BY <1>1, <1>2, <1>3 DEF RateAssumption

LEMMA KeptStep ==
  ASSUME RateAssumption, Typed, [RateNext]_ratevars, \A r \in Request : OnTime(r),
         NEW s \in Slot, KeptLong(s)
  PROVE  KeptLong(s)'
<1>1. ASSUME NEW r \in Request, req[r] # Idle, SetExpiry(req[r].slot)
      PROVE  KeptLong(s)'
  <2>1. /\ Start(req[r].slot) \in Nat /\ req[r].since \in Nat /\ now \in Nat
        BY <1>1, Served, StartType DEF Typed, Instant, RateAssumption
  <2>2. now >= Start(req[r].slot)
        BY <1>1, <2>1 DEF OnTime
  <2>3. expires'[s] = IF s = req[r].slot THEN now + Expiry ELSE expires[s]
        BY <1>1 DEF SetExpiry, Typed
  <2> QED
      BY <2>1, <2>2, <2>3 DEF KeptLong, Start, RateAssumption
<1>2. ASSUME expires'[s] = expires[s]
      PROVE  KeptLong(s)'
      BY <1>2 DEF KeptLong, Start
<1>3. ASSUME NEW r \in Request, Expire(r) \/ ExpireFails(r)
      PROVE  KeptLong(s)'
  <2>1. req[r] # Idle /\ (SetExpiry(req[r].slot) \/ expires' = expires)
        BY <1>3 DEF Expire, ExpireFails, Idle
  <2> QED
      BY <1>1, <1>2, <2>1
<1>4. ASSUME Tick
      PROVE  KeptLong(s)'
  <2>1. expires'[s] \in {Never, expires[s]}
        BY <1>4 DEF Tick
  <2> QED
      BY <2>1 DEF KeptLong, Start
<1>5. \A r \in Request, p \in Process, k \in Key : Arrive(r, p, k) => expires' = expires
      BY DEF Arrive, Shared
<1>6. \A r \in Request : Incr(r) \/ IncrFails(r) \/ CountFirst(r) \/ CountAgain(r) \/ KeyError(r)
                         => expires' = expires
      BY DEF Incr, IncrFails, CountFirst, CountAgain, KeyError, Shared
<1>7. /\ UNCHANGED ratevars => expires' = expires
      /\ \A p \in Process : Crash(p) => expires' = expires
      BY DEF ratevars, Crash, Shared
<1> QED
    BY <1>2, <1>3, <1>4, <1>5, <1>6, <1>7 DEF RateNext, Serve

(* Only the first INCR of a slot adds to the requests that open its        *)
(* counter.                                                                *)
LEMMA OpeningStep ==
  ASSUME RateAssumption, Typed, [RateNext]_ratevars, NEW s \in Slot
  PROVE  \/ Opening(s)' \subseteq Opening(s)
         \/ \E r \in Request :
               /\ Incr(r) /\ req[r].slot = s /\ counter[s] = 0
               /\ Opening(s)' = Opening(s) \cup {r} /\ counter'[s] = 1
<1>1. ASSUME NEW r \in Request, req' = [req EXCEPT ![r] = Idle]
      PROVE  Opening(s)' \subseteq Opening(s)
      BY <1>1, Ended, ZenonT(40)
<1>2. ASSUME NEW r \in Request, Expire(r) \/ CountFirst(r) \/ CountAgain(r) \/ KeyError(r)
      PROVE  Opening(s)' \subseteq Opening(s)
      BY <1>1, <1>2 DEF Expire, CountFirst, CountAgain, KeyError, Answer
<1>3. ASSUME NEW r \in Request, IncrFails(r) \/ ExpireFails(r)
      PROVE  Opening(s)' \subseteq Opening(s)
  <2>1. Goto(r, "local") /\ req[r] # Idle
        BY <1>3 DEF IncrFails, ExpireFails, Idle
  <2> QED
      BY <2>1, Moved
<1>4. ASSUME NEW r \in Request, Incr(r)
      PROVE  \/ Opening(s)' \subseteq Opening(s)
             \/ /\ req[r].slot = s /\ counter[s] = 0
                /\ Opening(s)' = Opening(s) \cup {r} /\ counter'[s] = 1
  <2>1. req[r] # Idle
        BY <1>4 DEF Incr, Idle
  <2>2. CASE counter[req[r].slot] # 0
    <3>1. req' = [req EXCEPT ![r] = Idle]
          BY <1>4, <2>2 DEF Incr, Answer
    <3> QED
        BY <1>1, <3>1
  <2>3. CASE counter[req[r].slot] = 0
    <3>1. Goto(r, "expire") /\ Counted(req[r].slot)
          BY <1>4, <2>3 DEF Incr
    <3>2. Opening(s)' = IF req[r].slot = s THEN Opening(s) \cup {r} ELSE Opening(s) \ {r}
          BY <2>1, <3>1, Moved
    <3>3. req[r].slot = s => counter'[s] = 1
          BY <2>3, <3>1 DEF Counted, Typed
    <3> QED
        BY <2>3, <3>2, <3>3
  <2> QED
      BY <2>2, <2>3
<1>5. ASSUME NEW r \in Request, NEW p \in Process, NEW k \in Key, Arrive(r, p, k)
      PROVE  Opening(s)' \subseteq Opening(s)
      BY <1>5, Arrived
<1>6. ASSUME NEW p \in Process, Crash(p)
      PROVE  Opening(s)' \subseteq Opening(s)
      BY <1>6, Crashed
<1>7. ASSUME Tick \/ UNCHANGED ratevars
      PROVE  Opening(s)' \subseteq Opening(s)
  <2>1. req' = req
        BY <1>7 DEF Tick, ratevars
  <2> QED
      BY <2>1, Untouched
<1> QED
    BY <1>2, <1>3, <1>4, <1>5, <1>6, <1>7 DEF RateNext, Serve

LEMMA CounterGrows ==
  ASSUME Typed, [RateNext]_ratevars, ~Tick, NEW s \in Slot
  PROVE  counter'[s] \in {counter[s], counter[s] + 1}
<1>1. ASSUME NEW x, Counted(x) \/ UNCHANGED counter
      PROVE  counter'[s] \in {counter[s], counter[s] + 1}
      BY <1>1 DEF Counted, Typed
<1>2. \A r \in Request : Incr(r) \/ IncrFails(r)
                         => Counted(req[r].slot) \/ UNCHANGED counter
      BY DEF Incr, IncrFails
<1>3. \A r \in Request : Expire(r) \/ ExpireFails(r) \/ CountFirst(r) \/ CountAgain(r) \/ KeyError(r)
                         => counter' = counter
      BY DEF Expire, ExpireFails, CountFirst, CountAgain, KeyError, Shared
<1>4. /\ \A r \in Request, p \in Process, k \in Key : Arrive(r, p, k) => counter' = counter
      /\ \A p \in Process : Crash(p) => counter' = counter
      /\ UNCHANGED ratevars => counter' = counter
      BY DEF Arrive, Crash, ratevars, Shared
<1> QED
    BY <1>1, <1>2, <1>3, <1>4 DEF RateNext, Serve

LEMMA OpensStep ==
  ASSUME RateAssumption, WindowLen + Delay <= Expiry, Typed, [RateNext]_ratevars,
         \A r \in Request : OnTime(r), NEW s \in Slot, KeptLong(s), OpensOnce(s)
  PROVE  OpensOnce(s)'
<1>0. counter[s] \in Nat
      BY DEF Typed
<1>1. CASE ~Tick /\ Opening(s)' \subseteq Opening(s)
      BY <1>0, <1>1, CounterGrows DEF OpensOnce
<1>2. ASSUME Tick
      PROVE  OpensOnce(s)'
  <2>1. Opening(s)' = Opening(s)
        BY <1>2, Untouched DEF Tick
  <2>2. ASSUME NEW q \in Opening(s)
        PROVE  counter'[s] = counter[s]
    <3>1. q \in Request /\ req[q] # Idle /\ req[q].slot = s
          BY DEF Opening, Serving
    <3>2. now + 1 < Start(s) + Expiry
          BY <1>2, <3>1, InTime
    <3>3. Start(s) \in Nat /\ now \in Nat
          BY StartType DEF Typed, Instant, RateAssumption
    <3>4. expires[s] # now + 1
          BY <3>2, <3>3 DEF KeptLong, Never, RateAssumption
    <3> QED
        BY <1>2, <3>4 DEF Tick
  <2> QED
      BY <2>1, <2>2 DEF OpensOnce
<1>3. ASSUME NEW r \in Request, counter[s] = 0, counter'[s] = 1,
             Opening(s)' = Opening(s) \cup {r}
      PROVE  OpensOnce(s)'
  <2>1. Opening(s) = {}
        BY <1>3 DEF OpensOnce
  <2> QED
      BY <1>3, <2>1 DEF OpensOnce
<1> QED
    BY <1>1, <1>2, <1>3, OpeningStep

-----------------------------------------------------------------------------
(* The room that the tables leave.                                         *)

LEMMA RoomFinite ==
  ASSUME RateAssumption, Typed, NEW s \in Slot
  PROVE  /\ IsFiniteSet(Room(s)) /\ Cardinality(Room(s)) \in Nat
         /\ IsFiniteSet(fell[s]) /\ Cardinality(fell[s]) \in Nat
<1>1. IsFiniteSet(1 .. Limit)
      BY FS_Interval DEF RateAssumption
<1>2. IsFiniteSet(Process \X (1 .. Limit))
      BY <1>1, FS_Product DEF RateAssumption
<1>3. IsFiniteSet(Room(s))
      BY <1>2, FS_Subset DEF Room
<1>4. IsFiniteSet(fell[s])
      BY FS_Subset DEF Typed, RateAssumption
<1> QED
    BY <1>3, <1>4, FS_CardinalityType

(* A process adds its numbers to the room, and no more.                    *)
LEMMA RoomGains ==
  ASSUME RateAssumption, Typed, NEW s \in Slot, NEW p, NEW n \in Nat,
         Room(s)' \subseteq Room(s) \cup ({p} \X (1 .. n))
  PROVE  Cardinality(Room(s)') \in Nat /\ Cardinality(Room(s)') <= Cardinality(Room(s)) + n
<1>1. IsFiniteSet({p}) /\ Cardinality({p}) = 1
      BY FS_Singleton
<1>2. IsFiniteSet(1 .. n) /\ Cardinality(1 .. n) = n
      BY FS_Interval
<1> DEFINE one == {p}
           upto == 1 .. n
           more == one \X upto
<1> HIDE DEF one, upto
<1>3. IsFiniteSet(more) /\ Cardinality(more) = Cardinality(one) * Cardinality(upto)
  <2>1. IsFiniteSet(one) /\ IsFiniteSet(upto)
        BY <1>1, <1>2 DEF one, upto
  <2> QED
      BY <2>1, FS_Product
<1>4. IsFiniteSet(more) /\ Cardinality(more) = n
      BY <1>1, <1>2, <1>3 DEF one, upto
<1> HIDE DEF more
<1>5. IsFiniteSet(Room(s)) /\ Cardinality(Room(s)) \in Nat
      BY RoomFinite
<1>6. IsFiniteSet(Room(s) \cap more)
      BY <1>4, FS_Subset
<1>7. Cardinality(Room(s) \cap more) \in Nat
      BY <1>6, FS_CardinalityType
<1>8. /\ IsFiniteSet(Room(s) \cup more)
      /\ Cardinality(Room(s) \cup more) =
            Cardinality(Room(s)) + Cardinality(more) - Cardinality(Room(s) \cap more)
      BY <1>4, <1>5, FS_Union
<1>9. Room(s)' \subseteq Room(s) \cup more
      BY DEF more, one, upto
<1>10. /\ IsFiniteSet(Room(s)')
       /\ Cardinality(Room(s)') <= Cardinality(Room(s) \cup more)
       BY <1>8, <1>9, FS_Subset
<1>11. Cardinality(Room(s)') \in Nat
       BY <1>10, FS_CardinalityType
<1> QED
    BY <1>4, <1>5, <1>7, <1>8, <1>10, <1>11

LEMMA RoomShrinks ==
  ASSUME RateAssumption, Typed, NEW s \in Slot, Room(s)' \subseteq Room(s)
  PROVE  Cardinality(Room(s)') \in Nat /\ Cardinality(Room(s)') <= Cardinality(Room(s))
BY RoomFinite, FS_Subset, FS_CardinalityType

LEMMA RoomLoses ==
  ASSUME RateAssumption, Typed, NEW s \in Slot, NEW x \in Room(s),
         Room(s)' \subseteq Room(s) \ {x}
  PROVE  Cardinality(Room(s)') \in Nat /\ Cardinality(Room(s)') + 1 <= Cardinality(Room(s))
<1>1. IsFiniteSet(Room(s)) /\ Cardinality(Room(s)) \in Nat
      BY RoomFinite
<1>2. /\ IsFiniteSet(Room(s) \ {x})
      /\ Cardinality(Room(s) \ {x}) = Cardinality(Room(s)) - 1
      BY <1>1, FS_RemoveElement
<1>3. /\ IsFiniteSet(Room(s)')
      /\ Cardinality(Room(s)') <= Cardinality(Room(s) \ {x})
      BY <1>2, FS_Subset
<1>4. Cardinality(Room(s)') \in Nat
      BY <1>3, FS_CardinalityType
<1> QED
    BY <1>1, <1>2, <1>3, <1>4

LEMMA RoomKept ==
  ASSUME UNCHANGED <<local, plain, fell>>, NEW s
  PROVE  Room(s)' = Room(s)
BY DEF Room

-----------------------------------------------------------------------------
(* The books of a slot.                                                    *)

LEMMA BookTypes ==
  ASSUME RateAssumption, Typed, NEW s \in Slot
  PROVE  /\ admitted[s] \in Nat /\ counter[s] \in Nat /\ now \in Nat /\ crashes \in Nat
         /\ Left(s) \in Nat /\ Promised(s) \in {0, 1} /\ Start(s) \in Nat
         /\ Cardinality(Room(s)) \in Nat /\ Cardinality(fell[s]) \in Nat
         /\ Allowance(s) \in Nat
<1>1. /\ admitted[s] \in Nat /\ counter[s] \in Nat /\ now \in Nat /\ crashes \in Nat
      BY DEF Typed, Instant, RateAssumption
<1>2. Cardinality(Room(s)) \in Nat /\ Cardinality(fell[s]) \in Nat /\ Start(s) \in Nat
      BY RoomFinite, StartType
<1>3. Left(s) \in Nat /\ Promised(s) \in {0, 1}
      BY <1>1, <1>2 DEF Left, Promised, RateAssumption
<1>4. \A f, c \in Nat : Limit * (1 + f + c) \in Nat
      BY DEF RateAssumption
<1> QED
    BY <1>1, <1>2, <1>3, <1>4 DEF Allowance

LEMMA NextTypes ==
  ASSUME RateAssumption, Typed', NEW s \in Slot
  PROVE  /\ admitted'[s] \in Nat /\ Left(s)' \in Nat /\ Promised(s)' \in {0, 1}
         /\ Cardinality(Room(s)') \in Nat
<1>1. admitted'[s] \in Nat /\ counter'[s] \in Nat /\ now' \in Nat
      BY DEF Typed, Instant, RateAssumption
<1>2. IsFiniteSet(1 .. Limit)
      BY FS_Interval DEF RateAssumption
<1>3. IsFiniteSet(Process \X (1 .. Limit))
      BY <1>2, FS_Product DEF RateAssumption
<1>4. IsFiniteSet(Room(s)')
      BY <1>3, FS_Subset DEF Room
<1>5. Cardinality(Room(s)') \in Nat
      BY <1>4, FS_CardinalityType
<1>6. Left(s)' \in Nat /\ Promised(s)' \in {0, 1}
      BY <1>1, StartType DEF Left, Promised, Start, RateAssumption
<1> QED
    BY <1>1, <1>5, <1>6

(* The books stay balanced when nothing more is promised than before, or no*)
(* more than one limit for a process that falls back or crashes.           *)
LEMMA BudgetKept ==
  ASSUME NEW s \in Slot, Budget(s), RateAssumption, Typed, Typed',
         fell'[s] = fell[s], crashes' = crashes, Spending(s)' <= Spending(s)
  PROVE  Budget(s)'
<1>1. Allowance(s)' = Allowance(s)
      BY DEF Allowance
<1>2. Spending(s)' \in Nat /\ Spending(s) \in Nat /\ Allowance(s) \in Nat
  <2>1. Spending(s) \in Nat /\ Allowance(s) \in Nat
        BY BookTypes DEF Spending
  <2>2. /\ admitted'[s] \in Nat /\ Left(s)' \in Nat /\ Promised(s)' \in {0, 1}
        /\ Cardinality(Room(s)') \in Nat
        BY NextTypes
  <2> QED
      BY <2>1, <2>2 DEF Spending
<1> QED
    BY <1>1, <1>2 DEF Budget, Spending

LEMMA BudgetRaised ==
  ASSUME NEW s \in Slot, Budget(s), RateAssumption, Typed, Typed',
         \/ Cardinality(fell'[s]) = Cardinality(fell[s]) + 1 /\ crashes' = crashes
         \/ fell'[s] = fell[s] /\ crashes' = crashes + 1,
         Spending(s)' <= Spending(s) + Limit
  PROVE  Budget(s)'
<1>1. \A f, c \in Nat : /\ Limit * (1 + (f + 1) + c) = Limit * (1 + f + c) + Limit
                        /\ Limit * (1 + f + (c + 1)) = Limit * (1 + f + c) + Limit
      BY DEF RateAssumption
<1>2. Cardinality(fell[s]) \in Nat /\ crashes \in Nat /\ Allowance(s) \in Nat
      BY BookTypes
<1>3. Allowance(s)' = Allowance(s) + Limit
      BY <1>1, <1>2 DEF Allowance
<1>4. Spending(s)' \in Nat /\ Spending(s) \in Nat
  <2>1. Spending(s) \in Nat
        BY BookTypes DEF Spending
  <2>2. /\ admitted'[s] \in Nat /\ Left(s)' \in Nat /\ Promised(s)' \in {0, 1}
        /\ Cardinality(Room(s)') \in Nat
        BY NextTypes
  <2> QED
      BY <2>1, <2>2 DEF Spending
<1> QED
    BY <1>2, <1>3, <1>4 DEF Budget, Spending, RateAssumption

(* An answer is entered in the books of its own slot.                      *)
LEMMA AnswerBooked ==
  ASSUME Typed, NEW r \in Request, NEW allowed, Answer(r, allowed), NEW s \in Slot
  PROVE  /\ admitted'[s] = IF allowed /\ s = req[r].slot THEN admitted[s] + 1 ELSE admitted[s]
         /\ Opening(s)' = Opening(s) \ {r}
<1>1. req' = [req EXCEPT ![r] = Idle]
      BY DEF Answer
<1> QED
    BY <1>1, Ended DEF Answer, Typed

LEMMA PromiseKept ==
  ASSUME NEW s, Opening(s)' \subseteq Opening(s)
  PROVE  Promised(s)' <= Promised(s)
BY DEF Promised

(* What Redis does.                                                        *)
LEMMA IncrBooked ==
  ASSUME RateAssumption, WindowLen + Delay <= Expiry, Typed, Typed',
         NEW r \in Request, OnTime(r), Incr(r), NEW s \in Slot, OpensOnce(s), Budget(s)
  PROVE  Budget(s)'
<1>1. req[r] # Idle /\ r \notin Opening(s)
      BY DEF Incr, Idle, Opening
<1>2. UNCHANGED <<now, local, plain, fell, crashes>>
      BY DEF Incr, Tables
<1>3. Room(s)' = Room(s)
      BY <1>2, RoomKept
<1>4. counter'[s] = IF s = req[r].slot THEN counter[s] + 1 ELSE counter[s]
      BY DEF Incr, Counted, Typed
<1>5. s = req[r].slot => now < Start(s) + Expiry
      BY <1>1, InTime
<1>6. admitted'[s] + Left(s)' + Promised(s)' <= admitted[s] + Left(s) + Promised(s)
  <2>1. CASE counter[req[r].slot] = 0
    <3>1. Goto(r, "expire") /\ admitted' = admitted
          BY <2>1 DEF Incr, Answers
    <3>2. Opening(s)' = IF req[r].slot = s THEN Opening(s) \cup {r} ELSE Opening(s) \ {r}
          BY <1>1, <3>1, Moved
    <3>3. CASE s = req[r].slot
      <4>1. Opening(s) = {}
            BY <2>1, <3>3 DEF OpensOnce
      <4>2. Promised(s) = 0 /\ Promised(s)' = 1
            BY <3>2, <3>3, <4>1 DEF Promised
      <4>3. Left(s) = Limit /\ Left(s)' = Limit - 1
            BY <1>2, <1>4, <1>5, <2>1, <3>3, BookTypes DEF Left, Start, RateAssumption
      <4> QED
          BY <3>1, <4>2, <4>3, BookTypes DEF RateAssumption
    <3>4. CASE s # req[r].slot
      <4>1. Opening(s)' = Opening(s)
            BY <1>1, <3>2, <3>4
      <4>2. Promised(s)' = Promised(s) /\ Left(s)' = Left(s)
            BY <1>2, <1>4, <3>4, <4>1 DEF Promised, Left, Start
      <4> QED
          BY <3>1, <4>2, BookTypes
    <3> QED
        BY <3>3, <3>4
  <2>2. CASE counter[req[r].slot] # 0
    <3>1. Answer(r, counter[req[r].slot] + 1 <= Limit)
          BY <2>2 DEF Incr
    <3>2. Opening(s)' = Opening(s)
      <4>1. req' = [req EXCEPT ![r] = Idle]
            BY <3>1 DEF Answer
      <4>2. Opening(s)' = Opening(s) \ {r}
            BY <4>1, Ended
      <4> QED
          BY <1>1, <4>2
    <3>3. Promised(s)' = Promised(s)
          BY <3>2 DEF Promised
    <3>4. admitted'[s] = IF counter[s] + 1 <= Limit /\ s = req[r].slot
                         THEN admitted[s] + 1 ELSE admitted[s]
          BY <3>1 DEF Answer, Typed
    <3>5. CASE s = req[r].slot
      <4>1. Left(s) = (IF counter[s] > Limit THEN 0 ELSE Limit - counter[s])
            BY <1>5, <3>5, BookTypes DEF Left, RateAssumption
      <4>2. Left(s)' = (IF counter[s] + 1 > Limit THEN 0 ELSE Limit - (counter[s] + 1))
            BY <1>2, <1>4, <1>5, <3>5, BookTypes DEF Left, Start, RateAssumption
      <4> QED
          BY <3>3, <3>4, <3>5, <4>1, <4>2, BookTypes DEF RateAssumption
    <3>6. CASE s # req[r].slot
      <4>1. Left(s)' = Left(s)
            BY <1>2, <1>4, <3>6 DEF Left, Start
      <4> QED
          BY <3>3, <3>4, <3>6, <4>1, BookTypes
    <3> QED
        BY <3>5, <3>6
  <2> QED
      BY <2>1, <2>2
<1>7. Spending(s)' <= Spending(s)
      BY <1>3, <1>6, BookTypes, NextTypes DEF Spending
<1> QED
    BY <1>2, <1>7, BudgetKept

(* A step that leaves Tables and admits nothing, after which Redis promises*)
(* no more than before.                                                    *)
LEMMA IdleBooked ==
  ASSUME RateAssumption, Typed, Typed', UNCHANGED <<local, plain, fell, crashes>>,
         NEW s \in Slot, admitted'[s] = admitted[s], Left(s)' <= Left(s),
         Opening(s)' \subseteq Opening(s), Budget(s)
  PROVE  Budget(s)'
<1>1. Room(s)' = Room(s) /\ Promised(s)' <= Promised(s)
      BY RoomKept, PromiseKept
<1>2. Spending(s)' <= Spending(s)
      BY <1>1, BookTypes, NextTypes DEF Spending
<1> QED
    BY <1>2, BudgetKept

LEMMA LeftKept ==
  ASSUME RateAssumption, Typed, NEW s \in Slot, now' = now,
         counter'[s] \in {counter[s], counter[s] + 1}
  PROVE  Left(s)' <= Left(s)
BY BookTypes DEF Left, Start, RateAssumption

LEMMA ExpireBooked ==
  ASSUME RateAssumption, Typed, Typed', NEW r \in Request, Expire(r),
         NEW s \in Slot, OpensOnce(s), Budget(s)
  PROVE  Budget(s)'
<1>1. /\ req[r] # Idle /\ req[r].at = "expire" /\ Answer(r, TRUE)
      /\ UNCHANGED <<now, counter, local, plain, fell, crashes>>
  <2>1. 1 <= Limit
        BY DEF RateAssumption
  <2> QED
      BY <2>1 DEF Expire, Tables, Idle, Answer
<1>2. /\ admitted'[s] = IF s = req[r].slot THEN admitted[s] + 1 ELSE admitted[s]
      /\ Opening(s)' = Opening(s) \ {r}
      BY <1>1, AnswerBooked
<1>3. Left(s)' = Left(s) /\ Room(s)' = Room(s)
      BY <1>1, RoomKept DEF Left, Start
<1>4. CASE s = req[r].slot
  <2>1. r \in Opening(s)
        BY <1>1, <1>4 DEF Opening, Serving
  <2>2. Opening(s)' = {}
        BY <1>2, <2>1 DEF OpensOnce
  <2>3. Promised(s) = 1 /\ Promised(s)' = 0
        BY <2>1, <2>2 DEF Promised
  <2>4. Spending(s)' = Spending(s)
        BY <1>2, <1>3, <1>4, <2>3, BookTypes DEF Spending
  <2> QED
      BY <1>1, <2>4, BookTypes, BudgetKept DEF Spending
<1>5. CASE s # req[r].slot
      BY <1>1, <1>2, <1>3, <1>5, BookTypes, IdleBooked
<1> QED
    BY <1>4, <1>5

(* What a process does.  When it first counts for a slot it takes one of   *)
(* the numbers it adds to the room; after a crash, one that is there.      *)
LEMMA CountFirstBooked ==
  ASSUME RateAssumption, Typed, Typed', NEW r \in Request, CountFirst(r),
         NEW s \in Slot, Budget(s)
  PROVE  Budget(s)'
<1> DEFINE p == req[r].process
<1>1. /\ req[r] # Idle /\ req[r].at = "local" /\ req[r].slot \notin DOMAIN local[p]
      /\ p \notin plain /\ Answer(r, TRUE)
      /\ UNCHANGED <<now, counter, plain, crashes>>
  <2>1. req[r] # Idle
        BY DEF CountFirst, Idle
  <2> QED
      BY <2>1 DEF CountFirst, Shared
<1>2. p \in Process
      BY <1>1, Served
<1>3. /\ admitted'[s] = IF s = req[r].slot THEN admitted[s] + 1 ELSE admitted[s]
      /\ Opening(s)' = Opening(s) \ {r}
      BY <1>1, AnswerBooked
<1>4. Left(s)' = Left(s) /\ Promised(s)' <= Promised(s)
      BY <1>1, <1>3, PromiseKept DEF Left, Start
<1>5. fell'[s] = IF s = req[r].slot THEN fell[s] \cup {p} ELSE fell[s]
  <2>1. fell' = [fell EXCEPT ![req[r].slot] = fell[req[r].slot] \cup {p}]
        BY DEF CountFirst
  <2> HIDE DEF p
  <2> QED
      BY <2>1 DEF Typed
<1>6. \A q \in Process :
        /\ q # p => local'[q] = local[q]
        /\ q = p => /\ DOMAIN local'[q] = DOMAIN local[q] \cup {req[r].slot}
                    /\ local'[q][req[r].slot] = 1
                    /\ \A x \in DOMAIN local[q] : local'[q][x] = local[q][x]
  <2>1. local' = [local EXCEPT ![p] = With(local[p], req[r].slot, 1)]
        BY DEF CountFirst
  <2>2. /\ DOMAIN With(local[p], req[r].slot, 1) = DOMAIN local[p] \cup {req[r].slot}
        /\ With(local[p], req[r].slot, 1)[req[r].slot] = 1
        /\ \A x \in DOMAIN local[p] : With(local[p], req[r].slot, 1)[x] = local[p][x]
        BY <1>1 DEF With
  <2> QED
      BY <1>2, <2>1, <2>2 DEF Typed
<1>7. CASE s # req[r].slot
  <2>1. Room(s)' \subseteq Room(s)
        BY <1>1, <1>5, <1>6, <1>7 DEF Room
  <2>2. Cardinality(Room(s)') <= Cardinality(Room(s))
        BY <2>1, RoomShrinks
  <2>3. Spending(s)' <= Spending(s)
        BY <1>3, <1>4, <1>7, <2>2, BookTypes, NextTypes DEF Spending
  <2> QED
      BY <1>1, <1>5, <1>7, <2>3, BudgetKept
<1>8. CASE s = req[r].slot /\ p \notin fell[s]
  <2>1. Limit - 1 \in Nat
        BY DEF RateAssumption
  <2>2. Room(s)' \subseteq Room(s) \cup ({p} \X (1 .. (Limit - 1)))
    <3> SUFFICES ASSUME NEW x \in Room(s)'
                 PROVE  x \in Room(s) \cup ({p} \X (1 .. (Limit - 1)))
        OBVIOUS
    <3>1. /\ x = <<x[1], x[2]>> /\ x[1] \in Process /\ x[2] \in 1 .. Limit /\ x[1] \in fell'[s]
          /\ IF s \in DOMAIN local'[x[1]] THEN local'[x[1]][s] + x[2] <= Limit
                                          ELSE x[1] \notin plain'
          BY DEF Room
    <3>2. CASE x[1] = p
      <4>1. 1 + x[2] <= Limit
            BY <1>6, <1>8, <3>1, <3>2
      <4> QED
          BY <3>1, <3>2, <4>1 DEF RateAssumption
    <3>3. CASE x[1] # p
          BY <1>1, <1>5, <1>6, <3>1, <3>3 DEF Room
    <3> QED
        BY <3>2, <3>3
  <2>3. Cardinality(Room(s)') <= Cardinality(Room(s)) + (Limit - 1)
        BY <2>1, <2>2, RoomGains
  <2>4. Spending(s)' <= Spending(s) + Limit
        BY <1>3, <1>4, <1>8, <2>3, BookTypes, NextTypes DEF Spending, RateAssumption
  <2>5. Cardinality(fell'[s]) = Cardinality(fell[s]) + 1
        BY <1>5, <1>8, RoomFinite, FS_AddElement
  <2> QED
      BY <1>1, <2>4, <2>5, BudgetRaised
<1>9. CASE s = req[r].slot /\ p \in fell[s]
  <2> DEFINE top == <<p, Limit>>
  <2>1. top \in Room(s)
        BY <1>1, <1>2, <1>9 DEF Room, RateAssumption
  <2>2. Room(s)' \subseteq Room(s) \ {top}
    <3> SUFFICES ASSUME NEW x \in Room(s)'
                 PROVE  x \in Room(s) /\ x # top
        OBVIOUS
    <3>1. /\ x = <<x[1], x[2]>> /\ x[1] \in Process /\ x[2] \in 1 .. Limit /\ x[1] \in fell'[s]
          /\ IF s \in DOMAIN local'[x[1]] THEN local'[x[1]][s] + x[2] <= Limit
                                          ELSE x[1] \notin plain'
          BY DEF Room
    <3>2. CASE x[1] = p
      <4>1. 1 + x[2] <= Limit
            BY <1>6, <1>9, <3>1, <3>2
      <4>2. x[2] # Limit
            BY <3>1, <4>1 DEF RateAssumption
      <4> QED
          BY <1>1, <1>9, <3>1, <3>2, <4>2 DEF Room
    <3>3. CASE x[1] # p
          BY <1>1, <1>5, <1>6, <3>1, <3>3 DEF Room
    <3> QED
        BY <3>2, <3>3
  <2>3. Cardinality(Room(s)') + 1 <= Cardinality(Room(s))
        BY <2>1, <2>2, RoomLoses
  <2>4. Spending(s)' <= Spending(s)
        BY <1>3, <1>4, <1>9, <2>3, BookTypes, NextTypes DEF Spending
  <2>5. fell'[s] = fell[s]
        BY <1>5, <1>9
  <2> QED
      BY <1>1, <2>4, <2>5, BudgetKept
<1> QED
    BY <1>7, <1>8, <1>9

LEMMA CountAgainBooked ==
  ASSUME RateAssumption, Typed, Typed', Fallen, NEW r \in Request, CountAgain(r),
         NEW s \in Slot, Budget(s)
  PROVE  Budget(s)'
<1> DEFINE p == req[r].process
           n == local[p][req[r].slot]
           table == With(local[p], req[r].slot, n + 1)
<1>1. /\ req[r] # Idle /\ req[r].slot \in DOMAIN local[p]
      /\ UNCHANGED <<now, counter, fell, crashes>>
  <2>1. req[r] # Idle
        BY DEF CountAgain, Idle
  <2> QED
      BY <2>1 DEF CountAgain, Shared
<1>2. p \in Process /\ n \in 1 .. Limit
      BY <1>1, Served DEF Typed
<1>3. CASE Spent(n)
  <2>1. Answer(r, FALSE) /\ UNCHANGED <<local, plain>>
        BY <1>3 DEF CountAgain
  <2>2. admitted'[s] = admitted[s] /\ Opening(s)' = Opening(s) \ {r}
        BY <2>1, AnswerBooked
  <2>3. Left(s)' <= Left(s)
        BY <1>1, BookTypes, LeftKept
  <2> QED
      BY <1>1, <2>1, <2>2, <2>3, IdleBooked
<1>4. CASE ~Spent(n)
  <2>1. Answer(r, TRUE)
        BY <1>4 DEF CountAgain
  <2>2. /\ admitted'[s] = IF s = req[r].slot THEN admitted[s] + 1 ELSE admitted[s]
        /\ Opening(s)' = Opening(s) \ {r}
        BY <2>1, AnswerBooked
  <2>3. Left(s)' = Left(s) /\ Promised(s)' <= Promised(s)
        BY <1>1, <2>2, PromiseKept DEF Left, Start
  <2>4. \/ local' = [local EXCEPT ![p] = table] /\ plain' = plain
        \/ /\ local' = [local EXCEPT ![p] = Recent(table, req[r].slot[2])]
           /\ plain' = plain \cup {p}
        BY <1>4 DEF CountAgain
  <2>5. /\ DOMAIN table = DOMAIN local[p] /\ table[req[r].slot] = n + 1
        /\ \A x \in DOMAIN table : x # req[r].slot => table[x] = local[p][x]
        BY <1>1 DEF With
  <2>6. /\ DOMAIN Recent(table, req[r].slot[2]) \subseteq DOMAIN table
        /\ \A x \in DOMAIN Recent(table, req[r].slot[2]) :
             Recent(table, req[r].slot[2])[x] = table[x]
        BY RecentPart
  <2> HIDE DEF table
  <2>7. /\ \A q \in Process : q # p => local'[q] = local[q]
        /\ plain \subseteq plain' /\ plain' \subseteq plain \cup {p}
        /\ DOMAIN local'[p] \subseteq DOMAIN local[p]
        /\ DOMAIN local'[p] = DOMAIN local[p] \/ p \in plain'
        /\ \A x \in DOMAIN local'[p] :
             local'[p][x] = IF x = req[r].slot THEN n + 1 ELSE local[p][x]
        BY <1>2, <2>4, <2>5, <2>6 DEF Typed
  <2>8. ASSUME NEW x \in Room(s)'
        PROVE  /\ x = <<x[1], x[2]>> /\ x[1] \in Process /\ x[2] \in 1 .. Limit /\ x[1] \in fell[s]
               /\ IF s \in DOMAIN local'[x[1]] THEN local'[x[1]][s] + x[2] <= Limit
                                               ELSE x[1] \notin plain'
        BY <1>1 DEF Room
  <2>9. CASE s # req[r].slot
    <3>1. ASSUME NEW x \in Room(s)'
          PROVE  x \in Room(s)
          BY <2>7, <2>8, <2>9 DEF Room
    <3>2. Cardinality(Room(s)') <= Cardinality(Room(s))
          BY <3>1, RoomShrinks
    <3>3. Spending(s)' <= Spending(s)
          BY <2>2, <2>3, <2>9, <3>2, BookTypes, NextTypes DEF Spending
    <3> QED
        BY <1>1, <3>3, BudgetKept
  <2>10. CASE s = req[r].slot
    <3> DEFINE top == <<p, Limit - n>>
    <3>1. n < Limit
          BY <1>2, <1>4 DEF Spent, RateAssumption
    <3>2. top \in Room(s)
      <4>1. p \in fell[s]
            BY <1>1, <1>2, <2>10 DEF Fallen
      <4>2. Limit - n \in 1 .. Limit /\ n + (Limit - n) <= Limit
            BY <1>2, <3>1 DEF RateAssumption
      <4> QED
          BY <1>1, <1>2, <2>10, <4>1, <4>2 DEF Room
    <3>3. ASSUME NEW x \in Room(s)'
          PROVE  x \in Room(s) /\ x # top
      <4>1. CASE x[1] = p
        <5>1. s \in DOMAIN local[p] /\ s \in DOMAIN local'[p]
              BY <1>1, <2>7, <2>8, <2>10, <4>1
        <5>2. n + 1 + x[2] <= Limit
              BY <2>7, <2>8, <2>10, <4>1, <5>1
        <5>3. n + x[2] <= Limit /\ x[2] # Limit - n
              BY <1>2, <2>8, <5>2 DEF RateAssumption
        <5> QED
            BY <2>8, <2>10, <4>1, <5>1, <5>3 DEF Room
      <4>2. CASE x[1] # p
            BY <2>7, <2>8, <4>2 DEF Room
      <4> QED
          BY <4>1, <4>2
    <3>4. Room(s)' \subseteq Room(s) \ {top}
          BY <3>3
    <3>5. Cardinality(Room(s)') + 1 <= Cardinality(Room(s))
          BY <3>2, <3>4, RoomLoses
    <3>6. Spending(s)' <= Spending(s)
          BY <2>2, <2>3, <2>10, <3>5, BookTypes, NextTypes DEF Spending
    <3> QED
        BY <1>1, <3>6, BudgetKept
  <2> QED
      BY <2>9, <2>10
<1> QED
    BY <1>3, <1>4

LEMMA CrashBooked ==
  ASSUME RateAssumption, Typed, Typed', NEW p \in Process, Crash(p), NEW s \in Slot, Budget(s)
  PROVE  Budget(s)'
<1>1. /\ UNCHANGED <<now, counter, fell, admitted>> /\ crashes' = crashes + 1
      /\ plain' = plain \ {p}
      BY DEF Crash, Shared, Answers
<1>2. \A q \in Process : q # p => local'[q] = local[q]
      BY DEF Crash, Typed
<1>3. Opening(s)' \subseteq Opening(s)
      BY Crashed
<1>4. Left(s)' = Left(s) /\ Promised(s)' <= Promised(s)
      BY <1>1, <1>3, PromiseKept DEF Left, Start
<1>5. Room(s)' \subseteq Room(s) \cup ({p} \X (1 .. Limit))
  <2> SUFFICES ASSUME NEW x \in Room(s)'
               PROVE  x \in Room(s) \cup ({p} \X (1 .. Limit))
      OBVIOUS
  <2>1. /\ x = <<x[1], x[2]>> /\ x[1] \in Process /\ x[2] \in 1 .. Limit /\ x[1] \in fell'[s]
        /\ IF s \in DOMAIN local'[x[1]] THEN local'[x[1]][s] + x[2] <= Limit
                                        ELSE x[1] \notin plain'
        BY DEF Room
  <2>2. CASE x[1] # p
        BY <1>1, <1>2, <2>1, <2>2 DEF Room
  <2>3. CASE x[1] = p
        BY <2>1, <2>3
  <2> QED
      BY <2>2, <2>3
<1>6. Cardinality(Room(s)') <= Cardinality(Room(s)) + Limit
      BY <1>5, RoomGains DEF RateAssumption
<1>7. Spending(s)' <= Spending(s) + Limit
      BY <1>1, <1>4, <1>6, BookTypes, NextTypes DEF Spending, RateAssumption
<1> QED
    BY <1>1, <1>7, BudgetRaised

(* A counter that goes has outlived what Redis may admit.                  *)
LEMMA TickBooked ==
  ASSUME RateAssumption, Typed, Typed', Tick, NEW s \in Slot, KeptLong(s), Budget(s)
  PROVE  Budget(s)'
<1>1. /\ now' = now + 1 /\ UNCHANGED <<local, plain, fell, crashes, admitted, req>>
      BY DEF Tick, Tables, Answers
<1>2. counter'[s] = IF expires[s] = now + 1 THEN 0 ELSE counter[s]
      BY DEF Tick
<1>3. expires[s] = now + 1 => now + 1 >= Start(s) + Expiry
      BY BookTypes DEF KeptLong, Never
<1>4. Left(s)' <= Left(s)
      BY <1>1, <1>2, <1>3, BookTypes DEF Left, Start, RateAssumption
<1>5. Opening(s)' = Opening(s)
      BY <1>1, Untouched
<1> QED
    BY <1>1, <1>4, <1>5, IdleBooked

LEMMA BudgetStep ==
  ASSUME RateAssumption, WindowLen + Delay <= Expiry, Typed, BInv, [RateNext]_ratevars,
         NEW s \in Slot
  PROVE  Budget(s)'
<1>0. /\ Typed' /\ Budget(s) /\ OpensOnce(s) /\ KeptLong(s) /\ Fallen
      /\ \A r \in Request : OnTime(r)
      BY TypedStep DEF BInv
<1>1. ASSUME UNCHANGED ratevars
      PROVE  Budget(s)'
      BY <1>0, <1>1 DEF ratevars, Budget, Spending, Allowance, Room, Left, Start, Promised, Opening,
         Serving
<1>2. ASSUME NEW r \in Request, NEW p \in Process, NEW k \in Key, Arrive(r, p, k)
      PROVE  Budget(s)'
  <2>1. UNCHANGED <<local, plain, fell, crashes, now, counter, admitted>>
        BY <1>2 DEF Arrive, Shared, Tables
  <2>2. Opening(s)' = Opening(s)
        BY <1>2, Arrived
  <2>3. Left(s)' <= Left(s)
        BY <2>1, BookTypes, LeftKept
  <2> QED
      BY <1>0, <2>1, <2>2, <2>3, IdleBooked
<1>3. ASSUME NEW r \in Request, IncrFails(r) \/ ExpireFails(r)
      PROVE  Budget(s)'
  <2>1. /\ UNCHANGED <<local, plain, fell, crashes, now, admitted>>
        /\ Goto(r, "local") /\ req[r] # Idle
        BY <1>3 DEF IncrFails, ExpireFails, Tables, Answers, Idle
  <2>2. Opening(s)' \subseteq Opening(s)
        BY <2>1, Moved
  <2>3. counter'[s] \in {counter[s], counter[s] + 1}
        BY <1>3 DEF IncrFails, ExpireFails, Counted, Typed
  <2>4. Left(s)' <= Left(s)
        BY <2>1, <2>3, LeftKept
  <2> QED
      BY <1>0, <2>1, <2>2, <2>4, IdleBooked
<1>4. ASSUME NEW r \in Request, KeyError(r)
      PROVE  Budget(s)'
  <2>1. /\ UNCHANGED <<local, plain, fell, crashes, now, counter, admitted>>
        /\ req' = [req EXCEPT ![r] = Idle]
        BY <1>4 DEF KeyError, Shared, Answers
  <2>2. Opening(s)' = Opening(s) \ {r}
        BY <2>1, Ended
  <2>3. Left(s)' <= Left(s)
        BY <2>1, BookTypes, LeftKept
  <2> QED
      BY <1>0, <2>1, <2>2, <2>3, IdleBooked
<1>5. ASSUME NEW r \in Request, Incr(r) \/ Expire(r) \/ CountFirst(r) \/ CountAgain(r)
      PROVE  Budget(s)'
      BY <1>0, <1>5, IncrBooked, ExpireBooked, CountFirstBooked, CountAgainBooked
<1>6. ASSUME NEW p \in Process, Crash(p)
      PROVE  Budget(s)'
      BY <1>0, <1>6, CrashBooked
<1>7. ASSUME Tick
      PROVE  Budget(s)'
      BY <1>0, <1>7, TickBooked
<1> QED
    BY <1>1, <1>2, <1>3, <1>4, <1>5, <1>6, <1>7 DEF RateNext, Serve

LEMMA FallenStep ==
  ASSUME RateAssumption, Typed, Fallen, [RateNext]_ratevars
  PROVE  Fallen'
<1>1. ASSUME NEW r \in Request, CountFirst(r)
      PROVE  Fallen'
  <2> DEFINE p == req[r].process
             t == req[r].slot
  <2>1. /\ local' = [local EXCEPT ![p] = With(local[p], t, 1)]
        /\ fell' = [fell EXCEPT ![t] = fell[t] \cup {p}]
        BY <1>1 DEF CountFirst
  <2>2. DOMAIN With(local[p], t, 1) = DOMAIN local[p] \cup {t}
        BY DEF With
  <2>3. t \in Slot
    <3>1. req[r] # Idle
          BY <1>1 DEF CountFirst, Idle
    <3> QED
        BY <3>1, Served
  <2> HIDE DEF p, t
  <2>4. ASSUME NEW q \in Process, NEW s \in DOMAIN local'[q]
        PROVE  q \in fell'[s]
    <3>1. s \in DOMAIN local[q] \/ (q = p /\ s = t)
          BY <2>1, <2>2, <2>4 DEF Typed
    <3>2. fell'[t] = fell[t] \cup {p} /\ \A x \in Slot : x # t => fell'[x] = fell[x]
          BY <2>1, <2>3 DEF Typed
    <3> QED
        BY <3>1, <3>2 DEF Fallen, Typed
  <2> QED
      BY <2>4 DEF Fallen
<1>2. ASSUME fell' = fell, \A q \in Process : DOMAIN local'[q] \subseteq DOMAIN local[q]
      PROVE  Fallen'
      BY <1>2 DEF Fallen
<1>3. ASSUME NEW r \in Request, CountAgain(r)
      PROVE  fell' = fell /\ \A q \in Process : DOMAIN local'[q] \subseteq DOMAIN local[q]
  <2> DEFINE p == req[r].process
             table == With(local[p], req[r].slot, local[p][req[r].slot] + 1)
  <2>1. /\ fell' = fell
        /\ \/ local' = local
           \/ local' = [local EXCEPT ![p] = table]
           \/ local' = [local EXCEPT ![p] = Recent(table, req[r].slot[2])]
        BY <1>3 DEF CountAgain
  <2>2. DOMAIN table = DOMAIN local[p]
        BY <1>3 DEF CountAgain, With
  <2>3. DOMAIN Recent(table, req[r].slot[2]) \subseteq DOMAIN table
        BY RecentPart
  <2> HIDE DEF table
  <2> QED
      BY <2>1, <2>2, <2>3 DEF Typed
<1>4. ASSUME NEW p \in Process, Crash(p)
      PROVE  fell' = fell /\ \A q \in Process : DOMAIN local'[q] \subseteq DOMAIN local[q]
  <2>1. \A q \in Process : local'[q] = IF q = p THEN <<>> ELSE local[q]
        BY <1>4 DEF Crash, Typed
  <2>2. DOMAIN <<>> = {}
        OBVIOUS
  <2> QED
      BY <1>4, <2>1, <2>2 DEF Crash
<1>5. ASSUME NEW r \in Request,
             \/ \E p \in Process, k \in Key : Arrive(r, p, k)
             \/ Incr(r) \/ IncrFails(r) \/ Expire(r) \/ ExpireFails(r) \/ KeyError(r)
      PROVE  fell' = fell /\ local' = local
      BY <1>5 DEF Arrive, Incr, IncrFails, Expire, ExpireFails, KeyError, Tables
<1>6. ASSUME Tick \/ UNCHANGED ratevars
      PROVE  fell' = fell /\ local' = local
      BY <1>6 DEF Tick, Tables, ratevars
<1> QED
    BY <1>1, <1>2, <1>3, <1>4, <1>5, <1>6 DEF RateNext, Serve

LEMMA BInit ==
  ASSUME RateAssumption, RateInit
  PROVE  BInv
<1>1. \A p \in Process : DOMAIN local[p] = {}
      BY DEF RateInit
<1>2. \A r \in Request : OnTime(r)
      BY DEF RateInit, OnTime
<1>3. ASSUME NEW s \in Slot
      PROVE  KeptLong(s) /\ OpensOnce(s) /\ Budget(s)
  <2>1. Opening(s) = {} /\ Room(s) = {} /\ fell[s] = {}
        BY DEF RateInit, Opening, Serving, Room
  <2>2. admitted[s] = 0 /\ Cardinality(Room(s)) = 0 /\ Promised(s) = 0 /\ Left(s) <= Limit
        BY <2>1, FS_EmptySet DEF RateInit, Promised, Left, RateAssumption
  <2>3. Allowance(s) = Limit * (1 + 0 + 0)
        BY <2>1, FS_EmptySet DEF RateInit, Allowance
  <2>4. Limit * (1 + 0 + 0) = Limit
        BY DEF RateAssumption
  <2>5. Left(s) \in Nat
        BY StartType DEF RateInit, Left, RateAssumption
  <2>6. Budget(s)
        BY <2>2, <2>3, <2>4, <2>5 DEF Budget, Spending, RateAssumption
  <2> QED
      BY <2>1, <2>6 DEF KeptLong, OpensOnce, RateInit
<1> QED
    BY <1>1, <1>2, <1>3 DEF BInv, Fallen

LEMMA BStep ==
  ASSUME RateAssumption, WindowLen + Delay <= Expiry, Typed, BInv, [RateNext]_ratevars
  PROVE  BInv'
<1>1. ASSUME NEW r \in Request
      PROVE  OnTime(r)'
      BY OnTimeStep DEF BInv
<1>2. ASSUME NEW s \in Slot
      PROVE  KeptLong(s)' /\ OpensOnce(s)'
      BY KeptStep, OpensStep DEF BInv
<1>3. Fallen'
      BY FallenStep DEF BInv
<1>4. ASSUME NEW s \in Slot
      PROVE  Budget(s)'
      BY BudgetStep
<1> QED
    BY <1>1, <1>2, <1>3, <1>4 DEF BInv

LEMMA Balanced == ASSUME Typed, BInv PROVE AdmittedBounded
<1> SUFFICES ASSUME NEW s \in Slot
             PROVE  admitted[s] <= Allowance(s)
    BY DEF AdmittedBounded, Allowance
<1>1. Budget(s)
      BY DEF BInv
<1> QED
    BY <1>1, RateAssumption, BookTypes DEF Budget, Spending

(* Where a counter outlives its window by the time a request may take, a   *)
(* client is admitted its limit once, and once more for each process that  *)
(* counted for it alone and for each crash.                                *)
THEOREM AdmittedWithin ==
  ASSUME WindowLen + Delay <= Expiry
  PROVE  RateSpec => []AdmittedBounded
<1>1. RateInit => BInv
      BY RateAssumption, BInit
<1>2. CInv /\ BInv /\ [RateNext]_ratevars => BInv'
      BY RateAssumption, BStep DEF CInv
<1>3. CInv /\ BInv => AdmittedBounded
      BY Balanced DEF CInv
<1> QED
    BY <1>1, <1>2, <1>3, CountInvariance, PTL DEF RateSpec
=============================================================================
