---------------------------- MODULE SdkClientProofs ----------------------------
(***************************************************************************)
(* Theorems about SdkClient, for any flags, calls, readers and times.      *)
(*                                                                         *)
(* A step of the client is a step of the configuration cache or leaves it  *)
(* alone, so that ConfigCacheProofs applies.  On top of its invariant,     *)
(* SdkInv follows an answer from the reader that makes it, through the     *)
(* call that carries it, to the decision that is kept: at each stage it is *)
(* older by what that stage may take, and no more.                         *)
(***************************************************************************)
EXTENDS SdkClient, ConfigCacheProofs

(* A reader at work for a call reads the flag it asks for, and no other.   *)
Serving ==
    \A c \in Call :
      /\ call[c].at = "sent" => \E f \in Flag : call[c].flag = {f}
      /\ \A r \in Reader : call[c].by = {r} =>
           /\ reader[r].at # "idle"
           /\ \A f \in DOMAIN reader[r].rows : call[c].flag = {f}

AnswerAge ==
    \A c \in Call : call[c].at = "answered" =>
      \A f \in call[c].flag :
        Superseded(f, call[c].version) => quiet[f] <= TTL + MaxHold + call[c].flight

DecisionAge ==
    \A f \in DOMAIN decided : Usable(decided[f]) /\ Superseded(f, decided[f].version) =>
      quiet[f] <= TTL + MaxHold + MaxFlight + decided[f].age

SdkInv == SdkTypeOK /\ IInv /\ Serving /\ AnswerAge /\ DecisionAge

-----------------------------------------------------------------------------
LEMMA SdkInitInv == SdkInit => SdkInv
  <1> SUFFICES ASSUME SdkInit PROVE SdkInv
    OBVIOUS
  <1> USE CacheAssumption, SdkAssumption
  <1>1. IInv
    BY InitInv DEF SdkInit
  <1>2. SdkTypeOK
    <2>1. NoCall \in Called
      BY DEF NoCall, Called, Version
    <2>2. <<>> = [f \in {} |-> 0] /\ [f \in {} |-> 0] \in [{} -> Kept]
      OBVIOUS
    <2>. QED
      BY <1>1, <2>1, <2>2 DEF SdkInit, SdkTypeOK, IInv
  <1>3. Serving /\ AnswerAge
    BY DEF SdkInit, Serving, AnswerAge, NoCall
  <1>4. DecisionAge
    BY DEF SdkInit, DecisionAge
  <1>. QED
    BY <1>1, <1>2, <1>3, <1>4 DEF SdkInv

(* Every step of the client is a step of the cache or none.                *)
LEMMA StepOfCache ==
    ASSUME SdkTypeOK, [SdkNext]_sdkvars
    PROVE  [CacheNext]_cachevars
  <1>1. ASSUME NEW c \in Call,
               (\E f \in Flag : Send(c, f)) \/ ServeHit(c) \/ Receive(c) \/ CallFails(c)
        PROVE  UNCHANGED cachevars
    BY <1>1 DEF Send, ServeHit, Receive, CallFails
  <1>2. ASSUME NEW c \in Call, NEW r \in Reader, ServeMiss(c, r)
        PROVE  CacheNext
    <2>1. call[c].flag \in SUBSET Flag /\ Lookup(r, call[c].flag)
      BY <1>2 DEF ServeMiss, SdkTypeOK, Called
    <2>. QED
      BY <2>1 DEF CacheNext
  <1>3. ASSUME NEW r \in Reader,
               \/ \E wanted \in SUBSET Flag : ServeBatch(r, wanted)
               \/ \E f \in Flag : ServeFill(r, f)
               \/ ServeRows(r) \/ ServeChildren(r) \/ ServeFillFails(r)
        PROVE  CacheNext
    BY <1>3 DEF ServeBatch, ServeFill, ServeRows, ServeChildren, ServeFillFails, CacheNext
  <1>4. CASE ClearCache
    BY <1>4 DEF ClearCache
  <1>5. ASSUME NEW w \in Writer, Manage(w)
        PROVE  CacheNext
    BY <1>5 DEF Manage, CacheNext
  <1>6. CASE SdkTick
    BY <1>6 DEF SdkTick, CacheNext
  <1>7. CASE UNCHANGED sdkvars
    BY <1>7 DEF sdkvars
  <1>. QED
    BY <1>1, <1>2, <1>3, <1>4, <1>5, <1>6, <1>7 DEF SdkNext

-----------------------------------------------------------------------------
(* What is known of an answer or a decision survives a step in which every *)
(* flag stays as it is or begins to be quiet anew.                         *)
NoFlagAges ==
    \A f \in Flag : \/ stored'[f] = stored[f] /\ quiet'[f] = quiet[f]
                    \/ quiet'[f] = 0

LEMMA AnswersStay ==
    ASSUME SdkInv, NoFlagAges,
           \A c \in Call : call'[c] = call[c] \/ call'[c].at # "answered"
    PROVE  AnswerAge'
  <1> SUFFICES ASSUME NEW c \in Call, call'[c].at = "answered", NEW f \in call'[c].flag,
                      Superseded(f, call[c].version)'
               PROVE  quiet'[f] <= TTL + MaxHold + call'[c].flight
    BY DEF AnswerAge
  <1>1. call'[c] = call[c] /\ call[c] \in Called /\ f \in Flag
    BY DEF SdkInv, SdkTypeOK, Called
  <1>2. CASE stored'[f] = stored[f] /\ quiet'[f] = quiet[f]
    BY <1>1, <1>2 DEF SdkInv, AnswerAge, Superseded
  <1>3. CASE quiet'[f] = 0
    BY <1>1, <1>3, CacheAssumption DEF Called
  <1>. QED
    BY <1>1, <1>2, <1>3 DEF NoFlagAges

LEMMA DecisionsStay ==
    ASSUME SdkInv, NoFlagAges,
           \A f \in DOMAIN decided' : f \in DOMAIN decided /\ decided'[f] = decided[f]
    PROVE  DecisionAge'
  <1> SUFFICES ASSUME NEW f \in DOMAIN decided', Usable(decided[f])',
                      Superseded(f, decided[f].version)'
               PROVE  quiet'[f] <= TTL + MaxHold + MaxFlight + decided'[f].age
    BY DEF DecisionAge, Usable
  <1>1. f \in DOMAIN decided /\ decided'[f] = decided[f] /\ decided[f] \in Kept /\ f \in Flag
    BY DEF SdkInv, SdkTypeOK
  <1>2. CASE stored'[f] = stored[f] /\ quiet'[f] = quiet[f]
    BY <1>1, <1>2 DEF SdkInv, DecisionAge, Superseded
  <1>3. CASE quiet'[f] = 0
    BY <1>1, <1>3, CacheAssumption, SdkAssumption DEF Kept
  <1>. QED
    BY <1>1, <1>2, <1>3 DEF NoFlagAges

-----------------------------------------------------------------------------
(* Calls.                                                                  *)
LEMMA SendInv ==
    ASSUME SdkInv, IInv', NEW c \in Call, NEW f \in Flag, Send(c, f)
    PROVE  SdkInv'
  <1> DEFINE new == [NoCall EXCEPT !.at = "sent", !.flag = {f}]
  <1>1. /\ UNCHANGED <<stored, cache, reader, writer, quiet, decided>>
        /\ call' = [call EXCEPT ![c] = new]
    BY DEF Send, cachevars
  <1>2. new \in Called /\ new.at = "sent" /\ new.flag = {f} /\ new.by = {}
    <2>1. NoCall \in Called
      BY CacheAssumption, SdkAssumption DEF Called, NoCall, Version
    <2>. QED
      BY <2>1 DEF Called, NoCall
  <1>3. SdkTypeOK'
    BY <1>1, <1>2 DEF SdkInv, SdkTypeOK, IInv
  <1>4. \A d \in Call : call'[d] = IF d = c THEN new ELSE call[d]
    BY <1>1 DEF SdkInv, SdkTypeOK
  <1>5. Serving'
    BY <1>1, <1>2, <1>4 DEF SdkInv, Serving
  <1>6. NoFlagAges
    BY <1>1 DEF NoFlagAges
  <1>7. AnswerAge' /\ DecisionAge'
    BY <1>1, <1>2, <1>4, <1>6, AnswersStay, DecisionsStay
  <1>. QED
    BY <1>3, <1>5, <1>7 DEF SdkInv

LEMMA CallFailsInv ==
    ASSUME SdkInv, IInv', NEW c \in Call, CallFails(c)
    PROVE  SdkInv'
  <1>1. /\ UNCHANGED <<stored, cache, reader, writer, quiet, decided>>
        /\ call' = [call EXCEPT ![c] = NoCall]
    BY DEF CallFails, cachevars
  <1>2. NoCall \in Called /\ NoCall.at = "idle" /\ NoCall.by = {}
    BY CacheAssumption, SdkAssumption DEF Called, NoCall, Version
  <1>3. SdkTypeOK'
    BY <1>1, <1>2 DEF SdkInv, SdkTypeOK, IInv
  <1>4. \A d \in Call : call'[d] = IF d = c THEN NoCall ELSE call[d]
    BY <1>1 DEF SdkInv, SdkTypeOK
  <1>5. Serving'
    BY <1>1, <1>2, <1>4 DEF SdkInv, Serving
  <1>6. NoFlagAges
    BY <1>1 DEF NoFlagAges
  <1>7. AnswerAge' /\ DecisionAge'
    BY <1>1, <1>2, <1>4, <1>6, AnswersStay, DecisionsStay
  <1>. QED
    BY <1>3, <1>5, <1>7 DEF SdkInv

(* An answer from the cache is as old as the entry, a TTL and a fill.      *)
LEMMA ServeHitInv ==
    ASSUME SdkInv, IInv', NEW c \in Call, ServeHit(c)
    PROVE  SdkInv'
  <1>1. PICK f \in call[c].flag : Hit(f) /\ call' = [call EXCEPT ![c] = Answer(c, cache[f].version)]
    BY DEF ServeHit
  <1>2. /\ UNCHANGED <<stored, cache, reader, writer, quiet, decided>>
        /\ f \in Flag /\ call[c].flag = {f}
    BY DEF ServeHit, cachevars, SdkInv, Serving
  <1> DEFINE new == Answer(c, cache[f].version)
  <1>3. call[c] \in Called /\ cache[f].version \in Version
    BY <1>2 DEF SdkInv, SdkTypeOK, IInv, CacheTypeOK, Entry
  <1>4. /\ new \in Called /\ new.at = "answered" /\ new.flag = {f} /\ new.by = {}
        /\ new.version = cache[f].version /\ new.flight \in Nat
    <2>1. call[c].flight \in Nat
      BY <1>3, SdkAssumption DEF Called
    <2>2. Answer(c, cache[f].version) \in Called
      BY <1>3 DEF Called, Answer
    <2>. QED
      BY <1>2, <1>3, <2>1, <2>2 DEF Called, Answer
  <1>5. SdkTypeOK'
    BY <1>1, <1>2, <1>4 DEF SdkInv, SdkTypeOK, IInv
  <1>6. \A d \in Call : call'[d] = IF d = c THEN new ELSE call[d]
    BY <1>1 DEF SdkInv, SdkTypeOK
  <1>7. Serving'
    BY <1>2, <1>4, <1>6 DEF SdkInv, Serving
  <1>8. AnswerAge'
    <2>1. Superseded(f, new.version) => quiet[f] <= TTL + MaxHold
      BY <1>1, <1>2, <1>4, EntryAgeBounds DEF SdkInv, StaleBounded, Stale, Superseded
    <2>2. quiet[f] \in Nat
      BY <1>2 DEF SdkInv, IInv, CacheTypeOK
    <2>3. Superseded(f, new.version) => quiet[f] <= TTL + MaxHold + new.flight
      BY <1>4, <2>1, <2>2, CacheAssumption
    <2>. QED
      BY <1>2, <1>4, <1>6, <2>3 DEF SdkInv, AnswerAge, Superseded
  <1>9. NoFlagAges
    BY <1>2 DEF NoFlagAges
  <1>10. DecisionAge'
    BY <1>2, <1>9, DecisionsStay
  <1>. QED
    BY <1>5, <1>7, <1>8, <1>10 DEF SdkInv

(* What is kept is as old as the answer, whose flight is over.             *)
LEMMA ReceiveInv ==
    ASSUME SdkInv, IInv', NEW c \in Call, Receive(c)
    PROVE  SdkInv'
  <1>1. PICK f \in call[c].flag :
          decided' = Pruned([g \in DOMAIN decided \cup {f} |->
                       IF g = f THEN [version |-> call[c].version, age |-> 0] ELSE decided[g]])
    BY DEF Receive
  <1>2. /\ UNCHANGED <<stored, cache, reader, writer, quiet>>
        /\ call[c].at = "answered" /\ call' = [call EXCEPT ![c] = NoCall]
    BY DEF Receive, cachevars
  <1>3. call[c] \in Called /\ f \in Flag /\ call[c].flight \in 0 .. MaxFlight
    BY DEF SdkInv, SdkTypeOK, Called
  <1>4. NoCall \in Called /\ NoCall.at = "idle" /\ NoCall.by = {}
    BY CacheAssumption, SdkAssumption DEF Called, NoCall, Version
  <1> DEFINE new == [version |-> call[c].version, age |-> 0]
             table == [g \in DOMAIN decided \cup {f} |-> IF g = f THEN new ELSE decided[g]]
  <1>5. new \in Kept
    BY <1>3, SdkAssumption DEF Called, Kept
  <1>6. DOMAIN table \subseteq Flag /\ \A g \in DOMAIN table : table[g] \in Kept
    BY <1>3, <1>5 DEF SdkInv, SdkTypeOK
  <1>7. /\ DOMAIN decided' \subseteq DOMAIN table
        /\ decided' = [g \in DOMAIN decided' |-> table[g]]
    BY <1>1 DEF Pruned
  <1>8. SdkTypeOK'
    <2>1. decided' \in [DOMAIN decided' -> Kept] /\ DOMAIN decided' \in SUBSET Flag
      BY <1>6, <1>7
    <2>2. call' \in [Call -> Called]
      BY <1>2, <1>4 DEF SdkInv, SdkTypeOK
    <2>. QED
      BY <2>1, <2>2 DEF SdkTypeOK, IInv
  <1>9. \A d \in Call : call'[d] = IF d = c THEN NoCall ELSE call[d]
    BY <1>2 DEF SdkInv, SdkTypeOK
  <1>10. Serving'
    BY <1>2, <1>4, <1>9 DEF SdkInv, Serving
  <1>11. NoFlagAges
    BY <1>2 DEF NoFlagAges
  <1>12. AnswerAge'
    BY <1>4, <1>9, <1>11, AnswersStay
  <1>13. DecisionAge'
    <2>1. Superseded(f, new.version) => quiet[f] <= TTL + MaxHold + MaxFlight + new.age
      <3>1. Superseded(f, new.version) => quiet[f] <= TTL + MaxHold + call[c].flight
        BY <1>2 DEF SdkInv, AnswerAge
      <3>2. quiet[f] \in Nat
        BY <1>3 DEF SdkInv, IInv, CacheTypeOK
      <3>. QED
        BY <1>3, <3>1, <3>2, CacheAssumption, SdkAssumption
    <2>2. ASSUME NEW g \in DOMAIN table, Usable(table[g]), Superseded(g, table[g].version)
          PROVE  quiet[g] <= TTL + MaxHold + MaxFlight + table[g].age
      BY <2>1, <2>2 DEF SdkInv, DecisionAge
    <2>3. \A g \in DOMAIN decided' : g \in DOMAIN table /\ decided'[g] = table[g]
      BY <1>7
    <2>. QED
      BY <1>2, <2>2, <2>3 DEF DecisionAge, Superseded, Usable
  <1>. QED
    BY <1>8, <1>10, <1>12, <1>13 DEF SdkInv

LEMMA ClearCacheInv ==
    ASSUME SdkInv, IInv', ClearCache
    PROVE  SdkInv'
  <1>1. UNCHANGED <<stored, cache, reader, writer, quiet, call>> /\ decided' = <<>>
    BY DEF ClearCache, cachevars
  <1>2. <<>> = [f \in {} |-> 0] /\ [f \in {} |-> 0] \in [{} -> Kept]
    OBVIOUS
  <1>3. SdkTypeOK'
    BY <1>1, <1>2 DEF SdkInv, SdkTypeOK, IInv
  <1>4. Serving' /\ NoFlagAges
    BY <1>1 DEF SdkInv, Serving, NoFlagAges
  <1>5. AnswerAge' /\ DecisionAge'
    BY <1>1, <1>4, AnswersStay, DecisionsStay
  <1>. QED
    BY <1>3, <1>4, <1>5 DEF SdkInv

-----------------------------------------------------------------------------
(* Readers.  A reader that begins is at work for one call at most.         *)
LEMMA ServeMissInv ==
    ASSUME SdkInv, IInv', NEW c \in Call, NEW r \in Reader, ServeMiss(c, r)
    PROVE  SdkInv'
  <1>1. /\ UNCHANGED <<stored, cache, writer, quiet, decided>>
        /\ call[c].at = "sent" /\ reader[r].at = "idle"
        /\ call' = [call EXCEPT ![c].at = "served", ![c].by = {r}]
    BY DEF ServeMiss, Lookup
  <1>2. PICK missed \in SUBSET call[c].flag :
          reader' = [reader EXCEPT ![r].at = "missed", ![r].rows = [f \in missed |-> 0]]
    BY DEF ServeMiss, Lookup
  <1>3. PICK f \in Flag : call[c].flag = {f}
    BY <1>1 DEF SdkInv, Serving
  <1>4. SdkTypeOK'
    BY <1>1 DEF SdkInv, SdkTypeOK, IInv, Called
  <1>5. /\ \A d \in Call : d # c => call'[d] = call[d]
        /\ call'[c].at = "served" /\ call'[c].by = {r} /\ call'[c].flag = {f}
    BY <1>1, <1>3 DEF SdkInv, SdkTypeOK, Called
  <1>6. /\ \A q \in Reader : q # r => reader'[q] = reader[q]
        /\ reader'[r].at = "missed" /\ DOMAIN reader'[r].rows \subseteq {f}
    BY <1>2, <1>3 DEF SdkInv, IInv, CacheTypeOK
  <1>7. Serving'
    <2>1. \A d \in Call : call[d].by # {r}
      BY <1>1 DEF SdkInv, Serving
    <2>. QED
      BY <1>5, <1>6, <2>1 DEF SdkInv, Serving
  <1>8. NoFlagAges
    BY <1>1 DEF NoFlagAges
  <1>9. AnswerAge' /\ DecisionAge'
    BY <1>1, <1>5, <1>8, AnswersStay, DecisionsStay
  <1>. QED
    BY <1>4, <1>7, <1>9 DEF SdkInv

LEMMA ServeBatchInv ==
    ASSUME SdkInv, IInv', NEW r \in Reader, NEW wanted \in SUBSET Flag, ServeBatch(r, wanted)
    PROVE  SdkInv'
  <1>1. UNCHANGED <<stored, cache, writer, quiet, call, decided>> /\ reader[r].at = "idle"
    BY DEF ServeBatch, Lookup
  <1>2. \A q \in Reader : q # r => reader'[q] = reader[q]
    BY DEF ServeBatch, Lookup, SdkInv, IInv, CacheTypeOK
  <1>3. SdkTypeOK' /\ NoFlagAges
    BY <1>1 DEF SdkInv, SdkTypeOK, IInv, NoFlagAges
  <1>4. Serving'
    BY <1>1, <1>2 DEF SdkInv, Serving
  <1>5. AnswerAge' /\ DecisionAge'
    BY <1>1, <1>3, AnswersStay, DecisionsStay
  <1>. QED
    BY <1>3, <1>4, <1>5 DEF SdkInv

LEMMA ServeRowsInv ==
    ASSUME SdkInv, IInv', NEW r \in Reader, ServeRows(r)
    PROVE  SdkInv'
  <1> DEFINE found == {f \in DOMAIN reader[r].rows : stored[f].live}
  <1>1. /\ UNCHANGED <<stored, cache, writer, quiet, decided>> /\ reader[r].at = "missed"
        /\ call' = [c \in Call |->
                      IF call[c].by = {r} /\ reader'[r] = Resting THEN NoCall ELSE call[c]]
        /\ \A q \in Reader : q # r => reader'[q] = reader[q]
    BY DEF ServeRows, ReadRows, SdkInv, IInv, CacheTypeOK
  <1>2. \/ reader'[r] = Resting
        \/ reader'[r].at = "listed" /\ DOMAIN reader'[r].rows \subseteq DOMAIN reader[r].rows
    <2>1. CASE found = {}
      BY <2>1 DEF ServeRows, ReadRows, SdkInv, IInv, CacheTypeOK
    <2>2. CASE found # {}
      <3>1. reader' = [reader EXCEPT ![r].at = "listed",
                                     ![r].rows = [f \in found |-> stored[f].version]]
        BY <2>2 DEF ServeRows, ReadRows
      <3>. QED
        BY <3>1 DEF SdkInv, IInv, CacheTypeOK
    <2>. QED
      BY <2>1, <2>2
  <1>3. NoCall \in Called /\ NoCall.at = "idle" /\ NoCall.by = {}
    BY CacheAssumption, SdkAssumption DEF Called, NoCall, Version
  <1>4. SdkTypeOK' /\ NoFlagAges
    BY <1>1, <1>3 DEF SdkInv, SdkTypeOK, IInv, NoFlagAges
  <1>5. \A c \in Call :
          /\ call'[c] = call[c] \/ call'[c] = NoCall
          /\ call[c].by = {r} /\ reader'[r] = Resting => call'[c] = NoCall
    BY <1>1
  <1>6. Serving'
    <2> SUFFICES ASSUME NEW c \in Call, call'[c] # NoCall
                 PROVE  /\ call'[c].at = "sent" => \E f \in Flag : call'[c].flag = {f}
                        /\ \A q \in Reader : call'[c].by = {q} =>
                             /\ reader'[q].at # "idle"
                             /\ \A f \in DOMAIN reader'[q].rows : call'[c].flag = {f}
      BY <1>3 DEF Serving
    <2>1. call'[c] = call[c] /\ (call[c].by = {r} => reader'[r] # Resting)
      BY <1>5
    <2>. QED
      BY <1>1, <1>2, <2>1 DEF SdkInv, Serving
  <1>7. AnswerAge' /\ DecisionAge'
    BY <1>1, <1>3, <1>4, <1>5, AnswersStay, DecisionsStay
  <1>. QED
    BY <1>4, <1>6, <1>7 DEF SdkInv

LEMMA ServeChildrenInv ==
    ASSUME SdkInv, IInv', NEW r \in Reader, ServeChildren(r)
    PROVE  SdkInv'
  <1>1. UNCHANGED <<stored, cache, writer, quiet, call, decided>>
    BY DEF ServeChildren, ReadChildren
  <1>2. \A q \in Reader : /\ reader'[q].rows = reader[q].rows
                          /\ reader[q].at # "idle" => reader'[q].at # "idle"
    BY DEF ServeChildren, ReadChildren, SdkInv, IInv, CacheTypeOK
  <1>3. SdkTypeOK' /\ NoFlagAges
    BY <1>1 DEF SdkInv, SdkTypeOK, IInv, NoFlagAges
  <1>4. Serving'
    BY <1>1, <1>2 DEF SdkInv, Serving
  <1>5. AnswerAge' /\ DecisionAge'
    BY <1>1, <1>3, AnswersStay, DecisionsStay
  <1>. QED
    BY <1>3, <1>4, <1>5 DEF SdkInv

(* The reader's rows were current when it began to hold them, and it has   *)
(* not held them for longer than MaxHold.                                  *)
LEMMA ConcludeInv ==
    ASSUME SdkInv, IInv', NEW r \in Reader, NEW f \in DOMAIN reader[r].rows,
           reader[r].at = "loaded", Conclude(r, f),
           UNCHANGED <<stored, quiet, decided>>,
           \A q \in Reader : q # r => reader'[q] = reader[q]
    PROVE  SdkInv'
  <1>1. f \in Flag /\ reader[r].rows[f] \in Version /\ reader[r].held \in 0 .. MaxHold
    BY DEF SdkInv, IInv, CacheTypeOK, Numbers
  <1> DEFINE new(c) == Answer(c, reader[r].rows[f])
  <1>2. ASSUME NEW c \in Call
        PROVE  /\ call[c] \in Called /\ new(c) \in Called /\ new(c).at = "answered"
               /\ new(c).flag = call[c].flag /\ new(c).by = {}
               /\ new(c).version = reader[r].rows[f] /\ new(c).flight = call[c].flight
               /\ call[c].flight \in Nat
    <2>1. call[c] \in Called
      BY DEF SdkInv, SdkTypeOK
    <2>2. Answer(c, reader[r].rows[f]) \in Called
      BY <1>1, <2>1 DEF Called, Answer
    <2>3. call[c].flight \in Nat
      BY <2>1, SdkAssumption DEF Called
    <2>. QED
      BY <2>1, <2>2, <2>3 DEF Called, Answer
  <1>3. \A c \in Call : call'[c] = IF call[c].by = {r} THEN new(c) ELSE call[c]
    BY DEF Conclude
  <1>4. SdkTypeOK'
    <2>1. call' = [c \in Call |-> call'[c]]
      BY DEF Conclude
    <2>2. call' \in [Call -> Called]
      BY <1>2, <1>3, <2>1
    <2>. QED
      BY <2>2 DEF SdkInv, SdkTypeOK, IInv
  <1>5. Serving'
    BY <1>2, <1>3 DEF SdkInv, Serving
  <1>6. NoFlagAges
    BY DEF NoFlagAges
  <1>7. AnswerAge'
    <2> SUFFICES ASSUME NEW c \in Call, call'[c].at = "answered", NEW g \in call'[c].flag,
                        Superseded(g, call[c].version)'
                 PROVE  quiet[g] <= TTL + MaxHold + call'[c].flight
      BY DEF AnswerAge
    <2>1. CASE call[c].by = {r}
      <3>1. call[c].flag = {f} /\ g = f
        BY <1>2, <1>3, <2>1 DEF SdkInv, Serving
      <3>2. Superseded(f, reader[r].rows[f])
        BY <1>2, <1>3, <2>1, <3>1 DEF Superseded
      <3>3. quiet[f] <= reader[r].held /\ quiet[f] \in Nat
        BY <1>1, <3>2 DEF SdkInv, IInv, ReaderAge, Holding, CacheTypeOK
      <3>. QED
        BY <1>1, <1>2, <1>3, <2>1, <3>1, <3>3, CacheAssumption
    <2>2. CASE call[c].by # {r}
      BY <1>3, <2>2 DEF SdkInv, AnswerAge, Superseded
    <2>. QED
      BY <2>1, <2>2
  <1>8. DecisionAge'
    BY <1>6, DecisionsStay
  <1>. QED
    BY <1>4, <1>5, <1>7, <1>8 DEF SdkInv

LEMMA ServeFillInv ==
    ASSUME SdkInv, IInv', NEW r \in Reader,
           (\E f \in Flag : ServeFill(r, f)) \/ ServeFillFails(r)
    PROVE  SdkInv'
  <1>1. PICK f \in DOMAIN reader[r].rows : Conclude(r, f)
    BY DEF ServeFill, Fill, ServeFillFails, SdkInv, IInv, ReaderLabels
  <1>2. /\ reader[r].at = "loaded" /\ UNCHANGED <<stored, quiet, decided>>
        /\ \A q \in Reader : q # r => reader'[q] = reader[q]
    BY DEF ServeFill, Fill, ServeFillFails, FillFails, SdkInv, IInv, CacheTypeOK
  <1>. QED
    BY <1>1, <1>2, ConcludeInv

-----------------------------------------------------------------------------
LEMMA ManageInv ==
    ASSUME SdkInv, IInv', NEW w \in Writer, Manage(w)
    PROVE  SdkInv'
  <1>1. UNCHANGED <<reader, call, decided>>
    BY DEF Manage, CommitVersion, CommitArchive, Delete, Publish, InvalidationFails
  <1>2. SdkTypeOK' /\ Serving'
    BY <1>1 DEF SdkInv, SdkTypeOK, IInv, Serving
  <1>3. NoFlagAges
    <2>1. ASSUME NEW f \in Flag, CommitVersion(w, f) \/ CommitArchive(w, f)
          PROVE  NoFlagAges
      BY <2>1 DEF CommitVersion, CommitArchive, SdkInv, IInv, CacheTypeOK, NoFlagAges
    <2>2. CASE Delete(w) \/ Publish(w) \/ InvalidationFails(w)
      BY <2>2 DEF Delete, Publish, InvalidationFails, NoFlagAges
    <2>. QED
      BY <2>1, <2>2 DEF Manage
  <1>4. AnswerAge' /\ DecisionAge'
    BY <1>1, <1>3, AnswersStay, DecisionsStay
  <1>. QED
    BY <1>2, <1>4 DEF SdkInv

(* Answers, decisions and the time since a commit grow together.           *)
LEMMA SdkTickInv ==
    ASSUME SdkInv, IInv', SdkTick
    PROVE  SdkInv'
  <1>1. UNCHANGED <<stored, writer>>
    BY DEF SdkTick, Tick
  <1>2. \A f \in Flag : quiet[f] \in Nat /\ quiet'[f] \in Nat /\ quiet'[f] <= quiet[f] + 1
    BY DEF SdkTick, Tick, SdkInv, IInv, CacheTypeOK
  <1>3. \A r \in Reader : reader'[r].at = reader[r].at /\ reader'[r].rows = reader[r].rows
    <2> TAKE r \in Reader
    <2>1. reader[r] \in [at : {"idle", "missed", "listed", "loaded"},
                         held : 0 .. MaxHold, rows : Numbers, bodies : Numbers]
      BY DEF SdkInv, IInv, CacheTypeOK
    <2>2. reader'[r] \in {reader[r], [reader[r] EXCEPT !.held = @ + 1]}
      BY DEF SdkTick, Tick
    <2>. QED
      BY <2>1, <2>2
  <1>4. ASSUME NEW c \in Call
        PROVE  /\ call'[c] \in Called /\ call'[c].at = call[c].at /\ call'[c].by = call[c].by
               /\ call'[c].flag = call[c].flag /\ call'[c].version = call[c].version
               /\ call[c].at = "answered" =>
                    call'[c].flight = call[c].flight + 1 /\ call[c].flight \in Nat
    <2>1. call[c] \in Called
      BY DEF SdkInv, SdkTypeOK
    <2>2. CASE call[c].at = "idle"
      <3>1. call'[c] = call[c]
        BY <2>2 DEF SdkTick
      <3>. QED
        BY <2>1, <2>2, <3>1
    <2>3. CASE call[c].at # "idle"
      <3>1. call'[c] = [call[c] EXCEPT !.flight = @ + 1] /\ call[c].flight < MaxFlight
        BY <2>3 DEF SdkTick
      <3>2. call[c].flight + 1 \in 0 .. MaxFlight /\ call[c].flight \in Nat
        BY <2>1, <3>1, SdkAssumption DEF Called
      <3>. QED
        BY <2>1, <3>1, <3>2 DEF Called
    <2>. QED
      BY <2>2, <2>3
  <1>5. ASSUME NEW f \in DOMAIN decided
        PROVE  /\ f \in Flag /\ decided[f] \in Kept /\ decided'[f] \in Kept
               /\ decided'[f].version = decided[f].version
               /\ Usable(decided[f])' =>
                    Usable(decided[f]) /\ decided'[f].age = decided[f].age + 1
    <2>1. f \in Flag /\ decided[f] \in Kept
      BY DEF SdkInv, SdkTypeOK
    <2>2. CASE Usable(decided[f])
      <3>1. decided'[f] = [decided[f] EXCEPT !.age = @ + 1]
        BY <2>2 DEF SdkTick
      <3>2. decided[f].age + 1 \in 0 .. SdkTTL
        BY <2>1, <2>2, SdkAssumption DEF Kept, Usable
      <3>. QED
        BY <2>1, <2>2, <3>1, <3>2 DEF Kept
    <2>3. CASE ~Usable(decided[f])
      <3>1. decided'[f] = decided[f]
        BY <2>3 DEF SdkTick
      <3>. QED
        BY <2>1, <2>3, <3>1 DEF Usable
    <2>. QED
      BY <2>2, <2>3
  <1>6. DOMAIN decided' = DOMAIN decided
    BY DEF SdkTick
  <1>7. SdkTypeOK'
    <2>1. call' = [c \in Call |-> call'[c]] /\ decided' = [f \in DOMAIN decided |-> decided'[f]]
      BY DEF SdkTick
    <2>2. call' \in [Call -> Called]
      BY <1>4, <2>1
    <2>3. decided' \in [DOMAIN decided -> Kept] /\ DOMAIN decided \in SUBSET Flag
      BY <1>5, <2>1
    <2>. QED
      BY <2>2, <2>3 DEF SdkTypeOK, IInv
  <1>8. Serving'
    BY <1>3, <1>4 DEF SdkInv, Serving
  <1>9. AnswerAge'
    <2> SUFFICES ASSUME NEW c \in Call, call'[c].at = "answered", NEW f \in call'[c].flag,
                        Superseded(f, call[c].version)'
                 PROVE  quiet'[f] <= TTL + MaxHold + call'[c].flight
      BY DEF AnswerAge
    <2>1. quiet[f] <= TTL + MaxHold + call[c].flight
      BY <1>1, <1>4 DEF SdkInv, AnswerAge, Superseded
    <2>2. f \in Flag
      BY <1>4 DEF Called
    <2>. QED
      BY <1>2, <1>4, <2>1, <2>2, CacheAssumption
  <1>10. DecisionAge'
    <2> SUFFICES ASSUME NEW f \in DOMAIN decided, Usable(decided[f])',
                        Superseded(f, decided[f].version)'
                 PROVE  quiet'[f] <= TTL + MaxHold + MaxFlight + decided'[f].age
      BY <1>6 DEF DecisionAge
    <2>1. quiet[f] <= TTL + MaxHold + MaxFlight + decided[f].age
      BY <1>1, <1>5 DEF SdkInv, DecisionAge, Superseded
    <2>2. decided[f].age \in Nat
      BY <1>5, SdkAssumption DEF Kept
    <2>. QED
      BY <1>2, <1>5, <2>1, <2>2, CacheAssumption, SdkAssumption
  <1>. QED
    BY <1>7, <1>8, <1>9, <1>10 DEF SdkInv

-----------------------------------------------------------------------------
LEMMA SdkNextInv ==
    ASSUME SdkInv, [SdkNext]_sdkvars
    PROVE  SdkInv'
  <1>0. IInv'
    BY StepOfCache, NextInv DEF SdkInv
  <1>1. ASSUME NEW c \in Call, NEW f \in Flag, Send(c, f)
        PROVE  SdkInv'
    BY <1>0, <1>1, SendInv
  <1>2. ASSUME NEW c \in Call, NEW r \in Reader, ServeMiss(c, r)
        PROVE  SdkInv'
    BY <1>0, <1>2, ServeMissInv
  <1>3. ASSUME NEW c \in Call, ServeHit(c) \/ Receive(c) \/ CallFails(c)
        PROVE  SdkInv'
    BY <1>0, <1>3, ServeHitInv, ReceiveInv, CallFailsInv
  <1>4. ASSUME NEW r \in Reader, NEW wanted \in SUBSET Flag, ServeBatch(r, wanted)
        PROVE  SdkInv'
    BY <1>0, <1>4, ServeBatchInv
  <1>5. ASSUME NEW r \in Reader, ServeRows(r) \/ ServeChildren(r)
        PROVE  SdkInv'
    BY <1>0, <1>5, ServeRowsInv, ServeChildrenInv
  <1>6. ASSUME NEW r \in Reader, (\E f \in Flag : ServeFill(r, f)) \/ ServeFillFails(r)
        PROVE  SdkInv'
    BY <1>0, <1>6, ServeFillInv
  <1>7. CASE ClearCache
    BY <1>0, <1>7, ClearCacheInv
  <1>8. ASSUME NEW w \in Writer, Manage(w)
        PROVE  SdkInv'
    BY <1>0, <1>8, ManageInv
  <1>9. CASE SdkTick
    BY <1>0, <1>9, SdkTickInv
  <1>10. CASE UNCHANGED sdkvars
    <2>1. UNCHANGED <<stored, quiet, reader, call, decided>>
      BY <1>10 DEF sdkvars, cachevars
    <2>2. SdkTypeOK' /\ Serving' /\ NoFlagAges
      BY <1>0, <2>1 DEF SdkInv, SdkTypeOK, IInv, Serving, NoFlagAges
    <2>3. AnswerAge' /\ DecisionAge'
      BY <2>1, <2>2, AnswersStay, DecisionsStay
    <2>. QED
      BY <1>0, <2>2, <2>3 DEF SdkInv
  <1>. QED
    BY <1>1, <1>2, <1>3, <1>4, <1>5, <1>6, <1>7, <1>8, <1>9, <1>10 DEF SdkNext

(* The inductive invariant of the client and the cache below it.           *)
THEOREM SdkInvariance == SdkSpec => []SdkInv
  <1>1. SdkInit => SdkInv
    BY SdkInitInv
  <1>2. SdkInv /\ [SdkNext]_sdkvars => SdkInv'
    BY SdkNextInv
  <1>. QED
    BY <1>1, <1>2, PTL DEF SdkSpec

(* The server below the clients behaves as ConfigCache says, whatever the  *)
(* clients do: what is proved of CacheSpec holds under them.               *)
THEOREM ServesAsCache == SdkSpec => CacheSpec
  <1>1. SdkInit => CacheInit
    BY DEF SdkInit
  <1>2. SdkInv /\ [SdkNext]_sdkvars => [CacheNext]_cachevars
    BY StepOfCache DEF SdkInv
  <1>. QED
    BY <1>1, <1>2, SdkInvariance, PTL DEF SdkSpec, CacheSpec

(* Every variable of the client keeps its type (SdkTypeOK).                *)
THEOREM SdkTypeCorrect == SdkSpec => []SdkTypeOK
  <1>1. SdkInv => SdkTypeOK
    BY DEF SdkInv
  <1>. QED
    BY <1>1, SdkInvariance, PTL

(* A decision that CohortSwitchClient serves from its own cache was made   *)
(* obsolete less than a fill, a call and the two TTLs ago.                 *)
THEOREM DecisionsExpire == SdkSpec => []SdkStaleBounded
  <1>1. ASSUME SdkInv
        PROVE  SdkStaleBounded
    <2> SUFFICES ASSUME NEW f \in Flag, Served(f), Outdated(f)
                 PROVE  quiet[f] < TTL + MaxHold + MaxFlight + SdkTTL
      BY DEF SdkStaleBounded
    <2>1. quiet[f] <= TTL + MaxHold + MaxFlight + decided[f].age
      BY <1>1 DEF SdkInv, DecisionAge, Served, Outdated, Superseded
    <2>2. decided[f].age \in Nat /\ decided[f].age < SdkTTL /\ quiet[f] \in Nat
      BY <1>1, SdkAssumption DEF SdkInv, SdkTypeOK, Kept, Served, Usable, IInv, CacheTypeOK
    <2>. QED
      BY <2>1, <2>2, CacheAssumption, SdkAssumption
  <1>. QED
    BY <1>1, SdkInvariance, PTL
=============================================================================
