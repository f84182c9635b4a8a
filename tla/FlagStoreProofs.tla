--------------------------- MODULE FlagStoreProofs ---------------------------
(***************************************************************************)
(* Proofs about FlagStore, for every set of flags, environments, rules and *)
(* handlers and every bound.  The inductive invariant adds to the          *)
(* properties what a handler may rely on in each of its phases.            *)
(***************************************************************************)
EXTENDS FlagStore, Sequences, FiniteSetTheorems, TLAPS

Busy(h) == pc[h] # "idle"
Writer(h) == Busy(h) /\ job[h].op \in Writes

(* What handler h has, phase by phase.  A handler past the compare-and-    *)
(* swap holds the row lock, so the row cannot move under it; one that has  *)
(* committed is behind the row; a rollback carries a snapshot that exists. *)
HandlerOK(h) ==
    /\ pc[h] = "idle" => job[h] = None
    /\ Busy(h) => job[h] \in Job
    /\ Writer(h) => job[h].expected \in 1 .. (MaxVersion - 1)
    /\ pc[h] = "begun" => job[h].op \in {"update", "rollback", "archive"}
    /\ pc[h] = "loaded" => job[h].op \in {"addRule", "rollback", "archive"}
    /\ pc[h] = "written" => Writer(h) /\ job[h].expected = Current(job[h].flag)
    /\ pc[h] = "committed" /\ Writer(h) => job[h].expected < Current(job[h].flag)
    /\ pc[h] \in {"ready", "written"} /\ job[h].op = "rollback" =>
         /\ job[h].source \in DOMAIN versions[job[h].flag]
         /\ job[h].body = versions[job[h].flag][job[h].source].body
    /\ Busy(h) /\ job[h].op = "archive" => flag[job[h].flag] # "absent"

HandlersOK == \A h \in Handler : HandlerOK(h)

IInv ==
    /\ TypeOK
    /\ HandlersOK
    /\ LinearHistory
    /\ OneWinner
    /\ RollbackRestores

-----------------------------------------------------------------------------
(* Steps that read, refuse, lock or end: they move one handler and leave   *)
(* the rows alone.                                                         *)

(* A handler that moves without touching a row keeps the invariant when    *)
(* what it now holds fits its new phase and it did not pass the            *)
(* compare-and-swap.                                                       *)
LEMMA QuietStep ==
    ASSUME IInv, NEW h \in Handler, NEW phase \in Phase, NEW j \in Job \cup {None},
           Goto(h, phase, j), UNCHANGED Stored, HandlerOK(h)',
           phase \notin {"written", "committed"}
    PROVE  IInv'
<1> USE DEF IInv
<1>1. TypeOK'
  BY DEF TypeOK, Goto, Stored
<1>2. HandlersOK'
  <2>1. SUFFICES ASSUME NEW g \in Handler, g # h
                 PROVE  HandlerOK(g)'
    BY DEF HandlersOK
  <2>2. pc'[g] = pc[g] /\ job'[g] = job[g]
    BY <2>1 DEF TypeOK, Goto
  <2>3. HandlerOK(g)
    BY DEF HandlersOK
  <2> QED BY <2>2, <2>3 DEF HandlerOK, Busy, Writer, Current, Stored
<1>3. LinearHistory'
  BY DEF LinearHistory, Current, Stored
<1>4. OneWinner'
  BY DEF OneWinner, TypeOK, Goto
<1>5. RollbackRestores'
  BY DEF RollbackRestores, Stored
<1> QED BY <1>1, <1>2, <1>3, <1>4, <1>5
-----------------------------------------------------------------------------
(* An empty configuration is one, and a fresh request is a job.            *)
LEMMA NoBodyType == NoBody \in Content
BY DEF NoBody, Content

LEMMA RequestType ==
    ASSUME NEW op \in AllOps, NEW f \in Flag
    PROVE  /\ Request(op, f) \in Job
           /\ Request(op, f).op = op /\ Request(op, f).flag = f
<1>1. 0 \in Version
  BY StoreAssumption DEF Version, StoreAssumption
<1> QED BY <1>1, NoBodyType DEF Request, Job

(* The initial rows are a first version of every existing flag.            *)
LEMMA InitIInv == Init => IInv
<1> SUFFICES ASSUME Init
             PROVE  IInv
  OBVIOUS
<1> USE StoreAssumption DEF Init
<1>1. \A e \in Env : Cardinality({f \in Existing : HomeEnv[f] = e}) \in Nat
  <2> SUFFICES ASSUME NEW e \in Env
               PROVE  Cardinality({f \in Existing : HomeEnv[f] = e}) \in Nat
    OBVIOUS
  <2>1. IsFiniteSet({f \in Existing : HomeEnv[f] = e})
    BY FS_Subset DEF StoreAssumption
  <2> QED BY <2>1, FS_CardinalityType
<1>2. NoBody \in Content
  BY NoBodyType
<1>3. \A f \in Flag : DOMAIN versions[f] = 1 .. Current(f)
  <2> SUFFICES ASSUME NEW f \in Flag
               PROVE  DOMAIN versions[f] = 1 .. Current(f)
    OBVIOUS
  <2>1. CASE f \in Existing
    <3>1. DOMAIN versions[f] = {1} /\ Current(f) = 1
      BY <2>1 DEF Current
    <3> QED BY <3>1
  <2>2. CASE f \notin Existing
    <3>1. DOMAIN versions[f] = {} /\ Current(f) = 0
      BY <2>2 DEF Current
    <3> QED BY <3>1
  <2> QED BY <2>1, <2>2
<1>4. \A f \in Flag : \A v \in DOMAIN versions[f] :
        v = 1 /\ versions[f][v] = [body |-> NoBody, action |-> "create", source |-> 0]
  OBVIOUS
<1>5. TypeOK
  <2>1. \A f \in Flag : \A v \in DOMAIN versions[f] :
          v \in 1 .. MaxVersion /\ versions[f][v] \in Snapshot
    BY <1>2, <1>4 DEF StoreAssumption, Snapshot, AllOps, Version
  <2>2. config \in [Flag -> Config]
    BY <1>2 DEF StoreAssumption, Config, Version
  <2>3. flag \in [Flag -> {"absent", "live", "archived"}] /\ DOMAIN versions = Flag
    OBVIOUS
  <2>4. revision \in [Env -> Nat]
    BY <1>1
  <2>5. pc \in [Handler -> Phase] /\ job \in [Handler -> Job \cup {None}]
    BY DEF Phase
  <2>6. lastLive \in [Flag -> Version]
    BY DEF StoreAssumption, Version
  <2> QED BY <2>1, <2>2, <2>3, <2>4, <2>5, <2>6 DEF TypeOK
<1>6. HandlersOK
  BY DEF HandlersOK, HandlerOK, Busy, Writer
<1>7. LinearHistory
  BY <1>3, <1>4 DEF LinearHistory, Current
<1>8. OneWinner
  BY DEF OneWinner
<1>9. RollbackRestores
  BY <1>4 DEF RollbackRestores
<1> QED BY <1>5, <1>6, <1>7, <1>8, <1>9 DEF IInv

(* The commit of an update, an added rule or a rollback: the version after *)
(* the last is appended, and no other handler can have relied on its       *)
(* absence, because the row lock is held.                                  *)
LEMMA CommitWriteIInv ==
    ASSUME IInv, NEW h \in Handler, CommitWrite(h)
    PROVE  IInv'
<1> USE StoreAssumption DEF IInv
<1> DEFINE f == job[h].flag
           new == job[h].expected + 1
           row == [body |-> job[h].body, action |-> job[h].op, source |-> job[h].source]
<1>1. /\ pc[h] = "written" /\ Writer(h) /\ HandlerOK(h)
      /\ job[h] \in Job /\ f \in Flag /\ job[h].op \in Writes
      /\ Current(f) = job[h].expected /\ job[h].expected \in Nat /\ new \in 1 .. MaxVersion /\ new - 1 \in 1 .. MaxVersion
  BY DEF CommitWrite, HandlersOK, HandlerOK, Busy, Writer, Job, StoreAssumption
<1>2. /\ pc' = [pc EXCEPT ![h] = "committed"] /\ job' = job
      /\ config' = [config EXCEPT ![f] = [version |-> new, body |-> job[h].body]]
      /\ versions' = [versions EXCEPT ![f] = WithRow(versions[f], new, row)]
      /\ revision' = [revision EXCEPT ![HomeEnv[f]] = @ + 1]
      /\ flag' = flag /\ lastLive' = lastLive
  BY DEF CommitWrite, Goto, TypeOK
<1>3. /\ Current(f)' = new
      /\ \A g \in Flag : g # f => Current(g)' = Current(g) /\ versions'[g] = versions[g]
                                  /\ config'[g] = config[g]
  BY <1>1, <1>2 DEF Current, TypeOK
<1>3a. /\ DOMAIN versions'[f] = DOMAIN versions[f] \cup {new}
      /\ versions'[f][new] = row
      /\ \A v \in DOMAIN versions[f] : v # new => versions'[f][v] = versions[f][v]
  <2>1. versions'[f] = WithRow(versions[f], new, row)
    BY <1>1, <1>2 DEF TypeOK
  <2> HIDE DEF row, new, f
  <2> QED BY <2>1 DEF WithRow
<1>4. DOMAIN versions[f] = 1 .. (new - 1) /\ DOMAIN versions'[f] = 1 .. new
  <2>1. new \in Nat /\ new >= 1 /\ Current(f) = new - 1
    BY <1>1 DEF StoreAssumption
  <2>2. DOMAIN versions[f] = 1 .. Current(f)
    BY <1>1 DEF LinearHistory
  <2> HIDE DEF new
  <2> QED BY <1>3a, <2>1, <2>2
<1>5. /\ versions'[f][new] = row
      /\ \A v \in DOMAIN versions[f] : versions'[f][v] = versions[f][v]
  <2>1. new \notin DOMAIN versions[f]
    BY DEF CommitWrite
  <2> QED BY <1>3a, <2>1
<1>6. row \in Snapshot
  BY <1>1 DEF Snapshot, Job
<1>7. TypeOK'
  <2>1. \A g \in Flag : \A v \in DOMAIN versions'[g] :
          v \in 1 .. MaxVersion /\ versions'[g][v] \in Snapshot
    <3> SUFFICES ASSUME NEW g \in Flag, NEW v \in DOMAIN versions'[g]
                 PROVE  v \in 1 .. MaxVersion /\ versions'[g][v] \in Snapshot
      OBVIOUS
    <3>1. CASE g # f
      BY <1>3, <3>1 DEF TypeOK
    <3>2. CASE g = f /\ v = new
      BY <1>1, <1>5, <1>6, <3>2
    <3>3. CASE g = f /\ v # new
      <4>1. v \in DOMAIN versions[f]
        BY <1>3a, <3>3
      <4> QED BY <1>1, <1>5, <3>3, <4>1 DEF TypeOK
    <3> QED BY <3>1, <3>2, <3>3
  <2>2. config' \in [Flag -> Config]
    BY <1>1, <1>2 DEF TypeOK, Config, Job, Version
  <2>3. revision' \in [Env -> Nat]
    BY <1>1, <1>2 DEF TypeOK, StoreAssumption
  <2>4. DOMAIN versions' = Flag
    BY <1>2 DEF TypeOK
  <2>5. pc' \in [Handler -> Phase]
    BY <1>2 DEF TypeOK, Phase
  <2> QED BY <1>2, <2>1, <2>2, <2>3, <2>4, <2>5 DEF TypeOK
<1>8. HandlersOK'
  <2> SUFFICES ASSUME NEW g \in Handler
               PROVE  HandlerOK(g)'
    BY DEF HandlersOK
  <2>1. HandlerOK(g)
    BY DEF HandlersOK
  <2>2. CASE g = h
    BY <1>1, <1>2, <1>3, <2>1, <2>2 DEF HandlerOK, Busy, Writer, TypeOK
  <2>3. CASE g # h
    <3>1. pc'[g] = pc[g]
      BY <1>2, <2>3 DEF TypeOK
    <3>2. CASE Busy(g) /\ job[g].flag = f
      <4>1. pc[g] # "written"
        BY <1>1, <2>1, <2>3, <3>2 DEF OneWinner, HandlerOK, Writer
      <4>2. pc[g] = "committed" /\ Writer(g) => job[g].expected < Current(f)'
        BY <1>1, <1>3, <2>1, <3>2 DEF HandlerOK
      <4>3. pc[g] = "ready" /\ job[g].op = "rollback" =>
              /\ job[g].source \in DOMAIN versions'[f]
              /\ job[g].body = versions'[f][job[g].source].body
        BY <1>3a, <1>5, <2>1, <3>2 DEF HandlerOK
      <4> QED BY <1>2, <2>1, <3>1, <3>2, <4>1, <4>2, <4>3 DEF HandlerOK, Busy, Writer
    <3>3. CASE Busy(g) /\ job[g].flag # f
      <4>1. job[g].flag \in Flag
        BY <2>1, <3>3 DEF HandlerOK, Job
      <4>2. Current(job[g].flag)' = Current(job[g].flag)
            /\ versions'[job[g].flag] = versions[job[g].flag]
        BY <1>2, <1>3, <3>3, <4>1 DEF Current
      <4> QED BY <1>2, <2>1, <3>1, <4>2 DEF HandlerOK, Busy, Writer, Current
    <3>4. CASE ~Busy(g)
      BY <1>2, <2>1, <3>1, <3>4 DEF HandlerOK, Busy, Writer
    <3> QED BY <3>2, <3>3, <3>4
  <2> QED BY <2>2, <2>3
<1>9. LinearHistory'
  <2> SUFFICES ASSUME NEW g \in Flag
               PROVE  /\ DOMAIN versions'[g] = 1 .. Current(g)'
                      /\ flag'[g] = "absent" <=> Current(g)' = 0
                      /\ Current(g)' > 0 => versions'[g][Current(g)'].body = config'[g].body
    BY DEF LinearHistory
  <2>1. CASE g = f
    <3>1. flag[f] # "absent"
      BY <1>1 DEF LinearHistory
    <3>2. config'[f].body = job[h].body
      BY <1>1, <1>2 DEF TypeOK
    <3> QED BY <1>1, <1>2, <1>3, <1>4, <1>5, <2>1, <3>1, <3>2
  <2>2. CASE g # f
    BY <1>2, <1>3, <2>2 DEF LinearHistory
  <2> QED BY <2>1, <2>2
<1>10. OneWinner'
  BY <1>1, <1>2 DEF OneWinner, TypeOK
<1>11. RollbackRestores'
  <2> SUFFICES ASSUME NEW g \in Flag, NEW v \in DOMAIN versions'[g],
                      versions'[g][v].action = "rollback"
               PROVE  /\ versions'[g][v].source \in 1 .. (v - 1)
                      /\ versions'[g][versions'[g][v].source].body = versions'[g][v].body
    BY DEF RollbackRestores
  <2>1. CASE g # f
    BY <1>3, <2>1 DEF RollbackRestores
  <2>2. CASE g = f /\ v = new
    <3>1. job[h].op = "rollback"
      BY <1>5, <2>2
    <3>2. job[h].source \in DOMAIN versions[f] /\ job[h].body = versions[f][job[h].source].body
      BY <1>1, <3>1 DEF HandlerOK
    <3> QED BY <1>4, <1>5, <2>2, <3>2, SMTT(30)
  <2>3. CASE g = f /\ v # new
    <3>1. v \in DOMAIN versions[f] /\ versions'[f][v] = versions[f][v]
      BY <1>1, <1>4, <1>5, <2>3
    <3>2. /\ versions[f][v].source \in 1 .. (v - 1)
          /\ versions[f][versions[f][v].source].body = versions[f][v].body
      BY <2>3, <3>1 DEF RollbackRestores
    <3>3. versions[f][v].source \in DOMAIN versions[f]
      <4>1. new \in Int
        BY <1>1
      <4> HIDE DEF new, f
      <4> QED BY <1>4, <3>1, <3>2, <4>1
    <3> QED BY <1>5, <2>3, <3>1, <3>2, <3>3
  <2> QED BY <2>1, <2>2, <2>3
<1> QED BY <1>7, <1>8, <1>9, <1>10, <1>11

(* The commit of a create: the flag had no version, so no other handler    *)
(* can be writing it.                                                      *)
LEMMA CommitCreateIInv ==
    ASSUME IInv, NEW h \in Handler, CommitCreate(h)
    PROVE  IInv'
<1> USE StoreAssumption DEF IInv
<1> DEFINE f == job[h].flag
           row == [body |-> job[h].body, action |-> "create", source |-> 0]
<1>1. /\ pc[h] = "ready" /\ job[h] \in Job /\ job[h].op = "create" /\ f \in Flag
      /\ job[h].prev + 1 \in Nat /\ ~Writer(h)
  BY DEF CommitCreate, HandlersOK, HandlerOK, Busy, Job, Writer, Writes
<1>2. /\ pc' = [pc EXCEPT ![h] = "committed"] /\ job' = job
      /\ config' = [config EXCEPT ![f] = [version |-> 1, body |-> job[h].body]]
      /\ versions' = [versions EXCEPT ![f] = WithRow(versions[f], 1, row)]
      /\ revision' = [revision EXCEPT ![HomeEnv[f]] = job[h].prev + 1]
      /\ flag' = [flag EXCEPT ![f] = "live"] /\ lastLive' = lastLive
      /\ flag[f] = "absent"
  BY DEF CommitCreate, Goto, TypeOK
<1>3. /\ Current(f) = 0 /\ Current(f)' = 1
      /\ \A g \in Flag : g # f => Current(g)' = Current(g) /\ versions'[g] = versions[g]
                                  /\ config'[g] = config[g] /\ flag'[g] = flag[g]
  BY <1>1, <1>2 DEF Current, TypeOK, LinearHistory
<1>4. DOMAIN versions[f] = {} /\ DOMAIN versions'[f] = {1} /\ versions'[f][1] = row
  <2>1. DOMAIN versions[f] = 1 .. 0
    BY <1>1, <1>3 DEF LinearHistory
  <2>2. versions'[f] = WithRow(versions[f], 1, row)
    BY <1>1, <1>2 DEF TypeOK
  <2>3. DOMAIN versions'[f] = DOMAIN versions[f] \cup {1} /\ versions'[f][1] = row
    <3> HIDE DEF row, f
    <3> QED BY <2>2 DEF WithRow
  <2> QED BY <2>1, <2>3
<1>5. row \in Snapshot
  <2>1. 0 \in Version
    BY DEF Version, StoreAssumption
  <2> QED BY <1>1, <2>1 DEF Snapshot, Job, AllOps
<1>6. TypeOK'
  <2>1. \A g \in Flag : \A v \in DOMAIN versions'[g] :
          v \in 1 .. MaxVersion /\ versions'[g][v] \in Snapshot
    BY <1>3, <1>4, <1>5 DEF TypeOK, StoreAssumption
  <2>2. config' \in [Flag -> Config]
    BY <1>1, <1>2 DEF TypeOK, Config, Job, Version, StoreAssumption
  <2>3. revision' \in [Env -> Nat]
    BY <1>1, <1>2 DEF TypeOK
  <2>4. DOMAIN versions' = Flag
    BY <1>2 DEF TypeOK
  <2>5. pc' \in [Handler -> Phase]
    BY <1>2 DEF TypeOK, Phase
  <2>6. flag' \in [Flag -> {"absent", "live", "archived"}]
    BY <1>2 DEF TypeOK
  <2> QED BY <1>2, <2>1, <2>2, <2>3, <2>4, <2>5, <2>6 DEF TypeOK
<1>7. HandlersOK'
  <2> SUFFICES ASSUME NEW g \in Handler
               PROVE  HandlerOK(g)'
    BY DEF HandlersOK
  <2>1. HandlerOK(g)
    BY DEF HandlersOK
  <2>2. CASE g = h
    BY <1>1, <1>2, <2>1, <2>2 DEF HandlerOK, Busy, Writer, TypeOK
  <2>3. CASE g # h
    <3>1. pc'[g] = pc[g]
      BY <1>2, <2>3 DEF TypeOK
    <3>2. CASE Busy(g) /\ job[g].flag = f
      <4>1. pc[g] # "written" /\ (pc[g] = "committed" => ~Writer(g))
        BY <1>3, <2>1, <3>2 DEF HandlerOK, StoreAssumption
      <4>2. ~(pc[g] = "ready" /\ job[g].op = "rollback")
        BY <1>4, <2>1, <3>2 DEF HandlerOK
      <4>3. job[g].op # "archive"
        BY <1>2, <2>1, <3>2 DEF HandlerOK
      <4> QED BY <1>2, <2>1, <3>1, <3>2, <4>1, <4>2, <4>3 DEF HandlerOK, Busy, Writer
    <3>3. CASE Busy(g) /\ job[g].flag # f
      <4>1. job[g].flag \in Flag
        BY <2>1, <3>3 DEF HandlerOK, Job
      <4>2. Current(job[g].flag)' = Current(job[g].flag)
            /\ versions'[job[g].flag] = versions[job[g].flag]
            /\ flag'[job[g].flag] = flag[job[g].flag]
        BY <1>2, <1>3, <3>3, <4>1 DEF Current
      <4> QED BY <1>2, <2>1, <3>1, <4>2 DEF HandlerOK, Busy, Writer, Current
    <3>4. CASE ~Busy(g)
      BY <1>2, <2>1, <3>1, <3>4 DEF HandlerOK, Busy, Writer
    <3> QED BY <3>2, <3>3, <3>4
  <2> QED BY <2>2, <2>3
<1>8. LinearHistory'
  <2> SUFFICES ASSUME NEW g \in Flag
               PROVE  /\ DOMAIN versions'[g] = 1 .. Current(g)'
                      /\ flag'[g] = "absent" <=> Current(g)' = 0
                      /\ Current(g)' > 0 => versions'[g][Current(g)'].body = config'[g].body
    BY DEF LinearHistory
  <2>1. CASE g = f
    <3>1. config'[f].body = job[h].body /\ flag'[f] = "live"
      BY <1>1, <1>2 DEF TypeOK
    <3>2. versions'[f][1].body = job[h].body
      BY <1>4
    <3>3. DOMAIN versions'[f] = 1 .. 1
      BY <1>4
    <3>4. Current(g)' = 1
      BY <1>1, <1>2, <2>1 DEF Current, TypeOK
    <3> HIDE DEF f
    <3> QED BY <2>1, <3>1, <3>2, <3>3, <3>4
  <2>2. CASE g # f
    BY <1>3, <2>2 DEF LinearHistory
  <2> QED BY <2>1, <2>2
<1>9. OneWinner'
  BY <1>1, <1>2 DEF OneWinner, TypeOK, Writes
<1>10. RollbackRestores'
  BY <1>3, <1>4 DEF RollbackRestores
<1> QED BY <1>6, <1>7, <1>8, <1>9, <1>10

(* The commit of an archive moves the flag row and the revision only.      *)
LEMMA CommitArchiveIInv ==
    ASSUME IInv, NEW h \in Handler, CommitArchive(h)
    PROVE  IInv'
<1> USE StoreAssumption DEF IInv
<1> DEFINE f == job[h].flag
<1>1. /\ pc[h] = "ready" /\ job[h] \in Job /\ job[h].op = "archive" /\ f \in Flag
      /\ job[h].prev + 1 \in Nat /\ flag[f] # "absent" /\ ~Writer(h)
  BY DEF CommitArchive, HandlersOK, HandlerOK, Busy, Job, Writer, Writes
<1>2. /\ pc' = [pc EXCEPT ![h] = "committed"] /\ job' = job
      /\ config' = config /\ versions' = versions
      /\ revision' = [revision EXCEPT ![HomeEnv[f]] = job[h].prev + 1]
      /\ flag' = [flag EXCEPT ![f] = "archived"]
      /\ lastLive' = [lastLive EXCEPT ![f] = IF flag[f] = "live" THEN Current(f)
                                                                 ELSE lastLive[f]]
  BY DEF CommitArchive, Goto, TypeOK
<1>3. \A g \in Flag : flag'[g] = "absent" <=> flag[g] = "absent"
  BY <1>1, <1>2 DEF TypeOK
<1>4. TypeOK'
  <2>1. revision' \in [Env -> Nat]
    BY <1>1, <1>2 DEF TypeOK
  <2>2. flag' \in [Flag -> {"absent", "live", "archived"}]
    BY <1>2 DEF TypeOK
  <2>3. lastLive' \in [Flag -> Version]
    BY <1>1, <1>2 DEF TypeOK, Current, Config
  <2>4. pc' \in [Handler -> Phase]
    BY <1>2 DEF TypeOK, Phase
  <2> QED BY <1>2, <2>1, <2>2, <2>3, <2>4 DEF TypeOK
<1>5. HandlersOK'
  <2> SUFFICES ASSUME NEW g \in Handler
               PROVE  HandlerOK(g)'
    BY DEF HandlersOK
  <2>1. HandlerOK(g)
    BY DEF HandlersOK
  <2>2. CASE g = h
    BY <1>1, <1>2, <1>3, <2>1, <2>2 DEF HandlerOK, Busy, Writer, TypeOK
  <2>3. CASE g # h
    <3>1. pc'[g] = pc[g]
      BY <1>2, <2>3 DEF TypeOK
    <3>2. Busy(g) => job[g].flag \in Flag
      BY <2>1 DEF HandlerOK, Job
    <3> QED BY <1>2, <1>3, <2>1, <3>1, <3>2 DEF HandlerOK, Busy, Writer, Current
  <2> QED BY <2>2, <2>3
<1>6. LinearHistory'
  BY <1>2, <1>3 DEF LinearHistory, Current
<1>7. OneWinner'
  BY <1>1, <1>2 DEF OneWinner, TypeOK, Writes
<1>8. RollbackRestores'
  BY <1>2 DEF RollbackRestores
<1> QED BY <1>4, <1>5, <1>6, <1>7, <1>8

(* A step keeps the invariant.                                             *)
LEMMA NextIInv == IInv /\ [Next]_vars => IInv'
<1> SUFFICES ASSUME IInv, [Next]_vars
             PROVE  IInv'
  OBVIOUS
<1> USE StoreAssumption
<1>0. CASE UNCHANGED vars
  BY <1>0 DEF IInv, vars, TypeOK, HandlersOK, HandlerOK, Busy, Writer, Current,
              LinearHistory, OneWinner, RollbackRestores
<1>1. ASSUME NEW h \in Handler, Step(h)
      PROVE  IInv'
  <2> USE DEF IInv
  <2>0. HandlerOK(h) /\ pc[h] \in Phase
    BY DEF HandlersOK, TypeOK
  <2>1. CASE Begin(h)
    <3>1. PICK f \in Flag :
            \/ \E op \in Ops, v \in Version : BeginWrite(h, op, f, v)
            \/ \E v \in Version : BeginAddRule(h, f, v)
            \/ BeginArchive(h, f)
            \/ BeginCreate(h, f)
      BY <2>1 DEF Begin
    <3>2. \A op \in AllOps : /\ Request(op, f) \in Job
                            /\ Request(op, f).op = op /\ Request(op, f).flag = f
      BY RequestType
    <3>0. AllOps = {"update", "addRule", "rollback", "create", "archive"}
      BY DEF AllOps, Writes
    <3>3. CASE \E op \in Ops, v \in Version : BeginWrite(h, op, f, v)
      <4>1. PICK op \in Ops, v \in Version : BeginWrite(h, op, f, v)
        BY <3>3
      <4> DEFINE j == [Request(op, f) EXCEPT !.expected = v]
      <4>2. j \in Job /\ j.op = op /\ j.expected = v /\ j.flag = f
        BY <3>2, <3>0, <4>1 DEF BeginWrite, Job
      <4>3. HandlerOK(h)'
        BY <4>1, <4>2 DEF BeginWrite, Goto, TypeOK, HandlerOK, Busy, Writer, Expectation,
                          Version, StoreAssumption
      <4> QED BY <4>1, <4>2, <4>3, QuietStep DEF BeginWrite, Phase
    <3>4. CASE \E v \in Version : BeginAddRule(h, f, v)
      <4>1. PICK v \in Version : BeginAddRule(h, f, v)
        BY <3>4
      <4> DEFINE j == [Request("addRule", f) EXCEPT
                         !.expected = v,
                         !.body = [enabled |-> config[f].body.enabled, rules |-> {}],
                         !.prev = revision[HomeEnv[f]]]
      <4>2. j \in Job /\ j.op = "addRule" /\ j.expected = v
        <5>1. revision[HomeEnv[f]] \in Nat
          BY DEF TypeOK, StoreAssumption
        <5>2. [enabled |-> config[f].body.enabled, rules |-> {}] \in Content
          BY DEF TypeOK, Config, Content
        <5> QED BY <3>2, <3>0, <5>1, <5>2 DEF Job
      <4>3. HandlerOK(h)'
        BY <4>1, <4>2 DEF BeginAddRule, Goto, TypeOK, HandlerOK, Busy, Writer, Expectation,
                          Version, StoreAssumption
      <4> QED BY <4>1, <4>2, <4>3, QuietStep DEF BeginAddRule, Phase
    <3>5. CASE BeginArchive(h, f)
      <4>1. HandlerOK(h)'
        BY <3>2, <3>0, <3>5 DEF BeginArchive, Goto, TypeOK, HandlerOK, Busy, Writer, Writes,
                                Stored
      <4> QED BY <3>2, <3>0, <3>5, <4>1, QuietStep DEF BeginArchive, Phase
    <3>6. CASE BeginCreate(h, f)
      <4>1. PICK c \in Content :
              Goto(h, "ready", [Request("create", f) EXCEPT
                                  !.body = c, !.prev = revision[HomeEnv[f]]])
        BY <3>6 DEF BeginCreate
      <4> DEFINE j == [Request("create", f) EXCEPT !.body = c, !.prev = revision[HomeEnv[f]]]
      <4>2. j \in Job /\ j.op = "create"
        <5>1. revision[HomeEnv[f]] \in Nat
          BY DEF TypeOK, StoreAssumption
        <5> QED BY <3>2, <3>0, <5>1 DEF Job
      <4>3. HandlerOK(h)'
        BY <4>1, <4>2 DEF Goto, TypeOK, HandlerOK, Busy, Writer, Writes
      <4> QED BY <3>6, <4>1, <4>2, <4>3, QuietStep DEF BeginCreate, Phase
    <3> QED BY <3>1, <3>3, <3>4, <3>5, <3>6
  <2>2. CASE ReadConfigRow(h)
    <3> DEFINE j == [job[h] EXCEPT !.expected = Current(job[h].flag)]
    <3>1. j \in Job /\ j.op = "archive" /\ j.flag = job[h].flag
      BY <2>0, <2>2 DEF ReadConfigRow, HandlerOK, Busy, Job, Current, TypeOK, Config
    <3>2. HandlerOK(h)'
      BY <2>0, <2>2, <3>1 DEF ReadConfigRow, Goto, TypeOK, HandlerOK, Busy, Writer, Writes,
                              Stored
    <3> QED BY <2>2, <3>1, <3>2, QuietStep DEF ReadConfigRow, Phase
  <2>3. CASE ReadEnvironment(h)
    <3>1. PICK c \in IF job[h].op = "update" THEN Content ELSE {NoBody} :
            Goto(h, IF job[h].op = "rollback" THEN "loaded" ELSE "ready",
                 [job[h] EXCEPT !.prev = revision[HomeEnv[job[h].flag]], !.body = c])
      BY <2>3 DEF ReadEnvironment
    <3> DEFINE j == [job[h] EXCEPT !.prev = revision[HomeEnv[job[h].flag]], !.body = c]
               phase == IF job[h].op = "rollback" THEN "loaded" ELSE "ready"
    <3>2. c \in Content
      BY NoBodyType
    <3>3. /\ j \in Job /\ j.op = job[h].op /\ j.flag = job[h].flag
          /\ j.expected = job[h].expected
      BY <2>0, <2>3, <3>2 DEF ReadEnvironment, HandlerOK, Busy, Job, TypeOK, StoreAssumption
    <3>4. HandlerOK(h)'
      BY <2>0, <2>3, <3>1, <3>3 DEF ReadEnvironment, Goto, TypeOK, HandlerOK, Busy, Writer,
                                    Writes, Stored
    <3> QED BY <2>3, <3>1, <3>3, <3>4, QuietStep DEF ReadEnvironment, Phase
  <2>4. CASE ReadChildren(h)
    <3>1. PICK r \in Rule \ config[job[h].flag].body.rules :
            Goto(h, "ready", [job[h] EXCEPT
                                !.body.rules = config[job[h].flag].body.rules \cup {r}])
      BY <2>4 DEF ReadChildren
    <3> DEFINE j == [job[h] EXCEPT !.body.rules = config[job[h].flag].body.rules \cup {r}]
    <3>2. /\ j \in Job /\ j.op = "addRule" /\ j.expected = job[h].expected
      BY <2>0, <2>4 DEF ReadChildren, HandlerOK, Busy, Job, TypeOK, Config, Content
    <3>3. HandlerOK(h)'
      BY <2>0, <2>4, <3>1, <3>2 DEF ReadChildren, Goto, TypeOK, HandlerOK, Busy, Writer,
                                    Writes
    <3> QED BY <2>4, <3>1, <3>2, <3>3, QuietStep DEF ReadChildren, Phase
  <2>5. CASE ReadSnapshot(h)
    <3>1. PICK v \in DOMAIN versions[job[h].flag] :
            Goto(h, "ready", [job[h] EXCEPT
                                !.body = versions[job[h].flag][v].body, !.source = v])
      BY <2>5 DEF ReadSnapshot
    <3> DEFINE j == [job[h] EXCEPT !.body = versions[job[h].flag][v].body, !.source = v]
    <3>2. v \in Version /\ versions[job[h].flag][v].body \in Content
      BY <2>0, <2>5 DEF ReadSnapshot, HandlerOK, Busy, Job, TypeOK, Snapshot, Version,
                        StoreAssumption
    <3>3. /\ j \in Job /\ j.op = "rollback" /\ j.expected = job[h].expected
          /\ j.flag = job[h].flag /\ j.source = v
          /\ j.body = versions[job[h].flag][v].body
      BY <2>0, <2>5, <3>2 DEF ReadSnapshot, HandlerOK, Busy, Job
    <3>4. HandlerOK(h)'
      BY <2>0, <2>5, <3>1, <3>3 DEF ReadSnapshot, Goto, TypeOK, HandlerOK, Busy, Writer,
                                    Writes, Stored
    <3> QED BY <2>5, <3>1, <3>3, <3>4, QuietStep DEF ReadSnapshot, Phase
  <2>6. CASE CompareAndSwap(h)
    <3>1. \A g \in Handler : g # h => pc'[g] = pc[g]
      BY <2>6 DEF CompareAndSwap, Goto, TypeOK
    <3>2. job' = job /\ pc'[h] = "written" /\ pc[h] = "ready" /\ Writer(h)
      BY <2>6 DEF CompareAndSwap, Goto, TypeOK, Writer, Busy
    <3>3. TypeOK'
      BY <2>6, <3>2 DEF CompareAndSwap, Goto, TypeOK, Stored, Phase
    <3>4. HandlersOK'
      <4> SUFFICES ASSUME NEW g \in Handler
                   PROVE  HandlerOK(g)'
        BY DEF HandlersOK
      <4>1. HandlerOK(g)
        BY DEF HandlersOK
      <4> QED BY <2>6, <3>1, <3>2, <4>1
              DEF CompareAndSwap, HandlerOK, Busy, Writer, Current, Stored
    <3>5. OneWinner'
      <4> SUFFICES ASSUME NEW g \in Handler, g # h, pc[g] \in {"written", "committed"},
                          job[g].op \in Writes, job[g].flag = job[h].flag
                   PROVE  job[g].expected # job[h].expected
        BY <3>1, <3>2 DEF OneWinner
      <4>1. pc[g] # "written"
        BY <2>6 DEF CompareAndSwap, RowFree
      <4>2. job[g].expected < Current(job[g].flag)
        BY <4>1 DEF HandlersOK, HandlerOK, Writer, Busy
      <4>3. job[g].expected \in Int
        BY DEF HandlersOK, HandlerOK, Writer, Busy, StoreAssumption
      <4> QED BY <2>6, <4>2, <4>3 DEF CompareAndSwap
    <3>6. LinearHistory' /\ RollbackRestores'
      BY <2>6 DEF CompareAndSwap, LinearHistory, RollbackRestores, Current, Stored
    <3> QED BY <3>3, <3>4, <3>5, <3>6
  <2>7. CASE CommitWrite(h)
    BY <2>7, CommitWriteIInv
  <2>8. CASE CommitCreate(h)
    BY <2>8, CommitCreateIInv
  <2>9. CASE CommitArchive(h)
    BY <2>9, CommitArchiveIInv
  <2>10. CASE Conflict(h) \/ DuplicateKey(h) \/ Notify(h) \/ Fail(h)
    <3>1. Goto(h, "idle", None) /\ UNCHANGED Stored
      BY <2>10 DEF Conflict, DuplicateKey, Notify, Fail
    <3>2. HandlerOK(h)'
      BY <3>1 DEF Goto, TypeOK, HandlerOK, Busy, Writer
    <3> QED BY <3>1, <3>2, QuietStep DEF Phase
  <2> QED
    BY <1>1, <2>1, <2>2, <2>3, <2>4, <2>5, <2>6, <2>7, <2>8, <2>9, <2>10 DEF Step
<1> QED BY <1>0, <1>1 DEF Next
-----------------------------------------------------------------------------
(* The invariant holds of every behaviour.                                 *)
THEOREM Invariance == Spec => []IInv
<1> QED BY InitIInv, NextIInv, PTL DEF Spec

(* Every variable keeps its type.                                          *)
THEOREM TypeCorrect == Spec => []TypeOK
BY Invariance, PTL DEF IInv

(* The versions of a flag are 1 .. current_version, without gap or fork,   *)
(* and the last one is what the config row and its children hold.          *)
THEOREM HistoryIsLinear == Spec => []LinearHistory
BY Invariance, PTL DEF IInv

(* One writer at most wins each expected version.                          *)
THEOREM WinnerIsUnique == Spec => []OneWinner
BY Invariance, PTL DEF IInv

(* A rollback version equals the earlier version it names as its source.   *)
THEOREM RollbackIsExact == Spec => []RollbackRestores
BY Invariance, PTL DEF IInv

(* What a step does to the rows: nothing, one more version of one flag, or *)
(* the archive mark.                                                       *)
LEMMA StepCases ==
    ASSUME IInv, Next
    PROVE  \/ UNCHANGED <<flag, config, versions>>
           \/ \E h \in Handler : CommitWrite(h) \/ CommitCreate(h) \/ CommitArchive(h)
<1>1. PICK h \in Handler : Step(h)
  BY DEF Next
<1>2. CASE Begin(h)
  BY <1>2 DEF Begin, BeginWrite, BeginAddRule, BeginArchive, BeginCreate, Stored
<1>3. CASE ReadConfigRow(h) \/ ReadEnvironment(h) \/ ReadChildren(h) \/ ReadSnapshot(h)
  BY <1>3 DEF ReadConfigRow, ReadEnvironment, ReadChildren, ReadSnapshot, Stored
<1>4. CASE CompareAndSwap(h) \/ Conflict(h) \/ DuplicateKey(h) \/ Notify(h) \/ Fail(h)
  BY <1>4 DEF CompareAndSwap, Conflict, DuplicateKey, Notify, Fail, Stored
<1> QED BY <1>1, <1>2, <1>3, <1>4 DEF Step

(* A new version lands on a number that was free.                          *)
LEMMA NewRow ==
    ASSUME IInv, NEW h \in Handler, CommitWrite(h) \/ CommitCreate(h)
    PROVE  \E f \in Flag, row \in Snapshot :
             /\ f = job[h].flag
             /\ Current(f) + 1 \notin DOMAIN versions[f]
             /\ config' = [config EXCEPT ![f] =
                             [version |-> Current(f) + 1, body |-> row.body]]
             /\ versions' = [versions EXCEPT ![f] = WithRow(versions[f], Current(f) + 1, row)]
<1> USE StoreAssumption DEF IInv
<1>1. /\ HandlerOK(h) /\ pc[h] # "idle" /\ job[h] \in Job /\ job[h].flag \in Flag
      /\ job[h].source \in Version /\ 0 \in Version
  BY DEF HandlersOK, HandlerOK, Busy, CommitWrite, CommitCreate, Job, Version, StoreAssumption
<1>2. CASE CommitWrite(h)
  <2> DEFINE row == [body |-> job[h].body, action |-> job[h].op, source |-> job[h].source]
  <2>1. row \in Snapshot
    BY <1>1 DEF Job, Snapshot
  <2>2. Current(job[h].flag) = job[h].expected
    BY <1>1, <1>2 DEF HandlerOK, CommitWrite
  <2> QED BY <1>1, <1>2, <2>1, <2>2 DEF CommitWrite, TypeOK
<1>3. CASE CommitCreate(h)
  <2> DEFINE row == [body |-> job[h].body, action |-> "create", source |-> 0]
  <2>1. row \in Snapshot
    BY <1>1 DEF Job, Snapshot, AllOps
  <2>2. Current(job[h].flag) = 0 /\ DOMAIN versions[job[h].flag] = 1 .. 0
    BY <1>1, <1>3 DEF LinearHistory, CommitCreate
  <2>3. Current(job[h].flag) + 1 = 1 /\ 1 \notin DOMAIN versions[job[h].flag]
    BY <2>2
  <2>4. /\ config' = [config EXCEPT ![job[h].flag] = [version |-> 1, body |-> row.body]]
        /\ versions' = [versions EXCEPT ![job[h].flag] =
                          WithRow(versions[job[h].flag], 1, row)]
    BY <1>1, <1>3 DEF CommitCreate, TypeOK
  <2> HIDE DEF row
  <2> QED BY <1>1, <2>1, <2>3, <2>4
<1> QED BY <1>2, <1>3

(* A committed snapshot is never changed or removed.                       *)
THEOREM HistoryIsImmutable == Spec => SnapshotsImmutable
<1> DEFINE Keeps == \A f \in Flag : \A v \in DOMAIN versions[f] :
                      v \in DOMAIN versions'[f] /\ versions'[f][v] = versions[f][v]
<1>1. IInv /\ [Next]_vars => [Keeps]_vars
  <2> SUFFICES ASSUME IInv, Next
               PROVE  Keeps
    OBVIOUS
  <2>1. CASE UNCHANGED <<flag, config, versions>>
    BY <2>1
  <2>2. ASSUME NEW h \in Handler, CommitWrite(h) \/ CommitCreate(h)
        PROVE  Keeps
    <3>1. PICK f \in Flag, row \in Snapshot :
            /\ Current(f) + 1 \notin DOMAIN versions[f]
            /\ versions' = [versions EXCEPT ![f] = WithRow(versions[f], Current(f) + 1, row)]
      BY <2>2, NewRow
    <3> QED BY <3>1 DEF WithRow, IInv, TypeOK
  <2>3. ASSUME NEW h \in Handler, CommitArchive(h)
        PROVE  Keeps
    BY <2>3 DEF CommitArchive
  <2> QED BY <2>1, <2>2, <2>3, StepCases
<1> QED BY <1>1, Invariance, PTL DEF Spec, SnapshotsImmutable
-----------------------------------------------------------------------------
(* The store implements the linear history of each flag.                   *)

(* The history of a flag, as the refinement mapping builds it, is a        *)
(* sequence of configurations as long as current_version says.             *)
LEMMA BodiesAreHistory ==
    ASSUME IInv, NEW f \in Flag
    PROVE  /\ Bodies(f) \in Seq(Content)
           /\ Len(Bodies(f)) = Current(f)
           /\ Current(f) \in Nat
<1>1. Current(f) \in Nat /\ DOMAIN versions[f] = 1 .. Current(f)
  BY StoreAssumption DEF IInv, LinearHistory, TypeOK, Config, Version, Current, StoreAssumption
<1>2. \A v \in 1 .. Current(f) : versions[f][v].body \in Content
  BY <1>1 DEF IInv, TypeOK, Snapshot
<1> QED BY <1>1, <1>2 DEF Bodies

(* Adding a row under the next number appends to the history.              *)
LEMMA BodiesAppend ==
    ASSUME IInv, NEW f \in Flag, NEW row \in Snapshot,
           config' = [config EXCEPT ![f] = [version |-> Current(f) + 1, body |-> row.body]],
           versions' = [versions EXCEPT ![f] = WithRow(versions[f], Current(f) + 1, row)]
    PROVE  /\ Bodies(f)' = Append(Bodies(f), row.body)
           /\ \A g \in Flag : g # f => Bodies(g)' = Bodies(g)
<1>1. /\ Current(f)' = Current(f) + 1
      /\ \A g \in Flag : g # f => Current(g)' = Current(g) /\ versions'[g] = versions[g]
  BY DEF IInv, TypeOK, Current
<1>2. DOMAIN versions[f] = 1 .. Current(f)
  BY DEF IInv, LinearHistory
<1>3. versions'[f] = WithRow(versions[f], Current(f) + 1, row)
  BY DEF IInv, TypeOK
<1>4. /\ versions'[f][Current(f) + 1] = row
      /\ \A v \in 1 .. Current(f) : versions'[f][v] = versions[f][v]
  BY <1>2, <1>3, BodiesAreHistory DEF WithRow
<1>5. Bodies(f)' = Append(Bodies(f), row.body)
  <2>1. Bodies(f) \in Seq(Content) /\ Len(Bodies(f)) = Current(f) /\ Current(f) \in Nat
    BY BodiesAreHistory
  <2>2. \A v \in 1 .. Current(f) + 1 :
          versions'[f][v].body = IF v <= Current(f) THEN Bodies(f)[v] ELSE row.body
    BY <1>4, <2>1 DEF Bodies
  <2>3. Bodies(f)' = [v \in 1 .. Current(f) + 1 |->
                        IF v <= Current(f) THEN Bodies(f)[v] ELSE row.body]
    BY <1>1, <2>2 DEF Bodies
  <2> HIDE DEF Bodies
  <2> QED BY <2>1, <2>3
<1>6. \A g \in Flag : g # f => Bodies(g)' = Bodies(g)
  BY <1>1 DEF Bodies
<1> QED BY <1>5, <1>6

(* Every behaviour of the store, read through its versions, is a behaviour *)
(* of the linear history.                                                  *)
THEOREM StoreRefinesHistory == Spec => ImplementsHistory
<1> DEFINE hist == [f \in Flag |-> Bodies(f)]
           arch == {f \in Flag : flag[f] = "archived"}
<1>1. Init => Abstract!Init
  <2> SUFFICES ASSUME Init
               PROVE  Abstract!Init
    OBVIOUS
  <2>1. \A f \in Flag : hist[f] = IF f \in Existing THEN <<NoBody>> ELSE <<>>
    <3> SUFFICES ASSUME NEW f \in Flag
                 PROVE  Bodies(f) = IF f \in Existing THEN <<NoBody>> ELSE <<>>
      OBVIOUS
    <3>1. CASE f \in Existing
      BY <3>1 DEF Init, Bodies, Current
    <3>2. CASE f \notin Existing
      BY <3>2 DEF Init, Bodies, Current
    <3> QED BY <3>1, <3>2
  <2>2. <<NoBody>> # <<>>
    OBVIOUS
  <2>3. arch = {}
    BY DEF Init
  <2> HIDE DEF hist
  <2> QED BY <2>1, <2>2, <2>3, NoBodyType DEF Abstract!Init, hist
<1>2. IInv /\ [Next]_vars => [Abstract!Next]_(Abstract!histvars)
  <2> SUFFICES ASSUME IInv, [Next]_vars
               PROVE  Abstract!Next \/ UNCHANGED <<hist, arch>>
    BY DEF Abstract!histvars
  <2>1. CASE UNCHANGED <<flag, config, versions>>
    BY <2>1 DEF Bodies, Current
  <2>2. ASSUME NEW h \in Handler, CommitWrite(h) \/ CommitCreate(h)
        PROVE  Abstract!Next
    <3>1. PICK f \in Flag, row \in Snapshot :
            /\ f = job[h].flag
            /\ config' = [config EXCEPT ![f] =
                            [version |-> Current(f) + 1, body |-> row.body]]
            /\ versions' = [versions EXCEPT ![f] =
                              WithRow(versions[f], Current(f) + 1, row)]
      BY <2>2, NewRow
    <3>2. hist' = [hist EXCEPT ![f] = Append(hist[f], row.body)]
      BY <3>1, BodiesAppend
    <3>3. arch' = arch
      BY <2>2 DEF CommitWrite, CommitCreate, IInv, TypeOK
    <3>4. row.body \in Content
      BY DEF Snapshot
    <3>5. hist[f] = Bodies(f) /\ hist[f] \in Seq(Content) /\ Len(hist[f]) = Current(f)
      BY BodiesAreHistory
    <3>6. CASE CommitWrite(h)
      <4>1. Current(f) > 0
        BY <3>1, <3>6, StoreAssumption
           DEF CommitWrite, IInv, HandlersOK, HandlerOK, StoreAssumption
      <4>2. hist[f] # <<>>
        BY <3>5, <4>1
      <4>3. Abstract!Replace(f)
        BY <3>2, <3>3, <3>4, <4>2 DEF Abstract!Replace
      <4> QED BY <4>3 DEF Abstract!Next
    <3>7. CASE CommitCreate(h)
      <4>1. Current(f) = 0
        BY <3>1, <3>7 DEF CommitCreate, IInv, LinearHistory
      <4>2. hist[f] = <<>> /\ Append(hist[f], row.body) = <<row.body>>
        BY <3>5, <4>1
      <4>3. Abstract!Create(f)
        BY <3>2, <3>3, <3>4, <4>2 DEF Abstract!Create
      <4> QED BY <4>3 DEF Abstract!Next
    <3> QED BY <2>2, <3>6, <3>7
  <2>3. ASSUME NEW h \in Handler, CommitArchive(h)
        PROVE  Abstract!Next
    <3> DEFINE f == job[h].flag
    <3>1. f \in Flag /\ flag[f] # "absent"
      BY <2>3 DEF CommitArchive, IInv, HandlersOK, HandlerOK, Busy, Job
    <3>2. Len(hist[f]) = Current(f) /\ Current(f) # 0
      BY <3>1, BodiesAreHistory DEF IInv, LinearHistory
    <3>3. hist[f] # <<>>
      BY <3>2
    <3>4. UNCHANGED hist
      BY <2>3 DEF CommitArchive, Bodies, Current
    <3>5. arch' = arch \cup {f}
      BY <2>3, <3>1 DEF CommitArchive, IInv, TypeOK
    <3>6. \E g \in Flag : Abstract!Archive(g)
      BY <3>1, <3>3, <3>4, <3>5 DEF Abstract!Archive
    <3> QED BY <3>6 DEF Abstract!Next
  <2> QED BY <2>1, <2>2, <2>3, StepCases DEF vars
<1> QED BY <1>1, <1>2, Invariance, PTL DEF Spec, ImplementsHistory, Abstract!Spec
-----------------------------------------------------------------------------
(* Clients that name a version they have seen.                             *)

(* A version a client has seen cannot be ahead of the row.  Of a flag that *)
(* is archived it cannot be ahead of the version the archive found.  And a *)
(* rule handler whose expected version is still the row's has read the row *)
(* and the children of that very version, although one by one.             *)
ObservedOK(h) ==
    LET f == job[h].flag
        fresh == job[h].expected = Current(f)
    IN /\ Writer(h) => job[h].expected <= Current(f)
       /\ Writer(h) /\ pc[h] # "committed" /\ flag[f] = "archived" =>
            job[h].expected <= lastLive[f]
       /\ Busy(h) /\ job[h].op = "addRule" /\ pc[h] = "loaded" /\ fresh =>
            job[h].body.enabled = config[f].body.enabled
       /\ job[h].op = "addRule" /\ pc[h] \in {"ready", "written"} /\ fresh =>
            \E r \in Rule \ config[f].body.rules :
              job[h].body = [config[f].body EXCEPT !.rules = @ \cup {r}]

OInv ==
    /\ \A h \in Handler : ObservedOK(h)
    /\ AddRuleKeepsRest
    /\ ArchivedGainsAtMostOne

(* A step that leaves the rows alone keeps OInv when it keeps the moving   *)
(* handler's part of it.                                                   *)
LEMMA QuietObserved ==
    ASSUME IInv, OInv, NEW h \in Handler, NEW phase, NEW j,
           Goto(h, phase, j), UNCHANGED Stored, ObservedOK(h)'
    PROVE  OInv'
<1>1. \A g \in Handler : ObservedOK(g)'
  <2> SUFFICES ASSUME NEW g \in Handler, g # h
               PROVE  ObservedOK(g)'
    OBVIOUS
  <2>1. pc'[g] = pc[g] /\ job'[g] = job[g] /\ ObservedOK(g)
    BY DEF IInv, TypeOK, Goto, OInv
  <2> QED BY <2>1 DEF ObservedOK, Busy, Writer, Current, Stored
<1>2. AddRuleKeepsRest' /\ ArchivedGainsAtMostOne'
  BY DEF OInv, AddRuleKeepsRest, ArchivedGainsAtMostOne, Current, Stored
<1> QED BY <1>1, <1>2 DEF OInv

LEMMA InitOInv == Init => OInv
BY DEF Init, OInv, ObservedOK, Writer, Busy, AddRuleKeepsRest, ArchivedGainsAtMostOne

(* The commit of a write under what its client has seen.                   *)
LEMMA CommitWriteOInv ==
    ASSUME IInv, OInv, NEW h \in Handler, CommitWrite(h)
    PROVE  OInv'
<1> USE StoreAssumption
<1> DEFINE f == job[h].flag
           v == job[h].expected
           row == [body |-> job[h].body, action |-> job[h].op, source |-> job[h].source]
<1>1. /\ pc[h] = "written" /\ Writer(h) /\ job[h] \in Job /\ f \in Flag
      /\ v = Current(f) /\ v \in Nat /\ v > 0 /\ ObservedOK(h)
  BY DEF CommitWrite, IInv, HandlersOK, HandlerOK, Busy, Writer, Job, OInv, StoreAssumption
<1>2. /\ pc' = [pc EXCEPT ![h] = "committed"] /\ job' = job
      /\ config' = [config EXCEPT ![f] = [version |-> v + 1, body |-> job[h].body]]
      /\ versions' = [versions EXCEPT ![f] = WithRow(versions[f], v + 1, row)]
      /\ flag' = flag /\ lastLive' = lastLive
  BY DEF CommitWrite, Goto, IInv, TypeOK
<1>3. config'[f].version = v + 1 /\ \A g \in Flag : g # f => config'[g] = config[g]
  BY <1>1, <1>2 DEF IInv, TypeOK
<1>4. \A g \in Handler : ObservedOK(g)'
  <2> SUFFICES ASSUME NEW g \in Handler
               PROVE  ObservedOK(g)'
    OBVIOUS
  <2>1. ObservedOK(g) /\ HandlerOK(g)
    BY DEF OInv, IInv, HandlersOK
  <2>2. CASE g = h
    BY <1>1, <1>2, <1>3, <2>2 DEF ObservedOK, Busy, Writer, Current, IInv, TypeOK
  <2>3. CASE g # h
    <3>1. pc'[g] = pc[g]
      BY <1>2, <2>3 DEF IInv, TypeOK
    <3>2. CASE Busy(g) /\ job[g].flag = f
      <4>1. Writer(g) => job[g].expected <= v /\ job[g].expected \in Nat
        BY <1>1, <2>1, <3>2 DEF ObservedOK, HandlerOK
      <4>2. job[g].op = "addRule" => Writer(g)
        BY <3>2 DEF Writer, Writes
      <4> HIDE DEF f, v
      <4>3. Writer(g) => job[g].expected # v + 1 /\ job[g].expected <= v + 1
        BY <1>1, <4>1
      <4> QED BY <1>2, <1>3, <2>1, <3>1, <3>2, <4>2, <4>3
              DEF ObservedOK, Busy, Writer, Current, f, v
    <3>3. CASE Busy(g) /\ job[g].flag # f
      <4>1. config'[job[g].flag] = config[job[g].flag]
        BY <1>3, <2>1, <3>3 DEF HandlerOK, Job
      <4>2. job'[g] = job[g] /\ flag' = flag /\ lastLive' = lastLive
        BY <1>2
      <4> QED BY <2>1, <3>1, <4>1, <4>2 DEF ObservedOK, Busy, Writer, Current
    <3>4. CASE ~Busy(g)
      BY <3>1, <3>4 DEF ObservedOK, Busy, Writer
    <3> QED BY <3>2, <3>3, <3>4
  <2> QED BY <2>2, <2>3
<1>5. DOMAIN versions[f] = 1 .. v /\ versions[f][v].body = config[f].body
  BY <1>1 DEF IInv, LinearHistory
<1>6. /\ DOMAIN versions'[f] = DOMAIN versions[f] \cup {v + 1}
      /\ versions'[f][v + 1] = row
      /\ \A w \in DOMAIN versions[f] : w # v + 1 => versions'[f][w] = versions[f][w]
  <2>1. versions'[f] = WithRow(versions[f], v + 1, row)
    BY <1>1, <1>2 DEF IInv, TypeOK
  <2> HIDE DEF f, v, row
  <2> QED BY <2>1 DEF WithRow
<1>7. AddRuleKeepsRest'
  <2> SUFFICES ASSUME NEW g \in Flag, NEW w \in DOMAIN versions'[g],
                      versions'[g][w].action = "addRule"
               PROVE  /\ w > 1
                      /\ \E r \in Rule \ versions'[g][w - 1].body.rules :
                           versions'[g][w].body =
                             [versions'[g][w - 1].body EXCEPT !.rules = @ \cup {r}]
    BY DEF AddRuleKeepsRest
  <2>1. CASE g # f
    <3>1. versions'[g] = versions[g]
      BY <1>2, <2>1 DEF IInv, TypeOK
    <3>2. /\ w > 1
          /\ \E r \in Rule \ versions[g][w - 1].body.rules :
               versions[g][w].body = [versions[g][w - 1].body EXCEPT !.rules = @ \cup {r}]
      BY <3>1 DEF OInv, AddRuleKeepsRest
    <3> QED BY <3>1, <3>2
  <2>2. CASE g = f /\ w = v + 1
    <3>1. job[h].op = "addRule"
      BY <1>6, <2>2
    <3>2. PICK r \in Rule \ config[f].body.rules :
            job[h].body = [config[f].body EXCEPT !.rules = @ \cup {r}]
      BY <1>1, <3>1 DEF ObservedOK
    <3>3. v \in DOMAIN versions[f] /\ v # v + 1 /\ w - 1 = v /\ w > 1
      BY <1>1, <1>5, <2>2
    <3>4. versions'[f][v].body = config[f].body /\ versions'[f][w].body = job[h].body
      BY <1>5, <1>6, <2>2, <3>3
    <3>5. versions'[g][w - 1].body = config[f].body /\ versions'[g][w].body = job[h].body
      BY <2>2, <3>3, <3>4
    <3> QED BY <3>2, <3>3, <3>5
  <2>3. CASE g = f /\ w # v + 1
    <3>1. w \in 1 .. v /\ v \in Nat
      BY <1>1, <1>5, <1>6, <2>3
    <3>2. versions'[f][w] = versions[f][w]
      BY <1>6, <2>3
    <3>3. /\ w > 1
          /\ \E r \in Rule \ versions[f][w - 1].body.rules :
               versions[f][w].body = [versions[f][w - 1].body EXCEPT !.rules = @ \cup {r}]
      <4>1. w \in DOMAIN versions[f] /\ versions[f][w].action = "addRule"
        BY <1>1, <1>5, <2>3, <3>1, <3>2
      <4>2. f \in Flag /\ AddRuleKeepsRest
        BY <1>1 DEF OInv
      <4> HIDE DEF f
      <4> QED BY <4>1, <4>2 DEF AddRuleKeepsRest
    <3>4. w - 1 \in 1 .. v /\ w - 1 # v + 1
      <4> HIDE DEF v
      <4> QED BY <3>1, <3>3
    <3>5. versions'[f][w - 1] = versions[f][w - 1]
      BY <1>5, <1>6, <3>4
    <3> QED BY <2>3, <3>2, <3>3, <3>5
  <2> QED BY <2>1, <2>2, <2>3
<1>8. ArchivedGainsAtMostOne'
  <2> SUFFICES ASSUME NEW g \in Flag, flag[g] = "archived"
               PROVE  config'[g].version <= lastLive[g] + 1
    BY <1>2 DEF ArchivedGainsAtMostOne, Current
  <2>1. CASE g = f
    <3>1. v <= lastLive[f] /\ lastLive[f] \in Int
      BY <1>1, <2>1 DEF ObservedOK, IInv, TypeOK, Version
    <3> HIDE DEF f, v
    <3> QED BY <1>1, <1>3, <2>1, <3>1
  <2>2. CASE g # f
    BY <1>3, <2>2 DEF OInv, ArchivedGainsAtMostOne, Current
  <2> QED BY <2>1, <2>2
<1> QED BY <1>4, <1>7, <1>8 DEF OInv

(* A create finds no writer of its flag, since there was no version to     *)
(* name.                                                                   *)
LEMMA CommitCreateOInv ==
    ASSUME IInv, OInv, NEW h \in Handler, CommitCreate(h)
    PROVE  OInv'
<1> USE StoreAssumption
<1> DEFINE f == job[h].flag
           row == [body |-> job[h].body, action |-> "create", source |-> 0]
<1>1. /\ job[h].op = "create" /\ f \in Flag /\ Current(f) = 0 /\ flag[f] = "absent"
      /\ DOMAIN versions[f] = 1 .. 0
  BY DEF CommitCreate, IInv, HandlersOK, HandlerOK, Busy, Job, LinearHistory
<1>2. /\ pc' = [pc EXCEPT ![h] = "committed"] /\ job' = job
      /\ config' = [config EXCEPT ![f] = [version |-> 1, body |-> job[h].body]]
      /\ versions' = [versions EXCEPT ![f] = WithRow(versions[f], 1, row)]
      /\ flag' = [flag EXCEPT ![f] = "live"] /\ lastLive' = lastLive
  BY DEF CommitCreate, Goto, IInv, TypeOK
<1>3. \A g \in Flag : g # f => /\ config'[g] = config[g] /\ versions'[g] = versions[g]
                               /\ flag'[g] = flag[g]
  BY <1>2 DEF IInv, TypeOK
<1>4. \A g \in Handler : ObservedOK(g)'
  <2> SUFFICES ASSUME NEW g \in Handler
               PROVE  ObservedOK(g)'
    OBVIOUS
  <2>1. ObservedOK(g) /\ HandlerOK(g)
    BY DEF OInv, IInv, HandlersOK
  <2>2. CASE g = h
    BY <1>1, <1>2, <2>2 DEF ObservedOK, Busy, Writer, Writes
  <2>3. CASE g # h
    <3>1. pc'[g] = pc[g]
      BY <1>2, <2>3 DEF IInv, TypeOK
    <3>2. CASE Busy(g) /\ job[g].flag = f
      <4>1. ~Writer(g)
        BY <1>1, <2>1, <3>2 DEF ObservedOK, HandlerOK, StoreAssumption
      <4> QED BY <1>2, <3>1, <3>2, <4>1 DEF ObservedOK, Busy, Writer, Writes
    <3>3. CASE Busy(g) /\ job[g].flag # f
      <4>1. job[g].flag \in Flag
        BY <2>1, <3>3 DEF HandlerOK, Job
      <4> QED BY <1>2, <1>3, <2>1, <3>1, <3>3, <4>1 DEF ObservedOK, Busy, Writer, Current
    <3>4. CASE ~Busy(g)
      BY <1>2, <3>1, <3>4, <2>1 DEF ObservedOK, HandlerOK, Busy, Writer
    <3> QED BY <3>2, <3>3, <3>4
  <2> QED BY <2>2, <2>3
<1>5. DOMAIN versions'[f] = {1} /\ versions'[f][1].action = "create"
  <2>1. versions'[f] = WithRow(versions[f], 1, row)
    BY <1>1, <1>2 DEF IInv, TypeOK
  <2>2. DOMAIN versions[f] = {} /\ row.action = "create"
    BY <1>1
  <2> HIDE DEF f, row
  <2> QED BY <2>1, <2>2 DEF WithRow
<1>6. AddRuleKeepsRest'
  <2> SUFFICES ASSUME NEW g \in Flag, NEW w \in DOMAIN versions'[g],
                      versions'[g][w].action = "addRule"
               PROVE  /\ w > 1
                      /\ \E r \in Rule \ versions'[g][w - 1].body.rules :
                           versions'[g][w].body =
                             [versions'[g][w - 1].body EXCEPT !.rules = @ \cup {r}]
    BY DEF AddRuleKeepsRest
  <2>1. g # f
    BY <1>5
  <2>2. versions'[g] = versions[g]
    BY <1>3, <2>1
  <2>3. /\ w > 1
        /\ \E r \in Rule \ versions[g][w - 1].body.rules :
             versions[g][w].body = [versions[g][w - 1].body EXCEPT !.rules = @ \cup {r}]
    BY <2>2 DEF OInv, AddRuleKeepsRest
  <2> QED BY <2>2, <2>3
<1>7. ArchivedGainsAtMostOne'
  <2> SUFFICES ASSUME NEW g \in Flag, flag'[g] = "archived"
               PROVE  config'[g].version <= lastLive[g] + 1
    BY <1>2 DEF ArchivedGainsAtMostOne, Current
  <2>1. g # f
    BY <1>1, <1>2 DEF IInv, TypeOK
  <2> QED BY <1>3, <2>1 DEF OInv, ArchivedGainsAtMostOne, Current
<1> QED BY <1>4, <1>6, <1>7 DEF OInv

(* An archive of a live flag finds every writer behind the row.            *)
LEMMA CommitArchiveOInv ==
    ASSUME IInv, OInv, NEW h \in Handler, CommitArchive(h)
    PROVE  OInv'
<1> USE StoreAssumption
<1> DEFINE f == job[h].flag
<1>1. /\ job[h].op = "archive" /\ f \in Flag /\ flag[f] # "absent" /\ Current(f) \in Nat
  BY DEF CommitArchive, IInv, HandlersOK, HandlerOK, Busy, Job, TypeOK, Config, Version,
         Current, StoreAssumption
<1>2. /\ pc' = [pc EXCEPT ![h] = "committed"] /\ job' = job
      /\ config' = config /\ versions' = versions
      /\ flag' = [flag EXCEPT ![f] = "archived"]
      /\ lastLive' = [lastLive EXCEPT ![f] = IF flag[f] = "live" THEN Current(f)
                                                                 ELSE lastLive[f]]
  BY DEF CommitArchive, Goto, IInv, TypeOK
<1>3. \A g \in Flag : flag'[g] = "archived" =>
        \/ flag[g] = "archived" /\ lastLive'[g] = lastLive[g]
        \/ lastLive'[g] = Current(g)
  BY <1>1, <1>2 DEF IInv, TypeOK
<1>4. \A g \in Handler : ObservedOK(g)'
  <2> SUFFICES ASSUME NEW g \in Handler
               PROVE  ObservedOK(g)'
    OBVIOUS
  <2>1. ObservedOK(g) /\ HandlerOK(g)
    BY DEF OInv, IInv, HandlersOK
  <2>2. CASE g = h
    BY <1>1, <1>2, <2>2 DEF ObservedOK, Busy, Writer, Writes
  <2>3. CASE g # h
    <3>1. pc'[g] = pc[g]
      BY <1>2, <2>3 DEF IInv, TypeOK
    <3>2. Busy(g) => job[g].flag \in Flag
      BY <2>1 DEF HandlerOK, Job
    <3> QED BY <1>2, <1>3, <2>1, <3>1, <3>2 DEF ObservedOK, HandlerOK, Busy, Writer, Current
  <2> QED BY <2>2, <2>3
<1>5. AddRuleKeepsRest'
  BY <1>2 DEF OInv, AddRuleKeepsRest
<1>6. ArchivedGainsAtMostOne'
  <2> SUFFICES ASSUME NEW g \in Flag, flag'[g] = "archived"
               PROVE  Current(g) <= lastLive'[g] + 1
    BY <1>2 DEF ArchivedGainsAtMostOne, Current
  <2>1. Current(g) \in Nat
    BY DEF IInv, TypeOK, Config, Version, Current, StoreAssumption
  <2> QED BY <1>3, <2>1 DEF OInv, ArchivedGainsAtMostOne
<1> QED BY <1>4, <1>5, <1>6 DEF OInv

(* A step keeps OInv, of clients that do not guess.                        *)
LEMMA NextOInv ==
    ASSUME MaxGuess = 0, IInv, OInv, [Next]_vars
    PROVE  OInv'
<1> USE StoreAssumption
<1>0. CASE UNCHANGED vars
  BY <1>0 DEF OInv, vars, ObservedOK, Busy, Writer, Current, AddRuleKeepsRest,
              ArchivedGainsAtMostOne
<1>1. ASSUME NEW h \in Handler, Step(h)
      PROVE  OInv'
  <2>0. HandlerOK(h) /\ ObservedOK(h) /\ pc[h] \in Phase
    BY DEF IInv, HandlersOK, TypeOK, OInv
  <2>1. CASE Begin(h)
    <3>1. PICK f \in Flag :
            \/ \E op \in Ops, v \in Version : BeginWrite(h, op, f, v)
            \/ \E v \in Version : BeginAddRule(h, f, v)
            \/ BeginArchive(h, f)
            \/ BeginCreate(h, f)
      BY <2>1 DEF Begin
    <3>2. Current(f) \in Nat
      BY DEF IInv, TypeOK, Config, Version, Current, StoreAssumption
    <3>3. \A v : v \in Expectation(f) => v <= Current(f)
      BY <3>2 DEF Expectation
    <3>4. CASE \E op \in Ops, v \in Version : BeginWrite(h, op, f, v)
      <4>1. PICK op \in Ops, v \in Version : BeginWrite(h, op, f, v)
        BY <3>4
      <4>2. ObservedOK(h)'
        BY <3>3, <4>1 DEF BeginWrite, Goto, Request, IInv, TypeOK, ObservedOK, Busy, Writer,
                          Current, Stored
      <4> QED BY <4>1, <4>2, QuietObserved DEF BeginWrite
    <3>5. CASE \E v \in Version : BeginAddRule(h, f, v)
      <4>1. PICK v \in Version : BeginAddRule(h, f, v)
        BY <3>5
      <4>2. ObservedOK(h)'
        BY <3>3, <4>1 DEF BeginAddRule, Goto, Request, IInv, TypeOK, ObservedOK, Busy,
                          Writer, Current, Stored
      <4> QED BY <4>1, <4>2, QuietObserved DEF BeginAddRule
    <3>6. CASE BeginArchive(h, f)
      <4>1. ObservedOK(h)'
        BY <3>6 DEF BeginArchive, Goto, Request, IInv, TypeOK, ObservedOK, Busy, Writer, Writes
      <4> QED BY <3>6, <4>1, QuietObserved DEF BeginArchive
    <3>7. CASE BeginCreate(h, f)
      <4>1. PICK c \in Content :
              Goto(h, "ready", [Request("create", f) EXCEPT
                                  !.body = c, !.prev = revision[HomeEnv[f]]])
        BY <3>7 DEF BeginCreate
      <4> DEFINE j == [Request("create", f) EXCEPT !.body = c, !.prev = revision[HomeEnv[f]]]
      <4>2. Request("create", f) \in Job /\ Request("create", f).op = "create"
        BY RequestType DEF AllOps
      <4>3. j.op = "create"
        BY <4>2 DEF Job
      <4>4. ObservedOK(h)'
        BY <4>1, <4>3 DEF Goto, IInv, TypeOK, ObservedOK, Busy, Writer, Writes
      <4> QED BY <3>7, <4>1, <4>4, QuietObserved DEF BeginCreate
    <3> QED BY <3>1, <3>4, <3>5, <3>6, <3>7
  <2>2. CASE ReadConfigRow(h) \/ ReadEnvironment(h) \/ ReadSnapshot(h)
    <3>1. job[h] \in Job /\ job[h].op \in {"update", "rollback", "archive"}
          /\ pc[h] \in {"begun", "loaded"}
      BY <2>0, <2>2 DEF ReadConfigRow, ReadEnvironment, ReadSnapshot, HandlerOK, Busy
    <3>2. ASSUME NEW phase \in {"loaded", "ready"}, NEW j, Goto(h, phase, j),
                 UNCHANGED Stored, j.flag = job[h].flag, j.op = job[h].op,
                 j.op \in Writes => j.expected = job[h].expected
          PROVE  OInv'
      <4>1. ObservedOK(h)'
        BY <2>0, <3>1, <3>2 DEF Goto, IInv, TypeOK, ObservedOK, Busy, Writer, Current, Stored
      <4> QED BY <3>2, <4>1, QuietObserved
    <3>3. CASE ReadConfigRow(h)
      <4> DEFINE j == [job[h] EXCEPT !.expected = Current(job[h].flag)]
      <4>1. j.flag = job[h].flag /\ j.op = job[h].op /\ j.op \notin Writes
        BY <3>1, <3>3 DEF ReadConfigRow, Job, Writes
      <4> QED BY <3>2, <3>3, <4>1 DEF ReadConfigRow
    <3>4. CASE ReadEnvironment(h)
      <4> DEFINE phase == IF job[h].op = "rollback" THEN "loaded" ELSE "ready"
      <4>1. PICK c \in IF job[h].op = "update" THEN Content ELSE {NoBody} :
              Goto(h, phase,
                   [job[h] EXCEPT !.prev = revision[HomeEnv[job[h].flag]], !.body = c])
        BY <3>4 DEF ReadEnvironment
      <4> DEFINE j == [job[h] EXCEPT !.prev = revision[HomeEnv[job[h].flag]], !.body = c]
      <4>2. j.flag = job[h].flag /\ j.op = job[h].op /\ j.expected = job[h].expected
        BY <3>1 DEF Job
      <4> QED BY <3>2, <3>4, <4>1, <4>2 DEF ReadEnvironment
    <3>5. CASE ReadSnapshot(h)
      <4>1. PICK v \in DOMAIN versions[job[h].flag] :
              Goto(h, "ready", [job[h] EXCEPT
                                  !.body = versions[job[h].flag][v].body, !.source = v])
        BY <3>5 DEF ReadSnapshot
      <4> DEFINE j == [job[h] EXCEPT !.body = versions[job[h].flag][v].body, !.source = v]
      <4>2. j.flag = job[h].flag /\ j.op = job[h].op /\ j.expected = job[h].expected
        BY <3>1 DEF Job
      <4> QED BY <3>2, <3>5, <4>1, <4>2 DEF ReadSnapshot
    <3> QED BY <2>2, <3>3, <3>4, <3>5
  <2>3. CASE ReadChildren(h)
    <3> DEFINE f == job[h].flag
    <3>1. PICK r \in Rule \ config[f].body.rules :
            Goto(h, "ready", [job[h] EXCEPT !.body.rules = config[f].body.rules \cup {r}])
      BY <2>3 DEF ReadChildren
    <3> DEFINE j == [job[h] EXCEPT !.body.rules = config[f].body.rules \cup {r}]
    <3>2. /\ job[h] \in Job /\ f \in Flag /\ config[f].body \in Content
      BY <2>0, <2>3 DEF ReadChildren, HandlerOK, Busy, Job, IInv, TypeOK, Config
    <3>3. /\ j.flag = f /\ j.op = job[h].op /\ j.expected = job[h].expected
          /\ j.body = [enabled |-> job[h].body.enabled, rules |-> config[f].body.rules \cup {r}]
      BY <3>2 DEF Job, Content
    <3>4. [config[f].body EXCEPT !.rules = @ \cup {r}] =
            [enabled |-> config[f].body.enabled, rules |-> config[f].body.rules \cup {r}]
      <4>1. \A b \in Content : \A s : [b EXCEPT !.rules = s] = [enabled |-> b.enabled, rules |-> s]
        BY DEF Content
      <4> QED BY <3>2, <4>1
    <3>5. job[h].expected = Current(f) => job[h].body.enabled = config[f].body.enabled
      BY <2>0, <2>3 DEF ReadChildren, ObservedOK, Busy
    <3>6. job'[h] = j /\ pc'[h] = "ready" /\ pc[h] = "loaded" /\ job[h].op = "addRule"
      BY <2>3, <3>1 DEF ReadChildren, Goto, IInv, TypeOK
    <3>7. UNCHANGED Stored
      BY <2>3 DEF ReadChildren
    <3>8. ObservedOK(h)'
      <4> HIDE DEF j
      <4>1. /\ job'[h].flag = f /\ job'[h].op = "addRule" /\ pc'[h] = "ready"
            /\ job'[h].expected = job[h].expected
        BY <3>3, <3>6
      <4>2. config' = config /\ flag' = flag /\ lastLive' = lastLive
        BY <3>7 DEF Stored
      <4>3. /\ job[h].expected <= Current(f)
            /\ flag[f] = "archived" => job[h].expected <= lastLive[f]
        BY <2>0, <3>6 DEF ObservedOK, Writer, Busy, Writes
      <4>4. job[h].expected = Current(f) =>
              job'[h].body = [config[f].body EXCEPT !.rules = @ \cup {r}]
        BY <3>3, <3>4, <3>5, <3>6
      <4> QED BY <4>1, <4>2, <4>3, <4>4 DEF ObservedOK, Current
    <3> QED BY <3>1, <3>7, <3>8, QuietObserved
  <2>4. CASE CompareAndSwap(h)
    <3>1. ObservedOK(h)'
      BY <2>0, <2>4 DEF CompareAndSwap, Goto, IInv, TypeOK, ObservedOK, Busy, Writer,
                        Current, Stored
    <3> QED BY <2>4, <3>1, QuietObserved DEF CompareAndSwap
  <2>5. CASE Conflict(h) \/ DuplicateKey(h) \/ Notify(h) \/ Fail(h)
    <3>1. Goto(h, "idle", None) /\ UNCHANGED Stored
      BY <2>5 DEF Conflict, DuplicateKey, Notify, Fail
    <3>2. ObservedOK(h)'
      BY <3>1 DEF Goto, IInv, TypeOK, ObservedOK, Busy, Writer
    <3> QED BY <3>1, <3>2, QuietObserved
  <2>6. CASE CommitWrite(h) \/ CommitCreate(h) \/ CommitArchive(h)
    BY <2>6, CommitWriteOInv, CommitCreateOInv, CommitArchiveOInv
  <2> QED BY <1>1, <2>1, <2>2, <2>3, <2>4, <2>5, <2>6 DEF Step
<1> QED BY <1>0, <1>1 DEF Next

(* An added rule keeps the rest of the version it was added to.            *)
THEOREM AddedRuleKeepsRest ==
    ASSUME MaxGuess = 0
    PROVE  Spec => []AddRuleKeepsRest
<1>1. IInv /\ OInv /\ IInv' /\ [Next]_vars => OInv'
  BY NextOInv
<1> QED BY <1>1, InitOInv, Invariance, PTL DEF Spec, OInv

(* An archived flag gains at most one version.                             *)
THEOREM ArchiveIsAlmostFinal ==
    ASSUME MaxGuess = 0
    PROVE  Spec => []ArchivedGainsAtMostOne
<1>1. IInv /\ OInv /\ IInv' /\ [Next]_vars => OInv'
  BY NextOInv
<1> QED BY <1>1, InitOInv, Invariance, PTL DEF Spec, OInv
=============================================================================
