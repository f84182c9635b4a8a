-------------------------- MODULE EventStreamProofs --------------------------
(***************************************************************************)
(* Proofs about SnapshotSync and EventStream: the stream is an export, and *)
(* the export is a store; and, while every writer adds to the revision in  *)
(* SQL (updates, added rules and rollbacks), what announcements, ETags and *)
(* silence tell a client.  With creations and archives none of the three   *)
(* holds, and TLC shows how (README.md, section 3).                        *)
(***************************************************************************)
EXTENDS EventStream, FlagStoreProofs

-----------------------------------------------------------------------------
(* Implementation: no step of the stream is unknown to the export, and no  *)
(* step of the export is unknown to the store.                             *)

LEMMA StreamStep == [StreamNext]_everything => [SyncNext]_allvars
<1> SUFFICES ASSUME [StreamNext]_everything
             PROVE  [SyncNext]_allvars
  OBVIOUS
<1>1. CASE UNCHANGED everything
  BY <1>1 DEF everything, allvars
<1>2. ASSUME NEW h \in Handler, Handle(h)
      PROVE  SyncNext
  BY <1>2 DEF Handle, SyncNext, Next
<1>3. CASE Listen \/ Break \/ Disconnect
  BY <1>3 DEF Listen, Open, Subscribed, PassOn, Reconnect, Degraded, Break, Disconnect,
              StoreStays, vars, syncvars, allvars
<1>4. CASE BeginFetch
  BY <1>4 DEF BeginFetch, SyncNext, Export, vars, syncvars, allvars
<1>5. CASE FinishFetch
  BY <1>5 DEF FinishFetch, SyncNext, Export
<1> QED BY <1>1, <1>2, <1>3, <1>4, <1>5 DEF StreamNext

LEMMA SyncStep == [SyncNext]_allvars => [Next]_vars
BY DEF SyncNext, Export, allvars, vars

(* The stream and its client implement the export: what they do to the     *)
(* store and to the client's copy is what SnapshotSync says.               *)
THEOREM StreamImplementsSync == StreamSpec => SyncSpec
<1>1. StreamInit => SyncInit
  BY DEF StreamInit
<1> QED BY <1>1, StreamStep, PTL DEF StreamSpec, SyncSpec

(* The export implements the store: all that is proved of the handlers     *)
(* holds beside a client that reads.                                       *)
THEOREM SyncImplementsStore == SyncSpec => Spec
<1>1. SyncInit => Init
  BY DEF SyncInit
<1> QED BY <1>1, SyncStep, PTL DEF SyncSpec, Spec

-----------------------------------------------------------------------------
(* Announcements.                                                          *)

(* A writer has read a revision that the environment had; once it has      *)
(* committed, the environment has had one more.                            *)
ReadBefore(h) ==
    /\ job[h].op \in Writes
    /\ job[h].prev <= revision[HomeEnv[job[h].flag]]
    /\ pc[h] = "committed" => job[h].prev + 1 <= revision[HomeEnv[job[h].flag]]

RInv == \A h \in Handler : Busy(h) => ReadBefore(h)

(* What a step of the store does when no request creates or archives: the  *)
(* rows stay, or the handler, a writer, commits.                           *)
LEMMA WriterStep ==
    ASSUME RInv, NEW h \in Handler, Step(h)
    PROVE  CommitWrite(h) \/ UNCHANGED <<flag, config, versions, revision>>
<1>1. CASE Begin(h)
  BY <1>1 DEF Begin, BeginWrite, BeginAddRule, BeginArchive, BeginCreate, Stored
<1>2. CASE ReadConfigRow(h) \/ ReadEnvironment(h) \/ ReadChildren(h) \/ ReadSnapshot(h)
  BY <1>2 DEF ReadConfigRow, ReadEnvironment, ReadChildren, ReadSnapshot, Stored
<1>3. CASE CompareAndSwap(h) \/ Conflict(h) \/ DuplicateKey(h) \/ Notify(h) \/ Fail(h)
  BY <1>3 DEF CompareAndSwap, Conflict, DuplicateKey, Notify, Fail, Stored
<1>4. CASE CommitCreate(h) \/ CommitArchive(h)
  BY <1>4 DEF CommitCreate, CommitArchive, RInv, ReadBefore, Busy, Writes
<1> QED BY <1>1, <1>2, <1>3, <1>4 DEF Step

(* The commit of a writer, seen from the environments: its own gains one,  *)
(* and only its own flag changes.                                          *)
LEMMA CommitMoves ==
    ASSUME IInv, NEW h \in Handler, CommitWrite(h)
    PROVE  /\ flag' = flag /\ job[h].flag \in Flag
           /\ revision' = [revision EXCEPT ![HomeEnv[job[h].flag]] = @ + 1]
           /\ \A f \in Flag : f # job[h].flag => config'[f] = config[f]
<1>1. pc[h] = "written" /\ job[h] \in Job
  BY DEF CommitWrite, IInv, HandlersOK, HandlerOK, Busy
<1> QED BY <1>1 DEF CommitWrite, Job, IInv, TypeOK

(* Revisions only grow, and while an environment's stays, its flags do.    *)
LEMMA RevisionMoves ==
    ASSUME IInv, RInv, [Next]_vars, NEW e \in Env
    PROVE  /\ flag' = flag
           /\ revision[e] \in Nat /\ revision'[e] \in Nat
           /\ revision'[e] >= revision[e]
           /\ revision'[e] = revision[e] =>
                \A f \in Flag : HomeEnv[f] = e => config'[f] = config[f]
<1>0. revision \in [Env -> Nat]
  BY DEF IInv, TypeOK
<1>1. CASE UNCHANGED <<flag, config, versions, revision>>
  BY <1>0, <1>1
<1>2. CASE \E h \in Handler : CommitWrite(h)
  <2>1. PICK h \in Handler : CommitWrite(h)
    BY <1>2
  <2>2. /\ flag' = flag /\ job[h].flag \in Flag
        /\ revision' = [revision EXCEPT ![HomeEnv[job[h].flag]] = @ + 1]
        /\ \A f \in Flag : f # job[h].flag => config'[f] = config[f]
    BY <2>1, CommitMoves
  <2> QED BY <1>0, <2>2, StoreAssumption DEF StoreAssumption
<1>3. CASE UNCHANGED vars
  BY <1>1, <1>3 DEF vars
<1> QED BY <1>1, <1>2, <1>3, WriterStep DEF Next

(* A step of a handler leaves the others where they are.                   *)
LEMMA OneMoves ==
    ASSUME IInv, NEW h \in Handler, Step(h), NEW g \in Handler, g # h
    PROVE  pc'[g] = pc[g] /\ job'[g] = job[g]
<1>1. \E phase, j : Goto(h, phase, j)
  <2>1. CASE Begin(h)
    BY <2>1 DEF Begin, BeginWrite, BeginAddRule, BeginArchive, BeginCreate
  <2>2. CASE ReadConfigRow(h) \/ ReadEnvironment(h) \/ ReadChildren(h) \/ ReadSnapshot(h)
    BY <2>2 DEF ReadConfigRow, ReadEnvironment, ReadChildren, ReadSnapshot
  <2>3. CASE CompareAndSwap(h) \/ Conflict(h) \/ DuplicateKey(h) \/ Notify(h) \/ Fail(h)
    BY <2>3 DEF CompareAndSwap, Conflict, DuplicateKey, Notify, Fail
  <2>4. CASE CommitWrite(h) \/ CommitCreate(h) \/ CommitArchive(h)
    BY <2>4 DEF CommitWrite, CommitCreate, CommitArchive
  <2> QED BY <2>1, <2>2, <2>3, <2>4 DEF Step
<1> QED BY <1>1 DEF Goto, IInv, TypeOK

(* A step keeps what the writers have read a lower bound.                  *)
LEMMA NextRInv ==
    ASSUME Ops \subseteq Writes, IInv, RInv, [Next]_vars
    PROVE  RInv'
<1>0. \A e \in Env : revision[e] \in Nat /\ revision'[e] \in Nat /\ revision'[e] >= revision[e]
  BY RevisionMoves
<1>1. CASE UNCHANGED vars
  BY <1>1 DEF vars, RInv, ReadBefore, Busy
<1>2. ASSUME NEW h \in Handler, Step(h), NEW g \in Handler, Busy(g)'
      PROVE  ReadBefore(g)'
  <2>0. HandlerOK(g) /\ HandlerOK(h) /\ pc \in [Handler -> Phase]
        /\ job \in [Handler -> Job \cup {None}]
    BY DEF IInv, HandlersOK, TypeOK
  <2>1. CASE pc'[g] = pc[g] /\ job'[g] = job[g]
    <3>1. ReadBefore(g) /\ HomeEnv[job[g].flag] \in Env /\ job[g].prev \in Nat
      BY <1>2, <2>0, <2>1, StoreAssumption DEF RInv, Busy, HandlerOK, Job, StoreAssumption
    <3> QED BY <1>0, <2>1, <3>1 DEF ReadBefore
  <2>2. CASE g = h /\ Begin(h)
    <3>1. PICK f \in Flag :
            \/ \E op \in Ops, v \in Version : BeginWrite(h, op, f, v)
            \/ \E v \in Version : BeginAddRule(h, f, v)
      BY <2>2 DEF Begin, Writes
    <3>2. /\ job'[h].op \in Writes /\ job'[h].flag = f /\ pc'[h] # "committed"
          /\ job'[h].prev \in {0, revision[HomeEnv[f]]} /\ revision' = revision
      <4>1. CASE \E op \in Ops, v \in Version : BeginWrite(h, op, f, v)
        BY <2>0, <4>1 DEF BeginWrite, Request, Goto, Stored, Writes
      <4>2. CASE \E v \in Version : BeginAddRule(h, f, v)
        BY <2>0, <4>2 DEF BeginAddRule, Request, Goto, Stored, Writes
      <4> QED BY <3>1, <4>1, <4>2
    <3> QED BY <1>0, <2>2, <3>2, StoreAssumption DEF ReadBefore, StoreAssumption
  <2>3. CASE g = h /\ ~Begin(h) /\ ~CommitWrite(h)
    <3>1. pc[h] # "idle" /\ Step(h) /\ pc'[h] # "idle" /\ job[h].op \in Writes
      BY <1>2, <2>3 DEF Step, ReadConfigRow, ReadEnvironment,
             ReadChildren, ReadSnapshot, CompareAndSwap, Conflict, CommitCreate, DuplicateKey,
             CommitArchive, Notify, Fail, RInv, ReadBefore, Busy
    <3>2. ReadBefore(h) /\ HomeEnv[job[h].flag] \in Env /\ job[h].prev \in Nat /\ job[h] \in Job
      BY <2>0, <3>1, StoreAssumption DEF RInv, Busy, HandlerOK, Job, StoreAssumption
    <3>3. /\ job'[h].op = job[h].op /\ job'[h].flag = job[h].flag
          /\ job'[h].prev \in {job[h].prev, revision[HomeEnv[job[h].flag]]}
          /\ pc'[h] # "committed" /\ revision' = revision
      <4> USE DEF Goto, Stored, Job
      <4>1. CASE ReadConfigRow(h)
        BY <2>0, <3>2, <4>1 DEF ReadConfigRow
      <4>2. CASE ReadEnvironment(h)
        BY <2>0, <3>2, <4>2 DEF ReadEnvironment
      <4>5. CASE ReadChildren(h)
        BY <2>0, <3>2, <4>5 DEF ReadChildren
      <4>6. CASE ReadSnapshot(h)
        BY <2>0, <3>2, <4>6 DEF ReadSnapshot
      <4>7. CASE CompareAndSwap(h)
        BY <2>0, <3>2, <4>7 DEF CompareAndSwap
      <4>3. CASE Conflict(h) \/ DuplicateKey(h) \/ Notify(h) \/ Fail(h)
        BY <2>0, <3>1, <4>3 DEF Conflict, DuplicateKey, Notify, Fail, Goto
      <4>4. CASE CommitCreate(h) \/ CommitArchive(h)
        BY <3>1, <4>4 DEF CommitCreate, CommitArchive, Writes
      <4> QED BY <2>3, <3>1, <4>1, <4>2, <4>3, <4>4, <4>5, <4>6, <4>7 DEF Step
    <3> QED BY <1>0, <2>3, <3>2, <3>3 DEF ReadBefore
  <2>4. CASE g = h /\ CommitWrite(h)
    <3>1. /\ pc[h] # "idle" /\ job' = job /\ job[h].flag \in Flag
          /\ revision' = [revision EXCEPT ![HomeEnv[job[h].flag]] = @ + 1]
      BY <2>0, <2>4, CommitMoves DEF CommitWrite, Goto
    <3>2. ReadBefore(h) /\ HomeEnv[job[h].flag] \in Env /\ job[h].prev \in Nat
      BY <2>0, <3>1, StoreAssumption DEF RInv, Busy, HandlerOK, Job, StoreAssumption
    <3>3. revision'[HomeEnv[job[h].flag]] = revision[HomeEnv[job[h].flag]] + 1
      BY <3>1, <3>2 DEF IInv, TypeOK
    <3> QED BY <1>0, <2>4, <3>1, <3>2, <3>3 DEF ReadBefore
  <2>5. g # h => pc'[g] = pc[g] /\ job'[g] = job[g]
    BY <1>2, <2>0, OneMoves
  <2> QED BY <2>1, <2>2, <2>3, <2>4, <2>5
<1> QED BY <1>1, <1>2 DEF Next, RInv

(* No handler has read anything yet.                                       *)
LEMMA InitRInv == Init => RInv
BY DEF Init, RInv, Busy

(* An announced revision is one the environment has reached.               *)
THEOREM AnnouncementsNotAhead ==
    ASSUME Ops \subseteq Writes
    PROVE  Spec => []AnnouncedNotAhead
<1>1. IInv /\ RInv /\ [Next]_vars => RInv'
  BY NextRInv
<1>2. RInv => AnnouncedNotAhead
  BY DEF RInv, ReadBefore, Busy, AnnouncedNotAhead, Announced
<1> QED BY <1>1, <1>2, InitRInv, Invariance, PTL DEF Spec

-----------------------------------------------------------------------------
(* The ETag.                                                               *)

(* The ETag of the copy, and of the answer that is on its way, is not      *)
(* ahead of the environment; and where one of the two is the revision, the *)
(* flags or the rows it came with are those of the store.                  *)
EInv ==
    /\ copy.etag \in Int /\ copy.etag <= revision[Watched]
    /\ copy.etag = revision[Watched] => copy.flags = Bundle
    /\ fetch = [at |-> fetch.at, etag |-> fetch.etag, rows |-> fetch.rows]
    /\ fetch.at \in {"idle", "revised", "listed"}
    /\ fetch.at # "idle" => fetch.etag \in Int /\ fetch.etag <= revision[Watched]
    /\ fetch.at = "listed" /\ fetch.etag = revision[Watched] =>
         fetch.rows = {Row(f) : f \in Listed}

(* Where the flags of the environment stay, so does what an export reads.  *)
LEMMA BundleStays ==
    ASSUME flag' = flag, \A f \in Flag : HomeEnv[f] = Watched => config'[f] = config[f]
    PROVE  Bundle' = Bundle /\ {Row(f) : f \in Listed}' = {Row(f) : f \in Listed}
<1>1. Listed' = Listed
  BY DEF Listed
<1>2. \A f \in Listed : Row(f)' = Row(f) /\ Member(Row(f))' = Member(Row(f))
  BY DEF Listed, Row, Member
<1> QED BY <1>1, <1>2 DEF Bundle

LEMMA InitEInv == SyncInit /\ IInv => EInv
<1> SUFFICES ASSUME SyncInit, IInv
             PROVE  EInv
  OBVIOUS
<1>1. revision[Watched] \in Nat
  BY WatchedAssumption DEF IInv, TypeOK
<1> QED BY <1>1 DEF SyncInit, Empty, NoFetch, EInv

LEMMA NextEInv ==
    ASSUME IInv, RInv, EInv, [SyncNext]_allvars
    PROVE  EInv'
<1>0. revision[Watched] \in Nat
  BY WatchedAssumption DEF IInv, TypeOK
<1>1. CASE [Next]_vars /\ UNCHANGED syncvars
  <2>1. /\ revision'[Watched] \in Nat /\ revision'[Watched] >= revision[Watched]
        /\ revision'[Watched] = revision[Watched] =>
             /\ Bundle' = Bundle
             /\ {Row(f) : f \in Listed}' = {Row(f) : f \in Listed}
    BY <1>1, RevisionMoves, WatchedAssumption, BundleStays
  <2> QED BY <1>0, <1>1, <2>1 DEF EInv, syncvars
<1>2. ASSUME UNCHANGED vars
      PROVE  /\ Bundle' = Bundle /\ revision'[Watched] = revision[Watched]
             /\ {Row(f) : f \in Listed}' = {Row(f) : f \in Listed}
  BY <1>2, BundleStays DEF vars
<1>3. CASE ReadRevision /\ UNCHANGED vars
  BY <1>0, <1>2, <1>3 DEF EInv, ReadRevision
<1>4. CASE ReadRows /\ UNCHANGED vars
  BY <1>0, <1>2, <1>4 DEF EInv, ReadRows
<1>5. CASE ReadBodies /\ UNCHANGED vars
  <2>1. /\ copy'.etag = fetch.etag /\ copy'.flags = {Member(row) : row \in fetch.rows}
        /\ fetch' = NoFetch /\ fetch.at = "listed"
    BY <1>5 DEF ReadBodies
  <2>2. fetch.rows = {Row(f) : f \in Listed} =>
          {Member(row) : row \in fetch.rows} = Bundle
    BY DEF Bundle
  <2> QED BY <1>0, <1>2, <1>5, <2>1, <2>2 DEF EInv, NoFetch
<1>6. CASE UNCHANGED allvars
  BY <1>1, <1>6 DEF allvars, vars, syncvars
<1> QED BY <1>1, <1>3, <1>4, <1>5, <1>6 DEF SyncNext, Export

(* A client whose ETag is the revision has the environment as it is: 304   *)
(* is answered only when nothing changed.                                  *)
THEOREM EtagIsCurrent ==
    ASSUME Ops \subseteq Writes
    PROVE  SyncSpec => []EtagMeansCurrent
<1>1. IInv /\ RInv /\ [Next]_vars => RInv'
  BY NextRInv
<1>2. IInv /\ RInv /\ EInv /\ [SyncNext]_allvars => EInv'
  BY NextEInv
<1>3. EInv => EtagMeansCurrent
  BY DEF EInv, EtagMeansCurrent
<1>4. SyncInit => Init
  BY DEF SyncInit
<1>5. SyncSpec => [](IInv /\ RInv)
  BY <1>1, InitRInv, Invariance, SyncImplementsStore, PTL DEF Spec
<1> QED BY <1>2, <1>3, <1>5, InitEInv, PTL DEF SyncSpec

-----------------------------------------------------------------------------
(* Silence.                                                                *)

(* What the client has, or is about to have, is current.                   *)
FetchCovers ==
    IF fetch.at = "idle" THEN copy.etag = revision[Watched]
                         ELSE fetch.etag = revision[Watched]

Announcing(h) == pc[h] = "committed" /\ HomeEnv[job[h].flag] = Watched

(* While a stream is open and nothing was lost, an environment that has    *)
(* moved on is still to be announced, is on its way, or was heard of.      *)
QInv ==
    /\ conn \in {"off", "asked", "on", "lost"} /\ inbox \in Nat
    /\ wants \in BOOLEAN /\ gap \in BOOLEAN
    /\ conn # "off" /\ ~gap =>
         \/ wants \/ inbox > 0
         \/ \E h \in Handler : Announcing(h)
         \/ FetchCovers

(* A step of a handler: a commit makes an announcer, and an announcer is   *)
(* done when its event is in the inbox or lost.                            *)
LEMMA HandleQInv ==
    ASSUME IInv, RInv, QInv, NEW h \in Handler, Handle(h)
    PROVE  QInv'
<1>0. [Next]_vars /\ Step(h)
  BY DEF Handle, Next
<1>1. /\ conn' = conn /\ wants' = wants /\ copy' = copy /\ fetch' = fetch
      /\ inbox' \in Nat /\ gap' \in BOOLEAN
  <2>1. inbox' \in Nat /\ wants' = wants /\ conn' = conn /\ copy' = copy /\ fetch' = fetch
    BY DEF QInv, Handle, Publish, PublishFails, syncvars
  <2>2. gap' \in BOOLEAN
    BY Zenon DEF QInv, Handle, Publish, PublishFails
  <2> QED BY <2>1, <2>2
<1>2. CASE Announcing(h)
  <2>1. conn # "off" => inbox' > 0 \/ gap'
    <3>1. CASE PublishFails
      BY <3>1 DEF PublishFails
    <3>2. CASE Publish /\ conn = "on"
      BY <3>2 DEF Publish, QInv
    <3>3. CASE Publish /\ conn \in {"asked", "lost"}
      BY <3>3, Zenon DEF Publish
    <3>4. PublishFails \/ Publish
      BY <1>2 DEF Announcing, Handle
    <3> QED BY <3>1, <3>2, <3>3, <3>4 DEF QInv
  <2>2. conn' # "off" => inbox' > 0 \/ gap'
    BY <1>1, <2>1
  <2>3. conn' \in {"off", "asked", "on", "lost"} /\ wants' \in BOOLEAN
    BY <1>1 DEF QInv
  <2> QED BY <1>1, <2>2, <2>3, Zenon DEF QInv
<1>3. CASE ~Announcing(h)
  <2>1. inbox' = inbox /\ gap' = gap
    BY <1>3 DEF Announcing, Handle
  <2>2. \A g \in Handler : Announcing(g) => Announcing(g)'
    BY <1>0, <1>3, OneMoves DEF Announcing
  <2>3. CASE CommitWrite(h)
    <3>1. Announcing(h)' \/ revision'[Watched] = revision[Watched]
      <4>1. pc'[h] = "committed" /\ job'[h].flag = job[h].flag
        BY <2>3 DEF CommitWrite, Goto, IInv, TypeOK
      <4>2. /\ revision' = [revision EXCEPT ![HomeEnv[job[h].flag]] = @ + 1]
            /\ revision \in [Env -> Nat]
        BY <2>3, CommitMoves DEF IInv, TypeOK
      <4> QED BY <4>1, <4>2, WatchedAssumption DEF Announcing
    <3> QED BY <1>1, <2>1, <2>2, <3>1 DEF QInv, FetchCovers
  <2>4. CASE revision' = revision
    BY <1>1, <2>1, <2>2, <2>4 DEF QInv, FetchCovers
  <2>5. revision' = revision \/ CommitWrite(h)
    BY <1>0, WriterStep
  <2> QED BY <2>3, <2>4, <2>5
<1> QED BY <1>2, <1>3

LEMMA NextQInv ==
    ASSUME IInv, RInv, EInv, QInv, [StreamNext]_everything
    PROVE  QInv'
<1>1. ASSUME NEW h \in Handler, Handle(h)
      PROVE  QInv'
  BY <1>1, HandleQInv
<1>2. ASSUME UNCHANGED vars, UNCHANGED syncvars
      PROVE  /\ FetchCovers' = FetchCovers
             /\ \A h \in Handler : Announcing(h)' = Announcing(h)
  BY <1>2 DEF vars, syncvars, FetchCovers, Announcing
<1>3. CASE UNCHANGED everything
  <2>1. UNCHANGED vars /\ UNCHANGED syncvars /\ UNCHANGED streamvars
    BY <1>3 DEF everything, allvars, vars, syncvars
  <2> QED BY <1>2, <2>1 DEF QInv, streamvars
<1>4. CASE Listen \/ Break \/ Disconnect
  <2>1. UNCHANGED vars /\ UNCHANGED syncvars
    BY <1>4 DEF Listen, Open, Subscribed, PassOn, Reconnect, Degraded, Break, Disconnect,
                StoreStays
  <2>2. CASE Open \/ Degraded \/ Disconnect \/ PassOn
    <3>1. inbox' \in Nat
      BY <2>2 DEF QInv, Open, Degraded, Disconnect, PassOn
    <3>2. /\ conn' = "off" \/ wants' = TRUE
          /\ conn' \in {"off", "asked", conn} /\ wants' \in {TRUE, wants} /\ gap' = gap
      BY <2>2 DEF Open, Degraded, Disconnect, PassOn
    <3> QED BY <3>1, <3>2, Zenon DEF QInv
  <2>3. CASE Subscribed \/ Break
    BY <1>2, <2>1, <2>3, Zenon DEF QInv, Subscribed, Break
  <2>4. CASE Reconnect
    <3>1. inbox > 0 => gap'
      BY <2>4, Zenon DEF Reconnect
    <3>2. gap => gap'
      BY <2>4, Zenon DEF Reconnect
    <3>3. conn' = "asked" /\ conn = "lost" /\ inbox' = 0 /\ wants' = wants /\ gap' \in BOOLEAN
      BY <2>4 DEF Reconnect
    <3>4. 0 \in Nat /\ conn # "off"
      BY <3>3
    <3> QED BY <1>2, <2>1, <3>1, <3>2, <3>3, <3>4, Zenon DEF QInv
  <2> QED BY <1>4, <2>2, <2>3, <2>4 DEF Listen
<1>5. CASE BeginFetch
  <2>1. FetchCovers'
    BY <1>5 DEF BeginFetch, ReadRevision, FetchCovers, vars, syncvars
  <2>2. conn' = conn /\ inbox' = inbox /\ wants' = FALSE /\ gap' = FALSE
    BY <1>5 DEF BeginFetch
  <2> QED BY <2>1, <2>2, Zenon DEF QInv
<1>6. CASE FinishFetch
  <2>1. UNCHANGED vars /\ UNCHANGED streamvars
    BY <1>6 DEF FinishFetch
  <2>2. FetchCovers => FetchCovers'
    <3>1. CASE ReadRows
      <4>1. fetch'.at = "listed" /\ fetch'.etag = fetch.etag /\ fetch.at = "revised"
        BY <3>1 DEF ReadRows, EInv
      <4> QED BY <2>1, <4>1 DEF FetchCovers, vars
    <3>2. CASE ReadBodies
      BY <2>1, <3>2 DEF ReadBodies, NoFetch, FetchCovers, vars
    <3> QED BY <1>6, <3>1, <3>2 DEF FinishFetch
  <2>3. \A h \in Handler : Announcing(h)' = Announcing(h)
    BY <2>1 DEF Announcing, vars
  <2> QED BY <2>1, <2>2, <2>3 DEF QInv, streamvars
<1> QED BY <1>1, <1>3, <1>4, <1>5, <1>6 DEF StreamNext

(* While the stream is open and silent, and everything heard was fetched,  *)
(* the client has what the store has.                                      *)
THEOREM SilenceIsCurrent ==
    ASSUME Ops \subseteq Writes
    PROVE  StreamSpec => []SilenceMeansCurrent
<1>1. IInv /\ RInv /\ [Next]_vars => RInv'
  BY NextRInv
<1>2. IInv /\ RInv /\ EInv /\ [SyncNext]_allvars => EInv'
  BY NextEInv
<1>3. IInv /\ RInv /\ EInv /\ QInv /\ [StreamNext]_everything => QInv'
  BY NextQInv
<1>4. StreamInit => Init /\ SyncInit /\ QInv
  <2>1. StreamInit => 0 \in Nat /\ Init /\ SyncInit
    BY DEF StreamInit, SyncInit
  <2> QED BY <2>1, Zenon DEF StreamInit, QInv
<1>5. SyncSpec => [](IInv /\ RInv)
  BY <1>1, InitRInv, Invariance, SyncImplementsStore, PTL DEF Spec
<1>6. EInv /\ QInv => SilenceMeansCurrent
  BY DEF EInv, QInv, FetchCovers, Announcing, SilenceMeansCurrent
<1> QED BY <1>2, <1>3, <1>4, <1>5, <1>6, InitEInv, StreamImplementsSync, PTL
        DEF StreamSpec, SyncSpec
=============================================================================
