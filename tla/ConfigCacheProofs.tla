--------------------------- MODULE ConfigCacheProofs ---------------------------
(***************************************************************************)
(* Theorems about ConfigCache, for any flags, readers, writers and times.  *)
(*                                                                         *)
(* What an entry is worth depends on the reader that will fill it: IInv    *)
(* says of a reader what VersionNotOverstated and StaleBounded say of an   *)
(* entry, with the time it has held its rows in place of the entry's age.  *)
(***************************************************************************)
EXTENDS ConfigCache, TLAPS

Superseded(f, n) == n < stored[f].version \/ ~stored[f].live

(* A reader's labels are not newer than its bodies, and neither is newer   *)
(* than the store.                                                         *)
ReaderLabels ==
    \A r \in Reader :
      /\ reader[r].at = "listed" =>
           \A f \in DOMAIN reader[r].rows : reader[r].rows[f] <= stored[f].version
      /\ reader[r].at = "loaded" =>
           /\ DOMAIN reader[r].bodies = DOMAIN reader[r].rows
           /\ \A f \in DOMAIN reader[r].bodies :
                /\ reader[r].rows[f] <= reader[r].bodies[f]
                /\ reader[r].bodies[f] <= stored[f].version

(* Its rows were the store's when it began to hold them.                   *)
ReaderAge ==
    \A r \in Reader :
      /\ ~Holding(r) => reader[r].held = 0
      /\ Holding(r) => \A f \in DOMAIN reader[r].rows :
           Superseded(f, reader[r].rows[f]) => quiet[f] <= reader[r].held

EntryAge ==
    \A f \in Flag : Stale(f) => quiet[f] <= MaxHold + cache[f].age

IInv ==
    CacheTypeOK /\ VersionNotOverstated /\ ReaderLabels /\ ReaderAge /\ EntryAge

-----------------------------------------------------------------------------
LEMMA RestingType ==
    /\ Resting.rows \in Numbers /\ Resting.bodies \in Numbers
    /\ Resting.at = "idle" /\ Resting.held = 0
  <1>1. <<>> = [f \in {} |-> 0] /\ [f \in {} |-> 0] \in [{} -> Version]
    OBVIOUS
  <1>. QED
    BY <1>1 DEF Resting, Numbers

LEMMA InitInv == CacheInit => IInv
  <1> SUFFICES ASSUME CacheInit PROVE IInv
    OBVIOUS
  <1> USE CacheAssumption
  <1>2. CacheTypeOK
    BY RestingType DEF CacheInit, CacheTypeOK, Resting, AtRest, Nothing, Entry, Version
  <1>3. VersionNotOverstated /\ EntryAge
    BY DEF CacheInit, VersionNotOverstated, EntryAge, Stale, Hit
  <1>4. ReaderLabels /\ ReaderAge
    BY DEF CacheInit, ReaderLabels, ReaderAge, Holding, Resting
  <1>. QED
    BY <1>2, <1>3, <1>4 DEF IInv

-----------------------------------------------------------------------------
(* A step of a reader leaves the store, its writers and the clock alone.   *)
LEMMA LookupInv ==
    ASSUME IInv, NEW r \in Reader, NEW wanted \in SUBSET Flag, Lookup(r, wanted)
    PROVE  IInv'
  <1> USE CacheAssumption
  <1>1. PICK missed \in SUBSET Flag :
          reader' = [reader EXCEPT ![r].at = "missed", ![r].rows = [f \in missed |-> 0]]
    BY DEF Lookup
  <1>2. UNCHANGED <<stored, cache, writer, quiet>>
    BY DEF Lookup
  <1>3. [f \in missed |-> 0] \in Numbers
    <2>1. [f \in missed |-> 0] \in [missed -> Version]
      BY DEF Version
    <2>. QED
      BY <2>1 DEF Numbers
  <1>4. CacheTypeOK'
    BY <1>1, <1>2, <1>3, ZenonT(40) DEF IInv, CacheTypeOK
  <1>5. VersionNotOverstated' /\ EntryAge'
    BY <1>2 DEF IInv, VersionNotOverstated, EntryAge, Stale, Hit
  <1>6. \A q \in Reader : /\ q # r => reader'[q] = reader[q]
                          /\ reader'[r].at = "missed" /\ reader'[r].held = 0
    BY <1>1 DEF IInv, CacheTypeOK, ReaderAge, Lookup, Holding
  <1>7. ReaderLabels' /\ ReaderAge'
    BY <1>2, <1>6 DEF IInv, ReaderLabels, ReaderAge, Holding, Superseded
  <1>. QED
    BY <1>4, <1>5, <1>7 DEF IInv

LEMMA ReadRowsInv ==
    ASSUME IInv, NEW r \in Reader, ReadRows(r)
    PROVE  IInv'
  <1> USE CacheAssumption
  <1> DEFINE found == {f \in DOMAIN reader[r].rows : stored[f].live}
  <1>1. UNCHANGED <<stored, cache, writer, quiet>>
    BY DEF ReadRows
  <1>2. \A q \in Reader : q # r => reader'[q] = reader[q]
    BY DEF ReadRows, IInv, CacheTypeOK
  <1>3. VersionNotOverstated' /\ EntryAge'
    BY <1>1 DEF IInv, VersionNotOverstated, EntryAge, Stale, Hit
  <1>4. DOMAIN reader[r].rows \in SUBSET Flag
    BY DEF IInv, CacheTypeOK, Numbers
  <1>5. CASE found = {}
    <2>1. reader' = [reader EXCEPT ![r] = Resting]
      BY <1>5 DEF ReadRows
    <2>3. CacheTypeOK'
      BY RestingType, <1>1, <2>1 DEF IInv, CacheTypeOK, Resting
    <2>4. ReaderLabels' /\ ReaderAge'
      BY RestingType, <1>1, <1>2, <2>1 DEF IInv, CacheTypeOK, ReaderLabels, ReaderAge, Holding, Superseded
    <2>. QED
      BY <1>3, <2>3, <2>4 DEF IInv
  <1>6. CASE found # {}
    <2>1. reader' = [reader EXCEPT ![r].at = "listed",
                                   ![r].rows = [f \in found |-> stored[f].version]]
      BY <1>6 DEF ReadRows
    <2>2. [f \in found |-> stored[f].version] \in Numbers
      <3>1. found \in SUBSET Flag
        BY <1>4
      <3>2. [f \in found |-> stored[f].version] \in [found -> Version]
        BY <3>1 DEF IInv, CacheTypeOK
      <3>. QED
        BY <3>1, <3>2 DEF Numbers
    <2>3. CacheTypeOK'
      BY <1>1, <2>1, <2>2, ZenonT(40) DEF IInv, CacheTypeOK
    <2>4. /\ reader'[r].at = "listed" /\ reader'[r].held = 0
          /\ reader'[r].rows = [f \in found |-> stored[f].version]
      BY <2>1 DEF IInv, CacheTypeOK, ReaderAge, ReadRows, Holding
    <2>5. ReaderLabels'
      <3>1. \A f \in found : stored[f].version <= stored[f].version
        BY <1>4 DEF IInv, CacheTypeOK, Version
      <3>. QED
        BY <1>1, <1>2, <2>4, <3>1 DEF IInv, ReaderLabels
    <2>6. ReaderAge'
      <3>1. \A f \in found : ~(stored[f].version < stored[f].version \/ ~stored[f].live)
        BY <1>4 DEF IInv, CacheTypeOK, Version
      <3>. QED
        BY <1>1, <1>2, <2>4, <3>1 DEF IInv, ReaderAge, Holding, Superseded
    <2>. QED
      BY <1>3, <2>3, <2>5, <2>6 DEF IInv
  <1>. QED
    BY <1>5, <1>6

LEMMA ReadChildrenInv ==
    ASSUME IInv, NEW r \in Reader, ReadChildren(r)
    PROVE  IInv'
  <1> USE CacheAssumption
  <1> DEFINE rows == DOMAIN reader[r].rows
  <1>1. UNCHANGED <<stored, cache, writer, quiet>>
    BY DEF ReadChildren
  <1>2. VersionNotOverstated' /\ EntryAge'
    BY <1>1 DEF IInv, VersionNotOverstated, EntryAge, Stale, Hit
  <1>3. rows \in SUBSET Flag
    BY DEF IInv, CacheTypeOK, Numbers
  <1>4. [f \in rows |-> stored[f].version] \in Numbers
    <2>1. [f \in rows |-> stored[f].version] \in [rows -> Version]
      BY <1>3 DEF IInv, CacheTypeOK
    <2>. QED
      BY <1>3, <2>1 DEF Numbers
  <1>5. CacheTypeOK'
    BY <1>1, <1>4, ZenonT(40) DEF IInv, CacheTypeOK, ReadChildren
  <1>6. /\ \A q \in Reader : q # r => reader'[q] = reader[q]
        /\ reader[r].at = "listed"
        /\ reader'[r].at = "loaded" /\ reader'[r].held = reader[r].held
        /\ reader'[r].rows = reader[r].rows
        /\ reader'[r].bodies = [f \in rows |-> stored[f].version]
    BY DEF IInv, CacheTypeOK, ReadChildren
  <1>7. ReaderLabels'
    <2>1. \A f \in rows : stored[f].version <= stored[f].version
      BY <1>3 DEF IInv, CacheTypeOK, Version
    <2>. QED
      BY <1>1, <1>6, <2>1 DEF IInv, ReaderLabels
  <1>8. ReaderAge'
    BY <1>1, <1>6 DEF IInv, ReaderAge, Holding, Superseded
  <1>. QED
    BY <1>2, <1>5, <1>7, <1>8 DEF IInv

(* What is left of a request is a part of what it was.                     *)
LEMMA WithoutPart ==
    ASSUME IInv, NEW r \in Reader, reader[r].at = "loaded",
           NEW f \in DOMAIN reader[r].bodies,
           reader' = [reader EXCEPT ![r] = Without(@, f)],
           UNCHANGED <<stored, quiet>>
    PROVE  /\ reader' \in [Reader -> [at : {"idle", "missed", "listed", "loaded"},
                             held : 0 .. MaxHold, rows : Numbers, bodies : Numbers]]
           /\ ReaderLabels' /\ ReaderAge'
  <1> USE CacheAssumption
  <1> DEFINE job == reader[r]
             rest == DOMAIN job.bodies \ {f}
  <1>1. \A q \in Reader : q # r => reader'[q] = reader[q]
    BY DEF IInv, CacheTypeOK
  <1>2. CASE rest = {}
    <2>1. reader' = [reader EXCEPT ![r] = Resting]
      BY <1>2 DEF Without, IInv, CacheTypeOK
    <2>. QED
      BY RestingType, <1>1, <2>1 DEF IInv, CacheTypeOK, Resting, ReaderLabels, ReaderAge, Holding,
                              Superseded
  <1>3. CASE rest # {}
    <2>1. reader' = [reader EXCEPT ![r].rows = [g \in rest |-> job.rows[g]],
                                   ![r].bodies = [g \in rest |-> job.bodies[g]]]
      BY <1>3 DEF Without, IInv, CacheTypeOK
    <2>2. /\ DOMAIN job.bodies = DOMAIN job.rows /\ rest \in SUBSET Flag
          /\ \A g \in rest : job.rows[g] \in Version /\ job.bodies[g] \in Version
      BY DEF IInv, CacheTypeOK, ReaderLabels, Numbers
    <2>3. [g \in rest |-> job.rows[g]] \in Numbers /\ [g \in rest |-> job.bodies[g]] \in Numbers
      <3>1. /\ [g \in rest |-> job.rows[g]] \in [rest -> Version]
            /\ [g \in rest |-> job.bodies[g]] \in [rest -> Version]
        BY <2>2
      <3>. QED
        BY <2>2, <3>1 DEF Numbers
    <2>4. reader' \in [Reader -> [at : {"idle", "missed", "listed", "loaded"},
                         held : 0 .. MaxHold, rows : Numbers, bodies : Numbers]]
      BY <2>1, <2>3 DEF IInv, CacheTypeOK
    <2>5. /\ reader'[r].at = "loaded" /\ reader'[r].held = job.held
          /\ reader'[r].rows = [g \in rest |-> job.rows[g]]
          /\ reader'[r].bodies = [g \in rest |-> job.bodies[g]]
      BY <2>1 DEF IInv, CacheTypeOK
    <2>6. ReaderLabels'
      BY <1>1, <2>2, <2>5 DEF IInv, ReaderLabels
    <2>7. ReaderAge'
      BY <1>1, <2>2, <2>5 DEF IInv, ReaderAge, Holding, Superseded
    <2>. QED
      BY <2>4, <2>6, <2>7
  <1>. QED
    BY <1>2, <1>3

(* A filled entry inherits what holds of the reader's rows; it is as stale *)
(* as they are, MaxHold at most.                                           *)
LEMMA FillInv ==
    ASSUME IInv, NEW r \in Reader, NEW f \in Flag, Fill(r, f)
    PROVE  IInv'
  <1> USE CacheAssumption
  <1> DEFINE new == [version |-> reader[r].rows[f], body |-> reader[r].bodies[f], age |-> 0]
  <1>1. /\ UNCHANGED <<stored, writer, quiet>> /\ reader[r].at = "loaded"
        /\ f \in DOMAIN reader[r].bodies /\ cache' = [cache EXCEPT ![f] = new]
        /\ reader' = [reader EXCEPT ![r] = Without(@, f)]
    BY DEF Fill
  <1>2. /\ reader' \in [Reader -> [at : {"idle", "missed", "listed", "loaded"},
                          held : 0 .. MaxHold, rows : Numbers, bodies : Numbers]]
        /\ ReaderLabels' /\ ReaderAge'
    BY <1>1, WithoutPart
  <1>3. /\ f \in DOMAIN reader[r].rows
        /\ reader[r].rows[f] \in Version /\ reader[r].bodies[f] \in Version
        /\ reader[r].rows[f] <= reader[r].bodies[f]
        /\ reader[r].bodies[f] <= stored[f].version
    BY <1>1 DEF IInv, ReaderLabels, CacheTypeOK, Numbers
  <1>4. CacheTypeOK'
    <2>1. new \in Entry
      BY <1>3 DEF Entry
    <2>. QED
      BY <1>1, <1>2, <2>1 DEF IInv, CacheTypeOK
  <1>5. cache'[f] = new /\ \A g \in Flag : g # f => cache'[g] = cache[g]
    BY <1>1 DEF IInv, CacheTypeOK
  <1>6. VersionNotOverstated'
    BY <1>1, <1>3, <1>5 DEF IInv, VersionNotOverstated, Hit
  <1>7. EntryAge'
    <2>1. Superseded(f, reader[r].rows[f]) => quiet[f] <= MaxHold + 0
      <3>1. reader[r].held \in 0 .. MaxHold /\ quiet[f] \in Nat
        BY DEF IInv, CacheTypeOK
      <3>2. Superseded(f, reader[r].rows[f]) => quiet[f] <= reader[r].held
        BY <1>1, <1>3 DEF IInv, ReaderAge, Holding
      <3>. QED
        BY <3>1, <3>2
    <2>. QED
      BY <1>1, <1>5, <2>1 DEF IInv, EntryAge, Stale, Hit, Superseded
  <1>. QED
    BY <1>2, <1>4, <1>6, <1>7 DEF IInv

LEMMA FillFailsInv ==
    ASSUME IInv, NEW r \in Reader, FillFails(r)
    PROVE  IInv'
  <1> USE CacheAssumption
  <1>2. CacheTypeOK'
    BY RestingType DEF IInv, CacheTypeOK, FillFails, Resting
  <1>3. VersionNotOverstated' /\ EntryAge'
    BY DEF IInv, VersionNotOverstated, EntryAge, Stale, Hit, FillFails
  <1>4. ReaderLabels' /\ ReaderAge'
    BY RestingType DEF IInv, CacheTypeOK, ReaderLabels, ReaderAge, Holding, Superseded, FillFails
  <1>. QED
    BY <1>2, <1>3, <1>4 DEF IInv

-----------------------------------------------------------------------------
(* A commit starts the time since the last one anew, and its flag's        *)
(* version does not fall.                                                  *)
LEMMA CommitInv ==
    ASSUME IInv, NEW w \in Writer, NEW f \in Flag,
           CommitVersion(w, f) \/ CommitArchive(w, f)
    PROVE  IInv'
  <1> USE CacheAssumption
  <1>1. /\ UNCHANGED <<cache, reader>>
        /\ quiet' = [quiet EXCEPT ![f] = 0]
    BY DEF CommitVersion, CommitArchive
  <1>2. /\ \A g \in Flag : g # f => stored'[g] = stored[g]
        /\ stored[f].version <= stored'[f].version /\ stored'[f].version \in Version
    BY DEF CommitVersion, CommitArchive, IInv, CacheTypeOK, Version
  <1>3. CacheTypeOK'
    <2>1. stored' \in [Flag -> [version : Version, live : BOOLEAN]]
      <3>1. CASE CommitVersion(w, f)
        <4>1. stored[f].version + 1 \in Version
          BY <3>1 DEF CommitVersion, IInv, CacheTypeOK, Version
        <4>2. stored' = [stored EXCEPT ![f].version = @ + 1]
          BY <3>1 DEF CommitVersion
        <4>3. stored \in [Flag -> [version : Version, live : BOOLEAN]]
          BY DEF IInv, CacheTypeOK
        <4>. QED
          BY <4>1, <4>2, <4>3
      <3>2. CASE CommitArchive(w, f)
        <4>1. stored' = [stored EXCEPT ![f].live = FALSE]
          BY <3>2 DEF CommitArchive
        <4>2. stored \in [Flag -> [version : Version, live : BOOLEAN]]
          BY DEF IInv, CacheTypeOK
        <4>. QED
          BY <4>1, <4>2
      <3>. QED
        BY <3>1, <3>2
    <2>2. writer' \in [Writer -> [at : {"idle", "committed", "deleted"}, flag : SUBSET Flag]]
      BY DEF CommitVersion, CommitArchive, IInv, CacheTypeOK
    <2>3. quiet' \in [Flag -> 0 .. QuietLimit]
      <3>1. 0 \in 0 .. QuietLimit
        OBVIOUS
      <3>. QED
        BY <1>1, <3>1 DEF IInv, CacheTypeOK
    <2>. QED
      BY <1>1, <2>1, <2>2, <2>3 DEF IInv, CacheTypeOK
  <1>4. VersionNotOverstated'
    <2> SUFFICES ASSUME NEW g \in Flag, Hit(g)
                 PROVE  cache[g].version <= cache[g].body /\ cache[g].body <= stored'[g].version
      BY <1>1 DEF VersionNotOverstated, Hit
    <2>. QED
      BY <1>2 DEF IInv, VersionNotOverstated, CacheTypeOK, Entry, Version
  <1>5. ReaderLabels'
    <2>1. \A r \in Reader : DOMAIN reader[r].rows \subseteq Flag
      BY DEF IInv, CacheTypeOK, Numbers
    <2>2. \A g \in Flag, n \in Nat : n <= stored[g].version => n <= stored'[g].version
      BY <1>2 DEF IInv, CacheTypeOK, Version
    <2>3. \A r \in Reader : /\ \A g \in DOMAIN reader[r].rows : reader[r].rows[g] \in Nat
                            /\ \A g \in DOMAIN reader[r].bodies : reader[r].bodies[g] \in Nat
      BY DEF IInv, CacheTypeOK, Numbers, Version
    <2>. QED
      BY <1>1, <2>1, <2>2, <2>3 DEF IInv, ReaderLabels
  <1>6. ReaderAge'
    <2>1. \A r \in Reader : DOMAIN reader[r].rows \subseteq Flag /\ reader[r].held \in Nat
      BY DEF IInv, CacheTypeOK, Numbers
    <2>. QED
      BY <1>1, <1>2, <2>1 DEF IInv, CacheTypeOK, ReaderAge, Holding, Superseded
  <1>7. EntryAge'
    <2> SUFFICES ASSUME NEW g \in Flag, Stale(g)'
                 PROVE  quiet'[g] <= MaxHold + cache[g].age
      BY <1>1 DEF EntryAge
    <2>1. cache[g].age \in Nat
      BY DEF IInv, CacheTypeOK, Entry
    <2>. QED
      BY <1>1, <1>2, <2>1 DEF IInv, CacheTypeOK, EntryAge, Stale, Hit
  <1>. QED
    BY <1>3, <1>4, <1>5, <1>6, <1>7 DEF IInv

LEMMA AnnounceInv ==
    ASSUME IInv, NEW w \in Writer, Delete(w) \/ Publish(w) \/ InvalidationFails(w)
    PROVE  IInv'
  <1> USE CacheAssumption
  <1>1. UNCHANGED <<stored, reader, quiet>>
    BY DEF Delete, Publish, InvalidationFails
  <1>2. /\ cache' \in [Flag -> Entry]
        /\ \A f \in Flag : cache'[f] \in {cache[f], Nothing}
    <2>1. CASE Delete(w)
      <3>1. Nothing \in Entry
        BY DEF Nothing, Entry, Version
      <3>2. PICK f \in writer[w].flag : cache' = [cache EXCEPT ![f] = Nothing]
        BY <2>1 DEF Delete
      <3>. QED
        BY <3>1, <3>2 DEF IInv, CacheTypeOK
    <2>2. CASE Publish(w) \/ InvalidationFails(w)
      BY <2>2 DEF Publish, InvalidationFails, IInv, CacheTypeOK
    <2>. QED
      BY <2>1, <2>2
  <1>3. writer' \in [Writer -> [at : {"idle", "committed", "deleted"}, flag : SUBSET Flag]]
    <2>1. CASE Delete(w)
      BY <2>1 DEF Delete, IInv, CacheTypeOK
    <2>2. CASE Publish(w) \/ InvalidationFails(w)
      BY <2>2 DEF Publish, InvalidationFails, IInv, CacheTypeOK, AtRest
    <2>. QED
      BY <2>1, <2>2
  <1>4. CacheTypeOK'
    BY <1>1, <1>2, <1>3 DEF IInv, CacheTypeOK
  <1>5. VersionNotOverstated' /\ EntryAge'
    BY <1>1, <1>2 DEF IInv, VersionNotOverstated, EntryAge, Stale, Hit
  <1>6. ReaderLabels' /\ ReaderAge'
    BY <1>1 DEF IInv, ReaderLabels, ReaderAge, Holding, Superseded
  <1>. QED
    BY <1>4, <1>5, <1>6 DEF IInv

-----------------------------------------------------------------------------
(* Entries, holds and the time since a commit grow together.               *)
LEMMA TickInv ==
    ASSUME IInv, Tick
    PROVE  IInv'
  <1> USE CacheAssumption
  <1>1. UNCHANGED <<stored, writer>>
    BY DEF Tick
  <1>2. \A f \in Flag : /\ quiet[f] \in Nat /\ quiet'[f] \in 0 .. QuietLimit
                        /\ quiet'[f] <= quiet[f] + 1
    BY DEF Tick, IInv, CacheTypeOK
  <1>3. \A f \in Flag :
          /\ cache'[f] \in Entry
          /\ cache'[f] # Nothing => /\ Hit(f) /\ cache'[f].age = cache[f].age + 1
                                   /\ cache'[f].version = cache[f].version
                                   /\ cache'[f].body = cache[f].body
    <2> TAKE f \in Flag
    <2>1. cache'[f] = Aged(cache[f]) /\ cache[f] \in Entry
      BY DEF Tick, IInv, CacheTypeOK
    <2>2. CASE cache[f] = Nothing \/ cache[f].age = TTL
      <3>1. cache'[f] = Nothing /\ Nothing \in Entry
        BY <2>1, <2>2 DEF Aged, Nothing, Entry, Version
      <3>. QED
        BY <3>1
    <2>3. CASE ~(cache[f] = Nothing \/ cache[f].age = TTL)
      <3>1. cache'[f] = [cache[f] EXCEPT !.age = @ + 1] /\ Hit(f) /\ cache[f].age + 1 \in 0 .. TTL
        BY <2>1, <2>3 DEF Aged, Entry, Hit
      <3>. QED
        BY <2>1, <3>1 DEF Entry
    <2>. QED
      BY <2>2, <2>3
  <1>4. \A r \in Reader :
          /\ Holding(r) => reader'[r] = [reader[r] EXCEPT !.held = @ + 1]
          /\ ~Holding(r) => reader'[r] = reader[r]
          /\ Holding(r) => reader[r].held + 1 \in 0 .. MaxHold
    BY DEF Tick, IInv, CacheTypeOK
  <1>5. CacheTypeOK'
    <2>1. cache' \in [Flag -> Entry]
      BY <1>3 DEF Tick
    <2>2. reader' \in [Reader -> [at : {"idle", "missed", "listed", "loaded"},
                         held : 0 .. MaxHold, rows : Numbers, bodies : Numbers]]
      <3>1. ASSUME NEW r \in Reader
            PROVE  reader'[r] \in [at : {"idle", "missed", "listed", "loaded"},
                                   held : 0 .. MaxHold, rows : Numbers, bodies : Numbers]
        <4>1. reader[r] \in [at : {"idle", "missed", "listed", "loaded"},
                             held : 0 .. MaxHold, rows : Numbers, bodies : Numbers]
          BY DEF IInv, CacheTypeOK
        <4>2. CASE Holding(r)
          <5>1. /\ reader'[r] = [reader[r] EXCEPT !.held = @ + 1]
                /\ reader[r].held + 1 \in 0 .. MaxHold
            BY <1>4, <4>2
          <5>. QED
            BY <4>1, <5>1
        <4>3. CASE ~Holding(r)
          BY <1>4, <4>1, <4>3
        <4>. QED
          BY <4>2, <4>3
      <3>2. DOMAIN reader' = Reader /\ reader' = [r \in Reader |-> reader'[r]]
        BY DEF Tick
      <3>. QED
        BY <3>1, <3>2
    <2>3. quiet' \in [Flag -> 0 .. QuietLimit]
      BY <1>2 DEF Tick
    <2>. QED
      BY <1>1, <2>1, <2>2, <2>3 DEF IInv, CacheTypeOK
  <1>6. VersionNotOverstated'
    BY <1>1, <1>3 DEF IInv, VersionNotOverstated, Hit
  <1>7. \A r \in Reader :
          /\ reader'[r].at = reader[r].at /\ reader'[r].rows = reader[r].rows
          /\ reader'[r].bodies = reader[r].bodies
          /\ reader'[r].held = IF Holding(r) THEN reader[r].held + 1 ELSE reader[r].held
    <2> TAKE r \in Reader
    <2>1. reader[r] \in [at : {"idle", "missed", "listed", "loaded"},
                         held : 0 .. MaxHold, rows : Numbers, bodies : Numbers]
      BY DEF IInv, CacheTypeOK
    <2>2. CASE Holding(r)
      <3>1. reader'[r] = [reader[r] EXCEPT !.held = @ + 1]
        BY <1>4, <2>2
      <3>. QED
        BY <2>1, <2>2, <3>1
    <2>3. CASE ~Holding(r)
      BY <1>4, <2>3
    <2>. QED
      BY <2>2, <2>3
  <1>8. ReaderLabels'
    BY <1>1, <1>7 DEF IInv, ReaderLabels
  <1>9. ReaderAge'
    <2>1. \A r \in Reader : DOMAIN reader[r].rows \subseteq Flag /\ reader[r].held \in Nat
      BY DEF IInv, CacheTypeOK, Numbers
    <2>2. \A f \in Flag, n \in Nat : quiet[f] <= n => quiet'[f] <= n + 1
      BY <1>2
    <2>. QED
      BY <1>1, <1>7, <2>1, <2>2 DEF IInv, ReaderAge, Holding, Superseded
  <1>10. EntryAge'
    <2> SUFFICES ASSUME NEW f \in Flag, Stale(f)'
                 PROVE  quiet'[f] <= MaxHold + cache'[f].age
      BY DEF EntryAge
    <2>1. cache'[f].age = cache[f].age + 1 /\ cache[f].age \in Nat /\ Stale(f)
      BY <1>1, <1>3 DEF IInv, CacheTypeOK, Entry, Stale, Hit
    <2>2. quiet[f] <= MaxHold + cache[f].age
      BY <2>1 DEF IInv, EntryAge
    <2>. QED
      BY <1>2, <2>1, <2>2
  <1>. QED
    BY <1>5, <1>6, <1>8, <1>9, <1>10 DEF IInv

-----------------------------------------------------------------------------
LEMMA NextInv ==
    ASSUME IInv, [CacheNext]_cachevars
    PROVE  IInv'
  <1>1. ASSUME NEW r \in Reader, NEW wanted \in SUBSET Flag, Lookup(r, wanted)
        PROVE  IInv'
    BY <1>1, LookupInv
  <1>2. ASSUME NEW r \in Reader, ReadRows(r) \/ ReadChildren(r) \/ FillFails(r)
        PROVE  IInv'
    BY <1>2, ReadRowsInv, ReadChildrenInv, FillFailsInv
  <1>3. ASSUME NEW r \in Reader, NEW f \in Flag, Fill(r, f)
        PROVE  IInv'
    BY <1>3, FillInv
  <1>4. ASSUME NEW w \in Writer, NEW f \in Flag, CommitVersion(w, f) \/ CommitArchive(w, f)
        PROVE  IInv'
    BY <1>4, CommitInv
  <1>5. ASSUME NEW w \in Writer, Delete(w) \/ Publish(w) \/ InvalidationFails(w)
        PROVE  IInv'
    BY <1>5, AnnounceInv
  <1>6. CASE Tick
    BY <1>6, TickInv
  <1>7. CASE UNCHANGED cachevars
    BY <1>7 DEF cachevars, IInv, CacheTypeOK, VersionNotOverstated, ReaderLabels, ReaderAge,
                EntryAge, Stale, Hit, Holding, Superseded
  <1>. QED
    BY <1>1, <1>2, <1>3, <1>4, <1>5, <1>6, <1>7 DEF CacheNext

(* The inductive invariant of the cache.                                   *)
THEOREM CacheInvariance == CacheSpec => []IInv
  <1>1. CacheInit => IInv
    BY InitInv
  <1>2. IInv /\ [CacheNext]_cachevars => IInv'
    BY NextInv
  <1>. QED
    BY <1>1, <1>2, PTL DEF CacheSpec

(* Every variable of the cache keeps its type (CacheTypeOK).               *)
THEOREM CacheTypeCorrect == CacheSpec => []CacheTypeOK
  <1>1. IInv => CacheTypeOK
    BY DEF IInv
  <1>. QED
    BY <1>1, CacheInvariance, PTL

(* A cached payload never claims a version newer than its body, whatever   *)
(* commits between the SELECTs of the reader that filled it.               *)
THEOREM LabelsAreHonest == CacheSpec => []VersionNotOverstated
  <1>1. IInv => VersionNotOverstated
    BY DEF IInv
  <1>. QED
    BY <1>1, CacheInvariance, PTL

LEMMA EntryAgeBounds == IInv => StaleBounded
  <1> SUFFICES ASSUME IInv, NEW f \in Flag, Stale(f)
               PROVE  quiet[f] <= TTL + MaxHold
    BY DEF StaleBounded
  <1>1. cache[f].age \in 0 .. TTL /\ quiet[f] \in Nat
    BY DEF IInv, CacheTypeOK, Entry
  <1>2. quiet[f] <= MaxHold + cache[f].age
    BY DEF IInv, EntryAge
  <1>. QED
    BY <1>1, <1>2, CacheAssumption

(* Whatever invalidation is lost or overtaken, a stale entry is gone when  *)
(* the time of a fill and a TTL have passed since the last commit.         *)
THEOREM StalenessEnds == CacheSpec => []StaleBounded
  BY EntryAgeBounds, CacheInvariance, PTL
=============================================================================
