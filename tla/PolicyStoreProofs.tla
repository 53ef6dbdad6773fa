-------------------------- MODULE PolicyStoreProofs --------------------------
(***************************************************************************)
(* Proofs, for any number of calls, keys and kept versions, of what        *)
(* PolicyStore says of a policy's row, its history and its copy.           *)
(***************************************************************************)
EXTENDS PolicyStore, FiniteSetTheorems, TLAPS

Had(r) == <<r.version, r.content>> \in ever

\* A policy that was never inserted is blank; the row, the history and what
\* transactions have read are versions that the row had.
TablesAgree ==
  /\ row.state = "absent" => row = Absent
  /\ row.state # "absent" => Had(row)
  /\ SnapshotsAreTrue
  /\ \A c \in Call : stage[c] = "read" /\ kind[c] # "create" =>
       row.state # "absent" /\ Had(seen[c])

StoreOK == StoreTypeOK /\ TablesAgree

\* What is deleted of the history is all that a trim does to it.
LEMMA TrimOnlyDeletes ==
  ASSUME NEW versions, NEW kept \in NewestOf(versions) PROVE kept \subseteq versions
BY DEF NewestOf

\* A definition in force is the row's.
LEMMA InForceType ==
  ASSUME NEW r \in Row PROVE InForce(r) \in Content \cup {NoContent}
BY DEF InForce, Row, Content

\* Whether the last reload was of use is yes or no.
LEMMA StaleIsBoolean ==
  ASSUME StoreTypeOK, NEW c \in Call,
         Authenticate(c) \/ Refuse(c) \/ Query(c) \/ Swap(c) \/ Fail(c)
  PROVE  stale' \in BOOLEAN
<1>1. CASE Swap(c)
  <2>1. stale' = (c \in overtaken)
    BY <1>1 DEF Swap
  <2>2. (c \in overtaken) \in BOOLEAN
    OBVIOUS
  <2> QED
    BY <2>1, <2>2
<1>2. CASE Fail(c)
  <2>1. stale' = (stale \/ Reloading(c))
    BY <1>2 DEF Fail
  <2>2. (stale \/ Reloading(c)) \in BOOLEAN
    OBVIOUS
  <2> QED
    BY <2>1, <2>2
<1>3. CASE Authenticate(c) \/ Refuse(c) \/ Query(c)
  BY <1>3 DEF Authenticate, Refuse, Query, StoreTypeOK
<1> QED
  BY <1>1, <1>2, <1>3

\* Each kind of commit, and seeding, by what it does to the tables.
LEMMA CommitKeepsTables ==
  ASSUME StoreOK, NEW c \in Call, Commit(c) PROVE StoreOK'
<1> USE DEF StoreOK, StoreTypeOK, Content
<1>1. stage' \in [Call -> Stage]
  BY DEF Commit, Stage
<1>2. stage'[c] = "committed" /\ \A d \in Call \ {c} : stage'[d] = stage[d]
  BY DEF Commit
<1>3. /\ row' \in Row
      /\ row'.content \in Content
      /\ row'.state # "absent"
  <2>1. CASE Create(c)
    BY <2>1 DEF Create, Row
  <2>2. CASE Update(c)
    <3>1. seen[c].version \in Nat /\ seen[c].version + 1 \in Nat
      BY DEF Row
    <3>2. row.state # "absent"
      BY <2>2 DEF Commit, Update, TablesAgree
    <3>3. row' = [row EXCEPT !.version = seen[c].version + 1, !.content = c]
      BY <2>2 DEF Update, Updated
    <3> QED
      BY <3>1, <3>2, <3>3 DEF Row
  <2>3. CASE Delete(c)
    <3>1. row.state # "absent"
      BY <2>3 DEF Commit, Delete, TablesAgree
    <3>2. row.content \in Content
      BY <3>1 DEF TablesAgree, Had
    <3>3. row' = [row EXCEPT !.state = "deleted"]
      BY <2>3 DEF Delete
    <3> QED
      BY <3>2, <3>3 DEF Row
  <2> QED
    BY <2>1, <2>2, <2>3 DEF Commit
<1>4. ever' = ever \cup {<<row'.version, row'.content>>}
  BY DEF Commit
<1>5. ever' \subseteq Nat \X Content
  BY <1>3, <1>4 DEF Row
<1>6. history' \subseteq Version /\ \A v \in history' : <<v.version, v.content>> \in ever'
  <2>1. CASE Create(c) \/ Delete(c)
    BY <2>1, <1>4 DEF Create, Delete, TablesAgree, SnapshotsAreTrue
  <2>2. CASE Update(c)
    <3>1. Had(seen[c])
      BY <2>2 DEF Commit, Update, TablesAgree
    <3>2. Snapshot(c) \in Version /\ <<Snapshot(c).version, Snapshot(c).content>> \in ever
      BY <3>1 DEF Snapshot, Had, Version
    <3>3. history' \subseteq history \cup {Snapshot(c)}
      BY <2>2, TrimOnlyDeletes DEF Update
    <3> QED
      BY <3>2, <3>3, <1>4 DEF TablesAgree, SnapshotsAreTrue
  <2> QED
    BY <2>1, <2>2 DEF Commit
<1>7. StoreTypeOK'
  BY <1>1, <1>3, <1>5, <1>6 DEF Commit
<1>8. \A d \in Call : stage'[d] = "read" /\ kind'[d] # "create" => Had(seen[d])'
  BY <1>2, <1>4 DEF Commit, TablesAgree, Had
<1> QED
  BY <1>3, <1>4, <1>6, <1>7, <1>8 DEF TablesAgree, SnapshotsAreTrue, Had

LEMMA BootKeepsTables ==
  ASSUME StoreOK, Boot PROVE StoreOK'
<1> USE DEF StoreOK, StoreTypeOK, Content
<1>1. CASE UNCHANGED tables
  BY <1>1, InForceType DEF Boot, tables, calls, TablesAgree, SnapshotsAreTrue, Had
<1>2. ASSUME row = Absent,
             row' = [state |-> "active", version |-> 1, content |-> Seed],
             history' = {[by |-> Seed, version |-> 1, content |-> Seed]},
             ever' = {<<1, Seed>>}
      PROVE  StoreOK'
  <2>1. row' \in Row /\ history' \subseteq Version /\ ever' \subseteq Nat \X Content
    BY <1>2 DEF Row, Version
  <2>2. cache' \in Content \cup {NoContent}
    BY <2>1, InForceType DEF Boot, InForce, Row
  <2>3. \A c \in Call : ~(stage[c] = "read" /\ kind[c] # "create")
    BY <1>2 DEF TablesAgree, Absent
  <2>4. TablesAgree'
    BY <1>2, <2>3 DEF Boot, calls, TablesAgree, SnapshotsAreTrue, Had
  <2> QED
    BY <2>1, <2>2, <2>4 DEF Boot, calls
<1> QED
  BY <1>1, <1>2 DEF Boot

\* The invariant the others rest on.
THEOREM TablesStayTrue == Spec => []StoreOK
<1>1. Init => StoreOK
  <2> SUFFICES ASSUME Init PROVE StoreOK
    OBVIOUS
  <2>1. Absent \in Row /\ Absent.state = "absent"
    BY DEF Absent, Row
  <2>2. StoreTypeOK
    BY <2>1 DEF Init, StoreTypeOK, Stage
  <2>3. TablesAgree
    BY <2>1 DEF Init, TablesAgree, SnapshotsAreTrue
  <2> QED
    BY <2>2, <2>3 DEF StoreOK
<1>2. StoreOK /\ [Next]_vars => StoreOK'
  <2> SUFFICES ASSUME StoreOK, [Next]_vars PROVE StoreOK'
    OBVIOUS
  <2> USE DEF StoreOK, StoreTypeOK, tables, calls
  <2>1. CASE Boot
    BY <2>1, BootKeepsTables
  <2>2. CASE Stop
    <3>1. stage' \in [Call -> Stage] /\ \A c \in Call : stage'[c] = "read" => stage[c] = "read"
      BY <2>2 DEF Stop, Stage, InProgress, InTransaction, Reloading
    <3> QED
      BY <2>2, <3>1 DEF Stop, TablesAgree, SnapshotsAreTrue, Had
  <2>3. ASSUME NEW c \in Call, Authenticate(c) \/ Refuse(c) \/ Query(c) \/ Swap(c) \/ Fail(c)
        PROVE  StoreOK'
    <3>1. /\ stage' \in [Call -> Stage]
          /\ \A d \in Call : stage'[d] = "read" => stage[d] = "read"
      BY <2>3 DEF Authenticate, Refuse, Query, Swap, Fail, Stage
    <3>2. UNCHANGED <<tables, kind, key, seen>>
      BY <2>3 DEF Authenticate, Refuse, Query, Swap, Fail
    <3>3. /\ found' \in [Call -> Content \cup {NoContent}]
          /\ cache' \in Content \cup {NoContent}
          /\ server' = server
          /\ overtaken' \subseteq Call
      BY <2>3, InForceType DEF Authenticate, Refuse, Query, Swap, Fail, Reloads
    <3>4. stale' \in BOOLEAN
      BY <2>3, StaleIsBoolean
    <3> QED
      BY <3>1, <3>2, <3>3, <3>4 DEF TablesAgree, SnapshotsAreTrue, Had
  <2>4. ASSUME NEW c \in Call, Read(c) PROVE StoreOK'
    <3>1. /\ stage' \in [Call -> Stage] /\ seen' \in [Call -> Row]
          /\ seen'[c] = row /\ \A d \in Call \ {c} : stage'[d] = stage[d] /\ seen'[d] = seen[d]
      BY <2>4 DEF Read, Stage
    <3>2. kind[c] # "create" => row.state # "absent" /\ Had(row)
      BY <2>4 DEF Read, Admitted, TablesAgree
    <3> QED
      BY <2>4, <3>1, <3>2 DEF Read, TablesAgree, SnapshotsAreTrue, Had
  <2>5. ASSUME NEW c \in Call, Commit(c) PROVE StoreOK'
    BY <2>5, CommitKeepsTables
  <2>6. CASE UNCHANGED vars
    BY <2>6 DEF vars, TablesAgree, SnapshotsAreTrue, Had
  <2> QED
    BY <2>1, <2>2, <2>3, <2>4, <2>5, <2>6 DEF Next
<1> QED
  BY <1>1, <1>2, PTL DEF Spec

\* The variables keep their types.
THEOREM StoreTypes == Spec => []StoreTypeOK
<1>1. StoreOK => StoreTypeOK
  BY DEF StoreOK
<1> QED
  BY <1>1, TablesStayTrue, PTL

\* What the history says of the past is true, however updates overlap.
THEOREM HistoryIsTrue == Spec => []SnapshotsAreTrue
<1>1. StoreOK => SnapshotsAreTrue
  BY DEF StoreOK, TablesAgree
<1> QED
  BY <1>1, TablesStayTrue, PTL

-----------------------------------------------------------------------------
(* What no step does to the row *)

\* A deleted policy stays deleted, for any number of calls and keys.
THEOREM DeletedIsGone == Spec => DeletedStaysDeleted
<1>1. ASSUME StoreOK, [Next]_vars, row.state = "deleted" PROVE row'.state = "deleted"
  <2>1. row # Absent /\ row.state # "absent"
    BY <1>1 DEF Absent
  <2>2. CASE Boot \/ Stop
    BY <1>1, <2>1, <2>2 DEF Boot, Stop, tables
  <2>3. ASSUME NEW c \in Call, Commit(c) PROVE row'.state = "deleted"
    BY <1>1, <2>1, <2>3 DEF Commit, Create, Update, Updated, Delete, StoreOK, StoreTypeOK, Row
  <2>4. ASSUME NEW c \in Call,
               Authenticate(c) \/ Read(c) \/ Refuse(c) \/ Query(c) \/ Swap(c) \/ Fail(c)
        PROVE  row' = row
    BY <2>4 DEF Authenticate, Read, Refuse, Query, Swap, Fail, tables
  <2>5. UNCHANGED vars => row' = row
    BY DEF vars, tables
  <2> QED
    BY <1>1, <2>2, <2>3, <2>4, <2>5 DEF Next
<1>2. StoreOK /\ [Next]_vars => [row.state = "deleted" => row'.state = "deleted"]_vars
  BY <1>1
<1> QED
  BY <1>2, TablesStayTrue, PTL DEF Spec, DeletedStaysDeleted

\* A server that is down works at nothing.
DownIsIdle == server = "down" => \A c \in Call : ~InProgress(c)

\* With one key there is one transaction at a time, and what it has read is
\* the row.
TakeTurns ==
  OneKey =>
    /\ \A c, d \in Call : InTransaction(c) /\ InTransaction(d) => c = d
    /\ \A c \in Call : stage[c] = "read" => seen[c] = row

TurnsOK == DownIsIdle /\ TakeTurns

\* Calls are not forgotten: one key now was one key before.
LEMMA OneKeyBefore ==
  ASSUME StoreTypeOK, [Next]_vars, OneKey' PROVE OneKey
<1>1. key' = key
  BY DEF Next, vars, calls, Boot, Stop, Authenticate, Read, Refuse, Commit, Query, Swap, Fail
<1>2. \A c \in Call : stage[c] # "idle" => stage'[c] # "idle"
  BY DEF StoreTypeOK, Next, vars, calls, Boot, Stop, Authenticate, Read, Refuse, Commit,
         Query, Swap, Fail
<1> QED
  BY <1>1, <1>2 DEF OneKey

LEMMA TurnsAreKept == StoreOK /\ TurnsOK /\ [Next]_vars => TurnsOK'
<1> SUFFICES ASSUME StoreOK, TurnsOK, [Next]_vars PROVE TurnsOK'
  OBVIOUS
<1> USE DEF StoreOK, StoreTypeOK, TurnsOK, DownIsIdle, TakeTurns, InTransaction, Reloading,
            InProgress
<1>1. CASE Boot
  <2>1. stage' = stage /\ seen' = seen /\ server = "down" /\ server' = "up"
    BY <1>1 DEF Boot, calls
  <2> QED
    BY <2>1
<1>2. CASE Stop
  <2>1. \A c \in Call : ~InProgress(c)'
    BY <1>2 DEF Stop
  <2> QED
    BY <2>1
<1>3. ASSUME NEW c \in Call, Authenticate(c) PROVE TurnsOK'
  <2>1. /\ stage'[c] = "authenticated" /\ \A d \in Call \ {c} : stage'[d] = stage[d]
        /\ server = "up" /\ UNCHANGED <<server, row, seen, key>>
    BY <1>3 DEF Authenticate, tables
  <2>2. ASSUME OneKey', NEW d \in Call \ {c} PROVE ~InTransaction(d)
    <3>1. stage[d] # "idle" => key[d] = key[c]
      BY <2>1, <2>2 DEF OneKey
    <3> QED
      BY <3>1, <1>3 DEF Authenticate, KeyFree
  <2> QED
    BY <2>1, <2>2, OneKeyBefore
<1>4. ASSUME NEW c \in Call, Read(c) PROVE TurnsOK'
  <2>1. /\ stage[c] = "authenticated"
        /\ stage'[c] = "read" /\ \A d \in Call \ {c} : stage'[d] = stage[d] /\ seen'[d] = seen[d]
        /\ seen'[c] = row /\ UNCHANGED <<server, row>>
    BY <1>4 DEF Read, tables
  <2> QED
    BY <2>1, OneKeyBefore
<1>5. ASSUME NEW c \in Call, Commit(c) PROVE TurnsOK'
  <2>1. /\ stage[c] = "read"
        /\ stage'[c] = "committed" /\ \A d \in Call \ {c} : stage'[d] = stage[d]
        /\ UNCHANGED <<server, seen>>
    BY <1>5 DEF Commit
  <2> QED
    BY <2>1, OneKeyBefore
<1>6. ASSUME NEW c \in Call, Refuse(c) \/ Query(c) \/ Swap(c) \/ Fail(c) PROVE TurnsOK'
  <2>1. /\ \A d \in Call : stage'[d] \in {"authenticated", "read"} => stage'[d] = stage[d]
        /\ \A d \in Call : InProgress(d)' => InProgress(d)
        /\ UNCHANGED <<server, row, seen>>
    BY <1>6 DEF Refuse, Query, Swap, Fail, tables
  <2> QED
    BY <2>1, OneKeyBefore
<1>7. CASE UNCHANGED vars
  BY <1>7 DEF vars, tables, calls, OneKey
<1> QED
  BY <1>1, <1>2, <1>3, <1>4, <1>5, <1>6, <1>7 DEF Next

\* The calls of one key have their transactions one after the other.
THEOREM CallsTakeTurns == Spec => []TurnsOK
<1>1. Init => TurnsOK
  BY DEF Init, TurnsOK, DownIsIdle, TakeTurns, InTransaction, Reloading, InProgress
<1> QED
  BY <1>1, TurnsAreKept, TablesStayTrue, PTL DEF Spec

\* With one API key, versions are consecutive: nothing else keeps two
\* updates from reading the same version.
THEOREM VersionsAreConsecutive == Spec => VersionsCountUp
<1>3. ASSUME StoreOK, TurnsOK, [Next]_vars, OneKey', row'.content # row.content
      PROVE  row'.version = row.version + 1
  <2>1. OneKey
    BY <1>3, OneKeyBefore DEF StoreOK
  <2>2. Absent.version = 0
    BY DEF Absent
  <2>3. CASE Boot
    BY <1>3, <2>2, <2>3 DEF Boot, tables
  <2>4. ASSUME NEW c \in Call, Commit(c) PROVE row'.version = row.version + 1
    <3>1. CASE Create(c)
      BY <2>2, <3>1, <1>3 DEF Create, StoreOK, TablesAgree
    <3>2. CASE Update(c)
      <4>1. seen[c] = row
        BY <2>1, <2>4, <1>3 DEF Commit, TurnsOK, TakeTurns
      <4> QED
        BY <4>1, <3>2, <1>3 DEF Update, Updated, StoreOK, StoreTypeOK, Row
    <3>3. CASE Delete(c)
      BY <3>3, <1>3 DEF Delete, StoreOK, StoreTypeOK, Row
    <3> QED
      BY <2>4, <3>1, <3>2, <3>3 DEF Commit
  <2>5. ASSUME NEW c \in Call,
               Stop \/ Authenticate(c) \/ Read(c) \/ Refuse(c) \/ Query(c) \/ Swap(c) \/ Fail(c)
        PROVE  row' = row
    BY <2>5 DEF Stop, Authenticate, Read, Refuse, Query, Swap, Fail, tables
  <2>6. Stop \/ UNCHANGED vars => row' = row
    BY DEF Stop, vars, tables
  <2> QED
    BY <1>3, <2>3, <2>4, <2>5, <2>6 DEF Next
<1>4. StoreOK /\ TurnsOK /\ [Next]_vars =>
        [OneKey' /\ row'.content # row.content => row'.version = row.version + 1]_vars
  BY <1>3
<1> QED
  BY <1>4, CallsTakeTurns, TablesStayTrue, PTL DEF Spec, VersionsCountUp

-----------------------------------------------------------------------------
(* The copy that interrupts are routed by *)

\* What a reload has found is what is in force, unless a commit has
\* overtaken it, and the copy is behind the row only while a reload is under
\* way, or after one that failed or was overtaken.
CopyFollows ==
  /\ \A c \in Call : stage[c] = "queried" /\ c \notin overtaken => found[c] = InForce(row)
  /\ CacheIsRow

LEMMA CommitKeepsCopy ==
  ASSUME StoreOK, CopyFollows, NEW c \in Call, Commit(c) PROVE CopyFollows'
<1>1. stage'[c] = "committed" /\ \A d \in Call \ {c} : stage'[d] = stage[d]
  BY DEF Commit, StoreOK, StoreTypeOK
<1>2. Reloading(c)'
  BY <1>1 DEF Reloading
<1>3. \A d \in Call : stage'[d] = "queried" => d \in overtaken'
  BY <1>1 DEF Commit
<1> QED
  BY <1>2, <1>3 DEF CopyFollows, CacheIsRow

LEMMA EndingKeepsCopy ==
  ASSUME StoreOK, CopyFollows, NEW c \in Call, Refuse(c) \/ Swap(c) \/ Fail(c)
  PROVE  CopyFollows'
<1>1. /\ stage'[c] \in {"refused", "done", "failed"}
      /\ \A d \in Call \ {c} : stage'[d] = stage[d] /\ (d \in overtaken' <=> d \in overtaken)
      /\ UNCHANGED <<row, server, found>>
  BY DEF Refuse, Swap, Fail, StoreOK, StoreTypeOK, tables
<1>2. CacheIsRow'
  <2>1. CASE Swap(c)
    <3>1. c \notin overtaken => cache' = InForce(row)
      BY <2>1 DEF Swap, CopyFollows
    <3>2. ~stale' => c \notin overtaken
      BY <2>1 DEF Swap
    <3> QED
      BY <1>1, <3>1, <3>2 DEF CacheIsRow
  <2>2. CASE Refuse(c) \/ (Fail(c) /\ ~Reloading(c))
    <3>1. UNCHANGED <<cache, server>> /\ (~stale' => ~stale)
      BY <2>2 DEF Fail, Refuse, StoreOK, StoreTypeOK
    <3>2. ~Reloading(c)
      BY <2>2 DEF Refuse, Reloading
    <3>3. \A d \in Call : ~Reloading(d)' => ~Reloading(d)
      BY <1>1, <3>2 DEF Reloading
    <3> QED
      BY <1>1, <3>1, <3>3 DEF CopyFollows, CacheIsRow
  <2>3. CASE Fail(c) /\ Reloading(c)
    BY <2>3 DEF Fail, CacheIsRow
  <2> QED
    BY <2>1, <2>2, <2>3
<1> QED
  BY <1>1, <1>2 DEF CopyFollows

\* However calls overlap, between reloads the copy is the row's, unless the
\* last reload failed or another call committed during it.
THEOREM CopyIsCurrent == Spec => []CacheIsRow
<1>1. Init => CopyFollows
  BY DEF Init, CopyFollows, CacheIsRow
<1>2. StoreOK /\ DownIsIdle /\ CopyFollows /\ [Next]_vars => CopyFollows'
  <2> SUFFICES ASSUME StoreOK, DownIsIdle, CopyFollows, [Next]_vars PROVE CopyFollows'
    OBVIOUS
  <2> USE DEF StoreOK, StoreTypeOK
  <2>1. CASE Boot
    <3>1. \A c \in Call : stage'[c] # "queried"
      BY <2>1 DEF Boot, calls, DownIsIdle, InProgress, Reloading
    <3> QED
      BY <2>1, <3>1 DEF Boot, CopyFollows, CacheIsRow
  <2>2. CASE Stop
    <3>1. \A c \in Call : stage'[c] # "queried"
      BY <2>2 DEF Stop, InProgress, Reloading
    <3> QED
      BY <2>2, <3>1 DEF Stop, CopyFollows, CacheIsRow
  <2>3. ASSUME NEW c \in Call, Authenticate(c) \/ Read(c) PROVE CopyFollows'
    <3>1. /\ stage[c] \in {"idle", "authenticated"} /\ stage'[c] \in {"authenticated", "read"}
          /\ \A d \in Call \ {c} : stage'[d] = stage[d]
          /\ UNCHANGED <<row, cache, server, found, overtaken, stale>>
      BY <2>3 DEF Authenticate, Read, tables
    <3> QED
      BY <3>1 DEF CopyFollows, CacheIsRow, Reloading
  <2>4. ASSUME NEW c \in Call, Commit(c) PROVE CopyFollows'
    BY <2>4, CommitKeepsCopy
  <2>5. ASSUME NEW c \in Call, Query(c) PROVE CopyFollows'
    <3>1. /\ stage'[c] = "queried" /\ found'[c] = InForce(row) /\ row' = row
          /\ \A d \in Call \ {c} : stage'[d] = stage[d] /\ found'[d] = found[d]
          /\ UNCHANGED overtaken
      BY <2>5 DEF Query, Reloads, tables
    <3>2. Reloading(c)'
      BY <3>1 DEF Reloading
    <3> QED
      BY <3>1, <3>2 DEF CopyFollows, CacheIsRow
  <2>6. ASSUME NEW c \in Call, Refuse(c) \/ Swap(c) \/ Fail(c) PROVE CopyFollows'
    BY <2>6, EndingKeepsCopy
  <2>7. CASE UNCHANGED vars
    BY <2>7 DEF vars, tables, calls, CopyFollows, CacheIsRow, Reloading
  <2> QED
    BY <2>1, <2>2, <2>3, <2>4, <2>5, <2>6, <2>7 DEF Next
<1>3. TurnsOK => DownIsIdle
  BY DEF TurnsOK
<1>4. CopyFollows => CacheIsRow
  BY DEF CopyFollows
<1> QED
  BY <1>1, <1>2, <1>3, <1>4, CallsTakeTurns, TablesStayTrue, PTL DEF Spec

-----------------------------------------------------------------------------
(* What the history keeps *)

\* With one key a version has one definition, and from the second version on
\* one entry in the history at most: only seeding writes an entry for the
\* version that is current.
VersionsAreTold ==
  /\ \A p \in ever : p[1] \in 1..row.version
  /\ \A p, q \in ever : p[1] = q[1] => p = q
  /\ \A v \in history : v.version < row.version \/ row.version = 1
  /\ \A v, w \in history : v.version = w.version /\ v.version > 1 => v = w

HistoryOK == OneKey => VersionsAreTold /\ HistoryKeepsTheLast

\* Entries of different versions are no more than there are versions.
LEMMA AsManyAsVersions ==
  ASSUME NEW kept, NEW lo \in Nat, NEW hi \in Nat, lo <= hi,
         \A v \in kept : v.version \in (lo + 1)..hi,
         \A v, w \in kept : v.version = w.version => v = w
  PROVE  Cardinality(kept) <= hi - lo
<1> DEFINE f == [v \in kept |-> v.version]
           T == (lo + 1)..hi
<1>1. f \in Injection(kept, T)
  BY DEF Injection, IsInjective
<1>2. IsFiniteSet(T) /\ Cardinality(T) = hi - lo
  <2>1. lo + 1 \in Int /\ hi \in Int
    OBVIOUS
  <2>2. IsFiniteSet(T) /\ Cardinality(T) = IF lo + 1 > hi THEN 0 ELSE hi - (lo + 1) + 1
    BY <2>1, FS_Interval
  <2>3. (IF lo + 1 > hi THEN 0 ELSE hi - (lo + 1) + 1) = hi - lo
    OBVIOUS
  <2> HIDE DEF T
  <2> QED
    BY <2>2, <2>3
<1> HIDE DEF f, T
<1> QED
  BY <1>1, <1>2, FS_Injection

\* A trim leaves an entry of each of the last KeepVersions versions there are
\* entries of.
LEMMA TrimKeepsTheLast ==
  ASSUME StoreAssumption, NEW versions, NEW kept \in NewestOf(versions), NEW top \in Nat,
         \A v \in versions : v.version \in Nat /\ v.version <= top,
         \A v, w \in versions : v.version = w.version /\ v.version > 1 => v = w,
         NEW v \in versions, v.version >= 1, v.version > top - KeepVersions
  PROVE  \E w \in kept : w.version = v.version
<1> SUFFICES ASSUME \A w \in kept : w.version # v.version PROVE FALSE
  OBVIOUS
<1>1. kept \subseteq versions /\ v \notin kept /\ Cardinality(kept) = KeepVersions
  BY DEF NewestOf
<1>2. \A w \in kept : w.version \in (v.version + 1)..top
  BY <1>1 DEF NewestOf
<1>3. \A w, u \in kept : w.version = u.version => w = u
  BY <1>1, <1>2
<1>4. v.version \in Nat /\ v.version <= top
  OBVIOUS
<1>5. Cardinality(kept) <= top - v.version
  BY <1>2, <1>3, <1>4, AsManyAsVersions
<1> QED
  BY <1>1, <1>4, <1>5, StoreAssumption DEF StoreAssumption

LEMMA UpdateKeepsHistory ==
  ASSUME StoreOK, StoreOK', TurnsOK, HistoryOK, OneKey, NEW c \in Call, Commit(c), Update(c)
  PROVE  VersionsAreTold' /\ HistoryKeepsTheLast'
<1> USE DEF StoreOK, StoreTypeOK
<1>1. /\ seen[c] = row /\ row.state # "absent" /\ <<row.version, row.content>> \in ever
      /\ row.version \in Nat /\ row.version >= 1
  <2>1. seen[c] = row
    BY DEF Commit, TurnsOK, TakeTurns
  <2>2. row.state # "absent"
    BY DEF Commit, Update, TablesAgree
  <2>3. <<row.version, row.content>> \in ever
    BY <2>2 DEF TablesAgree, Had
  <2>4. row.version \in Nat
    BY DEF Row
  <2> QED
    BY <2>1, <2>2, <2>3, <2>4 DEF HistoryOK, VersionsAreTold
<1>2. row'.version = row.version + 1 /\ row'.content = c
  BY <1>1 DEF Update, Updated, Row
<1>3. ever' = ever \cup {<<row.version + 1, c>>}
  BY <1>2 DEF Commit
<1> DEFINE entry == Snapshot(c)
           versions == history \cup {entry}
<1>4. entry.version = row.version /\ entry.content = row.content
  BY <1>1 DEF Snapshot
<1>5. history' \in NewestOf(versions)
  BY DEF Update
<1>6. history' \subseteq versions
  BY <1>5, TrimOnlyDeletes
<1>7. \A v \in history : v.version \in Nat /\ v.version <= row.version
  <2> SUFFICES ASSUME NEW v \in history PROVE v.version \in Nat /\ v.version <= row.version
    OBVIOUS
  <2>1. <<v.version, v.content>> \in ever
    BY DEF TablesAgree, SnapshotsAreTrue
  <2>2. <<v.version, v.content>>[1] \in 1..row.version
    BY <2>1 DEF HistoryOK, VersionsAreTold
  <2> QED
    BY <1>1, <2>2
<1>8. \A v, w \in versions : v.version = w.version /\ v.version > 1 => v = w
  BY <1>1, <1>4, <1>7 DEF HistoryOK, VersionsAreTold
<1>9. \A v \in versions : v.version \in Nat /\ v.version <= row.version
  BY <1>1, <1>4, <1>7
<1> HIDE DEF entry, versions
<1>10. VersionsAreTold'
  <2>1. \A p \in ever' : p[1] \in 1..row'.version
    BY <1>1, <1>2, <1>3 DEF HistoryOK, VersionsAreTold
  <2>2. \A p, q \in ever' : p[1] = q[1] => p = q
    BY <1>1, <1>3 DEF HistoryOK, VersionsAreTold
  <2>3. \A v \in history' : v.version < row'.version
    BY <1>1, <1>2, <1>6, <1>9
  <2>4. \A v, w \in history' : v.version = w.version /\ v.version > 1 => v = w
    BY <1>6, <1>8
  <2> QED
    BY <2>1, <2>2, <2>3, <2>4 DEF VersionsAreTold
<1>11. HistoryKeepsTheLast'
  <2> SUFFICES ASSUME NEW p \in ever', p[1] \in (row'.version - KeepVersions)..(row'.version - 1)
               PROVE  \E v \in history' : v.version = p[1] /\ v.content = p[2]
    BY DEF HistoryKeepsTheLast
  <2>1. p \in ever /\ p[1] \in Nat /\ p[1] >= 1 /\ p[1] <= row.version /\ p[1] > row.version - KeepVersions
    BY <1>1, <1>2, <1>3, StoreAssumption DEF StoreAssumption, HistoryOK, VersionsAreTold
  <2>2. \E v \in versions : v.version = p[1]
    <3>1. CASE p[1] = row.version
      BY <1>4, <3>1 DEF versions
    <3>2. CASE p[1] # row.version
      <4>1. p[1] \in (row.version - KeepVersions)..(row.version - 1)
        BY <1>1, <2>1, <3>2, StoreAssumption DEF StoreAssumption
      <4> QED
        BY <2>1, <4>1 DEF HistoryOK, HistoryKeepsTheLast, versions
    <3> QED
      BY <3>1, <3>2
  <2>3. PICK v \in history' : v.version = p[1]
    BY <1>1, <1>5, <1>8, <1>9, <2>1, <2>2, StoreAssumption, TrimKeepsTheLast
  <2>4. <<v.version, v.content>> \in ever'
    BY DEF TablesAgree, SnapshotsAreTrue
  <2>5. p = <<p[1], p[2]>>
    BY <2>1
  <2>6. <<v.version, v.content>> = p
    BY <1>10, <2>3, <2>4, <2>5 DEF VersionsAreTold
  <2> QED
    BY <2>3, <2>5, <2>6
<1> QED
  BY <1>10, <1>11

\* The numbering and the history stay in step.
THEOREM HistoryStaysInStep == Spec => []HistoryOK
<1>1. Init => HistoryOK
  BY DEF Init, HistoryOK, VersionsAreTold, HistoryKeepsTheLast
<1>2. StoreOK /\ StoreOK' /\ TurnsOK /\ HistoryOK /\ [Next]_vars => HistoryOK'
  <2> SUFFICES ASSUME StoreOK, StoreOK', TurnsOK, HistoryOK, [Next]_vars, OneKey'
               PROVE  VersionsAreTold' /\ HistoryKeepsTheLast'
    BY DEF HistoryOK
  <2>0. OneKey
    BY OneKeyBefore DEF StoreOK
  <2>1. CASE UNCHANGED tables
    BY <2>0, <2>1 DEF tables, HistoryOK, VersionsAreTold, HistoryKeepsTheLast
  <2>2. ASSUME row = Absent \/ row.state = "absent",
               row'.version = 1, NEW x, ever' = ever \cup {<<1, x>>},
               history' = history \/ history' = {[by |-> x, version |-> 1, content |-> x]}
        PROVE  VersionsAreTold' /\ HistoryKeepsTheLast'
    <3>1. row.version = 0
      BY <2>2 DEF StoreOK, TablesAgree, Absent
    <3>2. ever = {}
      BY <2>0, <3>1 DEF HistoryOK, VersionsAreTold
    <3>3. history = {}
      BY <3>2 DEF StoreOK, TablesAgree, SnapshotsAreTrue
    <3>4. ever' = {<<1, x>>} /\ (history' = {} \/ history' = {[by |-> x, version |-> 1, content |-> x]})
      BY <2>2, <3>2, <3>3
    <3>5. VersionsAreTold'
      BY <2>2, <3>4 DEF VersionsAreTold
    <3>6. HistoryKeepsTheLast'
      BY <2>2, <3>4, StoreAssumption DEF HistoryKeepsTheLast, StoreAssumption
    <3> QED
      BY <3>5, <3>6
  <2>3. CASE Boot
    <3>1. CASE UNCHANGED tables
      BY <2>1, <3>1
    <3>2. CASE ~UNCHANGED tables
      <4>1. /\ row = Absent /\ row'.version = 1
            /\ history' = {[by |-> Seed, version |-> 1, content |-> Seed]}
            /\ ever' = {<<1, Seed>>}
        BY <2>3, <3>2 DEF Boot
      <4>2. ever = {}
        BY <2>0, <4>1 DEF HistoryOK, VersionsAreTold, Absent
      <4> QED
        BY <2>2, <4>1, <4>2
    <3> QED
      BY <3>1, <3>2
  <2>4. ASSUME NEW c \in Call, Commit(c) PROVE VersionsAreTold' /\ HistoryKeepsTheLast'
    <3>1. CASE Create(c)
      <4>1. row'.version = 1 /\ ever' = ever \cup {<<1, c>>} /\ history' = history
        BY <2>4, <3>1 DEF Commit, Create
      <4> QED
        BY <2>2, <3>1, <4>1 DEF Create
    <3>2. CASE Update(c)
      BY <2>0, <2>4, <3>2, UpdateKeepsHistory
    <3>3. CASE Delete(c)
      <4>1. row.state # "absent" /\ Had(row)
        BY <2>4, <3>3 DEF Commit, Delete, StoreOK, TablesAgree
      <4>2. row'.version = row.version /\ row'.content = row.content /\ history' = history
        BY <3>3 DEF Delete, StoreOK, StoreTypeOK, Row
      <4>3. ever' = ever
        BY <2>4, <4>1, <4>2 DEF Commit, Had
      <4> QED
        BY <2>0, <4>2, <4>3 DEF HistoryOK, VersionsAreTold, HistoryKeepsTheLast
    <3> QED
      BY <2>4, <3>1, <3>2, <3>3 DEF Commit
  <2>5. ASSUME NEW c \in Call,
               Authenticate(c) \/ Read(c) \/ Refuse(c) \/ Query(c) \/ Swap(c) \/ Fail(c)
        PROVE  UNCHANGED tables
    BY <2>5 DEF Authenticate, Read, Refuse, Query, Swap, Fail
  <2>6. Stop \/ UNCHANGED vars => UNCHANGED tables
    BY DEF Stop, vars
  <2> QED
    BY <2>1, <2>3, <2>4, <2>5, <2>6 DEF Next
<1> QED
  BY <1>1, <1>2, CallsTakeTurns, TablesStayTrue, PTL DEF Spec

\* While one key is used the history has the last versions of the policy.
THEOREM HistoryIsKept == Spec => []HistoryKeepsTheLast
<1>1. HistoryOK => HistoryKeepsTheLast
  BY DEF HistoryOK, HistoryKeepsTheLast
<1> QED
  BY <1>1, HistoryStaysInStep, PTL

-----------------------------------------------------------------------------
(* The refinement of PolicyRegister *)

\* A policy without a row has no past, and what a call is to write has not
\* been there: every call commits once.
NothingTwice ==
  /\ row.state = "absent" => ever = {}
  /\ \A c \in Call : stage[c] \in {"idle", "authenticated", "read"} => \A p \in ever : p[2] # c

LEMMA NothingTwiceStays ==
  StoreOK /\ StoreOK' /\ NothingTwice /\ [Next]_vars => NothingTwice'
<1> SUFFICES ASSUME StoreOK, StoreOK', NothingTwice, [Next]_vars PROVE NothingTwice'
  OBVIOUS
<1> USE DEF StoreOK, StoreTypeOK, NothingTwice
<1>1. CASE Boot
  BY <1>1, StoreAssumption DEF Boot, calls, tables, StoreAssumption
<1>2. CASE Stop
  BY <1>2 DEF Stop, tables, InProgress
<1>3. ASSUME NEW c \in Call, Commit(c) PROVE NothingTwice'
  <2>1. /\ stage[c] = "read" /\ stage'[c] = "committed"
        /\ \A d \in Call \ {c} : stage'[d] = stage[d]
        /\ ever' = ever \cup {<<row'.version, row'.content>>}
    BY <1>3 DEF Commit
  <2>2. row'.state # "absent" /\ (row'.content = c \/ <<row'.version, row'.content>> \in ever)
    <3>1. CASE Create(c)
      BY <3>1 DEF Create
    <3>2. CASE Update(c)
      BY <1>3, <3>2 DEF Commit, Update, Updated, TablesAgree, Row
    <3>3. CASE Delete(c)
      BY <1>3, <3>3 DEF Commit, Delete, TablesAgree, Row, Had
    <3> QED
      BY <1>3, <3>1, <3>2, <3>3 DEF Commit
  <2> QED
    BY <2>1, <2>2
<1>4. ASSUME NEW c \in Call,
             Authenticate(c) \/ Read(c) \/ Refuse(c) \/ Query(c) \/ Swap(c) \/ Fail(c)
      PROVE  NothingTwice'
  <2>1. /\ UNCHANGED tables
        /\ \A d \in Call : stage'[d] \in {"idle", "authenticated", "read"}
                             => stage[d] \in {"idle", "authenticated", "read"}
    BY <1>4 DEF Authenticate, Read, Refuse, Query, Swap, Fail
  <2> QED
    BY <2>1 DEF tables
<1>5. CASE UNCHANGED vars
  BY <1>5 DEF vars, tables, calls
<1> QED
  BY <1>1, <1>2, <1>3, <1>4, <1>5 DEF Next

\* No call writes what was written before, and what was never created was
\* never written.
THEOREM NothingIsWrittenTwice == Spec => []NothingTwice
<1>1. Init => NothingTwice
  BY DEF Init, NothingTwice
<1> QED
  BY <1>1, NothingTwiceStays, TablesStayTrue, PTL DEF Spec

LEMMA CreateIsInstall ==
  ASSUME StoreOK, NothingTwice, NEW c \in Call, Commit(c), Create(c)
  PROVE  Register!Install(c)
<1>1. history = {} /\ ever = {}
  BY DEF Create, NothingTwice, StoreOK, TablesAgree, SnapshotsAreTrue
<1> QED
  BY <1>1 DEF Commit, Create, Register!Install

LEMMA UpdateIsChange ==
  ASSUME StoreOK, NothingTwice, NEW c \in Call, Commit(c), Update(c)
  PROVE  /\ <<seen[c].version, seen[c].content>> \in ever
         /\ Register!Change(<<seen[c].version, seen[c].content>>, c)
<1> DEFINE base == <<seen[c].version, seen[c].content>>
<1>1. row.state # "absent" /\ base \in ever
  BY DEF Commit, Update, StoreOK, TablesAgree, Had
<1>2. \A p \in ever : p[2] # c
  BY DEF Commit, NothingTwice
<1>3. row'.state = row.state /\ row'.version = seen[c].version + 1 /\ row'.content = c
  BY DEF Update, Updated, StoreOK, StoreTypeOK, Row
<1>4. ever' = ever \cup {<<seen[c].version + 1, c>>}
  BY <1>3 DEF Commit
<1>5. \A v \in history' : v \in history \/ <<v.version, v.content>> = base
  BY TrimOnlyDeletes DEF Update, Snapshot
<1>6. {<<v.version, v.content>> : v \in history'} \subseteq {<<v.version, v.content>> : v \in history} \cup {base}
  BY <1>5
<1> QED
  BY <1>1, <1>2, <1>3, <1>4, <1>6 DEF Register!Change

LEMMA DeleteIsRetire ==
  ASSUME StoreOK, NEW c \in Call, Commit(c), Delete(c) PROVE Register!Retire
<1>1. row.state # "absent" /\ Had(row)
  BY DEF Commit, Delete, StoreOK, TablesAgree
<1>2. row'.state = "deleted" /\ row'.version = row.version /\ row'.content = row.content /\ history' = history
  BY DEF Delete, StoreOK, StoreTypeOK, Row
<1>3. ever' = ever
  BY <1>1, <1>2 DEF Commit, Had
<1> QED
  BY <1>1, <1>2, <1>3 DEF Register!Retire

LEMMA OtherStepsKeepRegister ==
  ASSUME \/ Stop \/ UNCHANGED vars
         \/ \E c \in Call :
              Authenticate(c) \/ Read(c) \/ Refuse(c) \/ Query(c) \/ Swap(c) \/ Fail(c)
  PROVE  UNCHANGED Register!vars
<1>1. UNCHANGED tables
  BY DEF Authenticate, Read, Refuse, Query, Swap, Fail, Stop, vars
<1> QED
  BY <1>1 DEF tables, Register!vars

LEMMA BootIsInstall ==
  ASSUME StoreOK, NothingTwice, Boot
  PROVE  Register!Install(Seed) \/ UNCHANGED Register!vars
<1>1. CASE UNCHANGED tables
  BY <1>1 DEF tables, Register!vars
<1>2. CASE ~UNCHANGED tables
  BY <1>2 DEF Boot, Absent, Register!Install
<1> QED
  BY <1>1, <1>2

LEMMA RegisterStarts == Init => Register!Init
BY DEF Init, Absent, Register!Init

\* Whatever overlaps, the policy is a register of versions.
THEOREM StoreImplementsRegister == Spec => ImplementsRegister
<1>1. StoreOK /\ NothingTwice /\ [Next]_vars => [Register!Next]_Register!vars
  <2> SUFFICES ASSUME StoreOK, NothingTwice, [Next]_vars PROVE [Register!Next]_Register!vars
    OBVIOUS
  <2>1. CASE Boot
    BY <2>1, BootIsInstall DEF Register!Next, Content
  <2>2. ASSUME NEW c \in Call, Commit(c) PROVE Register!Next
    BY <2>2, CreateIsInstall, UpdateIsChange, DeleteIsRetire DEF Commit, Register!Next, Content
  <2> QED
    BY <2>1, <2>2, OtherStepsKeepRegister DEF Next
<1> QED
  BY <1>1, RegisterStarts, TablesStayTrue, NothingIsWrittenTwice, PTL
     DEF Spec, ImplementsRegister, Register!Spec

\* With one key every update replaces the version in force.
THEOREM OneKeyUpdatesInTurn == Spec => UpdatesInTurn
<1>1. ASSUME StoreOK, TurnsOK, HistoryOK', NothingTwice, [Next]_vars, OneKey'
      PROVE  Register!NextInTurn \/ UNCHANGED Register!vars
  <2>0. OneKey
    BY <1>1, OneKeyBefore DEF StoreOK
  <2>1. CASE Boot
    BY <1>1, <2>1, BootIsInstall DEF Register!NextInTurn, Content
  <2>2. ASSUME NEW c \in Call, Commit(c) PROVE Register!NextInTurn
    <3>1. CASE Create(c)
      BY <1>1, <2>2, <3>1, CreateIsInstall DEF Register!NextInTurn, Content
    <3>2. CASE Update(c)
      <4>1. seen[c] = row
        BY <1>1, <2>0, <2>2 DEF Commit, TurnsOK, TakeTurns
      <4>2. Register!Change(<<row.version, row.content>>, c)
        BY <1>1, <2>2, <3>2, <4>1, UpdateIsChange
      <4>3. ASSUME NEW p \in ever, p[1] \in (row'.version - KeepVersions)..(row'.version - 1)
            PROVE  p \in {<<v.version, v.content>> : v \in history'}
        <5>1. p \in ever' /\ p = <<p[1], p[2]>>
          BY <1>1, <2>2 DEF Commit, StoreOK, StoreTypeOK
        <5> QED
          BY <1>1, <4>3, <5>1 DEF HistoryOK, HistoryKeepsTheLast
      <4> QED
        BY <4>2, <4>3 DEF Register!NextInTurn, Register!ChangeInTurn, Content
    <3>3. CASE Delete(c)
      BY <1>1, <2>2, <3>3, DeleteIsRetire DEF Register!NextInTurn
    <3> QED
      BY <2>2, <3>1, <3>2, <3>3 DEF Commit
  <2> QED
    BY <1>1, <2>1, <2>2, OtherStepsKeepRegister DEF Next
<1>2. StoreOK /\ TurnsOK /\ HistoryOK' /\ NothingTwice /\ [Next]_vars
        => [OneKey' => Register!NextInTurn]_Register!vars
  BY <1>1
<1> QED
  BY <1>2, TablesStayTrue, CallsTakeTurns, HistoryStaysInStep, NothingIsWrittenTwice, PTL
     DEF Spec, UpdatesInTurn

=============================================================================
