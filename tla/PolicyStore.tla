----------------------------- MODULE PolicyStore -----------------------------
(***************************************************************************)
(* One policy of the Deliberate server: its row in the table policies, its *)
(* history in policy_versions, and the copy in the memory of the server    *)
(* process that interrupts are routed by.                                  *)
(*                                                                         *)
(*  - POST, PUT and DELETE /policies (api/routes/policies.py) change the   *)
(*    row in one transaction and reload the copy in a session of its own.  *)
(*  - At start-up the server seeds the row from a YAML file if the table   *)
(*    is empty (seeding.py) and loads the copy (main.py).                  *)
(*                                                                         *)
(* Authentication is part of the transaction: it updates last_used_at of   *)
(* the API key's row, and so makes the calls with one key take turns.  The *)
(* row of the policy is updated by primary key; from that UPDATE to the    *)
(* commit nobody else can change it, so the two are one step.              *)
(***************************************************************************)
EXTENDS Integers, FiniteSets

CONSTANTS Call,          \* create, update and delete calls, each made at most once
          Key,           \* API keys with the scope policies:write
          Loadable,      \* calls whose definition the engine accepts
          KeepVersions,  \* 50 in update_policy
          Seed,          \* the definition in the YAML file
          NoContent

ASSUME StoreAssumption ==
  /\ Loadable \subseteq Call
  /\ Seed \notin Call
  /\ NoContent \notin Call \cup {Seed}
  /\ KeepVersions \in Nat

VARIABLES
  row,       \* the row of policies
  history,   \* the rows of policy_versions, told apart by who wrote them
  server,    \* whether the server process is up
  cache,     \* the definition in policy_engine._policies
  stage, kind, key,   \* the calls
  seen,      \* the row as a call's transaction read it
  found,     \* what a call's reload found
  ever,      \* history: every version and definition the row had
  overtaken, \* history: calls whose reload ran while another committed
  stale      \* history: the last reload was overtaken or failed

tables == <<row, history, ever>>
calls == <<stage, kind, key, seen, found>>
vars == <<tables, server, cache, calls, overtaken, stale>>

Content == Call \cup {Seed}
Kind == {"create", "update", "delete"}
Stage == {"idle", "authenticated", "read", "committed", "queried", "done", "refused", "failed"}

Row == [state: {"absent", "active", "deleted"}, version: Nat, content: Content \cup {NoContent}]
Version == [by: Content, version: Nat, content: Content]

Absent == [state |-> "absent", version |-> 0, content |-> NoContent]

StoreTypeOK ==
  /\ row \in Row
  /\ history \subseteq Version
  /\ server \in {"down", "up"}
  /\ cache \in Content \cup {NoContent}
  /\ stage \in [Call -> Stage]
  /\ kind \in [Call -> Kind]
  /\ key \in [Call -> Key]
  /\ seen \in [Call -> Row]
  /\ found \in [Call -> Content \cup {NoContent}]
  /\ ever \subseteq Nat \X Content
  /\ overtaken \subseteq Call
  /\ stale \in BOOLEAN

Init ==
  /\ row = Absent
  /\ history = {}
  /\ server = "down"
  /\ cache = NoContent
  /\ stage = [c \in Call |-> "idle"]
  /\ kind \in [Call -> Kind]
  /\ key \in [Call -> Key]
  /\ seen = [c \in Call |-> Absent]
  /\ found = [c \in Call |-> NoContent]
  /\ ever = {}
  /\ overtaken = {}
  /\ stale = FALSE

-----------------------------------------------------------------------------

\* _LoadedPolicy: what load_from_db makes of a row.  The endpoints store any
\* definition; one that the engine does not accept is skipped with a warning.
InForce(r) ==
  IF r.state = "active" /\ r.content \in Loadable \cup {Seed} THEN r.content ELSE NoContent

InTransaction(c) == stage[c] \in {"authenticated", "read"}

Reloading(c) == stage[c] \in {"committed", "queried"}

InProgress(c) == InTransaction(c) \/ Reloading(c)

FaultyNoLock(k) == TRUE

\* The row of the key is held from authentication to the end of the transaction.
KeyFree(k) == \A c \in Call : InTransaction(c) => key[c] # k

(* The server process *)

\* lifespan: seed_from_yaml_if_empty, then load_from_db.  Nothing is served
\* before, so this is one step.
Boot ==
  /\ server = "down"
  /\ server' = "up"
  /\ \/ /\ row = Absent
        /\ row' = [state |-> "active", version |-> 1, content |-> Seed]
        /\ history' = {[by |-> Seed, version |-> 1, content |-> Seed]}
        /\ ever' = {<<1, Seed>>}
     \/ UNCHANGED tables   \* rows exist, or seed_from_yaml is off
  /\ cache' = InForce(row')
  /\ stale' = FALSE
  /\ UNCHANGED <<calls, overtaken>>

\* The process stops: what was in progress is rolled back or not reloaded.
Stop ==
  /\ server = "up"
  /\ server' = "down"
  /\ cache' = NoContent
  /\ stage' = [c \in Call |-> IF InProgress(c) THEN "failed" ELSE stage[c]]
  /\ overtaken' = {}
  /\ stale' = FALSE
  /\ UNCHANGED <<tables, kind, key, seen, found>>

(* POST, PUT and DELETE /policies *)

Authenticate(c) ==
  /\ server = "up"
  /\ stage[c] = "idle"
  /\ KeyFree(key[c])
  /\ stage' = [stage EXCEPT ![c] = "authenticated"]
  /\ UNCHANGED <<tables, server, cache, kind, key, seen, found, overtaken, stale>>

\* create: 409 if there is an active policy of the name; the others: 404 if not.
Admitted(c) == kind[c] = "create" <=> row.state # "active"

Read(c) ==
  /\ stage[c] = "authenticated"
  /\ Admitted(c)
  /\ stage' = [stage EXCEPT ![c] = "read"]
  /\ seen' = [seen EXCEPT ![c] = row]
  /\ UNCHANGED <<tables, server, cache, kind, key, found, overtaken, stale>>

Refuse(c) ==
  /\ stage[c] = "authenticated"
  /\ ~Admitted(c)
  /\ stage' = [stage EXCEPT ![c] = "refused"]
  /\ UNCHANGED <<tables, server, cache, kind, key, seen, found, overtaken, stale>>

FaultyEveryColumn(c) ==
  [state |-> seen[c].state, version |-> seen[c].version + 1, content |-> c]

\* The UPDATE sets the columns that update_policy assigned; is_active is not one.
Updated(c) == [row EXCEPT !.version = seen[c].version + 1, !.content = c]

FaultySnapshotOfNewVersion(c) ==
  [by |-> c, version |-> seen[c].version + 1, content |-> seen[c].content]

\* "Save old version to history": old is what the transaction read.
Snapshot(c) == [by |-> c, version |-> seen[c].version, content |-> seen[c].content]

FaultyOldestOf(versions) ==
  {kept \in SUBSET versions :
     /\ kept = versions \/ Cardinality(kept) = KeepVersions
     /\ Cardinality(kept) <= KeepVersions
     /\ \A v \in kept, w \in versions \ kept : v.version <= w.version}

\* ORDER BY version DESC OFFSET 50 is deleted; of equal versions any may go.
NewestOf(versions) ==
  {kept \in SUBSET versions :
     /\ kept = versions \/ Cardinality(kept) = KeepVersions
     /\ Cardinality(kept) <= KeepVersions
     /\ \A v \in kept, w \in versions \ kept : w.version <= v.version}

\* uq_policies_app_name: the row of a deleted policy makes the INSERT fail.
Create(c) ==
  /\ kind[c] = "create"
  /\ row.state = "absent"
  /\ row' = [state |-> "active", version |-> 1, content |-> c]
  /\ UNCHANGED history

Update(c) ==
  /\ kind[c] = "update"
  /\ row' = Updated(c)
  /\ \E kept \in NewestOf(history \cup {Snapshot(c)}) : history' = kept

Delete(c) ==
  /\ kind[c] = "delete"
  /\ row' = [row EXCEPT !.state = "deleted"]
  /\ UNCHANGED history

Commit(c) ==
  /\ stage[c] = "read"
  /\ Create(c) \/ Update(c) \/ Delete(c)
  /\ ever' = ever \cup {<<row'.version, row'.content>>}
  /\ stage' = [stage EXCEPT ![c] = "committed"]
  /\ overtaken' = overtaken \cup {d \in Call : stage[d] = "queried"}
  /\ UNCHANGED <<server, cache, kind, key, seen, found, stale>>

FaultyReloadsWhatItRead(c) == InForce(seen[c])

Reloads(c) == InForce(row)

\* load_from_db: the query ...
Query(c) ==
  /\ stage[c] = "committed"
  /\ found' = [found EXCEPT ![c] = Reloads(c)]
  /\ stage' = [stage EXCEPT ![c] = "queried"]
  /\ UNCHANGED <<tables, server, cache, kind, key, seen, overtaken, stale>>

\* ... and, when its result has come, the assignment.
Swap(c) ==
  /\ stage[c] = "queried"
  /\ cache' = found[c]
  /\ stage' = [stage EXCEPT ![c] = "done"]
  /\ stale' = (c \in overtaken)
  /\ overtaken' = overtaken \ {c}
  /\ UNCHANGED <<tables, server, kind, key, seen, found>>

\* A statement fails, the duplicate name among them, or the reload does.
Fail(c) ==
  /\ InProgress(c)
  /\ stage' = [stage EXCEPT ![c] = "failed"]
  /\ stale' = (stale \/ Reloading(c))
  /\ overtaken' = overtaken \ {c}
  /\ UNCHANGED <<tables, server, cache, kind, key, seen, found>>

-----------------------------------------------------------------------------

Next ==
  \/ Boot \/ Stop
  \/ \E c \in Call :
       \/ Authenticate(c) \/ Read(c) \/ Refuse(c) \/ Commit(c)
       \/ Query(c) \/ Swap(c) \/ Fail(c)

Spec == Init /\ [][Next]_vars

-----------------------------------------------------------------------------

\* The calls made so far used one API key.
OneKey == \A c, d \in Call : stage[c] # "idle" /\ stage[d] # "idle" => key[c] = key[d]

\* A version in the history is one that the policy had, with the definition
\* it had then, however updates overlap: what an auditor finds there by
\* version and content_hash was in the table.
SnapshotsAreTrue == \A v \in history : <<v.version, v.content>> \in ever

\* While administrators use one key, the history holds the KeepVersions
\* versions before the current one, although seeding and the first update
\* both write version 1.
HistoryKeepsTheLast ==
  OneKey => \A p \in ever :
    p[1] \in (row.version - KeepVersions)..(row.version - 1) =>
      \E v \in history : v.version = p[1] /\ v.content = p[2]

\* While administrators use one key, no version number is skipped or given
\* twice: the update of the key's last_used_at makes read and write of the
\* version one.  (With two keys an update can be lost.)
VersionsCountUp ==
  [][OneKey' /\ row'.content # row.content => row'.version = row.version + 1]_vars

\* Nothing brings a deleted policy back: neither an update that read it
\* before, nor seeding, nor a call that creates it anew.
DeletedStaysDeleted == [][row.state = "deleted" => row'.state = "deleted"]_vars

Register == INSTANCE PolicyRegister WITH
  Definition <- Content, NoDefinition <- NoContent, Depth <- KeepVersions,
  state <- row.state, version <- row.version, definition <- row.content,
  past <- ever, trail <- {<<v.version, v.content>> : v \in history}

\* However calls, seeding and restarts interleave, the policy is a register
\* of versions: what an update replaces is a version the policy had, what it
\* writes was not there before, and the history only gains what was replaced.
ImplementsRegister == Register!Spec

\* While administrators use one key, what an update replaces is the version
\* in force, and the history has the last ones before it.
UpdatesInTurn == [][OneKey' => Register!NextInTurn]_Register!vars

\* However calls overlap, while no reload is under way interrupts are routed
\* by what is in the table: unless the last reload failed, or another call
\* committed between its query and its assignment.  (Two reloads that assign
\* in the opposite order of their queries leave a deleted policy in force.)
CacheIsRow ==
  server = "up" /\ ~stale /\ (\A c \in Call : ~Reloading(c)) => cache = InForce(row)

=============================================================================
