------------------------------ MODULE Directory ------------------------------
(***************************************************************************)
(* The approver directory of the Deliberate server: the rows of the tables *)
(* approvers and approver_groups, and the copy in the memory of the server *)
(* process by which interrupts are routed.                                 *)
(*                                                                         *)
(*  - POST, PUT and DELETE /approvers and /approver-groups                 *)
(*    (api/routes/approvers_admin.py) change one row in one transaction    *)
(*    and reload the copy in a session of its own.                         *)
(*  - At start-up the server reads config/approvers.yaml, seeds the tables *)
(*    from it if there are no approvers, and loads the copy.               *)
(*                                                                         *)
(* A group's members are ids in an array, which no foreign key ties to the *)
(* approvers; an approver and a group may have one id.  Authentication     *)
(* locks the API key's row to the end of the transaction, as in            *)
(* PolicyStore.  The members are a set: their order tells nobody apart.    *)
(***************************************************************************)
EXTENDS Integers, FiniteSets

CONSTANTS Approver, Group,   \* the ids
          Email,             \* what an approver's row says of them
          Call,              \* calls of the endpoints, each made at most once
          Key,               \* API keys with the scope approvers:write
          File,              \* approvers.yaml: what it says of every id
          HasDefault,        \* whether DEFAULT_APPROVER_EMAIL is set
          Absent, Deleted    \* no row (or no value); a row that is not active

Members == SUBSET Approver

ASSUME DirectoryAssumption ==
  /\ Absent # Deleted
  /\ \A v \in Email \cup Members : v # Absent /\ v # Deleted
  /\ File \in [approvers : [Approver -> {Absent} \cup Email],
               groups : [Group -> {Absent} \cup Members]]
  /\ HasDefault \in BOOLEAN

VARIABLES
  approvers, groups,   \* the tables
  server,              \* whether the server process is up
  copy,                \* approver_directory._approvers and _groups
  stage, key, request, \* the calls
  seen,                \* the row as a call's transaction read it
  found,               \* what a call's reload found
  overtaken,           \* history: calls whose reload ran while another committed
  stale,               \* history: the last reload was overtaken or failed
  had                  \* history: every membership a group had

tables == <<approvers, groups, had>>
calls == <<stage, key, request, seen, found>>
directoryVars == <<tables, server, copy, calls, overtaken, stale>>

Stage == {"idle", "authenticated", "read", "validated", "committed",
          "queried", "found", "done", "refused", "failed"}

\* The value is the address or the members; Absent if the call gives none.
Request ==
  [table : {"approvers"}, op : {"create", "update", "delete"}, id : Approver,
   value : {Absent} \cup Email]
  \cup
  [table : {"groups"}, op : {"create", "update", "delete"}, id : Group,
   value : {Absent} \cup Members]

\* A body that pydantic accepts: what is created has a value, a DELETE has none.
WellFormed(r) ==
  /\ r.op = "create" => r.value # Absent
  /\ r.op = "delete" => r.value = Absent

Row == {Absent, Deleted} \cup Email \cup Members

Copy == [approvers : [Approver -> {Absent} \cup Email],
         groups : [Group -> {Absent} \cup Members]]

Nothing == [approvers |-> [a \in Approver |-> Absent], groups |-> [g \in Group |-> Absent]]

DirectoryTypeOK ==
  /\ approvers \in [Approver -> {Absent, Deleted} \cup Email]
  /\ groups \in [Group -> {Absent, Deleted} \cup Members]
  /\ server \in {"down", "up"}
  /\ copy \in Copy
  /\ stage \in [Call -> Stage]
  /\ key \in [Call -> Key]
  /\ request \in [Call -> {Absent} \cup Request]
  /\ \A c \in Call : stage[c] \in {"authenticated", "read", "validated"} => request[c] \in Request
  /\ seen \in [Call -> Row]
  /\ found \in [Call -> Copy]
  /\ overtaken \subseteq Call
  /\ stale \in BOOLEAN
  /\ had \subseteq Group \X Members

DirectoryInit ==
  /\ approvers = Nothing.approvers
  /\ groups = Nothing.groups
  /\ server = "down"
  /\ copy = Nothing
  /\ stage = [c \in Call |-> "idle"]
  /\ key \in [Call -> Key]
  /\ request = [c \in Call |-> Absent]
  /\ seen = [c \in Call |-> Absent]
  /\ found = [c \in Call |-> Nothing]
  /\ overtaken = {}
  /\ stale = FALSE
  /\ had = {}

-----------------------------------------------------------------------------

\* SELECT ... WHERE is_active.
ActiveRows(table) == [i \in DOMAIN table |-> IF table[i] = Deleted THEN Absent ELSE table[i]]

ActiveApprovers == {a \in Approver : approvers[a] \notin {Absent, Deleted}}

InForce == [approvers |-> ActiveRows(approvers), groups |-> ActiveRows(groups)]

InTransaction(c) == stage[c] \in {"authenticated", "read", "validated"}

Reloading(c) == stage[c] \in {"committed", "queried", "found"}

FaultyKeyFree(k) == TRUE

\* The row of the key is held from authentication to the end of the transaction.
KeyFree(k) == \A c \in Call : InTransaction(c) => key[c] # k

\* A handler is over: its locals are gone.
Ends(c, how) ==
  /\ stage' = [stage EXCEPT ![c] = how]
  /\ request' = [request EXCEPT ![c] = Absent]
  /\ seen' = [seen EXCEPT ![c] = Absent]
  /\ found' = [found EXCEPT ![c] = Nothing]
  /\ UNCHANGED key

(* The server process *)

\* ApproverDirectory.load refuses a file whose groups name unknown approvers.
FileIsValid ==
  \A g \in Group : File.groups[g] # Absent =>
    \A a \in File.groups[g] : File.approvers[a] # Absent

\* Rows of any kind count: after every approver is deleted nothing is seeded.
NoApproverRows == \A a \in Approver : approvers[a] = Absent

\* seed_from_yaml_if_empty inserts the file's rows without another look at
\* them; the id of a group that exists makes it, and so the start, fail.
Seed ==
  /\ NoApproverRows
  /\ \A g \in Group : File.groups[g] # Absent => groups[g] = Absent
  /\ approvers' = File.approvers
  /\ groups' = [g \in Group |-> IF File.groups[g] # Absent THEN File.groups[g] ELSE groups[g]]
  /\ had' = had \cup {<<g, File.groups[g]>> : g \in {h \in Group : File.groups[h] # Absent}}

\* lifespan: the file is read, which may only fail if there is a default
\* approver; the tables are seeded; the copy is loaded from them.
Boot ==
  /\ server = "down"
  /\ FileIsValid \/ HasDefault
  /\ \/ Seed
     \/ UNCHANGED tables   \* approvers exist, there is no file, or seed_from_yaml is off
  /\ server' = "up"
  /\ copy' = InForce'
  /\ stale' = FALSE
  /\ UNCHANGED <<calls, overtaken>>

\* The process stops: what was in progress is rolled back or not reloaded.
Stop ==
  /\ server = "up"
  /\ server' = "down"
  /\ copy' = Nothing
  /\ stage' = [c \in Call |-> IF InTransaction(c) \/ Reloading(c) THEN "failed" ELSE stage[c]]
  /\ request' = [c \in Call |-> Absent]
  /\ seen' = [c \in Call |-> Absent]
  /\ found' = [c \in Call |-> Nothing]
  /\ overtaken' = {}
  /\ stale' = FALSE
  /\ UNCHANGED <<tables, key>>

(* POST, PUT and DELETE of /approvers and /approver-groups *)

Authenticate(c, r) ==
  /\ server = "up"
  /\ stage[c] = "idle"
  /\ WellFormed(r)
  /\ KeyFree(key[c])
  /\ stage' = [stage EXCEPT ![c] = "authenticated"]
  /\ request' = [request EXCEPT ![c] = r]
  /\ UNCHANGED <<tables, server, copy, key, seen, found, overtaken, stale>>

\* The row that the call is about.
Target(c) ==
  IF request[c].table = "approvers" THEN approvers[request[c].id] ELSE groups[request[c].id]

\* create: 409 if there is a row, active or not; the others: 404 if not active.
Admitted(c) ==
  IF request[c].op = "create" THEN Target(c) = Absent ELSE Target(c) \notin {Absent, Deleted}

Read(c) ==
  /\ stage[c] = "authenticated"
  /\ Admitted(c)
  /\ stage' = [stage EXCEPT ![c] = "read"]
  /\ seen' = [seen EXCEPT ![c] = Target(c)]
  /\ UNCHANGED <<tables, server, copy, key, request, found, overtaken, stale>>

SetsMembers(c) == request[c].table = "groups" /\ request[c].value # Absent

\* _validate_members: 400 unless all members are active approvers.
Validate(c) ==
  /\ stage[c] = "read"
  /\ SetsMembers(c)
  /\ request[c].value \subseteq ActiveApprovers
  /\ stage' = [stage EXCEPT ![c] = "validated"]
  /\ UNCHANGED <<tables, server, copy, key, request, seen, found, overtaken, stale>>

Refuse(c) ==
  /\ \/ stage[c] = "authenticated" /\ ~Admitted(c)
     \/ stage[c] = "read" /\ SetsMembers(c) /\ ~(request[c].value \subseteq ActiveApprovers)
  /\ Ends(c, "refused")
  /\ UNCHANGED <<tables, server, copy, overtaken, stale>>

\* An UPDATE sets the columns whose value is not the one that was read, and
\* never is_active; a DELETE clears is_active.
Written(c) ==
  CASE request[c].op = "create" -> request[c].value
    [] request[c].op = "delete" -> Deleted
    [] OTHER -> IF Target(c) = Deleted \/ request[c].value \in {Absent, seen[c]}
                THEN Target(c) ELSE request[c].value

\* From flush to commit nobody else can change the row, so they are one step.
\* The INSERT fails if there is a row by now.
Commit(c) ==
  /\ \/ stage[c] = "validated"
     \/ stage[c] = "read" /\ ~SetsMembers(c)
  /\ request[c].op = "create" => Target(c) = Absent
  /\ IF request[c].table = "approvers"
     THEN /\ approvers' = [approvers EXCEPT ![request[c].id] = Written(c)]
          /\ UNCHANGED <<groups, had>>
     ELSE /\ groups' = [groups EXCEPT ![request[c].id] = Written(c)]
          /\ had' = had \cup ({request[c].id} \X ({Written(c)} \ {Deleted}))
          /\ UNCHANGED approvers
  /\ stage' = [stage EXCEPT ![c] = "committed"]
  /\ request' = [request EXCEPT ![c] = Absent]
  /\ seen' = [seen EXCEPT ![c] = Absent]
  /\ overtaken' = overtaken \cup {d \in Call : stage[d] \in {"queried", "found"}}
  /\ UNCHANGED <<server, copy, key, found, stale>>

\* load_from_db: the approvers are queried, ...
QueryApprovers(c) ==
  /\ stage[c] = "committed"
  /\ stage' = [stage EXCEPT ![c] = "queried"]
  /\ found' = [found EXCEPT ![c].approvers = InForce.approvers]
  /\ UNCHANGED <<tables, server, copy, key, request, seen, overtaken, stale>>

\* ... then the groups, ...
QueryGroups(c) ==
  /\ stage[c] = "queried"
  /\ stage' = [stage EXCEPT ![c] = "found"]
  /\ found' = [found EXCEPT ![c].groups = InForce.groups]
  /\ UNCHANGED <<tables, server, copy, key, request, seen, overtaken, stale>>

FaultySwap(c) == [found[c] EXCEPT !.approvers = copy.approvers]

Swapped(c) == found[c]

\* ... and when their result has come, both dicts are replaced.
Swap(c) ==
  /\ stage[c] = "found"
  /\ copy' = Swapped(c)
  /\ stale' = (c \in overtaken)
  /\ overtaken' = overtaken \ {c}
  /\ Ends(c, "done")
  /\ UNCHANGED <<tables, server>>

\* A statement of the transaction fails, a duplicate id among them, or the
\* reload does, which leaves the old copy.
Fail(c) ==
  /\ InTransaction(c) \/ Reloading(c)
  /\ stale' = (stale \/ Reloading(c))
  /\ overtaken' = overtaken \ {c}
  /\ Ends(c, "failed")
  /\ UNCHANGED <<tables, server, copy>>

DirectoryStep ==
  \/ Boot \/ Stop
  \/ \E c \in Call :
       \/ \E r \in Request : Authenticate(c, r)
       \/ Read(c) \/ Validate(c) \/ Refuse(c) \/ Commit(c)
       \/ QueryApprovers(c) \/ QueryGroups(c) \/ Swap(c) \/ Fail(c)

-----------------------------------------------------------------------------

\* The calls made so far used one API key.
OneKey == \A c, d \in Call : stage[c] # "idle" /\ stage[d] # "idle" => key[c] = key[d]

\* Between changes, the server routes by what is in the tables, approvers and
\* groups of one moment, although a reload reads them by two queries and
\* replaces the copy later: unless the last reload failed, or was overtaken
\* by the commit of another call.
CopyIsTable ==
  server = "up" /\ ~stale /\ (\A c \in Call : ~Reloading(c)) => copy = InForce

\* While administrators use one key, a group is given members that are active
\* approvers at the moment of the commit, although they were looked up by an
\* earlier statement that locks none of them.  (With two keys an approver can
\* be deleted in between; a member deleted later stays in the group anyway.)
GroupsGetActiveMembers ==
  [][OneKey' /\ server = "up" =>
       \A g \in Group : groups'[g] # groups[g] /\ groups'[g] \notin {Absent, Deleted} =>
         groups'[g] \subseteq ActiveApprovers']_directoryVars

=============================================================================
