-------------------------------- MODULE ApiKeys --------------------------------
(***************************************************************************)
(* The API keys of the Deliberate server: authentication (api/deps.py),    *)
(* POST and DELETE /api-keys (api/routes/api_keys.py), and the key that a  *)
(* starting server makes when ADMIN_BOOTSTRAP_KEY is set (seeding.py).     *)
(*                                                                         *)
(* authenticate_api_key reads the key's row and then writes last_used_at   *)
(* to it, two statements of the caller's transaction.  From the second one *)
(* on the row is locked, to the commit of an endpoint that changes         *)
(* something, or to the rollback by which a session that was only read     *)
(* from is closed.  No endpoint sets expires_at, so no key expires here.   *)
(***************************************************************************)
EXTENDS Integers, FiniteSets

CONSTANTS Key,          \* the rows of api_keys there may be
          Call,         \* calls of the endpoints, each made at most once
          Server,       \* server processes
          ScopeSets,    \* what a key is created with
          AllScopes,    \* ALL_SCOPES
          BootstrapKey, \* the value of ADMIN_BOOTSTRAP_KEY
          Absent        \* no row, or nothing

ASSUME ApiKeysAssumption ==
  /\ AllScopes \in ScopeSets
  /\ {"api_keys:write", "policies:write"} \subseteq AllScopes
  /\ Absent \notin ScopeSets \cup Key
  /\ BootstrapKey \notin Key

VARIABLES
  scopes,      \* the committed rows
  revoked,     \* the keys with a revoked_at
  lastUsed,    \* the keys with a last_used_at
  server,      \* the server processes
  stage, op, key, target, at,  \* the calls
  slipped,     \* history: calls whose key was revoked between the statements
               \* of their authentication
  answered,    \* history: keys with which a call was answered
  selfRevoked, \* history: a key was revoked by a call made with it
  since        \* history: what was done to keys since a starting server looked

tables == <<scopes, revoked, lastUsed>>
calls == <<stage, op, key, target, at>>
history == <<slipped, answered, selfRevoked, since>>
vars == <<tables, server, calls, history>>

\* "use" stands for the endpoints that only read in the session by which they
\* authenticate, POST /interrupts among them; "write" for those of policies.
Op == {"create", "revoke", "write", "use"}

Stage == {"idle", "selected", "holding", "found", "done", "refused", "failed"}

KeysTypeOK ==
  /\ scopes \in [Key -> {Absent} \cup ScopeSets]
  /\ revoked \subseteq {k \in Key : scopes[k] # Absent}
  /\ lastUsed \subseteq {k \in Key : scopes[k] # Absent}
  /\ server \in [Server -> {"down", "looked", "missed", "up"}]
  /\ stage \in [Call -> Stage]
  /\ op \in [Call -> Op]
  /\ key \in [Call -> Key \cup {BootstrapKey, Absent}]
  /\ target \in [Call -> Key \cup {Absent}]
  /\ at \in [Call -> Server]
  /\ slipped \subseteq Call
  /\ answered \subseteq Key
  /\ selfRevoked \in BOOLEAN
  /\ since \in [Server -> SUBSET {"made", "revoked"}]

Init ==
  /\ scopes = [k \in Key |-> Absent]
  /\ revoked = {}
  /\ lastUsed = {}
  /\ server = [s \in Server |-> "down"]
  /\ stage = [c \in Call |-> "idle"]
  /\ op = [c \in Call |-> "use"]
  /\ key = [c \in Call |-> Absent]
  /\ target = [c \in Call |-> Absent]
  /\ at \in [Call -> Server]
  /\ slipped = {}
  /\ answered = {}
  /\ selfRevoked = FALSE
  /\ since = [s \in Server |-> {}]

-----------------------------------------------------------------------------

\* A row that is not revoked.
Active(k) == scopes[k] # Absent /\ k \notin revoked

FaultyHasKey == \E k \in Key : scopes[k] # Absent /\ "policies:write" \in scopes[k]

HasKeyFor(scope) == \E k \in Key : Active(k) /\ scope \in scopes[k]

InProgress(c) == stage[c] \in {"selected", "holding", "found"}

FaultyHolds(c, k) == stage[c] \in {"holding", "found", "done"} /\ key[c] = k

\* The row of k is locked by the transaction of c.
Holds(c, k) == stage[c] \in {"holding", "found"} /\ key[c] = k

FaultyFreeFor(c, k) == TRUE

FreeFor(c, k) == \A d \in Call \ {c} : ~Holds(d, k)

(* Start-up *)

\* Servers that have looked for a key, and not yet acted on it, note a change.
Noted(what) ==
  [s \in Server |-> IF server[s] \in {"looked", "missed"} THEN since[s] \cup {what} ELSE since[s]]

HasKey == HasKeyFor("policies:write")

\* bootstrap_admin_key looks for a key that may change policies.
BootLook(s) ==
  /\ server[s] = "down"
  /\ server' = [server EXCEPT ![s] = IF HasKey THEN "looked" ELSE "missed"]
  /\ UNCHANGED <<tables, calls, history>>

\* A new row with all scopes; its key is random and not BootstrapKey.
Bootstrap(k) ==
  /\ scopes[k] = Absent
  /\ scopes' = [scopes EXCEPT ![k] = AllScopes]

BootEnds(s) ==
  /\ \/ /\ server[s] = "looked"
        /\ UNCHANGED scopes
        /\ since' = [since EXCEPT ![s] = {}]
     \/ /\ server[s] = "missed"
        /\ \E k \in Key : Bootstrap(k)
        /\ since' = [Noted("made") EXCEPT ![s] = {}]
  /\ server' = [server EXCEPT ![s] = "up"]
  /\ UNCHANGED <<revoked, lastUsed, calls, slipped, answered, selfRevoked>>

\* The process stops, in the middle of its start or of calls.
Stop(s) ==
  /\ server[s] # "down"
  /\ server' = [server EXCEPT ![s] = "down"]
  /\ since' = [since EXCEPT ![s] = {}]
  /\ stage' = [c \in Call |-> IF InProgress(c) /\ at[c] = s THEN "failed" ELSE stage[c]]
  /\ UNCHANGED <<tables, op, key, target, at, slipped, answered, selfRevoked>>

(* authenticate_api_key *)

Required(o) ==
  CASE o \in {"create", "revoke"} -> "api_keys:write"
    [] o = "write" -> "policies:write"
    [] o = "use" -> "interrupts:write"

\* SELECT ... WHERE key_hash = ... AND revoked_at IS NULL, and the scope.
LetsIn(o, k) == k \in Key /\ Active(k) /\ Required(o) \in scopes[k]

Arrives(c, o, k) ==
  /\ server[at[c]] = "up"
  /\ stage[c] = "idle"
  /\ key' = [key EXCEPT ![c] = k]
  /\ UNCHANGED <<tables, server, at, history>>

\* What DELETE names is any id, of a row or of none.
Select(c, o, k, t) ==
  /\ Arrives(c, o, k)
  /\ LetsIn(o, k)
  /\ o # "revoke" => t = Absent
  /\ stage' = [stage EXCEPT ![c] = "selected"]
  /\ op' = [op EXCEPT ![c] = o]
  /\ target' = [target EXCEPT ![c] = t]

\* 401, or 403 for the scope.
Refuse(c, o, k) ==
  /\ Arrives(c, o, k)
  /\ ~LetsIn(o, k)
  /\ stage' = [stage EXCEPT ![c] = "refused"]
  /\ UNCHANGED <<op, target>>

\* UPDATE ... WHERE id = ...: it waits for the row and does not look whether
\* it was revoked meanwhile.
Touch(c) ==
  /\ stage[c] = "selected"
  /\ FreeFor(c, key[c])
  /\ stage' = [stage EXCEPT ![c] = "holding"]
  /\ slipped' = IF key[c] \in revoked THEN slipped \cup {c} ELSE slipped
  /\ UNCHANGED <<tables, server, op, key, target, at, answered, selfRevoked, since>>

(* The endpoints *)

\* What the call was for is forgotten.
Ends(c, how) ==
  /\ stage' = [stage EXCEPT ![c] = how]
  /\ op' = [op EXCEPT ![c] = "use"]
  /\ target' = [target EXCEPT ![c] = Absent]
  /\ UNCHANGED <<server, key, at, slipped>>

\* The session is closed without a commit.
AnswerUse(c) ==
  /\ stage[c] = "holding"
  /\ op[c] = "use"
  /\ Ends(c, "done")
  /\ answered' = answered \cup {key[c]}
  /\ UNCHANGED <<tables, selfRevoked, since>>

Commits(c) ==
  /\ lastUsed' = lastUsed \cup {key[c]}
  /\ answered' = answered \cup {key[c]}
  /\ Ends(c, "done")

CommitWrite(c) ==
  /\ stage[c] = "holding"
  /\ op[c] = "write"
  /\ Commits(c)
  /\ UNCHANGED <<scopes, revoked, selfRevoked, since>>

\* create_api_key
Create(c, k, given) ==
  /\ stage[c] = "holding"
  /\ op[c] = "create"
  /\ scopes[k] = Absent
  /\ scopes' = [scopes EXCEPT ![k] = given]
  /\ since' = Noted("made")
  /\ Commits(c)
  /\ UNCHANGED <<revoked, selfRevoked>>

Exists(t) == t \in Key /\ scopes[t] # Absent

\* revoke_api_key: the SELECT of the key to revoke, which locks nothing and
\* finds revoked ones too, ...
Find(c) ==
  /\ stage[c] = "holding"
  /\ op[c] = "revoke"
  /\ Exists(target[c])
  /\ stage' = [stage EXCEPT ![c] = "found"]
  /\ UNCHANGED <<tables, server, op, key, target, at, history>>

\* ... 404, which rolls back, ...
NotFound(c) ==
  /\ stage[c] = "holding"
  /\ op[c] = "revoke"
  /\ ~Exists(target[c])
  /\ Ends(c, "refused")
  /\ UNCHANGED <<tables, answered, selfRevoked, since>>

\* ... and the UPDATE, which waits for whoever holds the row.
Revoke(c) ==
  /\ stage[c] = "found"
  /\ FreeFor(c, target[c])
  /\ revoked' = revoked \cup {target[c]}
  /\ selfRevoked' = (selfRevoked \/ target[c] = key[c])
  /\ since' = Noted("revoked")
  /\ Commits(c)
  /\ UNCHANGED scopes

\* Transactions that wait in a circle for each other's key.
Deadlocked(c) ==
  \E D \in SUBSET Call :
    /\ c \in D
    /\ \A d \in D : stage[d] = "found" /\ \E e \in D \ {d} : Holds(e, target[d])

Aborts(c) ==
  /\ Ends(c, "failed")
  /\ UNCHANGED <<tables, answered, selfRevoked, since>>

\* PostgreSQL ends one of them.
Deadlock(c) == Deadlocked(c) /\ Aborts(c)

\* Any other exception.
Fail(c) == InProgress(c) /\ Aborts(c)

Presented == Key \cup {BootstrapKey}

CallStep(c) ==
  \/ \E o \in Op, k \in Presented :
       Refuse(c, o, k) \/ \E t \in Key \cup {Absent} : Select(c, o, k, t)
  \/ Touch(c) \/ AnswerUse(c) \/ CommitWrite(c)
  \/ \E k \in Key, given \in ScopeSets : Create(c, k, given)
  \/ Find(c) \/ NotFound(c) \/ Revoke(c) \/ Deadlock(c) \/ Fail(c)

Next ==
  \/ \E s \in Server : BootLook(s) \/ BootEnds(s) \/ Stop(s)
  \/ \E c \in Call : CallStep(c)

Spec == Init /\ [][Next]_vars

\* Statements end, and PostgreSQL looks for deadlocks after deadlock_timeout.
\* No lock is assumed to be free.
Fairness ==
  \A c \in Call :
    /\ WF_vars(Touch(c)) /\ WF_vars(AnswerUse(c)) /\ WF_vars(CommitWrite(c))
    /\ WF_vars(Find(c)) /\ WF_vars(NotFound(c)) /\ WF_vars(Revoke(c))
    /\ WF_vars(\E k \in Key, given \in ScopeSets : Create(c, k, given))
    /\ WF_vars(Deadlock(c))

FairSpec == Spec /\ Fairness

-----------------------------------------------------------------------------

\* Administrators cannot lock each other out: as long as nobody revokes the
\* key they use, and no key is revoked in the middle of an authentication
\* with it, a key that may manage keys remains, whoever revokes whom at once.
\* (A call that slipped through its authentication revokes with a key that is
\* revoked, and two such calls can revoke the last two keys.)
SomebodyIsLeft ==
  /\ slipped = {} /\ ~selfRevoked
  /\ \E k \in Key : scopes[k] # Absent /\ "api_keys:write" \in scopes[k]
  => HasKeyFor("api_keys:write")

\* However many servers start and administrators change keys at once, a
\* server comes up with a key that may change policies unless one was revoked
\* since it looked, and it makes a key beside such a key only if that one was
\* made since.  (Servers that look before the first of them has made its key
\* make one each.)
BootActsOnItsLook ==
  [][\A s \in Server : server[s] # "up" /\ server'[s] = "up" =>
       /\ "revoked" \notin since[s] => HasKeyFor("policies:write")'
       /\ HasKey /\ scopes' # scopes => "made" \in since[s]]_vars

\* Every call that was let in ends, although it waits for rows that others
\* hold, in a circle too.  (Ids never run out in the code.)
CallsEnd ==
  \A c \in Call :
    stage[c] = "selected" ~> ~InProgress(c) \/ \A k \in Key : scopes[k] # Absent

\* "Use GET /api-keys with last_used_at to confirm a key is idle before
\* revoking" (docs/security.md:210): a key that got an answer was used.  What
\* the server does instead: a session that is only read from is rolled back.
UsedKeysLookUsed == answered \subseteq lastUsed

=============================================================================
