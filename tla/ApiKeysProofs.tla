----------------------------- MODULE ApiKeysProofs -----------------------------
(***************************************************************************)
(* Proofs, for any number of keys, calls and servers, of what ApiKeys says *)
(* of revocation and of the key a starting server finds or makes.          *)
(***************************************************************************)
EXTENDS ApiKeys, TLAPS

Holding(c) == stage[c] \in {"holding", "found"}

\* A call in progress was let in by its key and runs in a server that is up;
\* what it revokes exists; and its key is not revoked under it once it holds
\* the row.
CallsOK ==
  \A c \in Call :
    /\ InProgress(c) =>
         /\ server[at[c]] = "up"
         /\ key[c] \in Key /\ scopes[key[c]] # Absent
         /\ Required(op[c]) \in scopes[key[c]]
    /\ stage[c] = "found" => op[c] = "revoke" /\ Exists(target[c])
    /\ Holding(c) => key[c] \notin revoked \/ c \in slipped

\* What a starting server found is still so, unless it has noted a change
\* that could make it otherwise.
ServersOK ==
  \A s \in Server :
    /\ server[s] \in {"down", "up"} => since[s] = {}
    /\ server[s] = "looked" /\ "revoked" \notin since[s] => HasKey
    /\ server[s] = "missed" /\ "made" \notin since[s] => ~HasKey

KeysOK == KeysTypeOK /\ CallsOK /\ ServersOK

\* Nothing has happened yet.
LEMMA KeysStart == ASSUME Init PROVE KeysOK
BY ApiKeysAssumption DEF Init, KeysOK, KeysTypeOK, CallsOK, ServersOK, Stage, Op, InProgress, Holding

\* A step of a call that changes no row.
LEMMA QuietStepKeeps ==
  ASSUME KeysOK, NEW c \in Call, Ends(c, "done") \/ Ends(c, "refused") \/ Ends(c, "failed"),
         scopes' = scopes, revoked' = revoked, since' = since
  PROVE  CallsOK' /\ ServersOK'
<1>1. \A d \in Call : d # c =>
        /\ stage'[d] = stage[d] /\ key'[d] = key[d] /\ op'[d] = op[d] /\ target'[d] = target[d]
        /\ at'[d] = at[d]
  BY DEF Ends, KeysOK, KeysTypeOK
<1>2. stage'[c] \in {"done", "refused", "failed"}
  BY DEF Ends, KeysOK, KeysTypeOK
<1>3. CallsOK'
  <2>1. ASSUME NEW d \in Call, d # c PROVE InProgress(d)' = InProgress(d) /\ Holding(d)' = Holding(d)
    BY <1>1, <2>1 DEF InProgress, Holding
  <2>2. ~InProgress(c)' /\ ~Holding(c)' /\ stage'[c] # "found"
    BY <1>2 DEF InProgress, Holding
  <2> QED
    BY <1>1, <2>1, <2>2 DEF KeysOK, KeysTypeOK, CallsOK, Exists, Ends
<1> QED
  BY <1>3 DEF KeysOK, ServersOK, HasKey, HasKeyFor, Active, Ends

\* A call starts, or goes on without a change to the rows.
LEMMA ReadingKeeps ==
  ASSUME KeysOK, NEW c \in Call,
         Touch(c) \/ Find(c)
           \/ \E o \in Op, k \in Presented : \E t \in Key \cup {Absent} : Select(c, o, k, t)
  PROVE  KeysOK'
<1> USE DEF KeysOK, KeysTypeOK
<1>1. CASE Touch(c)
  <2>1. KeysTypeOK'
    BY <1>1 DEF Touch, tables, calls, history, Stage
  <2>2. CallsOK'
    BY <1>1 DEF Touch, tables, CallsOK, InProgress, Holding, Exists, Required
  <2> QED
    BY <1>1, <2>1, <2>2 DEF Touch, tables, ServersOK, HasKey, HasKeyFor, Active
<1>2. CASE Find(c)
  <2>1. KeysTypeOK'
    BY <1>2 DEF Find, tables, history, Stage
  <2>2. CallsOK'
    BY <1>2 DEF Find, tables, history, CallsOK, InProgress, Holding, Exists, Required
  <2> QED
    BY <1>2, <2>1, <2>2 DEF Find, tables, history, ServersOK, HasKey, HasKeyFor, Active
<1>3. ASSUME NEW o \in Op, NEW k \in Presented, NEW t \in Key \cup {Absent}, Select(c, o, k, t)
      PROVE  KeysOK'
  <2> USE <1>3 DEF Select, Arrives
  <2>1. KeysTypeOK'
    BY DEF tables, history, Stage, Presented
  <2>2. k \in Key /\ scopes[k] # Absent /\ Required(o) \in scopes[k]
    BY DEF LetsIn, Active
  <2>3. CallsOK'
    BY <2>2 DEF tables, history, CallsOK, InProgress, Holding, Exists
  <2> QED
    BY <2>1, <2>3 DEF tables, history, ServersOK, HasKey, HasKeyFor, Active
<1> QED
  BY <1>1, <1>2, <1>3

\* A call ends without a change to the rows, or before it began.
LEMMA AnswersKeep ==
  ASSUME KeysOK, NEW c \in Call,
         AnswerUse(c) \/ CommitWrite(c) \/ NotFound(c) \/ Deadlock(c) \/ Fail(c)
           \/ \E o \in Op, k \in Presented : Refuse(c, o, k)
  PROVE  KeysOK'
<1> USE DEF KeysOK, KeysTypeOK
<1>1. CASE AnswerUse(c) \/ CommitWrite(c)
  <2>1. Ends(c, "done") /\ scopes' = scopes /\ revoked' = revoked /\ since' = since
    BY <1>1 DEF AnswerUse, CommitWrite, Commits, tables
  <2>2. key[c] \in Key /\ scopes[key[c]] # Absent
    BY <1>1 DEF AnswerUse, CommitWrite, CallsOK, InProgress
  <2>3. KeysTypeOK'
    BY <1>1, <2>1, <2>2 DEF AnswerUse, CommitWrite, Commits, Ends, tables, Stage, Op
  <2> QED
    BY <2>1, <2>3, QuietStepKeeps
<1>2. CASE NotFound(c) \/ Deadlock(c) \/ Fail(c)
  <2>1. (Ends(c, "refused") \/ Ends(c, "failed")) /\ UNCHANGED <<tables, answered, selfRevoked, since>>
    BY <1>2 DEF NotFound, Deadlock, Fail, Aborts
  <2>2. KeysTypeOK'
    BY <2>1 DEF Ends, tables, Stage, Op
  <2> QED
    BY <2>1, <2>2, QuietStepKeeps DEF tables
<1>3. ASSUME NEW o \in Op, NEW k \in Presented, Refuse(c, o, k)
      PROVE  KeysOK'
  <2> USE <1>3 DEF Refuse, Arrives
  <2>1. KeysTypeOK'
    BY DEF tables, history, Stage, Presented
  <2>2. CallsOK'
    BY DEF tables, history, CallsOK, InProgress, Holding, Exists
  <2> QED
    BY <2>1, <2>2 DEF tables, history, ServersOK, HasKey, HasKeyFor, Active
<1> QED
  BY <1>1, <1>2, <1>3

\* A note is of something made or revoked.
LEMMA NotedType ==
  ASSUME KeysTypeOK, NEW what \in {"made", "revoked"}
  PROVE  Noted(what) \in [Server -> SUBSET {"made", "revoked"}]
BY DEF Noted, KeysTypeOK

\* Rows that are added are noted by every server that starts, ...
LEMMA MakingKeepsServers ==
  ASSUME KeysOK, since' = Noted("made"), UNCHANGED <<server, revoked>>,
         \A j \in Key : scopes[j] # Absent => scopes'[j] = scopes[j]
  PROVE  ServersOK'
<1> USE DEF KeysOK, KeysTypeOK
<1>1. HasKey => HasKey'
  BY DEF HasKey, HasKeyFor, Active
<1>2. \A s \in Server :
        IF server[s] \in {"looked", "missed"}
        THEN since'[s] = since[s] \cup {"made"} ELSE since'[s] = since[s]
  BY DEF Noted
<1> QED
  BY <1>1, <1>2 DEF ServersOK

\* ... and so are those that are revoked.
LEMMA RevokingKeepsServers ==
  ASSUME KeysOK, since' = Noted("revoked"), UNCHANGED <<server, scopes>>, revoked \subseteq revoked'
  PROVE  ServersOK'
<1> USE DEF KeysOK, KeysTypeOK
<1>1. HasKey' => HasKey
  BY DEF HasKey, HasKeyFor, Active
<1>2. \A s \in Server :
        IF server[s] \in {"looked", "missed"}
        THEN since'[s] = since[s] \cup {"revoked"} ELSE since'[s] = since[s]
  BY DEF Noted
<1> QED
  BY <1>1, <1>2 DEF ServersOK

LEMMA CreateKeeps ==
  ASSUME KeysOK, NEW c \in Call, NEW k \in Key, NEW given \in ScopeSets, Create(c, k, given)
  PROVE  KeysOK'
<1> USE DEF KeysOK, KeysTypeOK, Create, Commits, Ends
<1>1. key[c] \in Key /\ scopes[key[c]] # Absent /\ InProgress(c)
  BY DEF CallsOK, InProgress
<1>2. given # Absent
  BY ApiKeysAssumption
<1>3. KeysTypeOK'
  BY <1>1, <1>2, NotedType DEF Stage, Op
<1>4. \A j \in Key : scopes[j] # Absent => scopes'[j] = scopes[j]
  OBVIOUS
<1>5. CallsOK'
  BY <1>3, <1>4 DEF CallsOK, InProgress, Holding, Exists
<1>6. ServersOK'
  BY <1>4, MakingKeepsServers
<1> QED
  BY <1>3, <1>5, <1>6

LEMMA RevokeKeeps ==
  ASSUME KeysOK, NEW c \in Call, Revoke(c) PROVE KeysOK'
<1> USE DEF KeysOK, KeysTypeOK, Revoke, Commits, Ends
<1>1. key[c] \in Key /\ scopes[key[c]] # Absent /\ InProgress(c) /\ Exists(target[c])
  BY DEF CallsOK, InProgress
<1>2. KeysTypeOK'
  BY <1>1, NotedType DEF Stage, Op, Exists
<1>3. \A d \in Call \ {c} : Holding(d) => key[d] # target[c]
  BY DEF FreeFor, Holds, Holding
<1>4. CallsOK'
  BY <1>3 DEF CallsOK, InProgress, Holding, Exists
<1>5. ServersOK'
  BY RevokingKeepsServers
<1> QED
  BY <1>2, <1>4, <1>5

LEMMA ServerKeeps ==
  ASSUME KeysOK, NEW s \in Server, BootLook(s) \/ BootEnds(s) \/ Stop(s) PROVE KeysOK'
<1> USE DEF KeysOK, KeysTypeOK
<1>1. CASE BootLook(s)
  <2>1. KeysTypeOK'
    BY <1>1 DEF BootLook, tables, calls, history
  <2>2. CallsOK'
    BY <1>1 DEF BootLook, tables, calls, history, CallsOK, InProgress, Holding, Exists
  <2>3. HasKey' = HasKey /\ since' = since /\ \A t \in Server \ {s} : server'[t] = server[t]
    BY <1>1 DEF BootLook, tables, history, HasKey, HasKeyFor, Active
  <2>4. since[s] = {} /\ server'[s] = IF HasKey THEN "looked" ELSE "missed"
    BY <1>1 DEF BootLook, ServersOK
  <2> QED
    BY <2>1, <2>2, <2>3, <2>4 DEF ServersOK
<1>2. CASE BootEnds(s)
  <2>1. \A j \in Key : scopes[j] # Absent => scopes'[j] = scopes[j]
    BY <1>2 DEF BootEnds, Bootstrap
  <2>2. scopes' \in [Key -> {Absent} \cup ScopeSets]
    BY <1>2, ApiKeysAssumption DEF BootEnds, Bootstrap
  <2>3. KeysTypeOK'
    <3>1. since' \in [Server -> SUBSET {"made", "revoked"}]
      BY <1>2, NotedType DEF BootEnds
    <3> QED
      BY <1>2, <2>1, <2>2, <3>1 DEF BootEnds, calls
  <2>4. CallsOK'
    BY <1>2, <2>1 DEF BootEnds, calls, CallsOK, InProgress, Holding, Exists
  <2>5. /\ since'[s] = {} /\ server'[s] = "up"
        /\ \A t \in Server \ {s} : server'[t] = server[t]
        /\ revoked' = revoked
    BY <1>2, NotedType DEF BootEnds
  <2>6. HasKey => HasKey'
    BY <2>1, <2>5 DEF HasKey, HasKeyFor, Active
  <2>7. CASE UNCHANGED scopes /\ since' = [since EXCEPT ![s] = {}]
    <3>1. HasKey' = HasKey
      BY <2>5, <2>7 DEF HasKey, HasKeyFor, Active
    <3> QED
      BY <2>3, <2>4, <2>5, <2>7, <3>1 DEF ServersOK
  <2>8. CASE since' = [Noted("made") EXCEPT ![s] = {}]
    <3>1. \A t \in Server \ {s} :
            IF server[t] \in {"looked", "missed"}
            THEN since'[t] = since[t] \cup {"made"} ELSE since'[t] = since[t]
      BY <2>8 DEF Noted
    <3> QED
      BY <2>3, <2>4, <2>5, <2>6, <3>1 DEF ServersOK
  <2> QED
    BY <1>2, <2>7, <2>8 DEF BootEnds
<1>3. CASE Stop(s)
  <2>1. KeysTypeOK'
    BY <1>3 DEF Stop, tables, Stage
  <2>2. CallsOK'
    BY <1>3 DEF Stop, tables, CallsOK, InProgress, Holding, Exists
  <2>3. HasKey' = HasKey
    BY <1>3 DEF Stop, tables, HasKey, HasKeyFor, Active
  <2> QED
    BY <1>3, <2>1, <2>2, <2>3 DEF Stop, ServersOK
<1> QED
  BY <1>1, <1>2, <1>3

\* The strengthening is inductive.
LEMMA NextKeepsKeys == ASSUME KeysOK, [Next]_vars PROVE KeysOK'
<1>1. CASE UNCHANGED vars
  BY <1>1 DEF vars, tables, calls, history, KeysOK, KeysTypeOK, CallsOK, ServersOK, InProgress,
              Holding, Exists, HasKey, HasKeyFor, Active
<1>2. ASSUME NEW c \in Call, CallStep(c) PROVE KeysOK'
  BY <1>2, ReadingKeeps, AnswersKeep, CreateKeeps, RevokeKeeps DEF CallStep
<1> QED
  BY <1>1, <1>2, ServerKeeps DEF Next

\* Which calls are in progress, with which keys, in which servers.
THEOREM KeysStayOK == Spec => []KeysOK
BY KeysStart, NextKeepsKeys, PTL DEF Spec

\* The variables keep their types: nothing is revoked or used that has no row.
THEOREM KeysAreTyped == Spec => []KeysTypeOK
<1>1. KeysOK => KeysTypeOK
  BY DEF KeysOK
<1> QED
  BY <1>1, KeysStayOK, PTL

\* Rows are added, with their scopes, or the revoked ones grow by a key that
\* some call names.
LEMMA TablesStep ==
  ASSUME KeysOK, [Next]_vars
  PROVE  /\ slipped \subseteq slipped'
         /\ selfRevoked => selfRevoked'
         /\ \/ revoked' = revoked /\ \A k \in Key : scopes[k] # Absent => scopes'[k] = scopes[k]
            \/ \E c \in Call : Revoke(c)
<1> USE DEF KeysOK, KeysTypeOK
<1>1. CASE UNCHANGED vars
  BY <1>1 DEF vars, tables, history
<1>2. ASSUME NEW s \in Server, BootLook(s) \/ BootEnds(s) \/ Stop(s)
      PROVE  /\ slipped' = slipped /\ selfRevoked' = selfRevoked /\ revoked' = revoked
             /\ \A k \in Key : scopes[k] # Absent => scopes'[k] = scopes[k]
  BY <1>2 DEF BootLook, BootEnds, Bootstrap, Stop, tables, history
<1>3. ASSUME NEW c \in Call, CallStep(c), ~Revoke(c)
      PROVE  /\ slipped \subseteq slipped' /\ selfRevoked' = selfRevoked /\ revoked' = revoked
             /\ \A k \in Key : scopes[k] # Absent => scopes'[k] = scopes[k]
  <2>1. CASE \E k \in Key, given \in ScopeSets : Create(c, k, given)
    BY <2>1 DEF Create, Commits, Ends
  <2> QED
    BY <1>3, <2>1 DEF CallStep, Refuse, Select, Arrives, Touch, AnswerUse, CommitWrite, Commits,
                      Find, NotFound, Deadlock, Fail, Aborts, Ends, tables, history
<1>4. ASSUME NEW c \in Call, Revoke(c) PROVE slipped' = slipped /\ selfRevoked => selfRevoked'
  BY <1>4 DEF Revoke, Commits, Ends
<1> QED
  BY <1>1, <1>2, <1>3, <1>4 DEF Next, Revoke, Commits, Ends

\* Administrators who revoke each other's keys at once leave somebody.
THEOREM NobodyIsLockedOut == Spec => []SomebodyIsLeft
<1>1. Init => SomebodyIsLeft
  BY DEF Init, SomebodyIsLeft
<1>2. ASSUME KeysOK, SomebodyIsLeft, [Next]_vars PROVE SomebodyIsLeft'
  <2>1. SUFFICES ASSUME slipped' = {}, ~selfRevoked',
                        NEW k \in Key, scopes'[k] # Absent, "api_keys:write" \in scopes'[k]
                 PROVE  \E j \in Key : scopes'[j] # Absent /\ j \notin revoked' /\ "api_keys:write" \in scopes'[j]
    BY DEF SomebodyIsLeft, HasKeyFor, Active
  <2>2. slipped = {} /\ ~selfRevoked
    BY <1>2, <2>1, TablesStep
  <2>3. CASE \E c \in Call : Revoke(c)
    <3>1. PICK c \in Call : Revoke(c)
      BY <2>3
    <3>2. key[c] \in Key /\ scopes[key[c]] # Absent /\ key[c] \notin revoked
          /\ op[c] = "revoke" /\ Required(op[c]) \in scopes[key[c]]
      BY <1>2, <2>2, <3>1 DEF KeysOK, CallsOK, InProgress, Holding, Revoke
    <3>3. key[c] # target[c]
      BY <2>1, <3>1 DEF Revoke
    <3>4. Required("revoke") = "api_keys:write"
      BY DEF Required
    <3>5. scopes' = scopes /\ revoked' = revoked \cup {target[c]}
      BY <3>1 DEF Revoke
    <3> QED
      BY <3>2, <3>3, <3>4, <3>5
  <2>4. CASE revoked' = revoked /\ \A j \in Key : scopes[j] # Absent => scopes'[j] = scopes[j]
    <3>1. CASE scopes[k] # Absent
      <4>1. PICK j \in Key : Active(j) /\ "api_keys:write" \in scopes[j]
        BY <1>2, <2>1, <2>2, <2>4, <3>1 DEF SomebodyIsLeft, HasKeyFor
      <4> QED
        BY <2>4, <4>1 DEF Active
    <3>2. CASE scopes[k] = Absent
      <4>1. k \notin revoked
        BY <1>2, <3>2 DEF KeysOK, KeysTypeOK
      <4> QED
        BY <2>1, <2>4, <4>1 DEF Active
    <3> QED
      BY <3>1, <3>2
  <2> QED
    BY <1>2, <2>3, <2>4, TablesStep
<1> QED
  BY <1>1, <1>2, KeysStayOK, PTL DEF Spec

\* A server that starts makes a key or not as it looked, and what it saw then
\* is so unless keys were changed since.
THEOREM StartActsOnItsLook == Spec => BootActsOnItsLook
<1>1. ASSUME KeysOK, [Next]_vars, NEW s \in Server, server[s] # "up", server'[s] = "up"
      PROVE  /\ "revoked" \notin since[s] => HasKeyFor("policies:write")'
             /\ HasKey /\ scopes' # scopes => "made" \in since[s]
  <2>1. BootEnds(s)
    <3>1. \A c \in Call : CallStep(c) => server' = server
      BY DEF CallStep, Refuse, Select, Arrives, Touch, AnswerUse, CommitWrite, Create, Commits, Find,
             NotFound, Revoke, Deadlock, Fail, Aborts, Ends
    <3>2. ASSUME NEW t \in Server, BootLook(t) \/ BootEnds(t) \/ Stop(t) PROVE BootEnds(s)
      BY <1>1, <3>2 DEF BootLook, BootEnds, Stop, KeysOK, KeysTypeOK
    <3> QED
      BY <1>1, <3>1, <3>2 DEF Next, vars
  <2>2. CASE server[s] = "looked" /\ UNCHANGED scopes
    BY <1>1, <2>1, <2>2 DEF KeysOK, ServersOK, BootEnds, HasKey, HasKeyFor, Active
  <2>3. CASE server[s] = "missed" /\ \E k \in Key : Bootstrap(k)
    <3>1. PICK k \in Key : Bootstrap(k)
      BY <2>3
    <3>2. scopes'[k] = AllScopes /\ k \notin revoked /\ revoked' = revoked
      BY <1>1, <2>1, <3>1 DEF KeysOK, KeysTypeOK, Bootstrap, BootEnds
    <3>3. HasKeyFor("policies:write")'
      BY <3>2, ApiKeysAssumption DEF HasKeyFor, Active
    <3> QED
      BY <1>1, <2>3, <3>3 DEF KeysOK, ServersOK
  <2> QED
    BY <2>1, <2>2, <2>3 DEF BootEnds
<1>2. KeysOK /\ [Next]_vars =>
        (\A s \in Server : server[s] # "up" /\ server'[s] = "up" =>
           /\ "revoked" \notin since[s] => HasKeyFor("policies:write")'
           /\ HasKey /\ scopes' # scopes => "made" \in since[s])
  BY <1>1
<1> QED
  BY <1>2, KeysStayOK, PTL DEF Spec, BootActsOnItsLook

=============================================================================
