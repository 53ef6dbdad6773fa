---------------------------- MODULE RoutingProofs ----------------------------
(***************************************************************************)
(* Proofs, for any approvers, groups, calls, keys and policies, of what    *)
(* Directory, Routing and Escalation say of the tables, the copies of the  *)
(* server and the worker, and the interrupts that are routed by them.      *)
(***************************************************************************)
EXTENDS Escalation, TLAPS

Running(c) == InTransaction(c) \/ Reloading(c)

\* When the process is down nothing is in progress.
Quiet == server = "down" => \A c \in Call : ~Running(c)

\* The row that a call was admitted to change does not vanish.
TargetsStay ==
  \A c \in Call : stage[c] \in {"read", "validated"} /\ request[c].op # "create" =>
    Target(c) # Absent

RequestsAreWellFormed == \A c \in Call : InTransaction(c) => WellFormed(request[c])

DirectoryOK == DirectoryTypeOK /\ Quiet /\ TargetsStay /\ RequestsAreWellFormed

-----------------------------------------------------------------------------

\* The rows in force are values of a copy.
LEMMA InForceType ==
  ASSUME DirectoryTypeOK PROVE InForce \in Copy
BY DEF DirectoryTypeOK, InForce, ActiveRows, Copy

LEMMA NothingType == Nothing \in Copy
BY DEF Nothing, Copy

\* A request is for an approver or for a group.
LEMMA RequestCases ==
  ASSUME NEW r \in Request
  PROVE  /\ r.op \in {"create", "update", "delete"}
         /\ \/ r.table = "approvers" /\ r.id \in Approver /\ r.value \in {Absent} \cup Email
            \/ r.table = "groups" /\ r.id \in Group /\ r.value \in {Absent} \cup Members
BY DEF Request

LEMMA InTransactionRequest ==
  ASSUME DirectoryTypeOK, NEW c \in Call, InTransaction(c)
  PROVE  request[c] \in Request
BY DEF DirectoryTypeOK, InTransaction

\* What a commit writes is a row of its table, never the absence of one.
LEMMA WrittenType ==
  ASSUME DirectoryOK, NEW c \in Call, Commit(c)
  PROVE  /\ request[c] \in Request
         /\ request[c].table = "approvers" => Written(c) \in {Deleted} \cup Email
         /\ request[c].table = "groups" => Written(c) \in {Deleted} \cup Members
<1>1. InTransaction(c) /\ stage[c] \in {"read", "validated"}
  BY DEF Commit, InTransaction
<1>2. request[c] \in Request
  BY <1>1, InTransactionRequest DEF DirectoryOK
<1>3. /\ request[c].op = "create" => request[c].value # Absent
      /\ request[c].op # "create" => Target(c) # Absent
  BY <1>1 DEF DirectoryOK, RequestsAreWellFormed, WellFormed, TargetsStay
<1>4. /\ request[c].table = "approvers" => Target(c) \in {Absent, Deleted} \cup Email
      /\ request[c].table = "groups" => Target(c) \in {Absent, Deleted} \cup Members
  BY <1>2, RequestCases DEF Target, DirectoryOK, DirectoryTypeOK
<1> QED
  BY <1>2, <1>3, <1>4, RequestCases DEF Written

-----------------------------------------------------------------------------

\* A handler that ends leaves the rest of DirectoryOK to the others.
LEMMA EndsKeepsOK ==
  ASSUME DirectoryOK, NEW c \in Call, Running(c), server # "down",
         NEW how \in {"done", "refused", "failed"},
         Ends(c, how), UNCHANGED <<tables, server>>,
         copy' \in Copy, overtaken' \subseteq Call, stale' \in BOOLEAN
  PROVE  DirectoryOK'
<1> USE DEF DirectoryOK
<1>1. /\ stage' \in [Call -> Stage] /\ ~Running(c)'
      /\ \A d \in Call \ {c} : stage'[d] = stage[d] /\ request'[d] = request[d]
  BY DEF Ends, DirectoryTypeOK, Stage, Running, InTransaction, Reloading
<1>2. /\ key' = key
      /\ seen' \in [Call -> Row] /\ found' \in [Call -> Copy]
      /\ request' \in [Call -> {Absent} \cup Request]
  BY NothingType DEF Ends, DirectoryTypeOK, Row
<1>3. \A d \in Call : InTransaction(d)' => d # c /\ InTransaction(d)
  BY <1>1 DEF Running, InTransaction
<1>4. DirectoryTypeOK'
  BY <1>1, <1>2, <1>3 DEF DirectoryTypeOK, tables, InTransaction
<1>5. Quiet' /\ RequestsAreWellFormed'
  BY <1>1, <1>3 DEF Quiet, RequestsAreWellFormed
<1>6. TargetsStay'
  BY <1>1, <1>3 DEF TargetsStay, Target, InTransaction, tables
<1> QED
  BY <1>4, <1>5, <1>6

LEMMA BootKeepsOK ==
  ASSUME DirectoryOK, Boot PROVE DirectoryOK'
<1> USE DEF DirectoryOK
<1>1. \A c \in Call : ~Running(c)
  BY DEF Boot, Quiet
<1>2. /\ approvers' \in [Approver -> {Absent, Deleted} \cup Email]
      /\ groups' \in [Group -> {Absent, Deleted} \cup Members]
      /\ had' \subseteq Group \X Members
  <2>1. CASE UNCHANGED tables
    BY <2>1 DEF DirectoryTypeOK, tables
  <2>2. CASE Seed
    <3>1. /\ File.approvers \in [Approver -> {Absent} \cup Email]
          /\ File.groups \in [Group -> {Absent} \cup Members]
      BY DirectoryAssumption
    <3> QED
      BY <2>2, <3>1 DEF Seed, DirectoryTypeOK
  <2> QED
    BY <2>1, <2>2 DEF Boot
<1>3. InForce' \in Copy
  BY <1>2 DEF InForce, ActiveRows, Copy
<1>4. DirectoryTypeOK'
  BY <1>2, <1>3 DEF Boot, DirectoryTypeOK, calls, InTransaction
<1> QED
  BY <1>1, <1>4 DEF Boot, calls, Quiet, TargetsStay, RequestsAreWellFormed, Running,
     InTransaction, Reloading

LEMMA StopKeepsOK ==
  ASSUME DirectoryOK, Stop PROVE DirectoryOK'
<1> USE DEF DirectoryOK
<1>1. stage' \in [Call -> Stage] /\ \A c \in Call : ~Running(c)'
  BY DEF Stop, DirectoryTypeOK, Stage, Running, InTransaction, Reloading
<1>2. DirectoryTypeOK'
  BY <1>1, NothingType DEF Stop, DirectoryTypeOK, tables, Running, InTransaction, Row
<1> QED
  BY <1>1, <1>2 DEF Quiet, TargetsStay, RequestsAreWellFormed, Running, InTransaction

LEMMA AuthenticateKeepsOK ==
  ASSUME DirectoryOK, NEW c \in Call, NEW r \in Request, Authenticate(c, r)
  PROVE  DirectoryOK'
<1> USE DEF DirectoryOK
<1>1. /\ stage'[c] = "authenticated" /\ request'[c] = r
      /\ \A d \in Call \ {c} : stage'[d] = stage[d] /\ request'[d] = request[d]
  BY DEF Authenticate, DirectoryTypeOK
<1>2. DirectoryTypeOK'
  BY <1>1 DEF Authenticate, DirectoryTypeOK, Stage, tables, InTransaction
<1>3. Quiet' /\ RequestsAreWellFormed'
  BY <1>1 DEF Authenticate, Quiet, RequestsAreWellFormed, InTransaction
<1>4. TargetsStay'
  BY <1>1 DEF Authenticate, TargetsStay, Target, tables
<1> QED
  BY <1>2, <1>3, <1>4

LEMMA ReadKeepsOK ==
  ASSUME DirectoryOK, NEW c \in Call, Read(c) \/ Validate(c)
  PROVE  DirectoryOK'
<1> USE DEF DirectoryOK
<1>1. /\ stage[c] \in {"authenticated", "read"} /\ stage'[c] \in {"read", "validated"}
      /\ stage' \in [Call -> Stage]
      /\ \A d \in Call \ {c} : stage'[d] = stage[d]
      /\ UNCHANGED <<tables, server, copy, key, request, found, overtaken, stale>>
  BY DEF Read, Validate, DirectoryTypeOK, Stage
<1>2. InTransaction(c) /\ \A d \in Call : InTransaction(d)' => InTransaction(d)
  BY <1>1 DEF InTransaction
<1>3. request[c] \in Request
  BY <1>2, InTransactionRequest
<1>4. Target(c) \in Row
  BY <1>3, RequestCases DEF Target, DirectoryTypeOK, Row
<1>5. seen' \in [Call -> Row]
  BY <1>4 DEF Read, Validate, DirectoryTypeOK
<1>6. DirectoryTypeOK'
  BY <1>1, <1>2, <1>5 DEF DirectoryTypeOK, tables, InTransaction
<1>7. server # "down"
  BY <1>2 DEF Quiet, Running
<1>8. Quiet' /\ RequestsAreWellFormed'
  BY <1>1, <1>2, <1>7 DEF Quiet, RequestsAreWellFormed
<1>9. request[c].op # "create" => Target(c) # Absent
  BY DEF Read, Validate, Admitted, TargetsStay
<1>10. TargetsStay'
  BY <1>1, <1>9 DEF TargetsStay, Target, tables
<1> QED
  BY <1>6, <1>8, <1>10

LEMMA CommitKeepsOK ==
  ASSUME DirectoryOK, NEW c \in Call, Commit(c) PROVE DirectoryOK'
<1> USE DEF DirectoryOK
<1>1. /\ stage[c] \in {"read", "validated"} /\ stage'[c] = "committed"
      /\ stage' \in [Call -> Stage]
      /\ \A d \in Call \ {c} : stage'[d] = stage[d] /\ request'[d] = request[d]
  BY DEF Commit, DirectoryTypeOK, Stage
<1>2. InTransaction(c) /\ \A d \in Call : InTransaction(d)' => d # c /\ InTransaction(d)
  BY <1>1 DEF InTransaction
<1>3. request[c] \in Request /\ server # "down"
  BY <1>2, InTransactionRequest DEF Quiet, Running
<1>4. /\ approvers' \in [Approver -> {Absent, Deleted} \cup Email]
      /\ groups' \in [Group -> {Absent, Deleted} \cup Members]
      /\ had' \subseteq Group \X Members
      /\ \A a \in Approver : approvers[a] # Absent => approvers'[a] # Absent
      /\ \A g \in Group : groups[g] # Absent => groups'[g] # Absent
  <2>1. CASE request[c].table = "approvers"
    <3>1. Written(c) \in {Deleted} \cup Email
      BY <2>1, WrittenType
    <3>2. Written(c) # Absent
      BY <3>1, DirectoryAssumption
    <3>3. approvers' = [approvers EXCEPT ![request[c].id] = Written(c)] /\ UNCHANGED <<groups, had>>
      BY <2>1 DEF Commit
    <3> QED
      BY <3>1, <3>2, <3>3 DEF DirectoryTypeOK
  <2>2. CASE request[c].table = "groups"
    <3>1. Written(c) \in {Deleted} \cup Members /\ request[c].id \in Group
      BY <2>2, <1>3, WrittenType, RequestCases
    <3>2. Written(c) # Absent
      BY <3>1, DirectoryAssumption
    <3>3. /\ groups' = [groups EXCEPT ![request[c].id] = Written(c)]
          /\ had' = had \cup ({request[c].id} \X ({Written(c)} \ {Deleted}))
          /\ approvers' = approvers
      BY <2>2 DEF Commit
    <3> QED
      BY <3>1, <3>2, <3>3 DEF DirectoryTypeOK
  <2> QED
    BY <1>3, <2>1, <2>2, RequestCases
<1>5. /\ request' \in [Call -> {Absent} \cup Request]
      /\ seen' \in [Call -> Row] /\ overtaken' \subseteq Call
  BY DEF Commit, DirectoryTypeOK, Row
<1>6. DirectoryTypeOK'
  BY <1>1, <1>2, <1>4, <1>5 DEF Commit, DirectoryTypeOK, InTransaction
<1>7. Quiet' /\ RequestsAreWellFormed'
  BY <1>1, <1>2, <1>3 DEF Commit, Quiet, RequestsAreWellFormed
<1>8. TargetsStay'
  <2> SUFFICES ASSUME NEW d \in Call, stage'[d] \in {"read", "validated"},
                      request'[d].op # "create"
               PROVE  Target(d)' # Absent
    BY DEF TargetsStay
  <2>1. d # c /\ InTransaction(d) /\ stage'[d] = stage[d] /\ request'[d] = request[d]
    BY <1>1, <1>2 DEF InTransaction
  <2>2. Target(d) # Absent
    BY <2>1 DEF TargetsStay
  <2>3. request[d] \in Request
    BY <2>1, InTransactionRequest
  <2> QED
    BY <1>4, <2>1, <2>2, <2>3, RequestCases DEF Target
<1> QED
  BY <1>6, <1>7, <1>8

LEMMA QueryKeepsOK ==
  ASSUME DirectoryOK, NEW c \in Call, QueryApprovers(c) \/ QueryGroups(c)
  PROVE  DirectoryOK'
<1> USE DEF DirectoryOK
<1>1. /\ stage[c] \in {"committed", "queried"} /\ stage'[c] \in {"queried", "found"}
      /\ stage' \in [Call -> Stage]
      /\ \A d \in Call \ {c} : stage'[d] = stage[d]
      /\ UNCHANGED <<tables, server, copy, key, request, seen, overtaken, stale>>
  BY DEF QueryApprovers, QueryGroups, DirectoryTypeOK, Stage
<1>2. \A d \in Call : InTransaction(d)' => d # c /\ InTransaction(d)
  BY <1>1 DEF InTransaction
<1>3. found' \in [Call -> Copy]
  <2>1. /\ found[c] \in Copy /\ InForce \in Copy
        /\ found' = [found EXCEPT ![c].approvers = InForce.approvers]
           \/ found' = [found EXCEPT ![c].groups = InForce.groups]
    BY InForceType DEF QueryApprovers, QueryGroups, DirectoryTypeOK
  <2>2. [found[c] EXCEPT !.approvers = InForce.approvers] \in Copy
    BY <2>1 DEF Copy
  <2>3. [found[c] EXCEPT !.groups = InForce.groups] \in Copy
    BY <2>1 DEF Copy
  <2> QED
    BY <2>1, <2>2, <2>3 DEF DirectoryTypeOK
<1>4. DirectoryTypeOK'
  BY <1>1, <1>2, <1>3 DEF DirectoryTypeOK, tables, InTransaction
<1>5. server # "down"
  BY <1>1 DEF Quiet, Running, Reloading
<1>6. Quiet' /\ RequestsAreWellFormed'
  BY <1>1, <1>2, <1>5 DEF Quiet, RequestsAreWellFormed
<1>7. TargetsStay'
  BY <1>1 DEF TargetsStay, Target, tables
<1> QED
  BY <1>4, <1>6, <1>7

LEMMA EndingKeepsOK ==
  ASSUME DirectoryOK, NEW c \in Call, Refuse(c) \/ Swap(c) \/ Fail(c)
  PROVE  DirectoryOK'
<1> USE DEF DirectoryOK
<1>1. Running(c)
  BY DEF Refuse, Swap, Fail, Running, InTransaction, Reloading
<1>2. server # "down"
  BY <1>1 DEF Quiet
<1>3. /\ copy' \in Copy /\ overtaken' \subseteq Call /\ stale' \in BOOLEAN
      /\ UNCHANGED <<tables, server>>
  <2>1. copy' \in Copy /\ overtaken' \subseteq Call /\ UNCHANGED <<tables, server>>
    BY DEF Refuse, Swap, Swapped, Fail, DirectoryTypeOK
  <2>2. stale' \in BOOLEAN
    <3>1. CASE Refuse(c)
      BY <3>1 DEF Refuse, DirectoryTypeOK
    <3>2. CASE Swap(c)
      <4>1. stale' = (c \in overtaken)
        BY <3>2, Zenon DEF Swap
      <4>2. (c \in overtaken) \in BOOLEAN
        OBVIOUS
      <4> QED
        BY <4>1, <4>2, Zenon
    <3>3. CASE Fail(c)
      <4>1. stale' = (stale \/ Reloading(c))
        BY <3>3, Zenon DEF Fail
      <4> QED
        BY <4>1, Zenon
    <3> QED
      BY <3>1, <3>2, <3>3
  <2> QED
    BY <2>1, <2>2
<1>4. \E how \in {"done", "refused", "failed"} : Ends(c, how)
  BY DEF Refuse, Swap, Fail
<1> QED
  BY <1>1, <1>2, <1>3, <1>4, EndsKeepsOK

LEMMA StutterKeepsOK ==
  ASSUME DirectoryOK, UNCHANGED directoryVars PROVE DirectoryOK'
BY DEF DirectoryOK, directoryVars, tables, calls, DirectoryTypeOK, Quiet, TargetsStay, Target,
   RequestsAreWellFormed, Running, InTransaction, Reloading

LEMMA DirectoryInitOK ==
  ASSUME DirectoryInit PROVE DirectoryOK
<1>1. Nothing.approvers \in [Approver -> {Absent} \cup Email] /\
      Nothing.groups \in [Group -> {Absent} \cup Members]
  BY DEF Nothing
<1>2. DirectoryTypeOK
  BY <1>1, NothingType DEF DirectoryInit, DirectoryTypeOK, Stage, Row
<1> QED
  BY <1>2 DEF DirectoryInit, DirectoryOK, Quiet, TargetsStay, RequestsAreWellFormed, Running,
     InTransaction, Reloading

LEMMA DirectoryStepKeepsOK ==
  ASSUME DirectoryOK, [DirectoryStep]_directoryVars PROVE DirectoryOK'
BY BootKeepsOK, StopKeepsOK, AuthenticateKeepsOK, ReadKeepsOK, CommitKeepsOK, QueryKeepsOK,
   EndingKeepsOK, StutterKeepsOK DEF DirectoryStep

\* Submissions only read what belongs to the directory.
LEMMA NextIsDirectoryStep ==
  ASSUME [Next]_vars PROVE [DirectoryStep]_directoryVars
BY DEF Next, vars, Administer, Evaluate, FallBack, RefuseInterrupt, Ask, Abandon

\* The directory's variables stay in their types under every interleaving of
\* calls, restarts and submissions, and what a call was admitted to change
\* stays there: the invariant the others rest on.
THEOREM DirectoryStaysOK == Spec => []DirectoryOK
<1>1. Init => DirectoryOK
  BY DirectoryInitOK DEF Init
<1>2. DirectoryOK /\ [Next]_vars => DirectoryOK'
  BY NextIsDirectoryStep, DirectoryStepKeepsOK
<1> QED
  BY <1>1, <1>2, PTL DEF Spec

-----------------------------------------------------------------------------
(* The copy and the tables *)

\* What a reload has found so far is what is in force, unless a commit has
\* overtaken it.
Fresh ==
  /\ \A c \in Call : stage[c] = "queried" /\ c \notin overtaken =>
       found[c].approvers = InForce.approvers
  /\ \A c \in Call : stage[c] = "found" /\ c \notin overtaken => found[c] = InForce
  /\ CopyIsTable

LEMMA CommitKeepsFresh ==
  ASSUME DirectoryOK, Fresh, NEW c \in Call, Commit(c) PROVE Fresh'
<1> USE DEF DirectoryOK, DirectoryTypeOK
<1>1. /\ stage[c] \in {"read", "validated"} /\ stage'[c] = "committed"
      /\ \A d \in Call \ {c} : stage'[d] = stage[d]
  BY DEF Commit
<1>2. Reloading(c)'
  BY <1>1 DEF Reloading
<1>3. \A d \in Call : stage'[d] \in {"queried", "found"} => d \in overtaken'
  BY <1>1 DEF Commit
<1> QED
  BY <1>2, <1>3 DEF Fresh, CopyIsTable

LEMMA BootKeepsFresh ==
  ASSUME DirectoryOK, Fresh, Boot PROVE Fresh'
<1>1. \A c \in Call : ~Running(c)
  BY DEF Boot, Quiet, DirectoryOK
<1> QED
  BY <1>1 DEF Boot, Fresh, CopyIsTable, calls, Running, Reloading

LEMMA QueryKeepsFresh ==
  ASSUME DirectoryOK, Fresh, NEW c \in Call, QueryApprovers(c) \/ QueryGroups(c)
  PROVE  Fresh'
<1> USE DEF DirectoryOK, DirectoryTypeOK
<1>1. /\ stage'[c] \in {"queried", "found"}
      /\ \A d \in Call \ {c} : stage'[d] = stage[d] /\ found'[d] = found[d]
      /\ UNCHANGED <<tables, server, copy, overtaken, stale>>
  BY DEF QueryApprovers, QueryGroups
<1>2. Reloading(c)' /\ InForce' = InForce
  BY <1>1 DEF Reloading, InForce, tables
<1>3. stage'[c] = "queried" => found'[c].approvers = InForce.approvers
  BY DEF QueryApprovers, QueryGroups, Copy
<1>4. stage'[c] = "found" /\ c \notin overtaken => found'[c] = InForce
  <2>1. SUFFICES ASSUME QueryGroups(c), c \notin overtaken PROVE found'[c] = InForce
    BY DEF QueryApprovers
  <2>2. /\ found[c].approvers = InForce.approvers
        /\ found[c] \in Copy /\ InForce \in Copy
    BY <2>1, InForceType DEF QueryGroups, Fresh
  <2>3. found'[c] = [found[c] EXCEPT !.groups = InForce.groups]
    BY <2>1 DEF QueryGroups
  <2> QED
    BY <2>2, <2>3 DEF Copy
<1> QED
  BY <1>1, <1>2, <1>3, <1>4 DEF Fresh, CopyIsTable

LEMMA EndingKeepsFresh ==
  ASSUME DirectoryOK, Fresh, NEW c \in Call, Refuse(c) \/ Swap(c) \/ Fail(c)
  PROVE  Fresh'
<1> USE DEF DirectoryOK, DirectoryTypeOK
<1>1. /\ stage'[c] \in {"refused", "done", "failed"}
      /\ \A d \in Call \ {c} :
           stage'[d] = stage[d] /\ found'[d] = found[d] /\ (d \in overtaken' <=> d \in overtaken)
      /\ UNCHANGED <<tables, server>>
  BY DEF Refuse, Swap, Fail, Ends
<1>2. InForce' = InForce
  BY <1>1 DEF InForce, tables
<1>3. CopyIsTable'
  <2>1. CASE Swap(c)
    <3>1. c \notin overtaken => copy' = InForce
      BY <2>1 DEF Swap, Swapped, Fresh
    <3>2. ~stale' => c \notin overtaken
      BY <2>1 DEF Swap
    <3> QED
      BY <1>2, <3>1, <3>2 DEF CopyIsTable
  <2>2. CASE (Fail(c) /\ ~Reloading(c)) \/ Refuse(c)
    <3>1. UNCHANGED <<copy, server>> /\ (~stale' => ~stale)
      BY <2>2 DEF Fail, Refuse
    <3>2. ~Reloading(c)
      BY <2>2 DEF Refuse, Reloading
    <3>3. \A d \in Call : ~Reloading(d)' => ~Reloading(d)
      BY <1>1, <3>2 DEF Reloading
    <3> QED
      BY <1>2, <3>1, <3>3 DEF Fresh, CopyIsTable
  <2>3. CASE Fail(c) /\ Reloading(c)
    BY <2>3 DEF Fail, CopyIsTable
  <2> QED
    BY <2>1, <2>2, <2>3
<1> QED
  BY <1>1, <1>2, <1>3 DEF Fresh

LEMMA OtherStepsKeepFresh ==
  ASSUME DirectoryOK, Fresh,
         \/ Stop \/ UNCHANGED directoryVars
         \/ \E c \in Call : Read(c) \/ Validate(c) \/ \E r \in Request : Authenticate(c, r)
  PROVE  Fresh'
<1> USE DEF DirectoryOK, DirectoryTypeOK
<1>1. CASE Stop
  <2>1. \A c \in Call : stage'[c] \notin {"queried", "found"}
    BY <1>1 DEF Stop, Reloading
  <2> QED
    BY <1>1, <2>1 DEF Stop, Fresh, CopyIsTable
<1>2. CASE UNCHANGED directoryVars
  BY <1>2 DEF directoryVars, tables, calls, Fresh, CopyIsTable, InForce, Reloading
<1>3. ASSUME NEW c \in Call, Read(c) \/ Validate(c) \/ \E r \in Request : Authenticate(c, r)
      PROVE  Fresh'
  <2>1. /\ stage[c] \in {"idle", "authenticated", "read"}
        /\ stage'[c] \in {"authenticated", "read", "validated"}
        /\ \A d \in Call \ {c} : stage'[d] = stage[d]
        /\ UNCHANGED <<tables, server, copy, found, overtaken, stale>>
    BY <1>3 DEF Read, Validate, Authenticate
  <2> QED
    BY <2>1 DEF Fresh, CopyIsTable, InForce, Reloading, tables
<1> QED
  BY <1>1, <1>2, <1>3

LEMMA StaysFresh == Spec => []Fresh
<1>1. Init => Fresh
  BY DEF Init, DirectoryInit, Fresh, CopyIsTable
<1>2. DirectoryOK /\ Fresh /\ [Next]_vars => Fresh'
  BY NextIsDirectoryStep, CommitKeepsFresh, BootKeepsFresh, QueryKeepsFresh, EndingKeepsFresh,
     OtherStepsKeepFresh DEF DirectoryStep
<1> QED
  BY <1>1, <1>2, DirectoryStaysOK, PTL DEF Spec

\* Between changes the copy is the tables of one moment, unless the last
\* reload failed or was overtaken, however calls and restarts interleave.
THEOREM CopyStaysTable == Spec => []CopyIsTable
<1>1. Fresh => CopyIsTable
  BY DEF Fresh
<1> QED
  BY <1>1, StaysFresh, PTL

-----------------------------------------------------------------------------
(* The members of groups *)

\* A key's row is locked by one transaction at a time.
OneTransactionPerKey ==
  \A c, d \in Call : InTransaction(c) /\ InTransaction(d) /\ key[c] = key[d] => c = d

\* With one key in use, what was validated still holds at the commit.
ValidatedStaysTrue ==
  \A c \in Call : stage[c] = "validated" =>
    SetsMembers(c) /\ (OneKey => request[c].value \subseteq ActiveApprovers)

MembersOK == OneTransactionPerKey /\ ValidatedStaysTrue

LEMMA OneKeyBefore ==
  ASSUME DirectoryOK, [DirectoryStep]_directoryVars, OneKey' PROVE OneKey
<1>1. key' = key
  BY DEF DirectoryStep, directoryVars, calls, Boot, Stop, Authenticate, Read, Validate, Refuse,
     Commit, QueryApprovers, QueryGroups, Swap, Fail, Ends
<1>2. \A c \in Call : stage[c] # "idle" => stage'[c] # "idle"
  BY DEF DirectoryStep, directoryVars, calls, Boot, Stop, Authenticate, Read, Validate, Refuse,
     Commit, QueryApprovers, QueryGroups, Swap, Fail, Ends, DirectoryOK, DirectoryTypeOK,
     InTransaction, Reloading
<1> QED
  BY <1>1, <1>2 DEF OneKey

\* While one key is in use nobody else is in a transaction.
LEMMA AloneWithOneKey ==
  ASSUME MembersOK, OneKey, NEW c \in Call, NEW d \in Call, InTransaction(c), InTransaction(d)
  PROVE  c = d
BY DEF MembersOK, OneTransactionPerKey, OneKey, InTransaction

LEMMA MembersStep ==
  ASSUME DirectoryOK, MembersOK, [DirectoryStep]_directoryVars
  PROVE  MembersOK'
<1> USE DEF DirectoryOK, DirectoryTypeOK
<1>0. OneKey' => OneKey
  BY OneKeyBefore
<1>1. ASSUME NEW c \in Call, NEW r \in Request, Authenticate(c, r)
      PROVE  MembersOK'
  <2>1. /\ stage'[c] = "authenticated" /\ key' = key
        /\ \A d \in Call \ {c} : stage'[d] = stage[d] /\ request'[d] = request[d]
        /\ UNCHANGED tables
    BY <1>1 DEF Authenticate
  <2>2. \A d \in Call : InTransaction(d) => key[d] # key[c]
    BY <1>1 DEF Authenticate, KeyFree
  <2>3. OneTransactionPerKey'
    BY <2>1, <2>2 DEF MembersOK, OneTransactionPerKey, InTransaction
  <2> QED
    BY <1>0, <2>1, <2>3 DEF MembersOK, ValidatedStaysTrue, SetsMembers, ActiveApprovers, tables
<1>2. ASSUME NEW c \in Call, Read(c) \/ Validate(c) PROVE MembersOK'
  <2>1. /\ InTransaction(c) /\ key' = key /\ request' = request
        /\ \A d \in Call \ {c} : stage'[d] = stage[d]
        /\ UNCHANGED tables
    BY <1>2 DEF Read, Validate, InTransaction
  <2>2. OneTransactionPerKey'
    BY <2>1 DEF MembersOK, OneTransactionPerKey, InTransaction
  <2>3. stage'[c] = "validated" => SetsMembers(c) /\ request[c].value \subseteq ActiveApprovers
    BY <1>2 DEF Read, Validate
  <2> QED
    BY <1>0, <2>1, <2>2, <2>3 DEF MembersOK, ValidatedStaysTrue, SetsMembers, ActiveApprovers, tables
<1>3. ASSUME NEW c \in Call, Commit(c) PROVE MembersOK'
  <2>1. /\ InTransaction(c) /\ stage'[c] = "committed" /\ key' = key
        /\ \A d \in Call \ {c} : stage'[d] = stage[d] /\ request'[d] = request[d]
    BY <1>3 DEF Commit, InTransaction
  <2>2. OneTransactionPerKey'
    BY <2>1 DEF MembersOK, OneTransactionPerKey, InTransaction
  <2>3. \A d \in Call : stage'[d] = "validated" => d # c /\ InTransaction(d) /\ ~OneKey
    BY <2>1, AloneWithOneKey DEF InTransaction
  <2> QED
    BY <1>0, <2>1, <2>2, <2>3 DEF MembersOK, ValidatedStaysTrue, SetsMembers
<1>4. ASSUME NEW c \in Call,
             \/ QueryApprovers(c) \/ QueryGroups(c)
             \/ Refuse(c) \/ Swap(c) \/ Fail(c)
      PROVE  MembersOK'
  <2>1. /\ ~InTransaction(c)' /\ stage'[c] # "validated" /\ key' = key
        /\ \A d \in Call \ {c} : stage'[d] = stage[d] /\ request'[d] = request[d]
        /\ UNCHANGED tables
    BY <1>4 DEF QueryApprovers, QueryGroups, Refuse, Swap, Fail, Ends, InTransaction
  <2> QED
    BY <1>0, <2>1 DEF MembersOK, OneTransactionPerKey, ValidatedStaysTrue, SetsMembers,
       ActiveApprovers, InTransaction, tables
<1>5. CASE Boot
  <2>1. \A c \in Call : ~InTransaction(c)
    BY <1>5 DEF Boot, Quiet, Running
  <2> QED
    BY <1>5, <2>1 DEF Boot, calls, MembersOK, OneTransactionPerKey, ValidatedStaysTrue, InTransaction
<1>6. CASE Stop
  <2>1. \A c \in Call : ~InTransaction(c)'
    BY <1>6 DEF Stop, InTransaction, Reloading
  <2> QED
    BY <2>1 DEF MembersOK, OneTransactionPerKey, ValidatedStaysTrue, InTransaction
<1>7. CASE UNCHANGED directoryVars
  BY <1>0, <1>7 DEF directoryVars, tables, calls, MembersOK, OneTransactionPerKey,
     ValidatedStaysTrue, SetsMembers, ActiveApprovers, InTransaction
<1> QED
  BY <1>1, <1>2, <1>3, <1>4, <1>5, <1>6, <1>7 DEF DirectoryStep

LEMMA MembersStayOK == Spec => []MembersOK
<1>1. Init => MembersOK
  BY DEF Init, DirectoryInit, MembersOK, OneTransactionPerKey, ValidatedStaysTrue, InTransaction
<1>2. DirectoryOK /\ MembersOK /\ [Next]_vars => MembersOK'
  BY NextIsDirectoryStep, MembersStep
<1> QED
  BY <1>1, <1>2, DirectoryStaysOK, PTL DEF Spec

GivesActiveMembers ==
  OneKey' /\ server = "up" =>
    \A g \in Group : groups'[g] # groups[g] /\ groups'[g] \notin {Absent, Deleted} =>
      groups'[g] \subseteq ActiveApprovers'

LEMMA StepGivesActiveMembers ==
  ASSUME DirectoryOK, MembersOK, [DirectoryStep]_directoryVars
  PROVE  GivesActiveMembers
<1> USE DEF DirectoryOK, DirectoryTypeOK
<1> SUFFICES ASSUME OneKey', server = "up", NEW g \in Group, groups'[g] # groups[g],
                    groups'[g] \notin {Absent, Deleted}
             PROVE  groups'[g] \subseteq ActiveApprovers'
  BY DEF GivesActiveMembers
<1>1. PICK c \in Call : Commit(c)
  BY DEF DirectoryStep, directoryVars, tables, Boot, Stop, Authenticate, Read, Validate, Refuse,
     QueryApprovers, QueryGroups, Swap, Fail
<1>2. /\ request[c] \in Request /\ request[c].table # "approvers"
      /\ g = request[c].id /\ groups'[g] = Written(c) /\ approvers' = approvers
  BY <1>1, WrittenType DEF Commit
<1>3. request[c].table = "groups" /\ Target(c) = groups[g]
  BY <1>2, RequestCases DEF Target
<1>4. request[c].op # "delete" /\ Written(c) = request[c].value
  BY <1>2, <1>3, RequestCases DEF Written
<1>5. SetsMembers(c)
  BY <1>2, <1>3, <1>4 DEF SetsMembers
<1>6. stage[c] = "validated" /\ OneKey
  BY <1>1, <1>5, OneKeyBefore DEF Commit
<1>7. request[c].value \subseteq ActiveApprovers
  BY <1>6 DEF MembersOK, ValidatedStaysTrue
<1> QED
  BY <1>2, <1>4, <1>7 DEF ActiveApprovers

\* With one API key in use no group is ever given a member that is not an
\* active approver when the group is committed, for any number of calls.
THEOREM GroupsOnlyGetActiveMembers == Spec => GroupsGetActiveMembers
<1>1. DirectoryOK /\ MembersOK /\ [Next]_vars => [GivesActiveMembers]_directoryVars
  BY NextIsDirectoryStep, StepGivesActiveMembers
<1> QED
  BY <1>1, DirectoryStaysOK, MembersStayOK, PTL DEF Spec, GroupsGetActiveMembers, GivesActiveMembers

-----------------------------------------------------------------------------
(* Routing *)

LEMMA RulesAreRules ==
  ASSUME NEW i \in Interrupt, NEW loaded \in PolicySets, NEW r \in RulesFor(loaded, i) PROVE r \in Rule
BY RoutingAssumption DEF RulesFor, FirstRule

LEMMA DefaultIsRule == DefaultRule \in Rule
BY DEF DefaultRule, Rule

LEMMA ResolveType ==
  ASSUME DirectoryTypeOK, NEW ref PROVE Resolve(ref) \subseteq Person
<1>1. \A a \in KnownApprovers : a \in Approver /\ copy.approvers[a] \in Email
  BY DEF KnownApprovers, DirectoryTypeOK, Copy
<1> QED
  BY <1>1 DEF Resolve, Person

LEMMA RoutingStepIsTyped ==
  ASSUME RoutingTypeOK, DirectoryTypeOK', [Next]_vars PROVE RoutingTypeOK'
<1> USE DEF RoutingTypeOK
<1>2. CASE Administer
  BY <1>2 DEF Administer
<1>3. ASSUME NEW i \in Interrupt, Evaluate(i) PROVE RoutingTypeOK'
  <2>1. PICK r \in Rule :
          Plan(i, r, IF r.action = "request_human"
                     THEN UNION {Resolve(ref) : ref \in r.refs} ELSE {})
    BY <1>3, RulesAreRules DEF Evaluate
  <2>2. r \in Rule /\ UNION {Resolve(ref) : ref \in r.refs} \subseteq Person
    BY ResolveType
  <2> QED
    BY <1>3, <2>1, <2>2 DEF Evaluate, Plan
<1>4. ASSUME NEW i \in Interrupt, FallBack(i) PROVE RoutingTypeOK'
  BY <1>4, DefaultIsRule DEF FallBack, Plan, Person
<1>5. ASSUME NEW i \in Interrupt, Ask(i) PROVE RoutingTypeOK'
  <2>1. Ids(people[i]) \subseteq Approver \cup {DefaultApprover}
    BY DEF Ids, Person
  <2>2. \A rows \in RowsFor(i) : rows \subseteq Approver \cup {DefaultApprover}
    BY <2>1 DEF RowsFor
  <2> QED
    BY <1>5, <2>2 DEF Ask
<1>6. ASSUME NEW i \in Interrupt, RefuseInterrupt(i) \/ Abandon(i) PROVE RoutingTypeOK'
  BY <1>6 DEF RefuseInterrupt, Abandon
<1>7. CASE UNCHANGED vars
  BY <1>7 DEF vars, submissions
<1> QED
  BY <1>2, <1>3, <1>4, <1>5, <1>6, <1>7 DEF Next

\* What is asked are ids of approvers, and what is matched is a rule, for any
\* policies.
THEOREM RoutingIsTyped == Spec => []RoutingTypeOK
<1>1. Init => RoutingTypeOK
  BY DirectoryInitOK, DefaultIsRule DEF Init, RoutingTypeOK, DirectoryOK
<1>2. RoutingTypeOK /\ DirectoryOK' /\ [Next]_vars => RoutingTypeOK'
  BY RoutingStepIsTyped DEF DirectoryOK
<1> QED
  BY <1>1, <1>2, DirectoryStaysOK, PTL DEF Spec

PlansByTheTable ==
  \A i \in Interrupt :
    /\ fate[i] = "new" /\ fate'[i] = "planned"
    /\ rule'[i].action = "request_human" /\ rule'[i] # DefaultRule
    /\ ~stale /\ \A c \in Call : ~Reloading(c)
    => people'[i] = {<<a, approvers[a]>> : a \in UNION {Named(ref) : ref \in rule'[i].refs}}

\* When the copy is the tables, a reference means to the server what it means
\* by the tables.
LEMMA ResolveNames ==
  ASSUME DirectoryTypeOK, copy = InForce, NEW ref \in Ref, Resolvable(ref)
  PROVE  Resolve(ref) = {<<a, approvers[a]>> : a \in Named(ref)}
<1> USE DEF DirectoryTypeOK
<1>1. KnownApprovers = ActiveApprovers
  BY DEF KnownApprovers, ActiveApprovers, InForce, ActiveRows
<1>2. \A a \in ActiveApprovers : copy.approvers[a] = approvers[a]
  BY DEF ActiveApprovers, InForce, ActiveRows
<1>3. CASE ref \in ActiveApprovers
  BY <1>1, <1>2, <1>3 DEF Resolve, Named
<1>4. CASE ref \notin ActiveApprovers
  <2>1. ref \in KnownGroups /\ copy.groups[ref] \subseteq ActiveApprovers
    BY <1>1, <1>4 DEF Resolvable
  <2>2. copy.groups[ref] = groups[ref]
    BY <2>1 DEF KnownGroups, InForce, ActiveRows
  <2> QED
    BY <1>1, <1>2, <1>4, <2>1, <2>2 DEF Resolve, Named
<1> QED
  BY <1>3, <1>4

LEMMA StepPlansByTheTable ==
  ASSUME RoutingTypeOK, CopyIsTable, [Next]_vars PROVE PlansByTheTable
<1> USE DEF RoutingTypeOK
<1> SUFFICES ASSUME NEW i \in Interrupt, fate[i] = "new", fate'[i] = "planned",
                    rule'[i].action = "request_human", rule'[i] # DefaultRule,
                    ~stale, \A c \in Call : ~Reloading(c)
             PROVE  people'[i] = {<<a, approvers[a]>> : a \in UNION {Named(ref) : ref \in rule'[i].refs}}
  BY DEF PlansByTheTable
<1>1. Evaluate(i)
  BY DEF Next, Administer, Evaluate, FallBack, RefuseInterrupt, Ask, Abandon, Plan, vars, submissions
<1>2. PICK r \in Rule :
        /\ r.action = "request_human" => \A ref \in r.refs : Resolvable(ref)
        /\ Plan(i, r, IF r.action = "request_human"
                      THEN UNION {Resolve(ref) : ref \in r.refs} ELSE {})
  BY <1>1, RulesAreRules DEF Evaluate
<1>3. rule'[i] = r /\ r \in Rule /\ r.action = "request_human"
  BY <1>2 DEF Plan
<1>4. people'[i] = UNION {Resolve(ref) : ref \in r.refs}
  BY <1>2, <1>3 DEF Plan
<1>5. copy = InForce
  BY <1>1 DEF Evaluate, CopyIsTable
<1>6. \A ref \in r.refs : Resolve(ref) = {<<a, approvers[a]>> : a \in Named(ref)}
  BY <1>2, <1>3, <1>5, ResolveNames DEF Rule
<1> QED
  BY <1>3, <1>4, <1>6

\* Between changes an interrupt is planned for exactly the active approvers
\* that the tables name, by their current addresses.
THEOREM InterruptsRouteByTheTable == Spec => RoutesByTheTable
<1>1. RoutingTypeOK /\ CopyIsTable /\ [Next]_vars => [PlansByTheTable]_vars
  BY StepPlansByTheTable
<1> QED
  BY <1>1, RoutingIsTyped, CopyStaysTable, PTL DEF Spec, RoutesByTheTable, PlansByTheTable

-----------------------------------------------------------------------------
(* Whole groups *)

\* The tables, the copy and what reloads have found hold memberships that the
\* groups had.
Remembered(table) == \A g \in Group : table[g] \notin {Absent, Deleted} => <<g, table[g]>> \in had

AllRemembered ==
  /\ Remembered(groups)
  /\ Remembered(copy.groups)
  /\ \A c \in Call : Remembered(found[c].groups)

LEMMA CommitRemembers ==
  ASSUME DirectoryOK, AllRemembered, NEW c \in Call, Commit(c)
  PROVE  had \subseteq had' /\ AllRemembered'
<1> USE DEF DirectoryOK, DirectoryTypeOK
<1>1. had \subseteq had' /\ UNCHANGED <<copy, found>>
  BY DEF Commit
<1>2. Remembered(groups)'
  <2>1. CASE request[c].table = "approvers"
    BY <2>1 DEF Commit, AllRemembered, Remembered
  <2>2. CASE request[c].table # "approvers"
    <3>1. /\ groups' = [groups EXCEPT ![request[c].id] = Written(c)]
          /\ had' = had \cup ({request[c].id} \X ({Written(c)} \ {Deleted}))
      BY <2>2 DEF Commit
    <3> QED
      BY <3>1 DEF AllRemembered, Remembered
  <2> QED
    BY <2>1, <2>2
<1> QED
  BY <1>1, <1>2 DEF AllRemembered, Remembered

LEMMA NothingIsRemembered == Remembered(Nothing.groups)
BY DEF Remembered, Nothing

LEMMA StepRemembers ==
  ASSUME DirectoryOK, AllRemembered, [DirectoryStep]_directoryVars
  PROVE  had \subseteq had' /\ AllRemembered'
<1> USE DEF DirectoryOK, DirectoryTypeOK
<1>1. CASE Boot
  <2>1. had \subseteq had' /\ Remembered(groups)'
    <3>1. CASE UNCHANGED tables
      BY <3>1 DEF tables, AllRemembered, Remembered
    <3>2. CASE Seed
      BY <3>2 DEF Seed, AllRemembered, Remembered
    <3> QED
      BY <1>1, <3>1, <3>2 DEF Boot
  <2>2. groups' \in [Group -> {Absent, Deleted} \cup Members] /\ copy'.groups = ActiveRows(groups')
    BY <1>1, BootKeepsOK DEF Boot, InForce
  <2>3. Remembered(copy.groups)'
    BY <2>1, <2>2 DEF ActiveRows, Remembered
  <2> QED
    BY <1>1, <2>1, <2>3 DEF Boot, calls, AllRemembered, Remembered
<1>2. CASE Stop
  BY <1>2, NothingIsRemembered DEF Stop, tables, AllRemembered, Remembered
<1>3. ASSUME NEW c \in Call,
             \/ \E r \in Request : Authenticate(c, r)
             \/ Read(c) \/ Validate(c)
      PROVE  had \subseteq had' /\ AllRemembered'
  BY <1>3 DEF Authenticate, Read, Validate, tables, AllRemembered, Remembered
<1>4. ASSUME NEW c \in Call, QueryApprovers(c) \/ QueryGroups(c)
      PROVE  had \subseteq had' /\ AllRemembered'
  <2>1. UNCHANGED <<tables, copy>> /\ \A d \in Call \ {c} : found'[d] = found[d]
    BY <1>4 DEF QueryApprovers, QueryGroups
  <2>2. found'[c].groups = found[c].groups \/ found'[c].groups = ActiveRows(groups)
    BY <1>4 DEF QueryApprovers, QueryGroups, InForce, Copy
  <2>3. Remembered(ActiveRows(groups))
    BY DEF AllRemembered, Remembered, ActiveRows
  <2> QED
    BY <2>1, <2>2, <2>3 DEF tables, AllRemembered, Remembered
<1>5. ASSUME NEW c \in Call, Refuse(c) \/ Swap(c) \/ Fail(c)
      PROVE  had \subseteq had' /\ AllRemembered'
  <2>1. UNCHANGED tables /\ (copy' = copy \/ copy' = found[c])
    BY <1>5 DEF Refuse, Swap, Swapped, Fail
  <2>2. found' = [found EXCEPT ![c] = Nothing]
    BY <1>5 DEF Refuse, Swap, Fail, Ends
  <2> QED
    BY <2>1, <2>2, NothingIsRemembered DEF tables, AllRemembered, Remembered
<1>6. CASE UNCHANGED directoryVars
  BY <1>6 DEF directoryVars, tables, calls, AllRemembered, Remembered
<1> QED
  BY <1>1, <1>2, <1>3, <1>4, <1>5, <1>6, CommitRemembers DEF DirectoryStep

\* S leaves out none of the references and adds nobody, by the memberships of
\* the past.
MeantIn(ref, past) == {{ref}} \cup {m \in Members : <<ref, m>> \in past}

Covers(refs, past, S) ==
  /\ \A ref \in refs : \E m \in MeantIn(ref, past) : m \subseteq S
  /\ S \subseteq UNION UNION {MeantIn(ref, past) : ref \in refs}

WholePlans ==
  /\ AllRemembered
  /\ \A i \in Interrupt :
       fate[i] = "planned" /\ rule[i].action = "request_human" /\ rule[i].mode = "all_of" =>
         Covers(rule[i].refs, had, Ids(people[i]))
  /\ \A i \in Interrupt :
       fate[i] = "asked" /\ rule[i].mode = "all_of" => Covers(rule[i].refs, had, asked[i])

\* What was once a membership remains one.
LEMMA CoversStays ==
  ASSUME NEW past, NEW now, past \subseteq now, NEW refs, NEW S, Covers(refs, past, S)
  PROVE  Covers(refs, now, S)
<1>1. \A ref : MeantIn(ref, past) \subseteq MeantIn(ref, now)
  BY DEF MeantIn
<1>2. \A ref \in refs : \E m \in MeantIn(ref, now) : m \subseteq S
  BY <1>1 DEF Covers
<1>3. S \subseteq UNION UNION {MeantIn(ref, now) : ref \in refs}
  BY <1>1 DEF Covers
<1> QED
  BY <1>2, <1>3 DEF Covers

LEMMA ResolvedIds ==
  ASSUME NEW ref
  PROVE  Ids(Resolve(ref)) =
           (IF ref \in KnownApprovers THEN {ref} ELSE copy.groups[ref]) \cap KnownApprovers
<1> DEFINE them == (IF ref \in KnownApprovers THEN {ref} ELSE copy.groups[ref]) \cap KnownApprovers
           pairs == {<<a, copy.approvers[a]>> : a \in them}
<1>1. Resolve(ref) = pairs
  BY DEF Resolve
<1> HIDE DEF them
<1>2. ASSUME NEW a \in them PROVE \E p \in pairs : p[1] = a
  <2>1. <<a, copy.approvers[a]>> \in pairs
    OBVIOUS
  <2> HIDE DEF pairs
  <2>2. <<a, copy.approvers[a]>>[1] = a
    OBVIOUS
  <2> QED
    BY <2>1, <2>2
<1>3. \A p \in pairs : p[1] \in them
  OBVIOUS
<1> HIDE DEF pairs
<1>4. {p[1] : p \in pairs} = them
  BY <1>2, <1>3
<1> QED
  BY <1>1, <1>4 DEF Ids, them

\* A plan asks a known approver, or all of a membership that the group had.
LEMMA ResolveCovers ==
  ASSUME DirectoryTypeOK, AllRemembered, NEW ref \in Ref, Resolvable(ref)
  PROVE  \E m \in MeantIn(ref, had) : Ids(Resolve(ref)) = m
<1>1. CASE ref \in KnownApprovers
  <2>1. Ids(Resolve(ref)) = {ref}
    BY <1>1, ResolvedIds
  <2> QED
    BY <2>1 DEF MeantIn
<1>2. CASE ref \notin KnownApprovers
  <2>1. ref \in KnownGroups /\ copy.groups[ref] \subseteq KnownApprovers
    BY <1>2 DEF Resolvable
  <2>2. copy.groups[ref] \in Members /\ copy.groups[ref] \notin {Absent, Deleted}
    BY <2>1, DirectoryAssumption DEF KnownGroups, DirectoryTypeOK, Copy
  <2>3. <<ref, copy.groups[ref]>> \in had
    BY <2>1, <2>2 DEF KnownGroups, AllRemembered, Remembered
  <2>4. Ids(Resolve(ref)) = copy.groups[ref]
    BY <1>2, <2>1, ResolvedIds
  <2> QED
    BY <2>2, <2>3, <2>4 DEF MeantIn
<1> QED
  BY <1>1, <1>2

LEMMA WholePlansStep ==
  ASSUME RoutingTypeOK, DirectoryOK, WholePlans, [Next]_vars
  PROVE  WholePlans'
<1> USE DEF RoutingTypeOK
<1>1. had \subseteq had' /\ AllRemembered'
  BY NextIsDirectoryStep, StepRemembers DEF WholePlans
<1>3. ASSUME NEW i \in Interrupt, fate'[i] = "planned",
             rule'[i].action = "request_human", rule'[i].mode = "all_of"
      PROVE  Covers(rule'[i].refs, had', Ids(people'[i]))
  <2>1. CASE fate[i] = "planned"
    <3>1. rule'[i] = rule[i] /\ people'[i] = people[i]
      BY <1>3, <2>1 DEF Next, Administer, Evaluate, FallBack, RefuseInterrupt, Ask, Abandon, Plan,
         vars, submissions
    <3>2. Covers(rule[i].refs, had, Ids(people[i]))
      BY <1>3, <2>1, <3>1 DEF WholePlans
    <3> QED
      BY <1>1, <3>1, <3>2, CoversStays
  <2>2. CASE fate[i] # "planned"
    <3>1. rule'[i] # DefaultRule
      BY <1>3 DEF DefaultRule
    <3>2. Evaluate(i)
      BY <1>3, <2>2, <3>1 DEF Next, Administer, Evaluate, FallBack, RefuseInterrupt, Ask, Abandon,
         Plan, vars, submissions
    <3>3. PICK r \in Rule :
            /\ r.action = "request_human" => \A ref \in r.refs : Resolvable(ref)
            /\ Plan(i, r, IF r.action = "request_human"
                          THEN UNION {Resolve(ref) : ref \in r.refs} ELSE {})
      BY <3>2, RulesAreRules DEF Evaluate
    <3>4. rule'[i] = r /\ r \in Rule /\ r.action = "request_human" /\ had' = had
      BY <1>3, <3>2, <3>3 DEF Plan, Evaluate, directoryVars, tables
    <3>5. people'[i] = UNION {Resolve(ref) : ref \in r.refs}
      BY <3>3, <3>4 DEF Plan
    <3>6. \A ref \in r.refs : \E m \in MeantIn(ref, had) : Ids(Resolve(ref)) = m
      BY <3>3, <3>4, ResolveCovers DEF Rule, WholePlans
    <3>7. Ids(people'[i]) = UNION {Ids(Resolve(ref)) : ref \in r.refs}
      BY <3>5 DEF Ids
    <3>8. /\ \A ref \in r.refs : \E m \in MeantIn(ref, had) : m \subseteq Ids(people'[i])
          /\ Ids(people'[i]) \subseteq UNION UNION {MeantIn(ref, had) : ref \in r.refs}
      BY <3>6, <3>7
    <3> QED
      BY <3>4, <3>8 DEF Covers
  <2> QED
    BY <2>1, <2>2
<1>4. ASSUME NEW i \in Interrupt, fate'[i] = "asked", rule'[i].mode = "all_of"
      PROVE  Covers(rule'[i].refs, had', asked'[i])
  <2>1. rule'[i] = rule[i]
    BY <1>4 DEF Next, Administer, Evaluate, FallBack, RefuseInterrupt, Ask, Abandon, Plan,
       vars, submissions
  <2>2. CASE fate[i] = "asked"
    <3>1. asked'[i] = asked[i]
      BY <2>2 DEF Next, Administer, Evaluate, FallBack, RefuseInterrupt, Ask, Abandon, Plan,
         vars, submissions
    <3>2. Covers(rule[i].refs, had, asked[i])
      BY <1>4, <2>1, <2>2 DEF WholePlans
    <3> QED
      BY <1>1, <2>1, <3>1, <3>2, CoversStays
  <2>3. CASE fate[i] # "asked"
    <3>1. Ask(i) /\ rule[i].action = "request_human" /\ fate[i] = "planned"
      BY <1>4, <2>3 DEF Next, Administer, Evaluate, FallBack, RefuseInterrupt, Ask, Abandon, Plan,
         vars, submissions
    <3>2. asked'[i] = Ids(people[i])
      BY <1>4, <2>1, <2>3, <3>1 DEF Ask, RowsFor
    <3>3. Covers(rule[i].refs, had, Ids(people[i]))
      BY <1>4, <2>1, <3>1 DEF WholePlans
    <3> QED
      BY <1>1, <2>1, <3>2, <3>3, CoversStays
  <2> QED
    BY <2>2, <2>3
<1> QED
  BY <1>1, <1>3, <1>4 DEF WholePlans

\* Whatever the copy is, torn, old or fresh, an all_of interrupt asks all of
\* a membership that each group it names had, and nobody else.
THEOREM WholeGroupsAreAsked == Spec => []AsksWholeGroups
<1>1. Init => WholePlans
  BY NothingIsRemembered DEF Init, DirectoryInit, WholePlans, AllRemembered, Remembered
<1>2. RoutingTypeOK /\ DirectoryOK /\ WholePlans /\ [Next]_vars => WholePlans'
  BY WholePlansStep
<1>3. WholePlans => AsksWholeGroups
  BY DEF WholePlans, Covers, MeantIn, Meant, AsksWholeGroups
<1> QED
  BY <1>1, <1>2, <1>3, RoutingIsTyped, DirectoryStaysOK, PTL DEF Spec

-----------------------------------------------------------------------------
(* Escalation *)

LEMMA EscalationStepsRoute ==
  ASSUME [EscalationNext]_escalationVars PROVE [Next]_vars
BY DEF EscalationNext, Route, WorkerStart, WorkerStop, Escalate, escalationVars

\* The composition with the worker implements Routing: all theorems about
\* Routing hold of it.
THEOREM EscalationImplementsRouting == EscalationSpec => Spec
<1>1. EscalationInit => Init
  BY DEF EscalationInit
<1> QED
  BY <1>1, EscalationStepsRoute, PTL DEF EscalationSpec, Spec

\* The worker has what the files say, or nothing.
WorkerOK ==
  /\ worker \in {"down", "up"}
  /\ workerCopy \in {Nothing, File}
  /\ workerPolicies \in {<<>>, FilePolicies}

LEMMA WorkerStaysOK == EscalationSpec => []WorkerOK
<1>1. EscalationInit => WorkerOK
  BY DEF EscalationInit, WorkerOK
<1>2. WorkerOK /\ [EscalationNext]_escalationVars => WorkerOK'
  <2> SUFFICES ASSUME WorkerOK, [EscalationNext]_escalationVars PROVE WorkerOK'
    OBVIOUS
  <2> USE DEF WorkerOK
  <2>1. CASE WorkerStart
    BY <2>1 DEF WorkerStart, LoadedDirectory
  <2>2. CASE WorkerStop
    BY <2>2 DEF WorkerStop
  <2>3. CASE UNCHANGED memory
    BY <2>3 DEF memory
  <2> QED
    BY <2>1, <2>2, <2>3 DEF EscalationNext, Route, Escalate, escalationVars
<1> QED
  BY <1>1, <1>2, PTL DEF EscalationSpec

\* Who is handed a row is a target of its interrupt.
LEMMA HeirsAreTargets ==
  ASSUME heir \in [Interrupt -> {Absent} \cup Person],
         [EscalationNext]_escalationVars, NEW i \in Interrupt, heir'[i] # heir[i]
  PROVE  fate[i] = "asked" /\ heir'[i] \in Targets(i)
<1>1. ASSUME NEW j \in Interrupt, Escalate(j)
      PROVE  fate[i] = "asked" /\ heir'[i] \in Targets(i)
  BY <1>1 DEF Escalate
<1>2. heir' # heir
  OBVIOUS
<1> QED
  BY <1>1, <1>2 DEF EscalationNext, Route, WorkerStart, WorkerStop, escalationVars

\* Whom the worker can hand a row to are persons.
LEMMA TargetsArePersons ==
  ASSUME DirectoryTypeOK, WorkerOK, NEW i PROVE Targets(i) \subseteq Person
<1> SUFFICES ASSUME NEW them \in Targets(i) PROVE them \in Person
  OBVIOUS
<1>1. PICK r \in RuleOfFiles(i) : them \in Worker!Resolve(r.escalateTo)
  BY DEF Targets
<1>2. PICK a \in Worker!KnownApprovers : them = <<a, workerCopy.approvers[a]>>
  BY <1>1 DEF Worker!Resolve
<1>3. workerCopy \in Copy
  BY DirectoryAssumption DEF WorkerOK, Copy, Nothing
<1>4. a \in Approver /\ workerCopy.approvers[a] \in Email
  BY <1>3 DEF Worker!KnownApprovers, Copy
<1> QED
  BY <1>2, <1>4 DEF Person

\* The variables of the worker and of hand-overs keep their types.
THEOREM EscalationIsTyped == EscalationSpec => []EscalationTypeOK
<1> DEFINE HeirOK == heir \in [Interrupt -> {Absent} \cup Person]
<1>1. EscalationInit => HeirOK
  BY DEF EscalationInit
<1>2. DirectoryTypeOK /\ WorkerOK /\ HeirOK /\ [EscalationNext]_escalationVars => HeirOK'
  <2> SUFFICES ASSUME DirectoryTypeOK, WorkerOK, HeirOK, [EscalationNext]_escalationVars
               PROVE  HeirOK'
    OBVIOUS
  <2>1. ASSUME NEW i \in Interrupt, Escalate(i) PROVE HeirOK'
    BY <2>1, TargetsArePersons DEF Escalate
  <2>2. CASE UNCHANGED heir
    BY <2>2
  <2> QED
    BY <2>1, <2>2 DEF EscalationNext, Route, WorkerStart, WorkerStop, escalationVars
<1>3. RoutingTypeOK /\ WorkerOK /\ HeirOK => EscalationTypeOK
  BY DirectoryAssumption
     DEF EscalationTypeOK, WorkerOK, RoutingTypeOK, DirectoryTypeOK, Copy, Nothing
<1>4. RoutingTypeOK => DirectoryTypeOK
  BY DEF RoutingTypeOK
<1> QED
  BY <1>1, <1>2, <1>3, <1>4, RoutingIsTyped, EscalationImplementsRouting, WorkerStaysOK, PTL
     DEF EscalationSpec

\* What the worker's copy says of an id is what the files say, and what the
\* tables say if they say the same of it.
LEMMA WorkerResolvesByTheFiles ==
  ASSUME DirectoryTypeOK, WorkerOK, NEW ref, Worker!Resolvable(ref), NEW them \in Worker!Resolve(ref)
  PROVE  \E a \in NamedInFile(ref) :
           /\ them = <<a, File.approvers[a]>>
           /\ SaidAlike(ref) /\ SaidAlike(a) => a \in Named(ref) /\ them = <<a, approvers[a]>>
<1> USE DEF DirectoryTypeOK, WorkerOK
<1>1. CASE workerCopy = Nothing
  BY <1>1 DEF Worker!Resolve, Worker!KnownApprovers, Nothing
<1>2. CASE workerCopy = File
  <2>1. Worker!KnownApprovers = {a \in Approver : File.approvers[a] # Absent}
    BY <1>2 DEF Worker!KnownApprovers
  <2>2. PICK a \in Worker!KnownApprovers :
          /\ them = <<a, File.approvers[a]>>
          /\ a \in IF ref \in Worker!KnownApprovers THEN {ref} ELSE File.groups[ref]
    BY <1>2 DEF Worker!Resolve
  <2>3. a \in NamedInFile(ref)
    BY <2>1, <2>2 DEF NamedInFile
  <2>4. ASSUME SaidAlike(ref), SaidAlike(a) PROVE a \in Named(ref) /\ File.approvers[a] = approvers[a]
    <3>1. a \in ActiveApprovers /\ File.approvers[a] = approvers[a]
      BY <2>1, <2>4 DEF SaidAlike, InForce, ActiveRows, ActiveApprovers
    <3>2. CASE ref \in Worker!KnownApprovers
      BY <2>2, <3>1, <3>2 DEF Named
    <3>3. CASE ref \notin Worker!KnownApprovers
      <4>1. ref \in Group /\ File.groups[ref] # Absent
        BY <1>2, <3>3 DEF Worker!Resolvable, Worker!KnownGroups
      <4>2. File.groups[ref] = groups[ref]
        BY <2>4, <4>1 DEF SaidAlike, InForce, ActiveRows
      <4>3. ref \notin ActiveApprovers
        BY <2>1, <2>4, <3>3 DEF SaidAlike, InForce, ActiveRows, ActiveApprovers
      <4> QED
        BY <2>2, <3>1, <3>3, <4>2, <4>3 DEF Named
    <3> QED
      BY <3>1, <3>2, <3>3
  <2> QED
    BY <2>2, <2>3, <2>4
<1> QED
  BY <1>1, <1>2

HandsOverByNames ==
  \A i \in Interrupt : heir'[i] # heir[i] =>
    \E r \in RuleOfFiles(i) : \E a \in NamedInFile(r.escalateTo) :
      /\ heir'[i] = <<a, File.approvers[a]>>
      /\ SaidAlike(r.escalateTo) /\ SaidAlike(a) =>
           a \in Named(r.escalateTo) /\ heir'[i] = <<a, approvers[a]>>

\* Rows are handed over to approvers whom the files name, and so the tables
\* where they say the same of them, for any policies, approvers and groups.
THEOREM RowsAreHandedOverAsSeeded == EscalationSpec => HandsOverAsSeeded
<1>1. EscalationTypeOK /\ WorkerOK /\ [EscalationNext]_escalationVars
        => [HandsOverByNames]_escalationVars
  <2> SUFFICES ASSUME DirectoryTypeOK, WorkerOK, [EscalationNext]_escalationVars,
                      NEW i \in Interrupt, heir'[i] # heir[i],
                      NEW them \in Targets(i)
               PROVE  \E r \in RuleOfFiles(i) : \E a \in NamedInFile(r.escalateTo) :
                        /\ them = <<a, File.approvers[a]>>
                        /\ SaidAlike(r.escalateTo) /\ SaidAlike(a) =>
                             a \in Named(r.escalateTo) /\ them = <<a, approvers[a]>>
    BY HeirsAreTargets DEF HandsOverByNames, EscalationTypeOK, RoutingTypeOK
  <2>1. PICK r \in RuleOfFiles(i) : Escalates(r) /\ them \in Worker!Resolve(r.escalateTo)
    BY DEF Targets
  <2> QED
    BY <2>1, WorkerResolvesByTheFiles DEF Escalates
<1> QED
  BY <1>1, EscalationIsTyped, WorkerStaysOK, PTL
     DEF EscalationSpec, HandsOverAsSeeded, HandsOverByNames

\* What an interrupt was planned by is what one of the server's lists says.
PlannedByARule ==
  \A i \in Interrupt : fate[i] \in {"planned", "asked"} =>
    \/ rule[i] = DefaultRule
    \/ \E loaded \in PolicySets : rule[i] \in RulesFor(loaded, i)

LEMMA InterruptsArePlannedByARule == Spec => []PlannedByARule
<1>1. Init => PlannedByARule
  BY DEF Init, PlannedByARule
<1>2. RoutingTypeOK /\ PlannedByARule /\ [Next]_vars => PlannedByARule'
  <2> SUFFICES ASSUME RoutingTypeOK, PlannedByARule, [Next]_vars,
                      NEW i \in Interrupt, fate'[i] \in {"planned", "asked"}
               PROVE  \/ rule'[i] = DefaultRule
                      \/ \E loaded \in PolicySets : rule'[i] \in RulesFor(loaded, i)
    BY DEF PlannedByARule, RulesFor, FirstRule, DefaultRule
  <2> USE DEF RoutingTypeOK
  <2>1. ASSUME NEW j \in Interrupt, Evaluate(j) \/ FallBack(j), j = i
        PROVE  \/ rule'[i] = DefaultRule
               \/ \E loaded \in PolicySets : rule'[i] \in RulesFor(loaded, i)
    BY <2>1 DEF Evaluate, FallBack, Plan
  <2>2. ASSUME NEW j \in Interrupt, Evaluate(j) \/ FallBack(j), j # i
        PROVE  rule'[i] = rule[i] /\ fate'[i] = fate[i]
    BY <2>2 DEF Evaluate, FallBack, Plan
  <2>3. ASSUME NEW j \in Interrupt, RefuseInterrupt(j) \/ Ask(j) \/ Abandon(j)
        PROVE  rule'[i] = rule[i] /\ fate[i] \in {"planned", "asked"}
    BY <2>3 DEF RefuseInterrupt, Ask, Abandon
  <2>4. Administer \/ UNCHANGED vars => rule'[i] = rule[i] /\ fate'[i] = fate[i]
    BY DEF Administer, vars, submissions
  <2> QED
    BY <2>1, <2>2, <2>3, <2>4 DEF PlannedByARule, Next
<1> QED
  BY <1>1, <1>2, RoutingIsTyped, PTL DEF Spec

\* The same rules decide alike.
LEMMA SameRulesDecideAlike ==
  ASSUME NEW p, NEW q \in FilePolicy, p.rules \in Seq(Rule), SameRules(p, q), NEW i
  PROVE  FirstRule(p, i) = {Base(r) : r \in FirstRule(q, i)}
<1>1. DOMAIN p.rules = 1..Len(q.rules) /\ DOMAIN q.rules = 1..Len(q.rules) /\ Len(q.rules) \in Nat
  BY DEF SameRules, FilePolicy
<1>2. \A k \in DOMAIN q.rules : p.rules[k] = Base(q.rules[k]) /\ p.rules[k].when = q.rules[k].when
  BY <1>1 DEF SameRules, Base
<1>3. p.matches = q.matches
  BY DEF SameRules
<1>4. \A l \in DOMAIN q.rules :
        (/\ i \in p.matches /\ i \in p.rules[l].when
         /\ \A h \in 1..(l - 1) : i \notin p.rules[h].when)
        <=>
        (/\ i \in q.matches /\ i \in q.rules[l].when
         /\ \A h \in 1..(l - 1) : i \notin q.rules[h].when)
  <2> TAKE l \in DOMAIN q.rules
  <2>1. l \in 1..Len(q.rules) /\ 1..(l - 1) \subseteq DOMAIN q.rules
    BY <1>1
  <2>2. \A h \in 1..(l - 1) : p.rules[h].when = q.rules[h].when
    BY <1>2, <2>1
  <2>3. p.rules[l].when = q.rules[l].when
    BY <1>2
  <2> QED
    BY <1>3, <2>2, <2>3
<1> DEFINE Decides(o, l) == /\ i \in o.matches /\ i \in o.rules[l].when
                            /\ \A h \in 1..(l - 1) : i \notin o.rules[h].when
<1>5. FirstRule(p, i) = {p.rules[k] : k \in {l \in DOMAIN q.rules : Decides(p, l)}}
  BY <1>1 DEF FirstRule
<1>6. FirstRule(q, i) = {q.rules[k] : k \in {l \in DOMAIN q.rules : Decides(q, l)}}
  BY DEF FirstRule
<1>7. \A l \in DOMAIN q.rules : Decides(p, l) <=> Decides(q, l)
  BY <1>4
<1> HIDE DEF Decides
<1>8. FirstRule(p, i) = {Base(q.rules[k]) : k \in {l \in DOMAIN q.rules : Decides(q, l)}}
  BY <1>1, <1>2, <1>5, <1>7
<1> QED
  BY <1>6, <1>8

HandsOverByRules ==
  \A i \in Interrupt : heir'[i] # heir[i] /\ rule[i] # DefaultRule /\ OnlyTheFiles =>
    \E m \in DOMAIN FilePolicies : \E n \in 1..m :
      /\ rule[i] \in {Base(q) : q \in FirstRule(FilePolicies[m], i)}
      /\ \E r \in FirstRule(FilePolicies[n], i) : heir'[i] \in Worker!Resolve(r.escalateTo)

LEMMA StepHandsOverByRules ==
  ASSUME PlannedByARule, EscalationTypeOK, WorkerOK, [EscalationNext]_escalationVars PROVE HandsOverByRules
<1> SUFFICES ASSUME NEW i \in Interrupt, heir'[i] # heir[i], rule[i] # DefaultRule, OnlyTheFiles
             PROVE  \E m \in DOMAIN FilePolicies : \E n \in 1..m :
                      /\ rule[i] \in {Base(q) : q \in FirstRule(FilePolicies[m], i)}
                      /\ \E r \in FirstRule(FilePolicies[n], i) :
                           heir'[i] \in Worker!Resolve(r.escalateTo)
  BY DEF HandsOverByRules
<1>1. PICK r \in RuleOfFiles(i) : heir'[i] \in Worker!Resolve(r.escalateTo)
  BY HeirsAreTargets DEF Targets, EscalationTypeOK
<1>2. workerPolicies = FilePolicies
  BY <1>1 DEF WorkerOK, RuleOfFiles
<1>3. PICK n \in DOMAIN FilePolicies :
        /\ r \in FirstRule(FilePolicies[n], i)
        /\ \A l \in 1..(n - 1) : FirstRule(FilePolicies[l], i) = {}
  BY <1>1, <1>2 DEF RuleOfFiles
<1>4. PICK m \in DOMAIN FilePolicies : rule[i] \in {Base(q) : q \in FirstRule(FilePolicies[m], i)}
  <2>1. PICK loaded \in PolicySets : rule[i] \in RulesFor(loaded, i)
    BY HeirsAreTargets DEF PlannedByARule, EscalationTypeOK
  <2>2. PICK p \in loaded : rule[i] \in FirstRule(p, i)
    BY <2>1 DEF RulesFor
  <2>3. PICK m \in DOMAIN FilePolicies : SameRules(p, FilePolicies[m])
    BY <2>2 DEF OnlyTheFiles
  <2>4. p.rules \in Seq(Rule) /\ FilePolicies[m] \in FilePolicy
    BY <2>2, RoutingAssumption, EscalationAssumption
  <2> QED
    BY <2>2, <2>3, <2>4, SameRulesDecideAlike
<1>5. n \in 1..m
  <2>1. n \in Nat /\ m \in Nat /\ n >= 1 /\ m >= 1
    BY EscalationAssumption
  <2>2. FirstRule(FilePolicies[m], i) # {}
    BY <1>4
  <2>3. ~(m \in 1..(n - 1))
    BY <1>3, <2>2
  <2> QED
    BY <2>1, <2>3
<1> QED
  BY <1>1, <1>3, <1>4, <1>5

\* The worker hands a row over by the rule that asked it, or by that of an
\* earlier policy, as long as the server has no policies but those of the
\* files, whatever these are and however often either restarts.
THEOREM RowsAreHandedOverInOrder == EscalationSpec => HandsOverInFileOrder
<1>1. PlannedByARule /\ EscalationTypeOK /\ WorkerOK /\ [EscalationNext]_escalationVars
        => [HandsOverByRules]_escalationVars
  BY StepHandsOverByRules
<1> QED
  BY <1>1, InterruptsArePlannedByARule, EscalationIsTyped, EscalationImplementsRouting, WorkerStaysOK, PTL
     DEF EscalationSpec, HandsOverInFileOrder, HandsOverByRules

=============================================================================
