--------------------------- MODULE ApprovalsProofs ---------------------------
(***************************************************************************)
(* Proofs, for every value of the constants, of the safety properties of   *)
(* Approvals.  TypeOK and RowsOK are inductive; each property is then      *)
(* inductive relative to them and to those proved before it.               *)
(***************************************************************************)
EXTENDS Approvals, FiniteSetTheorems, TLAPS

Exists(a) == status[a] # "none"

\* A row that was not inserted yet has left no trace, and nothing refers to it.
AbsentRowsAreBlank ==
  \A a \in Approval : ~Exists(a) =>
    /\ group[a] = NoGroup
    /\ escalatedTo[a] = NoApproval
    /\ \A b \in Approval : escalatedTo[b] # a
    /\ \A r \in Request : decision[r] # a
    /\ \A kind \in {"decision", "timeout", "escalate"} : ledger[<<kind, a>>] = 0

\* A row belongs to a group that was asked.
RowsHaveAGroup ==
  \A a \in Approval : Exists(a) =>
    group[a] \in Group /\ mode[group[a]] \in {"any_of", "all_of"}

\* What processes refer to exists.
ReferencesExist ==
  /\ \A r \in Request : phase[r] \in {"read", "flushed", "matched"} =>
       target[r] \in Approval /\ Exists(target[r])
  /\ \A r \in Request : \A b \in rivals[r] :
       /\ phase[r] = "matched"
       /\ Exists(b)
       /\ b # target[r]
       /\ SameGroup(b, target[r])
       /\ mode[group[b]] = "any_of"
  /\ \A a \in expired : Exists(a)
  /\ \A w \in Worker : \A a \in batch[w] : Exists(a)
  /\ \A w \in Worker : current[w] # NoApproval => Exists(current[w])

RowsOK == AbsentRowsAreBlank /\ RowsHaveAGroup /\ ReferencesExist

\* Whoever has a rival was no longer pending when it matched it.
RivalledTargetsAreClosed ==
  \A r \in Request : rivals[r] # {} => ~Pending(target[r])

\* The depth a worker read before it holds the row is still the row's depth.
PlannedDepthIsCurrent ==
  \A w \in Worker : current[w] # NoApproval /\ plan[w] = "escalate" =>
    ~DepthAtLeast(current[w], MaxDepth)

-----------------------------------------------------------------------------
(* Types *)

\* Opening rows are new, and any_of opens one.
LEMMA OpeningRowsAreFresh ==
  ASSUME NEW m \in {"any_of", "all_of"}, NEW S \in OpeningRows(m)
  PROVE  /\ S \subseteq Fresh
         /\ m = "any_of" => \A a, b \in S : a = b
BY DEF OpeningRows, Fresh

\* An entry is counted under its own key and nowhere else.
LEMMA BookAddsOne ==
  ASSUME TypeOK, NEW kind, NEW subject, Book(kind, subject)
  PROVE  /\ ledger' \in [LedgerKey -> Nat]
         /\ \A k \in LedgerKey :
              ledger'[k] = IF k = <<kind, subject>> THEN ledger[k] + 1 ELSE ledger[k]
<1> DEFINE key == <<kind, subject>>
<1> HIDE DEF key
<1>1. ledger \in [LedgerKey -> Nat]
  BY DEF TypeOK
<1>2. ledger' = [ledger EXCEPT ![key] = @ + 1]
  BY DEF Book, key
<1>3. ledger' = [k \in LedgerKey |-> IF k = key THEN ledger[k] + 1 ELSE ledger[k]]
  BY <1>1, <1>2
<1>4. \A k \in LedgerKey : ledger[k] \in Nat /\ ledger[k] + 1 \in Nat
  BY <1>1
<1> QED
  BY <1>3, <1>4 DEF key

\* Every variable keeps its type, in every step of every process.
THEOREM TypeCorrect == Spec => []TypeOK
<1>1. Init => TypeOK
  BY ConstantsAssumption DEF Init, TypeOK, Status, Mode, Phase, Plan, LedgerKey
<1>2. TypeOK /\ [Next]_vars => TypeOK'
  <2> SUFFICES ASSUME TypeOK, [Next]_vars PROVE TypeOK'
    OBVIOUS
  <2> USE DEF TypeOK, rows, books, decides, workers
  <2>1. ASSUME NEW g \in Group, NEW m \in {"any_of", "all_of"}, NEW S \in SUBSET Approval,
               RequestHuman(g, m, S)
        PROVE  TypeOK'
    BY <2>1 DEF RequestHuman, Status, Mode
  <2>2. ASSUME NEW g \in Group, AutoApprove(g) PROVE TypeOK'
    BY <2>2, BookAddsOne DEF AutoApprove, Mode
  <2>3. ASSUME NEW a \in Approval, Expire(a) PROVE TypeOK'
    BY <2>3 DEF Expire
  <2>4. ASSUME NEW r \in Request, Decide(r) PROVE TypeOK'
    <3>1. ASSUME NEW a \in Approval, DecideRead(r, a) \/ DecideRefuse(r, a) PROVE TypeOK'
      BY <3>1 DEF DecideRead, DecideRefuse, Phase
    <3>2. CASE DecideFlush(r)
      BY <3>2 DEF DecideFlush, Phase
    <3>3. CASE DecideMatch(r)
      BY <3>3 DEF DecideMatch, Rivals, Phase
    <3>4. CASE DecideCommit(r)
      <4>1. status' \in [Approval -> Status]
        BY <3>4 DEF DecideCommit, StatusAfterDecide, Status
      <4>2. ledger' \in [LedgerKey -> Nat]
        BY <3>4, BookAddsOne DEF DecideCommit
      <4> QED
        BY <3>4, <4>1, <4>2 DEF DecideCommit, Phase
    <3>5. CASE DecideAbort(r)
      BY <3>5 DEF DecideAbort, Phase
    <3> QED
      BY <2>4, <3>1, <3>2, <3>3, <3>4, <3>5 DEF Decide
  <2>5. ASSUME NEW w \in Worker, Work(w) PROVE TypeOK'
    <3>1. CASE Poll(w)
      BY <3>1 DEF Poll, Overdue
    <3>2. ASSUME NEW a \in Approval, Evaluate(w, a) PROVE TypeOK'
      BY <3>2 DEF Evaluate, PlansFor, Plan
    <3>3. CASE TimeOut(w)
      BY <3>3, BookAddsOne DEF TimeOut, Proceed, Forget, Status, Plan
    <3>4. ASSUME NEW b \in Approval, Escalate(w, b) PROVE TypeOK'
      <4>1. current[w] \in Approval
        BY <3>4 DEF Escalate, Proceed
      <4>2. status' \in [Approval -> Status] /\ ledger' \in [LedgerKey -> Nat]
        BY <3>4, <4>1, BookAddsOne DEF Escalate, Status
      <4> QED
        BY <3>4, <4>1, <4>2 DEF Escalate, Forget, SuccessorGroup, Plan
    <3>5. CASE Skip(w) \/ WorkerError(w) \/ WorkerCrash(w)
      BY <3>5 DEF Skip, WorkerError, WorkerCrash, Forget, Plan
    <3> QED
      BY <2>5, <3>1, <3>2, <3>3, <3>4, <3>5 DEF Work
  <2>6. CASE UNCHANGED vars
    BY <2>6 DEF vars
  <2> QED
    BY <2>1, <2>2, <2>3, <2>4, <2>5, <2>6 DEF Next, Submit
<1> QED
  BY <1>1, <1>2, PTL DEF Spec

-----------------------------------------------------------------------------
(* Rows and the references to them *)

\* A committed decide transaction writes existing rows only.
LEMMA DecideCommitWritesExistingRows ==
  ASSUME TypeOK, ReferencesExist, NEW r \in Request, DecideCommit(r)
  PROVE  /\ target[r] \in Approval
         /\ Exists(target[r])
         /\ status' \in [Approval -> Status]
         /\ status'[target[r]] = "decided"
         /\ \A a \in rivals[r] : Exists(a) /\ a # target[r] /\ status'[a] = "superseded"
         /\ \A a \in Approval \ rivals[r] : a # target[r] => status'[a] = status[a]
<1>1. target[r] \in Approval /\ Exists(target[r])
  BY DEF DecideCommit, Written, ReferencesExist
<1>2. rivals[r] \subseteq Approval /\ \A a \in rivals[r] : Exists(a) /\ a # target[r]
  BY DEF TypeOK, ReferencesExist
<1>3. status' = StatusAfterDecide(r)
  BY DEF DecideCommit
<1>4. status' \in [Approval -> Status]
  BY <1>3 DEF StatusAfterDecide, TypeOK, Status
<1> QED
  BY <1>1, <1>2, <1>3, <1>4 DEF StatusAfterDecide

\* Rows belong to a group that was asked, every reference is to a row that
\* exists, and a row that does not exist yet is blank.
THEOREM RowsAreWellFormed == Spec => []RowsOK
<1>1. Init => RowsOK
  <2> SUFFICES ASSUME Init PROVE RowsOK
    OBVIOUS
  <2>1. \A a \in Approval : ~Exists(a)
    BY DEF Init, Exists
  <2>2. AbsentRowsAreBlank
    BY ConstantsAssumption DEF Init, AbsentRowsAreBlank, LedgerKey
  <2>3. ReferencesExist
    BY DEF Init, ReferencesExist
  <2> QED
    BY <2>1, <2>2, <2>3 DEF RowsOK, RowsHaveAGroup
<1>2. TypeOK /\ RowsOK /\ [Next]_vars => RowsOK'
  <2> SUFFICES ASSUME TypeOK, RowsOK, [Next]_vars PROVE RowsOK'
    OBVIOUS
  <2> USE DEF rows, books, decides, workers
  <2>1. ASSUME NEW g \in Group, NEW m \in {"any_of", "all_of"}, NEW S \in SUBSET Approval,
               RequestHuman(g, m, S)
        PROVE  RowsOK'
    <3>1. S \subseteq Fresh
      BY <2>1, OpeningRowsAreFresh DEF RequestHuman
    <3>2. \A a \in Approval : Exists(a) => a \notin S /\ Exists(a)' /\ group'[a] = group[a]
      BY <2>1, <3>1 DEF RequestHuman, Fresh, Exists, TypeOK
    <3>3. \A a \in S : Exists(a)' /\ group'[a] = g /\ mode'[g] = m
      BY <2>1 DEF RequestHuman, Exists, TypeOK
    <3>4. \A a \in Approval \ S : (Exists(a)' <=> Exists(a)) /\ group'[a] = group[a]
      BY <2>1 DEF RequestHuman, Exists, TypeOK
    <3>5. \A a \in Approval : Exists(a) => group[a] \in Group /\ mode'[group[a]] = mode[group[a]]
      BY <2>1 DEF RequestHuman, RowsOK, RowsHaveAGroup, TypeOK
    <3>6. AbsentRowsAreBlank'
      BY <2>1, <3>3, <3>4 DEF RequestHuman, RowsOK, AbsentRowsAreBlank
    <3>7. RowsHaveAGroup'
      BY <3>3, <3>4, <3>5 DEF RowsOK, RowsHaveAGroup
    <3>8. ReferencesExist'
      BY <2>1, <3>2, <3>5 DEF RequestHuman, RowsOK, ReferencesExist, SameGroup, TypeOK
    <3> QED
      BY <3>6, <3>7, <3>8 DEF RowsOK
  <2>2. ASSUME NEW g \in Group, AutoApprove(g) PROVE RowsOK'
    <3>1. \A a \in Approval : Exists(a) => group[a] \in Group /\ mode'[group[a]] = mode[group[a]]
      BY <2>2 DEF AutoApprove, RowsOK, RowsHaveAGroup, TypeOK
    <3>2. \A kind \in {"decision", "timeout", "escalate"}, a \in Approval :
            ledger'[<<kind, a>>] = ledger[<<kind, a>>]
      BY <2>2, BookAddsOne DEF AutoApprove, LedgerKey
    <3>3. AbsentRowsAreBlank'
      BY <2>2, <3>2 DEF AutoApprove, RowsOK, AbsentRowsAreBlank, Exists
    <3>4. RowsHaveAGroup'
      BY <2>2, <3>1 DEF AutoApprove, RowsOK, RowsHaveAGroup, Exists
    <3>5. ReferencesExist'
      BY <2>2, <3>1 DEF AutoApprove, RowsOK, ReferencesExist, Exists, SameGroup, TypeOK
    <3> QED
      BY <3>3, <3>4, <3>5 DEF RowsOK
  <2>3. ASSUME NEW a \in Approval, Expire(a) PROVE RowsOK'
    BY <2>3 DEF Expire, RowsOK, AbsentRowsAreBlank, RowsHaveAGroup, ReferencesExist, Exists,
                SameGroup, Pending
  <2>4. ASSUME NEW r \in Request, Decide(r) PROVE RowsOK'
    <3>1. ASSUME UNCHANGED <<rows, books, expired, workers>> PROVE AbsentRowsAreBlank' /\ RowsHaveAGroup'
      BY <3>1 DEF RowsOK, AbsentRowsAreBlank, RowsHaveAGroup, Exists
    <3>2. ASSUME NEW a \in Approval, DecideRead(r, a) \/ DecideRefuse(r, a) PROVE RowsOK'
      <4>1. ReferencesExist'
        BY <3>2 DEF DecideRead, DecideRefuse, Decidable, Pending, RowsOK, ReferencesExist, Exists,
                    SameGroup, TypeOK
      <4> QED
        BY <3>1, <3>2, <4>1 DEF RowsOK, DecideRead, DecideRefuse
    <3>3. CASE DecideFlush(r)
      <4>1. ReferencesExist'
        BY <3>3 DEF DecideFlush, RowsOK, ReferencesExist, Exists, SameGroup, TypeOK
      <4> QED
        BY <3>1, <3>3, <4>1 DEF RowsOK, DecideFlush
    <3>4. CASE DecideMatch(r)
      <4>1. target[r] \in Approval /\ mode[group[target[r]]] = "any_of"
        BY <3>4 DEF DecideMatch, RowsOK, ReferencesExist
      <4>2. \A b \in Rivals(target[r]) : /\ Exists(b)
                                         /\ b # target[r]
                                         /\ SameGroup(b, target[r])
                                         /\ mode[group[b]] = "any_of"
        BY <4>1 DEF Rivals, Pending, Exists, SameGroup
      <4>3. ReferencesExist'
        BY <3>4, <4>2 DEF DecideMatch, RowsOK, ReferencesExist, Exists, SameGroup, TypeOK
      <4> QED
        BY <3>1, <3>4, <4>3 DEF RowsOK, DecideMatch
    <3>5. CASE DecideCommit(r)
      <4>1. \A a \in Approval : Exists(a)' <=> Exists(a)
        BY <3>5, DecideCommitWritesExistingRows DEF Exists, RowsOK
      <4>2. target[r] \in Approval /\ Exists(target[r])
        BY <3>5, DecideCommitWritesExistingRows DEF RowsOK
      <4>3. \A a \in Approval : ~Exists(a) =>
              /\ \A q \in Request : decision'[q] # a
              /\ \A kind \in {"decision", "timeout", "escalate"} :
                   ledger'[<<kind, a>>] = ledger[<<kind, a>>]
        BY <3>5, <4>2, BookAddsOne DEF DecideCommit, LedgerKey, RowsOK, AbsentRowsAreBlank, TypeOK
      <4>4. AbsentRowsAreBlank'
        BY <3>5, <4>1, <4>3 DEF DecideCommit, RowsOK, AbsentRowsAreBlank
      <4>5. RowsHaveAGroup'
        BY <3>5, <4>1 DEF DecideCommit, RowsOK, RowsHaveAGroup
      <4>6. ReferencesExist'
        BY <3>5, <4>1 DEF DecideCommit, RowsOK, ReferencesExist, SameGroup, TypeOK
      <4> QED
        BY <4>4, <4>5, <4>6 DEF RowsOK
    <3>6. CASE DecideAbort(r)
      <4>1. ReferencesExist'
        BY <3>6 DEF DecideAbort, RowsOK, ReferencesExist, Exists, SameGroup, TypeOK
      <4> QED
        BY <3>1, <3>6, <4>1 DEF RowsOK, DecideAbort
    <3> QED
      BY <2>4, <3>2, <3>3, <3>4, <3>5, <3>6 DEF Decide
  <2>5. ASSUME NEW w \in Worker, Work(w) PROVE RowsOK'
    <3>1. ASSUME UNCHANGED <<rows, books, expired, decides>> PROVE AbsentRowsAreBlank' /\ RowsHaveAGroup'
      BY <3>1 DEF RowsOK, AbsentRowsAreBlank, RowsHaveAGroup, Exists
    <3>2. CASE Poll(w)
      <4>1. ReferencesExist'
        BY <3>2 DEF Poll, Overdue, RowsOK, ReferencesExist, Exists, SameGroup, TypeOK
      <4> QED
        BY <3>1, <3>2, <4>1 DEF RowsOK, Poll
    <3>3. ASSUME NEW a \in Approval, Evaluate(w, a) PROVE RowsOK'
      <4>1. ReferencesExist'
        BY <3>3 DEF Evaluate, RowsOK, ReferencesExist, Exists, SameGroup, TypeOK
      <4> QED
        BY <3>1, <3>3, <4>1 DEF RowsOK, Evaluate
    <3>4. CASE TimeOut(w)
      <4> DEFINE a == current[w]
      <4>1. a \in Approval /\ Exists(a)
        BY <3>4 DEF TimeOut, Proceed, RowsOK, ReferencesExist, TypeOK
      <4>2. \A b \in Approval : Exists(b)' <=> Exists(b)
        BY <3>4, <4>1 DEF TimeOut, Exists, TypeOK
      <4>3. \A b \in Approval : ~Exists(b) =>
              \A kind \in {"decision", "timeout", "escalate"} :
                ledger'[<<kind, b>>] = ledger[<<kind, b>>]
        BY <3>4, <4>1, BookAddsOne DEF TimeOut, LedgerKey
      <4>4. AbsentRowsAreBlank'
        BY <3>4, <4>2, <4>3 DEF TimeOut, RowsOK, AbsentRowsAreBlank
      <4>5. RowsHaveAGroup'
        BY <3>4, <4>2 DEF TimeOut, RowsOK, RowsHaveAGroup
      <4>6. ReferencesExist'
        BY <3>4, <4>2 DEF TimeOut, Forget, RowsOK, ReferencesExist, SameGroup, TypeOK
      <4> QED
        BY <4>4, <4>5, <4>6 DEF RowsOK
    <3>5. ASSUME NEW b \in Approval, Escalate(w, b) PROVE RowsOK'
      <4> DEFINE a == current[w]
      <4>1. /\ a \in Approval /\ Exists(a) /\ ~Exists(b)
            /\ group[a] \in Group /\ mode[group[a]] \in {"any_of", "all_of"}
        BY <3>5 DEF Escalate, Proceed, Fresh, Exists, RowsOK, ReferencesExist, RowsHaveAGroup, TypeOK
      <4>2. \A c \in Approval : Exists(c)' <=> Exists(c) \/ c = b
        BY <3>5, <4>1 DEF Escalate, Exists, TypeOK
      <4>3. group'[b] = group[a] /\ \A c \in Approval : c # b => group'[c] = group[c]
        BY <3>5, <4>1 DEF Escalate, SuccessorGroup, TypeOK
      <4>4. \A c \in Approval : ~Exists(c) =>
              \A kind \in {"decision", "timeout", "escalate"} :
                ledger'[<<kind, c>>] = ledger[<<kind, c>>]
        BY <3>5, <4>1, BookAddsOne DEF Escalate, LedgerKey
      <4>5. \A c \in Approval : escalatedTo'[c] = IF c = a THEN b ELSE escalatedTo[c]
        BY <3>5, <4>1 DEF Escalate, TypeOK
      <4>6. AbsentRowsAreBlank'
        BY <3>5, <4>1, <4>2, <4>3, <4>4, <4>5 DEF Escalate, RowsOK, AbsentRowsAreBlank
      <4>7. RowsHaveAGroup'
        BY <3>5, <4>1, <4>2, <4>3 DEF Escalate, RowsOK, RowsHaveAGroup
      <4>8. ReferencesExist'
        BY <3>5, <4>1, <4>2, <4>3
        DEF Escalate, Forget, RowsOK, ReferencesExist, SameGroup, TypeOK
      <4> QED
        BY <4>6, <4>7, <4>8 DEF RowsOK
    <3>6. CASE Skip(w) \/ WorkerError(w) \/ WorkerCrash(w)
      <4>1. ReferencesExist'
        BY <3>6 DEF Skip, WorkerError, WorkerCrash, Forget, RowsOK, ReferencesExist, Exists,
                    SameGroup, TypeOK
      <4> QED
        BY <3>1, <3>6, <4>1 DEF RowsOK, Skip, WorkerError, WorkerCrash
    <3> QED
      BY <2>5, <3>2, <3>3, <3>4, <3>5, <3>6 DEF Work
  <2>6. CASE UNCHANGED vars
    BY <2>6 DEF vars, RowsOK, AbsentRowsAreBlank, RowsHaveAGroup, ReferencesExist, Exists, SameGroup
  <2> QED
    BY <2>1, <2>2, <2>3, <2>4, <2>5, <2>6 DEF Next, Submit
<1> QED
  BY <1>1, <1>2, TypeCorrect, PTL DEF Spec

-----------------------------------------------------------------------------
(* The steps that change the tables, whoever takes them *)

RowKind == {"decision", "timeout", "escalate"}

\* The rows S open the group g.
Asked(g, m, S) ==
  /\ \A a \in S : ~Exists(a)
  /\ m = "any_of" => \A a, b \in S : a = b
  /\ \A a \in Approval : status'[a] = IF a \in S THEN "pending" ELSE status[a]
  /\ \A a \in Approval : group'[a] = IF a \in S THEN g ELSE group[a]
  /\ \A a \in Approval : Exists(a) => group[a] # g /\ mode'[group[a]] = mode[group[a]]
  /\ mode[g] = "none" /\ mode'[g] = m
  /\ \A h \in Group : mode[h] # "none" => mode'[h] = mode[h]
  /\ UNCHANGED <<escalatedTo, decision, ledger>>

\* A group is closed as soon as it is asked.
AutoApproved ==
  /\ \A h \in Group : mode[h] # "none" => mode'[h] = mode[h]
  /\ \A a \in Approval : Exists(a) => mode'[group[a]] = mode[group[a]]
  /\ \A a \in Approval, kind \in RowKind : ledger'[<<kind, a>>] = ledger[<<kind, a>>]
  /\ UNCHANGED <<status, group, escalatedTo, decision>>

\* Request r decides a and supersedes the rows R.
Answered(r, a, R) ==
  /\ Exists(a)
  /\ \A b \in R : b # a /\ Exists(b) /\ SameGroup(b, a) /\ mode[group[b]] = "any_of"
  /\ \A b \in Approval :
       status'[b] = IF b = a THEN "decided" ELSE IF b \in R THEN "superseded" ELSE status[b]
  /\ \A b \in Approval : IF b = a THEN ledger'[<<"decision", b>>] = ledger[<<"decision", b>>] + 1
                                  ELSE ledger'[<<"decision", b>>] = ledger[<<"decision", b>>]
  /\ \A b \in Approval, kind \in {"timeout", "escalate"} :
       ledger'[<<kind, b>>] = ledger[<<kind, b>>]
  /\ \A q \in Request : decision'[q] = IF q = r THEN a ELSE decision[q]
  /\ UNCHANGED <<group, mode, escalatedTo>>

\* The pending row a is timed out.
TimedOut(a) ==
  /\ Pending(a)
  /\ \A b \in Approval : status'[b] = IF b = a THEN "timed_out" ELSE status[b]
  /\ \A b \in Approval : IF b = a THEN ledger'[<<"timeout", b>>] = ledger[<<"timeout", b>>] + 1
                                  ELSE ledger'[<<"timeout", b>>] = ledger[<<"timeout", b>>]
  /\ \A b \in Approval, kind \in {"decision", "escalate"} :
       ledger'[<<kind, b>>] = ledger[<<kind, b>>]
  /\ UNCHANGED <<group, mode, escalatedTo, decision>>

\* The pending row a is escalated to the new row b.
HandedOver(a, b) ==
  /\ Pending(a)
  /\ ~Exists(b)
  /\ a # b
  /\ \A c \in Approval :
       status'[c] = IF c = a THEN "escalated" ELSE IF c = b THEN "pending" ELSE status[c]
  /\ \A c \in Approval : group'[c] = IF c = b THEN group[a] ELSE group[c]
  /\ \A c \in Approval : escalatedTo'[c] = IF c = a THEN b ELSE escalatedTo[c]
  /\ \A c \in Approval : IF c = a THEN ledger'[<<"escalate", c>>] = ledger[<<"escalate", c>>] + 1
                                  ELSE ledger'[<<"escalate", c>>] = ledger[<<"escalate", c>>]
  /\ \A c \in Approval, kind \in {"decision", "timeout"} :
       ledger'[<<kind, c>>] = ledger[<<kind, c>>]
  /\ UNCHANGED <<mode, decision>>

LEMMA AskedStep ==
  ASSUME TypeOK, RowsOK, NEW g \in Group, NEW m \in {"any_of", "all_of"},
         NEW S \in SUBSET Approval, RequestHuman(g, m, S)
  PROVE  Asked(g, m, S)
<1>1. /\ S \subseteq Fresh
      /\ m = "any_of" => \A a, b \in S : a = b
  BY OpeningRowsAreFresh DEF RequestHuman
<1>2. \A a \in Approval : Exists(a) => group[a] # g /\ mode'[group[a]] = mode[group[a]]
  BY DEF RequestHuman, RowsOK, RowsHaveAGroup, TypeOK
<1> QED
  BY <1>1, <1>2 DEF Asked, RequestHuman, Fresh, Exists, books, TypeOK

LEMMA AutoApprovedStep ==
  ASSUME TypeOK, RowsOK, NEW g \in Group, AutoApprove(g)
  PROVE  AutoApproved
<1>0. \A h \in Group : mode[h] # "none" => mode'[h] = mode[h]
  BY DEF AutoApprove, TypeOK
<1>1. \A a \in Approval, kind \in RowKind : ledger'[<<kind, a>>] = ledger[<<kind, a>>]
  BY BookAddsOne DEF AutoApprove, LedgerKey, RowKind
<1>2. \A a \in Approval : Exists(a) => mode'[group[a]] = mode[group[a]]
  BY DEF AutoApprove, RowsOK, RowsHaveAGroup, TypeOK
<1> QED
  BY <1>0, <1>1, <1>2 DEF AutoApproved, AutoApprove

LEMMA AnsweredStep ==
  ASSUME TypeOK, RowsOK, NEW r \in Request, DecideCommit(r)
  PROVE  target[r] \in Approval /\ Answered(r, target[r], rivals[r])
<1>1. target[r] \in Approval /\ Exists(target[r])
  BY DecideCommitWritesExistingRows DEF RowsOK
<1>2. \A b \in rivals[r] : /\ b # target[r] /\ Exists(b)
                           /\ SameGroup(b, target[r]) /\ mode[group[b]] = "any_of"
  BY DEF RowsOK, ReferencesExist
<1>3. \A b \in Approval :
        status'[b] = IF b = target[r] THEN "decided"
                     ELSE IF b \in rivals[r] THEN "superseded" ELSE status[b]
  BY DecideCommitWritesExistingRows DEF RowsOK
<1>4. /\ \A b \in Approval :
           IF b = target[r] THEN ledger'[<<"decision", b>>] = ledger[<<"decision", b>>] + 1
                            ELSE ledger'[<<"decision", b>>] = ledger[<<"decision", b>>]
      /\ \A b \in Approval, kind \in {"timeout", "escalate"} :
           ledger'[<<kind, b>>] = ledger[<<kind, b>>]
  BY <1>1, BookAddsOne DEF DecideCommit, LedgerKey
<1>5. \A q \in Request : decision'[q] = IF q = r THEN target[r] ELSE decision[q]
  BY DEF DecideCommit, TypeOK
<1> QED
  BY <1>1, <1>2, <1>3, <1>4, <1>5 DEF Answered, DecideCommit

LEMMA TimedOutStep ==
  ASSUME TypeOK, RowsOK, NEW w \in Worker, TimeOut(w)
  PROVE  current[w] \in Approval /\ TimedOut(current[w])
<1>1. current[w] \in Approval /\ Pending(current[w])
  BY DEF TimeOut, Proceed, Recheck, TypeOK
<1>2. /\ \A b \in Approval :
           IF b = current[w] THEN ledger'[<<"timeout", b>>] = ledger[<<"timeout", b>>] + 1
                             ELSE ledger'[<<"timeout", b>>] = ledger[<<"timeout", b>>]
      /\ \A b \in Approval, kind \in {"decision", "escalate"} :
           ledger'[<<kind, b>>] = ledger[<<kind, b>>]
  BY <1>1, BookAddsOne DEF TimeOut, LedgerKey
<1> QED
  BY <1>1, <1>2 DEF TimedOut, TimeOut, TypeOK

LEMMA HandedOverStep ==
  ASSUME TypeOK, RowsOK, NEW w \in Worker, NEW b \in Approval, Escalate(w, b)
  PROVE  current[w] \in Approval /\ plan[w] = "escalate" /\ HandedOver(current[w], b)
<1>1. /\ current[w] \in Approval
      /\ Pending(current[w])
      /\ status[b] = "none"
      /\ plan[w] = "escalate"
  BY DEF Escalate, Proceed, Recheck, Fresh, TypeOK
<1>2. /\ \A c \in Approval :
           IF c = current[w] THEN ledger'[<<"escalate", c>>] = ledger[<<"escalate", c>>] + 1
                             ELSE ledger'[<<"escalate", c>>] = ledger[<<"escalate", c>>]
      /\ \A c \in Approval, kind \in {"decision", "timeout"} :
           ledger'[<<kind, c>>] = ledger[<<kind, c>>]
  BY <1>1, BookAddsOne DEF Escalate, LedgerKey
<1>3. current[w] # b
  BY <1>1 DEF Pending
<1> QED
  BY <1>1, <1>2, <1>3 DEF HandedOver, Escalate, SuccessorGroup, Exists, TypeOK

\* Every other step reads the tables, or changes the memory of a process.
LEMMA TableSteps ==
  ASSUME TypeOK, RowsOK, [Next]_vars
  PROVE  \/ UNCHANGED <<rows, books>>
         \/ \E g \in Group, m \in {"any_of", "all_of"}, S \in SUBSET Approval : Asked(g, m, S)
         \/ AutoApproved
         \/ \E r \in Request, a \in Approval, R \in SUBSET Approval : Answered(r, a, R)
         \/ \E a \in Approval : TimedOut(a)
         \/ \E a \in Approval, b \in Approval : HandedOver(a, b)
<1> USE DEF rows, books, workers, decides
<1>1. ASSUME NEW g \in Group, NEW m \in {"any_of", "all_of"}, NEW S \in SUBSET Approval,
             RequestHuman(g, m, S)
      PROVE  Asked(g, m, S)
  BY <1>1, AskedStep
<1>2. ASSUME NEW g \in Group, AutoApprove(g) PROVE AutoApproved
  BY <1>2, AutoApprovedStep
<1>3. ASSUME NEW a \in Approval, Expire(a) PROVE UNCHANGED <<rows, books>>
  BY <1>3 DEF Expire
<1>4. ASSUME NEW r \in Request, DecideCommit(r)
      PROVE  \E a \in Approval, R \in SUBSET Approval : Answered(r, a, R)
  <2>1. target[r] \in Approval /\ rivals[r] \in SUBSET Approval
    BY <1>4, AnsweredStep DEF TypeOK
  <2> QED
    BY <1>4, <2>1, AnsweredStep
<1>5. ASSUME NEW r \in Request, Decide(r), ~DecideCommit(r) PROVE UNCHANGED <<rows, books>>
  BY <1>5 DEF Decide, DecideRead, DecideRefuse, DecideFlush, DecideMatch, DecideAbort
<1>6. ASSUME NEW w \in Worker, TimeOut(w) PROVE \E a \in Approval : TimedOut(a)
  BY <1>6, TimedOutStep
<1>7. ASSUME NEW w \in Worker, NEW b \in Approval, Escalate(w, b)
      PROVE  \E a \in Approval : HandedOver(a, b)
  BY <1>7, HandedOverStep
<1>8. ASSUME NEW w \in Worker, Work(w), ~TimeOut(w), ~\E b \in Approval : Escalate(w, b)
      PROVE  UNCHANGED <<rows, books>>
  BY <1>8 DEF Work, Poll, Evaluate, Skip, WorkerError, WorkerCrash
<1>9. UNCHANGED vars => UNCHANGED <<rows, books>>
  BY DEF vars
<1> QED
  BY <1>1, <1>2, <1>3, <1>4, <1>5, <1>6, <1>7, <1>8, <1>9 DEF Next, Submit

\* A call that has a decision is over: decisions are never changed.
DecisionsAreFinal == \A r \in Request : decision[r] # NoApproval => phase[r] = "done"

\* No later step of any process touches the decision of a call that is over.
THEOREM DecisionsStay == Spec => []DecisionsAreFinal
<1>1. Init => DecisionsAreFinal
  BY DEF Init, DecisionsAreFinal
<1>2. TypeOK /\ DecisionsAreFinal /\ [Next]_vars => DecisionsAreFinal'
  <2> SUFFICES ASSUME TypeOK, DecisionsAreFinal, [Next]_vars PROVE DecisionsAreFinal'
    OBVIOUS
  <2> USE DEF DecisionsAreFinal, books, decides
  <2>1. ASSUME NEW r \in Request, Decide(r) PROVE DecisionsAreFinal'
    BY <2>1 DEF Decide, DecideRead, DecideRefuse, DecideFlush, DecideMatch, DecideCommit,
                DecideAbort, Written, TypeOK
  <2>2. ASSUME NEW w \in Worker, Work(w) PROVE UNCHANGED <<decision, phase>>
    BY <2>2 DEF Work, Poll, Evaluate, TimeOut, Escalate, Skip, WorkerError, WorkerCrash
  <2>3. Submit \/ (\E a \in Approval : Expire(a)) \/ UNCHANGED vars => UNCHANGED <<decision, phase>>
    BY DEF Submit, RequestHuman, AutoApprove, Expire, vars
  <2> QED
    BY <2>1, <2>2, <2>3 DEF Next
<1> QED
  BY <1>1, <1>2, TypeCorrect, PTL DEF Spec

-----------------------------------------------------------------------------
(* What a row, its successor and the ledger agree on *)

\* A pending row has no committed decision, no ledger entry and no successor.
THEOREM PendingRowsAreUntouched == Spec => []PendingIsUntouched
<1>1. Init => PendingIsUntouched
  BY DEF Init, PendingIsUntouched, Pending
<1>2. TypeOK /\ RowsOK /\ PendingIsUntouched /\ [Next]_vars => PendingIsUntouched'
  <2> SUFFICES ASSUME TypeOK, RowsOK, PendingIsUntouched, [Next]_vars
               PROVE  PendingIsUntouched'
    OBVIOUS
  <2> USE DEF PendingIsUntouched, Pending, Exists
  <2>1. CASE UNCHANGED <<rows, books>>
    BY <2>1 DEF rows, books
  <2>2. ASSUME NEW g \in Group, NEW m \in {"any_of", "all_of"}, NEW S \in SUBSET Approval,
               Asked(g, m, S)
        PROVE  PendingIsUntouched'
    BY <2>2 DEF Asked, RowsOK, AbsentRowsAreBlank
  <2>3. CASE AutoApproved
    BY <2>3 DEF AutoApproved, RowKind
  <2>4. ASSUME NEW r \in Request, NEW a \in Approval, NEW R \in SUBSET Approval, Answered(r, a, R)
        PROVE  PendingIsUntouched'
    BY <2>4 DEF Answered
  <2>5. ASSUME NEW a \in Approval, TimedOut(a) PROVE PendingIsUntouched'
    BY <2>5 DEF TimedOut
  <2>6. ASSUME NEW a \in Approval, NEW b \in Approval, HandedOver(a, b) PROVE PendingIsUntouched'
    BY <2>6 DEF HandedOver, RowsOK, AbsentRowsAreBlank
  <2> QED
    BY <2>1, <2>2, <2>3, <2>4, <2>5, <2>6, TableSteps
<1> QED
  BY <1>1, <1>2, TypeCorrect, RowsAreWellFormed, PTL DEF Spec

\* An any_of group has one pending row at most.
THEOREM AnyOfAsksOneRowAtATime == Spec => []OnePendingPerAnyOf
<1>1. Init => OnePendingPerAnyOf
  BY DEF Init, OnePendingPerAnyOf, Pending
<1>2. TypeOK /\ RowsOK /\ OnePendingPerAnyOf /\ [Next]_vars => OnePendingPerAnyOf'
  <2> SUFFICES ASSUME TypeOK, RowsOK, OnePendingPerAnyOf, [Next]_vars
               PROVE  OnePendingPerAnyOf'
    OBVIOUS
  <2> USE DEF OnePendingPerAnyOf, Pending, SameGroup, Exists
  <2>1. CASE UNCHANGED <<rows, books>>
    BY <2>1 DEF rows
  <2>2. ASSUME NEW g \in Group, NEW m \in {"any_of", "all_of"}, NEW S \in SUBSET Approval,
               Asked(g, m, S)
        PROVE  OnePendingPerAnyOf'
    BY <2>2 DEF Asked
  <2>3. CASE AutoApproved
    BY <2>3 DEF AutoApproved
  <2>4. ASSUME NEW r \in Request, NEW a \in Approval, NEW R \in SUBSET Approval, Answered(r, a, R)
        PROVE  OnePendingPerAnyOf'
    BY <2>4 DEF Answered
  <2>5. ASSUME NEW a \in Approval, TimedOut(a) PROVE OnePendingPerAnyOf'
    BY <2>5 DEF TimedOut
  <2>6. ASSUME NEW a \in Approval, NEW b \in Approval, HandedOver(a, b) PROVE OnePendingPerAnyOf'
    BY <2>6 DEF HandedOver
  <2> QED
    BY <2>1, <2>2, <2>3, <2>4, <2>5, <2>6, TableSteps
<1> QED
  BY <1>1, <1>2, TypeCorrect, RowsAreWellFormed, PTL DEF Spec

\* A row is timed out or escalated once at most, by whatever worker.
THEOREM WorkersActOnce == Spec => []WorkerActsOnce
<1>1. Init => WorkerActsOnce
  BY ConstantsAssumption DEF Init, WorkerActsOnce, LedgerKey
<1>2. TypeOK /\ RowsOK /\ PendingIsUntouched /\ WorkerActsOnce /\ [Next]_vars => WorkerActsOnce'
  <2> SUFFICES ASSUME TypeOK, RowsOK, PendingIsUntouched, WorkerActsOnce, [Next]_vars
               PROVE  WorkerActsOnce'
    OBVIOUS
  <2>0. \A a \in Approval, kind \in {"timeout", "escalate"} : ledger[<<kind, a>>] \in Nat
    BY DEF TypeOK, LedgerKey
  <2> USE DEF WorkerActsOnce
  <2>1. CASE UNCHANGED <<rows, books>>
    BY <2>1 DEF rows, books
  <2>2. ASSUME NEW g \in Group, NEW m \in {"any_of", "all_of"}, NEW S \in SUBSET Approval,
               Asked(g, m, S)
        PROVE  WorkerActsOnce'
    BY <2>2 DEF Asked
  <2>3. CASE AutoApproved
    BY <2>3 DEF AutoApproved, RowKind
  <2>4. ASSUME NEW r \in Request, NEW a \in Approval, NEW R \in SUBSET Approval, Answered(r, a, R)
        PROVE  WorkerActsOnce'
    BY <2>4 DEF Answered
  <2>5. ASSUME NEW a \in Approval, TimedOut(a) PROVE WorkerActsOnce'
    <3> SUFFICES ASSUME NEW c \in Approval
                 PROVE  /\ ledger'[<<"timeout", c>>] + ledger'[<<"escalate", c>>] \in {0, 1}
                        /\ ledger'[<<"escalate", c>>] = 1 <=> escalatedTo'[c] # NoApproval
      OBVIOUS
    <3>1. ledger[<<"timeout", c>>] \in Nat /\ ledger[<<"escalate", c>>] \in Nat
      BY <2>0
    <3>2. CASE c = a
      <4>1. ledger[<<"timeout", c>>] = 0 /\ ledger[<<"escalate", c>>] = 0 /\ escalatedTo[c] = NoApproval
        BY <3>2, <2>5 DEF TimedOut, PendingIsUntouched
      <4>2. ledger'[<<"timeout", c>>] = 1
        BY <3>2, <4>1, <2>5 DEF TimedOut
      <4>3. ledger'[<<"escalate", c>>] = ledger[<<"escalate", c>>]
        BY <2>5 DEF TimedOut
      <4>4. escalatedTo' = escalatedTo
        BY <2>5 DEF TimedOut
      <4> QED
        BY <4>1, <4>2, <4>3, <4>4
    <3>3. CASE c # a
      BY <3>1, <3>3, <2>5 DEF TimedOut
    <3> QED
      BY <3>2, <3>3
  <2>6. ASSUME NEW a \in Approval, NEW b \in Approval, HandedOver(a, b) PROVE WorkerActsOnce'
    <3> SUFFICES ASSUME NEW c \in Approval
                 PROVE  /\ ledger'[<<"timeout", c>>] + ledger'[<<"escalate", c>>] \in {0, 1}
                        /\ ledger'[<<"escalate", c>>] = 1 <=> escalatedTo'[c] # NoApproval
      OBVIOUS
    <3>1. ledger[<<"timeout", c>>] \in Nat /\ ledger[<<"escalate", c>>] \in Nat
      BY <2>0
    <3>2. CASE c = a
      <4>1. ledger[<<"timeout", c>>] = 0 /\ ledger[<<"escalate", c>>] = 0 /\ escalatedTo[c] = NoApproval
        BY <3>2, <2>6 DEF HandedOver, PendingIsUntouched
      <4>2. ledger'[<<"escalate", c>>] = 1
        BY <3>2, <4>1, <2>6 DEF HandedOver
      <4>3. ledger'[<<"timeout", c>>] = ledger[<<"timeout", c>>]
        BY <2>6 DEF HandedOver
      <4>4. escalatedTo'[c] # NoApproval
        BY <3>2, <2>6, ConstantsAssumption DEF HandedOver
      <4> QED
        BY <4>1, <4>2, <4>3, <4>4
    <3>3. CASE c # a
      BY <3>1, <3>3, <2>6 DEF HandedOver
    <3> QED
      BY <3>2, <3>3
  <2> QED
    BY <2>1, <2>2, <2>3, <2>4, <2>5, <2>6, TableSteps
<1> QED
  BY <1>1, <1>2, TypeCorrect, RowsAreWellFormed, PendingRowsAreUntouched, PTL DEF Spec

\* Rows escalate to rows of their own group, and no two to the same one.
THEOREM EscalationFormsChains == Spec => []EscalationIsChain
<1>1. Init => EscalationIsChain
  BY DEF Init, EscalationIsChain
<1>2. TypeOK /\ RowsOK /\ EscalationIsChain /\ [Next]_vars => EscalationIsChain'
  <2> SUFFICES ASSUME TypeOK, RowsOK, EscalationIsChain, [Next]_vars
               PROVE  EscalationIsChain'
    OBVIOUS
  <2>0. \A a \in Approval : escalatedTo[a] # NoApproval =>
          escalatedTo[a] \in Approval /\ Exists(escalatedTo[a]) /\ Exists(a)
    <3> SUFFICES ASSUME NEW a \in Approval, escalatedTo[a] # NoApproval
                 PROVE  escalatedTo[a] \in Approval /\ Exists(escalatedTo[a]) /\ Exists(a)
      OBVIOUS
    <3>1. escalatedTo[a] \in Approval
      BY DEF TypeOK
    <3>2. Exists(escalatedTo[a])
      BY DEF EscalationIsChain, Exists
    <3>3. Exists(a)
      BY DEF RowsOK, AbsentRowsAreBlank
    <3> QED
      BY <3>1, <3>2, <3>3
  <2> USE DEF EscalationIsChain, SameGroup, Exists
  <2>1. CASE UNCHANGED <<rows, books>>
    BY <2>1 DEF rows
  <2>2. ASSUME NEW g \in Group, NEW m \in {"any_of", "all_of"}, NEW S \in SUBSET Approval,
               Asked(g, m, S)
        PROVE  EscalationIsChain'
    BY <2>0, <2>2 DEF Asked
  <2>3. CASE AutoApproved
    BY <2>3 DEF AutoApproved
  <2>4. ASSUME NEW r \in Request, NEW a \in Approval, NEW R \in SUBSET Approval, Answered(r, a, R)
        PROVE  EscalationIsChain'
    BY <2>0, <2>4 DEF Answered
  <2>5. ASSUME NEW a \in Approval, TimedOut(a) PROVE EscalationIsChain'
    BY <2>0, <2>5 DEF TimedOut
  <2>6. ASSUME NEW a \in Approval, NEW b \in Approval, HandedOver(a, b) PROVE EscalationIsChain'
    BY <2>0, <2>6 DEF HandedOver, Pending, RowsOK, AbsentRowsAreBlank
  <2> QED
    BY <2>1, <2>2, <2>3, <2>4, <2>5, <2>6, TableSteps
<1> QED
  BY <1>1, <1>2, TypeCorrect, RowsAreWellFormed, PTL DEF Spec

\* What explains a row still does when its entries and its status stay.
LEMMA ExplainedIsStable ==
  ASSUME NEW c \in Approval, Explained(c), status'[c] = status[c],
         \A kind \in RowKind : ledger'[<<kind, c>>] = ledger[<<kind, c>>],
         \A b \in Approval \ {c} : SameGroup(c, b) /\ ledger[<<"decision", b>>] > 0
                                   => SameGroup(c, b)' /\ ledger'[<<"decision", b>>] > 0
  PROVE  Explained(c)'
BY DEF Explained, RowKind

\* Whatever closed a row left the entry in the ledger that says so.
THEOREM LedgerTellsWhy == Spec => []LedgerExplains
<1>1. Init => LedgerExplains
  BY DEF Init, LedgerExplains, Explained, LedgerKey
<1>2. TypeOK /\ RowsOK /\ PendingIsUntouched /\ LedgerExplains /\ [Next]_vars => LedgerExplains'
  <2> SUFFICES ASSUME TypeOK, RowsOK, PendingIsUntouched, LedgerExplains, [Next]_vars
               PROVE  LedgerExplains'
    OBVIOUS
  <2>0. \A a \in Approval, kind \in RowKind : ledger[<<kind, a>>] \in Nat
    BY DEF TypeOK, LedgerKey, RowKind
  <2> USE DEF LedgerExplains, RowKind
  <2>1. CASE UNCHANGED <<rows, books>>
    BY <2>1 DEF rows, books, Explained, SameGroup
  <2>2. ASSUME NEW g \in Group, NEW m \in {"any_of", "all_of"}, NEW S \in SUBSET Approval,
               Asked(g, m, S)
        PROVE  LedgerExplains'
    <3> SUFFICES ASSUME NEW c \in Approval PROVE Explained(c)'
      OBVIOUS
    <3>1. ledger[<<"decision", c>>] \in Nat
      BY <2>0
    <3>2. Explained(c)
      OBVIOUS
    <3> QED
      BY <3>1, <3>2, <2>2 DEF Asked, Exists, Explained, SameGroup, RowsOK, AbsentRowsAreBlank
  <2>3. CASE AutoApproved
    <3> SUFFICES ASSUME NEW c \in Approval PROVE Explained(c)'
      OBVIOUS
    <3>1. ledger[<<"decision", c>>] \in Nat
      BY <2>0
    <3>2. Explained(c)
      OBVIOUS
    <3> QED
      BY <3>1, <3>2, <2>3 DEF AutoApproved, Explained, SameGroup
  <2>4. ASSUME NEW r \in Request, NEW a \in Approval, NEW R \in SUBSET Approval, Answered(r, a, R)
        PROVE  LedgerExplains'
    <3> SUFFICES ASSUME NEW c \in Approval PROVE Explained(c)'
      OBVIOUS
    <3>0. \A b \in Approval : ledger[<<"decision", b>>] \in Nat
      BY <2>0
    <3>1. CASE c = a
      <4>1. status'[c] = "decided" /\ ledger'[<<"decision", c>>] > 0
        BY <2>4, <3>0, <3>1 DEF Answered
      <4> QED
        BY <4>1 DEF Explained
    <3>2. CASE c \in R
      <4>1. c # a /\ status'[c] = "superseded" /\ SameGroup(c, a)'
        BY <2>4, <3>2 DEF Answered, SameGroup
      <4>2. ledger'[<<"decision", a>>] > 0
        BY <2>4, <3>0 DEF Answered
      <4> QED
        BY <4>1, <4>2 DEF Explained
    <3>3. CASE c # a /\ c \notin R
      <4>1. status'[c] = status[c] /\ \A kind \in RowKind : ledger'[<<kind, c>>] = ledger[<<kind, c>>]
        BY <2>4, <3>3 DEF Answered
      <4>2. \A b \in Approval \ {c} : SameGroup(c, b) /\ ledger[<<"decision", b>>] > 0
                                      => SameGroup(c, b)' /\ ledger'[<<"decision", b>>] > 0
        BY <2>4, <3>0 DEF Answered, SameGroup
      <4> QED
        BY <4>1, <4>2, ExplainedIsStable
    <3> QED
      BY <3>1, <3>2, <3>3
  <2>5. ASSUME NEW a \in Approval, TimedOut(a) PROVE LedgerExplains'
    <3> SUFFICES ASSUME NEW c \in Approval PROVE Explained(c)'
      OBVIOUS
    <3>0. \A b \in Approval : ledger'[<<"decision", b>>] = ledger[<<"decision", b>>]
      BY <2>5 DEF TimedOut
    <3>1. CASE c = a
      <4>1. ledger[<<"decision", c>>] = 0 /\ ledger[<<"timeout", c>>] = 0
        BY <2>5, <3>1 DEF TimedOut, PendingIsUntouched
      <4>2. status'[c] = "timed_out" /\ ledger'[<<"timeout", c>>] = 1
        BY <2>5, <3>1, <4>1 DEF TimedOut
      <4> QED
        BY <3>0, <4>1, <4>2 DEF Explained
    <3>2. CASE c # a
      <4>1. status'[c] = status[c] /\ \A kind \in RowKind : ledger'[<<kind, c>>] = ledger[<<kind, c>>]
        BY <2>5, <3>2 DEF TimedOut
      <4>2. \A b \in Approval \ {c} : SameGroup(c, b) => SameGroup(c, b)'
        BY <2>5 DEF TimedOut, SameGroup
      <4> QED
        BY <3>0, <4>1, <4>2, ExplainedIsStable
    <3> QED
      BY <3>1, <3>2
  <2>6. ASSUME NEW a \in Approval, NEW b \in Approval, HandedOver(a, b) PROVE LedgerExplains'
    <3> SUFFICES ASSUME NEW c \in Approval PROVE Explained(c)'
      OBVIOUS
    <3>0. \A d \in Approval : ledger'[<<"decision", d>>] = ledger[<<"decision", d>>]
      BY <2>6 DEF HandedOver
    <3>1. CASE c = a
      <4>1. ledger[<<"decision", c>>] = 0 /\ ledger[<<"escalate", c>>] = 0
        BY <2>6, <3>1 DEF HandedOver, PendingIsUntouched
      <4>2. status'[c] = "escalated" /\ ledger'[<<"escalate", c>>] = 1
        BY <2>6, <3>1, <4>1 DEF HandedOver
      <4> QED
        BY <3>0, <4>1, <4>2 DEF Explained
    <3>2. CASE c = b
      <4>1. status'[c] = "pending" /\ ledger[<<"decision", c>>] = 0
        BY <2>6, <3>2 DEF HandedOver, RowsOK, AbsentRowsAreBlank
      <4> QED
        BY <3>0, <4>1 DEF Explained
    <3>3. CASE c # a /\ c # b
      <4>1. status'[c] = status[c] /\ \A kind \in RowKind : ledger'[<<kind, c>>] = ledger[<<kind, c>>]
        BY <2>6, <3>3 DEF HandedOver
      <4>2. ledger[<<"decision", b>>] = 0
        BY <2>6 DEF HandedOver, RowsOK, AbsentRowsAreBlank
      <4>3. \A d \in Approval \ {c} : SameGroup(c, d) /\ d # b => SameGroup(c, d)'
        BY <2>6, <3>3 DEF HandedOver, SameGroup
      <4>4. \A d \in Approval \ {c} : SameGroup(c, d) /\ ledger[<<"decision", d>>] > 0
                                      => SameGroup(c, d)' /\ ledger'[<<"decision", d>>] > 0
        BY <3>0, <4>2, <4>3
      <4> QED
        BY <4>1, <4>4, ExplainedIsStable
    <3> QED
      BY <3>1, <3>2, <3>3
  <2> QED
    BY <2>1, <2>2, <2>3, <2>4, <2>5, <2>6, TableSteps
<1> QED
  BY <1>1, <1>2, TypeCorrect, RowsAreWellFormed, PendingRowsAreUntouched, PTL DEF Spec

-----------------------------------------------------------------------------
(* What a step may do to a row *)

LEMMA RowStatusSteps ==
  ASSUME TypeOK, RowsOK, [Next]_vars, NEW a \in Approval, status'[a] # status[a]
  PROVE  \/ status[a] = "none" /\ status'[a] = "pending"
         \/ status[a] = "pending" /\ status'[a] \in {"timed_out", "escalated"}
         \/ status[a] # "none" /\ status'[a] \in {"decided", "superseded"}
<1>1. CASE UNCHANGED <<rows, books>>
  BY <1>1 DEF rows
<1>2. ASSUME NEW g \in Group, NEW m \in {"any_of", "all_of"}, NEW S \in SUBSET Approval,
             Asked(g, m, S)
      PROVE  status[a] = "none" /\ status'[a] = "pending"
  BY <1>2 DEF Asked, Exists
<1>3. CASE AutoApproved
  BY <1>3 DEF AutoApproved
<1>4. ASSUME NEW r \in Request, NEW b \in Approval, NEW R \in SUBSET Approval, Answered(r, b, R)
      PROVE  status[a] # "none" /\ status'[a] \in {"decided", "superseded"}
  BY <1>4 DEF Answered, Exists
<1>5. ASSUME NEW b \in Approval, TimedOut(b)
      PROVE  status[a] = "pending" /\ status'[a] \in {"timed_out", "escalated"}
  BY <1>5 DEF TimedOut, Pending
<1>6. ASSUME NEW b \in Approval, NEW c \in Approval, HandedOver(b, c)
      PROVE  \/ status[a] = "none" /\ status'[a] = "pending"
             \/ status[a] = "pending" /\ status'[a] \in {"timed_out", "escalated"}
  BY <1>6 DEF HandedOver, Pending, Exists
<1> QED
  BY <1>1, <1>2, <1>3, <1>4, <1>5, <1>6, TableSteps

\* Nothing goes back to pending, and a worker closes pending rows only.
THEOREM RowsFollowTheLifecycle == Spec => Lifecycle
<1>1. TypeOK /\ RowsOK /\ [Next]_vars =>
        [\A a \in Approval : status'[a] # status[a] =>
           \/ status[a] = "none" /\ status'[a] = "pending"
           \/ status[a] = "pending" /\ status'[a] \in {"timed_out", "escalated"}
           \/ status[a] # "none" /\ status'[a] \in {"decided", "superseded"}]_vars
  BY RowStatusSteps
<1> QED
  BY <1>1, TypeCorrect, RowsAreWellFormed, PTL DEF Spec, Lifecycle

LEMMA ClosedRowsStayClosed ==
  ASSUME TypeOK, RowsOK, [Next]_vars, NEW a \in Approval, Exists(a), ~Pending(a)
  PROVE  ~Pending(a)'
BY RowStatusSteps DEF Exists, Pending

-----------------------------------------------------------------------------
(* Locks *)

\* Two transactions that both matched the other's target would wait for each
\* other.
NoMutualRivals ==
  \A r, q \in Request : ~(target[r] \in rivals[q] /\ target[q] \in rivals[r])

LocksOK == RivalledTargetsAreClosed /\ NoMutualRivals

\* No two decide transactions wait for each other's row.  The second of two to
\* look for rivals finds only pending rows, and whoever has a rival already
\* holds a row that is no longer pending.
THEOREM NoDeadlockOfDecisions == Spec => []NoLockCycle
<1>1. Init => LocksOK
  BY DEF Init, LocksOK, RivalledTargetsAreClosed, NoMutualRivals
<1>2. TypeOK /\ RowsOK /\ OnePendingPerAnyOf /\ LocksOK /\ [Next]_vars => LocksOK'
  <2> SUFFICES ASSUME TypeOK, RowsOK, OnePendingPerAnyOf, LocksOK, [Next]_vars
               PROVE  LocksOK'
    OBVIOUS
  <2> USE DEF LocksOK, RivalledTargetsAreClosed, NoMutualRivals
  <2>1. \A r \in Request : rivals[r] # {} =>
          phase[r] = "matched" /\ target[r] \in Approval /\ Exists(target[r])
    BY DEF RowsOK, ReferencesExist, TypeOK
  <2>2. \A r \in Request : rivals[r] # {} => ~Pending(target[r])'
    <3> SUFFICES ASSUME NEW r \in Request, rivals[r] # {} PROVE ~Pending(target[r])'
      OBVIOUS
    <3>1. target'[r] = target[r]
      <4>1. ASSUME NEW q \in Request, Decide(q) PROVE target'[r] = target[r]
        BY <2>1, <4>1 DEF Decide, DecideRead, DecideRefuse, DecideFlush, DecideMatch, DecideCommit,
                          DecideAbort, TypeOK
      <4>2. ASSUME NEW w \in Worker, Work(w) PROVE target'[r] = target[r]
        BY <4>2 DEF Work, Poll, Evaluate, TimeOut, Escalate, Skip, WorkerError, WorkerCrash, decides
      <4>3. Submit => target'[r] = target[r]
        BY DEF Submit, RequestHuman, AutoApprove, decides
      <4>4. ASSUME NEW a \in Approval, Expire(a) PROVE target'[r] = target[r]
        BY <4>4 DEF Expire, decides
      <4>5. UNCHANGED vars => target'[r] = target[r]
        BY DEF vars, decides
      <4> QED
        BY <4>1, <4>2, <4>3, <4>4, <4>5 DEF Next
    <3>2. target[r] \in Approval /\ Exists(target[r]) /\ ~Pending(target[r])
      BY <2>1
    <3>3. status'[target[r]] # "pending"
      BY <3>2, ClosedRowsStayClosed DEF Pending
    <3> QED
      BY <3>1, <3>3 DEF Pending
  <2>3. CASE UNCHANGED decides
    BY <2>2, <2>3 DEF decides, Pending
  <2>4. ASSUME NEW r \in Request, Decide(r) PROVE LocksOK'
    <3>1. ASSUME NEW a \in Approval, DecideRead(r, a) PROVE LocksOK'
      <4>1. rivals[r] = {} /\ rivals' = rivals /\ \A q \in Request \ {r} : target'[q] = target[q]
        BY <2>1, <3>1 DEF DecideRead, TypeOK
      <4> QED
        BY <2>2, <4>1 DEF Pending
    <3>2. ASSUME UNCHANGED <<target, rivals>> PROVE LocksOK'
      BY <2>2, <3>2 DEF Pending
    <3>3. CASE DecideMatch(r)
      <4>1. /\ target[r] \in Approval
            /\ mode[group[target[r]]] = "any_of"
            /\ target' = target
            /\ \A q \in Request : rivals'[q] = IF q = r THEN Rivals(target[r]) ELSE rivals[q]
            /\ status' = status
        BY <3>3 DEF DecideMatch, RowsOK, ReferencesExist, TypeOK, rows
      <4>2. Rivals(target[r]) # {} => ~Pending(target[r])
        BY <4>1 DEF Rivals, OnePendingPerAnyOf, SameGroup
      <4>3. RivalledTargetsAreClosed'
        BY <4>1, <4>2 DEF Pending
      <4>4. \A q \in Request \ {r} :
              ~(target[r] \in rivals[q] /\ target[q] \in Rivals(target[r]))
        BY DEF Rivals
      <4>5. target[r] \notin Rivals(target[r])
        BY DEF Rivals
      <4>6. NoMutualRivals'
        BY <4>1, <4>4, <4>5
      <4> QED
        BY <4>3, <4>6
    <3>4. CASE DecideCommit(r) \/ DecideAbort(r)
      <4>1. target' = target /\ rivals'[r] = {} /\ \A q \in Request \ {r} : rivals'[q] = rivals[q]
        BY <3>4 DEF DecideCommit, DecideAbort, TypeOK
      <4> QED
        BY <2>2, <4>1 DEF Pending
    <3> QED
      BY <2>4, <3>1, <3>2, <3>3, <3>4 DEF Decide, DecideRefuse, DecideFlush
  <2>5. ASSUME NEW w \in Worker, Work(w) PROVE UNCHANGED decides
    BY <2>5 DEF Work, Poll, Evaluate, TimeOut, Escalate, Skip, WorkerError, WorkerCrash
  <2>6. (Submit \/ (\E a \in Approval : Expire(a)) \/ UNCHANGED vars) => UNCHANGED decides
    BY DEF Submit, RequestHuman, AutoApprove, Expire, vars
  <2> QED
    BY <2>3, <2>4, <2>5, <2>6 DEF Next
<1>3. RowsOK /\ LocksOK => NoLockCycle
  BY DEF RowsOK, ReferencesExist, LocksOK, NoMutualRivals, NoLockCycle, WaitsFor, Holds
<1> QED
  BY <1>1, <1>2, <1>3, TypeCorrect, RowsAreWellFormed, AnyOfAsksOneRowAtATime, PTL DEF Spec

-----------------------------------------------------------------------------
(* Escalation *)

\* A hand-over puts the new row b below a and changes no other row's depth.
LEMMA HandoverAndDepth ==
  ASSUME TypeOK, RowsOK, NEW a \in Approval, NEW b \in Approval, HandedOver(a, b),
         NEW n \in Nat, NEW c \in Approval, DepthAtLeast(c, n)'
  PROVE  /\ c # b => DepthAtLeast(c, n)
         /\ c = b /\ n > 0 => DepthAtLeast(a, n - 1)
<1>1. /\ \A d \in Approval : escalatedTo'[d] = IF d = a THEN b ELSE escalatedTo[d]
      /\ a # b
      /\ escalatedTo[b] = NoApproval
      /\ \A d \in Approval : escalatedTo[d] # b
  BY DEF HandedOver, RowsOK, AbsentRowsAreBlank
<1>2. ASSUME NEW d \in Approval, d # b, NEW k \in Nat, NEW chain \in [1..k -> Approval],
             \A i \in 1..k : escalatedTo'[chain[i]] = IF i = 1 THEN d ELSE chain[i - 1]
      PROVE  DepthAtLeast(d, k)
  <2>1. ASSUME NEW i \in 1..k
        PROVE  escalatedTo[chain[i]] = IF i = 1 THEN d ELSE chain[i - 1]
    <3>1. CASE i = 1
      BY <1>1, <1>2, <3>1
    <3>2. CASE i > 1
      <4>1. /\ i - 1 \in 1..k /\ chain[i] \in Approval /\ chain[i - 1] \in Approval
            /\ escalatedTo'[chain[i]] = chain[i - 1]
        BY <1>2, <3>2
      <4>2. escalatedTo'[chain[i - 1]] \in Approval
        BY <1>2, <4>1
      <4>3. chain[i - 1] # b
        BY <1>1, <4>2, ConstantsAssumption
      <4> QED
        BY <1>1, <3>2, <4>1, <4>3
    <3> QED
      BY <3>1, <3>2
  <2> QED
    BY <1>2, <2>1 DEF DepthAtLeast
<1>3. PICK chain \in [1..n -> Approval] :
        \A i \in 1..n : escalatedTo'[chain[i]] = IF i = 1 THEN c ELSE chain[i - 1]
  BY DEF DepthAtLeast
<1>4. c # b => DepthAtLeast(c, n)
  BY <1>2, <1>3
<1>5. ASSUME c = b, n > 0 PROVE DepthAtLeast(a, n - 1)
  <2> DEFINE rest == [i \in 1..(n - 1) |-> chain[i + 1]]
  <2>1. chain[1] = a
    <3>1. 1 \in 1..n /\ chain[1] \in Approval /\ escalatedTo'[chain[1]] = b
      BY <1>3, <1>5
    <3> QED
      BY <1>1, <3>1
  <2>2. n - 1 \in Nat /\ rest \in [1..(n - 1) -> Approval]
    BY <1>5
  <2>3. ASSUME NEW i \in 1..(n - 1)
        PROVE  escalatedTo'[rest[i]] = IF i = 1 THEN a ELSE rest[i - 1]
    <3>1. i + 1 \in 1..n /\ rest[i] = chain[i + 1] /\ (i + 1) - 1 = i /\ i + 1 # 1
      BY <1>5
    <3>2. escalatedTo'[rest[i]] = chain[i]
      BY <1>3, <3>1
    <3>3. i # 1 => i - 1 \in 1..(n - 1) /\ rest[i - 1] = chain[i]
      OBVIOUS
    <3> QED
      BY <2>1, <3>2, <3>3
  <2> HIDE DEF rest
  <2> QED
    BY <1>1, <1>2, <2>2, <2>3
<1> QED
  BY <1>4, <1>5

LEMMA OtherStepsKeepDepths ==
  ASSUME TypeOK, RowsOK, [Next]_vars,
         ~\E w \in Worker, b \in Approval : Escalate(w, b)
  PROVE  escalatedTo' = escalatedTo
<1> USE DEF rows, vars
<1>1. ASSUME NEW r \in Request, Decide(r) PROVE escalatedTo' = escalatedTo
  BY <1>1 DEF Decide, DecideRead, DecideRefuse, DecideFlush, DecideMatch, DecideCommit, DecideAbort
<1>2. ASSUME NEW w \in Worker, Work(w) PROVE escalatedTo' = escalatedTo
  BY <1>2 DEF Work, Poll, Evaluate, TimeOut, Skip, WorkerError, WorkerCrash
<1> QED
  BY <1>1, <1>2 DEF Next, Submit, RequestHuman, AutoApprove, Expire

DepthsOK == PlannedDepthIsCurrent /\ EscalationBounded

\* The depth is read before the row is held, and is still the row's depth when
\* the row is escalated: rows are only ever added below a row that has none
\* below it.
THEOREM DepthsStayOK == Spec => []DepthsOK
<1>1. Init => DepthsOK
  <2> SUFFICES ASSUME Init PROVE DepthsOK
    OBVIOUS
  <2>1. \A a \in Approval : escalatedTo[a] = NoApproval
    BY DEF Init
  <2>2. ASSUME NEW a \in Approval PROVE ~DepthAtLeast(a, MaxDepth + 1)
    <3> SUFFICES ASSUME NEW chain \in [1..(MaxDepth + 1) -> Approval],
                        \A i \in 1..(MaxDepth + 1) :
                          escalatedTo[chain[i]] = IF i = 1 THEN a ELSE chain[i - 1]
                 PROVE  FALSE
      BY DEF DepthAtLeast
    <3>1. 1 \in 1..(MaxDepth + 1)
      BY ConstantsAssumption
    <3>2. escalatedTo[chain[1]] = a /\ chain[1] \in Approval
      BY <3>1
    <3> QED
      BY <2>1, <3>2, ConstantsAssumption
  <2> QED
    BY <2>2 DEF Init, DepthsOK, PlannedDepthIsCurrent, EscalationBounded
<1>2. TypeOK /\ TypeOK' /\ RowsOK /\ DepthsOK /\ [Next]_vars => DepthsOK'
  <2> SUFFICES ASSUME TypeOK, TypeOK', RowsOK, DepthsOK, [Next]_vars PROVE DepthsOK'
    OBVIOUS
  <2> USE DEF DepthsOK
  <2>1. ASSUME NEW w \in Worker, NEW b \in Approval, Escalate(w, b) PROVE DepthsOK'
    <3>1. current[w] \in Approval /\ plan[w] = "escalate" /\ HandedOver(current[w], b)
      BY <2>1, HandedOverStep
    <3>2. ~DepthAtLeast(current[w], MaxDepth)
      BY <3>1, ConstantsAssumption DEF PlannedDepthIsCurrent
    <3>3. MaxDepth \in Nat /\ MaxDepth + 1 \in Nat /\ MaxDepth + 1 > 0 /\ (MaxDepth + 1) - 1 = MaxDepth
      BY ConstantsAssumption
    <3>4. EscalationBounded'
      <4> SUFFICES ASSUME NEW c \in Approval, DepthAtLeast(c, MaxDepth + 1)' PROVE FALSE
        BY DEF EscalationBounded
      <4>1. CASE c = b
        BY <3>1, <3>2, <3>3, <4>1, HandoverAndDepth
      <4>2. CASE c # b
        BY <3>1, <3>3, <4>2, HandoverAndDepth DEF EscalationBounded
      <4> QED
        BY <4>1, <4>2
    <3>5. PlannedDepthIsCurrent'
      <4> SUFFICES ASSUME NEW v \in Worker, NEW a \in Approval, current'[v] = a,
                          plan'[v] = "escalate", DepthAtLeast(a, MaxDepth)'
                   PROVE  FALSE
        BY DEF PlannedDepthIsCurrent, DepthAtLeast, TypeOK
      <4>1. v # w /\ current'[v] = current[v] /\ plan'[v] = plan[v]
        BY <2>1, ConstantsAssumption DEF Escalate, Forget, TypeOK
      <4>2. current[v] = a /\ a # b
        <5>1. current[v] = a
          BY <4>1
        <5>2. Exists(a)
          BY <5>1, ConstantsAssumption DEF RowsOK, ReferencesExist
        <5>3. ~Exists(b)
          BY <3>1 DEF HandedOver
        <5> QED
          BY <5>1, <5>2, <5>3
      <4>3. DepthAtLeast(a, MaxDepth)
        BY <3>1, <3>3, <4>2, HandoverAndDepth
      <4> QED
        BY <4>1, <4>2, <4>3, ConstantsAssumption DEF PlannedDepthIsCurrent
    <3> QED
      BY <3>4, <3>5
  <2>2. ASSUME ~\E w \in Worker, b \in Approval : Escalate(w, b) PROVE DepthsOK'
    <3>1. escalatedTo' = escalatedTo
      BY <2>2, OtherStepsKeepDepths
    <3>2. EscalationBounded'
      BY <3>1 DEF EscalationBounded, DepthAtLeast
    <3>3. PlannedDepthIsCurrent'
      <4> SUFFICES ASSUME NEW v \in Worker, NEW c \in Approval, current'[v] = c,
                          plan'[v] = "escalate"
                   PROVE  ~DepthAtLeast(c, MaxDepth)
        BY <3>1 DEF PlannedDepthIsCurrent, DepthAtLeast, TypeOK
      <4>1. CASE current'[v] = current[v] /\ plan'[v] = plan[v]
        BY <4>1, ConstantsAssumption DEF PlannedDepthIsCurrent
      <4>2. ASSUME NEW a \in Approval, Evaluate(v, a) PROVE ~DepthAtLeast(c, MaxDepth)
        BY <4>2 DEF Evaluate, PlansFor, DepthReached, TypeOK
      <4>3. ASSUME NEW w \in Worker, Work(w), ~\E a \in Approval : Evaluate(v, a)
            PROVE  current'[v] = current[v] /\ plan'[v] = plan[v]
        <5>1. CASE w = v
          BY <2>2, <4>3, <5>1
          DEF Work, Poll, TimeOut, Skip, WorkerError, WorkerCrash, Forget, TypeOK
        <5>2. CASE w # v
          BY <2>2, <4>3, <5>2
          DEF Work, Poll, Evaluate, TimeOut, Skip, WorkerError, WorkerCrash, Forget, TypeOK
        <5> QED
          BY <5>1, <5>2
      <4>4. ASSUME NEW r \in Request, Decide(r) PROVE current' = current /\ plan' = plan
        BY <4>4 DEF Decide, DecideRead, DecideRefuse, DecideFlush, DecideMatch, DecideCommit,
                    DecideAbort, workers
      <4>5. (Submit \/ (\E a \in Approval : Expire(a)) \/ UNCHANGED vars)
              => current' = current /\ plan' = plan
        BY DEF Submit, RequestHuman, AutoApprove, Expire, vars, workers
      <4> QED
        BY <4>1, <4>2, <4>3, <4>4, <4>5 DEF Next
    <3> QED
      BY <3>2, <3>3
  <2> QED
    BY <2>1, <2>2
<1> QED
  BY <1>1, <1>2, TypeCorrect, RowsAreWellFormed, PTL DEF Spec

\* No row has more than MaxDepth rows above it.
THEOREM EscalationStaysBounded == Spec => []EscalationBounded
<1>1. DepthsOK => EscalationBounded
  BY DEF DepthsOK
<1> QED
  BY <1>1, DepthsStayOK, PTL

-----------------------------------------------------------------------------
(* The refinement of Handover *)

Levels(a) == {n \in 1..MaxDepth : DepthAtLeast(a, n)}

LEMMA DepthIsCounted ==
  ASSUME NEW a \in Approval
  PROVE  Depth(a) = Cardinality(Levels(a)) /\ IsFiniteSet(Levels(a))
<1>1. IsFiniteSet(1..MaxDepth)
  BY FS_Interval, ConstantsAssumption
<1>2. IsFiniteSet(Levels(a))
  BY <1>1, FS_Subset DEF Levels
<1>3. CASE IsSuccessor(a)
  BY <1>2, <1>3 DEF Depth, Levels
<1>4. CASE ~IsSuccessor(a)
  <2>1. ASSUME NEW n \in 1..MaxDepth, DepthAtLeast(a, n) PROVE FALSE
    <3>1. PICK chain \in [1..n -> Approval] :
            \A i \in 1..n : escalatedTo[chain[i]] = IF i = 1 THEN a ELSE chain[i - 1]
      BY <2>1 DEF DepthAtLeast
    <3>2. 1 \in 1..n
      BY <2>1
    <3>3. chain[1] \in Approval /\ escalatedTo[chain[1]] = a
      BY <3>1, <3>2
    <3> QED
      BY <1>4, <3>3 DEF IsSuccessor
  <2>2. Levels(a) = {}
    BY <2>1 DEF Levels
  <2> QED
    BY <1>2, <1>4, <2>2, FS_EmptySet DEF Depth
<1> QED
  BY <1>3, <1>4

\* A hand-over takes no row from above another.
LEMMA DepthsRemain ==
  ASSUME TypeOK, PendingIsUntouched, NEW a \in Approval, NEW b \in Approval, HandedOver(a, b),
         NEW n \in Nat, NEW c \in Approval, DepthAtLeast(c, n)
  PROVE  DepthAtLeast(c, n)' /\ (c = a => DepthAtLeast(b, n + 1)')
<1>1. /\ \A d \in Approval : escalatedTo'[d] = IF d = a THEN b ELSE escalatedTo[d]
      /\ escalatedTo[a] = NoApproval
  BY DEF HandedOver, PendingIsUntouched
<1>2. PICK chain \in [1..n -> Approval] :
        \A i \in 1..n : escalatedTo[chain[i]] = IF i = 1 THEN c ELSE chain[i - 1]
  BY DEF DepthAtLeast
<1>3. ASSUME NEW i \in 1..n
      PROVE  escalatedTo'[chain[i]] = IF i = 1 THEN c ELSE chain[i - 1]
  <2>1. chain[i] \in Approval /\ (i # 1 => i - 1 \in 1..n /\ chain[i - 1] \in Approval)
    OBVIOUS
  <2>2. escalatedTo[chain[i]] \in Approval
    BY <1>2, <2>1
  <2> QED
    BY <1>1, <1>2, <2>1, <2>2, ConstantsAssumption
<1>4. DepthAtLeast(c, n)'
  BY <1>3 DEF DepthAtLeast
<1>5. ASSUME c = a PROVE DepthAtLeast(b, n + 1)'
  <2> DEFINE longer == [i \in 1..(n + 1) |-> IF i = 1 THEN a ELSE chain[i - 1]]
  <2>1. longer \in [1..(n + 1) -> Approval]
    OBVIOUS
  <2>2. ASSUME NEW i \in 1..(n + 1)
        PROVE  escalatedTo'[longer[i]] = IF i = 1 THEN b ELSE longer[i - 1]
    <3>1. CASE i = 1
      BY <1>1, <3>1
    <3>2. CASE i # 1
      <4>1. i - 1 \in 1..n /\ longer[i] = chain[i - 1]
        BY <3>2
      <4>2. escalatedTo'[chain[i - 1]] = IF i - 1 = 1 THEN a ELSE chain[(i - 1) - 1]
        BY <1>3, <1>5, <4>1
      <4>3. longer[i - 1] = IF i - 1 = 1 THEN a ELSE chain[(i - 1) - 1]
        BY <4>1
      <4> QED
        BY <3>2, <4>1, <4>2, <4>3
    <3> QED
      BY <3>1, <3>2
  <2> HIDE DEF longer
  <2> QED
    BY <2>1, <2>2 DEF DepthAtLeast
<1> QED
  BY <1>4, <1>5

LEMMA NoDepthIsBelowZero ==
  ASSUME NEW a \in Approval PROVE DepthAtLeast(a, 0)
<1> DEFINE chain == [i \in 1..0 |-> a]
<1>1. chain \in [1..0 -> Approval]
  OBVIOUS
<1>2. \A i \in 1..0 : escalatedTo[chain[i]] = IF i = 1 THEN a ELSE chain[i - 1]
  OBVIOUS
<1> HIDE DEF chain
<1> QED
  BY <1>1, <1>2 DEF DepthAtLeast

\* The new row is one deeper than the row it replaces, and no other row's
\* depth changes.
LEMMA HandoverAddsOne ==
  ASSUME TypeOK, RowsOK, PendingIsUntouched, NEW a \in Approval, NEW b \in Approval,
         HandedOver(a, b), ~DepthAtLeast(a, MaxDepth)
  PROVE  /\ Depth(a) \in Nat /\ Depth(a) < MaxDepth
         /\ Depth(b)' = Depth(a) + 1
         /\ \A c \in Approval : c # b => Depth(c)' = Depth(c)
<1> USE ConstantsAssumption
<1>1. /\ \A d \in Approval : escalatedTo'[d] = IF d = a THEN b ELSE escalatedTo[d]
      /\ escalatedTo[a] = NoApproval
      /\ a # b
  BY DEF HandedOver, PendingIsUntouched
<1>2. MaxDepth \in Nat /\ MaxDepth # 0
  <2>1. DepthAtLeast(a, 0)
    BY NoDepthIsBelowZero
  <2> QED
    BY <2>1
<1>3. ASSUME NEW c \in Approval, c # b PROVE Depth(c)' = Depth(c)
  <2>1. \A n \in 1..MaxDepth : DepthAtLeast(c, n)' <=> DepthAtLeast(c, n)
    BY <1>2, <1>3, HandoverAndDepth, DepthsRemain
  <2>2. IsSuccessor(c)' <=> IsSuccessor(c)
    BY <1>1, <1>3 DEF IsSuccessor
  <2> QED
    BY <2>1, <2>2 DEF Depth
<1>4. DepthAtLeast(b, 1)'
  <2>1. DepthAtLeast(a, 0)
    BY NoDepthIsBelowZero
  <2> QED
    BY <2>1, DepthsRemain
<1> DEFINE above == Levels(a)
           T == {m + 1 : m \in above}
<1>5. above \subseteq 1..(MaxDepth - 1)
  BY <1>2 DEF Levels
<1>6. Levels(b)' = T \cup {1}
  <2>1. ASSUME NEW n \in 1..MaxDepth, DepthAtLeast(b, n)', n # 1 PROVE n \in T
    <3>1. n - 1 \in 1..MaxDepth /\ DepthAtLeast(a, n - 1)
      BY <1>2, <2>1, HandoverAndDepth
    <3>2. n = (n - 1) + 1
      OBVIOUS
    <3> QED
      BY <3>1, <3>2 DEF Levels
  <2>2. ASSUME NEW m \in above PROVE m + 1 \in 1..MaxDepth /\ DepthAtLeast(b, m + 1)'
    <3>1. m \in Nat /\ DepthAtLeast(a, m) /\ m \in 1..(MaxDepth - 1)
      BY <1>5 DEF Levels
    <3> QED
      BY <1>2, <3>1, DepthsRemain
  <2>3. 1 \in 1..MaxDepth
    BY <1>2
  <2> QED
    BY <1>4, <2>1, <2>2, <2>3 DEF Levels
<1>7. IsFiniteSet(above) /\ Depth(a) = Cardinality(above)
  BY DepthIsCounted
<1>8. IsFiniteSet(T) /\ Cardinality(T) = Cardinality(above)
  <2> DEFINE f == [m \in above |-> m + 1]
  <2>1. f \in Bijection(above, T)
    BY <1>5 DEF Bijection, Injection, Surjection, IsInjective
  <2>2. ExistsBijection(above, T)
    BY <2>1 DEF ExistsBijection
  <2> QED
    BY <1>7, <2>2, FS_Bijection
<1>9. 1 \notin T
  BY <1>5
<1>10. Depth(b)' = Cardinality(Levels(b)')
  BY <1>1 DEF Depth, IsSuccessor, Levels
<1>11. Depth(a) \in Nat /\ Depth(a) < MaxDepth
  <2>1. IsFiniteSet(1..(MaxDepth - 1)) /\ Cardinality(1..(MaxDepth - 1)) = MaxDepth - 1
    BY <1>2, FS_Interval
  <2>2. Cardinality(above) \in Nat /\ Cardinality(above) <= MaxDepth - 1
    BY <1>5, <1>7, <2>1, FS_Subset, FS_CardinalityType
  <2> QED
    BY <1>2, <1>7, <2>2
<1>12. Depth(b)' = Depth(a) + 1
  <2> HIDE DEF above, T
  <2>1. Cardinality(T \cup {1}) = Cardinality(T) + 1
    BY <1>8, <1>9, FS_AddElement
  <2> QED
    BY <1>6, <1>7, <1>8, <1>10, <2>1
<1> QED
  BY <1>3, <1>11, <1>12

Open == {a \in Approval : Pending(a)}
Closed == {a \in Approval : status[a] \notin {"none", "pending"}}
Hops == [a \in Approval |-> Depth(a)]

\* Steps other than a hand-over change no row's depth.
LEMMA SameDepths ==
  ASSUME escalatedTo' = escalatedTo PROVE Hops' = Hops
<1>1. \A a \in Approval : Depth(a)' = Depth(a)
  BY DEF Depth, IsSuccessor, DepthAtLeast
<1> QED
  BY <1>1 DEF Hops

LEMMA OtherStepsAskOrClose ==
  ASSUME TypeOK, RowsOK, PendingIsUntouched, [Next]_vars, escalatedTo' = escalatedTo
  PROVE  \/ \E S \in SUBSET Approval : Question!Ask(S) \/ Question!Close(S)
         \/ UNCHANGED <<Open, Closed, Hops>>
<1>0. Hops' = Hops
  BY SameDepths
<1> USE <1>0 DEF Open, Closed, Hops, Pending, Exists, Question!Ask, Question!Close
<1>1. ASSUME UNCHANGED status PROVE UNCHANGED <<Open, Closed, Hops>>
  BY <1>1
<1>2. ASSUME NEW g \in Group, NEW m \in {"any_of", "all_of"}, NEW S \in SUBSET Approval,
             Asked(g, m, S)
      PROVE  Question!Ask(S)
  BY <1>2 DEF Asked
<1>3. ASSUME NEW r \in Request, NEW a \in Approval, NEW R \in SUBSET Approval, Answered(r, a, R)
      PROVE  Question!Close(({a} \cup R) \cap Open)
  BY <1>3 DEF Answered
<1>4. ASSUME NEW a \in Approval, TimedOut(a) PROVE Question!Close({a})
  BY <1>4 DEF TimedOut
<1>5. ASSUME NEW a \in Approval, NEW b \in Approval, HandedOver(a, b) PROVE FALSE
  <2>1. escalatedTo'[a] = b
    BY <1>5 DEF HandedOver
  <2>2. escalatedTo[a] = NoApproval
    BY <1>5 DEF HandedOver, PendingIsUntouched
  <2> QED
    BY <2>1, <2>2, ConstantsAssumption
<1>6. AutoApproved \/ UNCHANGED <<rows, books>> => UNCHANGED status
  BY DEF AutoApproved, rows
<1> QED
  BY <1>1, <1>2, <1>3, <1>4, <1>5, <1>6, TableSteps

LEMMA HandoverIsHandOver ==
  ASSUME TypeOK, RowsOK, PendingIsUntouched, NEW a \in Approval, NEW b \in Approval,
         HandedOver(a, b), ~DepthAtLeast(a, MaxDepth)
  PROVE  Question!HandOver(a, b)
<1>1. /\ Depth(a) < MaxDepth
      /\ Depth(b)' = Depth(a) + 1
      /\ \A c \in Approval : c # b => Depth(c)' = Depth(c)
  BY HandoverAddsOne
<1>2. Hops' = [Hops EXCEPT ![b] = Hops[a] + 1]
  BY <1>1 DEF Hops
<1>3. Open' = (Open \ {a}) \cup {b} /\ Closed' = Closed \cup {a} /\ a \in Open /\ b \notin Open \cup Closed
  BY DEF HandedOver, Open, Closed, Pending, Exists
<1> QED
  BY <1>1, <1>2, <1>3 DEF Question!HandOver, Open, Closed, Hops

\* The rows of the server implement the questions of Handover.
THEOREM RowsImplementHandover == Spec => ImplementsHandover
<1>1. Init => Question!Init
  <2> SUFFICES ASSUME Init PROVE Question!Init
    OBVIOUS
  <2>1. \A a \in Approval : Depth(a) = 0
    BY ConstantsAssumption DEF Init, Depth, IsSuccessor
  <2> QED
    BY <2>1 DEF Init, Question!Init, Pending
<1>2. TypeOK /\ RowsOK /\ PendingIsUntouched /\ DepthsOK /\ [Next]_vars
        => [Question!Next]_(Question!vars)
  <2> SUFFICES ASSUME TypeOK, RowsOK, PendingIsUntouched, DepthsOK, [Next]_vars
               PROVE  [Question!Next]_(Question!vars)
    OBVIOUS
  <2>1. ASSUME NEW w \in Worker, NEW b \in Approval, Escalate(w, b) PROVE Question!Next
    <3>1. current[w] \in Approval /\ plan[w] = "escalate" /\ HandedOver(current[w], b)
      BY <2>1, HandedOverStep
    <3>2. ~DepthAtLeast(current[w], MaxDepth)
      BY <3>1, ConstantsAssumption DEF DepthsOK, PlannedDepthIsCurrent
    <3>3. Question!HandOver(current[w], b)
      BY <3>1, <3>2, HandoverIsHandOver
    <3> QED
      BY <3>1, <3>3 DEF Question!Next
  <2>2. ASSUME ~\E w \in Worker, b \in Approval : Escalate(w, b)
        PROVE  [Question!Next]_(Question!vars)
    <3>1. escalatedTo' = escalatedTo
      BY <2>2, OtherStepsKeepDepths
    <3> QED
      BY <3>1, OtherStepsAskOrClose DEF Question!Next, Question!vars, Open, Closed, Hops
  <2> QED
    BY <2>1, <2>2
<1> QED
  BY <1>1, <1>2, TypeCorrect, RowsAreWellFormed, PendingRowsAreUntouched, DepthsStayOK, PTL
  DEF Spec, ImplementsHandover, Question!Spec

=============================================================================
