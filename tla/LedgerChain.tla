----------------------------- MODULE LedgerChain -----------------------------
(***************************************************************************)
(* The hash chain of the table ledger_entries.  Each entry carries         *)
(* prev_hash, the content_hash of the entry that was the most recent by    *)
(* created_at when its writer looked; created_at is the database default   *)
(* NOW(), the time at which the writer's transaction began.                *)
(*                                                                         *)
(*  - The decide endpoint and auto-approval look inside the transaction    *)
(*    that inserts the entry.                                              *)
(*  - The timeout worker looks in a session of its own, before.            *)
(*                                                                         *)
(* A content hash stands for its entry: it covers the entry's uuid.        *)
(***************************************************************************)
EXTENDS Integers

CONSTANTS Entry,         \* entries that some handler sets out to write
          WorkerEntry,   \* those that the timeout worker writes
          MaxClock,      \* ticks of the clock (a bound of the model)
          NoEntry

ASSUME EntryAssumption ==
  /\ WorkerEntry \subseteq Entry
  /\ NoEntry \notin Entry
  /\ MaxClock \in Nat

VARIABLES
  clock,       \* the database's clock
  started,     \* entries whose writer has begun its transaction or looked
  begun,       \* ... has begun its transaction
  linked,      \* ... has looked for the previous entry
  ended,       \* ... has committed, given up or died
  created,     \* ledger_entries.created_at
  prev,        \* ledger_entries.prev_hash
  place,       \* history: when the entry was committed, 0 if it was not
  beside       \* history: pairs of writers that were at work at a time

vars == <<clock, started, begun, linked, ended, created, prev, place, beside>>

TypeOK ==
  /\ clock \in Nat
  /\ started \subseteq Entry /\ begun \subseteq started /\ linked \subseteq started
  /\ ended \subseteq Entry
  /\ created \in [Entry -> Nat]
  /\ prev \in [Entry -> Entry \cup {NoEntry}]
  /\ place \in [Entry -> Nat]
  /\ beside \subseteq Entry \X Entry

Init ==
  /\ clock = 0
  /\ started = {} /\ begun = {} /\ linked = {} /\ ended = {}
  /\ created = [e \in Entry |-> 0]
  /\ prev = [e \in Entry |-> NoEntry]
  /\ place = [e \in Entry |-> 0]
  /\ beside = {}

-----------------------------------------------------------------------------

Committed(e) == place[e] # 0

Open(e) == e \in started \ ended

\* The writers that look before they begin.
FaultyNobodyLooksFirst(e) == FALSE

LooksFirst(e) == e \in WorkerEntry

FaultyOldest(e) ==
  {p \in Entry : Committed(p) /\ \A q \in Entry : Committed(q) => created[p] <= created[q]}

\* ORDER BY created_at DESC LIMIT 1: of equally recent entries any may come.
MostRecent(e) ==
  {p \in Entry : Committed(p) /\ \A q \in Entry : Committed(q) => created[q] <= created[p]}

Tick ==
  /\ clock < MaxClock
  /\ clock' = clock + 1
  /\ UNCHANGED <<started, begun, linked, ended, created, prev, place, beside>>

Start(e) ==
  /\ started' = started \cup {e}
  /\ beside' = IF e \in started THEN beside
               ELSE beside \cup ({f \in Entry : Open(f)} \X {e})

Now == clock

\* The transaction's first statement: NOW() is fixed here.
Begin(e) ==
  /\ e \notin begun \cup ended
  /\ LooksFirst(e) => e \in linked
  /\ Start(e)
  /\ begun' = begun \cup {e}
  /\ created' = [created EXCEPT ![e] = Now]
  /\ UNCHANGED <<clock, linked, ended, prev, place>>

\* The query for the previous entry's content hash.
Link(e) ==
  /\ e \notin linked \cup ended
  /\ ~LooksFirst(e) => e \in begun
  /\ Start(e)
  /\ linked' = linked \cup {e}
  /\ \/ (\A p \in Entry : ~Committed(p)) /\ prev' = [prev EXCEPT ![e] = NoEntry]
     \/ \E p \in MostRecent(e) : prev' = [prev EXCEPT ![e] = p]
  /\ UNCHANGED <<clock, begun, ended, created, place>>

\* A commit takes time: what begins after it has a later NOW().
Commit(e) ==
  /\ e \in (begun \cap linked) \ ended
  /\ clock' = clock + 1
  /\ place' = [place EXCEPT ![e] = clock']
  /\ ended' = ended \cup {e}
  /\ UNCHANGED <<started, begun, linked, created, prev, beside>>

\* The row was no longer pending, a statement failed, the process died.
GiveUp(e) ==
  /\ Open(e)
  /\ ended' = ended \cup {e}
  /\ UNCHANGED <<clock, started, begun, linked, created, prev, place, beside>>

Next ==
  \/ Tick
  \/ \E e \in Entry : Begin(e) \/ Link(e) \/ Commit(e) \/ GiveUp(e)

Spec == Init /\ [][Next]_vars

-----------------------------------------------------------------------------

\* Whatever the writers do to each other, a link leads to an entry that was
\* there before: following prev_hash always ends, at an entry with none.
LinksLeadBack ==
  \A e \in Entry : Committed(e) /\ prev[e] # NoEntry =>
    place[prev[e]] # 0 /\ place[prev[e]] < place[e]

\* The worker's entries refer to entries that are not younger by created_at:
\* looking before the transaction begins, it cannot see a transaction that
\* began after its own.  (The other writers can.)
WorkerLinksToItsPast ==
  \A e \in WorkerEntry : Committed(e) /\ prev[e] # NoEntry =>
    created[prev[e]] <= created[e]

Beside(e, f) == <<e, f>> \in beside \/ <<f, e>> \in beside

\* What was committed before e, but after the entry that e refers to.
Skipped(e) ==
  {q \in Entry : /\ Committed(q) /\ place[q] < place[e]
                 /\ prev[e] # NoEntry => place[prev[e]] < place[q]}

\* Nothing serialises the writers, so the chain can fork: two entries refer to
\* the same one.  It does so only where writers were at work at a time: an
\* entry that a link skips was written beside the entry with the link, or
\* beside the one it refers to.  Writers that fail do no harm.
ForksAreOverlaps ==
  \A e \in Entry : Committed(e) => \A q \in Skipped(e) :
    Beside(q, e) \/ (prev[e] # NoEntry /\ Beside(q, prev[e]))

\* No entry was written beside this one.
Alone(e) == \A f \in Entry : Committed(f) => ~Beside(e, f)

=============================================================================
