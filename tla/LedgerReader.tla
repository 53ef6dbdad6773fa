----------------------------- MODULE LedgerReader -----------------------------
(***************************************************************************)
(* A client of the ledger's read endpoints, beside the writers of          *)
(* LedgerChain: it asks GET /ledger page by page, or for an export.        *)
(*                                                                         *)
(* A page holds the newest Limit entries by (created_at, id) that the      *)
(* filters let through.  The next_cursor it carries names its last entry;  *)
(* a query with a cursor is for what comes after that entry.  The cursor's *)
(* condition is built in a try whose except drops it: cursorApplies says   *)
(* whether the installed SQLAlchemy accepts the text                       *)
(* ":cts::timestamptz", and is a choice made once.                         *)
(***************************************************************************)
EXTENDS LedgerChain, FiniteSets, SequencesExt

CONSTANTS Limit,       \* the query parameter limit
          Selection,   \* what content filters select: sets of entries
          Since        \* the dates of date_from

ASSUME ReaderAssumption ==
  /\ IsFiniteSet(Entry)
  /\ Limit \in Nat \ {0}
  /\ Selection \subseteq SUBSET Entry
  /\ Since \subseteq Nat

VARIABLES
  cursorApplies,  \* the condition on the cursor ends up in the statement
  filter,         \* the client's filters: content and date_from
  cursor,         \* the cursor it will send next, NoEntry for none
  paging,         \* "no", "yes" after the first page, "done" after the last;
                  \* or "exported"
  present,        \* history: what was committed at its first query
  received,       \* the entries of the pages so far
  export          \* the entries of the export, newest first

readerVars == <<cursorApplies, filter, cursor, paging, present, received, export>>

ReaderTypeOK ==
  /\ TypeOK
  /\ cursorApplies \in BOOLEAN
  /\ filter \in [content : Selection, since : Since]
  /\ cursor \in Entry \cup {NoEntry}
  /\ paging \in {"no", "yes", "done", "exported"}
  /\ present \subseteq Entry /\ received \subseteq Entry
  /\ export \in BoundedSeq(Entry, Cardinality(Entry))

ReaderInit ==
  /\ Init
  /\ cursorApplies \in BOOLEAN
  /\ filter \in [content : Selection, since : Since]
  /\ cursor = NoEntry
  /\ paging = "no"
  /\ present = {} /\ received = {}
  /\ export = <<>>

-----------------------------------------------------------------------------

\* The order of the uuids, which has nothing to do with time.
Id(e) == CHOOSE i \in 1..Cardinality(Entry) :
           SetToSeq(Entry)[i] = e

Newer(e, f) == created[e] > created[f] \/ (created[e] = created[f] /\ Id(e) > Id(f))

Selected(e) == Committed(e) /\ e \in filter.content /\ created[e] >= filter.since

FaultyByTimeOnly(e) == created[e] < created[cursor]

BeforeCursor(e) == Newer(cursor, e)

Rows == {e \in Entry : Selected(e) /\
           (cursor # NoEntry /\ cursorApplies => BeforeCursor(e))}

\* ORDER BY created_at DESC, id DESC LIMIT n
Newest(n) == {e \in Rows : Cardinality({f \in Rows : Newer(f, e)}) < n}

LastRow(page) == CHOOSE e \in page : \A f \in page : e = f \/ Newer(f, e)

\* One row more than the page is fetched to know whether there is a next one.
HasNext(fetched) == Cardinality(fetched) > Limit

QueryLedger ==
  /\ paging \in {"no", "yes"}
  /\ present' = IF paging = "no" THEN {e \in Entry : Selected(e)} ELSE present
  /\ LET page == Newest(Limit)
         more == HasNext(Newest(Limit + 1))
     IN  /\ received' = received \cup page
         /\ cursor' = IF more THEN LastRow(page) ELSE NoEntry
         /\ paging' = IF more THEN "yes" ELSE "done"
  /\ UNCHANGED <<vars, cursorApplies, filter, export>>

FaultyUnsorted(s) == TRUE

\* The exports as JSON and as CSV order by created_at DESC alone: equally old entries come in any order.
Descending(s) == \A i, j \in DOMAIN s : i < j => created[s[i]] >= created[s[j]]

Export ==
  /\ paging = "no"
  /\ paging' = "exported"
  /\ \E s \in SetToSeqs({e \in Entry : Selected(e)}) : Descending(s) /\ export' = s
  /\ UNCHANGED <<vars, cursorApplies, filter, cursor, present, received>>

Write == Next /\ UNCHANGED readerVars

ReaderNext == Write \/ QueryLedger \/ Export

ReaderSpec == ReaderInit /\ [][ReaderNext]_<<vars, readerVars>>

-----------------------------------------------------------------------------

\* A client that followed the cursors to the page without one has received
\* every entry its filters select that was in the ledger when it began,
\* whatever was committed meanwhile, and whether the cursor applies or not.
LastPageIsComplete == paging = "done" => present \subseteq received

\* "This chain allows independent verification" (docs/security.md:228): in an
\* export without filters an entry refers to the one exported after it, and
\* the last one to none, except where writers were at work at a time.
ExportIsAChain ==
  filter.content = Entry /\ filter.since = 0 => \A i \in DOMAIN export :
    IF i = Len(export) THEN Alone(export[i]) => prev[export[i]] = NoEntry
    ELSE Alone(export[i]) /\ Alone(export[i + 1]) => prev[export[i]] = export[i + 1]

=============================================================================
