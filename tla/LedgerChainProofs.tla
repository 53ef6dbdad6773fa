-------------------------- MODULE LedgerChainProofs --------------------------
(***************************************************************************)
(* Proofs, for every set of writers, of what the hash chain of the ledger  *)
(* keeps although its writers do not exclude each other, and, for every    *)
(* limit and every filter, of what a reader gets who pages or exports      *)
(* while they write.                                                       *)
(***************************************************************************)
EXTENDS LedgerReader, FiniteSetTheorems, TLAPS

\* The steps of a writer, in order, and where the clock stood.
WritersOK ==
  /\ \A e \in WorkerEntry : e \in begun => e \in linked
  /\ \A e \in Entry : Committed(e) => e \in ended /\ e \in begun /\ e \in linked
  /\ \A e \in Entry : place[e] <= clock /\ created[e] <= clock
  /\ \A e \in Entry : Committed(e) => created[e] < place[e]
  /\ \A e, f \in Entry : Committed(e) /\ place[e] = place[f] => e = f

\* A link leads to a committed entry; a worker's, to one that is not younger.
LinksOK ==
  /\ \A e \in Entry : prev[e] # NoEntry => e \in linked /\ Committed(prev[e])
  /\ \A e \in WorkerEntry : e \in begun /\ prev[e] # NoEntry => created[prev[e]] <= created[e]
  /\ LinksLeadBack

\* The variables of the ledger keep their types.
THEOREM LedgerTypes == Spec => []TypeOK
<1>1. Init => TypeOK
  <2> SUFFICES ASSUME Init PROVE TypeOK
    OBVIOUS
  <2> QED
    BY DEF Init, TypeOK
<1>2. TypeOK /\ [Next]_vars => TypeOK'
  <2> SUFFICES ASSUME TypeOK, [Next]_vars PROVE TypeOK'
    OBVIOUS
  <2> USE EntryAssumption DEF TypeOK
  <2>1. CASE Tick
    BY <2>1 DEF Tick
  <2>2. ASSUME NEW e \in Entry, Begin(e) PROVE TypeOK'
    BY <2>2 DEF Begin, Now, Start, Open
  <2>3. ASSUME NEW e \in Entry, Link(e) PROVE TypeOK'
    BY <2>3 DEF Link, Start, MostRecent, Open
  <2>4. ASSUME NEW e \in Entry, Commit(e) PROVE TypeOK'
    BY <2>4 DEF Commit
  <2>5. ASSUME NEW e \in Entry, GiveUp(e) PROVE TypeOK'
    BY <2>5 DEF GiveUp
  <2>6. CASE UNCHANGED vars
    BY <2>6 DEF vars
  <2> QED
    BY <2>1, <2>2, <2>3, <2>4, <2>5, <2>6 DEF Next
<1> QED
  BY <1>1, <1>2, PTL DEF Spec

LEMMA WritersStayOK == TypeOK /\ WritersOK /\ [Next]_vars => WritersOK'
<1> SUFFICES ASSUME TypeOK, WritersOK, [Next]_vars PROVE WritersOK'
  OBVIOUS
<1> USE EntryAssumption DEF TypeOK, WritersOK, Committed
<1>1. CASE Tick
  BY <1>1 DEF Tick
<1>2. ASSUME NEW e \in Entry, Begin(e) PROVE WritersOK'
  BY <1>2 DEF Begin, Now, LooksFirst
<1>3. ASSUME NEW e \in Entry, Link(e) PROVE WritersOK'
  BY <1>3 DEF Link
<1>4. ASSUME NEW e \in Entry, Commit(e) PROVE WritersOK'
  BY <1>4 DEF Commit
<1>5. ASSUME NEW e \in Entry, GiveUp(e) PROVE WritersOK'
  BY <1>5 DEF GiveUp, Open
<1>6. CASE UNCHANGED vars
  BY <1>6 DEF vars
<1> QED
  BY <1>1, <1>2, <1>3, <1>4, <1>5, <1>6 DEF Next

LEMMA LinksStayOK == TypeOK /\ WritersOK /\ LinksOK /\ [Next]_vars => LinksOK'
<1> SUFFICES ASSUME TypeOK, WritersOK, LinksOK, [Next]_vars PROVE LinksOK'
  OBVIOUS
<1> USE EntryAssumption DEF TypeOK, WritersOK, LinksOK, LinksLeadBack, Committed
<1>1. CASE Tick
  BY <1>1 DEF Tick
<1>2. ASSUME NEW e \in Entry, Begin(e) PROVE LinksOK'
  BY <1>2 DEF Begin, Now, LooksFirst
<1>3. ASSUME NEW e \in Entry, Link(e) PROVE LinksOK'
  BY <1>3 DEF Link, LooksFirst, MostRecent
<1>4. ASSUME NEW e \in Entry, Commit(e) PROVE LinksOK'
  BY <1>4 DEF Commit
<1>5. ASSUME NEW e \in Entry, GiveUp(e) PROVE LinksOK'
  BY <1>5 DEF GiveUp, Open
<1>6. CASE UNCHANGED vars
  BY <1>6 DEF vars
<1> QED
  BY <1>1, <1>2, <1>3, <1>4, <1>5, <1>6 DEF Next

\* What writers have begun and read is of the past, and links lead back to it.
THEOREM WritersAreOrderly == Spec => [](WritersOK /\ LinksOK)
<1>1. Init => WritersOK /\ LinksOK
  BY EntryAssumption DEF Init, WritersOK, LinksOK, LinksLeadBack, Committed
<1> QED
  BY <1>1, WritersStayOK, LinksStayOK, LedgerTypes, PTL DEF Spec

\* No interleaving of writers makes a link that leads nowhere or in a circle.
THEOREM LinksNeverCircle == Spec => []LinksLeadBack
BY WritersAreOrderly, PTL DEF LinksOK

\* The worker's entries never refer to younger ones.
THEOREM WorkerLinksBackInTime == Spec => []WorkerLinksToItsPast
<1>1. WritersOK /\ LinksOK => WorkerLinksToItsPast
  BY EntryAssumption DEF WritersOK, LinksOK, WorkerLinksToItsPast, Committed
<1> QED
  BY <1>1, WritersAreOrderly, PTL

-----------------------------------------------------------------------------
(* Writers that are at work at a time *)

\* Writers at work are known to be beside each other.
OpenAreBeside == \A e, f \in Entry : Open(e) /\ Open(f) /\ e # f => Beside(e, f)

\* Of two writers that were not, one began after the other's commit, or had
\* ended before.
ApartInTime ==
  \A e, f \in Entry : e # f /\ Committed(e) /\ f \in begun /\ ~Beside(e, f) =>
    place[e] <= created[f] \/ (f \in ended /\ (Committed(f) => place[f] < place[e]))

\* What was committed when an entry's writer looked is not younger than what
\* it found; what was committed later, before the entry, was beside it.
LooksAreCurrent ==
  \A e \in linked, f \in Entry :
    e # f /\ Committed(f) /\ (Open(e) \/ (Committed(e) /\ place[f] < place[e])) =>
      Beside(f, e) \/ (prev[e] # NoEntry /\ created[f] <= created[prev[e]])

OverlapsOK == OpenAreBeside /\ ApartInTime /\ LooksAreCurrent

\* A pair once recorded stays; what starts is recorded beside all at work.
LEMMA StartIsRecorded ==
  ASSUME TypeOK, OpenAreBeside, NEW e \in Entry, Start(e),
         e \notin ended, ended' = ended
  PROVE  /\ \A f, g \in Entry : Beside(f, g) => Beside(f, g)'
         /\ \A f \in Entry : Open(f) /\ f # e => Beside(f, e)'
         /\ \A f \in Entry : f # e => (Open(f)' <=> Open(f))
         /\ OpenAreBeside'
<1>1. \A f, g \in Entry : Beside(f, g) => Beside(f, g)'
  BY DEF Start, Beside
<1>2. ASSUME NEW f \in Entry, Open(f), f # e PROVE Beside(f, e)'
  <2>1. CASE e \in started
    BY <1>1, <1>2, <2>1 DEF OpenAreBeside, Open
  <2>2. CASE e \notin started
    BY <1>2, <2>2 DEF Start, Beside
  <2> QED
    BY <2>1, <2>2
<1>3. \A f \in Entry : f # e => (Open(f)' <=> Open(f))
  BY DEF Start, Open
<1>4. OpenAreBeside'
  BY <1>1, <1>2, <1>3 DEF OpenAreBeside, Beside
<1> QED
  BY <1>1, <1>2, <1>3, <1>4

LEMMA BeginKeepsOverlaps ==
  ASSUME TypeOK, WritersOK, LinksOK, OverlapsOK, NEW e \in Entry, Begin(e) PROVE OverlapsOK'
<1> USE EntryAssumption DEF OverlapsOK
<1>1. /\ e \notin begun /\ e \notin ended /\ place[e] = 0
      /\ UNCHANGED <<clock, linked, ended, prev, place>>
      /\ begun' = begun \cup {e} /\ created'[e] = clock
      /\ \A f \in Entry : f # e => created'[f] = created[f]
      /\ Start(e)
  BY DEF Begin, Now, TypeOK, WritersOK, Committed
<1>2. /\ \A f, g \in Entry : Beside(f, g) => Beside(f, g)'
      /\ \A f \in Entry : Open(f) /\ f # e => Beside(f, e)'
      /\ \A f \in Entry : f # e => (Open(f)' <=> Open(f))
      /\ OpenAreBeside'
  BY <1>1, StartIsRecorded
<1>3. \A f \in Entry : Committed(f)' <=> Committed(f)
  BY <1>1 DEF Committed
<1>4. ASSUME NEW f \in Entry, NEW g \in Entry, f # g, Committed(f)', g \in begun', ~Beside(f, g)'
      PROVE  place'[f] <= created'[g] \/ (g \in ended' /\ (Committed(g)' => place'[g] < place'[f]))
  <2>1. CASE g = e
    BY <1>1, <2>1 DEF WritersOK
  <2>2. CASE g # e
    BY <1>1, <1>2, <1>3, <1>4, <2>2 DEF ApartInTime
  <2> QED
    BY <2>1, <2>2
<1>5. ASSUME NEW g \in linked', NEW f \in Entry, g # f, Committed(f)',
             Open(g)' \/ (Committed(g)' /\ place'[f] < place'[g])
      PROVE  Beside(f, g)' \/ (prev'[g] # NoEntry /\ created'[f] <= created'[prev'[g]])
  <2>1. f # e /\ (prev[g] # NoEntry => prev[g] # e /\ prev[g] \in Entry) /\ g \in Entry
    BY <1>1, <1>3, <1>5 DEF LinksOK, Committed, TypeOK
  <2>2. CASE g = e
    <3>1. Open(e) \/ e \notin started
      BY <1>1 DEF Open
    <3>2. Open(e)
      BY <1>1, <1>5, <2>2, <3>1 DEF TypeOK
    <3> QED
      BY <1>1, <1>2, <1>3, <1>5, <2>1, <2>2, <3>2 DEF LooksAreCurrent
  <2>3. CASE g # e
    BY <1>1, <1>2, <1>3, <1>5, <2>1, <2>3 DEF LooksAreCurrent
  <2> QED
    BY <2>2, <2>3
<1>6. ApartInTime'
  BY <1>4 DEF ApartInTime, Committed, Beside
<1>7. LooksAreCurrent'
  BY <1>5 DEF LooksAreCurrent, Committed, Beside, Open
<1> QED
  BY <1>2, <1>6, <1>7

LEMMA LinkKeepsOverlaps ==
  ASSUME TypeOK, WritersOK, LinksOK, OverlapsOK, NEW e \in Entry, Link(e) PROVE OverlapsOK'
<1> USE EntryAssumption DEF OverlapsOK
<1>1. /\ e \notin linked /\ e \notin ended /\ place[e] = 0
      /\ UNCHANGED <<clock, begun, ended, created, place>>
      /\ linked' = linked \cup {e}
      /\ \A f \in Entry : f # e => prev'[f] = prev[f]
      /\ Start(e)
  BY DEF Link, TypeOK, WritersOK, Committed
<1>2. /\ \A f, g \in Entry : Beside(f, g) => Beside(f, g)'
      /\ \A f \in Entry : f # e => (Open(f)' <=> Open(f))
      /\ OpenAreBeside'
  BY <1>1, StartIsRecorded
<1>3. \A f \in Entry : Committed(f)' <=> Committed(f)
  BY <1>1 DEF Committed
<1>4. ASSUME NEW f \in Entry, Committed(f)
      PROVE  prev'[e] # NoEntry /\ created[f] <= created[prev'[e]]
  <2>1. PICK p \in MostRecent(e) : prev' = [prev EXCEPT ![e] = p]
    BY <1>4 DEF Link
  <2>2. p \in Entry /\ created[f] <= created[p] /\ prev'[e] = p
    BY <1>4, <2>1 DEF MostRecent, TypeOK
  <2> QED
    BY <2>2
<1>5. ApartInTime'
  <2> SUFFICES ASSUME NEW f \in Entry, NEW g \in Entry,
                      f # g, Committed(f)', g \in begun', ~Beside(f, g)'
               PROVE  \/ place'[f] <= created'[g]
                      \/ g \in ended' /\ (Committed(g)' => place'[g] < place'[f])
    BY DEF ApartInTime, Committed, Beside
  <2> QED
    BY <1>1, <1>2, <1>3 DEF ApartInTime
<1>6. LooksAreCurrent'
  <2> SUFFICES ASSUME NEW g \in linked', NEW f \in Entry, g # f, Committed(f)',
                      Open(g)' \/ (Committed(g)' /\ place'[f] < place'[g])
               PROVE  Beside(f, g)' \/ (prev'[g] # NoEntry /\ created'[f] <= created'[prev'[g]])
    BY DEF LooksAreCurrent, Committed, Beside, Open
  <2>1. CASE g = e
    BY <1>1, <1>3, <1>4, <2>1
  <2>2. CASE g # e
    BY <1>1, <1>2, <1>3, <2>2 DEF LooksAreCurrent, TypeOK
  <2> QED
    BY <2>1, <2>2
<1> QED
  BY <1>2, <1>5, <1>6

LEMMA CommitKeepsOverlaps ==
  ASSUME TypeOK, WritersOK, LinksOK, OverlapsOK, NEW e \in Entry, Commit(e) PROVE OverlapsOK'
<1> USE EntryAssumption DEF OverlapsOK
<1>1. /\ e \in begun /\ e \in linked /\ e \notin ended /\ Open(e) /\ place[e] = 0
      /\ UNCHANGED <<started, begun, linked, created, prev, beside>>
      /\ ended' = ended \cup {e} /\ place'[e] = clock + 1
      /\ \A f \in Entry : f # e => place'[f] = place[f]
      /\ \A f \in Entry : place[f] <= clock
  BY DEF Commit, TypeOK, WritersOK, Committed, Open
<1>2. /\ \A f \in Entry : f # e => (Committed(f)' <=> Committed(f)) /\ (Open(f)' <=> Open(f))
      /\ ~Open(e)' /\ Committed(e)'
      /\ \A f, g \in Entry : Beside(f, g)' <=> Beside(f, g)
      /\ \A f \in Entry : Beside(e, f) <=> Beside(f, e)
  BY <1>1 DEF Committed, Open, Beside, TypeOK
<1>3. OpenAreBeside'
  BY <1>2 DEF OpenAreBeside, Open, Beside
<1>4. ApartInTime'
  <2> SUFFICES ASSUME NEW f \in Entry, NEW g \in Entry,
                      f # g, Committed(f)', g \in begun', ~Beside(f, g)'
               PROVE  \/ place'[f] <= created'[g]
                      \/ g \in ended' /\ (Committed(g)' => place'[g] < place'[f])
    BY DEF ApartInTime, Committed, Beside
  <2>1. CASE f = e
    <3>1. g \in started /\ ~Open(g)
      BY <1>1, <1>2, <2>1 DEF OpenAreBeside, TypeOK
    <3>2. g \in ended' /\ place'[g] <= clock
      BY <1>1, <2>1, <3>1 DEF Open
    <3> QED
      BY <1>1, <2>1, <3>2 DEF TypeOK
  <2>2. CASE g = e
    <3>1. place[f] <= created[e]
      BY <1>1, <1>2, <2>2 DEF ApartInTime
    <3> QED
      BY <1>1, <2>2, <3>1
  <2>3. CASE f # e /\ g # e
    BY <1>1, <1>2, <2>3 DEF ApartInTime
  <2> QED
    BY <2>1, <2>2, <2>3
<1>5. LooksAreCurrent'
  <2> SUFFICES ASSUME NEW g \in linked', NEW f \in Entry, g # f, Committed(f)',
                      Open(g)' \/ (Committed(g)' /\ place'[f] < place'[g])
               PROVE  Beside(f, g)' \/ (prev'[g] # NoEntry /\ created'[f] <= created'[prev'[g]])
    BY DEF LooksAreCurrent, Committed, Beside, Open
  <2>0. g \in Entry
    BY <1>1 DEF TypeOK
  <2>1. CASE g = e
    BY <1>1, <1>2, <2>1 DEF LooksAreCurrent
  <2>2. CASE f = e
    <3>1. Open(g)
      BY <1>1, <1>2, <2>0, <2>2 DEF TypeOK
    <3> QED
      BY <1>1, <1>2, <2>0, <2>2, <3>1 DEF OpenAreBeside
  <2>3. CASE f # e /\ g # e
    BY <1>1, <1>2, <2>0, <2>3 DEF LooksAreCurrent
  <2> QED
    BY <2>1, <2>2, <2>3
<1> QED
  BY <1>3, <1>4, <1>5

LEMMA OverlapsStayOK ==
  TypeOK /\ WritersOK /\ LinksOK /\ OverlapsOK /\ [Next]_vars => OverlapsOK'
<1> SUFFICES ASSUME TypeOK, WritersOK, LinksOK, OverlapsOK, [Next]_vars PROVE OverlapsOK'
  OBVIOUS
<1> USE DEF OverlapsOK, OpenAreBeside, ApartInTime, LooksAreCurrent, Committed, Open, Beside
<1>1. CASE Tick
  BY <1>1 DEF Tick
<1>2. ASSUME NEW e \in Entry, GiveUp(e) PROVE OverlapsOK'
  BY <1>2 DEF GiveUp
<1>3. CASE UNCHANGED vars
  BY <1>3 DEF vars
<1> QED
  BY <1>1, <1>2, <1>3, BeginKeepsOverlaps, LinkKeepsOverlaps, CommitKeepsOverlaps DEF Next

LEMMA ForksNeedOverlaps ==
  ASSUME TypeOK, WritersOK, LinksOK, OverlapsOK PROVE ForksAreOverlaps
<1> SUFFICES ASSUME NEW e \in Entry, Committed(e), NEW q \in Skipped(e), ~Beside(q, e)
             PROVE  prev[e] # NoEntry /\ Beside(q, prev[e])
  BY DEF ForksAreOverlaps
<1>1. q \in Entry /\ Committed(q) /\ place[q] < place[e] /\ q # e /\ e \in linked
  BY DEF Skipped, WritersOK, TypeOK
<1>2. prev[e] # NoEntry /\ created[q] <= created[prev[e]]
  BY <1>1 DEF OverlapsOK, LooksAreCurrent
<1>3. prev[e] \in Entry /\ Committed(prev[e]) /\ place[prev[e]] < place[q] /\ q \in begun
  BY <1>1, <1>2, EntryAssumption DEF Skipped, LinksOK, WritersOK, TypeOK
<1>4. created[prev[e]] < place[prev[e]] /\ prev[e] # q
  BY <1>3 DEF WritersOK, TypeOK
<1>5. ASSUME ~Beside(q, prev[e]) PROVE FALSE
  <2>1. place[prev[e]] <= created[q] \/ place[q] < place[prev[e]]
    BY <1>1, <1>3, <1>4, <1>5 DEF OverlapsOK, ApartInTime, Beside
  <2> QED
    BY <1>1, <1>2, <1>3, <1>4, <2>1 DEF TypeOK
<1> QED
  BY <1>2, <1>5

\* A link skips entries only where writers overlapped; where none did, the
\* ledger is one chain in the order of commits.
THEOREM ChainForksAtOverlaps == Spec => [](OverlapsOK /\ ForksAreOverlaps)
<1>1. Init => OverlapsOK
  BY EntryAssumption DEF Init, OverlapsOK, OpenAreBeside, ApartInTime, LooksAreCurrent,
     Committed, Open
<1> QED
  BY <1>1, OverlapsStayOK, ForksNeedOverlaps, LedgerTypes, WritersAreOrderly, PTL DEF Spec

-----------------------------------------------------------------------------
(* Finite sets in an order.  The library's induction over finite sets      *)
(* takes a predicate as its parameter; the least number of a set of        *)
(* numbers, which needs none, does instead.                                *)

LEMMA LeastNumber ==
  ASSUME NEW T \in SUBSET Nat, T # {}
  PROVE  \E n \in T : \A m \in T : n <= m
<1> DEFINE R == OpToRel(<, Nat)
<1>1. IsWellFoundedOn(R, Nat)
  BY NatLessThanWellFounded
<1>2. \E n \in T : \A m \in T : ~(<<m, n>> \in R)
  <2> HIDE DEF R
  <2> QED
    BY <1>1, WFMin
<1>3. \A m, n \in Nat : <<m, n>> \in R <=> m < n
  BY DEF OpToRel
<1> HIDE DEF R
<1>4. PICK n \in T : \A m \in T : ~(<<m, n>> \in R)
  BY <1>2
<1>5. ASSUME NEW m \in T PROVE n <= m
  <2>1. m \in Nat /\ n \in Nat /\ ~(<<m, n>> \in R)
    BY <1>4
  <2>2. ~(m < n)
    BY <1>3, <2>1
  <2> QED
    BY <2>1, <2>2
<1> QED
  BY <1>5

\* O, a set of pairs, orders S strictly and totally.
Orders(O, S) ==
  /\ \A x \in S : <<x, x>> \notin O
  /\ \A x, y \in S : x # y => <<x, y>> \in O \/ <<y, x>> \in O
  /\ \A x, y, z \in S : <<x, y>> \in O /\ <<y, z>> \in O => <<x, z>> \in O

Before(e, O, S) == {f \in S : <<f, e>> \in O}

LEMMA BeforeIsFinite ==
  ASSUME NEW S, IsFiniteSet(S), NEW O, NEW e
  PROVE  IsFiniteSet(Before(e, O, S)) /\ Cardinality(Before(e, O, S)) \in Nat
<1>1. Before(e, O, S) \in SUBSET S
  BY DEF Before
<1> QED
  BY <1>1, FS_Subset, FS_CardinalityType

\* What comes later has more before it.
LEMMA BeforeGrows ==
  ASSUME NEW S, IsFiniteSet(S), NEW O, Orders(O, S),
         NEW e \in S, NEW f \in S, <<e, f>> \in O
  PROVE  Cardinality(Before(e, O, S)) < Cardinality(Before(f, O, S))
<1> DEFINE E == Before(e, O, S)
<1> DEFINE F == Before(f, O, S)
<1>1. E \in SUBSET F /\ e \in F /\ e \notin E
  BY DEF Before, Orders
<1>2. IsFiniteSet(F) /\ Cardinality(E) \in Nat /\ Cardinality(F) \in Nat
  BY BeforeIsFinite
<1> HIDE DEF E, F
<1>3. Cardinality(E) <= Cardinality(F) /\ (Cardinality(F) = Cardinality(E) => F = E)
  BY <1>1, <1>2, FS_Subset
<1>4. Cardinality(E) < Cardinality(F)
  BY <1>1, <1>2, <1>3
<1> QED
  BY <1>4 DEF E, F

LEMMA FirstExists ==
  ASSUME NEW S, IsFiniteSet(S), S # {}, NEW O, Orders(O, S)
  PROVE  \E e \in S : \A f \in S : e = f \/ <<e, f>> \in O
<1> DEFINE T == {Cardinality(Before(x, O, S)) : x \in S}
<1>1. T \in SUBSET Nat /\ T # {}
  BY BeforeIsFinite
<1>2. \E n \in T : \A m \in T : n <= m
  <2> HIDE DEF T
  <2> QED
    BY <1>1, LeastNumber
<1>3. PICK e \in S : \A x \in S : Cardinality(Before(e, O, S)) <= Cardinality(Before(x, O, S))
  BY <1>2
<1>4. ASSUME NEW f \in S, <<f, e>> \in O PROVE FALSE
  <2>1. Cardinality(Before(f, O, S)) < Cardinality(Before(e, O, S))
    BY <1>4, BeforeGrows
  <2>2. Cardinality(Before(f, O, S)) \in Nat /\ Cardinality(Before(e, O, S)) \in Nat
    BY BeforeIsFinite
  <2> QED
    BY <1>3, <2>1, <2>2
<1> QED
  BY <1>4 DEF Orders

LEMMA LastExists ==
  ASSUME NEW S, IsFiniteSet(S), S # {}, NEW O, Orders(O, S)
  PROVE  \E e \in S : \A f \in S : e = f \/ <<f, e>> \in O
<1> DEFINE C == {p \in S \X S : <<p[2], p[1]>> \in O}
<1>1. \A x, y \in S : <<x, y>> \in C <=> <<y, x>> \in O
  OBVIOUS
<1> HIDE DEF C
<1>2. Orders(C, S)
  BY <1>1 DEF Orders
<1>3. \E e \in S : \A f \in S : e = f \/ <<e, f>> \in C
  BY <1>2, FirstExists
<1> QED
  BY <1>1, <1>3

\* ORDER BY ... LIMIT n
FirstOf(n, O, S) == {e \in S : Cardinality(Before(e, O, S)) < n}

\* A limit that cuts something off is reached.
LEMMA FirstOfIsFull ==
  ASSUME NEW S, IsFiniteSet(S), NEW O, Orders(O, S), NEW n \in Nat, FirstOf(n, O, S) # S
  PROVE  Cardinality(FirstOf(n, O, S)) >= n
<1> DEFINE N == FirstOf(n, O, S)
<1> DEFINE R == S \ N
<1>1. N \in SUBSET S /\ R \in SUBSET S /\ R # {}
  BY DEF FirstOf
<1>2. IsFiniteSet(N) /\ IsFiniteSet(R) /\ Cardinality(N) \in Nat
  BY <1>1, FS_Subset, FS_CardinalityType
<1>3. Orders(O, R)
  BY <1>1 DEF Orders
<1>4. PICK e \in R : \A f \in R : e = f \/ <<e, f>> \in O
  <2> HIDE DEF R
  <2> QED
    BY <1>1, <1>2, <1>3, FirstExists
<1>5. Before(e, O, S) \in SUBSET N
  BY <1>4 DEF Before, Orders
<1>6. ~(Cardinality(Before(e, O, S)) < n)
  BY DEF FirstOf
<1>7. Cardinality(Before(e, O, S)) <= Cardinality(N)
  <2> HIDE DEF N
  <2> QED
    BY <1>2, <1>5, FS_Subset
<1>8. Cardinality(Before(e, O, S)) \in Nat
  BY BeforeIsFinite
<1> QED
  BY <1>2, <1>6, <1>7, <1>8

\* Fetching one more than a page tells whether the page is the last.
LEMMA OneMoreTellsTheEnd ==
  ASSUME NEW S, IsFiniteSet(S), NEW O, Orders(O, S), NEW n \in Nat,
         ~(Cardinality(FirstOf(n + 1, O, S)) > n)
  PROVE  FirstOf(n, O, S) = S
<1>1. FirstOf(n + 1, O, S) = S /\ Cardinality(S) \in Nat
  <2>1. FirstOf(n + 1, O, S) \in SUBSET S /\ Cardinality(S) \in Nat
    BY FS_CardinalityType DEF FirstOf
  <2>2. Cardinality(FirstOf(n + 1, O, S)) \in Nat
    BY <2>1, FS_Subset, FS_CardinalityType
  <2>3. n + 1 \in Nat /\ ~(Cardinality(FirstOf(n + 1, O, S)) >= n + 1)
    BY <2>2
  <2> QED
    BY <2>1, <2>3, FirstOfIsFull
<1>2. ASSUME NEW e \in S PROVE Cardinality(Before(e, O, S)) < n
  <2> DEFINE B == Before(e, O, S)
  <2>1. B \in SUBSET S /\ e \notin B
    BY DEF Before, Orders
  <2>2. Cardinality(B) \in Nat
    BY BeforeIsFinite
  <2> HIDE DEF B
  <2>3. Cardinality(B) <= Cardinality(S) /\ (Cardinality(S) = Cardinality(B) => S = B)
    BY <2>1, FS_Subset
  <2>4. Cardinality(B) < n
    BY <1>1, <2>1, <2>2, <2>3
  <2> QED
    BY <2>4 DEF B
<1> QED
  BY <1>2 DEF FirstOf

LEMMA FirstOfHasOne ==
  ASSUME NEW S, IsFiniteSet(S), S # {}, NEW O, Orders(O, S), NEW n \in Nat \ {0}
  PROVE  FirstOf(n, O, S) # {}
<1>1. PICK e \in S : \A f \in S : e = f \/ <<e, f>> \in O
  BY FirstExists
<1>2. Before(e, O, S) = {}
  BY <1>1 DEF Before, Orders
<1> QED
  BY <1>2, FS_EmptySet DEF FirstOf

LEMMA RestFollowsLast ==
  ASSUME NEW S, IsFiniteSet(S), NEW O, Orders(O, S), NEW n \in Nat,
         NEW last \in FirstOf(n, O, S), NEW e \in S \ FirstOf(n, O, S)
  PROVE  <<last, e>> \in O
<1>1. last \in S /\ last # e
  BY DEF FirstOf
<1>2. ASSUME <<e, last>> \in O PROVE FALSE
  <2>1. Cardinality(Before(e, O, S)) < Cardinality(Before(last, O, S))
    BY <1>1, <1>2, BeforeGrows
  <2>2. Cardinality(Before(e, O, S)) \in Nat /\ Cardinality(Before(last, O, S)) \in Nat
    BY BeforeIsFinite
  <2> QED
    BY <2>1, <2>2 DEF FirstOf
<1> QED
  BY <1>1, <1>2 DEF Orders

\* An enumeration without repetition of a finite set has all of it.
LEMMA EnumerationIsComplete ==
  ASSUME NEW S, IsFiniteSet(S), NEW s \in SetToSeqs(S)
  PROVE  \A e \in S : \E i \in 1..Cardinality(S) : s[i] = e
<1> DEFINE D == 1..Cardinality(S)
<1>1. Cardinality(S) \in Nat
  BY FS_CardinalityType
<1>2. IsFiniteSet(D) /\ Cardinality(D) = Cardinality(S)
  BY <1>1, FS_Interval
<1>3. s \in Injection(D, S)
  BY DEF SetToSeqs, Injection, IsInjective
<1> HIDE DEF D
<1>4. s \in Surjection(D, S)
  BY <1>2, <1>3, FS_Injection
<1> QED
  BY <1>4 DEF Surjection, D

LEMMA IdsAreDistinct ==
  /\ \A e \in Entry : Id(e) \in 1..Cardinality(Entry)
  /\ \A e, f \in Entry : Id(e) = Id(f) => e = f
<1> DEFINE q == SetToSeq(Entry)
<1> DEFINE D == 1..Cardinality(Entry)
<1>1. \E g \in [D -> Entry] : IsInjective(g)
  <2>1. ExistsBijection(D, Entry)
    BY ReaderAssumption, FS_CardinalityType
  <2> QED
    BY <2>1 DEF ExistsBijection, Bijection, Injection
<1>2. q \in [D -> Entry] /\ IsInjective(q)
  BY <1>1 DEF SetToSeq
<1>3. q \in SetToSeqs(Entry)
  BY <1>2 DEF SetToSeqs, IsInjective
<1>4. \A x \in Entry : \E i \in D : q[i] = x
  <2> HIDE DEF q
  <2> QED
    BY <1>3, ReaderAssumption, EnumerationIsComplete
<1> HIDE DEF q
<1>5. \A x \in Entry : Id(x) \in D /\ q[Id(x)] = x
  BY <1>4 DEF Id, q
<1> QED
  BY <1>5
-----------------------------------------------------------------------------
(* The reader: its steps *)

\* Age relates an entry to those that come after it in a page.
Age == {p \in Entry \X Entry : Newer(p[1], p[2])}

LEMMA AgeOrders ==
  ASSUME TypeOK, NEW S, S \in SUBSET Entry
  PROVE  IsFiniteSet(S) /\ Orders(Age, S)
<1>1. IsFiniteSet(S)
  BY ReaderAssumption, FS_Subset
<1>2. \A x \in Entry : Id(x) \in 1..Cardinality(Entry) /\ created[x] \in Nat
  BY IdsAreDistinct DEF TypeOK
<1>3. \A x, y \in Entry : Id(x) = Id(y) => x = y
  BY IdsAreDistinct
<1>4. Cardinality(Entry) \in Nat
  BY ReaderAssumption, FS_CardinalityType
<1>5. \A x, y \in S : <<x, y>> \in Age <=> Newer(x, y)
  BY DEF Age
<1>6. Orders(Age, S)
  BY <1>2, <1>3, <1>4, <1>5 DEF Orders, Newer
<1> QED
  BY <1>1, <1>6

LEMMA NewestAreFirst ==
  ASSUME NEW n \in Nat
  PROVE  Newest(n) = FirstOf(n, Age, Rows)
<1>1. Rows \in SUBSET Entry
  BY DEF Rows
<1>2. ASSUME NEW e \in Rows PROVE Before(e, Age, Rows) = {f \in Rows : Newer(f, e)}
  BY <1>1 DEF Before, Age
<1> HIDE DEF Rows
<1> QED
  BY <1>2 DEF Newest, FirstOf

\* While the reader pages: nothing it is to get lies behind the cursor.
PagingOK ==
  /\ \A e \in present : Selected(e)
  /\ paging = "no" => cursor = NoEntry
  /\ paging = "yes" =>
       /\ cursor \in Entry /\ Committed(cursor)
       /\ cursorApplies => \A e \in present : e \in received \/ Newer(cursor, e)
  /\ paging = "done" => present \subseteq received

\* What writers do leaves the committed entries as they are.
LEMMA CommittedStay ==
  ASSUME TypeOK, WritersOK, [Next]_vars, NEW e \in Entry, Committed(e)
  PROVE  /\ Committed(e)'
         /\ created'[e] = created[e] /\ prev'[e] = prev[e] /\ place'[e] = place[e]
<1> USE EntryAssumption DEF TypeOK, WritersOK, Committed
<1>1. CASE Tick
  BY <1>1 DEF Tick
<1> DEFINE Stays == place'[e] = place[e] /\ created'[e] = created[e] /\ prev'[e] = prev[e]
<1>2. ASSUME NEW f \in Entry, Begin(f) PROVE Stays
  BY <1>2 DEF Begin, Now
<1>3. ASSUME NEW f \in Entry, Link(f) PROVE Stays
  BY <1>3 DEF Link
<1>4. ASSUME NEW f \in Entry, Commit(f) PROVE Stays
  BY <1>4 DEF Commit
<1>5. ASSUME NEW f \in Entry, GiveUp(f) PROVE Stays
  BY <1>5 DEF GiveUp
<1>6. CASE UNCHANGED vars
  BY <1>6 DEF vars
<1> QED
  BY <1>1, <1>2, <1>3, <1>4, <1>5, <1>6 DEF Next

\* The reader changes nothing of the ledger: all that is proved of the
\* writers holds beside it.
THEOREM ReadingIsNoWriting == ReaderSpec => Spec
<1>1. ReaderInit => Init
  BY DEF ReaderInit
<1>2. [ReaderNext]_<<vars, readerVars>> => [Next]_vars
  BY DEF ReaderNext, Write, QueryLedger, Export
<1> QED
  BY <1>1, <1>2, PTL DEF ReaderSpec, Spec

\* The reader's own variables; export is a sequence of committed entries.
ReaderOK ==
  /\ cursorApplies \in BOOLEAN
  /\ filter \in [content : Selection, since : Since]
  /\ cursor \in Entry \cup {NoEntry}
  /\ paging \in {"no", "yes", "done", "exported"}
  /\ present \subseteq Entry /\ received \subseteq Entry
  /\ \E n \in 0..Cardinality(Entry) : export \in [1..n -> Entry]
  /\ paging # "exported" => export = <<>>
  /\ \A i \in DOMAIN export : Committed(export[i])

LEMMA ThePageEnds ==
  ASSUME TypeOK, NEW page, page = Newest(Limit)
  PROVE  /\ page \subseteq Rows
         /\ ~HasNext(Newest(Limit + 1)) => page = Rows
         /\ HasNext(Newest(Limit + 1)) =>
              /\ LastRow(page) \in page
              /\ \A e \in Rows : e \in page \/ Newer(LastRow(page), e)
<1>1. Limit \in Nat \ {0} /\ Limit \in Nat /\ Limit + 1 \in Nat
  BY ReaderAssumption
<1>2. Rows \in SUBSET Entry
  BY DEF Rows
<1>3. IsFiniteSet(Rows) /\ Orders(Age, Rows)
  BY <1>2, AgeOrders
<1>4. page = FirstOf(Limit, Age, Rows) /\ Newest(Limit + 1) = FirstOf(Limit + 1, Age, Rows)
  BY <1>1, NewestAreFirst
<1>5. page \subseteq Rows
  BY <1>4 DEF FirstOf
<1>6. ASSUME ~HasNext(Newest(Limit + 1)) PROVE page = Rows
  BY <1>1, <1>3, <1>4, <1>6, OneMoreTellsTheEnd DEF HasNext
<1>7. ASSUME HasNext(Newest(Limit + 1))
      PROVE  /\ LastRow(page) \in page
             /\ \A e \in Rows : e \in page \/ Newer(LastRow(page), e)
  <2>1. Rows # {}
    <3>1. ASSUME Rows = {} PROVE FALSE
      <4>1. Newest(Limit + 1) = {}
        BY <1>4, <3>1 DEF FirstOf
      <4> QED
        BY <4>1, <1>1, <1>7, FS_EmptySet DEF HasNext
    <3> QED
      BY <3>1
  <2>2. page # {}
    BY <1>1, <1>3, <1>4, <2>1, FirstOfHasOne
  <2>3. IsFiniteSet(page) /\ Orders(Age, page)
    BY <1>2, <1>5, AgeOrders
  <2>4. \E e \in page : \A f \in page : e = f \/ <<f, e>> \in Age
    BY <2>2, <2>3, LastExists
  <2>5. \E e \in page : \A f \in page : e = f \/ Newer(f, e)
    BY <2>4 DEF Age
  <2>6. LastRow(page) \in page
    BY <2>5 DEF LastRow
  <2>7. ASSUME NEW e \in Rows, e \notin page PROVE Newer(LastRow(page), e)
    <3>1. <<LastRow(page), e>> \in Age
      BY <1>1, <1>3, <1>4, <2>6, <2>7, RestFollowsLast
    <3> QED
      BY <3>1 DEF Age
  <2> QED
    BY <2>6, <2>7
<1> QED
  BY <1>5, <1>6, <1>7

LEMMA PagingStaysOK ==
  TypeOK /\ WritersOK /\ ReaderOK /\ PagingOK /\ [ReaderNext]_<<vars, readerVars>> => PagingOK'
<1> SUFFICES ASSUME TypeOK, WritersOK, ReaderOK, PagingOK, [ReaderNext]_<<vars, readerVars>>
             PROVE  PagingOK'
  OBVIOUS
<1>1. ASSUME [Next]_vars, UNCHANGED readerVars PROVE PagingOK'
  <2>1. \A e \in Entry : Committed(e) => Committed(e)' /\ created'[e] = created[e]
    BY <1>1, CommittedStay
  <2>2. \A e \in present : Selected(e)'
    BY <1>1, <2>1 DEF PagingOK, ReaderOK, Selected, readerVars
  <2>3. \A e \in present : cursor \in Entry /\ Committed(cursor) /\ Newer(cursor, e)
                             => Newer(cursor, e)'
    BY <2>1, <1>1 DEF PagingOK, ReaderOK, Selected, Newer, readerVars
  <2> QED
    BY <1>1, <2>1, <2>2, <2>3 DEF PagingOK, readerVars
<1>2. CASE QueryLedger
  <2> DEFINE page == Newest(Limit)
  <2> DEFINE more == HasNext(Newest(Limit + 1))
  <2>1. /\ paging \in {"no", "yes"}
        /\ present' = IF paging = "no" THEN {e \in Entry : Selected(e)} ELSE present
        /\ received' = received \cup page
        /\ cursor' = IF more THEN LastRow(page) ELSE NoEntry
        /\ paging' = IF more THEN "yes" ELSE "done"
        /\ UNCHANGED <<vars, cursorApplies, filter, export>>
    BY <1>2 DEF QueryLedger
  <2>2. /\ page \subseteq Rows
        /\ ~more => page = Rows
        /\ more => /\ LastRow(page) \in page
                   /\ \A e \in Rows : e \in page \/ Newer(LastRow(page), e)
    BY ThePageEnds
  <2> HIDE DEF page, more
  <2>3. \A e \in present' : Selected(e) /\ e \in Entry
    BY <2>1 DEF PagingOK, ReaderOK
  <2>4. \A e \in present' : e \in received \/ e \in Rows \/ (paging = "yes" /\ ~cursorApplies)
    BY <2>1, <2>3 DEF PagingOK, Rows, BeforeCursor
  <2>5. \A e \in present' : ~cursorApplies => e \in Rows
    BY <2>3 DEF Rows
  <2>6. \A e : e \in Rows => e \in Entry /\ Committed(e)
    BY DEF Rows, Selected
  <2>7. CASE more
    <3>1. LastRow(page) \in Entry /\ Committed(LastRow(page))
      BY <2>2, <2>6, <2>7
    <3>2. \A e \in present' : e \in received' \/ Newer(LastRow(page), e)
      BY <2>1, <2>2, <2>4, <2>5, <2>7
    <3> QED
      BY <2>1, <2>3, <2>7, <3>1, <3>2 DEF PagingOK, Selected, Committed, Newer, vars
  <2>8. CASE ~more
    <3>1. present' \subseteq received'
      BY <2>1, <2>2, <2>4, <2>5, <2>8
    <3> QED
      BY <2>1, <2>3, <2>8, <3>1 DEF PagingOK, Selected, Committed, vars
  <2> QED
    BY <2>7, <2>8
<1>3. CASE Export
  BY <1>3 DEF Export, PagingOK, Selected, Committed, Newer, vars
<1> QED
  BY <1>1, <1>2, <1>3 DEF ReaderNext, Write, vars

LEMMA ReaderStaysOK ==
  TypeOK /\ WritersOK /\ ReaderOK /\ [ReaderNext]_<<vars, readerVars>> => ReaderOK'
<1> SUFFICES ASSUME TypeOK, WritersOK, ReaderOK, [ReaderNext]_<<vars, readerVars>>
             PROVE  ReaderOK'
  OBVIOUS
<1> USE EntryAssumption
<1>1. ASSUME [Next]_vars, UNCHANGED readerVars PROVE ReaderOK'
  <2>1. \A i \in DOMAIN export : export[i] \in Entry
    BY DEF ReaderOK
  <2>2. \A e \in Entry : Committed(e) => Committed(e)'
    BY <1>1, CommittedStay
  <2> QED
    BY <1>1, <2>1, <2>2 DEF ReaderOK, readerVars
<1>2. CASE QueryLedger
  <2> DEFINE page == Newest(Limit)
  <2> DEFINE more == HasNext(Newest(Limit + 1))
  <2>1. page \subseteq Entry /\ (more => LastRow(page) \in Entry)
    BY ThePageEnds DEF Rows
  <2>2. /\ present' \subseteq Entry /\ received' = received \cup page
        /\ cursor' = IF more THEN LastRow(page) ELSE NoEntry
        /\ paging' \in {"yes", "done"}
        /\ paging # "exported"
        /\ UNCHANGED <<vars, cursorApplies, filter, export>>
    BY <1>2 DEF QueryLedger, ReaderOK
  <2> HIDE DEF page, more
  <2> QED
    BY <2>1, <2>2 DEF ReaderOK, Committed, vars
<1>3. CASE Export
  <2>1. PICK s \in SetToSeqs({e \in Entry : Selected(e)}) :
          export' = s /\ paging' = "exported" /\ UNCHANGED <<vars, cursorApplies, filter, cursor, present, received>>
    BY <1>3 DEF Export
  <2> DEFINE S == {e \in Entry : Selected(e)}
  <2>2. Cardinality(S) \in 0..Cardinality(Entry)
    BY ReaderAssumption, FS_Subset, FS_CardinalityType
  <2>3. s \in [1..Cardinality(S) -> S]
    BY DEF SetToSeqs
  <2>4. \A e \in S : e \in Entry /\ Committed(e)
    BY DEF Selected
  <2> HIDE DEF S
  <2>5. s \in [1..Cardinality(S) -> Entry] /\ \A i \in DOMAIN s : Committed(s[i])
    BY <2>3, <2>4
  <2> QED
    BY <2>1, <2>2, <2>5 DEF ReaderOK, Committed, vars
<1> QED
  BY <1>1, <1>2, <1>3 DEF ReaderNext, Write, vars

\* The reader's variables keep their types; an export is no longer than the ledger.
THEOREM ReaderStaysInType == ReaderSpec => []ReaderTypeOK
<1>1. ReaderInit => ReaderOK
  <2>1. Cardinality(Entry) \in Nat
    BY ReaderAssumption, FS_CardinalityType
  <2> QED
    BY <2>1, ReaderAssumption DEF ReaderInit, ReaderOK
<1>2. TypeOK /\ ReaderOK => ReaderTypeOK
  BY DEF ReaderOK, ReaderTypeOK, BoundedSeq, SeqOf
<1> QED
  BY <1>1, <1>2, ReaderStaysOK, ReadingIsNoWriting, LedgerTypes, WritersAreOrderly, PTL
     DEF ReaderSpec

\* Whatever is committed between two pages, and whether the cursor applies
\* or not, who reads to the last page has what there was at the first.
THEOREM PagesMissNothing == ReaderSpec => [](PagingOK /\ LastPageIsComplete)
<1>1. ReaderInit => PagingOK /\ ReaderOK
  <2>1. Cardinality(Entry) \in Nat
    BY ReaderAssumption, FS_CardinalityType
  <2> QED
    BY <2>1, ReaderAssumption DEF ReaderInit, ReaderOK, PagingOK
<1>2. PagingOK => LastPageIsComplete
  BY DEF PagingOK, LastPageIsComplete
<1> QED
  BY <1>1, <1>2, PagingStaysOK, ReaderStaysOK, ReadingIsNoWriting, LedgerTypes,
     WritersAreOrderly, PTL DEF ReaderSpec

\* Who was alone began after the commits of all others, or committed before
\* they began.
LEMMA AloneIsApart ==
  ASSUME TypeOK, WritersOK, OverlapsOK, NEW e \in Entry, Committed(e), Alone(e),
         NEW f \in Entry, Committed(f), f # e
  PROVE  place[f] <= created[e] \/ place[e] <= created[f]
<1>1. e \in begun /\ f \in begun /\ ~Beside(e, f) /\ ~Beside(f, e)
  BY DEF WritersOK, Alone, Beside
<1>2. place[e] <= created[f] \/ place[f] < place[e]
  BY <1>1 DEF OverlapsOK, ApartInTime
<1>3. place[f] <= created[e] \/ place[e] < place[f]
  BY <1>1 DEF OverlapsOK, ApartInTime
<1>4. place[e] \in Nat /\ place[f] \in Nat
  BY DEF TypeOK
<1> QED
  BY <1>2, <1>3, <1>4

\* What the export promises of a list of entries, for the i-th.
LinkedAt(s, i) ==
  IF i = Len(s) THEN Alone(s[i]) => prev[s[i]] = NoEntry
  ELSE Alone(s[i]) /\ Alone(s[i + 1]) => prev[s[i]] = s[i + 1]

\* Around entries that were alone, created_at orders as the commits do; a list
\* of all entries by created_at there has each one's link as the next.
LEMMA SortedIsLinked ==
  ASSUME TypeOK, WritersOK, LinksOK, OverlapsOK,
         NEW S, S = {e \in Entry : Committed(e)},
         NEW s \in SetToSeqs(S), Descending(s), NEW i \in DOMAIN s
  PROVE  LinkedAt(s, i)
<1> DEFINE n == Cardinality(S)
<1>1. IsFiniteSet(S) /\ n \in Nat
  BY ReaderAssumption, FS_Subset, FS_CardinalityType
<1>2. s \in [1..n -> S] /\ \A j, k \in 1..n : j # k => s[j] # s[k]
  BY ZenonT(30) DEF SetToSeqs
<1>3. \A e \in S : \E j \in 1..n : s[j] = e
  BY <1>1, EnumerationIsComplete, ZenonT(30)
<1> HIDE DEF n
<1>4. Len(s) = n /\ DOMAIN s = 1..n /\ i \in 1..n
  BY <1>1, <1>2
<1>5. \A j \in 1..n : s[j] \in Entry /\ Committed(s[j])
  BY <1>2
<1>6. \A j, k \in 1..n : j < k => created[s[j]] >= created[s[k]]
  BY <1>4 DEF Descending
<1>7. \A e \in Entry : Committed(e) =>
        created[e] \in Nat /\ place[e] \in Nat /\ created[e] < place[e]
  BY DEF TypeOK, WritersOK
<1>8. ASSUME prev[s[i]] # NoEntry, Alone(s[i])
      PROVE  /\ \E k \in 1..n : k # i /\ s[k] = prev[s[i]]
             /\ prev[s[i]] \in Entry /\ Committed(prev[s[i]])
             /\ place[prev[s[i]]] <= created[s[i]]
  <2>1. /\ prev[s[i]] \in Entry /\ Committed(prev[s[i]]) /\ place[prev[s[i]]] < place[s[i]]
    BY <1>4, <1>5, <1>8 DEF LinksOK, LinksLeadBack, TypeOK, Committed
  <2>2. prev[s[i]] # s[i] /\ prev[s[i]] \in S
    BY <1>4, <1>5, <1>7, <2>1
  <2>3. PICK k \in 1..n : s[k] = prev[s[i]]
    BY <1>3, <2>2
  <2>4. place[prev[s[i]]] <= created[s[i]] \/ place[s[i]] <= created[prev[s[i]]]
    BY <1>4, <1>5, <1>8, <2>1, <2>2, AloneIsApart
  <2>5. place[prev[s[i]]] <= created[s[i]]
    BY <1>4, <1>5, <1>7, <2>1, <2>4
  <2> QED
    BY <2>1, <2>2, <2>3, <2>5
<1>9. CASE i = n
  <2> SUFFICES ASSUME Alone(s[i]), prev[s[i]] # NoEntry PROVE FALSE
    BY <1>4, <1>9 DEF LinkedAt
  <2>1. PICK k \in 1..n : k # i /\ s[k] = prev[s[i]]
    BY <1>8
  <2>2. k < i
    BY <1>1, <1>9, <2>1
  <2>3. created[s[k]] >= created[s[i]]
    BY <1>4, <1>6, <2>2
  <2>4. place[s[k]] <= created[s[i]]
    BY <1>8, <2>1
  <2> QED
    BY <1>4, <1>5, <1>7, <2>3, <2>4
<1>10. CASE i # n
  <2>1. i + 1 \in 1..n /\ i < i + 1 /\ i # Len(s)
    BY <1>1, <1>4, <1>10
  <2> SUFFICES ASSUME Alone(s[i]), Alone(s[i + 1]) PROVE prev[s[i]] = s[i + 1]
    BY <2>1 DEF LinkedAt
  <2> DEFINE e == s[i]
  <2> DEFINE f == s[i + 1]
  <2>2. /\ e \in Entry /\ Committed(e) /\ f \in Entry /\ Committed(f) /\ e # f
        /\ created[e] >= created[f] /\ Alone(e) /\ Alone(f)
    BY <1>2, <1>4, <1>5, <1>6, <2>1
  <2> HIDE DEF e, f
  <2>3. place[f] <= created[e] \/ place[e] <= created[f]
    BY <2>2, AloneIsApart
  <2>4. place[f] <= created[e] /\ place[f] < place[e]
    BY <1>7, <2>2, <2>3
  <2>5. f \notin Skipped(e)
    <3>1. ASSUME f \in Skipped(e) PROVE FALSE
      <4>1. Beside(f, e) \/ (prev[e] # NoEntry /\ Beside(f, prev[e]))
        BY <2>2, <3>1, ForksNeedOverlaps DEF ForksAreOverlaps
      <4>2. prev[e] # NoEntry => prev[e] \in Entry /\ Committed(prev[e])
        BY <2>2 DEF LinksOK, TypeOK
      <4> QED
        BY <2>2, <4>1, <4>2 DEF Alone
    <3> QED
      BY <3>1
  <2>6. prev[e] # NoEntry /\ ~(place[prev[e]] < place[f])
    BY <2>2, <2>4, <2>5 DEF Skipped
  <2>7. PICK k \in 1..n : k # i /\ s[k] = prev[e]
    BY <1>8, <2>2, <2>6 DEF e
  <2>8. prev[e] \in Entry /\ Committed(prev[e]) /\ place[prev[e]] <= created[e]
    BY <1>8, <2>2, <2>6 DEF e
  <2>9. ASSUME prev[e] # f PROVE FALSE
    <3>1. place[prev[e]] <= created[f] \/ place[f] <= created[prev[e]]
      BY <2>2, <2>8, <2>9, AloneIsApart
    <3>2. place[f] <= created[prev[e]]
      BY <1>7, <2>2, <2>6, <2>8, <3>1
    <3>3. created[f] < created[prev[e]] /\ created[prev[e]] < created[e]
      BY <1>7, <2>2, <2>8, <3>2
    <3>4. ~(k < i)
      BY <1>4, <1>6, <1>7, <2>2, <2>7, <2>8, <3>3 DEF e
    <3>5. ~(i + 1 < k)
      BY <1>6, <1>7, <2>1, <2>2, <2>7, <2>8, <3>3 DEF f
    <3>6. k # i + 1
      BY <2>7, <2>9 DEF f
    <3> QED
      BY <1>4, <2>7, <3>4, <3>5, <3>6
  <2> QED
    BY <2>9 DEF e, f
<1> QED
  BY <1>9, <1>10

\* Who is alone was so before.
LEMMA AloneWasAlone ==
  ASSUME TypeOK, WritersOK, [Next]_vars, NEW e \in Entry, Alone(e)' PROVE Alone(e)
<1>1. \A p \in beside : p \in beside'
  BY DEF Next, Tick, Begin, Link, Start, Commit, GiveUp, vars
<1>2. \A f \in Entry : Committed(f) => Committed(f)'
  BY CommittedStay
<1> QED
  BY <1>1, <1>2 DEF Alone, Beside

LEMMA ExportStaysAChain ==
  /\ TypeOK /\ WritersOK /\ LinksOK /\ OverlapsOK /\ ReaderOK /\ ExportIsAChain
  /\ [ReaderNext]_<<vars, readerVars>>
  => ExportIsAChain'
<1> SUFFICES ASSUME TypeOK, WritersOK, LinksOK, OverlapsOK, ReaderOK, ExportIsAChain,
                    [ReaderNext]_<<vars, readerVars>>,
                    filter'.content = Entry, filter'.since = 0,
                    NEW i \in DOMAIN export'
             PROVE  LinkedAt(export, i)'
  BY DEF ExportIsAChain, LinkedAt, Alone, Beside, Committed
<1>1. ASSUME [Next]_vars, UNCHANGED readerVars PROVE LinkedAt(export, i)'
  <2>1. LinkedAt(export, i) /\ export' = export
    BY <1>1 DEF ExportIsAChain, LinkedAt, readerVars
  <2>2. \A j \in DOMAIN export : export[j] \in Entry /\ Committed(export[j])
    BY DEF ReaderOK
  <2>3. i \in DOMAIN export /\ (i # Len(export) => i + 1 \in DOMAIN export)
    <3>1. PICK n \in 0..Cardinality(Entry) : export \in [1..n -> Entry]
      BY DEF ReaderOK
    <3>2. Cardinality(Entry) \in Nat
      BY ReaderAssumption, FS_CardinalityType
    <3>3. n \in Nat /\ DOMAIN export = 1..n /\ Len(export) = n
      BY <3>1, <3>2
    <3> QED
      BY <2>1, <3>3
  <2>4. \A e \in Entry : Committed(e) => prev'[e] = prev[e] /\ (Alone(e)' => Alone(e))
    BY <1>1, CommittedStay, AloneWasAlone
  <2>5. /\ export[i] \in Entry /\ prev'[export[i]] = prev[export[i]]
        /\ Alone(export[i])' => Alone(export[i])
        /\ i # Len(export) => (Alone(export[i + 1])' => Alone(export[i + 1]))
    BY <2>1, <2>2, <2>3, <2>4 DEF Alone, Beside, Committed
  <2> QED
    BY <2>1, <2>5 DEF LinkedAt
<1>2. CASE QueryLedger
  BY <1>2 DEF QueryLedger, ExportIsAChain, LinkedAt, Alone, Beside, Committed, vars
<1>3. CASE Export
  <2> DEFINE S == {e \in Entry : Selected(e)}
  <2>1. PICK s \in SetToSeqs(S) : Descending(s) /\ export' = s
    BY <1>3 DEF Export
  <2>2. UNCHANGED <<vars, filter>>
    BY <1>3 DEF Export
  <2>3. S = {e \in Entry : Committed(e)}
    BY <2>2, ReaderAssumption DEF Selected, TypeOK
  <2> HIDE DEF S
  <2>4. LinkedAt(s, i)
    BY <2>1, <2>3, SortedIsLinked
  <2> QED
    BY <2>1, <2>2, <2>4 DEF LinkedAt, Alone, Beside, Committed, vars
<1>4. CASE UNCHANGED <<vars, readerVars>>
  BY <1>4 DEF ExportIsAChain, LinkedAt, Alone, Beside, Committed, vars, readerVars
<1> QED
  BY <1>1, <1>2, <1>3, <1>4 DEF ReaderNext, Write

\* In an export, entries that were written alone can be checked link by link.
THEOREM ExportShowsTheChain == ReaderSpec => []ExportIsAChain
<1>1. ReaderInit => ReaderOK /\ ExportIsAChain
  <2>1. Cardinality(Entry) \in Nat
    BY ReaderAssumption, FS_CardinalityType
  <2> QED
    BY <2>1, ReaderAssumption DEF ReaderInit, ReaderOK, ExportIsAChain
<1> QED
  BY <1>1, ReaderStaysOK, ExportStaysAChain, ReadingIsNoWriting, LedgerTypes,
     WritersAreOrderly, ChainForksAtOverlaps, PTL DEF ReaderSpec

=============================================================================
