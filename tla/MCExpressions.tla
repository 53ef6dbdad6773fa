---------------------------- MODULE MCExpressions ----------------------------
(* Instances of Expressions for TLC. *)
EXTENDS Expressions

Number(n) == [type |-> "number", of |-> n]

String(n) == [type |-> "string", of |-> n]

Literals == [token \in {"1", "'a'"} |-> IF token = "1" THEN Number(1) ELSE String(1)]

\* A value of every type, structured ones among them.
Values ==
  {Number(0), Number(2), String(2), Bool(TRUE), [type |-> "null", of |-> 0],
   [type |-> "list", of |-> <<Number(1)>>],
   [type |-> "dict", of |-> [f \in {"summary", "x"} |-> String(3)]]}

RECURSIVE PythonSame(_, _), PythonLess(_, _)

\* A list and a dict are the functions they are; True is 1.
PythonSame(l, r) ==
  \/ IsNumber(l) /\ IsNumber(r) /\ l.of = r.of
  \/ /\ l.type = r.type
     /\ IF l.type \in {"list", "dict"}
        THEN DOMAIN l.of = DOMAIN r.of /\ \A k \in DOMAIN l.of : PythonSame(l.of[k], r.of[k])
        ELSE l.of = r.of

\* Lists compare by the first element in which they differ.
PythonLess(l, r) ==
  /\ Ordered(l, r)
  /\ IF l.type = "list"
     THEN \E k \in DOMAIN r.of :
            /\ \A j \in 1..(k - 1) : j <= Len(l.of) /\ PythonSame(l.of[j], r.of[j])
            /\ \/ k = Len(l.of) + 1
               \/ k \in DOMAIN l.of /\ PythonLess(l.of[k], r.of[k])
     ELSE l.of < r.of

=============================================================================
