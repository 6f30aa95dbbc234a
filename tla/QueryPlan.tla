------------------------------ MODULE QueryPlan -------------------------------
(***************************************************************************)
(* What operators promise to who builds a query from them: a catalog of    *)
(* named tables, and for each operator a result that is there when the     *)
(* operator has been executed, made from what its input's result, or the   *)
(* catalog, was at that moment, and that stays whatever happens to the     *)
(* catalog afterwards.  Only an operator that is executed twice may have   *)
(* its result replaced, or lost if the catalog holds null pointers.        *)
(***************************************************************************)
EXTENDS Integers, Sequences, Functions

CONSTANTS Name, BaseTable, nullptr

\* A table made from a base table by scans, each named by its operator.
Table == [base : BaseTable, scans : Seq(Nat)]

Unscanned(b) == IF b = nullptr THEN nullptr ELSE [base |-> b, scans |-> <<>>]

Scanned(table, o) == [table EXCEPT !.scans = Append(@, o)]

Pending == <<>>    \* no result yet

VARIABLES
    catalog,    \* name -> base table, or nullptr
    plan,       \* the operators, each with its kind, input and argument
    result      \* operator -> Pending, a table, or nullptr if it was lost

vars == <<catalog, plan, result>>

Init == catalog = [n \in {} |-> nullptr] /\ plan = <<>> /\ result = <<>>

\* A name that is taken keeps its table.
Register(name, b) ==
    /\ name \notin DOMAIN catalog
    /\ catalog' = [n \in DOMAIN catalog \cup {name} |-> IF n = name THEN b ELSE catalog[n]]
    /\ UNCHANGED <<plan, result>>

Unregister(names) ==
    /\ catalog' = Restrict(catalog, DOMAIN catalog \ names)
    /\ UNCHANGED <<plan, result>>

\* An operator is made after its input, so that plans have no cycles.
Add(operator) ==
    /\ operator.input \in 0 .. Len(plan)
    /\ plan' = Append(plan, operator)
    /\ result' = Append(result, Pending)
    /\ UNCHANGED catalog

InputResult(o) == {result[i] : i \in {plan[o].input} \cap DOMAIN plan} \cap Table

\* What executing the operator now makes.
Derived(o) ==
    CASE plan[o].kind = "GetTable" ->
            {Unscanned(catalog[n]) : n \in {plan[o].arg} \cap DOMAIN catalog}
      [] plan[o].kind = "TableWrapper" -> {plan[o].arg}
      [] plan[o].kind = "TableScan"    -> {Scanned(table, o) : table \in InputResult(o)}
      [] plan[o].kind = "Print"        -> InputResult(o)

\* The first result is a table.
Deliver(o) ==
    /\ result[o] = Pending
    /\ \E table \in Derived(o) \ {nullptr} : result' = [result EXCEPT ![o] = table]
    /\ UNCHANGED <<catalog, plan>>

\* The operator is executed twice.
DeliverAgain(o) ==
    /\ result[o] # Pending
    /\ \E table \in Derived(o) : result' = [result EXCEPT ![o] = table]
    /\ UNCHANGED <<catalog, plan>>

Next ==
    \/ \E name \in Name, b \in BaseTable \cup {nullptr} : Register(name, b)
    \/ \E names \in SUBSET Name : Unregister(names)
    \/ \E kind \in {"GetTable", "TableWrapper", "TableScan", "Print"},
          input \in 0 .. Len(plan),
          arg \in Name \cup Range(result) \cup {Unscanned(b) : b \in BaseTable} \cup {nullptr} :
            Add([kind |-> kind, input |-> input, arg |-> arg])
    \/ \E o \in DOMAIN plan : Deliver(o) \/ DeliverAgain(o)

Spec == Init /\ [][Next]_vars
=============================================================================
