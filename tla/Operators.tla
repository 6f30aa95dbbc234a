------------------------------ MODULE Operators -------------------------------
(***************************************************************************)
(* The StorageManager, a singleton, and the operators a caller makes and   *)
(* executes: GetTable, TableWrapper, TableScan and Print.  An operator     *)
(* holds its input operator; it reads the input's output when it is        *)
(* executed.  Nothing here is synchronised, so a call is one step.         *)
(*                                                                         *)
(* Tables are opaque: a base table is the member of BaseTable, and the     *)
(* output of a scan is known by the scans that made it.  Whether a scan or *)
(* a print throws on the contents of a table is in Query; here any may.    *)
(***************************************************************************)
EXTENDS Integers, Sequences, Functions

CONSTANTS
    Name,           \* names of tables
    BaseTable,      \* tables a caller has made
    nullptr,        \* a null shared_ptr<Table>
    MaxOperators    \* bound: operators made

\* A table: a base table and the scans it has been through.
Table == [base : BaseTable, scans : Seq(1 .. MaxOperators)]

ASSUME OperatorsAssumption ==
    /\ nullptr \notin BaseTable \cup Table \cup {<<>>}
    /\ MaxOperators \in Nat

VARIABLES
    tables,     \* StorageManager::_tables, from names to base tables or nullptr
    ops,        \* the operators, in the order in which they were made
    again,      \* history: operators executed once more after they succeeded
    outcome     \* of the last call: "ok", "throws" or "undefined"

vars == <<tables, ops, again, outcome>>

\* Undefined behaviour ends what can be said.
Alive == outcome # "undefined"

BasePtr == BaseTable \cup {nullptr}

\* Mutant: a null entry is taken for a table.
Unscanned_NullToo(b) == [base |-> b, scans |-> <<>>]

\* What a GetTable returns for an entry of the StorageManager.
Unscanned(b) == IF b = nullptr THEN nullptr ELSE [base |-> b, scans |-> <<>>]

\* The output of the TableScan o over a table.
Scanned(table, o) == [table EXCEPT !.scans = Append(@, o)]

Init ==
    /\ tables = [n \in {} |-> nullptr]
    /\ ops = <<>>
    /\ again = {}
    /\ outcome = "ok"

-----------------------------------------------------------------------------
(* StorageManager *)

HasTable(name) == name \in DOMAIN tables

\* Mutant: the name is not looked up first.
AddTable_Replaces(name, b) ==
    /\ tables' = [n \in DOMAIN tables \cup {name} |-> IF n = name THEN b ELSE tables[n]]
    /\ outcome' = "ok"
    /\ UNCHANGED <<ops, again>>

AddTable(name, b) ==
    /\ IF HasTable(name)
       THEN outcome' = "throws" /\ UNCHANGED tables
       ELSE /\ outcome' = "ok"
            /\ tables' = [n \in DOMAIN tables \cup {name} |->
                             IF n = name THEN b ELSE tables[n]]
    /\ UNCHANGED <<ops, again>>

DropTable(name) ==
    /\ IF HasTable(name)
       THEN outcome' = "ok" /\ tables' = Restrict(tables, DOMAIN tables \ {name})
       ELSE outcome' = "throws" /\ UNCHANGED tables
    /\ UNCHANGED <<ops, again>>

Reset ==
    /\ tables' = Restrict(tables, {})
    /\ outcome' = "ok"
    /\ UNCHANGED <<ops, again>>

\* StorageManager::print dereferences every entry.
PrintTables ==
    /\ outcome' = IF nullptr \in Range(tables) THEN "undefined" ELSE "ok"
    /\ UNCHANGED <<tables, ops, again>>

-----------------------------------------------------------------------------
(* Operators *)

NoInput == 0   \* a null left input

\* A new operator of this kind, with an operator made before as its input.
Construct(kind, input, arg) ==
    /\ Len(ops) < MaxOperators
    /\ ops' = Append(ops, [kind |-> kind, input |-> input, arg |-> arg,
                           executed |-> FALSE, output |-> nullptr])
    /\ outcome' = "ok"
    /\ UNCHANGED <<tables, again>>

NeedsInput(o) == ops[o].kind \in {"TableScan", "Print"}

\* Mutant: get_output does not ask whether the operator was executed.
InputReady_Unasked(o) == ops[o].input # NoInput

\* get_output of the input does not throw.
InputReady(o) == ops[o].input # NoInput /\ ops[ops[o].input].executed

InputTable(o) == ops[ops[o].input].output

\* _on_execute cannot but follow a null pointer: there is no input, or Print
\* has one whose output is null.
Crashes(o) ==
    /\ NeedsInput(o)
    /\ \/ ops[o].input = NoInput
       \/ ops[o].kind = "Print" /\ InputReady(o) /\ InputTable(o) = nullptr

\* _on_execute may throw: a name that is not there, an input not executed, or a
\* scan or a print of what is in the table, for one of many reasons.
MayThrow(o) ==
    CASE ops[o].kind = "GetTable"     -> ~HasTable(ops[o].arg)
      [] ops[o].kind = "TableWrapper" -> FALSE
      [] ops[o].kind = "TableScan"    -> ops[o].input # NoInput
      [] ops[o].kind = "Print"        -> ops[o].input # NoInput /\ ~Crashes(o)

\* Mutant: the positions of the scan are not those in its input.
Returned_BaseOnly(o) ==
    CASE ops[o].kind = "GetTable" -> {Unscanned(tables[n]) : n \in {ops[o].arg} \cap DOMAIN tables}
      [] ops[o].kind = "TableWrapper" -> {ops[o].arg}
      [] NeedsInput(o) ->
            IF ~InputReady(o) \/ InputTable(o) = nullptr THEN {}
            ELSE IF ops[o].kind = "Print" THEN {InputTable(o)}
            ELSE {Scanned(Unscanned(InputTable(o).base), o)}

\* What _on_execute returns when it does.
Returned(o) ==
    CASE ops[o].kind = "GetTable" -> {Unscanned(tables[n]) : n \in {ops[o].arg} \cap DOMAIN tables}
      [] ops[o].kind = "TableWrapper" -> {ops[o].arg}
      [] NeedsInput(o) ->
            IF ~InputReady(o) \/ InputTable(o) = nullptr THEN {}
            ELSE IF ops[o].kind = "Print" THEN {InputTable(o)}
            ELSE {Scanned(InputTable(o), o)}

\* Mutant: the flag is set before the output is looked at.
Assigned_FlagFirst(o, table) == [ops EXCEPT ![o].output = table, ![o].executed = TRUE]

\* _output is assigned in any case, the flag set if the Assert lets it.
Assigned(o, table) ==
    [ops EXCEPT ![o].output = table, ![o].executed = @ \/ table # nullptr]

\* AbstractOperator::execute; an exception of _on_execute leaves the operator
\* as it was.
Execute(o) ==
    /\ again' = IF ops[o].executed THEN again \cup {o} ELSE again
    /\ \/ /\ Crashes(o)
          /\ outcome' = "undefined"
          /\ UNCHANGED ops
       \/ /\ MayThrow(o)
          /\ outcome' = "throws"
          /\ UNCHANGED ops
       \/ \E table \in Returned(o) :
             /\ ops' = Assigned(o, table)
             /\ outcome' = IF table = nullptr THEN "throws" ELSE "ok"
    /\ UNCHANGED tables

\* Tables a caller has at hand for a TableWrapper.
AtHand == {Unscanned(b) : b \in BasePtr} \cup {ops[o].output : o \in DOMAIN ops}

ManagerCall ==
    \/ \E name \in Name, b \in BasePtr : AddTable(name, b)
    \/ \E name \in Name : DropTable(name)
    \/ Reset
    \/ PrintTables

OperatorCall ==
    \/ \E name \in Name : Construct("GetTable", NoInput, name)
    \/ \E table \in AtHand : Construct("TableWrapper", NoInput, table)
    \/ \E kind \in {"TableScan", "Print"}, input \in {NoInput} \cup DOMAIN ops :
          Construct(kind, input, nullptr)
    \/ \E o \in DOMAIN ops : Execute(o)

Next == Alive /\ (ManagerCall \/ OperatorCall)

Spec == Init /\ [][Next]_vars

-----------------------------------------------------------------------------
(* Type invariant *)

Operator ==
    [kind : {"GetTable"}, input : {NoInput}, arg : Name,
     executed : BOOLEAN, output : Table \cup {nullptr}]
    \cup
    [kind : {"TableWrapper"}, input : {NoInput}, arg : Table \cup {nullptr},
     executed : BOOLEAN, output : Table \cup {nullptr}]
    \cup
    [kind : {"TableScan", "Print"}, input : 0 .. MaxOperators, arg : {nullptr},
     executed : BOOLEAN, output : Table \cup {nullptr}]

\* The inputs of an operator were made before it: plans have no cycles.
OperatorsTypeOK ==
    /\ DOMAIN tables \subseteq Name
    /\ \A n \in DOMAIN tables : tables[n] \in BasePtr
    /\ ops \in Seq(Operator) /\ Len(ops) <= MaxOperators
    /\ \A o \in DOMAIN ops : ops[o].input < o
    /\ again \subseteq DOMAIN ops
    /\ outcome \in {"ok", "throws", "undefined"}

-----------------------------------------------------------------------------
(* Safety *)

\* abstract_operator.hpp:57 and :60, the output "is nullptr until the operator
\* is executed" and the flag "false until execute() is called": they agree,
\* through failing calls.  The one exception is a GetTable that is executed
\* once more when the name has come to stand for a null pointer: it keeps the
\* flag and loses the output.
OutputMatchesFlag ==
    \A o \in DOMAIN ops :
        ops[o].executed # (ops[o].output # nullptr) =>
            ops[o].executed /\ ops[o].kind = "GetTable" /\ o \in again

\* The output of an operator is still what its input's output makes it, unless
\* the input was executed again: tables dropped, replaced or added, failing
\* calls and other operators do not part them.
OutputsFollowInputs ==
    \A o \in DOMAIN ops :
        LET input == ops[o].input
        IN  ops[o].output # nullptr /\ NeedsInput(o) /\ input \notin again =>
                ops[o].output = IF ops[o].kind = "Print" THEN ops[input].output
                                ELSE Scanned(ops[input].output, o)

\* Null pointers are followed only in an operator made without the input it
\* needs, by StorageManager::print if the StorageManager was given one, or by a
\* Print whose input was executed twice and has lost its output.
UndefinedOnlyByMisuse ==
    outcome = "undefined" =>
        \/ \E o \in DOMAIN ops : NeedsInput(o) /\ ops[o].input = NoInput
        \/ nullptr \in Range(tables)
        \/ \E o \in again : ops[o].executed /\ ops[o].output = nullptr

-----------------------------------------------------------------------------
(* Refinement *)

Plan == INSTANCE QueryPlan WITH
    catalog <- tables,
    plan    <- [o \in DOMAIN ops |->
                   [kind |-> ops[o].kind, input |-> ops[o].input, arg |-> ops[o].arg]],
    result  <- [o \in DOMAIN ops |-> IF ops[o].executed THEN ops[o].output ELSE <<>>]

\* get_output gives what QueryPlan promises: the first output is a table and
\* stays through everything but a second execute, and no add_table gives a
\* taken name to another table.
ImplementsPlan == Plan!Spec
=============================================================================
