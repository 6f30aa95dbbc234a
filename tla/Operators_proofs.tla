-------------------------- MODULE Operators_proofs ---------------------------
(***************************************************************************)
(* What operators keep through every sequence of calls, for any names,     *)
(* tables and number of operators: types, the agreement of flag and        *)
(* output, outputs that follow their inputs, and that null pointers are    *)
(* followed by misuse only; and that they implement QueryPlan.             *)
(***************************************************************************)
EXTENDS Operators, TLAPS

TableOrNull == Table \cup {nullptr}

(* Tables and the operators that make them *)

LEMMA UnscannedType ==
    ASSUME NEW b \in BasePtr
    PROVE  Unscanned(b) \in TableOrNull
<1>1. <<>> \in Seq(1 .. MaxOperators)
  OBVIOUS
<1> QED
  BY <1>1 DEF Unscanned, BasePtr, Table, TableOrNull

LEMMA ScannedType ==
    ASSUME NEW table \in Table, NEW o \in 1 .. MaxOperators
    PROVE  Scanned(table, o) \in Table
<1>1. table.base \in BaseTable /\ table.scans \in Seq(1 .. MaxOperators)
  BY DEF Table
<1>2. Append(table.scans, o) \in Seq(1 .. MaxOperators)
  BY <1>1
<1>3. Scanned(table, o) = [table EXCEPT !.scans = Append(table.scans, o)]
  BY DEF Scanned
<1> QED
  BY <1>1, <1>2, <1>3 DEF Table

\* The fields of an operator.
LEMMA OperatorFields ==
    ASSUME OperatorsTypeOK, NEW o \in DOMAIN ops
    PROVE  /\ ops[o] \in Operator
           /\ ops[o].kind \in {"GetTable", "TableWrapper", "TableScan", "Print"}
           /\ ops[o].executed \in BOOLEAN
           /\ ops[o].output \in TableOrNull
           /\ ops[o].kind = "GetTable" => ops[o].arg \in Name
           /\ ops[o].kind = "TableWrapper" => ops[o].arg \in TableOrNull
           /\ ops[o].input \in 0 .. MaxOperators
           /\ ops[o].input < o
           /\ ops[o].input # NoInput => ops[o].input \in DOMAIN ops
           /\ o \in 1 .. MaxOperators
<1>1. ops \in Seq(Operator) /\ Len(ops) <= MaxOperators /\ ops[o].input < o
  BY DEF OperatorsTypeOK
<1>2. o \in 1 .. Len(ops) /\ Len(ops) \in Nat
  BY <1>1
<1>3. ops[o] \in Operator
  BY <1>1, <1>2
<1>4. /\ ops[o].kind \in {"GetTable", "TableWrapper", "TableScan", "Print"}
      /\ ops[o].executed \in BOOLEAN
      /\ ops[o].output \in TableOrNull
      /\ ops[o].kind = "GetTable" => ops[o].arg \in Name
      /\ ops[o].kind = "TableWrapper" => ops[o].arg \in TableOrNull
      /\ ops[o].input \in 0 .. MaxOperators
  BY <1>3, OperatorsAssumption DEF Operator, TableOrNull, NoInput
<1> QED
  BY <1>1, <1>2, <1>3, <1>4, OperatorsAssumption DEF NoInput

\* An operator is not its own input.
LEMMA InputIsEarlier ==
    ASSUME OperatorsTypeOK, NEW o \in DOMAIN ops
    PROVE  /\ o # NoInput
           /\ ops[o].input # o
           /\ ops[o].input # NoInput => ops[o].input \in DOMAIN ops
<1>1. /\ ops[o].input \in 0 .. MaxOperators /\ ops[o].input < o
      /\ ops[o].input # NoInput => ops[o].input \in DOMAIN ops
      /\ o \in 1 .. MaxOperators
  BY OperatorFields
<1> QED
  BY <1>1, OperatorsAssumption DEF NoInput

\* What an operator of each kind returns.
LEMMA ReturnedByKind ==
    ASSUME NEW o, NEW table \in Returned(o)
    PROVE  /\ ops[o].kind = "GetTable" =>
                 HasTable(ops[o].arg) /\ table = Unscanned(tables[ops[o].arg])
           /\ ops[o].kind = "TableWrapper" => table = ops[o].arg
           /\ NeedsInput(o) => InputReady(o) /\ InputTable(o) # nullptr
           /\ ops[o].kind = "TableScan" => table = Scanned(InputTable(o), o)
           /\ ops[o].kind = "Print" => table = InputTable(o)
<1>1. ASSUME ops[o].kind = "GetTable"
      PROVE  HasTable(ops[o].arg) /\ table = Unscanned(tables[ops[o].arg])
  <2>1. ~NeedsInput(o) /\ ops[o].kind # "TableWrapper"
    BY <1>1 DEF NeedsInput
  <2>2. Returned(o) = {Unscanned(tables[n]) : n \in {ops[o].arg} \cap DOMAIN tables}
    BY <1>1, <2>1, Zenon DEF Returned
  <2> QED
    BY <2>2 DEF HasTable
<1>2. ASSUME ops[o].kind = "TableWrapper" PROVE table = ops[o].arg
  <2>1. ~NeedsInput(o) /\ ops[o].kind # "GetTable"
    BY <1>2 DEF NeedsInput
  <2>2. Returned(o) = {ops[o].arg}
    BY <1>2, <2>1, Zenon DEF Returned
  <2> QED
    BY <2>2
<1>3. ASSUME NeedsInput(o)
      PROVE  /\ InputReady(o) /\ InputTable(o) # nullptr
             /\ table = IF ops[o].kind = "Print" THEN InputTable(o)
                                                 ELSE Scanned(InputTable(o), o)
  <2> DEFINE inputs == IF ~InputReady(o) \/ InputTable(o) = nullptr THEN {}
                       ELSE IF ops[o].kind = "Print" THEN {InputTable(o)}
                       ELSE {Scanned(InputTable(o), o)}
  <2>1. ops[o].kind # "GetTable" /\ ops[o].kind # "TableWrapper"
    BY <1>3 DEF NeedsInput
  <2>2. Returned(o) = inputs
    BY <1>3, <2>1, Zenon DEF Returned
  <2> QED
    BY <2>2
<1> QED
  BY <1>1, <1>2, <1>3 DEF NeedsInput

\* A returned table is one, or nullptr from a GetTable or TableWrapper.
LEMMA ReturnedType ==
    ASSUME OperatorsTypeOK, NEW o \in DOMAIN ops, NEW table \in Returned(o)
    PROVE  /\ table \in TableOrNull
           /\ NeedsInput(o) => table \in Table
<1>1. CASE ops[o].kind = "GetTable"
  <2>1. \A n \in DOMAIN tables : tables[n] \in BasePtr
    BY DEF OperatorsTypeOK
  <2> QED
    BY <1>1, <2>1, ReturnedByKind, UnscannedType DEF NeedsInput, HasTable
<1>2. CASE ops[o].kind = "TableWrapper"
  BY <1>2, ReturnedByKind, OperatorFields DEF NeedsInput
<1>3. CASE NeedsInput(o)
  <2>1. InputTable(o) \in Table
    BY <1>3, ReturnedByKind, OperatorFields DEF InputReady, InputTable, TableOrNull
  <2> QED
    BY <1>3, <2>1, ReturnedByKind, OperatorFields, ScannedType DEF TableOrNull, NeedsInput
<1> QED
  BY <1>1, <1>2, <1>3, OperatorFields DEF NeedsInput

(* Type correctness *)

LEMMA InitType == Init => OperatorsTypeOK
<1> SUFFICES ASSUME Init PROVE OperatorsTypeOK
  OBVIOUS
<1>1. tables = [n \in {} |-> nullptr] /\ ops = <<>> /\ again = {} /\ outcome = "ok"
  BY DEF Init
<1>2. DOMAIN tables = {}
  BY <1>1
<1>3. ops \in Seq(Operator) /\ Len(ops) = 0 /\ DOMAIN ops = {}
  BY <1>1
<1> QED
  BY <1>1, <1>2, <1>3, OperatorsAssumption DEF OperatorsTypeOK

\* A call of the StorageManager changes its map only.
LEMMA ManagerType ==
    ASSUME OperatorsTypeOK, ManagerCall
    PROVE  /\ UNCHANGED <<ops, again>>
           /\ OperatorsTypeOK'
<1>1. /\ UNCHANGED <<ops, again>>
      /\ outcome' \in {"ok", "throws", "undefined"}
  BY DEF ManagerCall, AddTable, DropTable, Reset, PrintTables
<1>2. DOMAIN tables' \subseteq Name /\ \A n \in DOMAIN tables' : tables'[n] \in BasePtr
  <2>0. DOMAIN tables \subseteq Name /\ \A n \in DOMAIN tables : tables[n] \in BasePtr
    BY DEF OperatorsTypeOK
  <2>1. ASSUME NEW name \in Name, NEW b \in BasePtr, AddTable(name, b) PROVE <1>2
    <3>1. CASE HasTable(name)
      BY <2>0, <2>1, <3>1 DEF AddTable
    <3>2. CASE ~HasTable(name)
      BY <2>0, <2>1, <3>2 DEF AddTable
    <3> QED
      BY <3>1, <3>2
  <2>2. ASSUME NEW name \in Name, DropTable(name) PROVE <1>2
    <3>1. CASE HasTable(name)
      BY <2>0, <2>2, <3>1 DEF DropTable, Restrict
    <3>2. CASE ~HasTable(name)
      BY <2>0, <2>2, <3>2 DEF DropTable
    <3> QED
      BY <3>1, <3>2
  <2>3. CASE Reset
    BY <2>3 DEF Reset, Restrict
  <2>4. CASE PrintTables
    BY <2>0, <2>4 DEF PrintTables
  <2> QED
    BY <2>1, <2>2, <2>3, <2>4 DEF ManagerCall
<1> QED
  BY <1>1, <1>2 DEF OperatorsTypeOK

\* A new operator is appended; the others stay as they are.
LEMMA ConstructType ==
    ASSUME OperatorsTypeOK, NEW kind, NEW input, NEW arg, Construct(kind, input, arg),
           input \in 0 .. Len(ops),
           [kind |-> kind, input |-> input, arg |-> arg,
            executed |-> FALSE, output |-> nullptr] \in Operator
    PROVE  /\ OperatorsTypeOK'
           /\ Len(ops') = Len(ops) + 1
           /\ DOMAIN ops = 1 .. Len(ops) /\ DOMAIN ops' = 1 .. Len(ops) + 1
           /\ \A o \in DOMAIN ops : ops'[o] = ops[o]
           /\ ops'[Len(ops) + 1] = [kind |-> kind, input |-> input, arg |-> arg,
                                    executed |-> FALSE, output |-> nullptr]
<1> DEFINE new == [kind |-> kind, input |-> input, arg |-> arg,
                   executed |-> FALSE, output |-> nullptr]
<1>1. /\ ops \in Seq(Operator) /\ Len(ops) \in Nat /\ Len(ops) < MaxOperators
      /\ ops' = Append(ops, new) /\ outcome' = "ok" /\ UNCHANGED <<tables, again>>
  BY DEF OperatorsTypeOK, Construct
<1>2. new.input = input
  OBVIOUS
<1> HIDE DEF new
<1>3. ops' \in Seq(Operator) /\ Len(ops') = Len(ops) + 1
  BY <1>1 DEF new
<1>4. DOMAIN ops = 1 .. Len(ops) /\ DOMAIN ops' = 1 .. Len(ops) + 1
  BY <1>1, <1>3
<1>5. (\A o \in DOMAIN ops : ops'[o] = ops[o]) /\ ops'[Len(ops) + 1] = new
  BY <1>1, <1>4
<1>6. \A o \in DOMAIN ops' : ops'[o].input < o
  <2>1. \A o \in DOMAIN ops : ops[o].input < o
    BY DEF OperatorsTypeOK
  <2>2. ops'[Len(ops) + 1].input < Len(ops) + 1
    BY <1>1, <1>2, <1>5
  <2> QED
    BY <1>4, <1>5, <2>1, <2>2
<1>7. Len(ops') <= MaxOperators
  BY <1>1, <1>3, OperatorsAssumption
<1>8. again' \subseteq DOMAIN ops'
  BY <1>1, <1>4 DEF OperatorsTypeOK
<1> QED
  BY <1>1, <1>3, <1>4, <1>5, <1>6, <1>7, <1>8 DEF OperatorsTypeOK, new

\* Which operators are made.
LEMMA ConstructCases ==
    ASSUME OperatorsTypeOK, OperatorCall
    PROVE  \/ \E kind \in {"GetTable", "TableWrapper", "TableScan", "Print"},
                 input \in 0 .. Len(ops), arg \in Name \cup AtHand \cup {nullptr} :
                 /\ Construct(kind, input, arg)
                 /\ [kind |-> kind, input |-> input, arg |-> arg,
                     executed |-> FALSE, output |-> nullptr] \in Operator
           \/ \E o \in DOMAIN ops : Execute(o)
<1>0. ops \in Seq(Operator) /\ Len(ops) \in Nat /\ DOMAIN ops = 1 .. Len(ops)
      /\ Len(ops) <= MaxOperators /\ MaxOperators \in Nat
  BY OperatorsAssumption DEF OperatorsTypeOK
<1>1. ASSUME NEW name \in Name, Construct("GetTable", NoInput, name)
      PROVE  [kind |-> "GetTable", input |-> NoInput, arg |-> name,
              executed |-> FALSE, output |-> nullptr] \in Operator
  BY DEF Operator
<1>2. ASSUME NEW table \in AtHand
      PROVE  [kind |-> "TableWrapper", input |-> NoInput, arg |-> table,
              executed |-> FALSE, output |-> nullptr] \in Operator
  <2>1. table \in TableOrNull
    BY UnscannedType, OperatorFields DEF AtHand
  <2> QED
    BY <2>1 DEF Operator, TableOrNull
<1>3. ASSUME NEW kind \in {"TableScan", "Print"}, NEW input \in {NoInput} \cup DOMAIN ops
      PROVE  /\ input \in 0 .. Len(ops)
             /\ [kind |-> kind, input |-> input, arg |-> nullptr,
                 executed |-> FALSE, output |-> nullptr] \in Operator
  <2>1. input \in 0 .. Len(ops) /\ input \in 0 .. MaxOperators
    BY <1>0 DEF NoInput
  <2> QED
    BY <2>1 DEF Operator
<1>4. NoInput \in 0 .. Len(ops)
  BY <1>0 DEF NoInput
<1> QED
  BY <1>1, <1>2, <1>3, <1>4 DEF OperatorCall

\* Executing an operator changes at most its own output and flag.
LEMMA ExecuteType ==
    ASSUME OperatorsTypeOK, NEW o \in DOMAIN ops, Execute(o)
    PROVE  /\ OperatorsTypeOK'
           /\ UNCHANGED tables
           /\ DOMAIN ops' = DOMAIN ops
           /\ again' = IF ops[o].executed THEN again \cup {o} ELSE again
           /\ \A p \in DOMAIN ops : p # o => ops'[p] = ops[p]
           /\ \/ ops' = ops /\ outcome' \in {"throws", "undefined"}
              \/ \E table \in Returned(o) :
                    /\ ops' = Assigned(o, table)
                    /\ outcome' = IF table = nullptr THEN "throws" ELSE "ok"
                    /\ ops'[o] = [ops[o] EXCEPT !.output = table,
                                                !.executed = @ \/ table # nullptr]
<1>1. UNCHANGED tables /\ again' = IF ops[o].executed THEN again \cup {o} ELSE again
  BY DEF Execute
<1>2. again' \subseteq DOMAIN ops
  BY <1>1 DEF OperatorsTypeOK
<1>3. ops \in Seq(Operator) /\ \A p \in DOMAIN ops : ops[p].input < p
  BY DEF OperatorsTypeOK
<1>4. CASE ops' = ops /\ outcome' \in {"throws", "undefined"}
  BY <1>1, <1>2, <1>4 DEF OperatorsTypeOK
<1>5. ASSUME NEW table \in Returned(o), ops' = Assigned(o, table),
             outcome' = IF table = nullptr THEN "throws" ELSE "ok"
      PROVE  /\ OperatorsTypeOK'
             /\ DOMAIN ops' = DOMAIN ops
             /\ \A p \in DOMAIN ops : p # o => ops'[p] = ops[p]
             /\ ops'[o] = [ops[o] EXCEPT !.output = table,
                                         !.executed = @ \/ table # nullptr]
  <2> DEFINE after == [ops[o] EXCEPT !.output = table, !.executed = @ \/ table # nullptr]
  <2>1. table \in TableOrNull
    BY ReturnedType
  <2>2. after \in Operator /\ after.input = ops[o].input
    <3>1. /\ ops[o] \in Operator
          /\ ops[o].executed \in BOOLEAN
      BY OperatorFields
    <3>2. (ops[o].executed \/ table # nullptr) \in BOOLEAN
      BY <3>1
    <3> QED
      BY <2>1, <3>1, <3>2 DEF Operator, TableOrNull
  <2>3. ops' = [ops EXCEPT ![o] = after]
    BY <1>5, <1>3 DEF Assigned
  <2> HIDE DEF after
  <2>4. /\ ops' \in Seq(Operator) /\ Len(ops') = Len(ops) /\ DOMAIN ops' = DOMAIN ops
        /\ ops'[o] = after /\ \A p \in DOMAIN ops : p # o => ops'[p] = ops[p]
    BY <1>3, <2>2, <2>3
  <2>5. \A p \in DOMAIN ops' : ops'[p].input < p
    BY <1>3, <2>2, <2>4
  <2>6. outcome' \in {"ok", "throws", "undefined"}
    BY <1>5
  <2> QED
    BY <1>1, <1>2, <2>4, <2>5, <2>6 DEF OperatorsTypeOK, after
<1> QED
  BY <1>1, <1>4, <1>5 DEF Execute

LEMMA NextType ==
    ASSUME OperatorsTypeOK, [Next]_vars
    PROVE  OperatorsTypeOK'
<1>1. CASE ManagerCall
  BY <1>1, ManagerType
<1>2. CASE OperatorCall
  BY <1>2, ConstructCases, ConstructType, ExecuteType
<1>3. CASE UNCHANGED vars
  BY <1>3 DEF vars, OperatorsTypeOK
<1> QED
  BY <1>1, <1>2, <1>3 DEF Next

\* Every sequence of calls keeps the StorageManager's map and the operators of
\* a plan well formed, and plans free of cycles.
THEOREM OperatorsTypeCorrect == Spec => []OperatorsTypeOK
BY InitType, NextType, PTL DEF Spec

(* The inductive invariant: OutputMatchesFlag holds of a TableWrapper because *)
(* it always returns the same, OutputsFollowInputs because an operator gets   *)
(* an output after its input only.                                            *)

WrapperReturns(o) ==
    ops[o].kind = "TableWrapper" /\ ops[o].executed => ops[o].arg # nullptr

InputCameFirst(o) ==
    NeedsInput(o) /\ ops[o].output # nullptr => InputReady(o)

FlagMatches(o) ==
    ops[o].executed # (ops[o].output # nullptr) =>
        ops[o].executed /\ ops[o].kind = "GetTable" /\ o \in again

FollowsInput(o) ==
    ops[o].output # nullptr /\ NeedsInput(o) /\ ops[o].input \notin again =>
        ops[o].output = IF ops[o].kind = "Print" THEN InputTable(o)
                        ELSE Scanned(InputTable(o), o)

Kept(o) == WrapperReturns(o) /\ InputCameFirst(o) /\ FlagMatches(o) /\ FollowsInput(o)

IInv == OperatorsTypeOK /\ \A o \in DOMAIN ops : Kept(o)

\* An operator with its input operator is as before, and the input has not been
\* executed again.
LEMMA KeptWhenUnchanged ==
    ASSUME OperatorsTypeOK, NEW o \in DOMAIN ops, Kept(o),
           ops'[o] = ops[o], again \subseteq again',
           ops[o].input # NoInput =>
              /\ ops'[ops[o].input] = ops[ops[o].input]
    PROVE  Kept(o)'
<1>1. ops[o].input = NoInput => ~NeedsInput(o) \/ ops[o].output = nullptr
  BY DEF Kept, InputCameFirst, InputReady
<1>2. WrapperReturns(o)' /\ FlagMatches(o)'
  BY DEF Kept, WrapperReturns, FlagMatches
<1>3. InputCameFirst(o)'
  BY <1>1 DEF Kept, InputCameFirst, InputReady, NeedsInput
<1>4. FollowsInput(o)'
  BY <1>1 DEF Kept, FollowsInput, InputTable, NeedsInput
<1> QED
  BY <1>2, <1>3, <1>4 DEF Kept

\* A new operator has neither flag nor output.
LEMMA ConstructKeeps ==
    ASSUME IInv, NEW kind, NEW input, NEW arg, Construct(kind, input, arg),
           input \in 0 .. Len(ops),
           [kind |-> kind, input |-> input, arg |-> arg,
            executed |-> FALSE, output |-> nullptr] \in Operator
    PROVE  IInv'
<1>1. /\ OperatorsTypeOK'
      /\ DOMAIN ops = 1 .. Len(ops) /\ DOMAIN ops' = 1 .. Len(ops) + 1
      /\ \A o \in DOMAIN ops : ops'[o] = ops[o]
      /\ ops'[Len(ops) + 1] = [kind |-> kind, input |-> input, arg |-> arg,
                               executed |-> FALSE, output |-> nullptr]
  BY ConstructType DEF IInv
<1>2. again' = again
  BY DEF Construct
<1>3. ASSUME NEW o \in DOMAIN ops PROVE Kept(o)'
  BY <1>1, <1>2, OperatorFields, KeptWhenUnchanged DEF IInv
<1>4. ASSUME NEW o \in DOMAIN ops', o \notin DOMAIN ops PROVE Kept(o)'
  <2>1. Len(ops) \in Nat
    BY DEF IInv, OperatorsTypeOK
  <2>2. ops'[o].executed = FALSE /\ ops'[o].output = nullptr
    BY <1>1, <1>4, <2>1
  <2> QED
    BY <2>2 DEF Kept, WrapperReturns, InputCameFirst, FlagMatches, FollowsInput
<1> QED
  BY <1>1, <1>3, <1>4 DEF IInv

\* The operator that is executed.
LEMMA ExecutedIsKept ==
    ASSUME IInv, NEW o \in DOMAIN ops, Execute(o), NEW table \in Returned(o),
           ops'[o] = [ops[o] EXCEPT !.output = table, !.executed = @ \/ table # nullptr]
    PROVE  Kept(o)'
<1>1. /\ ops'[o].kind = ops[o].kind /\ ops'[o].input = ops[o].input
      /\ ops'[o].arg = ops[o].arg
      /\ ops'[o].output = table
      /\ ops'[o].executed = (ops[o].executed \/ table # nullptr)
  <2>1. ops[o] \in Operator
    BY OperatorFields DEF IInv
  <2> QED
    BY <2>1 DEF Operator
<1>2. /\ again' = IF ops[o].executed THEN again \cup {o} ELSE again
      /\ ops[o].input # NoInput => ops'[ops[o].input] = ops[ops[o].input]
  <2>1. OperatorsTypeOK
    BY DEF IInv
  <2>2. \A p \in DOMAIN ops : p # o => ops'[p] = ops[p]
    BY <2>1, ExecuteType
  <2> QED
    BY <2>1, <2>2, InputIsEarlier DEF Execute
<1>3. NeedsInput(o) => /\ table # nullptr
                       /\ InputReady(o)
                       /\ table = IF ops[o].kind = "Print" THEN InputTable(o)
                                                           ELSE Scanned(InputTable(o), o)
  BY ReturnedByKind, ReturnedType, OperatorsAssumption DEF IInv, NeedsInput
<1>4. ops[o].executed \in BOOLEAN /\ Kept(o)
  BY OperatorFields DEF IInv
<1>5. WrapperReturns(o)'
  BY <1>1, <1>4, ReturnedByKind DEF WrapperReturns, Kept
<1>6. InputCameFirst(o)'
  BY <1>1, <1>2, <1>3 DEF InputCameFirst, InputReady, NeedsInput
<1>7. FollowsInput(o)'
  BY <1>1, <1>2, <1>3 DEF FollowsInput, InputReady, InputTable, NeedsInput
<1>8. FlagMatches(o)'
  <2>1. CASE table # nullptr
    BY <1>1, <2>1 DEF FlagMatches
  <2>2. CASE table = nullptr /\ ~ops[o].executed
    BY <1>1, <2>2 DEF FlagMatches
  <2>3. CASE table = nullptr /\ ops[o].executed
    <3>1. ops[o].kind = "GetTable"
      BY <1>3, <1>4, <2>3, ReturnedByKind, OperatorFields
         DEF IInv, NeedsInput, Kept, WrapperReturns
    <3> QED
      BY <1>1, <1>2, <2>3, <3>1 DEF FlagMatches
  <2> QED
    BY <1>4, <2>1, <2>2, <2>3
<1> QED
  BY <1>5, <1>6, <1>7, <1>8 DEF Kept

\* An operator whose input is executed: it has no output yet, or its input is
\* executed again.
LEMMA InputExecutedKeeps ==
    ASSUME IInv, NEW o \in DOMAIN ops, Execute(o), NEW table \in Returned(o),
           ops'[o] = [ops[o] EXCEPT !.output = table, !.executed = @ \/ table # nullptr],
           NEW p \in DOMAIN ops, ops[p].input = o
    PROVE  Kept(p)'
<1>1. /\ p # o /\ o # NoInput
      /\ ops'[p] = ops[p]
      /\ again' = IF ops[o].executed THEN again \cup {o} ELSE again
  <2>1. OperatorsTypeOK
    BY DEF IInv
  <2>2. \A q \in DOMAIN ops : q # o => ops'[q] = ops[q]
    BY <2>1, ExecuteType
  <2>3. p # o /\ o # NoInput
    BY <2>1, InputIsEarlier
  <2> QED
    BY <2>2, <2>3 DEF Execute
<1>2. ops'[o].executed = (ops[o].executed \/ table # nullptr) /\ ops[o].executed \in BOOLEAN
  <2>1. ops[o] \in Operator
    BY OperatorFields DEF IInv
  <2> QED
    BY <2>1 DEF Operator
<1>3. Kept(p)
  BY DEF IInv
<1>4. WrapperReturns(p)' /\ FlagMatches(p)'
  BY <1>1, <1>3 DEF Kept, WrapperReturns, FlagMatches
<1>5. InputCameFirst(p)'
  BY <1>1, <1>2, <1>3 DEF Kept, InputCameFirst, InputReady, NeedsInput
<1>6. FollowsInput(p)'
  <2>1. CASE ops[o].executed
    BY <1>1, <2>1 DEF FollowsInput
  <2>2. CASE ~ops[o].executed
    BY <1>1, <1>3, <2>2 DEF Kept, InputCameFirst, InputReady, FollowsInput, NeedsInput
  <2> QED
    BY <1>2, <2>1, <2>2
<1> QED
  BY <1>4, <1>5, <1>6 DEF Kept

LEMMA ExecuteKeeps ==
    ASSUME IInv, NEW o \in DOMAIN ops, Execute(o)
    PROVE  IInv'
<1>1. /\ OperatorsTypeOK'
      /\ DOMAIN ops' = DOMAIN ops /\ again \subseteq again'
      /\ \A p \in DOMAIN ops : p # o => ops'[p] = ops[p]
  BY ExecuteType DEF IInv
<1>2. CASE ops' = ops
  <2>1. ASSUME NEW p \in DOMAIN ops PROVE Kept(p)'
    BY <1>1, <1>2, KeptWhenUnchanged DEF IInv
  <2> QED
    BY <1>1, <2>1 DEF IInv
<1>3. ASSUME NEW table \in Returned(o),
             ops'[o] = [ops[o] EXCEPT !.output = table, !.executed = @ \/ table # nullptr]
      PROVE  IInv'
  <2>1. ASSUME NEW p \in DOMAIN ops PROVE Kept(p)'
    <3>1. CASE p = o
      BY <1>3, <3>1, ExecutedIsKept
    <3>2. CASE ops[p].input = o
      BY <1>3, <3>2, InputExecutedKeeps
    <3>3. CASE p # o /\ ops[p].input # o
      BY <1>1, <3>3, OperatorFields, KeptWhenUnchanged DEF IInv
    <3> QED
      BY <3>1, <3>2, <3>3
  <2> QED
    BY <1>1, <2>1 DEF IInv
<1> QED
  BY <1>2, <1>3, ExecuteType DEF IInv

LEMMA InitIInv == Init => IInv
<1> SUFFICES ASSUME Init PROVE IInv
  OBVIOUS
<1>1. DOMAIN ops = {}
  BY DEF Init
<1> QED
  BY <1>1, InitType DEF IInv

LEMMA NextIInv ==
    ASSUME IInv, [Next]_vars
    PROVE  IInv'
<1>1. ASSUME UNCHANGED <<ops, again>>, OperatorsTypeOK' PROVE IInv'
  <2>1. ASSUME NEW p \in DOMAIN ops PROVE Kept(p)'
    BY <1>1, KeptWhenUnchanged DEF IInv
  <2> QED
    BY <1>1, <2>1 DEF IInv
<1>2. CASE ManagerCall
  BY <1>1, <1>2, ManagerType DEF IInv
<1>3. CASE OperatorCall
  BY <1>3, ConstructCases, ConstructKeeps, ExecuteKeeps DEF IInv
<1>4. CASE UNCHANGED vars
  BY <1>1, <1>4, NextType DEF vars, IInv
<1> QED
  BY <1>2, <1>3, <1>4 DEF Next

LEMMA Inductive == Spec => []IInv
BY InitIInv, NextIInv, PTL DEF Spec

\* The flag and the output that get_output relies on agree, except in a
\* GetTable executed once more for a name that stands for a null pointer.
THEOREM OutputMatchesFlagAlways == Spec => []OutputMatchesFlag
<1>1. IInv => OutputMatchesFlag
  BY DEF IInv, Kept, FlagMatches, OutputMatchesFlag
<1> QED
  BY <1>1, Inductive, PTL

\* The output of a TableScan or Print is what the output of its input makes it,
\* whatever else is called, unless the input was executed again.
THEOREM OutputsFollowInputsAlways == Spec => []OutputsFollowInputs
<1>1. IInv => OutputsFollowInputs
  BY DEF IInv, Kept, FollowsInput, InputTable, OutputsFollowInputs
<1> QED
  BY <1>1, Inductive, PTL

\* A call follows a null pointer only if an operator lacks its input, the
\* StorageManager holds a null pointer, or a GetTable has lost its output.
THEOREM UndefinedOnlyByMisuseAlways == Spec => []UndefinedOnlyByMisuse
<1>1. Init => UndefinedOnlyByMisuse
  BY DEF Init, UndefinedOnlyByMisuse
<1>2. ASSUME IInv, UndefinedOnlyByMisuse, [Next]_vars PROVE UndefinedOnlyByMisuse'
  <2>1. CASE ManagerCall
    BY <2>1 DEF ManagerCall, AddTable, DropTable, Reset, PrintTables, UndefinedOnlyByMisuse
  <2>2. ASSUME NEW o \in DOMAIN ops, Execute(o) PROVE UndefinedOnlyByMisuse'
    <3>1. SUFFICES ASSUME outcome' = "undefined" PROVE UndefinedOnlyByMisuse'
      BY DEF UndefinedOnlyByMisuse
    <3>2. Crashes(o) /\ UNCHANGED ops /\ again \subseteq again'
      BY <2>2, <3>1 DEF Execute
    <3>3. CASE ops[o].input = NoInput
      BY <3>2, <3>3 DEF Crashes, NeedsInput, UndefinedOnlyByMisuse
    <3>4. CASE InputReady(o) /\ InputTable(o) = nullptr
      <4>1. ops[o].input \in DOMAIN ops /\ Kept(ops[o].input)
        BY <1>2, <3>4, InputIsEarlier DEF IInv, InputReady
      <4>2. ops[o].input \in again
        BY <3>4, <4>1 DEF Kept, FlagMatches, InputReady, InputTable
      <4> QED
        BY <3>2, <3>4, <4>2 DEF UndefinedOnlyByMisuse, InputReady, InputTable
    <3> QED
      BY <3>2, <3>3, <3>4 DEF Crashes
  <2>3. CASE OperatorCall
    <3>1. CASE \E o \in DOMAIN ops : Execute(o)
      BY <2>2, <3>1
    <3>2. CASE \E kind, input, arg : Construct(kind, input, arg)
      BY <3>2 DEF Construct, UndefinedOnlyByMisuse
    <3> QED
      BY <2>3, <3>1, <3>2 DEF OperatorCall
  <2>4. CASE UNCHANGED vars
    BY <1>2, <2>4 DEF vars, UndefinedOnlyByMisuse, NeedsInput, Range
  <2> QED
    BY <1>2, <2>1, <2>3, <2>4 DEF Next
<1> QED
  BY <1>1, <1>2, Inductive, PTL DEF Spec

(* The refinement: the state that QueryPlan sees, and what each call does to it *)

PlanOf == [o \in DOMAIN ops |->
              [kind |-> ops[o].kind, input |-> ops[o].input, arg |-> ops[o].arg]]

ResultOf == [o \in DOMAIN ops |-> IF ops[o].executed THEN ops[o].output ELSE <<>>]

LEMMA InitPlan == Init => Plan!Init
<1> SUFFICES ASSUME Init PROVE Plan!Init
  OBVIOUS
<1>1. tables = [n \in {} |-> nullptr] /\ ops = <<>>
  BY DEF Init
<1>2. DOMAIN ops = {}
  BY <1>1
<1>3. PlanOf = <<>> /\ ResultOf = <<>>
  BY <1>2 DEF PlanOf, ResultOf
<1> QED
  BY <1>1, <1>3 DEF Plan!Init, PlanOf, ResultOf

\* An add_table that succeeds is a Register, drop_table and reset are an
\* Unregister, and the rest changes nothing a plan sees.
LEMMA ManagerRefines ==
    ASSUME IInv, ManagerCall
    PROVE  [Plan!Next]_(Plan!vars)
<1>1. ops' = ops
  BY DEF ManagerCall, AddTable, DropTable, Reset, PrintTables
<1>2. PlanOf' = PlanOf /\ ResultOf' = ResultOf
  BY <1>1 DEF PlanOf, ResultOf
<1>3. ASSUME tables' = tables PROVE UNCHANGED Plan!vars
  BY <1>2, <1>3 DEF Plan!vars, PlanOf, ResultOf
<1>4. DOMAIN tables \subseteq Name
  BY DEF IInv, OperatorsTypeOK
<1>5. ASSUME NEW name \in Name, NEW b \in BasePtr, AddTable(name, b)
      PROVE  [Plan!Next]_(Plan!vars)
  <2>1. CASE HasTable(name)
    BY <1>3, <1>5, <2>1 DEF AddTable
  <2>2. CASE ~HasTable(name)
    <3>1. Plan!Register(name, b)
      BY <1>2, <1>5, <2>2 DEF AddTable, HasTable, Plan!Register, PlanOf, ResultOf
    <3> QED
      BY <3>1 DEF Plan!Next, BasePtr
  <2> QED
    BY <2>1, <2>2
<1>6. ASSUME NEW names \in SUBSET Name, tables' = Restrict(tables, DOMAIN tables \ names)
      PROVE  [Plan!Next]_(Plan!vars)
  <2>1. Plan!Unregister(names)
    BY <1>2, <1>6 DEF Plan!Unregister, Restrict, Plan!Restrict, PlanOf, ResultOf
  <2> QED
    BY <2>1 DEF Plan!Next
<1>7. ASSUME NEW name \in Name, DropTable(name) PROVE [Plan!Next]_(Plan!vars)
  BY <1>3, <1>6, <1>7 DEF DropTable
<1>8. CASE Reset
  <2>1. DOMAIN tables \ Name = {}
    BY <1>4
  <2> QED
    BY <1>6, <1>8, <2>1 DEF Reset
<1>9. CASE PrintTables
  BY <1>3, <1>9 DEF PrintTables
<1> QED
  BY <1>5, <1>7, <1>8, <1>9 DEF ManagerCall

\* A new operator is an Add.
LEMMA ConstructRefines ==
    ASSUME IInv, NEW kind \in {"GetTable", "TableWrapper", "TableScan", "Print"},
           NEW input \in 0 .. Len(ops), NEW arg \in Name \cup AtHand \cup {nullptr},
           Construct(kind, input, arg),
           [kind |-> kind, input |-> input, arg |-> arg,
            executed |-> FALSE, output |-> nullptr] \in Operator
    PROVE  Plan!Next
<1> DEFINE operator == [kind |-> kind, input |-> input, arg |-> arg]
<1>1. /\ DOMAIN ops = 1 .. Len(ops) /\ DOMAIN ops' = 1 .. Len(ops) + 1
      /\ \A o \in DOMAIN ops : ops'[o] = ops[o]
      /\ ops'[Len(ops) + 1] = [kind |-> kind, input |-> input, arg |-> arg,
                               executed |-> FALSE, output |-> nullptr]
  BY ConstructType DEF IInv
<1>2. Len(ops) \in Nat /\ UNCHANGED tables
  BY DEF IInv, OperatorsTypeOK, Construct
<1>3. PlanOf \in Seq({PlanOf[o] : o \in DOMAIN ops}) /\ Len(PlanOf) = Len(ops)
  BY <1>1, <1>2 DEF PlanOf
<1>4. ResultOf \in Seq({ResultOf[o] : o \in DOMAIN ops}) /\ Len(ResultOf) = Len(ops)
  BY <1>1, <1>2 DEF ResultOf
<1>5. PlanOf' = Append(PlanOf, operator)
  BY <1>1, <1>2, <1>3 DEF PlanOf
<1>6. ResultOf' = Append(ResultOf, <<>>)
  BY <1>1, <1>2, <1>4 DEF ResultOf
<1>7. Plan!Add(operator)
  <2>1. operator.input = input
    OBVIOUS
  <2> HIDE DEF operator
  <2> QED
    BY <1>2, <1>3, <1>5, <1>6, <2>1 DEF Plan!Add, Plan!Pending, PlanOf, ResultOf
<1>8. arg \in Name \cup Range(ResultOf) \cup {Plan!Unscanned(b) : b \in BaseTable} \cup {nullptr}
  <2>1. ASSUME NEW b \in BasePtr, b # nullptr PROVE Unscanned(b) \in {Plan!Unscanned(c) : c \in BaseTable}
    BY <2>1 DEF Unscanned, Plan!Unscanned, BasePtr
  <2>2. Unscanned(nullptr) = nullptr
    BY DEF Unscanned
  <2>3. ASSUME NEW o \in DOMAIN ops, ops[o].output # nullptr PROVE ops[o].output \in Range(ResultOf)
    <3>1. ops[o].executed
      BY <2>3, OperatorFields DEF IInv, Kept, FlagMatches
    <3>2. ResultOf[o] = ops[o].output /\ o \in DOMAIN ResultOf
      BY <3>1 DEF ResultOf
    <3> QED
      BY <3>2 DEF Range
  <2> QED
    BY <2>1, <2>2, <2>3 DEF AtHand
<1> QED
  <2>1. /\ operator = [kind |-> kind, input |-> input, arg |-> arg]
        /\ input \in 0 .. Len(PlanOf)
    BY <1>3
  <2> HIDE DEF operator
  <2> QED
    BY <1>7, <1>8, <2>1 DEF Plan!Next, Range, Plan!Range, PlanOf, ResultOf

\* The tables an operator makes are those that QueryPlan derives.
LEMMA ReturnedIsDerived ==
    ASSUME IInv, NEW o \in DOMAIN ops, NEW table \in Returned(o)
    PROVE  table \in Plan!Derived(o)
<1> DEFINE derived == Plan!Derived(o)
<1>1. /\ PlanOf[o].kind = ops[o].kind
      /\ PlanOf[o].input = ops[o].input
      /\ PlanOf[o].arg = ops[o].arg
  BY DEF PlanOf
<1>2. CASE ops[o].kind = "GetTable"
  <2>1. derived = {Plan!Unscanned(tables[n]) : n \in {ops[o].arg} \cap DOMAIN tables}
    BY <1>2, <1>1, Zenon DEF Plan!Derived, PlanOf
  <2> QED
    BY <1>2, <2>1, ReturnedByKind DEF HasTable, Unscanned, Plan!Unscanned
<1>3. CASE ops[o].kind = "TableWrapper"
  <2>1. derived = {ops[o].arg}
    BY <1>3, <1>1, Zenon DEF Plan!Derived, PlanOf
  <2> QED
    BY <1>3, <2>1, ReturnedByKind
<1>4. CASE NeedsInput(o)
  <2>1. /\ ops[o].input \in DOMAIN ops
        /\ InputReady(o) /\ InputTable(o) \in Table
    <3>1. InputReady(o) /\ InputTable(o) # nullptr
      BY <1>4, ReturnedByKind
    <3>2. ops[o].input \in DOMAIN ops
      BY <3>1, InputIsEarlier DEF IInv, InputReady
    <3> QED
      BY <3>1, <3>2, OperatorFields DEF IInv, InputTable, TableOrNull
  <2>2. InputTable(o) = ResultOf[PlanOf[o].input]
    BY <1>1, <2>1 DEF ResultOf, InputReady, InputTable
  <2>3. InputTable(o) \in Plan!Table
    BY <2>1, OperatorsAssumption DEF Table, Plan!Table
  <2>4. InputTable(o) \in Plan!InputResult(o)
    BY <1>1, <2>1, <2>2, <2>3 DEF Plan!InputResult, PlanOf, ResultOf
  <2>5. CASE ops[o].kind = "TableScan"
    <3>1. derived = {Plan!Scanned(t, o) : t \in Plan!InputResult(o)}
      BY <2>5, <1>1, Zenon DEF Plan!Derived, PlanOf
    <3> QED
      BY <2>4, <2>5, <3>1, ReturnedByKind DEF Scanned, Plan!Scanned
  <2>6. CASE ops[o].kind = "Print"
    <3>1. derived = Plan!InputResult(o)
      BY <2>6, <1>1, Zenon DEF Plan!Derived, PlanOf
    <3> QED
      BY <2>4, <2>6, <3>1, ReturnedByKind
  <2> QED
    BY <1>4, <2>5, <2>6 DEF NeedsInput
<1> QED
  BY <1>2, <1>3, <1>4, OperatorFields DEF IInv, NeedsInput

\* The first execute that succeeds is a Deliver, later ones are a DeliverAgain.
LEMMA ExecuteRefines ==
    ASSUME IInv, NEW o \in DOMAIN ops, Execute(o)
    PROVE  [Plan!Next]_(Plan!vars)
<1>0. OperatorsTypeOK /\ UNCHANGED tables
  BY ExecuteType DEF IInv
<1>1. CASE ops' = ops
  BY <1>0, <1>1 DEF Plan!vars
<1>2. ASSUME NEW table \in Returned(o),
             ops'[o] = [ops[o] EXCEPT !.output = table, !.executed = @ \/ table # nullptr]
      PROVE  [Plan!Next]_(Plan!vars)
  <2>1. /\ ops'[o].kind = ops[o].kind /\ ops'[o].input = ops[o].input
        /\ ops'[o].arg = ops[o].arg
        /\ ops'[o].output = table
        /\ ops'[o].executed = (ops[o].executed \/ table # nullptr)
        /\ ops[o].executed \in BOOLEAN
    <3>1. ops[o] \in Operator
      BY <1>0, OperatorFields
    <3> QED
      BY <1>2, <3>1 DEF Operator
  <2>2. DOMAIN ops' = DOMAIN ops /\ \A p \in DOMAIN ops : p # o => ops'[p] = ops[p]
    BY <1>0, ExecuteType
  <2>3. PlanOf' = PlanOf
    BY <2>1, <2>2 DEF PlanOf
  <2>4. ResultOf' = [ResultOf EXCEPT ![o] = IF ops[o].executed \/ table # nullptr
                                            THEN table ELSE <<>>]
    BY <2>1, <2>2 DEF ResultOf
  <2>5. table \in Plan!Derived(o) /\ o \in DOMAIN PlanOf
    BY ReturnedIsDerived DEF PlanOf
  <2>6. CASE ~ops[o].executed /\ table = nullptr
    <3>1. ResultOf' = ResultOf
      BY <2>4, <2>6 DEF ResultOf
    <3> QED
      BY <1>0, <2>3, <3>1 DEF Plan!vars, PlanOf, ResultOf
  <2>7. CASE ~ops[o].executed /\ table # nullptr
    <3>1. ResultOf[o] = <<>> /\ ResultOf' = [ResultOf EXCEPT ![o] = table]
      BY <2>4, <2>7 DEF ResultOf
    <3>2. Plan!Deliver(o)
      BY <1>0, <2>3, <2>5, <2>7, <3>1 DEF Plan!Deliver, Plan!Pending, PlanOf, ResultOf
    <3> QED
      BY <2>5, <3>2 DEF Plan!Next, PlanOf
  <2>8. CASE ops[o].executed
    <3>1. ResultOf[o] # <<>>
      <4>1. ResultOf[o] = ops[o].output /\ ops[o].output \in TableOrNull
        BY <1>0, <2>8, OperatorFields DEF ResultOf
      <4>2. <<>> \notin Table
        BY DEF Table
      <4> QED
        BY <4>1, <4>2, OperatorsAssumption DEF TableOrNull
    <3>2. ResultOf' = [ResultOf EXCEPT ![o] = table]
      BY <2>4, <2>8
    <3>3. Plan!DeliverAgain(o)
      BY <1>0, <2>3, <2>5, <3>1, <3>2 DEF Plan!DeliverAgain, Plan!Pending, PlanOf, ResultOf
    <3> QED
      BY <2>5, <3>3 DEF Plan!Next, PlanOf
  <2> QED
    BY <2>1, <2>6, <2>7, <2>8
<1> QED
  BY <1>0, <1>1, <1>2, ExecuteType

\* What get_output gives is what QueryPlan promises to who builds a query.
THEOREM ImplementsPlanAlways == Spec => ImplementsPlan
<1>1. ASSUME IInv, [Next]_vars PROVE [Plan!Next]_(Plan!vars)
  <2>1. CASE ManagerCall
    BY <1>1, <2>1, ManagerRefines
  <2>2. CASE OperatorCall
    BY <1>1, <2>2, ConstructCases, ConstructRefines, ExecuteRefines DEF IInv
  <2>3. CASE UNCHANGED vars
    BY <2>3 DEF vars, Plan!vars
  <2> QED
    BY <1>1, <2>1, <2>2, <2>3 DEF Next
<1> QED
  BY <1>1, InitPlan, Inductive, PTL DEF Spec, ImplementsPlan, Plan!Spec
=============================================================================
