------------------------------ MODULE DataTypes ------------------------------
(***************************************************************************)
(* The values a column holds (all_type_variant.hpp, type_cast.hpp,         *)
(* null_value.hpp, resolve_type.hpp).  The five column types of the code   *)
(* are abstracted to the members of DataType; what the storage engine does *)
(* with a value of any of them is compare it, so values are integers whose *)
(* order stands for the type's operator<, and T{} is 0.                    *)
(***************************************************************************)
EXTENDS Integers, FiniteSets

CONSTANTS
    DataType,     \* the types resolve_data_type knows
    Values,       \* the values of those types that occur
    Variants,     \* the non-NULL AllTypeVariants a caller passes
    NULL,         \* NULL_VALUE, the boost::blank alternative of the variant
    CastError,    \* stands for the exception of a failed type_cast
    TypeCast      \* type_cast<T>(variant), a value or CastError

\* T{}: 0 for the numeric types, "" (the least string) for std::string.
DefaultValue == 0

\* What Table::append is handed for one column.
AllTypeVariant == Variants \cup {NULL}

\* A logical cell: a value of the column's type, or NULL.
Cell == Values \cup {NULL}

ASSUME DataTypesAssumption ==
    /\ Values \subseteq Int
    /\ IsFiniteSet(Values)
    /\ DefaultValue \in Values
    /\ NULL \notin Values
    /\ NULL \notin Variants
    /\ CastError \notin Values
    /\ TypeCast \in [DataType \X Variants -> Values \cup {CastError}]
=============================================================================
