------------------------------- MODULE ChaTypes -------------------------------
(***************************************************************************)
(* The primitive types of the cha language and the rules TypeUtils gives   *)
(* for combining them (src/src/ast.hpp, src/src/validate.cpp), and the     *)
(* LLVM type the code generator picks for each (src/src/codegen.cpp).      *)
(*                                                                         *)
(* A type is the value of its enumerator, so the range tests of the code   *)
(* (CONST_INT <= type <= INT64) are the range tests of the model.          *)
(***************************************************************************)
EXTENDS Integers

UNDEF       == -1
CONST_INT   == 0
INT         == 1
INT8        == 2
INT16       == 3
INT32       == 4
INT64       == 5
CONST_UINT  == 6
UINT        == 7
UINT8       == 8
UINT16      == 9
UINT32      == 10
UINT64      == 11
CONST_FLOAT == 12
FLOAT16     == 13
FLOAT32     == 14
FLOAT64     == 15
BOOL        == 16

PrimitiveType == UNDEF .. BOOL

\* A node whose result_type_ is still the null pointer.
NoType == -2

ResultType == PrimitiveType \cup {NoType}

is_signed_int(type) == type \in CONST_INT .. INT64

is_unsigned_int(type) == type \in CONST_UINT .. UINT64

is_float(type) == type \in CONST_FLOAT .. FLOAT64

is_numeric(type) == is_signed_int(type) \/ is_unsigned_int(type) \/ is_float(type)

\* The types of literals before their context fixes them.
ConstType == {CONST_INT, CONST_UINT, CONST_FLOAT}

\* The three families between which no value ever moves implicitly.
same_family(left, right) ==
    \/ is_signed_int(left)   /\ is_signed_int(right)
    \/ is_unsigned_int(left) /\ is_unsigned_int(right)
    \/ is_float(left)        /\ is_float(right)

\* A wrong variant, across families, that the properties must notice.
convert_any_types(left, right) ==
    IF ~(is_numeric(left) /\ is_numeric(right)) THEN UNDEF
    ELSE IF left > right THEN left ELSE right

\* The later enumerator of the two, within one family.
convert_arithmetic_types(left, right) ==
    IF ~same_family(left, right) THEN UNDEF
    ELSE IF left > right THEN left ELSE right

\* The code's rule for constants (CONST_INT to any signed type, ...) is the
\* family rule with one side constant, and only BOOL itself goes to BOOL.
is_assignment_compatible(from, to) ==
    /\ from # UNDEF
    /\ to # UNDEF
    /\ \/ from = to  /\ from \notin ConstType
       \/ from # to  /\ same_family(from, to)

\* Also is_equality_comparison_compatible, which only calls it.  Two operands
\* of one and the same constant type do not compare; two of different
\* families do.
is_numeric_comparison_compatible(left, right) ==
    /\ left # UNDEF
    /\ right # UNDEF
    /\ \/ left = right /\ left \notin ConstType
       \/ left # right /\ is_numeric(left) /\ is_numeric(right)

\* Gives node n the type its context asks for, if it is still a constant's.
set_type_on_const(types, n, type) ==
    IF types[n] \in ConstType THEN [types EXCEPT ![n] = type] ELSE types

\* The answer of Validator::check_type_assignment; when it is yes, the code
\* also calls set_type_on_const(value, expected).
check_type_assignment(type, expected) ==
    /\ type # NoType
    /\ is_assignment_compatible(type, expected)

-------------------------------------------------------------------------------
(* LLVM types, by their names in the IR. *)

IntegerTy == {"i1", "i8", "i16", "i32", "i64"}

FloatingPointTy == {"half", "float", "double"}

LlvmType == IntegerTy \cup FloatingPointTy \cup {"void", "ptr"}

primitive_to_llvm_type(type) ==
    CASE type = BOOL                              -> "i1"
      [] type \in {INT8, UINT8}                   -> "i8"
      [] type \in {INT16, UINT16}                 -> "i16"
      [] type \in {INT32, INT, UINT32, UINT}      -> "i32"
      [] type \in {INT64, CONST_INT, UINT64, CONST_UINT} -> "i64"
      [] type = FLOAT16                           -> "half"
      [] type = FLOAT32                           -> "float"
      [] type \in {FLOAT64, CONST_FLOAT}          -> "double"
      [] type = UNDEF                             -> "void"

\* The integer types a literal's own result type selects; any other result
\* type leaves the visitor's default width.
SizedInteger == (INT .. INT64) \cup (UINT .. UINT64)

\* A wrong variant: every integer literal has the default width.
constant_integer_32(type) == "i32"

constant_integer_type(type) ==
    IF type \in SizedInteger THEN primitive_to_llvm_type(type) ELSE "i32"

constant_unsigned_type(type) ==
    IF type \in SizedInteger THEN primitive_to_llvm_type(type) ELSE "i64"
===============================================================================
