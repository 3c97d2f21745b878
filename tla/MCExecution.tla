------------------------------- MODULE MCExecution -------------------------------
(* Functions of two arguments, and the numbers they compute with. *)
EXTENDS Execution, MCPrograms

MCBits == [i1 |-> 1, i8 |-> 3, i16 |-> 4, i32 |-> 5, i64 |-> 6]

MCNumeral == {0, 1, 2, 3, 4, 7, 8, 15, 16, 31, 32, 63, 64}

Ordinary == {"PLUS", "SLASH", "LESS_THAN", "EQUALS_EQUALS"}

Result(op, type) == IF op \in Comparison THEN BOOL ELSE type

Takes(left, right, type, body) ==
    Tree(<< function("f", << arg("a", left), arg("b", right) >>, type, body) >>)

Returns(e) == << function_return(<< e >>) >>

\* The constants of the signed and of the unsigned types.
LiteralOf(type) == IF is_unsigned_int(type) THEN UintLit ELSE IntLit

\* Every operator on two arguments of one type; every comparison of two families.
OnArguments ==
    {Takes(s, t, Result(op, s), Returns(binary_op(op, Use("a"), Use("b")))) :
        op \in Arithmetic \cup Comparison, << s, t >> \in {<< INT8, INT8 >>, << UINT8, UINT8 >>}}
      \cup {Takes(INT8, UINT8, BOOL, Returns(binary_op(op, Use("a"), Use("b")))) : op \in Comparison}

OnBooleans ==
    {Takes(BOOL, BOOL, BOOL, Returns(binary_op(op, Use("a"), unary_op("NOT", Use("b"))))) :
        op \in Logical \cup {"EQUALS_EQUALS"}}

\* A literal gets its width from the operand beside it, or from the variable it
\* is assigned to; the operand of a negation from nobody.
OnLiterals ==
    {Takes(t, BOOL, Result(op, t), Returns(binary_op(op, Use("a"), LiteralOf(t)))) :
        op \in Ordinary, t \in {INT8, INT, INT64, UINT8, UINT64}}
      \cup {Takes(t, BOOL, Result(op, t), Returns(binary_op(op, unary_op("NEGATE", LiteralOf(t)), Use("a")))) :
        op \in Ordinary, t \in {INT, UINT64}}
      \cup {Takes(INT8, BOOL, BOOL, Returns(binary_op("LESS_THAN", Use("a"), UintLit)))}
      \cup {Takes(INT8, BOOL, t, << variable_declaration("c", t, << >>), variable_assignment("c", LiteralOf(t)) >>
                                    \o Returns(unary_op("NEGATE", Use("c")))) : t \in {INT8, INT, UINT8, INT64}}

\* Overflow on the way, through a variable, and behind a guard.
Chains ==
    {Takes(t, t, t, << variable_declaration("c", t, << binary_op(p, Use("a"), Use("b")) >>),
                       variable_assignment("a", binary_op(q, Use("c"), Use("b"))) >> \o Returns(Use("a"))) :
        p \in {"PLUS", "STAR"}, q \in {"MINUS", "SLASH"}, t \in {INT8, UINT8}}
      \cup {Takes(INT8, INT8, BOOL,
                  Returns(binary_op("AND", binary_op("NOT_EQUALS", Use("b"), IntLit),
                                           binary_op("EQUALS_EQUALS", binary_op("SLASH", Use("a"), Use("b")), Use("b")))))}
      \cup {Takes(BOOL, BOOL, BOOL, << variable_declaration("c", BOOL, << >>) >>
                                      \o Returns(binary_op("OR", TrueLit, Use("c"))))}

\* Values of the widths of all kinds, stored in variables of all widths.
Stores ==
    LET Stored(t, e) ==
          {<< variable_declaration("c", t, << e >>) >>,
           << variable_declaration("c", t, << >>), variable_assignment("c", e) >>}
        Values(s) == {LiteralOf(s), unary_op("NEGATE", LiteralOf(s)), Use("a"), binary_op("PLUS", Use("a"), LiteralOf(s)),
                      binary_op("PLUS", LiteralOf(s), LiteralOf(s))}
    IN  UNION {{Takes(s, BOOL, t, body \o Returns(Use("c"))) : body \in UNION {Stored(t, e) : e \in Values(s)}} :
                << s, t >> \in ({INT8, INT} \X {INT8, INT, INT64}) \cup {<< UINT8, UINT64 >>, << UINT64, UINT64 >>}}

ExecutedPrograms == OnArguments \cup OnBooleans \cup OnLiterals \cup Chains \cup Stores
================================================================================
