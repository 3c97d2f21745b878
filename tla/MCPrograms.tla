------------------------------- MODULE MCPrograms -------------------------------
(***************************************************************************)
(* Small programs of the language, for the runs.                           *)
(***************************************************************************)
EXTENDS AstBuilder

IntLit == const_value("ConstantInteger")
UintLit == const_value("ConstantUnsignedInteger")
FloatLit == const_value("ConstantFloat")
TrueLit == const_value("ConstantBool")
Use(x) == variable_lookup(x)
Call(f) == function_call(f, << >>)

Void(f, body) == function(f, << >>, UNDEF, body)

Lists(S, n) == UNION {[1 .. k -> S] : k \in 0 .. n}

-------------------------------------------------------------------------------
(***************************************************************************)
(* One expression in every kind of place, in a function main(a int8) int8  *)
(* that follows const c = 1 and fun u(x uint) uint.                        *)
(***************************************************************************)

Atoms == {IntLit, UintLit, FloatLit, TrueLit, Use("a"), Use("c"), Use("u"), Use("z"),
          Call("v"), Call("a"), Call("z")}

Combined(left, right) ==
    {binary_op(op, l, r) : op \in {"PLUS", "LESS_THAN", "EQUALS_EQUALS", "AND"}, l \in left, r \in right}

Negated(S) == {unary_op(op, e) : op \in UnaryOperator, e \in S}

Operand == {IntLit, UintLit, FloatLit, TrueLit, Use("a"), Use("c"), Use("z")}

Shallow == Atoms \cup Combined(Operand, Operand) \cup Negated(Atoms)
               \cup {function_call("u", << e >>) : e \in Atoms}
               \cup {function_call("u", << UintLit, e >>) : e \in {UintLit, Use("z")}}

Simple == {IntLit, UintLit, FloatLit, TrueLit, Use("a")}

Deep == Combined(Combined(Simple, Simple) \cup Negated(Simple), {FloatLit, TrueLit, Use("a")})
          \cup {binary_op("PLUS", Use("a"), e) : e \in Combined(Simple, Simple)}

Around(statements) ==
    Tree(<< const_definition("c", IntLit),
            function("u", << arg("x", UINT) >>, UINT, << function_return(<< Use("x") >>) >>),
            Void("v", << function_return(<< >>) >>),
            function("main", << arg("a", INT8) >>, INT8, statements) >>)

Places(e) == {<< e >>,
              << variable_declaration("b", INT8, << e >>) >>,
              << variable_assignment("a", e) >>,
              << variable_declaration("b", INT8, << >>), variable_assignment("b", e) >>,
              << function_return(<< e >>) >>,
              << if_statement(e, << >>, << >>) >>,
              << function_call("u", << e >>) >>}

ExpressionPrograms ==
    {Around(s) : s \in UNION {Places(e) : e \in Shallow}}
      \cup {Around(<< variable_declaration("b", INT8, << >>), variable_assignment("b", e) >>) : e \in Deep}
      \cup {Around(<< function_return(<< >>) >>)}

-------------------------------------------------------------------------------
(***************************************************************************)
(* Declarations of x against its uses, in nested blocks of one function.   *)
(***************************************************************************)

Basic == {variable_declaration("x", INT8, << >>),
          variable_declaration("x", FLOAT64, << Use("x") >>),
          variable_assignment("x", IntLit),
          Use("x")}

Nested == {if_statement(TrueLit, << s >>, << >>) : s \in Basic}
          \cup {if_statement(TrueLit, << s >>, << t >>) : s, t \in Basic}
          \cup {if_statement(TrueLit, << s, if_statement(TrueLit, << t >>, << >>) >>, << >>) : s, t \in Basic}
          \cup {if_statement(Use("x"), << >>, << >>)}

BlockBodies == Lists(Basic \cup Nested, 2) \cup {<< s, n, t >> : s \in Basic, n \in Nested, t \in Basic}

BlockPrograms ==
    {Tree(<< Void("f", body) >>) : body \in BlockBodies}
      \cup {Tree(<< const_definition("x", IntLit), function("f", << arg("x", BOOL) >>, UNDEF, body) >>) :
              body \in Lists(Basic \cup Nested, 1)}

(***************************************************************************)
(* The order of top-level declarations against what they use.              *)
(***************************************************************************)

Instructions == {const_definition("x", IntLit), const_definition("f", TrueLit),
             Void("f", << >>),
             function("f", << arg("x", INT), arg("x", INT) >>, INT, << function_return(<< Use("x") >>) >>),
             function("x", << >>, INT, << function_return(<< IntLit >>) >>),
             Void("g", << Call("f"), Use("x") >>),
             Void("g", << variable_declaration("f", BOOL, << >>), Call("f"), Call("x") >>),
             Void("h", << variable_assignment("x", TrueLit), variable_assignment("f", IntLit) >>)}

TopLevelPrograms == {Tree(t) : t \in Lists(Instructions, 3) \ {<< >>}}
================================================================================
