------------------------------- MODULE MCCompiler -------------------------------
(* The programs the compiler is run on. *)
EXTENDS CompilerProperties, MCPrograms

Assign(x, e) == variable_assignment(x, e)

Ret(e) == function_return(<< e >>)

If(then_block, else_block) == if_statement(Use("b"), then_block, else_block)

-------------------------------------------------------------------------------
(***************************************************************************)
(* Values of every width, combined in every way, in every kind of place.   *)
(***************************************************************************)

Types == {INT8, INT, UINT, INT64, FLOAT32, FLOAT64, BOOL}

Typed == {IntLit, UintLit, FloatLit, TrueLit, Use("a"), Call("f")}

TypedExpressions ==
    Typed \cup Negated(Typed) \cup Combined(Typed, Typed)
      \cup Negated(Negated({IntLit, FloatLit})) \cup {function_call("g", << e >>) : e \in Typed}
      \cup {binary_op("PLUS", Use("a"), e) : e \in Negated(Typed) \cup Combined({IntLit}, {IntLit})}

TypedPlaces(type, e) ==
    {<< Ret(e) >>,
     << variable_declaration("v", type, << e >>), Ret(Use("v")) >>,
     << variable_declaration("v", type, << >>), Assign("v", e) >>,
     << Assign("a", e), e >>}

TypedPrograms ==
    {Tree(<< function("f", << >>, INT, << Ret(IntLit) >>),
             function("g", << arg("a", INT8) >>, INT8, << >>),
             function("h", << arg("a", type) >>, type, body) >>) :
       << type, body >> \in UNION {{t} \X TypedPlaces(t, e) : t \in Types, e \in TypedExpressions}}

-------------------------------------------------------------------------------
(***************************************************************************)
(* Control flow, declarations in blocks, and returns.                      *)
(***************************************************************************)

Steps == {variable_declaration("x", INT, << Use("x") >>), Assign("x", Use("x")), Ret(Use("x"))}

Branches == {If(p, q) : p, q \in Lists(Steps, 1)}

DeepBranches == {If(<< i >>, q) : i \in Branches, q \in Lists(Steps, 1)}
                  \cup {If(q, << i >>) : i \in Branches, q \in Lists(Steps, 1)}

FlowBodies ==
    Lists(Steps, 2)
      \cup {<< i >> \o q : i \in Branches \cup DeepBranches, q \in Lists(Steps, 1)}
      \cup {<< s, i, s >> : s \in Steps, i \in Branches}
      \cup {<< i, j >> : i, j \in {If(p, q) : p, q \in {<< s >> : s \in Steps}}}

FlowPrograms ==
    {Tree(<< function("f", << arg("x", INT), arg("b", BOOL) >>, INT, body) >>) : body \in FlowBodies}

\* A variable left over from a block, wider or narrower than what it hides.
LeftOver(outer, inner) ==
    Tree(<< function("f", << arg("x", outer), arg("b", BOOL) >>, inner,
                     << If(<< variable_declaration("x", inner, << >>) >>, << Ret(IntLit) >>),
                        Ret(Use("x")) >>) >>)

LeftOverPrograms == {LeftOver(t[1], t[2]) : t \in {INT8, INT64} \X {INT8, INT64}}

-------------------------------------------------------------------------------
(***************************************************************************)
(* What top-level names mean to functions before and after them.           *)
(***************************************************************************)

Parts == {const_definition("x", IntLit),
          function("f", << >>, INT, << Ret(IntLit) >>),
          function("f", << arg("x", INT) >>, INT, << Ret(Use("x")) >>),
          function("g", << >>, INT, << Ret(Call("f")) >>),
          function("g", << >>, INT, << Ret(Use("x")) >>),
          function("g", << arg("x", INT) >>, INT, << Ret(function_call("f", << Use("x") >>)) >>),
          function("main", << >>, INT, << Ret(Call("main")) >>),
          function("main", << >>, INT, << variable_declaration("x", INT, << Call("g") >>), Ret(Use("x")) >>),
          Void("v", << Assign("x", IntLit) >>),
          Void("v", << Assign("f", IntLit) >>),
          Void("main", << Call("v") >>)}

PartPrograms == {Tree(t) : t \in Lists(Parts, 3) \ {<< >>}}

AllPrograms == TypedPrograms \cup FlowPrograms \cup LeftOverPrograms \cup PartPrograms

-------------------------------------------------------------------------------
(* Programs of the documentation and of the tests. *)

\* README.md, "Constants".
TimesTen ==
    {Tree(<< const_definition("x", IntLit),
             function("f", << arg("a", INT) >>, INT, << Ret(binary_op("STAR", Use("a"), Use("x"))) >>) >>)}

\* A function calls one that comes later.
CallsLater ==
    {Tree(<< function("main", << >>, INT, << Ret(Call("f")) >>),
             function("f", << >>, INT, << Ret(IntLit) >>) >>)}

\* A child scope shadows a name of its parent, and ends.
Shadowing ==
    {Tree(<< function("f", << arg("x", INT), arg("b", BOOL) >>, INT,
                      << If(<< variable_declaration("x", INT, << >>) >>, << Ret(IntLit) >>),
                         Ret(Use("x")) >>) >>)}

\* test/integration/type_assign_passes.cha, the first assignment to b.
AssignsNegative ==
    {Tree(<< Void("f", << variable_declaration("b", INT8, << >>),
                          Assign("b", unary_op("NEGATE", IntLit)) >>) >>)}
================================================================================
