-------------------------------- MODULE MCParser --------------------------------
(***************************************************************************)
(* Files for the parser: programs, printed, and texts no program prints.   *)
(***************************************************************************)
EXTENDS ParserProperties, AstBuilder

MCName == {"f", "x", "y", "x_ff", "ifx", "ret1"}
MCLetter == {"e", "f", "u", "x", "y", "_"}

-------------------------------------------------------------------------------
(* Printing. *)

\* The table of precedences in README.md, from the highest.
Rank(node) ==
    CASE node.op \in {"NOT", "NEGATE"}                    -> 7
      [] node.op \in {"STAR", "SLASH"}                    -> 6
      [] node.op \in {"PLUS", "MINUS"}                    -> 5
      [] node.op \in Comparison \ {"EQUALS_EQUALS", "NOT_EQUALS"} -> 4
      [] node.op \in {"EQUALS_EQUALS", "NOT_EQUALS"}      -> 3
      [] node.op = "AND"                                  -> 2
      [] node.op = "OR"                                   -> 1
      [] node.op = "none"                                 -> 8

Spelling ==
    [PLUS |-> << "+" >>, MINUS |-> << "-" >>, STAR |-> << "*" >>, SLASH |-> << "/" >>,
     EQUALS_EQUALS |-> << "=", "=" >>, NOT_EQUALS |-> << "!", "=" >>, GREATER_THAN |-> << ">" >>,
     GREATER_THAN_OR_EQUALS |-> << ">", "=" >>, LESS_THAN |-> << "<" >>,
     LESS_THAN_OR_EQUALS |-> << "<", "=" >>, AND |-> << "&", "&" >>, OR |-> << "|", "|" >>,
     NOT |-> << "!" >>, NEGATE |-> << "-" >>,
     ConstantInteger |-> << "1", "0" >>, ConstantUnsignedInteger |-> << "0", "x", "f", "u" >>,
     ConstantFloat |-> << "1", ".", "e", "+", "1" >>, ConstantBool |-> << "true" >>]

TypeWord(type) == << CHOOSE w \in DOMAIN type_named : type_named[w] = type >>

Separated(parts, separator) ==
    FoldLeft(LAMBDA text, part : IF text = << >> THEN part ELSE text \o separator \o part, << >>, parts)

RECURSIVE Text(_)

Within(node, rank) == IF Rank(node) < rank THEN << "(" >> \o Text(node) \o << ")" >> ELSE Text(node)

Texts(list, separator) == Separated([i \in DOMAIN list |-> Text(list[i])], separator)

Block(list) ==
    IF list = << >> THEN << "{", "}" >>
    ELSE << "{", "\n", "\t" >> \o Texts(list, << "\n", "\t" >>) \o << "\n", "}" >>

Text(node) ==
    LET name == << node.name >> IN
    CASE node.kind \in Literal -> Spelling[node.kind]
      [] node.kind = "VariableLookup" -> name
      [] node.kind = "FunctionCall" -> name \o << "(" >> \o Texts(node.operands, << ",", " " >>) \o << ")" >>
      [] node.kind = "BinaryOp" ->
            Within(node.operands[1], Rank(node)) \o << " " >> \o Spelling[node.op] \o << " " >>
              \o Within(node.operands[2], Rank(node) + 1)
      [] node.kind = "UnaryOp" -> Spelling[node.op] \o Within(node.operands[1], Rank(node))
      [] node.kind = "VariableDeclaration" ->
            << "var", " " >> \o name \o << " " >> \o TypeWord(node.type)
              \o (IF has_value(node) THEN << " ", "=", " " >> \o Text(node.operands[1]) ELSE << >>)
      [] node.kind = "VariableAssignment" -> name \o << " ", "=", " " >> \o Text(node.operands[1])
      [] node.kind = "FunctionReturn" ->
            << "ret" >> \o (IF has_value(node) THEN << " " >> \o Text(node.operands[1]) ELSE << >>)
      [] node.kind = "If" ->
            << "if", " " >> \o Text(node.operands[1]) \o << " " >> \o Block(node.body)
              \o (IF has_else(node) THEN << " ", "else", " " >> \o Block(node.orelse) ELSE << >>)
      [] node.kind = "Argument" -> name \o << " " >> \o TypeWord(node.type)
      [] node.kind = "ConstantDeclaration" ->
            << "const", " " >> \o name \o << " ", "=", " " >> \o Text(node.operands[1])
      [] node.kind = "FunctionDeclaration" ->
            << "fun", " " >> \o name \o << "(" >> \o Texts(node.params, << ",", " " >>) \o << ")", " " >>
              \o (IF node.type = UNDEF THEN << >> ELSE TypeWord(node.type) \o << " " >>)
              \o Block(node.body)

-------------------------------------------------------------------------------
(* Programs. *)

X == variable_lookup("x")
One == const_value("ConstantInteger")
Leaf == {X, const_value("ConstantFloat"), function_call("f", << >>)}
Binary == Operator \ UnaryOperator

Expressions ==
    {binary_op(p, binary_op(q, X, One), X) : p, q \in Binary}
      \cup {binary_op(p, X, binary_op(q, One, X)) : p, q \in Binary}
      \cup {unary_op(p, binary_op(q, X, X)) : p \in UnaryOperator, q \in Binary}
      \cup {binary_op(q, unary_op(p, X), unary_op("NEGATE", X)) : p \in UnaryOperator, q \in Binary}
      \cup {unary_op(p, unary_op(q, e)) : p, q \in UnaryOperator, e \in Leaf}
      \cup {function_call("f", << e, unary_op("NEGATE", e), binary_op("PLUS", e, One) >>) : e \in Leaf}

Statements ==
    {X, function_call("f", << X >>), const_value("ConstantUnsignedInteger"), unary_op("NEGATE", X),
     binary_op("STAR", binary_op("PLUS", X, One), One),
     variable_declaration("y", INT, << >>), variable_declaration("y", BOOL, << X >>),
     variable_assignment("x", One), function_return(<< >>), function_return(<< X >>),
     if_statement(X, << >>, << >>), if_statement(X, << X >>, << One, function_return(<< >>) >>)}

Void(body) == function("f", << >>, UNDEF, body)

Functions ==
    {function("f", args, type, body) :
        args \in {<< >>, << arg("x", INT) >>, << arg("x", UINT8), arg("y", FLOAT64) >>},
        type \in {UNDEF, INT16}, body \in {<< >>, << X >>}}

Programs ==
    {<< Void(<< function_return(<< e >>) >>) >> : e \in Expressions}
      \cup {<< Void(<< s, t >>) >> : s, t \in Statements}
      \cup {<< f >> : f \in Functions}
      \cup {<< const_definition("x", const_value(k)), Void(<< >>), const_definition("y", One) >> : k \in Literal}

\* The next line goes on where the statement could end.
GoesOn(statement, next) ==
    \/ /\ \/ statement.kind \in Expression \cup {"VariableAssignment"}
          \/ statement.kind \in {"VariableDeclaration", "FunctionReturn"} /\ has_value(statement)
       /\ \/ Text(next)[1] = "-"
          \/ Text(next)[1] = "(" /\ Last(Text(statement)) \in MCName
    \/ statement = function_return(<< >>) /\ next.kind \in Expression \cup {"VariableAssignment"}

-------------------------------------------------------------------------------
(* Texts. *)

Main(pieces) == << "fun", " ", "f", "(", ")", "{" >> \o pieces \o << "}", "\n" >>

NoTree == Tree(<< >>)

\* A file, and the tree of the program it is.
TextFile(text, program) == [content |-> [kind |-> "text", text |-> text], tree |-> Tree(program)]

Wide == const_value("ConstantUnsignedInteger")
Real == const_value("ConstantFloat")

\* Words that are two tokens, or one, and the statements they are.
Words ==
    {<< << "0", "1" >>, << One, One >> >>,
     << << "0", "x" >>, << One, X >> >>,
     << << "1", "u", "8" >>, << Wide, One >> >>,
     << << "1", ".", ".", "1" >>, << Real, Real >> >>,
     << << "x", "_", "f", "f", "x" >>, << variable_lookup("x_ff"), X >> >>,
     << << "if", "x" >>, << variable_lookup("ifx") >> >>,
     << << "ret", "1" >>, << variable_lookup("ret1") >> >>}

Remark == << "/", "/", " ", "x" >>

Constant == << const_definition("x", One) >>

ConstantText == Text(Constant[1])

NoNewline == TextFile(ConstantText, Constant)
Remarked == TextFile(Remark \o << "\n", "\n" >> \o ConstantText \o Remark \o << "\n" >>, Constant)
EndsInRemark == TextFile(ConstantText \o << "\n" >> \o Remark, Constant)

\* Syntax errors in the middle, at the end of a line and at the end of the
\* file, a character no rule matches, and files without a text.
Broken ==
    {TextFile(<< "fun", "\n", "x", "x" >>, << >>),
     TextFile(<< "const", " ", "x", "\n" >> \o ConstantText \o << "\n" >>, << >>),
     TextFile(<< "fun", " ", "f", "(", ")", "\n" >>, << >>),
     TextFile(<< "fun", " ", "f" >>, << >>),
     TextFile(<< "x", "&", "y" >>, << >>),
     TextFile(<< >>, << >>),
     [content |-> [kind |-> "missing", text |-> << >>], tree |-> NoTree],
     [content |-> [kind |-> "unreadable", text |-> << >>], tree |-> NoTree]}

PrintedFile(p) == TextFile(Texts(p, << "\n" >>) \o << "\n" >>, p)

Several == {NoNewline, Remarked, EndsInRemark} \cup Broken

MCFile ==
    {PrintedFile(p) : p \in Programs} \cup {TextFile(Main(w[1]), << Void(w[2]) >>) : w \in Words} \cup Several

MCContent == [f \in MCFile |-> f.content]
MCMeaning == [f \in {g \in MCFile : g.tree # NoTree} |-> f.tree]
MCFused ==
    {PrintedFile(p) : p \in {q \in Programs :
        \E i \in DOMAIN q : \E k \in 1 .. Len(q[i].body) - 1 : GoesOn(q[i].body[k], q[i].body[k + 1])}}
MCEndInComment == {EndsInRemark}

MCSessions ==
    {<< f >> : f \in MCFile} \cup
    {<< f, g >> \o s : f, g \in Several, s \in {<< >>, << NoNewline >>, << Remarked >>}}

\* Files without an error, except for the one that ends in a comment.
FineSessions ==
    {<< f >> \o s : f \in {NoNewline, Remarked, EndsInRemark}, s \in {<< >>, << NoNewline >>, << Remarked >>}}
================================================================================
