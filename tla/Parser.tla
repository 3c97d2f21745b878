--------------------------------- MODULE Parser ---------------------------------
(***************************************************************************)
(* parse (src/src/parser.y), called for one file after another in the same *)
(* process: the grammar and its actions, which build the tree; the parser  *)
(* bison makes of them, which shifts and reduces; and what parse and the   *)
(* scanner leave in their global variables.                                *)
(*                                                                         *)
(* bison's tables are computed here from the grammar: a state is the       *)
(* kernel of its items, a state that can neither shift nor reduce is a     *)
(* syntax error, and where it can do both the declared precedences decide, *)
(* or else it shifts.  No two rules are ever complete in one state.        *)
(*                                                                         *)
(* right_associative, yyval_before, yyerror_returns and                    *)
(* yyerror_but_at_the_end are wrong on purpose: each stands for a bug that *)
(* one of the properties must notice.                                      *)
(***************************************************************************)
EXTENDS Scanner

CONSTANTS File,
          Content,      \* what is at each file's name
          Sessions      \* the sequences of files a process may parse

ASSUME ContentIsContent ==
    /\ Content \in [File -> [kind : {"missing", "unreadable", "text"}, text : Seq(STRING)]]
    /\ Sessions \subseteq Seq(File)

VARIABLES session,          \* the files to parse
          phase,            \* "idle", "parsing" or "exited"
          current_file,     \* a name, or NoFile
          open_files,       \* FILEs opened and not closed
          stack,            \* bison's states, symbols and their values
          nodes,            \* the nodes made so far
          lines,            \* and the line each begins in
          parsed_ast,       \* the top-level list
          returned          \* what each call of parse returned or threw

parser == << stack, nodes, lines, parsed_ast >>

vars == << flex, lookahead, session, phase, current_file, open_files, parser, returned >>

NoFile == << >>

-------------------------------------------------------------------------------
(* The grammar. *)

BinaryToken == {"PLUS", "MINUS", "STAR", "SLASH", "EQUALS_EQUALS", "NOT_EQUALS",
                "GREATER_THAN", "GREATER_THAN_OR_EQUALS", "LESS_THAN", "LESS_THAN_OR_EQUALS",
                "AND", "OR"}

LiteralToken == {"INTEGER", "UINTEGER", "FLOAT", "BOOL"}

rule(lhs, rhs) == [lhs |-> lhs, rhs |-> rhs]

\* The alternatives that are not one for each of several tokens.
Alternative ==
    [accept |-> rule("accept", << "parse", "EOF" >>),
     parse |-> rule("parse", << "top_level" >>),
     top_level |-> rule("top_level", << "instruction" >>),
     top_level_more |-> rule("top_level", << "top_level", "instruction" >>),
     instruction_const |-> rule("instruction", << "const_definition" >>),
     instruction_fun |-> rule("instruction", << "function" >>),
     const_definition |-> rule("const_definition", << "KEYWORD_CONST", "IDENTIFIER", "EQUALS", "const_value" >>),
     function |-> rule("function", << "KEYWORD_FUN", "IDENTIFIER", "OPEN_PAR", "CLOSE_PAR", "block" >>),
     function_args |-> rule("function", << "KEYWORD_FUN", "IDENTIFIER", "OPEN_PAR", "def_args", "CLOSE_PAR", "block" >>),
     function_type |-> rule("function", << "KEYWORD_FUN", "IDENTIFIER", "OPEN_PAR", "CLOSE_PAR", "reftype", "block" >>),
     function_args_type |-> rule("function", << "KEYWORD_FUN", "IDENTIFIER", "OPEN_PAR", "def_args", "CLOSE_PAR", "reftype", "block" >>),
     block |-> rule("block", << "OPEN_CUR", "statements", "CLOSE_CUR" >>),
     block_empty |-> rule("block", << "OPEN_CUR", "CLOSE_CUR" >>),
     arg |-> rule("arg", << "IDENTIFIER", "reftype" >>),
     def_args |-> rule("def_args", << "arg" >>),
     def_args_more |-> rule("def_args", << "def_args", "COMMA", "arg" >>),
     call_args |-> rule("call_args", << "expr" >>),
     call_args_more |-> rule("call_args", << "call_args", "COMMA", "expr" >>),
     statements |-> rule("statements", << "statement" >>),
     statements_more |-> rule("statements", << "statements", "statement" >>),
     var |-> rule("statement", << "KEYWORD_VAR", "IDENTIFIER", "reftype" >>),
     var_value |-> rule("statement", << "KEYWORD_VAR", "IDENTIFIER", "reftype", "EQUALS", "expr" >>),
     assignment |-> rule("statement", << "IDENTIFIER", "EQUALS", "expr" >>),
     expression |-> rule("statement", << "expr" >>),
     ret_value |-> rule("statement", << "KEYWORD_RET", "expr" >>),
     ret |-> rule("statement", << "KEYWORD_RET" >>),
     if |-> rule("statement", << "KEYWORD_IF", "expr", "block" >>),
     if_else |-> rule("statement", << "KEYWORD_IF", "expr", "block", "KEYWORD_ELSE", "block" >>),
     literal |-> rule("expr", << "const_value" >>),
     lookup |-> rule("expr", << "IDENTIFIER" >>),
     call |-> rule("expr", << "IDENTIFIER", "OPEN_PAR", "CLOSE_PAR" >>),
     call_with_args |-> rule("expr", << "IDENTIFIER", "OPEN_PAR", "call_args", "CLOSE_PAR" >>),
     NOT |-> rule("expr", << "EXCLAMATION", "expr" >>),
     NEGATE |-> rule("expr", << "MINUS", "expr" >>),
     parentheses |-> rule("expr", << "OPEN_PAR", "expr", "CLOSE_PAR" >>),
     reftype |-> rule("reftype", << "TYPE" >>)]

Grammar ==
    [r \in DOMAIN Alternative \cup BinaryToken \cup LiteralToken |->
        IF r \in BinaryToken THEN rule("expr", << "expr", r, "expr" >>)
        ELSE IF r \in LiteralToken THEN rule("const_value", << r >>)
        ELSE Alternative[r]]

Rule == DOMAIN Grammar

NodeRule == {"const_definition", "function", "function_args", "function_type",
             "function_args_type", "arg", "var", "var_value", "assignment", "ret_value", "ret",
             "if", "if_else", "lookup", "call", "call_with_args", "NOT", "NEGATE"}
              \cup BinaryToken \cup LiteralToken

\* The node an action makes of the values of the symbols.
node_of(r, v) ==
    CASE r = "const_definition"   -> const_definition(v[2], v[4])
      [] r = "function"           -> function(v[2], << >>, UNDEF, v[5])
      [] r = "function_args"      -> function(v[2], v[4], UNDEF, v[6])
      [] r = "function_type"      -> function(v[2], << >>, v[5], v[6])
      [] r = "function_args_type" -> function(v[2], v[4], v[6], v[7])
      [] r = "arg"                -> arg(v[1], v[2])
      [] r = "var"                -> variable_declaration(v[2], v[3], << >>)
      [] r = "var_value"          -> variable_declaration(v[2], v[3], << v[5] >>)
      [] r = "assignment"         -> variable_assignment(v[1], v[3])
      [] r = "ret_value"          -> function_return(<< v[2] >>)
      [] r = "ret"                -> function_return(<< >>)
      [] r = "if"                 -> if_statement(v[2], v[3], << >>)
      [] r = "if_else"            -> if_statement(v[2], v[3], v[5])
      [] r = "lookup"             -> variable_lookup(v[1])
      [] r = "call"               -> function_call(v[1], << >>)
      [] r = "call_with_args"     -> function_call(v[1], v[3])
      [] r \in BinaryToken        -> binary_op(r, v[1], v[3])
      [] r \in {"NOT", "NEGATE"}  -> unary_op(r, v[2])
      [] r = "INTEGER"            -> const_value("ConstantInteger")
      [] r = "UINTEGER"           -> const_value("ConstantUnsignedInteger")
      [] r = "FLOAT"              -> const_value("ConstantFloat")
      [] r = "BOOL"               -> const_value("ConstantBool")

\* What an action that makes no node passes on: lists grow at their end.
passed_on(r, v) ==
    CASE r \in {"top_level", "statements", "def_args", "call_args"} -> << v[1] >>
      [] r \in {"def_args_more", "call_args_more"}                  -> Append(v[1], v[3])
      [] r \in {"top_level_more", "statements_more"}                -> Append(v[1], v[2])
      [] r = "block_empty"                                          -> << >>
      [] r \in {"block", "parentheses"}                             -> v[2]
      [] OTHER                                                      -> v[1]

\* The declared precedences, from the lowest.
Level(symbol_name) ==
    CASE symbol_name = "OR"                                                  -> 1
      [] symbol_name = "AND"                                                 -> 2
      [] symbol_name \in {"EQUALS_EQUALS", "NOT_EQUALS"}                     -> 3
      [] symbol_name \in {"GREATER_THAN", "GREATER_THAN_OR_EQUALS",
                          "LESS_THAN", "LESS_THAN_OR_EQUALS"}                -> 4
      [] symbol_name \in {"PLUS", "MINUS"}                                   -> 5
      [] symbol_name \in {"STAR", "SLASH"}                                   -> 6
      [] symbol_name \in {"NOT", "NEGATE"}                                   -> 7
      [] OTHER                                                               -> 0

-------------------------------------------------------------------------------
(* bison's states. *)

item(r, dot) == [rule |-> r, dot |-> dot]

Complete(i) == i.dot = Len(Grammar[i.rule].rhs)

\* The symbol behind the dot.
Expected(i) == Grammar[i.rule].rhs[i.dot + 1]

Nonterminal == {Grammar[r].lhs : r \in Rule}

\* << X, Y >> if a text of X may begin with a Y, through at most n rules.
corners[n \in Nat] ==
    IF n = 0 THEN {<< X, X >> : X \in Nonterminal}
    ELSE LET nearer == corners[n - 1] IN
         nearer \cup UNION {{<< c[1], Grammar[r].rhs[1] >> : r \in {q \in Rule : Grammar[q].lhs = c[2]}} :
                             c \in nearer}

\* The rules that may begin where X is expected.
Begins ==
    LET Corners == corners[Cardinality(Nonterminal)] IN
    [X \in Nonterminal |-> {r \in Rule : << X, Grammar[r].lhs >> \in Corners}]

closure(kernel) ==
    kernel \cup {item(r, 0) : r \in UNION {Begins[Expected(i)] :
                  i \in {j \in kernel : ~ Complete(j) /\ Expected(j) \in Nonterminal}}}

\* The state behind X.
goto(kernel, X) ==
    {item(i.rule, i.dot + 1) : i \in {j \in closure(kernel) : ~ Complete(j) /\ Expected(j) = X}}

right_associative(r, t) == Level(r) # 0 /\ Level(t) # 0 /\ Level(r) > Level(t)

\* Whether to reduce by r though t could be shifted: all operators that meet
\* here are left associative.
prefers_reducing(r, t) == Level(r) # 0 /\ Level(t) # 0 /\ Level(r) >= Level(t)

Entry(X, kernel, value, line) ==
    [symbol |-> X, kernel |-> kernel, value |-> value, line |-> line]

Bottom == Entry("accept", {item("accept", 0)}, << >>, 0)

Top == stack[Len(stack)]

Shiftable == goto(Top.kernel, lookahead.kind) # {}

\* The rules to reduce by.
Reducible ==
    {i.rule : i \in {j \in Top.kernel :
        Complete(j) /\ (Shiftable => prefers_reducing(j.rule, lookahead.kind))}}

\* The value of a token for the actions.
yylval(t) == IF t.kind = "TYPE" THEN t.type ELSE t.name

-------------------------------------------------------------------------------

Parsing == phase = "parsing"

\* A call of parse ends.
ends(outcome, file, line) ==
    returned' = Append(returned, [outcome |-> outcome, file |-> file, line |-> line,
                                  ast |-> [nodes |-> nodes, top |-> parsed_ast], lines |-> lines])

\* The file the next call, or this one, is about.
InTurn == session[Len(returned) + 1]

CallsLeft == phase = "idle" /\ Len(returned) < Len(session)

cannot_open ==
    /\ CallsLeft
    /\ Content[InTurn].kind = "missing"
    /\ current_file' = << InTurn >>
    /\ ends("missing", << InTurn >>, 1)
    /\ UNCHANGED << flex, lookahead, session, phase, open_files, parser >>

parse ==
    /\ CallsLeft
    /\ Content[InTurn].kind # "missing"
    /\ current_file' = << InTurn >>
    /\ open_files' = open_files + 1
    /\ yyin' = Content[InTurn]
    /\ stack' = << Bottom >>
    /\ lookahead' = NoToken
    /\ nodes' = << >>
    /\ lines' = << >>
    /\ parsed_ast' = << >>
    /\ phase' = "parsing"
    /\ UNCHANGED << buffer, pending, yylineno, session, returned >>

yylex ==
    /\ Parsing
    /\ lookahead = NoToken
    /\ read_file \/ end_of_file \/ skip \/ match
    /\ UNCHANGED << session, phase, current_file, open_files, parser, returned >>

\* The scanner or flex calls exit.
exit ==
    /\ Parsing
    /\ lookahead = NoToken
    /\ gives_up
    /\ phase' = "exited"
    /\ UNCHANGED << flex, lookahead, session, current_file, open_files, parser, returned >>

shift ==
    /\ Parsing
    /\ lookahead.kind \notin {"none", "EOF"}
    /\ Shiftable
    /\ Reducible = {}
    /\ stack' = Append(stack, Entry(lookahead.kind, goto(Top.kernel, lookahead.kind),
                                    yylval(lookahead), lookahead.line))
    /\ lookahead' = NoToken
    /\ UNCHANGED << flex, session, phase, current_file, open_files, nodes, lines, parsed_ast, returned >>

yyval_before(r, v) == IF r \in NodeRule THEN Len(nodes) ELSE passed_on(r, v)

\* The value of what the symbols with the values v are reduced to.
yyval(r, v) == IF r \in NodeRule THEN Len(nodes) + 1 ELSE passed_on(r, v)

reduce(r) ==
    LET rhs   == Grammar[r].rhs
        lhs   == Grammar[r].lhs
        depth == Len(stack) - Len(rhs)
        v     == [j \in DOMAIN rhs |-> stack[depth + j].value]
        line  == stack[depth + 1].line
    IN
    /\ Parsing
    /\ lookahead # NoToken
    /\ IF r \in NodeRule
       THEN nodes' = Append(nodes, node_of(r, v)) /\ lines' = Append(lines, line)
       ELSE UNCHANGED << nodes, lines >>
    /\ parsed_ast' = IF r = "parse" THEN v[1] ELSE parsed_ast
    /\ stack' = Append(SubSeq(stack, 1, depth), Entry(lhs, goto(stack[depth].kernel, lhs), yyval(r, v), line))
    /\ UNCHANGED << flex, lookahead, session, phase, current_file, open_files, returned >>

\* yyparse returns, and parse.
accept ==
    /\ Parsing
    /\ lookahead.kind = "EOF"
    /\ Shiftable
    /\ open_files' = open_files - 1
    /\ current_file' = NoFile
    /\ ends("tree", current_file, 0)
    /\ phase' = "idle"
    /\ UNCHANGED << flex, lookahead, session, parser >>

yyerror_returns ==
    /\ Parsing
    /\ lookahead # NoToken
    /\ ~ Shiftable
    /\ Reducible = {}
    /\ open_files' = open_files - 2
    /\ current_file' = NoFile
    /\ ends("exception", NoFile, 1)
    /\ phase' = "idle"
    /\ UNCHANGED << flex, lookahead, session, parser >>

yyerror_but_at_the_end ==
    /\ Parsing
    /\ lookahead.kind \notin {"none", "EOF"}
    /\ ~ Shiftable
    /\ Reducible = {}
    /\ open_files' = open_files - 1
    /\ current_file' = NoFile
    /\ ends("exception", current_file, lookahead.line)
    /\ phase' = "idle"
    /\ UNCHANGED << flex, lookahead, session, parser >>

\* A syntax error throws out of yyparse; parse cleans up and throws it again.
yyerror ==
    /\ Parsing
    /\ lookahead # NoToken
    /\ ~ Shiftable
    /\ Reducible = {}
    /\ open_files' = open_files - 1
    /\ current_file' = NoFile
    /\ ends("exception", current_file, lookahead.line)
    /\ phase' = "idle"
    /\ UNCHANGED << flex, lookahead, session, parser >>

Init ==
    /\ session \in Sessions
    /\ phase = "idle"
    /\ current_file = NoFile
    /\ open_files = 0
    /\ buffer = << >>
    /\ pending = FALSE
    /\ yyin = [kind |-> "text", text |-> << >>]
    /\ yylineno = 1
    /\ lookahead = NoToken
    /\ stack = << Bottom >>
    /\ nodes = << >>
    /\ lines = << >>
    /\ parsed_ast = << >>
    /\ returned = << >>

Next == cannot_open \/ parse \/ yylex \/ exit \/ shift \/ (\E r \in Reducible : reduce(r)) \/ accept \/ yyerror

Spec == Init /\ [][Next]_vars /\ WF_vars(Next)
================================================================================
