---------------------------- MODULE ParserProperties ----------------------------
(***************************************************************************)
(* What parse owes to compile, to the next call of parse and to the one    *)
(* who wrote the file.  The programs of Meaning are printed from a tree:   *)
(* one instruction or statement on a line, and parentheses only where the  *)
(* table of precedences in README.md calls for them.                       *)
(***************************************************************************)
EXTENDS Parser

CONSTANTS Meaning,      \* the tree each printed file was printed from
          Fused,        \* those in which a statement goes on in the next line
          EndInComment  \* those that end in a comment, without a newline

\* No call before the i-th one threw out of yyparse.
Clean(i) == \A j \in 1 .. i - 1 : returned[j].outcome # "exception"

TypeOK ==
    /\ phase \in {"idle", "parsing", "exited"}
    /\ current_file = NoFile \/ \E i \in DOMAIN session : current_file = << session[i] >>
    /\ open_files \in Nat
    /\ pending \in BOOLEAN
    /\ nodes \in Seq(AstNode)
    /\ Len(lines) = Len(nodes)
    /\ Len(returned) <= Len(session)
    /\ stack # << >>

\* Whatever a file contains, the list parse returns is a tree the validator
\* may be given: children before parents, expressions, arguments, statements
\* and instructions each where the grammar has them (the $-variables of the
\* actions in parser.y).
ParsedIsAst == \A i \in DOMAIN returned : returned[i].outcome = "tree" => IsAst(returned[i].ast)

\* Every file that was opened is closed once, whether yyparse returns or
\* throws (parser.y, lines 250 and 265): between two calls none is open.
FilesClosedOnce == open_files = IF phase = "idle" THEN 0 ELSE 1

\* flex's buffer carries text, or an end of file, from one file over into the
\* next one only after an exception (parser.y, line 245: yyin is all that is
\* set anew).
LeftoversOnlyAfterFailure ==
    phase = "idle" /\ Clean(Len(returned) + 1) => buffer = << >> /\ ~ pending

\* A printed program is read as the tree it was printed from, whatever was
\* parsed without a syntax error before, unless a line of it goes on in the
\* next one or its last line is a comment: precedence and associativity, the
\* longest match, keywords, the order of lists (parser.y, lines 43 to 158).
ProgramsAreRead ==
    \A i \in DOMAIN returned :
        Clean(i) /\ session[i] \in DOMAIN Meaning =>
            (returned[i].outcome = "tree" /\ returned[i].ast = Meaning[session[i]]
                <=> session[i] \notin Fused /\ session[i] \notin EndInComment)

Newlines(i) == Cardinality({k \in DOMAIN Content[session[i]].text : Content[session[i]].text[k] = "\n"})

\* yylineno is never reset: when a file is parsed again, its nodes are as many
\* lines further down as there were newlines in the files parsed since.
LinesDrift ==
    \A i, j \in DOMAIN returned :
        /\ i < j /\ session[i] = session[j]
        /\ returned[i].outcome = "tree"
        /\ \A k \in i .. j - 1 : returned[k].outcome # "exception"
        => LET drift == SumFunction([k \in {l \in i .. j - 1 : returned[l].outcome = "tree"} |-> Newlines(k)])
           IN  \A n \in DOMAIN returned[i].lines : returned[j].lines[n] = returned[i].lines[n] + drift

\* The parser never waits for good: each call returns or throws, or the
\* process ends.
Finishes == <>(phase = "exited" \/ Len(returned) = Len(session))

-------------------------------------------------------------------------------
(* What the repository says and the code does not do. *)

\* "cha supports C++-style single-line comments" (README.md, line 114): what a
\* program means does not depend on a comment behind it.
CommentsAreIgnored ==
    \A i \in DOMAIN returned :
        Clean(i) /\ session[i] \in EndInComment =>
            returned[i].outcome = "tree" /\ returned[i].ast = Meaning[session[i]]
================================================================================
