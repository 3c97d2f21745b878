--------------------------------- MODULE Scanner ---------------------------------
(***************************************************************************)
(* yylex (src/src/scanner.l): the rules, flex's choice of the longest      *)
(* match and then of the first rule, and the state flex keeps from one     *)
(* call, and from one file, to the next.  A text is a sequence of pieces:  *)
(* characters, and keywords, each standing for its letters.  The fourteen  *)
(* type keywords are one token, TYPE, and so are the two of BOOL; literals *)
(* have no value.  A file fits into one read of flex's buffer.             *)
(*                                                                         *)
(* end_of_file_again and count_one_line are wrong on purpose: each stands  *)
(* for a bug that one of the properties must notice.                       *)
(***************************************************************************)
EXTENDS AstNodes, SequencesExt

CONSTANTS Letter,           \* letters and the underscore
          MaxIdentifier     \* 32

ASSUME SomeName == Name # {}

VARIABLES buffer,       \* what flex has read and not matched yet
          pending,      \* it found the end of the file right behind the buffer
          yyin,         \* the file it reads from: what is left of it
          yylineno,
          lookahead     \* the token bison has asked for, or NoToken

flex == << buffer, pending, yyin, yylineno >>

Digit == {"0", "1", "2", "3", "4", "5", "6", "7", "8", "9"}

HexDigit == Digit \cup {"a", "b", "c", "d", "e", "f", "A", "B", "C", "D", "E", "F"}

Keyword ==
    [var |-> "KEYWORD_VAR", fun |-> "KEYWORD_FUN", ret |-> "KEYWORD_RET",
     const |-> "KEYWORD_CONST", if |-> "KEYWORD_IF", else |-> "KEYWORD_ELSE",
     true |-> "BOOL", false |-> "BOOL",
     int |-> "TYPE", int8 |-> "TYPE", int16 |-> "TYPE", int32 |-> "TYPE", int64 |-> "TYPE",
     uint |-> "TYPE", uint8 |-> "TYPE", byte |-> "TYPE", uint16 |-> "TYPE", uint32 |-> "TYPE",
     uint64 |-> "TYPE", float16 |-> "TYPE", float32 |-> "TYPE", float64 |-> "TYPE", bool |-> "TYPE"]

\* The type a type keyword names.
type_named ==
    [int |-> INT, int8 |-> INT8, int16 |-> INT16, int32 |-> INT32, int64 |-> INT64,
     uint |-> UINT, uint8 |-> UINT8, byte |-> UINT8, uint16 |-> UINT16, uint32 |-> UINT32,
     uint64 |-> UINT64, float16 |-> FLOAT16, float32 |-> FLOAT32, float64 |-> FLOAT64, bool |-> BOOL]

Word == Letter \cup DOMAIN Keyword

All(S, s) == \A i \in DOMAIN s : s[i] \in S

Hexadecimal(s) == Len(s) > 2 /\ s[1] = "0" /\ s[2] \in {"x", "X"} /\ All(HexDigit, SubSeq(s, 3, Len(s)))

Integer(s) ==
    \/ s = << "0" >>
    \/ Hexadecimal(s)
    \/ s # << >> /\ All(Digit, s) /\ s[1] # "0"

Mantissa(s) ==
    /\ Len(s) > 1
    /\ \E i \in DOMAIN s : s[i] = "." /\ \A j \in DOMAIN s \ {i} : s[j] \in Digit

Exponent(s) ==
    \/ s = << >>
    \/ /\ Len(s) > 1
       /\ s[1] \in {"e", "E"}
       /\ \/ All(Digit, Tail(s))
          \/ Len(s) > 2 /\ s[2] \in {"+", "-"} /\ All(Digit, SubSeq(s, 3, Len(s)))

Float(s) ==
    /\ All(Digit \cup {".", "e", "E", "+", "-"}, s)
    /\ \E k \in DOMAIN s : Mantissa(SubSeq(s, 1, k)) /\ Exponent(SubSeq(s, k + 1, Len(s)))

Identifier(s) == Len(s) \in 1 .. MaxIdentifier /\ s[1] \in Word /\ All(Word \cup Digit, s)

symbol(s) ==
    CASE s = << "+" >> -> "PLUS"                     [] s = << "-" >> -> "MINUS"
      [] s = << "*" >> -> "STAR"                     [] s = << "/" >> -> "SLASH"
      [] s = << "=" >> -> "EQUALS"                   [] s = << "," >> -> "COMMA"
      [] s = << "(" >> -> "OPEN_PAR"                 [] s = << ")" >> -> "CLOSE_PAR"
      [] s = << "{" >> -> "OPEN_CUR"                 [] s = << "}" >> -> "CLOSE_CUR"
      [] s = << "=", "=" >> -> "EQUALS_EQUALS"       [] s = << "!", "=" >> -> "NOT_EQUALS"
      [] s = << ">" >> -> "GREATER_THAN"             [] s = << "<" >> -> "LESS_THAN"
      [] s = << ">", "=" >> -> "GREATER_THAN_OR_EQUALS"
      [] s = << "<", "=" >> -> "LESS_THAN_OR_EQUALS"
      [] s = << "&", "&" >> -> "AND"                 [] s = << "|", "|" >> -> "OR"
      [] s = << "!" >> -> "EXCLAMATION"
      [] OTHER -> "none"

Comment(s) == Len(s) > 1 /\ s[1] = "/" /\ s[2] = "/" /\ \A i \in DOMAIN s : s[i] # "\n"

\* The first rule that matches all of s.
lexeme(s) ==
    IF Len(s) = 1 /\ s[1] \in DOMAIN Keyword THEN Keyword[s[1]]
    ELSE IF symbol(s) # "none" THEN symbol(s)
    ELSE IF Comment(s) THEN "comment"
    ELSE IF s # << >> /\ All({" ", "\t", "\r"}, s) THEN "blank"
    ELSE IF s # << >> /\ All({"\n"}, s) THEN "newline"
    ELSE IF Integer(s) THEN "INTEGER"
    ELSE IF Len(s) > 1 /\ Last(s) = "u" /\ Integer(Front(s)) THEN "UINTEGER"
    ELSE IF Float(s) THEN "FLOAT"
    ELSE IF Identifier(s) THEN "IDENTIFIER"
    ELSE "none"

\* The lengths of the matches at the start of s; a comment is one only if a
\* newline follows.
Matches(s) ==
    {k \in DOMAIN s : LET rule == lexeme(SubSeq(s, 1, k)) IN
                      /\ rule # "none"
                      /\ rule = "comment" => k < Len(s) /\ s[k + 1] = "\n"}

Longest(s) == LET matches == Matches(s) IN {k \in matches : \A j \in matches : j <= k}

\* Every beginning of a match that is not all of it can go on with one of these.
Continuation == {"0", ".", " ", "\n", "=", "&", "|", "/"}

\* The scanner is still inside a match at the end of s, and looks further.
RunsOn(s) == s = << >> \/ \E c \in Continuation : lexeme(Append(s, c)) # "none"

\* The name of an identifier; those that are no Name are all the same one.
name_of(s) ==
    LET spelling == FoldLeft(LAMBDA name, c : name \o c, "", s) IN
    IF spelling \in Name THEN spelling ELSE CHOOSE x \in Name : TRUE

NoToken == [kind |-> "none", name |-> NoName, type |-> NoType, line |-> 0]

token(kind, s) ==
    [kind |-> kind,
     name |-> IF kind = "IDENTIFIER" THEN name_of(s) ELSE NoName,
     type |-> IF kind = "TYPE" THEN type_named[s[1]] ELSE NoType,
     line |-> yylineno]

-------------------------------------------------------------------------------

\* More of the file is read when a match may go on behind the buffer.
read_file ==
    /\ RunsOn(buffer)
    /\ ~ pending
    /\ yyin.kind = "text"
    /\ yyin.text # << >>
    /\ buffer' = buffer \o yyin.text
    /\ yyin' = [yyin EXCEPT !.text = << >>]
    /\ UNCHANGED << pending, yylineno, lookahead >>

end_of_file_again ==
    /\ RunsOn(buffer)
    /\ pending \/ (yyin.kind = "text" /\ yyin.text = << >>)
    /\ pending' = TRUE
    /\ IF buffer = << >> THEN lookahead' = token("EOF", << >>) ELSE ~ pending /\ UNCHANGED lookahead
    /\ UNCHANGED << buffer, yyin, yylineno >>

\* The end of the file, and yyrestart; what is left of a match comes first.
end_of_file ==
    /\ RunsOn(buffer)
    /\ pending \/ (yyin.kind = "text" /\ yyin.text = << >>)
    /\ IF buffer = << >>
       THEN pending' = FALSE /\ lookahead' = token("EOF", << >>)
       ELSE ~ pending /\ pending' = TRUE /\ UNCHANGED lookahead
    /\ UNCHANGED << buffer, yyin, yylineno >>

\* Everything to match is in the buffer.
Ready == buffer # << >> /\ (pending \/ ~ RunsOn(buffer))

count_one_line ==
    /\ Ready
    /\ \E k \in Longest(buffer) :
        /\ lexeme(SubSeq(buffer, 1, k)) \in {"comment", "blank", "newline"}
        /\ buffer' = SubSeq(buffer, k + 1, Len(buffer))
        /\ yylineno' = IF buffer[1] = "\n" THEN yylineno + 1 ELSE yylineno
    /\ UNCHANGED << pending, yyin, lookahead >>

\* Blanks and comments are dropped, newlines counted.
skip ==
    /\ Ready
    /\ \E k \in Longest(buffer) :
        /\ lexeme(SubSeq(buffer, 1, k)) \in {"comment", "blank", "newline"}
        /\ buffer' = SubSeq(buffer, k + 1, Len(buffer))
        /\ yylineno' = IF buffer[1] = "\n" THEN yylineno + k ELSE yylineno
    /\ UNCHANGED << pending, yyin, lookahead >>

match ==
    /\ Ready
    /\ \E k \in Longest(buffer) :
        /\ lexeme(SubSeq(buffer, 1, k)) \notin {"comment", "blank", "newline"}
        /\ buffer' = SubSeq(buffer, k + 1, Len(buffer))
        /\ lookahead' = token(lexeme(SubSeq(buffer, 1, k)), SubSeq(buffer, 1, k))
    /\ UNCHANGED << pending, yyin, yylineno >>

\* No rule matches, or the file cannot be read, a directory for instance: the
\* program ends.
gives_up ==
    \/ Ready /\ Longest(buffer) = {}
    \/ RunsOn(buffer) /\ ~ pending /\ yyin.kind # "text"
================================================================================
