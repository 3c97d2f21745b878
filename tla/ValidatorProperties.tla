-------------------------- MODULE ValidatorProperties --------------------------
(***************************************************************************)
(* What the Validator's verdict, its name resolution and the types it      *)
(* leaves in the tree mean, against the rules of StaticSemantics.          *)
(***************************************************************************)
EXTENDS Validator, StaticSemantics

Validated == round > 0 /\ ~ Running

Accepted == errors = << >>

\* A fresh validation throws exactly for the trees that break a static rule,
\* whatever it skipped after an error (arguments of an unknown function, the
\* value of an unknown variable) and in whichever order it met the nodes.
VerdictIsStatic == (Validated /\ round = 1) => (Accepted <=> Legal(ast))

\* Every use the validator looked up, it resolved to the declaration in force
\* where the use stands; in an accepted tree it looked up every use.
NamesResolveLexically ==
    Validated =>
      \A n \in DOMAIN ast.nodes :
        at(n).kind \in {"VariableLookup", "VariableAssignment", "FunctionCall"} =>
          /\ resolved[n] \in {NoNode, Resolve(ast, n)}
          /\ Accepted => resolved[n] # NoNode

\* Validating the tree a second time, with the types the first time left in
\* it, gives the same verdict and the same types, unless two constants of
\* different families are compared (1 == 1u): those swap their types each
\* time.  A constant compared with an operand of a fixed type (a == 1u for an
\* int8 a), which changes its family, is not excepted.
RevalidationAgrees ==
    (Validated /\ round > 1 /\ ~ CrossesConstants(ast)) =>
      /\ Accepted = verdict_before
      /\ Accepted => result_type = types_before

\* A literal keeps its family, so that the generator's choice between integer
\* and float instructions still fits it, wherever it stands but beside the
\* operator of a comparison.  There it may be given another family: then its
\* type is that of the other operand by the rules (INT8 for the 1u of a == 1u
\* if a is an int8), and nothing else, however often the tree is validated.
LiteralsKeepFamily ==
    Validated =>
      \A n \in DOMAIN ast.nodes : at(n).kind \in Literal =>
        \/ Family(result_type[n]) = Family(initial_type(at(n)))
        \/ \E m \in DOMAIN ast.nodes, i \in 1 .. 2 :
             /\ at(m).op \in Comparison
             /\ at(m).operands[i] = n
             /\ result_type[n] = TypesOf(ast)[at(m).operands[3 - i]]

\* Every call of validate returns or throws.
Termination == <>(round = MaxRounds /\ ~ Running)
================================================================================
