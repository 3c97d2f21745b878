-------------------------------- MODULE Compiler --------------------------------
(***************************************************************************)
(* compile (src/src/cha.cpp): the parser's tree goes through a Validator   *)
(* and then through a CodeGenerator, which share it and the result types   *)
(* of its nodes, and the exit code tells the caller how far it came.  The  *)
(* parser is only its outcome: a tree of Programs, or an exception.        *)
(* Writing the output file is left out: generating ends with verifyModule. *)
(***************************************************************************)
EXTENDS StaticSemantics, LlvmIr

CONSTANT Programs       \* the trees the parser may return

ASSUME ProgramsAreAsts == \A tree \in Programs : IsAst(tree)

\* The tree, and the validator's state.
VARIABLES ast, result_type, scopes, frames, errors, current_function_, round, resolved,
          verdict_before, types_before

\* The generator's state; its current_function_ is generated_function.
VARIABLES todo, current_value_, kept, named_values_, prev_named_values, functions_,
          generated_function, blocks, insert_block, refused, uses, stores, outcome

VARIABLES phase, exit_code

Validation == INSTANCE Validator WITH MaxRounds <- 1

Generation == INSTANCE CodeGenerator WITH current_function_ <- generated_function

validator == << scopes, frames, errors, current_function_, round, resolved, verdict_before,
                types_before >>

generator == << todo, current_value_, kept, named_values_, prev_named_values, functions_,
                generated_function, blocks, insert_block, refused, uses, stores, outcome >>

vars == << ast, result_type, validator, generator, phase, exit_code >>

NoExitCode == -1

-------------------------------------------------------------------------------

Init ==
    /\ Validation!Init
    /\ Generation!Init
    /\ phase = "parse"
    /\ exit_code = NoExitCode

Return(code) == phase' = "done" /\ exit_code' = code

parse ==
    /\ phase = "parse"
    /\ \/ phase' = "validate" /\ UNCHANGED exit_code
       \/ Return(1)
    /\ UNCHANGED << ast, result_type, validator, generator >>

validating ==
    /\ phase = "validate"
    /\ Validation!Next
    /\ UNCHANGED << generator, phase, exit_code >>

Validated == round = 1 /\ ~ Validation!Running

validated ==
    /\ phase = "validate"
    /\ Validated
    /\ IF errors = << >> THEN phase' = "generate" /\ UNCHANGED exit_code ELSE Return(1)
    /\ UNCHANGED << ast, result_type, validator, generator >>

generating ==
    /\ phase = "generate"
    /\ Generation!Next
    /\ UNCHANGED << validator, phase, exit_code >>

\* Wrong variants: one catches no exception of the generator, one catches it
\* and forgets to return 1.
generated_uncaught ==
    /\ phase = "generate"
    /\ outcome = "verified"
    /\ Return(0)
    /\ UNCHANGED << ast, result_type, validator, generator >>

generated_anyway ==
    /\ phase = "generate"
    /\ outcome \notin {"idle", "running"}
    /\ Return(0)
    /\ UNCHANGED << ast, result_type, validator, generator >>

generated ==
    /\ phase = "generate"
    /\ outcome \notin {"idle", "running"}
    /\ \/ outcome = "verified" /\ Return(0)
       \/ outcome \in Generation!Failure /\ Return(1)
       \/ outcome = "undefined behaviour" /\ \E code \in {0, 1} : Return(code)
    /\ UNCHANGED << ast, result_type, validator, generator >>

Next ==
    \/ parse
    \/ validating
    \/ validated
    \/ generating
    \/ generated

\* One thread runs compile; nothing keeps it from taking its next step.
Spec == Init /\ [][Next]_vars /\ WF_vars(Next)

TypeOK ==
    /\ Validation!TypeOK
    /\ Generation!TypeOK
    /\ phase \in {"parse", "validate", "generate", "done"}
    /\ exit_code \in {NoExitCode, 0, 1}
    /\ exit_code = NoExitCode <=> phase # "done"
================================================================================
