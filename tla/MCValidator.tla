------------------------------ MODULE MCValidator ------------------------------
(* The programs the validator is run on. *)
EXTENDS ValidatorProperties, MCPrograms

AllPrograms == ExpressionPrograms \cup BlockPrograms \cup TopLevelPrograms
================================================================================
