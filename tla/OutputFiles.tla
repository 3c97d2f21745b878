------------------------------- MODULE OutputFiles -------------------------------
(***************************************************************************)
(* CodeGenerator::write_output (src/src/codegen.cpp): how the output file  *)
(* comes to be, with every way in which the operating system, LLVM or the  *)
(* linker can fail under it.  Several compilers may run, one after another *)
(* or at the same time, but not two at the same time on the same files.    *)
(*                                                                         *)
(* open_keeping, cannot_emit_quietly, temporary_of_all,                    *)
(* remove_object_and_succeed and remove_object_if_linked are wrong on      *)
(* purpose: each stands for a bug that one of the properties must notice.  *)
(***************************************************************************)
EXTENDS Integers

CompileFormat == {"LLVM_IR", "ASSEMBLY_FILE", "OBJECT_FILE", "BINARY_FILE"}

CONSTANTS Compiler,     \* runs of the program, each for one input
          File,         \* names of files
          Job           \* the format and output file of each, and output + ".o"

ASSUME JobsAreJobs ==
    /\ Job \in [Compiler -> [format : CompileFormat, output : File, object : File]]
    /\ \A c \in Compiler : Job[c].output # Job[c].object

VARIABLES disk,         \* what each file holds, and who wrote it
          step,         \* where each compiler is
          write_error,  \* whether its stream has met an error
          exit_code

vars == << disk, step, write_error, exit_code >>

NoExitCode == -1

NoOne == "no one"

ASSUME NoOneIsNoCompiler == NoOne \notin Compiler

Kind == {"missing", "empty", "partial", "old"} \cup CompileFormat

Content == [kind : Kind, of : Compiler \cup {NoOne}]

Missing == [kind |-> "missing", of |-> NoOne]

\* What was there before the first compiler.
Old == [kind |-> "old", of |-> NoOne]

written(c, kind) == [kind |-> kind, of |-> c]

\* The file the user asked for.
product(c) == written(c, Job[c].format)

Files(c) == {Job[c].output, Job[c].object}

Active(c) == step[c] \notin {"idle", "done"}

temporary_of_all(c) == Job[CHOOSE d \in Compiler : TRUE].object

\* The name the object file has while it is linked.
temporary(c) == Job[c].object

-------------------------------------------------------------------------------

Goes(c, next) == step' = [step EXCEPT ![c] = next] /\ UNCHANGED exit_code

Exits(c, code) ==
    /\ step' = [step EXCEPT ![c] = "done"]
    /\ exit_code' = [exit_code EXCEPT ![c] = code]

Writes(file, content) == disk' = [disk EXCEPT ![file] = content]

\* verifyModule has accepted the module.
write_output(c) ==
    /\ step[c] = "idle"
    /\ \A d \in Compiler : Active(d) => Files(c) \cap Files(d) = {}
    /\ Goes(c, "open")
    /\ UNCHANGED << disk, write_error >>

\* The target does not exist, or the file cannot be opened.
cannot_open(c) ==
    /\ step[c] = "open"
    /\ Exits(c, 1)
    /\ UNCHANGED << disk, write_error >>

open_keeping(c) ==
    /\ step[c] = "open"
    /\ Goes(c, "emit")
    /\ UNCHANGED << disk, write_error >>

\* What the file held is gone.
open(c) ==
    /\ step[c] = "open"
    /\ Writes(Job[c].output, written(c, "empty"))
    /\ Goes(c, "emit")
    /\ UNCHANGED write_error

cannot_emit_quietly(c) ==
    /\ step[c] = "emit"
    /\ Job[c].format # "LLVM_IR"
    /\ step' = [step EXCEPT ![c] = "done"]
    /\ UNCHANGED << disk, write_error, exit_code >>

\* The target machine emits no file of the type.
cannot_emit(c) ==
    /\ step[c] = "emit"
    /\ Job[c].format # "LLVM_IR"
    /\ Exits(c, 1)
    /\ UNCHANGED << disk, write_error >>

\* A binary is an object file first.  The stream keeps an error to itself until
\* it is destroyed, and then ends the program.
emit(c) ==
    LET kind == IF Job[c].format = "BINARY_FILE" THEN "OBJECT_FILE" ELSE Job[c].format IN
    /\ step[c] = "emit"
    /\ \E failed \in BOOLEAN :
         /\ Writes(Job[c].output, written(c, IF failed THEN "partial" ELSE kind))
         /\ write_error' = [write_error EXCEPT ![c] = failed]
         /\ IF Job[c].format = "BINARY_FILE" THEN Goes(c, "rename")
            ELSE Exits(c, IF failed THEN 1 ELSE 0)

cannot_rename(c) ==
    /\ step[c] = "rename"
    /\ Exits(c, 1)
    /\ UNCHANGED << disk, write_error >>

rename(c) ==
    /\ step[c] = "rename"
    /\ disk' = [disk EXCEPT ![temporary(c)] = disk[Job[c].output], ![Job[c].output] = Missing]
    /\ Goes(c, "link")
    /\ UNCHANGED write_error

\* cc -o output output.o, which may fail whatever it is given.
link(c) ==
    /\ step[c] = "link"
    /\ \/ /\ disk[temporary(c)] = written(c, "OBJECT_FILE")
          /\ Writes(Job[c].output, product(c))
          /\ Goes(c, "linked")
       \/ Goes(c, "unlinked") /\ UNCHANGED disk
    /\ UNCHANGED write_error

remove_object_and_succeed(c) ==
    /\ step[c] \in {"linked", "unlinked"}
    /\ Writes(temporary(c), Missing)
    /\ Exits(c, 0)
    /\ UNCHANGED write_error

remove_object_if_linked(c) ==
    /\ step[c] = "linked"
    /\ Writes(temporary(c), Missing)
    /\ Exits(c, 0)
    /\ UNCHANGED write_error

\* Nobody looks whether the removal succeeds.
remove_object(c) ==
    /\ step[c] \in {"linked", "unlinked"}
    /\ Writes(temporary(c), Missing) \/ UNCHANGED disk
    /\ Exits(c, IF step[c] = "linked" /\ ~ write_error[c] THEN 0 ELSE 1)
    /\ UNCHANGED write_error

-------------------------------------------------------------------------------

Init ==
    /\ disk \in [File -> {Missing, Old}]
    /\ step = [c \in Compiler |-> "idle"]
    /\ write_error = [c \in Compiler |-> FALSE]
    /\ exit_code = [c \in Compiler |-> NoExitCode]

Acts(c) ==
    \/ write_output(c)
    \/ cannot_open(c)
    \/ open(c)
    \/ cannot_emit(c)
    \/ emit(c)
    \/ cannot_rename(c)
    \/ rename(c)
    \/ link(c)
    \/ remove_object(c)

Next == \E c \in Compiler : Acts(c)

\* Each compiler is a process of its own that the system keeps running.
Spec == Init /\ [][Next]_vars /\ \A c \in Compiler : WF_vars(Acts(c))

-------------------------------------------------------------------------------

TypeOK ==
    /\ disk \in [File -> Content]
    /\ step \in [Compiler -> {"idle", "open", "emit", "rename", "link", "linked", "unlinked", "done"}]
    /\ write_error \in [Compiler -> BOOLEAN]
    /\ exit_code \in [Compiler -> {NoExitCode, 0, 1}]
    /\ \A c \in Compiler : exit_code[c] = NoExitCode <=> step[c] # "done"

\* The exit code tells, at the moment the compiler exits, whether the complete
\* output of its own module is at the name the user gave, whatever was there
\* before and whatever failed on the way.
ExitCodeTellsProduct ==
    [][\A c \in Compiler :
         (exit_code'[c] # exit_code[c]) => (exit_code'[c] = 0 <=> disk'[Job[c].output] = product(c))]_vars

\* A compiler changes no file but its output and the object file beside it.
OnlyOwnFiles ==
    [][\A f \in File :
         disk'[f] # disk[f] => \E c \in Compiler : Active(c) /\ f \in Files(c)]_vars

\* Past its opening, the output is never an earlier run's, so that a failed
\* run does not leave a stale output that looks like its own.
NoStaleOutput ==
    \A c \in Compiler :
      step[c] \in {"emit", "rename", "link", "linked", "unlinked"} =>
        disk[Job[c].output].of \in {c, NoOne} /\ disk[Job[c].output] # Old

\* No other compiler that names a file of c's has begun.
Undisturbed(c) ==
    \A d \in Compiler \ {c} : Files(c) \cap Files(d) # {} => step[d] = "idle"

\* The output of a run that succeeded stays, whoever else compiles, until a
\* compiler begins that was given a name of c's files.
OutputsStay ==
    \A c \in Compiler : exit_code[c] = 0 /\ Undisturbed(c) => disk[Job[c].output] = product(c)

\* What README.md, "Usage", has the user do twice with two names, to have both
\* results in the end: the output of a run that succeeded stays.
OutputsSurvive ==
    \A c \in Compiler : exit_code[c] = 0 => disk[Job[c].output] = product(c)

\* Every compiler exits.
Termination == <>(\A c \in Compiler : step[c] = "done")
================================================================================
