------------------------------ MODULE MCOutputFiles ------------------------------
(* The compilers, and the files they write. *)
EXTENDS OutputFiles, TLC

job(format, output, object) == [format |-> format, output |-> output, object |-> object]

\* The same binary twice, another one, and what stops before there is an object.
Builds == [first  |-> job("BINARY_FILE", "out", "out.o"),
           second |-> job("BINARY_FILE", "out", "out.o"),
           other  |-> job("BINARY_FILE", "x", "x.o"),
           ir     |-> job("LLVM_IR", "z.ll", "z.ll.o")]

\* README.md, "Usage": -c output.o, and -o output.
ReadmeUsage == [object |-> job("OBJECT_FILE", "output.o", "output.o.o"),
                binary |-> job("BINARY_FILE", "output", "output.o")]

FilesOf(jobs) == {jobs[c].output : c \in DOMAIN jobs} \cup {jobs[c].object : c \in DOMAIN jobs}

BuildFiles == FilesOf(Builds)
ReadmeFiles == FilesOf(ReadmeUsage)
================================================================================
