---------------------------- MODULE OutputFilesProofs ----------------------------
(***************************************************************************)
(* The theorems about OutputFiles, for every number of compilers, every    *)
(* choice of formats and files, and every file system to begin with.       *)
(***************************************************************************)
EXTENDS OutputFiles, TLAPS

\* The compilers at work have no file in common.
Exclusive ==
    \A c, d \in Compiler :
      (c # d /\ Active(c) /\ Active(d)) => Files(c) \cap Files(d) = {}

\* Until its file is open a compiler has written nothing.
Unwritten(c) == step[c] \in {"idle", "open"} => \A f \in File : disk[f].of # c

\* What the stream has written, which is all of it unless it met an error.
Emitted(c) == IF write_error[c] THEN written(c, "partial") ELSE written(c, "OBJECT_FILE")

\* What is at the two names while the compiler is between its steps.
Progress(c) ==
    LET output == disk[Job[c].output] IN
    /\ step[c] = "emit" => output = written(c, "empty")
    /\ step[c] \in {"rename", "link", "linked", "unlinked"} => Job[c].format = "BINARY_FILE"
    /\ step[c] = "rename" => output = Emitted(c)
    /\ step[c] = "link" => output = Missing /\ disk[Job[c].object] = Emitted(c)
    /\ step[c] = "linked" => output = product(c) /\ ~ write_error[c]
    /\ step[c] = "unlinked" => output = Missing

IInv == TypeOK /\ Exclusive /\ \A c \in Compiler : Unwritten(c) /\ Progress(c)

\* What Acts(c) leaves alone, and what it can have written.
ActsOnItsOwn(c) ==
    /\ \A d \in Compiler \ {c} : /\ step'[d] = step[d]
                                 /\ write_error'[d] = write_error[d]
                                 /\ exit_code'[d] = exit_code[d]
    /\ \A f \in File : disk'[f] # disk[f] =>
         f \in Files(c) /\ Active(c) /\ disk'[f].of \in {c, NoOne}

USE DEF Files, product, written, Missing, Old, Content, Kind, CompileFormat, NoExitCode

LEMMA JobFacts ==
    ASSUME NEW c \in Compiler
    PROVE  /\ Job[c].output \in File
           /\ Job[c].object \in File
           /\ Job[c].output # Job[c].object
           /\ Job[c].format \in CompileFormat
  BY JobsAreJobs

LEMMA Locality ==
    ASSUME IInv, NEW c \in Compiler, Acts(c)
    PROVE  TypeOK' /\ ActsOnItsOwn(c)
<1> USE JobFacts DEF IInv, TypeOK, ActsOnItsOwn, Active
<1>1. CASE write_output(c)
  BY <1>1 DEF write_output, Goes
<1>2. CASE cannot_open(c)
  BY <1>2 DEF cannot_open, Exits
<1>3. CASE open(c)
  BY <1>3 DEF open, Goes, Writes
<1>4. CASE cannot_emit(c)
  BY <1>4 DEF cannot_emit, Exits
<1>5. CASE emit(c)
  <2> PICK failed \in BOOLEAN, kind \in CompileFormat \cup {"partial"} :
           /\ Writes(Job[c].output, written(c, kind))
           /\ write_error' = [write_error EXCEPT ![c] = failed]
           /\ \/ Goes(c, "rename")
              \/ Exits(c, 0)
              \/ Exits(c, 1)
    BY <1>5 DEF emit
  <2> QED BY <1>5 DEF emit, Writes, Goes, Exits
<1>6. CASE cannot_rename(c)
  BY <1>6 DEF cannot_rename, Exits
<1>7. CASE rename(c)
  <2>1. disk[Job[c].output] = Emitted(c)
    BY <1>7 DEF rename, Progress
  <2>2. disk[Job[c].output] \in Content /\ disk[Job[c].output].of = c
    BY <2>1 DEF Emitted
  <2> QED BY <1>7, <2>2 DEF rename, Goes, temporary
<1>8. CASE link(c)
  <2>1. product(c) \in Content /\ product(c).of = c
    OBVIOUS
  <2>2. disk' = disk \/ disk' = [disk EXCEPT ![Job[c].output] = product(c)]
    BY <1>8 DEF link, Writes
  <2>3. PICK next \in {"linked", "unlinked"} : Goes(c, next)
    BY <1>8 DEF link
  <2> HIDE DEF product
  <2> QED BY <1>8, <2>1, <2>2, <2>3 DEF link, Goes
<1>9. CASE remove_object(c)
  <2> PICK code \in {0, 1} : Exits(c, code)
    BY <1>9 DEF remove_object
  <2>1. disk' = disk \/ disk' = [disk EXCEPT ![Job[c].object] = Missing]
    BY <1>9 DEF remove_object, Writes, temporary
  <2> QED BY <1>9, <2>1 DEF remove_object, Exits
<1> QED BY <1>1, <1>2, <1>3, <1>4, <1>5, <1>6, <1>7, <1>8, <1>9 DEF Acts

LEMMA OwnProgress ==
    ASSUME IInv, NEW c \in Compiler, Acts(c)
    PROVE  Unwritten(c)' /\ Progress(c)'
<1>0. TypeOK /\ Unwritten(c) /\ Progress(c)
  BY DEF IInv
<1> USE <1>0, JobFacts, NoOneIsNoCompiler DEF TypeOK, Unwritten, Progress, Emitted
<1>1. CASE write_output(c)
  BY <1>1 DEF write_output, Goes
<1>2. CASE cannot_open(c)
  BY <1>2 DEF cannot_open, Exits
<1>3. CASE open(c)
  BY <1>3 DEF open, Goes, Writes
<1>4. CASE cannot_emit(c)
  BY <1>4 DEF cannot_emit, Exits
<1>5. CASE emit(c)
  BY <1>5 DEF emit, Writes, Goes, Exits
<1>6. CASE cannot_rename(c)
  BY <1>6 DEF cannot_rename, Exits
<1>7. CASE rename(c)
  BY <1>7 DEF rename, Goes, temporary
<1>8. CASE link(c)
  BY <1>8 DEF link, Goes, Writes, temporary
<1>9. CASE remove_object(c)
  BY <1>9 DEF remove_object, Exits
<1> QED BY <1>1, <1>2, <1>3, <1>4, <1>5, <1>6, <1>7, <1>8, <1>9 DEF Acts

LEMMA OthersProgress ==
    ASSUME IInv, NEW c \in Compiler, NEW d \in Compiler, c # d, Acts(c)
    PROVE  Unwritten(d)' /\ Progress(d)'
<1>1. ActsOnItsOwn(c)
  BY Locality
<1>2. Unwritten(d)'
  BY <1>1, NoOneIsNoCompiler DEF IInv, Unwritten, ActsOnItsOwn
<1>3. CASE Active(d)
  <2>1. \A f \in Files(d) : f \in File /\ disk'[f] = disk[f]
    <3>1. Active(c) => Files(c) \cap Files(d) = {}
      BY <1>3 DEF IInv, Exclusive
    <3> QED BY <1>1, <3>1, JobFacts DEF ActsOnItsOwn
  <2> QED BY <1>1, <1>2, <2>1 DEF IInv, Progress, Emitted, ActsOnItsOwn
<1>4. CASE ~ Active(d)
  BY <1>1, <1>2, <1>4 DEF Progress, Active, ActsOnItsOwn
<1> QED BY <1>3, <1>4

LEMMA StaysExclusive ==
    ASSUME IInv, NEW c \in Compiler, Acts(c)
    PROVE  Exclusive'
<1>1. ActsOnItsOwn(c)
  BY Locality
<1>2. Active(c) \/ write_output(c)
  BY DEF Acts, Active, write_output, cannot_open, open, cannot_emit, emit, cannot_rename,
         rename, link, remove_object
<1>3. \A d \in Compiler \ {c} :
        (Active(d)' => Active(d)) /\ (Active(d) => Files(c) \cap Files(d) = {})
  BY <1>1, <1>2 DEF ActsOnItsOwn, Active, write_output, IInv, Exclusive
<1> QED BY <1>3 DEF IInv, Exclusive

LEMMA InitInv == Init => IInv
  BY JobFacts, NoOneIsNoCompiler
     DEF Init, IInv, TypeOK, Exclusive, Unwritten, Progress, Active

LEMMA StepInv == IInv /\ [Next]_vars => IInv'
<1> SUFFICES ASSUME IInv, [Next]_vars PROVE IInv'
  OBVIOUS
<1>1. CASE UNCHANGED vars
  BY <1>1 DEF vars, IInv, TypeOK, Exclusive, Unwritten, Progress, Emitted, Active
<1>2. CASE Next
  <2> PICK c \in Compiler : Acts(c)
    BY <1>2 DEF Next
  <2>1. TypeOK' /\ Exclusive'
    BY Locality, StaysExclusive
  <2>2. \A d \in Compiler : Unwritten(d)' /\ Progress(d)'
    BY OwnProgress, OthersProgress
  <2> QED BY <2>1, <2>2 DEF IInv
<1> QED BY <1>1, <1>2

\* The strengthening on which the other theorems rest.
THEOREM Invariance == Spec => []IInv
  BY InitInv, StepInv, PTL DEF Spec

\* Every compiler exits with 0 or 1, and exactly when it is done.
THEOREM TypeCorrect == Spec => []TypeOK
<1>1. IInv => TypeOK
  BY DEF IInv
<1> QED BY <1>1, Invariance, PTL

\* No compiler that is past opening its file still has an earlier run's output
\* at that name.
THEOREM NeverStale == Spec => []NoStaleOutput
<1>1. IInv => NoStaleOutput
  <2> SUFFICES ASSUME IInv, NEW c \in Compiler,
                      step[c] \in {"emit", "rename", "link", "linked", "unlinked"}
               PROVE  /\ disk[Job[c].output].of \in {c, NoOne}
                      /\ disk[Job[c].output] # Old
    BY DEF NoStaleOutput
  <2>1. Progress(c)
    BY DEF IInv
  <2>2. Emitted(c).of = c /\ Emitted(c) # Old
    BY DEF Emitted
  <2>3. disk[Job[c].output] \in {written(c, "empty"), Emitted(c), Missing, product(c)}
    BY <2>1 DEF Progress
  <2> QED BY <2>2, <2>3, JobFacts
<1> QED BY <1>1, Invariance, PTL

\* Whatever fails, a compiler touches only its output file and the object file
\* beside it, and only while it is at work.
THEOREM OwnFiles == Spec => OnlyOwnFiles
<1>1. ASSUME IInv, [Next]_vars
      PROVE  \A f \in File :
               disk'[f] # disk[f] => \E c \in Compiler : Active(c) /\ f \in Files(c)
  <2>1. CASE UNCHANGED vars
    BY <2>1 DEF vars
  <2>2. CASE Next
    BY <1>1, <2>2, Locality DEF Next, ActsOnItsOwn
  <2> QED BY <1>1, <2>1, <2>2
<1>2. IInv /\ [Next]_vars =>
        [\A f \in File :
           disk'[f] # disk[f] => \E c \in Compiler : Active(c) /\ f \in Files(c)]_vars
  BY <1>1
<1> QED BY <1>2, Invariance, PTL DEF Spec, OnlyOwnFiles
\* An exit, and whether the output is at its name then.
LEMMA ExitCode ==
    ASSUME IInv, NEW c \in Compiler, Acts(c), exit_code'[c] # exit_code[c]
    PROVE  exit_code'[c] = 0 <=> disk'[Job[c].output] = product(c)
<1>0. TypeOK /\ Unwritten(c) /\ Progress(c)
  BY DEF IInv
<1> USE <1>0, JobFacts, NoOneIsNoCompiler DEF TypeOK, Unwritten, Progress, Emitted
<1>1. CASE write_output(c)
  BY <1>1 DEF write_output, Goes
<1>2. CASE cannot_open(c)
  BY <1>2 DEF cannot_open, Exits
<1>3. CASE open(c)
  BY <1>3 DEF open, Goes
<1>4. CASE cannot_emit(c)
  BY <1>4 DEF cannot_emit, Exits
<1>5. CASE emit(c)
  BY <1>5 DEF emit, Writes, Goes, Exits
<1>6. CASE cannot_rename(c)
  BY <1>6 DEF cannot_rename, Exits
<1>7. CASE rename(c)
  BY <1>7 DEF rename, Goes
<1>8. CASE link(c)
  BY <1>8 DEF link, Goes
<1>9. CASE remove_object(c)
  <2>1. disk'[Job[c].output] = disk[Job[c].output]
    BY <1>9 DEF remove_object, Writes, temporary
  <2> QED BY <1>9, <2>1 DEF remove_object, Exits
<1> QED BY <1>1, <1>2, <1>3, <1>4, <1>5, <1>6, <1>7, <1>8, <1>9 DEF Acts

\* Every exit code is right when it is given: 0 exactly if the complete output
\* of the compiler's own module is where the user asked for it.
THEOREM ExitCodes == Spec => ExitCodeTellsProduct
<1>1. ASSUME IInv, [Next]_vars
      PROVE  \A c \in Compiler :
               (exit_code'[c] # exit_code[c]) =>
                 (exit_code'[c] = 0 <=> disk'[Job[c].output] = product(c))
  <2> SUFFICES ASSUME NEW c \in Compiler, exit_code'[c] # exit_code[c]
               PROVE  exit_code'[c] = 0 <=> disk'[Job[c].output] = product(c)
    OBVIOUS
  <2>1. PICK d \in Compiler : Acts(d)
    BY <1>1 DEF Next, vars
  <2>2. c = d
    BY <1>1, <2>1, Locality DEF ActsOnItsOwn
  <2> QED BY <1>1, <2>1, <2>2, ExitCode
<1>2. IInv /\ [Next]_vars =>
        [\A c \in Compiler :
           (exit_code'[c] # exit_code[c]) =>
             (exit_code'[c] = 0 <=> disk'[Job[c].output] = product(c))]_vars
  BY <1>1
<1> QED BY <1>2, Invariance, PTL DEF Spec, ExitCodeTellsProduct

-------------------------------------------------------------------------------

\* A compiler that has begun stays so.
LEMMA BegunForGood ==
    ASSUME IInv, NEW c \in Compiler, Acts(c), NEW d \in Compiler, step[d] # "idle"
    PROVE  step'[d] # "idle"
  BY DEF IInv, TypeOK, Acts, write_output, cannot_open, open, cannot_emit, emit, cannot_rename,
         rename, link, remove_object, Goes, Exits

LEMMA StepKeepsOutputs ==
    ASSUME IInv, OutputsStay, [Next]_vars
    PROVE  OutputsStay'
<1>1. CASE UNCHANGED vars
  BY <1>1 DEF vars, OutputsStay, Undisturbed
<1>2. CASE Next
  <2>. SUFFICES ASSUME NEW c \in Compiler, exit_code'[c] = 0, Undisturbed(c)'
       PROVE  disk'[Job[c].output] = product(c)
    BY DEF OutputsStay
  <2>. PICK d \in Compiler : Acts(d)
    BY <1>2 DEF Next
  <2>1. CASE exit_code'[c] # exit_code[c]
    <3>1. c = d
      BY <2>1, Locality DEF ActsOnItsOwn
    <3>. QED
      BY <2>1, <3>1, ExitCode
  <2>2. CASE exit_code'[c] = exit_code[c]
    <3>1. Undisturbed(c)
      BY BegunForGood DEF Undisturbed
    <3>2. disk[Job[c].output] = product(c) /\ step[c] = "done"
      BY <2>2, <3>1 DEF OutputsStay, IInv, TypeOK
    <3>3. Job[c].output \in File /\ Job[c].output \in Files(c)
      BY JobFacts
    <3>4. disk'[Job[c].output] # disk[Job[c].output] => Job[c].output \in Files(d) /\ Active(d)
      BY <3>3, Locality DEF ActsOnItsOwn
    <3>5. Active(d) => d # c /\ step[d] # "idle"
      BY <3>2 DEF Active
    <3>6. Active(d) => Files(c) \cap Files(d) = {}
      BY <3>1, <3>5 DEF Undisturbed
    <3>. QED
      BY <3>2, <3>3, <3>4, <3>6
  <2>. QED
    BY <2>1, <2>2
<1>. QED
  BY <1>1, <1>2

\* However many compile at the same time, the output of a run that succeeded is
\* there until one begins that was given a name of its files.
THEOREM OutputsAreKept == Spec => []OutputsStay
<1>1. Init => OutputsStay
  BY DEF Init, OutputsStay, NoExitCode
<1>2. IInv /\ OutputsStay /\ [Next]_vars => OutputsStay'
  BY StepKeepsOutputs
<1>. QED
  BY <1>1, <1>2, Invariance, PTL DEF Spec
================================================================================
