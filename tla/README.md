# A formal model of the cha compiler

cha compiles a small typed language to LLVM IR, assembly, an object file or a
binary. This directory has TLA+ modules translated from its sources
(`src/src/*`), TLC configurations that check them on small instances, and proofs
that TLAPS checks for every instance. Line numbers below are those of the files
under `src/src/` of the repository; `PROJECT.json` maps each definition to the
lines it stands for.

## The system

| Component | State it keeps | Operations | What makes it correct |
| --- | --- | --- | --- |
| Scanner (`scanner.l`) | flex's buffer, the end of file it found behind it, `yyin`, `yylineno` | next token; `exit` on an unknown character or an unreadable file | the longest match; nothing of one file is left for the next |
| Parser (`parser.y`) | bison's stack and lookahead; `parsed_ast`, `current_file` and the open files, all global | `parse` | the tree the text means, or an exception; every file closed once |
| Syntax tree (`ast.hpp`) | the nodes; `result_type_` of each is written later | constructors, `clone`, visitors | children before parents; literals start with a constant type |
| Type rules (`TypeUtils`) | none | conversion, assignment, comparison, retyping of constants | three families that never mix implicitly |
| Symbol table (`SymbolTable`) | a chain of tables linked by `parent_` | `insert`, `lookup`, `create_child_scope` | behaves as a lexical environment |
| Validator (`validate.cpp`) | `errors_`, `symbol_table_`, `current_function_`, and the types in the tree | `validate` | accepts exactly the legal programs; scopes are paired; types it leaves are usable |
| Code generator (`codegen.cpp`) | `named_values_`, `functions_`, `current_function_`, `current_value_`, the module and its insert point | `generate`, one visitor per node | what it makes is what the validator understood; the module verifies |
| Generated code | what a run of it computes | the instructions for literals, operators, variables, arguments | what the source means, modulo the width of the type |
| Output (`write_output`) | files on disk | open, emit, rename, link, remove | exit code 0 exactly when the output is there |
| `compile` (`cha.cpp`) | none of its own | parse, validate, generate | every failure becomes exit code 1, no phase after a failed one |
| Log, exceptions, command line | none that changes | | (not modelled, see the end) |

The scanner and the parser share the lookahead and global variables that outlive
a call: nothing but `yyin` is set anew for the next file. The parser hands one
tree to the validator, the validator annotates it in place (through
`const_cast`), and the generator reads the annotations: the tree is shared
mutable state between the phases. The generator does not use the validator's
symbol table; it keeps two maps of its own and trusts that the names it meets
were checked. So each phase has its own idea of scope and of type, and most of
what is hard in this program is where the two ideas meet. The last phase leaves
the process: files, a child process for the linker, and whatever else runs on
the same directory.

What is hard to test here:

- the order of declarations (functions are known from the start, constants from
  where they stand, to the generator functions only after their bodies);
- scopes on error paths, where a visitor returns early;
- types that a visit leaves in the tree and a later visit, or a later
  validation, or the generator, reads;
- basic blocks and their terminators after nested ifs that return in some
  branches;
- widths, which the validator treats as interchangeable and LLVM does not, and
  the signed instructions that unsigned types are given;
- what a syntax error leaves behind for the next file, and where one token or
  one statement ends when nothing separates it from the next;
- the output file under every combination of failures.

`PROJECT.json` lists them as hazards, each at its line with the properties that
watch it.

## The modules

**`ChaTypes`** has the types, by the values of their enumerators so that the
range tests of the code are range tests here, and `TypeUtils`' rules.
`is_assignment_compatible` and `is_numeric_comparison_compatible` are stated as
the rule their chains of ifs amount to. It also has the LLVM type the generator
picks for a type and for a literal.

**`Ast`** is the tree: `nodes` in tree order (children before parents) and the
list of top-level nodes. `IsAst` is what the grammar guarantees: which nodes
stand where, and that every node made is in the tree in exactly one place, behind
all that is under it (`InPostOrder`). **`AstNodes`**
has the constructors of the nodes, as the grammar's actions call them;
**`AstBuilder`** lets the runs write programs with them, nested.

**`Scanner`** is `yylex`. A text is a sequence of characters and keywords.
`lexeme` has the rules, `Longest` flex's choice, and the actions what flex does
between matches: it reads more only while a match may go on behind what it has
(`read_file`), finds the end of the file (`end_of_file`) and matches what is
left first, drops blanks and comments (`skip`). A comment's `$` is a trailing
newline, so `//` at the very end of a file is two slashes. A file fits into one
read of flex's buffer. The fourteen type keywords are one token and so are the
two booleans; literals have no value here; column numbers are left out.

**`Parser`** is `parse`, called for one file after another (`Sessions`) in one
process: `cannot_open` and `parse` begin a call, `yylex` and `exit` are the
scanner's part, and `shift`, `reduce(r)`, `accept` and `yyerror` are bison's.
The automaton is not written down but computed from the grammar: an entry of
`stack` carries its kernel of items, `goto` is its transition, and where a state
can both shift and reduce the declared precedences decide, or else it shifts.
bison may reduce before it reads the lookahead where a state has only one thing
to do; the model always reads it first. That changes when a blank is skipped and
nothing else that is modelled. Its stack has no limit here.
**`ParserProperties`** compares what is read with what was printed;
**`MCParser`** has a printer, the programs, and texts no program prints;
**`ParserProofs`** the proofs.

**`SymbolTable`** is the chain, as the sequence of tables from the global one to
the current one, with the operations of `SymbolTable` and the two helpers of
`Validator` that move along it. **`LexicalEnvironment`** is the abstract
specification: what every name means in every open scope.
**`SymbolTableProofs`** proves that the first implements the second.

**`Validator`** unfolds the recursive visitors into steps. The C++ stack becomes
`frames`, one per `create_stack_frame`, each with what is left to do in it; an
item is a visit of a node (`validate_node`) or the rest of a visitor after its
children (`check_assignment` is what follows `validate_node(node.value())` in
`validate_variable_assignment`). The declaration a visitor looked up *before* it
visits a child is held in the item, as the code holds `entry` in a local
variable. Actions bear the names of the functions they are part of. `resolved`
and `verdict_before`/`types_before` only record. **`StaticSemantics`** states
the language's rules over the finished tree, with no order of evaluation, no
table and no stack: a declaration is in force at a node if it is known, in the
list it is declared in, where that list goes on to the node, and `Resolve` is the
first such declaration of the innermost such list. **`ValidatorProperties`**
compares. **`MCPrograms`** and **`MCValidator`** have the programs of the runs,
**`ValidatorProofs`** and **`ResolutionProofs`** the proofs.

**`LlvmIr`** is what the generator needs of LLVM: values with a type and whether
they are constants, basic blocks with their terminators, the storage they make
and use, and what `verifyModule` refuses (a block without exactly one terminator
at its end, operands of different types, storage used where its block does not
dominate). LLVM is not in the repository; this module is written from how
`codegen.cpp` uses it.

**`CodeGenerator`** unfolds the generator's visitors in the same way. `kept` has
the values that visitors hold in locals (`left_val`, `args`). `named_values_`
maps a name to the declaration whose storage it is. Whether the builder folds
two constants of different types or appends an instruction that the verifier
then refuses depends on the build, so both are possible; likewise the cast of a
global to an `AllocaInst`. `uses` and `stores` only record.

**`CheckedTree`** is what the generator relies on without looking: calls with as
many arguments as their functions take, one function to a name, and numbers for
operands, arguments and conditions. **`ValidatorProofs`** shows that a
validation without errors has made sure of it, **`CodeGeneratorProofs`** what
the generator does on any tree and on a checked one, and **`CompilerProofs`**
puts the two together. **`TreeProofs`** has what all of them need to know of
trees in tree order.

**`Compiler`** composes `Validator` and `CodeGenerator` as `compile` does: they
share `ast` and `result_type`, and phases follow each other as the try blocks
do. The parser is its outcome: one of `Programs`, or an exception; that this is
what it can hand over is `ParsedIsAst` of `Parser`. **`CompilerProperties`** has
the properties across phases, **`MCCompiler`** the programs.

**`Execution`** extends `Compiler`: once a program has compiled, its function is
run. Nodes stand in tree order, which without ifs and calls is the order of the
instructions, so `here` walks along them; `number` is what each literal spells
and each argument is given, `register` what each instruction yields, `memory`
what each variable holds. Literals go through `strtoll` or `strtoull`, which
saturate, and lose their high bits in `ConstantInt`; division and orderings are
the signed instructions `codegen.cpp` always picks. Three things end the run as
"undefined": loading what nobody stored to, a division that LLVM does not define,
and a store of a value of another width than the variable's, which the generator
makes without a word (the run `narrow_store`). So what a variable holds always has
its width, but not because the code sees to it. A function that combines values of
two widths in one operator is not run, nor are floats, ifs and calls.
**`MCExecution`** has the functions.

**`OutputFiles`** is `write_output`, with the files as state and several
compilers as processes. Each step that can fail (finding the target, opening,
emitting, writing, renaming, linking, removing) can fail at any time. A write
error is kept by the stream, as `raw_fd_ostream` keeps it, until the stream is
destroyed, after the link. Compilers work at the same time only when they share
no file; one after another they may share any. **`MCOutputFiles`** has the jobs;
**`OutputFilesProofs`** the proofs.

Modules that are the subject of a run also hold *wrong variants*, named for the
bug they contain and marked in the module's comment. No specification uses them:
put in place of the right definition they must break a property, which shows
that the property notices.

## The runs

| Run | Instance | What it shows |
| --- | --- | --- |
| `symbol_table` | two names, two declarations, three scopes | the chain implements `LexicalEnvironment` |
| `parser` | printed programs with every pair of operators nested both ways, every pair of twelve statements, every form of function and constant; words that are one token or two; broken, empty, missing and unreadable files, up to three in a row | what is printed is read as it was meant (`ProgramsAreRead`); files are closed once; what one call leaves to the next (`LeftoversOnlyAfterFailure`, `LinesDrift`); every call ends |
| `validator` | every expression of depth one over eleven atoms, those of depth two over five, in seven kinds of place; bodies of up to three statements with nested ifs over one name; up to three of eight top-level declarations; each validated twice | the verdict is that of the static rules, a second validation agrees, literals leave their family only as operands of comparisons and keep a type once it is fixed, scopes are paired, names resolve lexically, termination |
| `compiler` | seven types in four kinds of place over six atoms and their combinations; nested ifs with declarations, assignments and returns in every branch; up to three of eleven top-level parts | what compiles is legal and fits, what is plain compiles; the generator resolves as the validator does, with exactly the stated exceptions; an accepted tree fails only at a name (`OnlyNamesFail`); blocks are well formed; termination |
| `execution` | 152 functions of two arguments, run on every argument; literals within, at and beyond the bounds of their types; values of all widths stored in variables of all widths | results are the mathematical ones modulo the width (`ResultsWrapAround`); values have their types; what undefined behaviour a function can meet is known from its text (`UndefinedIsExplained`) |
| `output_files` | a binary built twice, another and an IR file beside it, files present or not before | exit codes, stale outputs, files touched; outputs stay while nobody is told to write there; everybody ends |

In most of the code the bounds are enough because it has no counters or limits:
what matters is which declaration is in force, which family and width meet, and
which branch returns. Depth two shows every pair of visitors nested, three
statements show before, inside and after, and three scopes show an inner one
hiding and restoring an outer one that itself hides one. Nothing depends on the
number of names beyond whether two are equal; the runs give as many as have
different roles. Literals stand for their type, except in `execution`.

For the parser, what counts is which two operators or statements meet, and a
state of bison's automaton is determined by what was nested around it: the
programs reach every pair. Three files show a failure, what it leaves, and a
file that is read again. An identifier is cut at `MaxIdentifier` characters, 4
in the run instead of 32, so that the cut happens in a short word.

`execution` scales the widths to 3, 4, 5 and 6 bits for 8, 16, 32 and 64: they
stay different and in order, which is all that the code's use of them depends
on, and `Numeral` has numbers on both sides of every signed and unsigned bound.
`ResultsWrapAround` excepts what is built on a literal too long for `strtoll`,
and on a comparison or division that reads an operand other than it is meant,
because it has overflowed or is unsigned and in the upper half of its range.
`UndefinedIsExplained` says from the text alone where a run can end as undefined:
at a variable that was declared without a value and not assigned, at a division, or
at a store of another width. The width of a value is that of its static type; of
constants only a literal that is assigned takes the variable's, so `var c int8 = 1`
and `c = -1` are such stores and `c = 1` is not.

Six runs show where the program differs from what the repository says of it
(`findings` in `PROJECT.json` quotes the lines):

| Run | What TLC finds |
| --- | --- |
| `readme_constants` | the README's `timesten` does not compile: a function body forgets global constants |
| `forward_call` | a call of a later function validates and then fails in the generator (so does recursion) |
| `shadowing` | with exit code 0, a name means the variable of a block that has ended |
| `narrow_store` | with exit code 0, `b = -128` stores 32 bits in an `int8` |
| `final_comment` | a comment on the last line is a syntax error unless a newline follows it |
| `readme_usage` | `cha -o output` deletes the `output.o` that `cha -c output.o` made |

The passing runs are stated around these: `GeneratorResolves` excepts a use that
a declaration left over from an ended block hides, `FailuresExplained` lists the
failures an accepted tree may still meet (both are about names, which is
`OnlyNamesFail`), `SuccessIsSound` says that what compiles fits by the types of
what the generator found for the names (`shadowing`), and `PlainProgramsCompile`
is about programs that avoid them. `RevalidationAgrees` excepts the comparison of
two constants of different families (`1 == 1u`), which swaps the types of the two
at each validation (lines 440-443 and 457-460 of `validate.cpp`). It covers the
comparison of one constant with an operand of a fixed type: in `a == 1u`, with `a`
an `int8`, the literal becomes an `int8` and stays one, whatever its family.
`LiteralsKeepFamily` says of every literal by itself that this is the only way to
leave a family: the literal is an operand of a comparison, and has the type of the
other operand. `ProgramsAreRead`
excepts a file that ends in a comment, and those in which a statement goes on in
the next line because nothing ends one: a `ret` before an expression, or a line
that begins with a parenthesis or a minus. `OutputsStay` is about the time until
another compiler that was given one of the two names begins.

Fairness: `Parser`, `Validator` and `Compiler` are one thread each that nothing
blocks, so `WF_vars(Next)`; `Execution` states no liveness, as a run of it is as
long as its function. In `OutputFiles` each compiler is a process, so weak
fairness of each one's steps; nothing is assumed about which of its steps
succeed. `CHECK_DEADLOCK FALSE` appears where programs end.

## The proofs

Eight modules hold theorems; all of them are about every value of the constants.

**`SymbolTableProofs`.** `TypeCorrect` and `Refinement` (the chain implements
`LexicalEnvironment`). The invariant adds to the type that every name held
somewhere along the chain has an innermost holder, without which the walk along
`parent_` could not be replaced by a maximum. The refinement has one lemma per
operation, on what it does to what *every* table answers for every name.
Assumption: `NoEntry` is no declaration.

**`ParserProofs`.** `TypesAreKept`, `TreesAreAsts`, `FilesAreClosedOnce` and
`BufferIsCarriedOverOnlyAfterFailure`, for any files, of any content, in any
order. That what is parsed is a tree rests on three parts of the invariant.
`StackInv` says that every item of every state on bison's stack finds the
symbols in front of its dot right there on the stack, so that a complete rule
finds all of its symbols on top; `goto` keeps it, as it only moves dots over
what is pushed. `Fits` says what kind of value a symbol has: the nodes, or lists
of nodes, an action may count on. `NodesInv` is `IsAst` without the list of
instructions and the order of the tree, and a lemma per kind of action shows that
the node or the value it makes fits the symbol it is reduced to. That no node is
lost or in two places is `TreeInv`: the subtrees in the values on the stack lie
one behind the other over all nodes made so far (`Tiled`), since each action
takes every value it is given, once and in order; and only the whole can be
accepted, because `parse` stands nowhere but at the bottom of the stack
(`Outermost`). Where a subtree begins is a recursive function of the tree; what is
said of it is said by least counterexamples. Nothing about the grammar is assumed
but its rules. `BufferInv` knows that the end of file is a token only when the
buffer is used up. Assumptions: contents are texts, missing or unreadable, and
there is a name.

**`ValidatorProofs`.** `TypeCorrect`, `FramesAreOwners` (scopes are created and
released in pairs, `current_function_` is the function around), `FixedLiterals`
(a literal whose type is fixed keeps it) and, through the theorem that every
step of the validator is an operation of the symbol table or leaves it alone
(`DrivesSymbolTable`), `LexicalScopes`. `TypeOK` is not inductive: a step that
finds `check_assignment` at the head of a list has to know that the node is an
assignment with a value and that the entry held is a node of the tree. So `IInv`
says which items can stand at which depth: in the first frame only top-level
nodes, above it only statements and expressions, each for a node of its
visitor's kind; and the owner of the second frame is a function, of the ones
above it an if. Assumptions: the programs are trees (`IsAst`), and validate is
called at least once.

Its second half is `AcceptedIsChecked`: if validate returns without an
error, the tree is checked (`CheckedTree`). The difficulty is that the validator
looks at a call's arity at one time, at its arguments at another and at the use
of its result at a third, that it may visit a node more than once or, after an
error, not at all, and that it reads types other visits have written.
`AcceptInv` therefore speaks of the run so far without errors: `SeenInv` says
that there is a set of nodes, each of which has been looked at, and whose parts
are in the set or pending in some frame; `RegisteredInv` that a top-level
function is what its name means in the global table, or is still to be
registered; `EntriesInv` and `HeldInv` that what the tables and the items hold is
a declaration of that name, and a function only a top-level one; `CallsInv`
that a call with a type is of a function of that type; `ConditionsInv` that a
condition is typed before it is checked. When nothing is pending, the set is
closed and its nodes are checked.

**`TreeProofs`.** A node's subtree is an interval that ends with it. From
`InPostOrder`, the intervals of the children are apart and fill the interval of
their parent but for its last node, and of two nodes one is below the other or
they are apart (`Nested`). Where a subtree begins is a recursive function; what is
said of it is said by least counterexamples (`Least`).

**`ResolutionProofs`.** `NamesAreResolved` is `NamesResolveLexically` for any
programs: `lookup`, which knows only a chain of tables filled so far, answers
what `Resolve` says of the place of the use in the finished tree. It takes three
invariants. `PlacedInv` says where the validator is: every frame is for a list of
the tree, is at one node of it, has left to do what is left of that node and the
nodes after it, in this order, and its table holds, name by name, the first of
the declarations entered, which are the ones before that node and the functions
registered. When a use is visited, the nodes the frames are at are one above the
other down to the use (`Spine`), so no list outside the chain has the use below
one of its nodes (`SpineCovers`), and the last table that holds the name is the
innermost list in which it is known (`LookupResolves`); that is where each node
having one place in the tree (`InPostOrder`) is needed. `FoundInv` then says that
whatever `resolved` holds is `Resolve`. `AwaitedInv` says that, while there are
no errors, a use that was not looked up is below a node some item of a frame is
still to visit, so that it cannot be left out.

`DeclarationsAreFirst`: without errors every declaration is the first of its
list. `DeclaredInv` says so of the declarations no item will still visit, as the
table holds the first ones entered (`PlacedInv`) and an insertion of another one is
an error; `CalledInv` that what a call was resolved to is a function. Together
these make the tree `Settled`, and of a settled tree something can be said
without any scopes, which is all the generator has: if of the arguments and
variables of a name in a function that come before a use in tree order the last
is not what the use means, it was declared in a block that has ended
(`StorageMeant`), and a function of the name is the only one (`FunctionMeant`).

`VerdictsAreStatic` is `VerdictIsStatic` for any programs: the first validation
of a tree has an error exactly when the tree is not `Legal`. The rules speak of
`TypesOf`, which gives each node a type from its operands and from what its name
means; that there is one such function is shown by least counterexample. The
validator computes these types in another order, some of them more than once, and
looks at them later. `VerdictInv` follows it. What is left to do is in tree order
(`OrderInv`), and in all frames but the first below one function (`WithinInv`);
what items hold on to is what the tree means (`MeantInv`). In the first round
(`RoundInv`), what is still to be typed has the type it was made with
(`FreshInv`), and what is still to be read has its type in `TypesOf` or gets it
before (`TypedInv`). So an error is for a tree that breaks a rule (`BlamedInv`),
and while there is none, every rule is obeyed or still to be judged (`JudgedInv`,
and `PassedInv` for the arguments of calls). When nothing is left, no error means
that all are obeyed. The types of a comparison's literals are why this is about
the first validation: a second one starts from what the first has left.

`FamiliesStay` is `LiteralsKeepFamily`, for any number of validations. `GivenInv`
is what all of them keep: a node has no type yet, or the one the rules give it, or,
if that is a constant's, what its place asks it to be (`AsksFor`): the type of the
sum it is an operand of, the type by the rules of the other operand of a
comparison, a type of its own family as a value that is assigned, passed or
returned (`ValueIn`). A node has one place, so the operation that asked is the only
one that reads the type again (`OnlyAsked`, `NotAsked`), and comes to the same
result with the type it gave as with the constant (`SumsStay`).

`AssignedInv` is about the literals that assignments give to variables: such a
literal is in one place of the tree, so nothing but the check of its assignment
gives it a type, and when there are no errors and the use was looked up, either
that check is still to come or the literal has the variable's type.

Assumptions of the module: those of `ValidatorProofs`; that the trees are in
post-order, and each operator fits its kind of node, is part of `IsAst`, which
`TreesAreAsts` proves of what the parser returns.

**`CodeGeneratorProofs`.** `Invariance`: `GInv` holds of the generator on any
tree the grammar allows, accepted or not, with any result types. It never lacks
a value or a constant, never uses a global as a local variable, and leaves no
block without its terminator. What is left to do is a flat list here, so its
shape carries everything. `ItemsInv`: an item that needs the last value comes
right after one that yields it, and after a return comes what ends a block,
unless the source has a statement there. `RegionInv`: first what is left of one
function, up to its end, or of one constant, then instructions. `KeptInv`: there
is a depth before each item so that every item that pops finds what it pops.
`NamesInv`: inside a function all names are storage, outside they are constants,
which is what the code's swap of `named_values_` is for. `BlocksInv`: each open
block but the insert point is awaited by exactly one item. Assumption: the tree
is an `IsAst`.

`NeverUnchecked`: on a tree some set of whose nodes is checked the generator
finds no wrong number of arguments and no condition that is not a number.
`NumbersInv` adds to `GInv` that all it has to visit is in the set and that each
value waited for will be a number.

`FindsWhatIsThere`: what the generator's maps answer. The items left to do tile
what is left of the tree (`NamingInv`): there is a position before each of them,
each item's subtrees span from its position to the next, and behind the current
position nothing is entered. `Binds` says that inside a function
`named_values_` holds of each name the latest argument or variable of that
function up to that position in tree order. `Finds` says of a function name that
`functions_` does not hold that every function of that name ends behind that
position, which is why a function does not find itself. That a function names
its arguments apart is assumed here (of two of one name, the second would be
entered over the first); the validator shows it of what it accepts.

**`CompilerProofs`.** `TypeCorrect`, `OtherFailuresExcluded`, `ClosedBlocks`,
`NamesAreFound` (`GeneratorResolves`), `MissesAreExplained`
(`FailuresExplained`), `SuccessSound` (`SuccessIsSound`) and `LiteralsFit`
(`AssignedLiteralsFit`).
The invariant `CInv` is made of those of the phases and `HandOver`: the generator
waits until validate has ended, starts only if there are no errors, and then
works on a tree of which a set of nodes is checked. A step of one phase leaves
the variables of the other alone; the only variables they share, the tree and
the result types, do not change under the generator. `OtherFailuresExcluded` is
the contract between the phases: of all the ways the generator can fail, by an
exception or by undefined behaviour, only the two for unknown names are left once
a tree is accepted. About names the phases have no contract, and two ideas of
scope: the one's is a chain of tables, the other's a flat table for each
function. `NamesInv` carries both ideas through compile, as facts about places
in the one tree they share. Where they meet, `FoundIsMeant` and `MissedIsMeant`
compare the latest storage before a use (the generator's answer) with the
declaration in force there (the validator's): they are the same unless a block
has ended in between. `SuccessSound` needs the third idea the phases do not share,
that of types: the validator writes one on every expression, the generator makes a
value of the type its code happens to give it. `TypesInv` of `CodeGeneratorProofs`
follows the generator's: the type of each kept value, of each storage and of each
value a call or a return is given is the one `ValueTypes` computes from the tree
and the names found. `VerifiedInv` says that a verified module has only fitting
values, `VerifiedFits` puts both together, and `Legal` comes from the verdict,
which `VerdictIs` shows to be static. `LiteralsFit` is where the two kinds of types
meet: by `AssignedInv` an assigned literal has the variable's type when the generator
starts, by `Legal` that type is of the literal's family, and by `TypesInv` the
store has the type `literal_value` makes of it: the variable's width, or a double.
Assumption: the programs are `IsAst`, which `TreesAreAsts` shows of what the
parser returns.

**`OutputFilesProofs`.** `TypeCorrect`, `NeverStale`, `OwnFiles`, `ExitCodes`
and `OutputsAreKept`. The invariant: compilers at work have no file in common;
until its file is open a compiler has written nothing; and what is at its two
names at each of its steps (`Progress`), where the write error decides whether
the object file is whole. The argument is a frame argument: `Locality` says what
one compiler's step leaves alone, so that each compiler's part of the invariant
is kept by its own steps for one reason and by everyone else's for another.
Assumptions: a job has two different file names and a format; compilers at work
at the same time do not share files, which is a guard of `write_output` in the
model.

Only model-checked:

- termination, of every component: liveness is out of the prover's reach.
- `ProgramsAreRead` and `LinesDrift` compare what was parsed with a given tree, or
  two runs over the same text; that an LR automaton computed from the grammar
  reads what a printer wrote is an induction over both.
- `RevalidationAgrees` compares the types and the verdicts of two validations;
  the verdict is proved of the first, and of the others only what types the nodes
  may have (`GivenInv`).
- `PlainProgramsCompile` is the converse of `SuccessIsSound`. That the verifier
  refuses a misfit is proved; that it refuses nothing else needs an invariant about
  every instruction of the module.
- `ContentsHaveTheirTypes`, `UndefinedIsExplained` and `ResultsWrapAround`: the
  first two relate a run to the generator's names and the validator's widths, which
  the proofs know only as long as the phases run; the third is about `strtoll` and
  division, whose arithmetic has no linear form.

`AstBuilder` and `MCParser` have recursive operators and are used only by the
runs.

## Not modelled, and why

- Log, exceptions and command line: no state that changes; who throws and
  catches is in the modules of the phases.
- Column numbers and the wording of messages: no decision depends on them. Of
  the locations only lines are kept.
- `clone`: the symbol table refers to declarations by number and keeps the type
  a clone would keep.
- `BlockNode`, array and identifier types: no grammar rule builds them.
- What floats compute, and the code of ifs and calls when run: the first is
  LLVM's, the others are planned.
- A text longer than flex's buffer, a parser stack at `YYMAXDEPTH`, and memory
  that runs out.
- Two compilers at the same time on the same files.

## Plan

Done, in this order: types and tree; symbol table and its refinement; validator,
its properties and proofs; code generator and LLVM; the composition; output
files and proofs; scanner and parser, with proofs; the execution of functions
without ifs and calls; the proofs of acceptance, of the generator and of what
the phases rely on; tree order, and name resolution over it, in the validator, in
the generator and between them; the validator's verdict, and the types it may
leave; the types of the values the generator makes, and the widths of assigned
literals.

Next:

1. What a second validation changes (`RevalidationAgrees`), and which programs
   always compile (`PlainProgramsCompile`), as theorems.
2. `Execution` along basic blocks, with ifs and calls.
3. Joining `Parser` and `OutputFiles` to `Compiler`, so that the text, the file on
   disk and the legality of the program are related in one property.
