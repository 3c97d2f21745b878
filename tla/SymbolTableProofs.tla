--------------------------- MODULE SymbolTableProofs ---------------------------
(***************************************************************************)
(* For any names and declarations and chains of any length, the chain of   *)
(* tables implements the lexical environment.                              *)
(***************************************************************************)
EXTENDS SymbolTable, TLAPS

Table == [Name -> Decl \cup {NoEntry}]

\* Every level that has a holder of x has a last one, and there is a table.
Inv ==
    /\ scopes \in Seq(Table)
    /\ scopes # << >>
    /\ HasInnermost

LEMMA EmptyTableIsTable == EmptyTable \in Table
  BY DEF EmptyTable, Table

\* Max answers the last holder when there is one.
LEMMA MaxIsLast ==
  ASSUME NEW S, NEW m \in S, \A j \in S : j <= m, S \subseteq Int
  PROVE  Max(S) = m
<1>1. \A y \in S : m >= y  OBVIOUS
<1>2. \A z \in S : (\A y \in S : z >= y) => z = m  OBVIOUS
<1> QED BY <1>1, <1>2 DEF Max

\* Whatever a lookup from the k-th table answers for a held name is held by
\* the last of the first k tables that hold it.
LEMMA LookupFromLast ==
  ASSUME Inv, NEW k \in DOMAIN scopes, NEW x \in Name, holders(k, x) # {}
  PROVE  /\ Max(holders(k, x)) \in holders(k, x)
         /\ Max(holders(k, x)) \in 1 .. k
<1>1. PICK i \in holders(k, x) : \A j \in holders(k, x) : j <= i
  BY DEF Inv, HasInnermost
<1>2. holders(k, x) \subseteq 1 .. k
  BY DEF holders
<1>3. k \in Nat /\ holders(k, x) \subseteq Int
  BY <1>2 DEF Inv
<1>4. Max(holders(k, x)) = i
  BY <1>1, <1>3, MaxIsLast
<1> QED BY <1>1, <1>2, <1>4

-------------------------------------------------------------------------------
(* The effect of each operation on what is held at each level. *)

\* A new table holds nothing, so every level below keeps its holders and the
\* new level has those of the level it was created from.
LEMMA CreateHolders ==
  ASSUME Inv, NEW L, L = Len(scopes), create_stack_frame
  PROVE  /\ scopes' \in Seq(Table)
         /\ Len(scopes') = L + 1
         /\ \A k \in DOMAIN scopes : scopes'[k] = scopes[k]
         /\ scopes'[L + 1] = EmptyTable
         /\ \A k \in DOMAIN scopes, x \in Name : holders(k, x)' = holders(k, x)
         /\ \A x \in Name : holders(L + 1, x)' = holders(L, x)
<1>1. /\ scopes' \in Seq(Table)
      /\ Len(scopes') = L + 1
      /\ \A k \in DOMAIN scopes : scopes'[k] = scopes[k]
      /\ scopes'[L + 1] = EmptyTable
      /\ L \in Nat \ {0}
  BY EmptyTableIsTable DEF Inv, create_stack_frame
<1>2. \A k \in DOMAIN scopes, x \in Name : holders(k, x)' = holders(k, x)
  BY <1>1 DEF holders, Inv
<1>3. \A x \in Name : holders(L + 1, x)' = holders(L, x)
  <2> TAKE x \in Name
  <2>1. EmptyTable[x] = NoEntry
    BY DEF EmptyTable
  <2> QED BY <1>1, <2>1 DEF holders, Inv
<1> QED BY <1>1, <1>2, <1>3

\* Releasing the current table leaves the levels below it as they were.
LEMMA ReleaseHolders ==
  ASSUME Inv, release_stack_frame, Len(scopes) > 1
  PROVE  /\ scopes' \in Seq(Table)
         /\ Len(scopes') = Len(scopes) - 1
         /\ \A k \in DOMAIN scopes' : scopes'[k] = scopes[k]
         /\ \A k \in DOMAIN scopes', x \in Name : holders(k, x)' = holders(k, x)
<1>1. /\ scopes' \in Seq(Table)
      /\ Len(scopes') = Len(scopes) - 1
      /\ \A k \in DOMAIN scopes' : scopes'[k] = scopes[k]
  BY DEF Inv, release_stack_frame
<1>2. \A k \in DOMAIN scopes', x \in Name : holders(k, x)' = holders(k, x)
  BY <1>1 DEF holders, Inv
<1> QED BY <1>1, <1>2

\* Inserting a new name makes the current table hold it, and changes nothing
\* else that any table holds.
LEMMA InsertHolders ==
  ASSUME Inv, NEW n \in Name, NEW d \in Decl,
         NEW L, L = Len(scopes), insert(n, d), is_new(n)
  PROVE  /\ scopes' \in Seq(Table)
         /\ Len(scopes') = L
         /\ scopes'[L][n] = d
         /\ \A k \in DOMAIN scopes, x \in Name :
                (k # L \/ x # n) =>
                    /\ scopes'[k][x] = scopes[k][x]
                    /\ holders(k, x)' = holders(k, x)
         /\ holders(L, n)' = holders(L, n) \cup {L}
<1>1. scopes' = [scopes EXCEPT ![L] = [@ EXCEPT ![n] = d]]
  BY DEF insert
<1>2. L \in DOMAIN scopes /\ L \in Nat /\ scopes[L] \in Table
  BY DEF Inv
<1>3. [scopes[L] EXCEPT ![n] = d] \in Table
  BY <1>2 DEF Table
<1>4. scopes' \in Seq(Table) /\ Len(scopes') = L
  BY <1>1, <1>2, <1>3 DEF Inv
<1>5. /\ \A k \in DOMAIN scopes : k # L => scopes'[k] = scopes[k]
      /\ scopes'[L] = [scopes[L] EXCEPT ![n] = d]
  BY <1>1, <1>2
<1>6. scopes'[L][n] = d /\ \A x \in Name : x # n => scopes'[L][x] = scopes[L][x]
  BY <1>2, <1>5 DEF Table
<1>7. \A k \in DOMAIN scopes, x \in Name :
        (k # L \/ x # n) => scopes'[k][x] = scopes[k][x]
  BY <1>5, <1>6
<1>8. \A k \in DOMAIN scopes, x \in Name :
        (k # L \/ x # n) => holders(k, x)' = holders(k, x)
  <2> TAKE k \in DOMAIN scopes, x \in Name
  <2>1. \A i \in 1 .. k : i \in DOMAIN scopes /\ (i = L => k = L)
    BY <1>2 DEF Inv
  <2> QED BY <1>7, <2>1 DEF holders
<1>9. holders(L, n)' = holders(L, n) \cup {L}
  <2>1. d # NoEntry
    BY NoEntryIsNoDecl
  <2>2. \A i \in 1 .. L : i \in DOMAIN scopes
    BY <1>2 DEF Inv
  <2> QED BY <1>2, <1>6, <1>7, <2>1, <2>2 DEF holders
<1> QED BY <1>4, <1>6, <1>7, <1>8, <1>9

-------------------------------------------------------------------------------
(* The inductive invariant. *)

LEMMA InitInv == Init => Inv
<1> SUFFICES ASSUME Init PROVE Inv
  OBVIOUS
<1>1. scopes \in Seq(Table) /\ scopes # << >> /\ Len(scopes) = 1
  BY EmptyTableIsTable DEF Init
<1>2. \A x \in Name : holders(1, x) = {}
  BY DEF Init, holders, EmptyTable
<1> QED BY <1>1, <1>2 DEF Inv, HasInnermost

LEMMA StepInv == Inv /\ [Next]_scopes => Inv'
<1> SUFFICES ASSUME Inv, [Next]_scopes PROVE Inv'
  OBVIOUS
<1>1. CASE reset
  <2>1. scopes' \in Seq(Table) /\ scopes' # << >> /\ Len(scopes') = 1
    BY <1>1, EmptyTableIsTable DEF reset
  <2>2. \A x \in Name : holders(1, x)' = {}
    BY <1>1 DEF reset, holders, EmptyTable
  <2> QED BY <2>1, <2>2 DEF Inv, HasInnermost
<1>2. ASSUME NEW n \in Name, NEW d \in Decl, insert(n, d)
      PROVE  Inv'
  <2>1. CASE ~ is_new(n)
    BY <1>2, <2>1 DEF insert, Inv, HasInnermost, holders
  <2>2. CASE is_new(n)
    <3>1. scopes' \in Seq(Table) /\ Len(scopes') = Len(scopes)
      BY <1>2, <2>2, InsertHolders
    <3>2. ASSUME NEW k \in DOMAIN scopes', NEW x \in Name, holders(k, x)' # {}
          PROVE  \E i \in holders(k, x)' : \A j \in holders(k, x)' : j <= i
      <4>1. k \in DOMAIN scopes
        BY <3>1 DEF Inv
      <4>2. CASE k # Len(scopes) \/ x # n
        BY <1>2, <2>2, <3>2, <4>1, <4>2, InsertHolders DEF Inv, HasInnermost
      <4>3. CASE k = Len(scopes) /\ x = n
        <5>1. holders(k, x)' = holders(k, x) \cup {k}
          BY <1>2, <2>2, <4>3, InsertHolders
        <5>2. holders(k, x) \subseteq 1 .. k /\ k \in Nat
          BY <4>1 DEF holders, Inv
        <5> QED BY <5>1, <5>2
      <4> QED BY <4>2, <4>3
    <3>3. scopes' # << >>
      BY <3>1 DEF Inv
    <3> QED BY <3>1, <3>2, <3>3 DEF Inv, HasInnermost
  <2> QED BY <2>1, <2>2
<1>3. CASE create_stack_frame
  <2>1. scopes' \in Seq(Table) /\ Len(scopes') = Len(scopes) + 1
    BY <1>3, CreateHolders
  <2>2. ASSUME NEW k \in DOMAIN scopes', NEW x \in Name, holders(k, x)' # {}
        PROVE  \E i \in holders(k, x)' : \A j \in holders(k, x)' : j <= i
    <3>1. PICK L : L = Len(scopes)
      OBVIOUS
    <3>2. L \in DOMAIN scopes /\ (k \in DOMAIN scopes \/ k = L + 1)
      BY <2>1, <3>1 DEF Inv
    <3>3. \E j \in DOMAIN scopes : holders(k, x)' = holders(j, x)
      BY <1>3, <3>1, <3>2, CreateHolders
    <3> QED BY <2>2, <3>3 DEF Inv, HasInnermost
  <2>3. scopes' # << >>
    BY <2>1 DEF Inv
  <2> QED BY <2>1, <2>2, <2>3 DEF Inv, HasInnermost
<1>4. CASE release_stack_frame
  <2>1. CASE ~ (Len(scopes) > 1)
    BY <1>4, <2>1 DEF release_stack_frame, Inv, HasInnermost, holders
  <2>2. CASE Len(scopes) > 1
    <3>1. /\ scopes' \in Seq(Table)
          /\ Len(scopes') = Len(scopes) - 1
          /\ \A k \in DOMAIN scopes', x \in Name : holders(k, x)' = holders(k, x)
      BY <1>4, <2>2, ReleaseHolders
    <3>2. scopes' # << >> /\ DOMAIN scopes' \subseteq DOMAIN scopes
      BY <2>2, <3>1 DEF Inv
    <3> QED BY <3>1, <3>2 DEF Inv, HasInnermost
  <2> QED BY <2>1, <2>2
<1>5. CASE UNCHANGED scopes
  BY <1>5 DEF Inv, HasInnermost, holders
<1> QED BY <1>1, <1>2, <1>3, <1>4, <1>5 DEF Next

\* The chain is never empty and holds only tables, and a name held anywhere
\* along it has an innermost holder: the walk of SymbolTable::lookup ends.
THEOREM Invariance == Spec => []Inv
<1>1. Init => Inv
  BY InitInv
<1>2. Inv /\ [Next]_scopes => Inv'
  BY StepInv
<1> QED BY <1>1, <1>2, PTL DEF Spec

\* Type correctness of the chain.
THEOREM TypeCorrect == Spec => []TypeOK
<1>1. Inv => TypeOK
  BY DEF Inv, TypeOK, Table
<1> QED BY <1>1, Invariance, PTL

-------------------------------------------------------------------------------
(* The refinement. *)

LEMMA AnswersShape ==
  ASSUME Inv
  PROVE  /\ answers \in Seq(Table)
         /\ held \in Seq(SUBSET Name)
         /\ Len(answers) = Len(scopes)
         /\ Len(held) = Len(scopes)
         /\ Len(scopes) \in Nat \ {0}
<1>1. Len(scopes) \in Nat \ {0} /\ DOMAIN scopes = 1 .. Len(scopes)
  BY DEF Inv
<1>2. ASSUME NEW k \in DOMAIN scopes, NEW x \in Name
      PROVE  lookup_from(k, x) \in Decl \cup {NoEntry}
  <2>1. CASE holders(k, x) = {}
    BY <2>1 DEF lookup_from
  <2>2. CASE holders(k, x) # {}
    <3>1. Max(holders(k, x)) \in 1 .. k
      BY <2>2, LookupFromLast
    <3>2. Max(holders(k, x)) \in DOMAIN scopes
      BY <1>1, <3>1
    <3> QED BY <2>2, <3>2 DEF lookup_from, Inv, Table
  <2> QED BY <2>1, <2>2
<1>3. answers \in Seq(Table) /\ Len(answers) = Len(scopes)
  BY <1>1, <1>2 DEF answers, Table
<1>4. held \in Seq(SUBSET Name) /\ Len(held) = Len(scopes)
  BY <1>1 DEF held
<1> QED BY <1>1, <1>3, <1>4

\* A lookup from a table depends only on what the tables up to it hold.
LEMMA LookupFrame ==
  ASSUME Inv, NEW k \in DOMAIN scopes, NEW x \in Name, NEW l,
         holders(l, x)' = holders(k, x),
         \A i \in 1 .. k : scopes'[i][x] = scopes[i][x]
  PROVE  lookup_from(l, x)' = lookup_from(k, x)
<1>1. CASE holders(k, x) = {}
  BY <1>1 DEF lookup_from
<1>2. CASE holders(k, x) # {}
  <2>1. Max(holders(k, x)) \in 1 .. k
    BY <1>2, LookupFromLast
  <2>2. Max(holders(l, x)') = Max(holders(k, x))
    OBVIOUS
  <2> QED BY <1>2, <2>1, <2>2 DEF lookup_from
<1> QED BY <1>1, <1>2

LEMMA ResetRefines ==
  ASSUME Inv, reset
  PROVE  Environment!Restart
<1>1. scopes' = << EmptyTable >>
  BY DEF reset
<1>2. \A x \in Name : holders(1, x)' = {} /\ lookup_from(1, x)' = NoEntry
  BY <1>1 DEF holders, lookup_from, EmptyTable
<1>3. answers' = << [x \in Name |-> NoEntry] >>
  BY <1>1, <1>2 DEF answers
<1>4. held' = << {} >>
  BY <1>1 DEF held, EmptyTable
<1> QED BY <1>3, <1>4 DEF Environment!Restart

LEMMA CreateRefines ==
  ASSUME Inv, create_stack_frame
  PROVE  Environment!Open
<1>1. PICK L : L = Len(scopes)
  OBVIOUS
<1>2. L \in Nat \ {0} /\ DOMAIN scopes = 1 .. L /\ L \in DOMAIN scopes
  BY <1>1 DEF Inv
<1>3. /\ scopes' \in Seq(Table)
      /\ Len(scopes') = L + 1
      /\ DOMAIN scopes' = 1 .. L + 1
      /\ \A k \in 1 .. L : scopes'[k] = scopes[k]
      /\ scopes'[L + 1] = EmptyTable
  BY <1>1, <1>2, CreateHolders
<1>4. \A k \in 1 .. L, x \in Name : lookup_from(k, x)' = lookup_from(k, x)
  BY <1>1, <1>2, <1>3, CreateHolders, LookupFrame
<1>5. \A x \in Name : lookup_from(L + 1, x)' = lookup_from(L, x)
  BY <1>1, <1>2, <1>3, CreateHolders, LookupFrame
<1>6. answers' = Append(answers, answers[Len(answers)])
  <2>1. answers' = [k \in 1 .. L + 1 |-> [x \in Name |-> lookup_from(k, x)']]
    BY <1>3 DEF answers
  <2>2. answers = [k \in 1 .. L |-> [x \in Name |-> lookup_from(k, x)]]
    BY <1>2 DEF answers
  <2>3. Len(answers) = L /\ answers \in Seq(Table)
    BY <1>1, AnswersShape
  <2> QED BY <1>2, <1>4, <1>5, <2>1, <2>2, <2>3
<1>7. held' = Append(held, {})
  <2>1. \A x \in Name : EmptyTable[x] = NoEntry
    BY DEF EmptyTable
  <2>2. Len(held) = L /\ held \in Seq(SUBSET Name)
    BY <1>1, AnswersShape
  <2> QED BY <1>2, <1>3, <2>1, <2>2 DEF held
<1> QED BY <1>6, <1>7 DEF Environment!Open

LEMMA ReleaseRefines ==
  ASSUME Inv, release_stack_frame
  PROVE  Environment!Close \/ UNCHANGED << answers, held >>
<1>1. CASE ~ (Len(scopes) > 1)
  <2>1. scopes' = scopes
    BY <1>1 DEF release_stack_frame
  <2> QED BY <2>1 DEF answers, held, lookup_from, holders
<1>2. CASE Len(scopes) > 1
  <2>1. PICK L : L = Len(scopes)
    OBVIOUS
  <2>2. L \in Nat /\ L > 1 /\ DOMAIN scopes = 1 .. L
    BY <1>2, <2>1 DEF Inv
  <2>3. /\ scopes' \in Seq(Table)
        /\ Len(scopes') = L - 1
        /\ DOMAIN scopes' = 1 .. L - 1
        /\ \A k \in 1 .. L - 1 : scopes'[k] = scopes[k]
        /\ \A k \in 1 .. L - 1, x \in Name : holders(k, x)' = holders(k, x)
    <3>1. /\ scopes' \in Seq(Table)
          /\ Len(scopes') = L - 1
          /\ \A k \in DOMAIN scopes' : scopes'[k] = scopes[k]
          /\ \A k \in DOMAIN scopes', x \in Name : holders(k, x)' = holders(k, x)
      BY <1>2, <2>1, ReleaseHolders
    <3>2. DOMAIN scopes' = 1 .. L - 1
      BY <2>2, <3>1
    <3> QED BY <3>1, <3>2
  <2>4. \A k \in 1 .. L - 1, x \in Name : lookup_from(k, x)' = lookup_from(k, x)
    BY <2>2, <2>3, LookupFrame
  <2>5. Len(answers) = L /\ answers \in Seq(Table)
    BY <2>1, AnswersShape
  <2>6. Len(held) = L /\ held \in Seq(SUBSET Name)
    BY <2>1, AnswersShape
  <2>7. answers' = SubSeq(answers, 1, L - 1)
    <3>1. answers' = [k \in 1 .. L - 1 |-> [x \in Name |-> lookup_from(k, x)']]
      BY <2>3 DEF answers
    <3>2. answers = [k \in 1 .. L |-> [x \in Name |-> lookup_from(k, x)]]
      BY <2>2 DEF answers
    <3> QED BY <2>2, <2>4, <2>5, <3>1, <3>2
  <2>8. held' = SubSeq(held, 1, L - 1)
    BY <2>2, <2>3, <2>6 DEF held
  <2> QED BY <2>2, <2>5, <2>7, <2>8 DEF Environment!Close
<1> QED BY <1>1, <1>2

LEMMA InsertRefines ==
  ASSUME Inv, NEW n \in Name, NEW d \in Decl, insert(n, d)
  PROVE  Environment!Declare(n, d) \/ UNCHANGED << answers, held >>
<1>1. CASE ~ is_new(n)
  <2>1. scopes' = scopes
    BY <1>1 DEF insert
  <2> QED BY <2>1 DEF answers, held, lookup_from, holders
<1>2. CASE is_new(n)
  <2>1. PICK L : L = Len(scopes)
    OBVIOUS
  <2>2. L \in Nat \ {0} /\ DOMAIN scopes = 1 .. L /\ L \in DOMAIN scopes
    BY <2>1 DEF Inv
  <2>3. /\ scopes' \in Seq(Table)
        /\ DOMAIN scopes' = 1 .. L
        /\ scopes'[L][n] = d
        /\ \A k \in 1 .. L, x \in Name :
              (k # L \/ x # n) => /\ scopes'[k][x] = scopes[k][x]
                                 /\ holders(k, x)' = holders(k, x)
        /\ holders(L, n)' = holders(L, n) \cup {L}
    BY <1>2, <2>1, <2>2, InsertHolders
  <2>4. d # NoEntry
    BY NoEntryIsNoDecl
  <2>5. \A k \in 1 .. L, x \in Name :
          (k # L \/ x # n) => lookup_from(k, x)' = lookup_from(k, x)
    <3> SUFFICES ASSUME NEW k \in 1 .. L, NEW x \in Name, k # L \/ x # n
                 PROVE  lookup_from(k, x)' = lookup_from(k, x)
      OBVIOUS
    <3>1. \A i \in 1 .. k : scopes'[i][x] = scopes[i][x]
      BY <2>2, <2>3
    <3> QED BY <2>2, <2>3, <3>1, LookupFrame
  <2>6. lookup_from(L, n)' = d
    <3>1. holders(L, n) \subseteq 1 .. L
      BY DEF holders
    <3>2. Max(holders(L, n)') = L
      BY <2>2, <2>3, <3>1, MaxIsLast
    <3> QED BY <2>3, <3>2 DEF lookup_from
  <2>7. Len(answers) = L /\ answers \in Seq(Table) /\ L \in DOMAIN answers
    BY <2>1, <2>2, AnswersShape
  <2>8. Len(held) = L /\ held \in Seq(SUBSET Name)
    BY <2>1, AnswersShape
  <2>9. answers' = [answers EXCEPT ![L][n] = d]
    <3>1. answers' = [k \in 1 .. L |-> [x \in Name |-> lookup_from(k, x)']]
      BY <2>3 DEF answers
    <3>2. answers = [k \in 1 .. L |-> [x \in Name |-> lookup_from(k, x)]]
      BY <2>2 DEF answers
    <3> QED BY <2>2, <2>5, <2>6, <3>1, <3>2
  <2>10. held' = [held EXCEPT ![L] = @ \cup {n}]
    <3>1. held' = [k \in 1 .. L |-> {x \in Name : scopes'[k][x] # NoEntry}]
      BY <2>3 DEF held
    <3>2. held = [k \in 1 .. L |-> {x \in Name : scopes[k][x] # NoEntry}]
      BY <2>2 DEF held
    <3>3. \A k \in 1 .. L : k # L => held'[k] = held[k]
      BY <2>2, <2>3, <3>1, <3>2
    <3>4. held'[L] = held[L] \cup {n}
      <4>1. \A x \in Name : x # n => scopes'[L][x] = scopes[L][x]
        BY <2>2, <2>3
      <4> QED BY <2>2, <2>3, <2>4, <3>1, <3>2, <4>1
    <3> QED BY <2>2, <3>1, <3>2, <3>3, <3>4
  <2>11. n \notin held[L]
    BY <1>2, <2>1, <2>2 DEF held, is_new
  <2> QED BY <2>7, <2>9, <2>10, <2>11 DEF Environment!Declare
<1> QED BY <1>1, <1>2

\* The chain of tables implements the lexical environment: first binding in a
\* scope wins, inner scopes hide outer ones, and releasing a scope restores
\* what every name meant when it was created.
THEOREM Refinement == Spec => ImplementsEnvironment
<1>1. Init => Environment!Init
  <2> SUFFICES ASSUME Init PROVE Environment!Init
    OBVIOUS
  <2>1. scopes = << EmptyTable >>
    BY DEF Init
  <2>2. \A x \in Name : holders(1, x) = {} /\ lookup_from(1, x) = NoEntry
    BY <2>1 DEF holders, lookup_from, EmptyTable
  <2>3. answers = << [x \in Name |-> NoEntry] >> /\ held = << {} >>
    BY <2>1, <2>2 DEF answers, held, EmptyTable
  <2> QED BY <2>3 DEF Environment!Init
<1>2. Inv /\ [Next]_scopes => [Environment!Next]_<< answers, held >>
  <2> SUFFICES ASSUME Inv, [Next]_scopes
               PROVE  Environment!Next \/ UNCHANGED << answers, held >>
    OBVIOUS
  <2>1. CASE reset
    BY <2>1, ResetRefines DEF Environment!Next
  <2>2. CASE \E n \in Name, d \in Decl : insert(n, d)
    BY <2>2, InsertRefines DEF Environment!Next
  <2>3. CASE create_stack_frame
    BY <2>3, CreateRefines DEF Environment!Next
  <2>4. CASE release_stack_frame
    BY <2>4, ReleaseRefines DEF Environment!Next
  <2>5. CASE UNCHANGED scopes
    BY <2>5 DEF answers, held, lookup_from, holders
  <2> QED BY <2>1, <2>2, <2>3, <2>4, <2>5 DEF Next
<1> QED
  BY <1>1, <1>2, Invariance, PTL DEF Spec, ImplementsEnvironment, Environment!Spec, Environment!vars
===============================================================================
