----------------------------- MODULE ResolutionProofs -----------------------------
(***************************************************************************)
(* What a validation concludes is what the static rules say.  For any      *)
(* programs, names and number of validations, the table that answers a     *)
(* lookup answers with the declaration StaticSemantics resolves it to, and *)
(* in a tree that was let through every use was looked up and every        *)
(* declaration is the first of its name in its scope.  From these follows  *)
(* what a name means among the storage and the functions of such a tree,   *)
(* which is all the code generator goes by; that a fresh validation throws *)
(* exactly for the trees that break a rule; that later ones keep the       *)
(* families of the types; and that literals get the types of the variables *)
(* they are assigned to.                                                   *)
(***************************************************************************)
EXTENDS ValidatorProofs, ValidatorProperties

Uses == {"VariableLookup", "VariableAssignment", "FunctionCall"}

\* A use that was looked up was found to mean the declaration in force.
FoundInv ==
    \A n \in DOMAIN ast.nodes : at(n).kind \in Uses => resolved[n] \in {NoNode, Resolve(ast, n)}

-------------------------------------------------------------------------------
(***************************************************************************)
(* From the frames to the scopes.  The spot of a frame is the node of its  *)
(* list that the validator is inside of; the spots of all the frames are   *)
(* the spine above the node that is visited.                               *)
(***************************************************************************)
\* The table of the k-th frame is what is declared where m stands in the list.
Located(k, list, m) ==
    /\ Scattered(list) /\ ListAt(k, list) /\ m \in Range(list)
    /\ \A x \in Name :
         scopes[k][x] = IF \E d \in Declarations(ast, list, x) : Known(ast, d, m)
                        THEN FirstDeclared(ast, list, x) ELSE NoNode

\* What the validator has entered on its way to a node of the list is what the
\* rules call known there.
LEMMA EnteredIsKnown ==
  ASSUME IInv, NEW table, NEW list, Scattered(list), NEW q \in DOMAIN list, NEW p \in Nat,
         Holds(table, list, Len(list), p),
         p + 1 = q \/ (p = q /\ (at(list[q]).kind \notin Declaration \/ is_function(at(list[q]))))
  PROVE  \A x \in Name :
           table[x] = IF \E d \in Declarations(ast, list, x) : Known(ast, d, list[q])
                      THEN FirstDeclared(ast, list, x) ELSE NoNode
<1> SUFFICES ASSUME NEW x \in Name
             PROVE  (\E d \in Declarations(ast, list, x) : Known(ast, d, list[q]))
                      <=> (\E j \in DOMAIN list : Declares(list, x, j) /\ Entered(list, Len(list), p, j))
  BY DEF Holds
<1>1. /\ Len(list) \in Nat /\ DOMAIN list = 1 .. Len(list)
      /\ \A i, j \in DOMAIN list : i < j => list[i] < list[j]
      /\ \A j \in DOMAIN list : j \in Nat /\ j <= Len(list)
  BY DEF Scattered
<1>2. ASSUME NEW j \in DOMAIN list
      PROVE  list[j] < list[q] <=> j < q
  <2>1. j < q => list[j] < list[q]
    BY <1>1
  <2>2. q < j => list[q] < list[j]
    BY <1>1
  <2>3. list[j] \in Nat /\ list[q] \in Nat /\ j \in Nat /\ q \in Nat
    BY <1>1, AstFacts DEF Scattered, IInv
  <2> QED BY <2>1, <2>2, <2>3
<1>3. ASSUME NEW j \in DOMAIN list, Declares(list, x, j)
      PROVE  Known(ast, list[j], list[q]) <=> Entered(list, Len(list), p, j)
  <2>1. CASE is_function(at(list[j]))
    BY <1>1, <2>1 DEF Known, Entered, at
  <2>2. CASE ~ is_function(at(list[j]))
    <3>1. j < q <=> j <= p
      <4>1. j \in Nat /\ q \in Nat /\ (j = q => at(list[q]).kind \in Declaration /\ ~ is_function(at(list[q])))
        BY <1>1, <1>3, <2>2 DEF Declares
      <4>2. p + 1 = q \/ (p = q /\ j # q)
        BY <4>1
      <4> QED BY <4>1, <4>2
    <3> QED BY <1>2, <2>2, <3>1 DEF Known, Entered, at
  <2> QED BY <2>1, <2>2
<1>4. \A d : d \in Declarations(ast, list, x) <=> \E j \in DOMAIN list : list[j] = d /\ Declares(list, x, j)
  BY DEF Declarations, Declares, Range, at
<1> QED BY <1>3, <1>4

\* The instruction or statement of its list a frame is at, with n the use
\* that is visited.
Spot(k, n, list, m) ==
    /\ Located(k, list, m)
    /\ k + 1 \in DOMAIN frames => m = frames[k + 1].owner
    /\ k = Len(frames) => n = m \/ \E o \in Range(at(m).operands) : Under(ast, n, o)

\* The last frame has the node visited at its spot, or below an operand of it.
LEMMA InnerSpot ==
  ASSUME IInv, PlacedInv, Now("visit"), NEW k \in DOMAIN frames, k = Len(frames)
  PROVE  \E list, m : Spot(k, this, list, m)
<1>1. PICK list, i, r, inner : Placed(k, list, i, r, inner)
  BY DEF PlacedInv
<1>2. Scattered(list) /\ ListAt(k, list) /\ Shape(k, list, i, r, inner, frames[k].todo)
      /\ Holds(scopes[k], list, r, Behind(list, i, inner))
  BY <1>1, FrameList DEF Placed
<1>3. Running /\ Current.todo # << >> /\ Head(Current.todo).do = "visit"
  BY DEF Now
<1>4. Len(list) \in Nat /\ DOMAIN list = 1 .. Len(list) /\ \A j \in DOMAIN list : list[j] \in Range(list)
  BY <1>2 DEF Scattered, Range
<1>5. k + 1 \notin DOMAIN frames
  BY DEF IInv, FramesInv
<1>6. i \in Nat /\ Behind(list, i, inner) \in Nat
  BY <1>2, <1>4, BehindNat
<1>7. ASSUME inner = << >>, r = Len(list), i + 1 \in DOMAIN list, this = list[i + 1]
      PROVE  Spot(k, this, list, list[i + 1])
  <2>1. Behind(list, i, inner) = i
    BY <1>7 DEF Behind
  <2>2. \A x \in Name :
           scopes[k][x] = IF \E d \in Declarations(ast, list, x) : Known(ast, d, list[i + 1])
                          THEN FirstDeclared(ast, list, x) ELSE NoNode
    BY <1>2, <1>6, <1>7, <2>1, EnteredIsKnown
  <2> QED BY <1>2, <1>4, <1>5, <1>7, <2>2 DEF Spot, Located
<1>8. ASSUME i # 0, i \in DOMAIN list, inner # << >>, r = Len(list), Inside(list[i], Head(Current.todo))
      PROVE  Spot(k, this, list, list[i])
  <2>1. \E o \in Range(at(list[i]).operands) : Under(ast, this, o)
    BY <1>3, <1>8 DEF Inside, this
  <2>2. Behind(list, i, inner) + 1 = i \/ (Behind(list, i, inner) = i /\ at(list[i]).kind \notin Declaration)
    BY <1>6, <1>8 DEF Behind
  <2>3. \A x \in Name :
           scopes[k][x] = IF \E d \in Declarations(ast, list, x) : Known(ast, d, list[i])
                          THEN FirstDeclared(ast, list, x) ELSE NoNode
    BY <1>2, <1>6, <1>8, <2>2, EnteredIsKnown
  <2> QED BY <1>2, <1>4, <1>5, <1>8, <2>1, <2>3 DEF Spot, Located
<1>9. LET h == Head(Current.todo)
             rest == Tail(frames[Len(frames)].todo)
         IN \/ /\ inner = << >> /\ r = Len(list) /\ i + 1 \in DOMAIN list /\ i \in Nat
               /\ h.do = "visit" /\ h.node = list[i + 1]
               /\ rest = From("visit", list, i + 1)
            \/ /\ i # 0 /\ i \in DOMAIN list /\ inner # << >> /\ r = Len(list)
               /\ h = inner[1] /\ Inside(list[i], h) /\ h.do # "register"
               /\ rest = Tail(inner) \o From("visit", list, i)
            \/ /\ i = 0 /\ r \in Nat /\ r + 1 \in DOMAIN list
               /\ h.do = "register" /\ h.node = list[r + 1]
               /\ rest = From("register", list, r + 1) \o From("visit", list, 0)
  BY <1>2, <1>3, Heads
<1> QED BY <1>3, <1>7, <1>8, <1>9 DEF this

\* A frame below another has the node that opened that one at its spot.
LEMMA OuterSpot ==
  ASSUME IInv, PlacedInv, NEW n, NEW k \in DOMAIN frames, k + 1 \in DOMAIN frames
  PROVE  \E list, m : Spot(k, n, list, m)
<1>1. PICK list, i, r, inner : Placed(k, list, i, r, inner)
  BY DEF PlacedInv
<1>2. Scattered(list) /\ ListAt(k, list) /\ Shape(k, list, i, r, inner, frames[k].todo)
      /\ Holds(scopes[k], list, r, Behind(list, i, inner))
      /\ i # 0 /\ list[i] = frames[k + 1].owner
  BY <1>1, FrameList DEF Placed
<1>3. Len(list) \in Nat /\ DOMAIN list = 1 .. Len(list) /\ \A j \in DOMAIN list : list[j] \in Range(list)
  BY <1>2 DEF Scattered, Range
<1>4. i \in DOMAIN list /\ r = Len(list)
  BY <1>2, <1>3 DEF Shape
<1>5. Behind(list, i, inner) \in Nat /\ i \in Nat
  BY <1>2, <1>3, BehindNat
<1>6. Behind(list, i, inner) + 1 = i \/ (Behind(list, i, inner) = i /\ at(list[i]).kind \notin Declaration)
         \/ (Behind(list, i, inner) = i /\ is_function(at(list[i])))
  <2>1. at(list[i]).kind \in {"FunctionDeclaration", "If"}
    <3>1. PICK k2 : k2 = k + 1 /\ k2 \in DOMAIN frames /\ k2 # 1
      BY DEF IInv, FramesInv
    <3>2. frames[k2].owner \in OwnerAt(ast, k2)
      BY <3>1 DEF IInv, FramesInv
    <3> QED BY <1>2, <3>1, <3>2 DEF OwnerAt, at
  <2>2. at(list[i]).kind = "If" => at(list[i]).kind \notin Declaration
    BY DEF Declaration
  <2> QED BY <1>5, <2>1, <2>2 DEF Behind, is_function
<1>7. \A x \in Name :
         scopes[k][x] = IF \E d \in Declarations(ast, list, x) : Known(ast, d, list[i])
                        THEN FirstDeclared(ast, list, x) ELSE NoNode
  BY <1>2, <1>4, <1>5, <1>6, EnteredIsKnown
<1>8. k # Len(frames)
  BY DEF IInv, FramesInv
<1> QED BY <1>2, <1>3, <1>4, <1>7, <1>8 DEF Spot, Located

\* The spots of all frames, from the instruction the use is in down to the
\* statement.
Spine(n, spot, lists) ==
    \A k \in DOMAIN frames : Spot(k, n, lists[k], spot[k]) /\ Under(ast, n, spot[k])

\* There is a spine above every node that is visited.
LEMMA SpineExists ==
  ASSUME IInv, PlacedInv, Now("visit")
  PROVE  \E spot, lists : Spine(this, spot, lists)
<1> DEFINE spot == [k \in DOMAIN frames |-> CHOOSE m : \E list : Spot(k, this, list, m)]
           lists == [k \in DOMAIN frames |-> CHOOSE list : Spot(k, this, list, spot[k])]
           L == Len(frames)
<1>1. L \in Nat \ {0} /\ DOMAIN frames = 1 .. L /\ this \in DOMAIN ast.nodes
  BY HeadFacts DEF Now, IInv, FramesInv
<1>2. ASSUME NEW k \in DOMAIN frames
      PROVE  Spot(k, this, lists[k], spot[k])
  <2>1. \E list, m : Spot(k, this, list, m)
    <3>1. k = L \/ k + 1 \in DOMAIN frames
      BY <1>1
    <3> QED BY <3>1, InnerSpot, OuterSpot
  <2>2. \E list : Spot(k, this, list, spot[k])
    BY <2>1
  <2> QED BY <2>2
<1> HIDE DEF spot, lists
<1>3. ASSUME NEW k \in DOMAIN frames, k # 1
      PROVE  \A m : Under(ast, m, spot[k]) => Under(ast, m, frames[k].owner)
  <2>1. ListAt(k, lists[k]) /\ spot[k] \in Range(lists[k])
    BY <1>2 DEF Spot, Located
  <2>2. frames[k].owner \in DOMAIN ast.nodes /\ Child(ast, spot[k], frames[k].owner)
    BY <1>3, <2>1, FrameList DEF Range
  <2> QED BY <2>2, ChildUnder DEF IInv
<1>4. Under(ast, this, spot[L])
  <2>1. spot[L] \in DOMAIN ast.nodes
    BY <1>1, <1>2 DEF Spot, Located, Scattered, Range
  <2>2. this = spot[L] \/ \E o \in Range(at(spot[L]).operands) : Under(ast, this, o)
    BY <1>1, <1>2 DEF Spot
  <2>3. CASE this = spot[L]
    BY <1>1, <2>3, UnderFacts DEF IInv
  <2>4. CASE \E o \in Range(at(spot[L]).operands) : Under(ast, this, o)
    <3>1. PICK o \in Range(at(spot[L]).operands) : Under(ast, this, o)
      BY <2>4
    <3>2. Under(ast, o, spot[L])
      BY <2>1, OperandUnder DEF IInv
    <3> QED BY <2>1, <3>1, <3>2, Transitive DEF IInv
  <2> QED BY <2>2, <2>3, <2>4
<1>5. \A k \in DOMAIN frames : Under(ast, this, spot[k])
  <2> DEFINE T == {j \in Nat : L - j \in DOMAIN frames /\ ~ Under(ast, this, spot[L - j])}
  <2>1. SUFFICES ASSUME T # {}
                 PROVE  FALSE
    <3>1. ASSUME NEW k \in DOMAIN frames, ~ Under(ast, this, spot[k])
          PROVE  FALSE
      <4>1. L - k \in Nat /\ L - (L - k) = k
        BY <1>1
      <4> QED BY <2>1, <3>1, <4>1
    <3> QED BY <3>1
  <2>2. PICK j \in T : \A y \in T : j <= y
    <3>1. T \subseteq Nat
      OBVIOUS
    <3> HIDE DEF T
    <3> QED BY <2>1, <3>1, Least
  <2>3. j # 0
    BY <1>1, <1>4, <2>2
  <2>4. PICK k : k = L - j
    OBVIOUS
  <2>5. k \in DOMAIN frames /\ j \in Nat
    BY <2>4
  <2>6. k + 1 \in DOMAIN frames /\ k + 1 = L - (j - 1) /\ j - 1 \in Nat /\ ~ (j <= j - 1) /\ k + 1 # 1 /\ k \in Nat
    BY <1>1, <2>3, <2>4, <2>5
  <2>7. j - 1 \notin T
    BY <2>2, <2>6
  <2>8. Under(ast, this, spot[k + 1])
    BY <2>6, <2>7
  <2>9. spot[k] = frames[k + 1].owner
    BY <1>2, <2>5, <2>6 DEF Spot
  <2>10. Under(ast, this, spot[k])
    BY <1>3, <2>6, <2>8, <2>9
  <2> QED BY <2>4, <2>10
<1> QED BY <1>2, <1>5 DEF Spine

\* The nodes of a spine.
LEMMA SpineFacts ==
  ASSUME IInv, Running, NEW n, NEW spot, NEW lists, Spine(n, spot, lists)
  PROVE  /\ Len(frames) \in Nat \ {0} /\ DOMAIN frames = 1 .. Len(frames)
         /\ lists[1] = ast.top
         /\ \A k \in DOMAIN frames : /\ spot[k] \in DOMAIN ast.nodes /\ spot[k] \in Nat
                                     /\ Under(ast, n, spot[k])
                                     /\ Scattered(lists[k]) /\ spot[k] \in Range(lists[k])
                                     /\ lists[k] \in ScopeLists(ast)
         /\ \A k \in DOMAIN frames :
              k + 1 \in DOMAIN frames =>
                /\ Opens(spot[k], lists[k + 1]) /\ Child(ast, spot[k + 1], spot[k])
                /\ spot[k + 1] < spot[k]
<1>1. Len(frames) \in Nat \ {0} /\ DOMAIN frames = 1 .. Len(frames) /\ IsAst(ast)
  BY DEF IInv, FramesInv, Running
<1>2. \A k \in DOMAIN frames : Spot(k, n, lists[k], spot[k]) /\ Under(ast, n, spot[k])
  BY DEF Spine
<1>3. \A k \in DOMAIN frames : Scattered(lists[k]) /\ ListAt(k, lists[k]) /\ spot[k] \in Range(lists[k])
  BY <1>2 DEF Spot, Located
<1>4. 1 \in DOMAIN frames
  BY <1>1
<1>5. lists[1] = ast.top
  BY <1>3, <1>4 DEF ListAt
<1>6. ASSUME NEW k \in DOMAIN frames
      PROVE  spot[k] \in DOMAIN ast.nodes /\ spot[k] \in Nat /\ lists[k] \in ScopeLists(ast)
  <2>1. spot[k] \in DOMAIN ast.nodes
    BY <1>3 DEF Scattered, Range
  <2>2. lists[k] \in ScopeLists(ast)
    BY <1>3, FrameList
  <2> QED BY <1>1, <2>1, <2>2, UnderFacts
<1>7. ASSUME NEW k \in DOMAIN frames, k + 1 \in DOMAIN frames
      PROVE  Opens(spot[k], lists[k + 1]) /\ Child(ast, spot[k + 1], spot[k]) /\ spot[k + 1] < spot[k]
  <2>1. PICK k2 : k2 = k + 1 /\ k2 \in DOMAIN frames /\ k2 # 1
    BY <1>1, <1>7
  <2>2. frames[k2].owner = spot[k]
    BY <1>2, <2>1 DEF Spot
  <2>3. Opens(spot[k], lists[k2])
    BY <1>3, <2>1, <2>2 DEF ListAt
  <2>4. \A j \in DOMAIN lists[k2] : Child(ast, lists[k2][j], spot[k])
    BY <1>3, <2>1, <2>2, FrameList
  <2>5. Child(ast, spot[k2], spot[k])
    BY <1>3, <2>1, <2>4 DEF Range
  <2>6. spot[k2] < spot[k]
    BY <1>1, <1>6, <2>5, ChildUnder
  <2> QED BY <2>1, <2>3, <2>5, <2>6
<1> QED BY <1>1, <1>2, <1>3, <1>5, <1>6, <1>7

\* They go down the tree.
LEMMA SpineFalls ==
  ASSUME IInv, Running, NEW n, NEW spot, NEW lists, Spine(n, spot, lists)
  PROVE  \A j, k \in DOMAIN frames : j < k => spot[k] < spot[j]
<1> DEFINE T == {k \in DOMAIN frames : \E j \in DOMAIN frames : j < k /\ ~ (spot[k] < spot[j])}
<1>1. SUFFICES ASSUME T # {}
               PROVE  FALSE
  OBVIOUS
<1>2. /\ Len(frames) \in Nat \ {0} /\ DOMAIN frames = 1 .. Len(frames)
      /\ \A k \in DOMAIN frames : spot[k] \in Nat
      /\ \A k \in DOMAIN frames : k + 1 \in DOMAIN frames => spot[k + 1] < spot[k]
  BY SpineFacts
<1>3. PICK k \in T : \A y \in T : k <= y
  <2>1. T \subseteq Nat
    BY <1>2
  <2> HIDE DEF T
  <2> QED BY <1>1, <2>1, Least
<1>4. PICK j \in DOMAIN frames : j < k /\ ~ (spot[k] < spot[j])
  OBVIOUS
<1>5. PICK i : i = k - 1 /\ i \in DOMAIN frames /\ i + 1 = k
  BY <1>2, <1>3, <1>4
<1>6. spot[k] < spot[i] /\ k \in DOMAIN frames
  BY <1>2, <1>3, <1>5
<1>7. i \notin T
  BY <1>2, <1>3, <1>5
<1>8. j = i \/ spot[i] < spot[j]
  BY <1>2, <1>4, <1>5, <1>7
<1> QED BY <1>2, <1>4, <1>5, <1>6, <1>8

\* Two lists that the same node opens and that have a node in common are the
\* same, and no operand is in either.
LEMMA OneList ==
  ASSUME IsAst(ast), NEW o \in DOMAIN ast.nodes, NEW one, NEW two, Opens(o, one), Opens(o, two),
         NEW m, m \in Range(one), m \in Range(two)
  PROVE  one = two
<1>1. CASE is_function(at(o))
  BY <1>1 DEF Opens
<1>2. ASSUME ~ is_function(at(o)), NEW c, c \in Range(at(o).body), c \in Range(at(o).orelse)
      PROVE  FALSE
  <2> DEFINE children == Children(at(o))
             body == Len(at(o).body)
  <2>0. /\ At(at(o).body, Len(at(o).operands) + Len(at(o).params), children)
        /\ At(at(o).orelse, Len(at(o).operands) + Len(at(o).params) + body, children)
        /\ Len(at(o).operands) \in Nat /\ Len(at(o).params) \in Nat /\ body \in Nat
    BY Sections DEF at
  <2>1. PICK heads \in Nat : At(at(o).body, heads, children) /\ At(at(o).orelse, heads + body, children) /\ body \in Nat
    <3>1. PICK a, b : a = Len(at(o).operands) /\ b = Len(at(o).params)
      OBVIOUS
    <3>2. a + b \in Nat
      <4>1. a \in Nat /\ b \in Nat
        BY <2>0, <3>1
      <4> QED BY <4>1
    <3> QED BY <2>0, <3>1, <3>2
  <2>2. PICK i \in DOMAIN at(o).body : at(o).body[i] = c
    BY <1>2 DEF Range
  <2>3. PICK j \in DOMAIN at(o).orelse : at(o).orelse[j] = c
    BY <1>2 DEF Range
  <2>4. heads + i \in DOMAIN children /\ children[heads + i] = c /\ i \in 1 .. Len(at(o).body)
    BY <2>1, <2>2 DEF At
  <2>5. PICK k : k = heads + body + j /\ k \in DOMAIN children /\ children[k] = c
    BY <2>1, <2>3 DEF At
  <2>6. Under(ast, c, c)
    <3>1. Child(ast, c, o)
      BY <2>5 DEF Child, at
    <3> QED BY <3>1, ChildUnder, UnderFacts
  <2>7. heads + i = k
    BY <2>4, <2>5, <2>6, ChildrenApart DEF at
  <2>8. j \in Nat \ {0} /\ heads \in Nat /\ body \in Nat
    BY <2>1, <2>3 DEF At
  <2>9. i \in 1 .. body
    BY <2>4
  <2>10. heads + i = heads + body + j
    BY <2>5, <2>7
  <2> HIDE DEF body
  <2> QED BY <2>8, <2>9, <2>10
<1> QED BY <1>1, <1>2 DEF Opens

\* No node is below an operand and below the body of one node.
LEMMA NotUnderBoth ==
  ASSUME IsAst(ast), NEW o \in DOMAIN ast.nodes, NEW list, Opens(o, list),
         NEW m \in Range(list), NEW e \in Range(at(o).operands), NEW n, Under(ast, n, m), Under(ast, n, e)
  PROVE  FALSE
<1> DEFINE ops == Len(at(o).operands)
           children == Children(at(o))
<1>1. /\ At(at(o).operands, 0, children)
      /\ At(at(o).params \o at(o).body, ops, children)
      /\ At(at(o).body, ops + Len(at(o).params), children)
      /\ At(at(o).orelse, ops + Len(at(o).params) + Len(at(o).body), children)
      /\ ops \in Nat /\ Len(at(o).params) \in Nat /\ Len(at(o).body) \in Nat
  BY Sections DEF at
<1>2. PICK i \in DOMAIN at(o).operands : at(o).operands[i] = e
  BY DEF Range
<1>3. i \in 1 .. ops /\ i \in DOMAIN children /\ children[i] = e
  <2>1. i \in 1 .. ops /\ 0 + i \in DOMAIN children /\ children[0 + i] = e
    BY <1>1, <1>2 DEF At
  <2>2. 0 + i = i
    BY <2>1
  <2> QED BY <2>1, <2>2
<1>4. PICK j \in DOMAIN list : list[j] = m
  BY DEF Range
<1>5. \E shift \in Nat : ops <= shift /\ At(list, shift, children)
  <2>0. ops \in Nat /\ ops <= ops
    <3> HIDE DEF ops
    <3>1. ops \in Nat
      BY <1>1
    <3> QED BY <3>1
  <2>1. CASE is_function(at(o))
    <3>1. list = at(o).params \o at(o).body
      BY <2>1 DEF Opens
    <3> QED BY <1>1, <2>0, <3>1
  <2>2. CASE ~ is_function(at(o))
    <3>1. PICK a, b : a = ops + Len(at(o).params) /\ b = ops + Len(at(o).params) + Len(at(o).body)
      OBVIOUS
    <3>2. a \in Nat /\ b \in Nat /\ ops <= a /\ ops <= b
      <4>1. PICK x, y, z : x = ops /\ y = Len(at(o).params) /\ z = Len(at(o).body)
        OBVIOUS
      <4>2. x \in Nat /\ y \in Nat /\ z \in Nat
        BY <1>1, <4>1
      <4>3. a = x + y /\ b = x + y + z
        BY <3>1, <4>1
      <4>4. a \in Nat /\ b \in Nat /\ x <= a /\ x <= b
        BY <4>2, <4>3
      <4> QED BY <4>1, <4>4
    <3>3. At(at(o).body, a, children) /\ At(at(o).orelse, b, children)
      BY <1>1, <3>1
    <3> QED BY <2>2, <3>2, <3>3 DEF Opens
  <2> QED BY <2>1, <2>2
<1>6. PICK shift \in Nat : ops <= shift /\ At(list, shift, children)
  BY <1>5
<1>7. PICK k : k = shift + j /\ k \in DOMAIN children /\ children[k] = m /\ j \in Nat \ {0}
  BY <1>4, <1>6 DEF At
<1>8. i = k
  BY <1>3, <1>7, ChildrenApart DEF at
<1> QED BY <1>1, <1>3, <1>6, <1>7, <1>8

\* A node of a frame's list that is above the use is the one the frame is at.
LEMMA SpineUnique ==
  ASSUME IInv, Running, NEW n, NEW spot, NEW lists, Spine(n, spot, lists),
         NEW k \in DOMAIN frames, NEW c \in Range(lists[k]), Under(ast, n, c)
  PROVE  c = spot[k]
<1>1. Scattered(lists[k]) /\ spot[k] \in Range(lists[k]) /\ Under(ast, n, spot[k])
  BY SpineFacts
<1>2. PICK i \in DOMAIN lists[k] : lists[k][i] = c
  BY DEF Range
<1>3. PICK j \in DOMAIN lists[k] : lists[k][j] = spot[k]
  BY <1>1 DEF Range
<1>4. Under(ast, n, lists[k][i]) /\ Under(ast, n, lists[k][j])
  BY <1>1, <1>2, <1>3
<1>5. i = j
  BY <1>1, <1>4 DEF Scattered
<1> QED BY <1>2, <1>3, <1>5

\* Only the lists of the frames have the use below one of their nodes.
LEMMA SpineCovers ==
  ASSUME IInv, Running, NEW n \in DOMAIN ast.nodes, at(n).kind \in Uses,
         NEW spot, NEW lists, Spine(n, spot, lists),
         NEW list \in ScopeLists(ast), NEW m \in Range(list), Under(ast, n, m)
  PROVE  \E k \in DOMAIN frames : list = lists[k] /\ m = spot[k]
<1> DEFINE L == Len(frames)
<1>1. /\ L \in Nat \ {0} /\ DOMAIN frames = 1 .. L /\ IsAst(ast)
      /\ lists[1] = ast.top
      /\ \A k \in DOMAIN frames : /\ spot[k] \in DOMAIN ast.nodes /\ spot[k] \in Nat
                                  /\ Under(ast, n, spot[k])
                                  /\ Scattered(lists[k]) /\ spot[k] \in Range(lists[k])
      /\ \A k \in DOMAIN frames :
           k + 1 \in DOMAIN frames => /\ Opens(spot[k], lists[k + 1]) /\ Child(ast, spot[k + 1], spot[k])
  BY SpineFacts DEF IInv
<1>2. n = spot[L] \/ \E e \in Range(at(spot[L]).operands) : Under(ast, n, e)
  BY <1>1 DEF Spine, Spot
<1>3. 1 \in DOMAIN frames /\ L \in DOMAIN frames
  BY <1>1
<1>4. ASSUME NEW k \in DOMAIN frames, NEW c \in Range(lists[k]), Under(ast, n, c)
      PROVE  c = spot[k]
  BY <1>4, SpineUnique
<1>5. CASE list = ast.top
  BY <1>1, <1>3, <1>4, <1>5
<1>6. CASE list # ast.top
  <2>1. PICK o \in DOMAIN ast.nodes : Opens(o, list) /\ at(o).kind \in {"FunctionDeclaration", "If"}
    BY <1>6 DEF ScopeLists, Opens, is_function, at
  <2>2. Child(ast, m, o) /\ Under(ast, n, o) /\ m < o /\ m \in Nat /\ o \in Nat /\ n <= m /\ n \in Nat
    <3>1. Child(ast, m, o)
      BY <1>1, <2>1, OpenedScattered DEF Range
    <3>2. m \in DOMAIN ast.nodes /\ m < o /\ Under(ast, n, o)
      BY <1>1, <3>1, ChildUnder
    <3> QED BY <1>1, <3>1, <3>2, UnderFacts
  <2>3. at(o).kind \notin Expression /\ o # n
    BY <2>1, NotExpressions DEF Uses
  \* The frame that is at o.
  <2>4. \E k \in DOMAIN frames : Under(ast, o, spot[k])
    <3>1. PICK i \in DOMAIN ast.top : ast.top[i] \in DOMAIN ast.nodes /\ Under(ast, o, ast.top[i])
      BY <1>1, TopCovers
    <3>2. Under(ast, n, ast.top[i])
      BY <1>1, <2>2, <3>1, Transitive
    <3>3. ast.top[i] = spot[1]
      BY <1>1, <1>3, <1>4, <3>2 DEF Range
    <3> QED BY <1>3, <3>1, <3>3
  <2>5. PICK k \in DOMAIN frames : /\ Under(ast, o, spot[k])
                                   /\ \A j \in DOMAIN frames : Under(ast, o, spot[j]) => j <= k
    <3> DEFINE T == {j \in Nat : L - j \in DOMAIN frames /\ Under(ast, o, spot[L - j])}
    <3>1. \A k \in DOMAIN frames : L - k \in Nat /\ L - (L - k) = k
      BY <1>1
    <3>2. T # {}
      <4>1. PICK k \in DOMAIN frames : Under(ast, o, spot[k])
        BY <2>4
      <4>2. PICK j : j = L - k /\ j \in Nat /\ L - j = k
        BY <3>1
      <4>3. j \in T
        BY <4>1, <4>2
      <4> QED BY <4>3
    <3>3. PICK j \in T : \A y \in T : j <= y
      <4>1. T \subseteq Nat
        OBVIOUS
      <4> HIDE DEF T
      <4> QED BY <3>2, <4>1, Least
    <3>4. L - j \in DOMAIN frames /\ Under(ast, o, spot[L - j]) /\ j \in Nat
      BY <3>3
    <3>5. ASSUME NEW i \in DOMAIN frames, Under(ast, o, spot[i])
          PROVE  i <= L - j
      <4>1. PICK y : y = L - i /\ y \in Nat /\ L - y = i
        BY <3>1
      <4>2. y \in T
        BY <3>5, <4>1
      <4>3. j <= y
        BY <3>3, <4>2
      <4>4. i \in Nat /\ L \in Nat
        BY <1>1
      <4> HIDE DEF L
      <4> QED BY <3>4, <4>1, <4>3, <4>4
    <3> QED BY <3>4, <3>5
  <2>6. k # L => k + 1 \in DOMAIN frames /\ ~ (k + 1 <= k)
    BY <1>1
  \* It is at o, and not above it.
  <2>7. o = spot[k]
    <3>1. SUFFICES ASSUME o # spot[k]
                   PROVE  FALSE
      OBVIOUS
    <3>2. PICK c : Child(ast, c, spot[k]) /\ Under(ast, o, c)
      BY <1>1, <2>5, <3>1, Descend
    <3>3. c \in DOMAIN ast.nodes /\ Under(ast, n, c)
      BY <1>1, <2>2, <3>2, ChildUnder, Transitive
    <3>4. CASE k # L
      <4>1. c = spot[k + 1]
        BY <1>1, <2>6, <3>2, <3>3, <3>4, OnlyChild
      <4> QED BY <2>5, <2>6, <3>2, <3>4, <4>1
    <3>5. CASE k = L
      <4>1. CASE n = spot[L]
        <5>1. o <= n
          BY <1>1, <2>5, <3>5, <4>1, UnderFacts
        <5> QED BY <2>2, <5>1
      <4>2. CASE n # spot[L]
        <5>1. PICK e \in Range(at(spot[L]).operands) : Under(ast, n, e)
          BY <1>2, <4>2
        <5>2. Child(ast, e, spot[k]) /\ \A x : Under(ast, x, e) => at(x).kind \in Expression
          BY <1>1, <3>5, <5>1, OperandUnder
        <5>3. c = e
          BY <1>1, <3>2, <3>3, <5>1, <5>2, OnlyChild
        <5> QED BY <2>3, <3>2, <5>2, <5>3
      <4> QED BY <4>1, <4>2
    <3> QED BY <3>4, <3>5
  <2>8. k # L
    <3>1. SUFFICES ASSUME k = L
                   PROVE  FALSE
      OBVIOUS
    <3>2. PICK e \in Range(at(o).operands) : Under(ast, n, e)
      BY <1>2, <2>3, <2>7, <3>1
    <3> QED BY <1>1, <2>1, <3>2, NotUnderBoth
  <2>9. Opens(o, lists[k + 1]) /\ Child(ast, spot[k + 1], o) /\ k + 1 \in DOMAIN frames
        /\ Under(ast, n, spot[k + 1]) /\ spot[k + 1] \in Range(lists[k + 1])
    BY <1>1, <2>6, <2>7, <2>8
  <2>10. m = spot[k + 1]
    BY <1>1, <2>2, <2>9, OnlyChild
  <2>11. list = lists[k + 1]
    BY <1>1, <2>1, <2>9, <2>10, OneList
  <2> QED BY <2>9, <2>10, <2>11
<1> QED BY <1>5, <1>6

-------------------------------------------------------------------------------
(* What a lookup answers. *)
\* The table of a frame holds a name if it is known at the spot, and holds the
\* first declared.
LEMMA HeldWhereKnown ==
  ASSUME IInv, Running, NEW n, NEW spot, NEW lists, Spine(n, spot, lists), NEW x \in Name,
         NEW k \in DOMAIN frames
  PROVE  /\ scopes[k][x] # NoNode <=> \E d \in Declarations(ast, lists[k], x) : Known(ast, d, spot[k])
         /\ scopes[k][x] # NoNode => scopes[k][x] = FirstDeclared(ast, lists[k], x)
<1>1. /\ Scattered(lists[k])
      /\ scopes[k][x] = IF \E d \in Declarations(ast, lists[k], x) : Known(ast, d, spot[k])
                        THEN FirstDeclared(ast, lists[k], x) ELSE NoNode
  BY DEF Spine, Spot, Located
<1>2. (\E d \in Declarations(ast, lists[k], x) : Known(ast, d, spot[k]))
         => FirstDeclared(ast, lists[k], x) # NoNode
  BY <1>1, FirstExists
<1> QED BY <1>1, <1>2

\* A lookup answers with the entry of the last table that holds the name.
LEMMA LookupIs ==
  ASSUME IInv, NEW x \in Name
  PROVE  LET H == {k \in 1 .. Len(scopes) : scopes[k][x] # NoNode} IN
         /\ H = {} => Table!lookup(x) = NoNode
         /\ H # {} => \E K \in H : Table!lookup(x) = scopes[K][x] /\ \A k \in H : k <= K
<1> DEFINE L == Len(scopes)
           H == {k \in 1 .. Len(scopes) : scopes[k][x] # NoNode}
<1>1. L \in Nat \ {0} /\ L \in DOMAIN scopes
  BY ScopesFacts
<1>2. Table!lookup(x) = IF H = {} THEN NoNode ELSE scopes[Table!Max(H)][x]
  BY DEF Table!lookup, Table!lookup_from, Table!holders
<1>3. ASSUME H # {}
      PROVE  Table!Max(H) \in H /\ \A k \in H : k <= Table!Max(H)
  <2>1. TableProofs!Inv
    BY DEF IInv, ScopesInv
  <2>2. TableProofs!holders(L, x) = H
    BY DEF TableProofs!holders
  <2>3. PICK i \in H : \A j \in H : j <= i
    BY <1>1, <1>3, <2>1, <2>2 DEF TableProofs!Inv, TableProofs!HasInnermost
  <2>4. H \subseteq Int
    BY <1>1
  <2> HIDE DEF H
  <2>5. TableProofs!Max(H) = i
    BY <2>3, <2>4, TableProofs!MaxIsLast
  <2>6. Table!Max(H) = TableProofs!Max(H)
    BY DEF Table!Max, TableProofs!Max
  <2> QED BY <2>3, <2>5, <2>6
<1> HIDE DEF H
<1>4. ASSUME H # {}
      PROVE  \E K \in H : Table!lookup(x) = scopes[K][x] /\ \A k \in H : k <= K
  BY <1>2, <1>3, <1>4
<1> QED BY <1>2, <1>4 DEF H

\* The table that answers is that of the innermost list in which a
\* declaration of the name is known.
LEMMA LookupResolves ==
  ASSUME IInv, PlacedInv, NEW kind \in Uses, Visiting(kind)
  PROVE  Table!lookup(at(this).name) = Resolve(ast, this)
<1> DEFINE n == this
           x == at(this).name
           H == {k \in 1 .. Len(scopes) : scopes[k][x] # NoNode}
           L == {list \in ScopeLists(ast) : InForce(ast, n, x, list) # {}}
           Innermost(list) == \A other \in L :
                                \A m \in InForce(ast, n, x, list), o \in InForce(ast, n, x, other) : m <= o
<1>1. Now("visit") /\ Running /\ at(n).kind \in Uses /\ n \in DOMAIN ast.nodes /\ IsAst(ast)
  BY HeadFacts DEF Visiting, Now, IInv
<1>2. x \in Name
  BY <1>1, AstFacts DEF Uses, Named
<1>3. PICK spot, lists : Spine(n, spot, lists)
  BY <1>1, SpineExists
<1>4. /\ DOMAIN frames = 1 .. Len(scopes)
      /\ \A k \in DOMAIN frames : /\ spot[k] \in Nat /\ Under(ast, n, spot[k])
                                  /\ spot[k] \in Range(lists[k]) /\ lists[k] \in ScopeLists(ast)
  BY <1>1, <1>3, SpineFacts, RunningScopes
<1>5. \A j, k \in DOMAIN frames : j < k => spot[k] < spot[j]
  BY <1>1, <1>3, SpineFalls
<1>6. ASSUME NEW k \in DOMAIN frames
      PROVE  /\ k \in H <=> \E d \in Declarations(ast, lists[k], x) : Known(ast, d, spot[k])
             /\ k \in H => scopes[k][x] = FirstDeclared(ast, lists[k], x)
  <2>1. /\ scopes[k][x] # NoNode <=> \E d \in Declarations(ast, lists[k], x) : Known(ast, d, spot[k])
        /\ scopes[k][x] # NoNode => scopes[k][x] = FirstDeclared(ast, lists[k], x)
    BY <1>1, <1>2, <1>3, HeldWhereKnown
  <2>2. k \in H <=> scopes[k][x] # NoNode
    BY <1>4
  <2> QED BY <2>1, <2>2
<1>7. ASSUME NEW k \in DOMAIN frames, NEW m
      PROVE  m \in InForce(ast, n, x, lists[k]) <=> m = spot[k] /\ k \in H
  <2>1. ASSUME m \in InForce(ast, n, x, lists[k])
        PROVE  m = spot[k] /\ k \in H
    <3>1. /\ m \in Range(lists[k]) /\ Under(ast, n, m)
          /\ \E d \in Declarations(ast, lists[k], x) : Known(ast, d, m)
      BY <2>1 DEF InForce
    <3>2. m = spot[k]
      BY <1>1, <1>3, <3>1, SpineUnique
    <3> QED BY <1>6, <3>1, <3>2
  <2>2. ASSUME m = spot[k], k \in H
        PROVE  m \in InForce(ast, n, x, lists[k])
    BY <1>4, <1>6, <2>2 DEF InForce
  <2> QED BY <2>1, <2>2
<1>8. ASSUME NEW list \in L
      PROVE  \E k \in DOMAIN frames : list = lists[k] /\ k \in H
  <2>1. PICK m \in Range(list) : Under(ast, n, m) /\ \E d \in Declarations(ast, list, x) : Known(ast, d, m)
    BY DEF InForce
  <2>2. PICK k \in DOMAIN frames : list = lists[k] /\ m = spot[k]
    BY <1>1, <1>3, <2>1, SpineCovers
  <2> QED BY <1>6, <2>1, <2>2
<1>9. ASSUME NEW k \in H
      PROVE  k \in DOMAIN frames /\ lists[k] \in L
  <2>1. k \in DOMAIN frames
    BY <1>4
  <2>2. spot[k] \in InForce(ast, n, x, lists[k])
    BY <1>7, <2>1
  <2> QED BY <1>4, <2>1, <2>2
<1>10. /\ H = {} => Table!lookup(x) = NoNode
       /\ H # {} => \E K \in H : Table!lookup(x) = scopes[K][x] /\ \A k \in H : k <= K
  BY <1>2, LookupIs
<1>11. Resolve(ast, n) = IF L = {} THEN NoNode
                         ELSE FirstDeclared(ast, CHOOSE list \in L : Innermost(list), x)
  BY DEF Resolve, at
<1> HIDE DEF n, x, H, L, Innermost
<1>12. CASE H = {}
  <2>1. L = {}
    BY <1>8, <1>12
  <2> QED BY <1>10, <1>11, <1>12, <2>1 DEF n, x
<1>13. CASE H # {}
  <2>1. PICK K \in H : Table!lookup(x) = scopes[K][x] /\ \A k \in H : k <= K
    BY <1>10, <1>13
  <2>2. K \in DOMAIN frames /\ lists[K] \in L
    BY <1>9
  <2>3. ASSUME NEW k \in H
        PROVE  spot[K] <= spot[k] /\ (spot[k] <= spot[K] => k = K)
    <3>1. k <= K /\ k \in DOMAIN frames /\ k \in Nat /\ K \in Nat /\ spot[k] \in Nat /\ spot[K] \in Nat
      BY <1>4, <1>9, <2>1, <2>2
    <3>2. k = K \/ spot[K] < spot[k]
      BY <1>5, <2>2, <3>1
    <3> QED BY <3>1, <3>2
  <2>4. Innermost(lists[K])
    <3>1. ASSUME NEW other \in L, NEW m \in InForce(ast, n, x, lists[K]), NEW o \in InForce(ast, n, x, other)
          PROVE  m <= o
      <4>1. PICK k \in DOMAIN frames : other = lists[k] /\ k \in H
        BY <1>8
      <4>2. m = spot[K] /\ o = spot[k]
        BY <1>7, <2>2, <4>1
      <4> QED BY <2>3, <4>1, <4>2
    <3> QED BY <3>1 DEF Innermost
  <2>5. ASSUME NEW list \in L, Innermost(list)
        PROVE  list = lists[K]
    <3>1. PICK k \in DOMAIN frames : list = lists[k] /\ k \in H
      BY <1>8
    <3>2. spot[k] \in InForce(ast, n, x, list) /\ spot[K] \in InForce(ast, n, x, lists[K])
      BY <1>7, <2>2, <3>1
    <3>3. spot[k] <= spot[K]
      BY <2>2, <2>5, <3>2 DEF Innermost
    <3> QED BY <2>3, <3>1, <3>3
  <2>6. (CHOOSE list \in L : Innermost(list)) = lists[K]
    BY <2>2, <2>4, <2>5
  <2>7. Resolve(ast, n) = FirstDeclared(ast, lists[K], x)
    BY <1>11, <2>2, <2>6
  <2>8. scopes[K][x] = FirstDeclared(ast, lists[K], x)
    BY <1>6, <2>2
  <2> QED BY <2>1, <2>7, <2>8 DEF n, x
<1> QED BY <1>12, <1>13

-------------------------------------------------------------------------------
(* What was found stays the declaration in force. *)
LEMMA SameFound ==
  ASSUME FoundInv, ast' = ast, resolved' = resolved
  PROVE  FoundInv'
BY DEF FoundInv, at

\* A visitor that looks up its name finds the declaration in force.
LEMMA FoundUse ==
  ASSUME IInv, PlacedInv, FoundInv, NEW kind \in Uses, Visiting(kind), ast' = ast,
         resolved' = [resolved EXCEPT ![this] = Table!lookup(at(this).name)]
  PROVE  FoundInv'
<1>1. Table!lookup(at(this).name) = Resolve(ast, this)
  BY LookupResolves
<1> SUFFICES ASSUME NEW n \in DOMAIN ast.nodes, at(n).kind \in Uses
             PROVE  resolved'[n] \in {NoNode, Resolve(ast, n)}
  BY DEF FoundInv, at
<1>2. resolved[n] \in {NoNode, Resolve(ast, n)} /\ n \in DOMAIN resolved
  BY DEF FoundInv, IInv, ResolvedInv
<1>3. CASE n = this
  BY <1>1, <1>2, <1>3
<1>4. CASE n # this
  BY <1>2, <1>4
<1> QED BY <1>3, <1>4

\* So what has been found is the declaration in force, through every step.
LEMMA FoundStep ==
  ASSUME IInv, PlacedInv, FoundInv, [Next]_vars
  PROVE  FoundInv'
<1>1. CASE validate
  BY <1>1 DEF validate, FoundInv, at
<1>2. CASE validate_variable_assignment
  BY <1>2, FoundUse DEF validate_variable_assignment, KeepScope, Uses
<1>3. CASE validate_variable_lookup
  BY <1>3, FoundUse DEF validate_variable_lookup, KeepScope, Uses
<1>4. CASE validate_function_call
  BY <1>4, FoundUse DEF validate_function_call, KeepScope, Uses
<1>5. CASE register_function \/ validate_function_declaration \/ validate_constant_declaration
           \/ validate_argument \/ declare_variable
  BY <1>5, SameFound
     DEF register_function, validate_function_declaration, validate_constant_declaration, validate_argument,
         declare_variable, insert_or_fail, KeepScope
<1>6. CASE validate_variable_declaration \/ validate_literal \/ validate_binary_op \/ validate_unary_op
           \/ validate_call_argument \/ validate_function_return \/ validate_if
  BY <1>6, SameFound
     DEF validate_variable_declaration, validate_literal, validate_binary_op, validate_unary_op,
         validate_call_argument, validate_function_return, validate_if, KeepScope
<1>7. CASE check_assignment \/ type_binary_op \/ type_unary_op \/ check_argument \/ check_return
  BY <1>7, SameFound
     DEF check_assignment, type_binary_op, type_unary_op, check_argument, check_return, KeepScope
<1>8. CASE check_condition \/ validate_else_block \/ release_stack_frame \/ finish
  BY <1>8, SameFound DEF check_condition, validate_else_block, release_stack_frame, finish
<1>9. CASE UNCHANGED vars
  BY <1>9, SameFound DEF vars
<1> QED BY <1>1, <1>2, <1>3, <1>4, <1>5, <1>6, <1>7, <1>8, <1>9 DEF Next

-------------------------------------------------------------------------------
(* A use that was not looked up is still awaited. *)

Awaits(what, m, n) ==
    \/ what \in {"visit", "argument"} /\ Under(ast, n, m)
    \/ what = "check_condition" /\ \E c \in Range(at(m).body) \cup Range(at(m).orelse) : Under(ast, n, c)
    \/ what = "else_block" /\ \E c \in Range(at(m).orelse) : Under(ast, n, c)

AwaitedInv ==
    (round > 0 /\ errors = << >>) =>
      \A n \in DOMAIN ast.nodes :
        at(n).kind \in Uses => resolved[n] # NoNode \/ \E what, m : Pending(what, m) /\ Awaits(what, m, n)

\* The uses the first item awaited are looked up or are awaited by what is
\* left of it.
Passes(items, list) ==
    \A n \in DOMAIN ast.nodes :
      (at(n).kind \in Uses /\ Awaits(Head(Current.todo).do, this, n)) =>
        \/ resolved'[n] # NoNode
        \/ \E what, m : Left(items, what, m) /\ Awaits(what, m, n)
        \/ \E i \in DOMAIN list : Under(ast, n, list[i])

\* No use that was found is forgotten.
Remembers == \A n \in DOMAIN ast.nodes : resolved[n] # NoNode => resolved'[n] # NoNode

\* A use awaited stays awaited if the first item passes it on.
LEMMA AwaitStep ==
  ASSUME IInv, AwaitedInv, Running, Current.todo # << >>, ast' = ast, round' = round, ErrorsStay,
         NEW items \in Seq(Item), NEW list, Works(items, list),
         errors' = << >> => Passes(items, list) /\ Remembers
  PROVE  AwaitedInv'
<1> SUFFICES ASSUME round > 0, errors' = << >>, NEW n \in DOMAIN ast.nodes, at(n).kind \in Uses
             PROVE  resolved'[n] # NoNode \/ \E what, m : Pending(what, m)' /\ Awaits(what, m, n)
  BY DEF AwaitedInv, Awaits, at
<1>1. errors = << >>
  BY DEF ErrorsStay
<1>2. Keeps /\ (\A what, m : Left(items, what, m) => Pending(what, m)')
      /\ \A i \in DOMAIN list : Pending("visit", list[i])'
  BY WorksPending
<1>3. CASE resolved[n] # NoNode
  BY <1>3 DEF Remembers
<1>4. CASE \E what, m : Pending(what, m) /\ Awaits(what, m, n)
  <2>1. PICK what, m : Pending(what, m) /\ Awaits(what, m, n)
    BY <1>4
  <2>2. CASE Pending(what, m)'
    BY <2>1, <2>2
  <2>3. CASE Head(Current.todo).do = what /\ this = m
    <3>1. \/ resolved'[n] # NoNode
          \/ \E w, k : Left(items, w, k) /\ Awaits(w, k, n)
          \/ \E i \in DOMAIN list : Under(ast, n, list[i])
      BY <2>1, <2>3 DEF Passes
    <3>2. ASSUME NEW i \in DOMAIN list, Under(ast, n, list[i])
          PROVE  Pending("visit", list[i])' /\ Awaits("visit", list[i], n)
      BY <1>2, <3>2 DEF Awaits
    <3> QED BY <1>2, <3>1, <3>2
  <2> QED BY <1>2, <2>1, <2>2, <2>3 DEF Keeps
<1> QED BY <1>1, <1>3, <1>4 DEF AwaitedInv

-------------------------------------------------------------------------------
(* Where below a node a use can be. *)

\* A use below another node is below an operand that has it looked up, or
\* below a statement of a function or an if.
LEMMA UseBelow ==
  ASSUME IsAst(ast), NEW n \in DOMAIN ast.nodes, NEW u \in DOMAIN ast.nodes, at(u).kind \in Uses,
         Under(ast, u, n), u # n
  PROVE  \/ \E o \in Range(at(n).operands) : Under(ast, u, o) /\ at(o).kind \notin Literal
         \/ at(n).kind \in {"FunctionDeclaration", "If"} /\ \E c \in Range(at(n).body) : Under(ast, u, c)
         \/ at(n).kind = "If" /\ \E c \in Range(at(n).orelse) : Under(ast, u, c)
<1>1. PICK c : Child(ast, c, n) /\ Under(ast, u, c)
  BY Descend
<1>2. c \in DOMAIN ast.nodes
  BY <1>1, ChildUnder
<1>3. at(c).kind \notin Literal \cup {"Argument"}
  BY <1>1, <1>2, Childless DEF Uses, Literal, at
<1>4. c \notin Range(at(n).params)
  BY <1>3, AstFacts DEF Range
<1>5. /\ at(n).kind \notin {"FunctionDeclaration", "If"} => at(n).body = << >>
      /\ at(n).kind # "If" => at(n).orelse = << >>
  BY DEF IsAst, at
<1>6. Range(<< >>) = {}
  BY DEF Range
<1> QED BY <1>1, <1>3, <1>4, <1>5, <1>6, AmongChildren DEF at

-------------------------------------------------------------------------------
(* What the visitors leave awaited. *)
\* A step within the current frame.
LEMMA ThenAwaited ==
  ASSUME IInv, AwaitedInv, NEW what, Now(what), ast' = ast, history' = history, ErrorsStay,
         NEW items \in Seq(Item), Then(items),
         errors' = << >> => Passes(items, << >>) /\ Remembers
  PROVE  AwaitedInv'
<1>1. Running /\ Current.todo # << >> /\ round' = round
  BY DEF Now, history
<1>2. Works(items, << >>)
  BY <1>1, ThenWorks
<1> QED BY <1>1, <1>2, AwaitStep

\* A step that opens a frame.
LEMMA EnterAwaited ==
  ASSUME IInv, AwaitedInv, NEW what, Now(what), ast' = ast, history' = history, ErrorsStay,
         NEW items \in Seq(Item), NEW list, Enter(list, items), Passes(items, list), resolved' = resolved
  PROVE  AwaitedInv'
<1>1. Running /\ Current.todo # << >> /\ round' = round
  BY DEF Now, history
<1>2. Works(items, list)
  BY <1>1, EnterWorks
<1>3. Remembers
  BY DEF Remembers
<1> QED BY <1>1, <1>2, <1>3, AwaitStep

\* Nothing below this was awaited.
LEMMA DoneAwaited ==
  ASSUME IInv, AwaitedInv, NEW what, Now(what), ast' = ast, history' = history, ErrorsStay, Then(<< >>),
         resolved' = resolved,
         \/ what \notin {"visit", "argument", "check_condition", "else_block"}
         \/ what = "visit" /\ at(this).kind \in Literal \cup {"Argument", "ConstantDeclaration"}
  PROVE  AwaitedInv'
<1>1. Head(Current.todo).do = what /\ this \in DOMAIN ast.nodes /\ IsAst(ast)
  BY HeadFacts DEF Now, IInv
<1>2. Remembers /\ << >> \in Seq(Item)
  BY DEF Remembers
<1>3. Passes(<< >>, << >>)
  <2>1. CASE what \notin {"visit", "argument", "check_condition", "else_block"}
    BY <1>1, <2>1 DEF Passes, Awaits
  <2>2. CASE what = "visit" /\ at(this).kind \in Literal \cup {"Argument", "ConstantDeclaration"}
    <3> SUFFICES ASSUME NEW n \in DOMAIN ast.nodes, at(n).kind \in Uses, Under(ast, n, this)
                 PROVE  FALSE
      BY <1>1, <2>2 DEF Passes, Awaits
    <3>1. n # this
      BY <2>2 DEF Uses, Literal
    <3>2. CASE at(this).kind \in Literal \cup {"Argument"}
      BY <1>1, <3>1, <3>2, Childless DEF at
    <3>3. CASE at(this).kind = "ConstantDeclaration"
      <4>1. PICK o \in Range(at(this).operands) : at(o).kind \notin Literal
        BY <1>1, <3>1, <3>3, UseBelow
      <4>2. at(this).operands \in Seq({m \in 1 .. this - 1 : ast.nodes[m].kind \in Literal})
        BY <1>1, <3>3 DEF IsAst, at
      <4> QED BY <4>1, <4>2 DEF Range, at
    <3> QED BY <2>2, <3>2, <3>3
  <2> QED BY <2>1, <2>2
<1> QED BY <1>2, <1>3, ThenAwaited

\* The operands are going to be visited, and an if goes on after its condition.
LEMMA OperandsPass ==
  ASSUME IInv, NEW kind, Visiting(kind), NEW item \in Item, item.node = this, << kind, item.do >> \in Afterwards,
         at(this).kind \in Uses => resolved'[this] # NoNode
  PROVE  Passes(visits(at(this).operands) \o << item >>, << >>)
<1> DEFINE ops == at(this).operands
           items == visits(ops) \o << item >>
<1>1. /\ at(this).kind = kind /\ this \in DOMAIN ast.nodes /\ Head(Current.todo).do = "visit" /\ IsAst(ast)
  BY HeadFacts DEF Visiting, Now, IInv
<1>2. /\ items \in Seq(Item)
      /\ DOMAIN items = 1 .. Len(ops) + 1 /\ Len(ops) \in Nat /\ Len(items) = Len(ops) + 1
      /\ items[Len(ops) + 1] = item
      /\ \A i \in 1 .. Len(ops) : items[i] = do("visit", ops[i])
      /\ DOMAIN ops = 1 .. Len(ops)
  BY <1>1, OperandTodo
<1> HIDE DEF items
<1>3. Left(items, item.do, this)
  <2>1. Len(ops) + 1 \in DOMAIN items
    BY <1>2
  <2> QED BY <1>2, <2>1 DEF Left
<1>4. ASSUME NEW o \in Range(ops)
      PROVE  Left(items, "visit", o)
  <2>1. PICK i \in DOMAIN ops : ops[i] = o
    BY DEF Range
  <2>2. i \in DOMAIN items /\ items[i] = do("visit", o)
    BY <1>2, <2>1
  <2> QED BY <2>2 DEF Left, do
<1> SUFFICES ASSUME NEW n \in DOMAIN ast.nodes, at(n).kind \in Uses, Under(ast, n, this)
             PROVE  resolved'[n] # NoNode \/ \E what, m : Left(items, what, m) /\ Awaits(what, m, n)
  BY <1>1 DEF Passes, Awaits, items
<1>5. CASE n = this
  BY <1>5
<1>6. CASE n # this
  <2>1. CASE \E o \in Range(at(this).operands) : Under(ast, n, o) /\ at(o).kind \notin Literal
    BY <1>4, <2>1 DEF Awaits
  <2>2. CASE \E c \in Range(at(this).body) \cup Range(at(this).orelse) :
               at(this).kind \in {"FunctionDeclaration", "If"} /\ Under(ast, n, c)
    <3>1. item.do = "check_condition"
      BY <1>1, <2>2 DEF Afterwards
    <3> QED BY <1>3, <2>2, <3>1 DEF Awaits
  <2> QED BY <1>1, <1>6, <2>1, <2>2, UseBelow
<1> QED BY <1>5, <1>6

\* Visitors that visit the operands first.
LEMMA OperatorsAwaited ==
  ASSUME IInv, AwaitedInv,
         \/ validate_variable_declaration \/ validate_binary_op \/ validate_unary_op
         \/ validate_function_return \/ validate_if
  PROVE  AwaitedInv'
<1>1. ASSUME NEW kind, NEW next, Visiting(kind), << kind, next >> \in Afterwards, kind \notin Uses,
             KeepScope, UNCHANGED << errors, result_type, resolved >>,
             Then(visits(at(this).operands) \o << do(next, this) >>)
      PROVE  AwaitedInv'
  <2>1. Now("visit") /\ this \in DOMAIN ast.nodes /\ at(this).kind = kind
    BY <1>1, HeadFacts DEF Visiting, Now
  <2>2. this \in Nat /\ next \in Todo
    BY <1>1, <2>1, AstFacts DEF Afterwards, Todo, IInv
  <2>3. do(next, this) \in Item /\ do(next, this).node = this /\ do(next, this).do = next
    BY <2>2 DEF do, Item, NoNode
  <2>4. Passes(visits(at(this).operands) \o << do(next, this) >>, << >>)
    BY <1>1, <2>1, <2>3, OperandsPass
  <2>5. visits(at(this).operands) \o << do(next, this) >> \in Seq(Item)
    BY <2>1, <2>3, OperandTodo
  <2>6. Remembers /\ ErrorsStay /\ ast' = ast /\ history' = history
    BY <1>1 DEF Remembers, ErrorsStay, KeepScope
  <2> QED BY <1>1, <2>1, <2>4, <2>5, <2>6, ThenAwaited
<1>2. CASE validate_variable_declaration
  BY <1>1, <1>2 DEF validate_variable_declaration, Afterwards, Uses
<1>3. CASE validate_binary_op
  BY <1>1, <1>3 DEF validate_binary_op, Afterwards, Uses
<1>4. CASE validate_unary_op
  BY <1>1, <1>4 DEF validate_unary_op, Afterwards, Uses
<1>5. CASE validate_function_return
  BY <1>1, <1>5 DEF validate_function_return, Afterwards, Uses
<1>6. CASE validate_if
  BY <1>1, <1>6 DEF validate_if, Afterwards, Uses
<1> QED BY <1>2, <1>3, <1>4, <1>5, <1>6

\* What a use was found to mean is remembered.
LEMMA FoundRemembered ==
  ASSUME IInv, this \in DOMAIN ast.nodes, NEW found, resolved' = [resolved EXCEPT ![this] = found],
         found # NoNode
  PROVE  Remembers /\ resolved'[this] # NoNode
BY DEF Remembers, IInv, ResolvedInv

\* A visitor that reports its node need not go on.
LEMMA FailAwaited ==
  ASSUME IInv, AwaitedInv, NEW what, Now(what), KeepScope, NEW message, Fail(message)
  PROVE  AwaitedInv'
<1>1. ast' = ast /\ add_error(this, message)
  BY DEF Fail, KeepScope
<1>2. errors' # << >>
  BY <1>1, ErrorsEither
<1> QED BY <1>2 DEF AwaitedInv

\* An assignment is looked up, and its value is awaited.
LEMMA validate_variable_assignmentAwaited ==
  ASSUME IInv, AwaitedInv, validate_variable_assignment
  PROVE  AwaitedInv'
<1> DEFINE found == Table!lookup(at(this).name)
           check == [do |-> "check_assignment", node |-> this, entry |-> found]
           items == visits(at(this).operands) \o << check >>
<1>1. /\ Visiting("VariableAssignment") /\ Now("visit") /\ at(this).kind = "VariableAssignment" /\ KeepScope
      /\ resolved' = [resolved EXCEPT ![this] = found]
      /\ \/ Fail("not found")
         \/ /\ found # NoNode /\ Then(items) /\ UNCHANGED << errors, result_type >>
  BY DEF validate_variable_assignment, Visiting
<1>2. CASE Fail("not found")
  BY <1>1, <1>2, FailAwaited
<1>3. CASE found # NoNode /\ Then(items) /\ UNCHANGED << errors, result_type >>
  <2>1. this \in DOMAIN ast.nodes /\ found \in {NoNode} \cup DOMAIN ast.nodes
    BY <1>1, LooksUp
  <2>2. check \in Item
    BY <1>1, <2>1, ItemType DEF Todo
  <2>3. check.node = this /\ << "VariableAssignment", check.do >> \in Afterwards
    BY DEF Afterwards
  <2>4. Remembers /\ resolved'[this] # NoNode
    BY <1>1, <1>3, <2>1, FoundRemembered
  <2> HIDE DEF check, found
  <2>5. Passes(items, << >>) /\ items \in Seq(Item)
    BY <1>1, <2>1, <2>2, <2>3, <2>4, OperandsPass, OperandTodo
  <2>6. ErrorsStay /\ ast' = ast /\ history' = history
    BY <1>1, <1>3 DEF ErrorsStay, KeepScope
  <2> HIDE DEF items
  <2> QED BY <1>1, <1>3, <2>4, <2>5, <2>6, ThenAwaited
<1> QED BY <1>1, <1>2, <1>3

\* A variable is looked up.
LEMMA validate_variable_lookupAwaited ==
  ASSUME IInv, AwaitedInv, validate_variable_lookup
  PROVE  AwaitedInv'
<1> DEFINE found == Table!lookup(at(this).name)
<1>1. /\ Visiting("VariableLookup") /\ Now("visit") /\ at(this).kind = "VariableLookup" /\ KeepScope
      /\ resolved' = [resolved EXCEPT ![this] = found]
      /\ \/ Fail("not found") \/ Fail("incompatible element found")
         \/ /\ found # NoNode /\ Then(<< >>) /\ errors' = errors
  BY DEF validate_variable_lookup, Visiting
<1>2. CASE Fail("not found") \/ Fail("incompatible element found")
  BY <1>1, <1>2, FailAwaited
<1>3. CASE found # NoNode /\ Then(<< >>) /\ errors' = errors
  <2>1. this \in DOMAIN ast.nodes /\ IsAst(ast) /\ Head(Current.todo).do = "visit"
    BY <1>1, LooksUp DEF IInv, Now
  <2>2. Remembers /\ resolved'[this] # NoNode
    BY <1>1, <1>3, <2>1, FoundRemembered
  <2>3. DOMAIN at(this).operands = {}
    BY <1>1, <2>1, NoOperands DEF Operands
  <2>4. Passes(<< >>, << >>)
    <3> SUFFICES ASSUME NEW n \in DOMAIN ast.nodes, at(n).kind \in Uses, Under(ast, n, this)
                 PROVE  resolved'[n] # NoNode
      BY <2>1 DEF Passes, Awaits
    <3>1. n = this
      BY <1>1, <2>1, <2>3, UseBelow DEF Range
    <3> QED BY <2>2, <3>1
  <2>5. ErrorsStay /\ ast' = ast /\ history' = history
    BY <1>1, <1>3 DEF ErrorsStay, KeepScope
  <2>6. << >> \in Seq(Item)
    OBVIOUS
  <2> QED BY <1>1, <1>3, <2>2, <2>4, <2>5, <2>6, ThenAwaited
<1> QED BY <1>1, <1>2, <1>3

\* Nor need any that reports an error.
LEMMA ErrorAwaited ==
  ASSUME IInv, ast' = ast, NEW n, NEW message, add_error(n, message)
  PROVE  AwaitedInv'
<1>1. errors' # << >>
  BY ErrorsEither
<1> QED BY <1>1 DEF AwaitedInv

\* A call is looked up, and its arguments are awaited.
LEMMA validate_function_callAwaited ==
  ASSUME IInv, AwaitedInv, validate_function_call
  PROVE  AwaitedInv'
<1> DEFINE found == Table!lookup(at(this).name)
           args == at(this).operands
           params == at(found).params
           items == [i \in DOMAIN args |-> [do |-> "argument", node |-> args[i], entry |-> params[i]]]
<1>1. /\ Visiting("FunctionCall") /\ Now("visit") /\ at(this).kind = "FunctionCall" /\ KeepScope
      /\ resolved' = [resolved EXCEPT ![this] = found]
      /\ \/ Fail("not found")
         \/ Fail("is not a function")
         \/ add_error(this, "wrong argument count")
         \/ found # NoNode /\ Len(args) = Len(params) /\ Then(items) /\ errors' = errors
  BY DEF validate_function_call, Visiting
<1>2. CASE Fail("not found") \/ Fail("is not a function")
  BY <1>1, <1>2, FailAwaited
<1>3. CASE add_error(this, "wrong argument count")
  BY <1>1, <1>3, ErrorAwaited DEF KeepScope
<1>4. CASE found # NoNode /\ Len(args) = Len(params) /\ Then(items) /\ errors' = errors
  <2>1. /\ this \in DOMAIN ast.nodes /\ found \in DOMAIN ast.nodes /\ IsAst(ast)
        /\ Head(Current.todo).do = "visit"
    BY <1>1, <1>4, LooksUp DEF IInv, Now
  <2>2. Remembers /\ resolved'[this] # NoNode
    BY <1>1, <1>4, <2>1, FoundRemembered
  <2>3. items \in Seq(Item) /\ DOMAIN items = DOMAIN args
    BY <1>4, <2>1, CallTodo
  <2>4. ASSUME NEW o \in Range(args)
        PROVE  Left(items, "argument", o)
    <3>1. PICK i \in DOMAIN args : args[i] = o
      BY DEF Range
    <3> QED BY <3>1 DEF Left
  <2>5. Then(items)
    BY <1>4
  <2> HIDE DEF items
  <2>6. Passes(items, << >>)
    <3> SUFFICES ASSUME NEW n \in DOMAIN ast.nodes, at(n).kind \in Uses, Under(ast, n, this), n # this
                 PROVE  \E what, m : Left(items, what, m) /\ Awaits(what, m, n)
      BY <2>1, <2>2 DEF Passes, Awaits
    <3>1. PICK o \in Range(args) : Under(ast, n, o)
      BY <1>1, <2>1, UseBelow
    <3> QED BY <2>4, <3>1 DEF Awaits
  <2>7. ErrorsStay /\ ast' = ast /\ history' = history
    BY <1>1, <1>4 DEF ErrorsStay, KeepScope
  <2> QED BY <1>1, <2>2, <2>3, <2>5, <2>6, <2>7, ThenAwaited
<1> QED BY <1>1, <1>2, <1>3, <1>4

\* An argument is awaited until it is visited.
LEMMA validate_call_argumentAwaited ==
  ASSUME IInv, AwaitedInv, validate_call_argument
  PROVE  AwaitedInv'
<1> DEFINE check == [do |-> "check_argument", node |-> this, entry |-> held_entry]
           items == << do("visit", this), check >>
<1>1. /\ Now("argument") /\ KeepScope /\ UNCHANGED << errors, resolved >> /\ Then(items)
  BY DEF validate_call_argument
<1>2. Fits(ast, Head(Current.todo)) /\ Head(Current.todo).do = "argument"
  BY <1>1, InnerHead DEF Now
<1>3. held_entry \in DOMAIN ast.nodes
  BY <1>2 DEF Fits, held_entry
<1>4. do("visit", this) \in Item /\ check \in Item
  BY <1>1, <1>3, ItemType DEF do, Todo
<1>5. items \in Seq(Item) /\ DOMAIN items = {1, 2} /\ items[1] = do("visit", this)
  BY <1>4
<1> HIDE DEF items
<1>6. Left(items, "visit", this)
  BY <1>5 DEF Left, do
<1>7. Passes(items, << >>)
  BY <1>2, <1>6 DEF Passes, Awaits
<1>8. ErrorsStay /\ ast' = ast /\ history' = history /\ Remembers
  BY <1>1 DEF ErrorsStay, KeepScope, Remembers
<1> QED BY <1>1, <1>5, <1>7, <1>8, ThenAwaited

\* Everything else ends the work on its node, or reports it.
LEMMA ClosesAwaited ==
  ASSUME IInv, AwaitedInv, NEW what, Now(what), ast' = ast, history' = history,
         \/ what \notin {"visit", "argument", "check_condition", "else_block"}
         \/ what = "visit" /\ at(this).kind \in Literal \cup {"Argument", "ConstantDeclaration"},
         \/ \E message : add_error(this, message)
         \/ errors' = errors /\ Then(<< >>) /\ resolved' = resolved
  PROVE  AwaitedInv'
<1>1. CASE \E message : add_error(this, message)
  BY <1>1, ErrorAwaited
<1>2. CASE errors' = errors /\ Then(<< >>) /\ resolved' = resolved
  <2>1. ErrorsStay
    BY <1>2 DEF ErrorsStay
  <2> QED BY <1>2, <2>1, DoneAwaited
<1> QED BY <1>1, <1>2

\* What is left to be checked after a visit has no use below it.
LEMMA ChecksAwaited ==
  ASSUME IInv, AwaitedInv,
         \/ check_assignment \/ check_argument \/ check_return \/ type_binary_op \/ type_unary_op
         \/ validate_literal
  PROVE  AwaitedInv'
<1>1. CASE check_assignment
  BY <1>1, ClosesAwaited DEF check_assignment, Assign, KeepScope
<1>2. CASE check_argument
  BY <1>2, ClosesAwaited DEF check_argument, Assign, KeepScope
<1>3. CASE check_return
  BY <1>3, ClosesAwaited DEF check_return, Assign, Fail, KeepScope
<1>4. CASE type_binary_op
  BY <1>4, ClosesAwaited DEF type_binary_op, Fail, KeepScope
<1>5. CASE type_unary_op
  BY <1>5, ClosesAwaited DEF type_unary_op, Fail, KeepScope
<1>6. CASE validate_literal
  BY <1>6, ClosesAwaited DEF validate_literal, KeepScope
<1> QED BY <1>1, <1>2, <1>3, <1>4, <1>5, <1>6

\* Nor has what is entered in a table.
LEMMA DeclarationsAwaited ==
  ASSUME IInv, AwaitedInv,
         \/ register_function \/ declare_variable \/ validate_constant_declaration \/ validate_argument
  PROVE  AwaitedInv'
<1>1. ASSUME NEW what, Now(what), NEW message, insert_or_fail(this, message),
             \/ what \in {"register", "declare_variable"}
             \/ what = "visit" /\ at(this).kind \in {"Argument", "ConstantDeclaration"}
      PROVE  AwaitedInv'
  <2>1. /\ ast' = ast /\ history' = history /\ resolved' = resolved /\ Then(<< >>)
        /\ errors' = errors \/ add_error(this, message)
    BY <1>1 DEF insert_or_fail
  <2> QED BY <1>1, <2>1, ClosesAwaited
<1>2. CASE register_function
  <2>1. CASE insert_or_fail(this, "already defined")
    BY <1>1, <1>2, <2>1 DEF register_function
  <2>2. CASE Then(<< >>) /\ UNCHANGED << errors, resolved >> /\ KeepScope
    BY <1>2, <2>2, ClosesAwaited DEF register_function, KeepScope
  <2> QED BY <1>2, <2>1, <2>2 DEF register_function
<1>3. CASE declare_variable
  BY <1>1, <1>3 DEF declare_variable
<1>4. CASE validate_constant_declaration
  BY <1>1, <1>4 DEF validate_constant_declaration, Visiting
<1>5. CASE validate_argument
  BY <1>1, <1>5 DEF validate_argument, Visiting
<1> QED BY <1>2, <1>3, <1>4, <1>5

\* The list of a new frame has every node of one that is part of it.
LEMMA EntersAwaited ==
  ASSUME IInv, AwaitedInv, validate_function_declaration \/ check_condition \/ validate_else_block
  PROVE  AwaitedInv'
<1>1. CASE validate_function_declaration
  <2> DEFINE list == at(this).params \o at(this).body
  <2>1. /\ Now("visit") /\ at(this).kind = "FunctionDeclaration"
        /\ Enter(list, << >>) /\ UNCHANGED << ast, history, errors, resolved >>
    BY <1>1 DEF validate_function_declaration, Visiting
  <2>2. this \in DOMAIN ast.nodes /\ Head(Current.todo).do = "visit" /\ IsAst(ast)
    BY <2>1, HeadFacts DEF Now, IInv
  <2>3. ASSUME NEW c \in Range(at(this).body)
        PROVE  \E i \in DOMAIN list : list[i] = c
    <3>1. PICK p, b : p = at(this).params /\ b = at(this).body
      OBVIOUS
    <3>2. p \in Seq(Nat) /\ b \in Seq(Nat)
      BY <2>2, <3>1, AstFacts DEF AstNode
    <3>3. PICK i \in DOMAIN b : b[i] = c
      BY <3>1 DEF Range
    <3>4. Len(p) + i \in DOMAIN (p \o b) /\ (p \o b)[Len(p) + i] = b[i]
      BY <3>2, <3>3
    <3> QED BY <3>1, <3>3, <3>4
  <2>4. Range(at(this).operands) = {}
    <3>1. DOMAIN at(this).operands = {}
      BY <2>1, <2>2, NoOperands DEF Operands
    <3> QED BY <3>1 DEF Range
  <2> HIDE DEF list
  <2>5. Passes(<< >>, list)
    <3> SUFFICES ASSUME NEW n \in DOMAIN ast.nodes, at(n).kind \in Uses, Under(ast, n, this)
                 PROVE  \E i \in DOMAIN list : Under(ast, n, list[i])
      BY <2>2 DEF Passes, Awaits
    <3>1. n # this
      BY <2>1 DEF Uses
    <3>2. PICK c \in Range(at(this).body) : Under(ast, n, c)
      BY <2>1, <2>2, <2>4, <3>1, UseBelow
    <3> QED BY <2>3, <3>2
  <2>6. ErrorsStay /\ << >> \in Seq(Item)
    BY <2>1 DEF ErrorsStay
  <2> QED BY <2>1, <2>5, <2>6, EnterAwaited
<1>2. CASE check_condition
  <2> DEFINE items == IF has_else(at(this)) THEN << do("else_block", this) >> ELSE << >>
             condition == at(this).operands[1]
  <2>1. /\ Now("check_condition") /\ Head(Current.todo).do = "check_condition"
        /\ Enter(at(this).body, items) /\ UNCHANGED << ast, history, resolved >>
        /\ errors' = errors \/ add_error(condition, "condition should return bool")
    BY <1>2 DEF check_condition, Now
  <2>2. items \in Seq(Item)
    <3>1. do("else_block", this) \in Item
      BY <2>1, ItemType DEF do, Todo
    <3> QED BY <3>1
  <2>3. Left(items, "else_block", this) \/ Range(at(this).orelse) = {}
    BY DEF Left, has_else, do, Range
  <2> HIDE DEF items
  <2>4. ErrorsStay
    BY <2>1, ErrorsEither DEF ErrorsStay
  <2>5. Passes(items, at(this).body)
    <3> SUFFICES ASSUME NEW n \in DOMAIN ast.nodes, NEW c \in Range(at(this).body) \cup Range(at(this).orelse),
                        Under(ast, n, c)
                 PROVE  \/ \E what, m : Left(items, what, m) /\ Awaits(what, m, n)
                        \/ \E i \in DOMAIN at(this).body : Under(ast, n, at(this).body[i])
      BY <2>1 DEF Passes, Awaits
    <3>1. CASE c \in Range(at(this).body)
      BY <3>1 DEF Range
    <3>2. CASE c \in Range(at(this).orelse)
      BY <2>3, <3>2 DEF Awaits
    <3> QED BY <3>1, <3>2
  <2> QED BY <2>1, <2>2, <2>4, <2>5, EnterAwaited
<1>3. CASE validate_else_block
  <2>1. /\ Now("else_block") /\ Head(Current.todo).do = "else_block"
        /\ Enter(at(this).orelse, << >>) /\ UNCHANGED << ast, history, errors, resolved >>
    BY <1>3 DEF validate_else_block, Now
  <2>2. Passes(<< >>, at(this).orelse)
    BY <2>1 DEF Passes, Awaits, Range
  <2>3. ErrorsStay /\ << >> \in Seq(Item)
    BY <2>1 DEF ErrorsStay
  <2> QED BY <2>1, <2>2, <2>3, EnterAwaited
<1> QED BY <1>1, <1>2, <1>3

-------------------------------------------------------------------------------

\* At first everything is awaited, below an instruction.
LEMMA validateAwaited ==
  ASSUME IInv, validate
  PROVE  AwaitedInv'
<1>1. ast' = ast /\ IsAst(ast)
  BY DEF validate, IInv
<1> SUFFICES ASSUME NEW n \in DOMAIN ast.nodes
             PROVE  \E what, m : Pending(what, m)' /\ Awaits(what, m, n)
  BY <1>1 DEF AwaitedInv, Awaits, at
<1>2. PICK i \in DOMAIN ast.top : Under(ast, n, ast.top[i])
  BY <1>1, TopCovers
<1>3. PICK m : m = ast.top[i]
  OBVIOUS
<1>4. Pending("visit", m)'
  BY <1>1, <1>3, TopIsAwaited
<1> QED BY <1>2, <1>3, <1>4 DEF Awaits

\* It stays awaited while nothing is dropped.
LEMMA KeptAwaited ==
  ASSUME AwaitedInv, ast' = ast, round' = round, errors' = errors, resolved' = resolved,
         \A what, m : Pending(what, m) => Pending(what, m)'
  PROVE  AwaitedInv'
BY DEF AwaitedInv, Awaits, at

\* In the end nothing is awaited.
LEMMA finishAwaited ==
  ASSUME IInv, AwaitedInv, finish
  PROVE  AwaitedInv'
<1>1. Len(frames) = 1 /\ frames[1].todo = << >> /\ UNCHANGED << ast, history, errors, resolved >>
  BY DEF finish, Current
<1>2. DOMAIN frames = {1}
  BY <1>1 DEF IInv, FramesInv
<1>3. \A what, n : ~ Pending(what, n)
  BY <1>1, <1>2 DEF Pending
<1> QED BY <1>1, <1>3, KeptAwaited DEF history

\* Every use is found or awaited, through every step.
LEMMA AwaitedStep ==
  ASSUME IInv, AwaitedInv, [Next]_vars
  PROVE  AwaitedInv'
<1>1. CASE release_stack_frame
  BY <1>1, ReleaseKeeps, KeptAwaited DEF release_stack_frame, history
<1>2. CASE UNCHANGED vars
  <2>1. \A what, m : Pending(what, m) => Pending(what, m)'
    BY <1>2 DEF vars, Pending
  <2> QED BY <1>2, <2>1, KeptAwaited DEF vars
<1> QED BY <1>1, <1>2, validateAwaited, DeclarationsAwaited, EntersAwaited, OperatorsAwaited,
           validate_variable_assignmentAwaited, ChecksAwaited, validate_variable_lookupAwaited,
           validate_function_callAwaited, validate_call_argumentAwaited, finishAwaited
           DEF Next

-------------------------------------------------------------------------------
-------------------------------------------------------------------------------
(* Without an error, every declaration that was met is the first of its    *)
(* name in its list.                                                       *)

\* The item is going to enter the declaration in a table.
Enters(what, m, d) ==
    \/ what = "visit" /\ Under(ast, d, m) /\ (d = m => ~ is_function(at(m)))
    \/ what = "register" /\ d = m /\ is_function(at(m))
    \/ what = "declare_variable" /\ d = m
    \/ what = "check_condition" /\ \E c \in Range(at(m).body) \cup Range(at(m).orelse) : Under(ast, d, c)
    \/ what = "else_block" /\ \E c \in Range(at(m).orelse) : Under(ast, d, c)

DeclaredInv ==
    (round > 0 /\ errors = << >>) =>
      \A d \in DOMAIN ast.nodes :
        at(d).kind \in Declaration =>
          FirstInScope(ast, d) \/ \E what, m : Pending(what, m) /\ Enters(what, m, d)

\* The declarations the first item was going to enter are first, or are going
\* to be entered by what is left of it.
Introduces(items, list) ==
    \A d \in DOMAIN ast.nodes :
      (at(d).kind \in Declaration /\ Enters(Head(Current.todo).do, this, d)) =>
        \/ FirstInScope(ast, d)
        \/ \E what, m : Left(items, what, m) /\ Enters(what, m, d)
        \/ \E i \in DOMAIN list : Enters("visit", list[i], d)

LEMMA SameEnters ==
  ASSUME ast' = ast
  PROVE  /\ \A what, m, d : Enters(what, m, d)' <=> Enters(what, m, d)
         /\ \A d : FirstInScope(ast, d)' <=> FirstInScope(ast, d)
<1>1. \A d : FirstInScope(ast, d)' <=> FirstInScope(ast, d)
  OBVIOUS
<1>2. \A what, m, d : Enters(what, m, d)' <=> Enters(what, m, d)
  BY DEF Enters, at, is_function
<1> QED BY <1>1, <1>2

\* A declaration that is awaited stays so if the first item passes it on.
LEMMA IntroduceStep ==
  ASSUME IInv, DeclaredInv, Running, Current.todo # << >>, ast' = ast, round' = round, ErrorsStay,
         NEW items \in Seq(Item), NEW list, Works(items, list),
         errors' = << >> => Introduces(items, list)
  PROVE  DeclaredInv'
<1> SUFFICES ASSUME round > 0, errors' = << >>, NEW d \in DOMAIN ast.nodes, at(d).kind \in Declaration
             PROVE  FirstInScope(ast, d) \/ \E what, m : Pending(what, m)' /\ Enters(what, m, d)
  <2>1. /\ \A what, m, d : Enters(what, m, d)' <=> Enters(what, m, d)
        /\ \A d : FirstInScope(ast, d)' <=> FirstInScope(ast, d)
    BY SameEnters
  <2> QED BY <2>1 DEF DeclaredInv, at
<1>1. errors = << >>
  BY DEF ErrorsStay
<1>2. Keeps /\ (\A what, m : Left(items, what, m) => Pending(what, m)')
      /\ \A i \in DOMAIN list : Pending("visit", list[i])'
  BY WorksPending
<1>3. CASE \E what, m : Pending(what, m) /\ Enters(what, m, d)
  <2>1. PICK what, m : Pending(what, m) /\ Enters(what, m, d)
    BY <1>3
  <2>2. CASE Pending(what, m)'
    BY <2>1, <2>2
  <2>3. CASE Head(Current.todo).do = what /\ this = m
    <3>1. \/ FirstInScope(ast, d)
          \/ \E w, k : Left(items, w, k) /\ Enters(w, k, d)
          \/ \E i \in DOMAIN list : Enters("visit", list[i], d)
      BY <2>1, <2>3 DEF Introduces
    <3> QED BY <1>2, <3>1
  <2> QED BY <1>2, <2>1, <2>2, <2>3 DEF Keeps
<1> QED BY <1>1, <1>3 DEF DeclaredInv

\* A declaration below another node is below an argument or a statement of a
\* function, or below a statement of an if.
LEMMA DeclarationBelow ==
  ASSUME IsAst(ast), NEW n \in DOMAIN ast.nodes, NEW d \in DOMAIN ast.nodes, at(d).kind \in Declaration,
         Under(ast, d, n), d # n
  PROVE  \/ is_function(at(n)) /\ \E c \in Range(at(n).params) \cup Range(at(n).body) : Under(ast, d, c)
         \/ at(n).kind = "If" /\ \E c \in Range(at(n).body) \cup Range(at(n).orelse) : Under(ast, d, c)
<1>1. PICK c : Child(ast, c, n) /\ Under(ast, d, c)
  BY Descend
<1>2. c \in DOMAIN ast.nodes
  BY <1>1, ChildUnder
<1>3. c \notin Range(at(n).operands)
  <2> SUFFICES ASSUME c \in Range(at(n).operands) PROVE FALSE
    OBVIOUS
  <2>1. ast.nodes[c].kind \in Expression
    BY ListKinds DEF at
  <2>2. ast.nodes[d].kind \in Expression
    BY <1>1, <1>2, <2>1, ExpressionsBelow
  <2> QED BY <2>2 DEF at, Expression, Literal, Declaration
<1>4. c \in Range(at(n).params) \cup Range(at(n).body) \cup Range(at(n).orelse)
  BY <1>1, <1>3, AmongChildren DEF at
<1>5. /\ at(n).kind # "FunctionDeclaration" => Range(at(n).params) = {}
      /\ at(n).kind \notin {"FunctionDeclaration", "If"} => Range(at(n).body) = {}
      /\ at(n).kind # "If" => Range(at(n).orelse) = {}
  BY ListKinds DEF at
<1> QED BY <1>1, <1>4, <1>5 DEF is_function

\* An argument or a statement is no function.
LEMMA EnteredByVisit ==
  ASSUME IsAst(ast), NEW n \in DOMAIN ast.nodes, NEW d,
         NEW c \in Range(at(n).params) \cup Range(at(n).body) \cup Range(at(n).orelse), Under(ast, d, c)
  PROVE  Enters("visit", c, d)
<1>1. at(c).kind = "Argument" \/ at(c).kind \in Statement
  BY ListKinds DEF at
<1> QED BY <1>1 DEF Enters, is_function, Statement, Expression, Literal

-------------------------------------------------------------------------------
(* The list a declaration stands in. *)

LEMMA ScopeIs ==
  ASSUME NEW list \in ScopeLists(ast)
  PROVE  list = ast.top \/ \E o \in DOMAIN ast.nodes : Opens(o, list)
<1> DEFINE nodes == {ast.nodes[n] : n \in DOMAIN ast.nodes}
<1>1. CASE list \in {f.params \o f.body : f \in {g \in nodes : is_function(g)}}
  <2>1. PICK f \in nodes : is_function(f) /\ list = f.params \o f.body
    BY <1>1
  <2>2. PICK o \in DOMAIN ast.nodes : f = ast.nodes[o]
    OBVIOUS
  <2> QED BY <2>1, <2>2 DEF Opens, at
<1>2. CASE list \in {i.body : i \in {g \in nodes : g.kind = "If"}} \cup {i.orelse : i \in {g \in nodes : g.kind = "If"}}
  <2>1. PICK f \in nodes : f.kind = "If" /\ list \in {f.body, f.orelse}
    BY <1>2
  <2>2. PICK o \in DOMAIN ast.nodes : f = ast.nodes[o]
    OBVIOUS
  <2> QED BY <2>1, <2>2 DEF Opens, at, is_function
<1> QED BY <1>1, <1>2 DEF ScopeLists

LEMMA OpensChildren ==
  ASSUME IsAst(ast), NEW o \in DOMAIN ast.nodes, NEW list, Opens(o, list), NEW m \in Range(list)
  PROVE  Child(ast, m, o)
<1>1. PICK j \in DOMAIN list : list[j] = m
  BY DEF Range
<1> QED BY <1>1, OpenedScattered

LEMMA OneScope ==
  ASSUME IsAst(ast), NEW one \in ScopeLists(ast), NEW two \in ScopeLists(ast),
         NEW m, m \in Range(one), m \in Range(two)
  PROVE  one = two
<1>1. ASSUME NEW o \in DOMAIN ast.nodes, NEW list, Opens(o, list), m \in Range(list), m \in Range(ast.top)
      PROVE  FALSE
  <2>1. Child(ast, m, o)
    BY <1>1, OpensChildren
  <2>2. PICK i \in DOMAIN ast.top : ast.top[i] = m
    BY <1>1 DEF Range
  <2> QED BY <2>1, <2>2, TopHasNoParent
<1>2. CASE one = ast.top
  BY <1>1, <1>2, ScopeIs
<1>3. CASE two = ast.top
  BY <1>1, <1>3, ScopeIs
<1>4. CASE one # ast.top /\ two # ast.top
  <2>1. PICK o \in DOMAIN ast.nodes : Opens(o, one)
    BY <1>4, ScopeIs
  <2>2. PICK p \in DOMAIN ast.nodes : Opens(p, two)
    BY <1>4, ScopeIs
  <2>3. Child(ast, m, o) /\ Child(ast, m, p)
    BY <2>1, <2>2, OpensChildren
  <2>4. o = p
    BY <2>3, OneParent
  <2> QED BY <2>1, <2>2, <2>4, OneList
<1> QED BY <1>2, <1>3, <1>4

\* What stands in a table is the first declaration of its name in its list.
HeldFirst ==
    \A k \in DOMAIN frames : \A x \in Name : scopes[k][x] # NoNode => FirstInScope(ast, scopes[k][x])

LEMMA HeldAreFirst == IInv /\ PlacedInv => HeldFirst
<1> SUFFICES ASSUME IInv, PlacedInv, NEW k \in DOMAIN frames, NEW x \in Name, NEW d,
                    scopes[k][x] = d, d # NoNode
             PROVE  FirstInScope(ast, d)
  BY DEF HeldFirst
<1>1. PICK list, i, r, inner : Placed(k, list, i, r, inner)
  BY DEF PlacedInv
<1>2. Holds(scopes[k], list, r, Behind(list, i, inner)) /\ ListAt(k, list)
  BY <1>1 DEF Placed
<1>3. PICK j \in DOMAIN list : Declares(list, x, j)
  BY <1>2 DEF Holds
<1>4. d = FirstDeclared(ast, list, x)
  BY <1>2 DEF Holds
<1>5. Scattered(list) /\ list \in ScopeLists(ast) /\ IsAst(ast)
  BY <1>2, FrameList DEF IInv
<1>6. list[j] \in Declarations(ast, list, x)
  BY <1>3 DEF Declarations, Declares, at, Range
<1>7. d \in Declarations(ast, list, x)
  BY <1>4, <1>5, <1>6, FirstExists
<1>8. d \in Range(list) /\ ast.nodes[d].name = x
  BY <1>7 DEF Declarations
<1> QED BY <1>4, <1>5, <1>8, OneScope DEF FirstInScope

LEMMA HeldStayFirst == IInv' /\ PlacedInv' => HeldFirst'
BY HeldAreFirst, PTL

\* What is entered without an error is the first of its name in its list.
LEMMA EnteredIsFirst ==
  ASSUME IInv, IInv', PlacedInv', Running, Current.todo # << >>, NEW n \in DOMAIN ast.nodes, at(n).kind \in Declaration,
         NEW message, insert_or_fail(n, message), errors' = errors
  PROVE  FirstInScope(ast, n)
<1> DEFINE x == at(n).name
           L == Len(frames)
<1>1. x \in Name /\ n # NoNode
  BY AstFacts DEF IInv, Named
<1>2. Table!insert(x, n) /\ ast' = ast /\ Then(<< >>)
  BY DEF insert_or_fail
<1>3. /\ L \in DOMAIN scopes
      /\ scopes[L] \in [Name -> {NoNode} \cup DOMAIN ast.nodes]
      /\ scopes'[L] = IF scopes[L][x] = NoNode THEN [scopes[L] EXCEPT ![x] = n] ELSE scopes[L]
  BY <1>1, <1>2, InsertTable
<1>4. Table!is_new(x)
  <2> SUFFICES ASSUME add_error(n, message) PROVE FALSE
    BY DEF insert_or_fail
  <2>1. errors \in Seq([node : DOMAIN ast.nodes, message : Message])
    BY DEF IInv, ErrorsInv
  <2>2. Len(errors') = Len(errors) + 1 /\ Len(errors) \in Nat
    BY <2>1 DEF add_error
  <2> QED BY <2>2
<1>5. scopes[L][x] = NoNode
  BY <1>4, RunningScopes DEF Table!is_new
<1>6. scopes'[L][x] = n
  BY <1>1, <1>3, <1>5
<1>7. L \in DOMAIN frames'
  <2>1. << >> \in Seq(Item)
    OBVIOUS
  <2> QED BY <1>2, <2>1, ThenTodo
<1> HIDE DEF L, x
<1>8. HeldFirst'
  BY HeldStayFirst
<1> QED BY <1>1, <1>2, <1>6, <1>7, <1>8 DEF HeldFirst

\* A step within the current frame.
LEMMA ThenIntroduces ==
  ASSUME IInv, DeclaredInv, NEW what, Now(what), ast' = ast, history' = history, ErrorsStay,
         NEW items \in Seq(Item), Then(items),
         errors' = << >> => Introduces(items, << >>)
  PROVE  DeclaredInv'
<1>1. Running /\ Current.todo # << >> /\ round' = round
  BY DEF Now, history
<1>2. Works(items, << >>)
  BY <1>1, ThenWorks
<1> QED BY <1>1, <1>2, IntroduceStep

\* A step that opens a frame.
LEMMA EnterIntroduces ==
  ASSUME IInv, DeclaredInv, NEW what, Now(what), ast' = ast, history' = history, ErrorsStay,
         NEW items \in Seq(Item), NEW list, Enter(list, items), Introduces(items, list)
  PROVE  DeclaredInv'
<1>1. Running /\ Current.todo # << >> /\ round' = round
  BY DEF Now, history
<1>2. Works(items, list)
  BY <1>1, EnterWorks
<1> QED BY <1>1, <1>2, IntroduceStep

\* A step that reports an error.
LEMMA ErrorIntroduces ==
  ASSUME IInv, ast' = ast, NEW n, NEW message, add_error(n, message)
  PROVE  DeclaredInv'
<1>1. errors' # << >>
  BY ErrorsEither
<1> QED BY <1>1 DEF DeclaredInv

\* Items that enter no declaration.
Barren(what) ==
    \/ what \notin {"visit", "register", "declare_variable", "check_condition", "else_block"}
    \/ what = "visit" /\ at(this).kind \in Expression \cup {"VariableAssignment", "FunctionReturn"}
    \/ what = "register" /\ ~ is_function(at(this))

LEMMA BarrenIntroduces ==
  ASSUME IInv, DeclaredInv, NEW what, Now(what), Barren(what), ast' = ast, history' = history,
         \/ \E message : add_error(this, message)
         \/ errors' = errors /\ \E items \in Seq(Item) : Then(items)
  PROVE  DeclaredInv'
<1>1. Head(Current.todo).do = what /\ this \in DOMAIN ast.nodes /\ IsAst(ast)
  BY HeadFacts DEF Now, IInv
<1>2. CASE \E message : add_error(this, message)
  BY <1>2, ErrorIntroduces
<1>3. CASE errors' = errors /\ \E items \in Seq(Item) : Then(items)
  <2>1. PICK items \in Seq(Item) : Then(items)
    BY <1>3
  <2>2. ErrorsStay
    BY <1>3 DEF ErrorsStay
  <2>3. Introduces(items, << >>)
    <3> SUFFICES ASSUME NEW d \in DOMAIN ast.nodes, at(d).kind \in Declaration, Enters(what, this, d)
                 PROVE  FALSE
      BY <1>1 DEF Introduces
    <3>1. what = "visit" /\ at(this).kind \in Expression \cup {"VariableAssignment", "FunctionReturn"}
      BY DEF Barren, Enters
    <3>2. Under(ast, d, this) /\ d # this
      BY <3>1 DEF Enters, Expression, Literal, Declaration
    <3> QED BY <1>1, <3>1, <3>2, DeclarationBelow DEF Expression, Literal, is_function
  <2> QED BY <2>1, <2>2, <2>3, ThenIntroduces
<1> QED BY <1>2, <1>3

\* The operands of a declaration or an if have no declaration.
LEMMA OperandsIntroduce ==
  ASSUME IInv, NEW kind, Visiting(kind), NEW item \in Item, item.node = this, << kind, item.do >> \in Afterwards
  PROVE  Introduces(visits(at(this).operands) \o << item >>, << >>)
<1> DEFINE ops == at(this).operands
           items == visits(ops) \o << item >>
<1>1. /\ at(this).kind = kind /\ this \in DOMAIN ast.nodes /\ Head(Current.todo).do = "visit" /\ IsAst(ast)
  BY HeadFacts DEF Visiting, Now, IInv
<1>2. /\ DOMAIN items = 1 .. Len(ops) + 1 /\ Len(ops) \in Nat
      /\ items[Len(ops) + 1] = item
  BY <1>1, OperandTodo
<1> HIDE DEF items
<1>3. Left(items, item.do, this)
  <2>1. Len(ops) + 1 \in DOMAIN items
    BY <1>2
  <2> QED BY <1>2, <2>1 DEF Left
<1> SUFFICES ASSUME NEW d \in DOMAIN ast.nodes, at(d).kind \in Declaration, Under(ast, d, this)
             PROVE  Enters(item.do, this, d)
  BY <1>1, <1>3 DEF Introduces, Enters, items
<1>4. CASE d = this
  BY <1>1, <1>4 DEF Enters, Declaration, Afterwards
<1>5. CASE d # this
  <2>1. at(this).kind = "If" /\ \E c \in Range(at(this).body) \cup Range(at(this).orelse) : Under(ast, d, c)
    BY <1>1, <1>5, DeclarationBelow DEF Afterwards, is_function
  <2>2. item.do = "check_condition"
    BY <1>1, <2>1 DEF Afterwards
  <2> QED BY <2>1, <2>2 DEF Enters
<1> QED BY <1>4, <1>5

\* Visitors that visit the operands first.
LEMMA OperatorsIntroduce ==
  ASSUME IInv, DeclaredInv,
         \/ validate_variable_declaration \/ validate_binary_op \/ validate_unary_op
         \/ validate_function_return \/ validate_if
  PROVE  DeclaredInv'
<1>1. ASSUME NEW kind, NEW next, Visiting(kind), << kind, next >> \in Afterwards,
             KeepScope, UNCHANGED << errors, result_type, resolved >>,
             Then(visits(at(this).operands) \o << do(next, this) >>)
      PROVE  DeclaredInv'
  <2>1. Now("visit") /\ this \in DOMAIN ast.nodes /\ at(this).kind = kind
    BY <1>1, HeadFacts DEF Visiting, Now
  <2>2. this \in Nat /\ next \in Todo
    BY <1>1, <2>1, AstFacts DEF Afterwards, Todo, IInv
  <2>3. do(next, this) \in Item /\ do(next, this).node = this /\ do(next, this).do = next
    BY <2>2 DEF do, Item, NoNode
  <2>4. Introduces(visits(at(this).operands) \o << do(next, this) >>, << >>)
    BY <1>1, <2>1, <2>3, OperandsIntroduce
  <2>5. visits(at(this).operands) \o << do(next, this) >> \in Seq(Item)
    BY <2>1, <2>3, OperandTodo
  <2>6. ErrorsStay /\ ast' = ast /\ history' = history
    BY <1>1 DEF ErrorsStay, KeepScope
  <2> QED BY <1>1, <2>1, <2>4, <2>5, <2>6, ThenIntroduces
<1>2. CASE validate_variable_declaration
  BY <1>1, <1>2 DEF validate_variable_declaration, Afterwards
<1>3. CASE validate_binary_op
  BY <1>1, <1>3 DEF validate_binary_op, Afterwards
<1>4. CASE validate_unary_op
  BY <1>1, <1>4 DEF validate_unary_op, Afterwards
<1>5. CASE validate_function_return
  BY <1>1, <1>5 DEF validate_function_return, Afterwards
<1>6. CASE validate_if
  BY <1>1, <1>6 DEF validate_if, Afterwards
<1> QED BY <1>2, <1>3, <1>4, <1>5, <1>6

\* Expressions and assignments enter nothing.
LEMMA NamesIntroduce ==
  ASSUME IInv, DeclaredInv,
         validate_variable_assignment \/ validate_variable_lookup \/ validate_function_call
  PROVE  DeclaredInv'
<1> DEFINE found == Table!lookup(at(this).name)
<1>1. << >> \in Seq(Item)
  OBVIOUS
<1>2. CASE validate_variable_assignment
  <2> DEFINE check == [do |-> "check_assignment", node |-> this, entry |-> found]
             items == visits(at(this).operands) \o << check >>
  <2>1. /\ Visiting("VariableAssignment") /\ Now("visit") /\ at(this).kind = "VariableAssignment" /\ KeepScope
        /\ \/ Fail("not found")
           \/ Then(items) /\ UNCHANGED << errors, result_type >>
    BY <1>2 DEF validate_variable_assignment, Visiting
  <2>2. this \in DOMAIN ast.nodes /\ found \in {NoNode} \cup DOMAIN ast.nodes
    BY <2>1, LooksUp
  <2>3. check \in Item
    BY <2>1, <2>2, ItemType DEF Todo
  <2> HIDE DEF check, found
  <2>4. items \in Seq(Item)
    BY <2>2, <2>3, OperandTodo
  <2>5. Barren("visit") /\ ast' = ast /\ history' = history
    BY <2>1 DEF Barren, KeepScope
  <2> HIDE DEF items
  <2> QED BY <2>1, <2>4, <2>5, BarrenIntroduces DEF Fail
<1>3. CASE validate_variable_lookup
  <2>1. /\ Now("visit") /\ at(this).kind = "VariableLookup" /\ KeepScope
        /\ \/ Fail("not found")
           \/ Fail("incompatible element found")
           \/ Then(<< >>) /\ errors' = errors
    BY <1>3 DEF validate_variable_lookup, Visiting
  <2>2. Barren("visit") /\ ast' = ast /\ history' = history
    BY <2>1 DEF Barren, KeepScope, Expression
  <2> QED BY <1>1, <2>1, <2>2, BarrenIntroduces DEF Fail
<1>4. CASE validate_function_call
  <2> DEFINE args == at(this).operands
             params == at(found).params
             items == [i \in DOMAIN args |-> [do |-> "argument", node |-> args[i], entry |-> params[i]]]
  <2>1. /\ Visiting("FunctionCall") /\ Now("visit") /\ at(this).kind = "FunctionCall" /\ KeepScope
        /\ \/ Fail("not found")
           \/ Fail("is not a function")
           \/ add_error(this, "wrong argument count")
           \/ found # NoNode /\ Len(args) = Len(params) /\ Then(items) /\ errors' = errors
    BY <1>4 DEF validate_function_call, Visiting
  <2>2. this \in DOMAIN ast.nodes /\ found \in {NoNode} \cup DOMAIN ast.nodes
    BY <2>1, LooksUp
  <2>3. Barren("visit") /\ ast' = ast /\ history' = history
    BY <2>1 DEF Barren, KeepScope, Expression
  <2>4. found # NoNode /\ Len(args) = Len(params) => items \in Seq(Item)
    BY <2>2, CallTodo
  <2> HIDE DEF items, found
  <2> QED BY <2>1, <2>3, <2>4, BarrenIntroduces DEF Fail
<1> QED BY <1>2, <1>3, <1>4

\* Nor do the checks after a visit.
LEMMA ChecksIntroduce ==
  ASSUME IInv, DeclaredInv,
         \/ check_assignment \/ check_argument \/ check_return \/ type_binary_op \/ type_unary_op
         \/ validate_literal \/ validate_call_argument
  PROVE  DeclaredInv'
<1>0. << >> \in Seq(Item)
  OBVIOUS
<1>1. CASE check_assignment
  <2>1. Barren("check_assignment")
    BY DEF Barren
  <2> QED BY <1>0, <1>1, <2>1, BarrenIntroduces DEF check_assignment, Assign, KeepScope
<1>2. CASE check_argument
  <2>1. Barren("check_argument")
    BY DEF Barren
  <2> QED BY <1>0, <1>2, <2>1, BarrenIntroduces DEF check_argument, Assign, KeepScope
<1>3. CASE check_return
  <2>1. Barren("check_return")
    BY DEF Barren
  <2> QED BY <1>0, <1>3, <2>1, BarrenIntroduces DEF check_return, Assign, Fail, KeepScope
<1>4. CASE type_binary_op
  <2>1. Barren("type_binary_op")
    BY DEF Barren
  <2> QED BY <1>0, <1>4, <2>1, BarrenIntroduces DEF type_binary_op, Fail, KeepScope
<1>5. CASE type_unary_op
  <2>1. Barren("type_unary_op")
    BY DEF Barren
  <2> QED BY <1>0, <1>5, <2>1, BarrenIntroduces DEF type_unary_op, Fail, KeepScope
<1>6. CASE validate_literal
  <2>1. Barren("visit")
    BY <1>6 DEF Barren, validate_literal, Expression
  <2> QED BY <1>0, <1>6, <2>1, BarrenIntroduces DEF validate_literal, KeepScope
<1>7. CASE validate_call_argument
  <2> DEFINE check == [do |-> "check_argument", node |-> this, entry |-> held_entry]
             items == << do("visit", this), check >>
  <2>1. /\ Now("argument") /\ KeepScope /\ UNCHANGED << errors, resolved >> /\ Then(items)
    BY <1>7 DEF validate_call_argument
  <2>2. Fits(ast, Head(Current.todo)) /\ Head(Current.todo).do = "argument"
    BY <2>1, InnerHead DEF Now
  <2>3. held_entry \in DOMAIN ast.nodes
    BY <2>2 DEF Fits, held_entry
  <2>4. do("visit", this) \in Item /\ check \in Item
    BY <2>1, <2>3, ItemType DEF do, Todo
  <2>5. items \in Seq(Item)
    BY <2>4
  <2>6. Barren("argument")
    BY DEF Barren
  <2> HIDE DEF items
  <2> QED BY <2>1, <2>5, <2>6, BarrenIntroduces DEF KeepScope
<1> QED BY <1>1, <1>2, <1>3, <1>4, <1>5, <1>6, <1>7

\* What is entered is the first of its name, or reported.
LEMMA DeclarationsIntroduce ==
  ASSUME IInv, DeclaredInv, IInv', PlacedInv',
         \/ register_function \/ declare_variable \/ validate_constant_declaration \/ validate_argument
  PROVE  DeclaredInv'
<1>1. ASSUME NEW what, Now(what), NEW message, insert_or_fail(this, message),
             \/ what \in {"register", "declare_variable"}
             \/ what = "visit" /\ at(this).kind \in {"Argument", "ConstantDeclaration"}
      PROVE  DeclaredInv'
  <2>1. /\ ast' = ast /\ history' = history /\ Then(<< >>) /\ << >> \in Seq(Item)
        /\ errors' = errors \/ add_error(this, message)
        /\ Running /\ Current.todo # << >> /\ Head(Current.todo).do = what
        /\ this \in DOMAIN ast.nodes /\ IsAst(ast)
    BY <1>1, HeadFacts DEF insert_or_fail, Now, IInv
  <2>2. CASE add_error(this, message)
    BY <2>1, <2>2, ErrorIntroduces
  <2>3. CASE errors' = errors
    <3>1. ASSUME NEW d \in DOMAIN ast.nodes, at(d).kind \in Declaration, Enters(what, this, d)
          PROVE  d = this
      <4>1. CASE what \in {"register", "declare_variable"}
        BY <3>1, <4>1 DEF Enters
      <4>2. CASE what = "visit" /\ at(this).kind \in {"Argument", "ConstantDeclaration"}
        BY <2>1, <3>1, <4>2, DeclarationBelow DEF Enters, is_function
      <4> QED BY <1>1, <4>1, <4>2
    <3>2. at(this).kind \in Declaration => FirstInScope(ast, this)
      BY <1>1, <2>1, <2>3, EnteredIsFirst
    <3>3. Introduces(<< >>, << >>)
      BY <2>1, <3>1, <3>2 DEF Introduces
    <3>4. ErrorsStay
      BY <2>3 DEF ErrorsStay
    <3> QED BY <1>1, <2>1, <3>3, <3>4, ThenIntroduces
  <2> QED BY <2>1, <2>2, <2>3
<1>2. CASE register_function
  <2>1. CASE insert_or_fail(this, "already defined")
    BY <1>1, <1>2, <2>1 DEF register_function
  <2>2. CASE ~ is_function(at(this)) /\ Then(<< >>) /\ UNCHANGED << errors, resolved >> /\ KeepScope
    <3>1. Barren("register") /\ << >> \in Seq(Item)
      BY <2>2 DEF Barren
    <3> QED BY <1>2, <2>2, <3>1, BarrenIntroduces DEF register_function, KeepScope
  <2> QED BY <1>2, <2>1, <2>2 DEF register_function
<1>3. CASE declare_variable
  BY <1>1, <1>3 DEF declare_variable
<1>4. CASE validate_constant_declaration
  BY <1>1, <1>4 DEF validate_constant_declaration, Visiting
<1>5. CASE validate_argument
  BY <1>1, <1>5 DEF validate_argument, Visiting
<1> QED BY <1>2, <1>3, <1>4, <1>5

\* The list of a new frame has every declaration of the part it stands for.
LEMMA EntersIntroduce ==
  ASSUME IInv, DeclaredInv, validate_function_declaration \/ check_condition \/ validate_else_block
  PROVE  DeclaredInv'
<1>1. CASE validate_function_declaration
  <2> DEFINE list == at(this).params \o at(this).body
  <2>1. /\ Now("visit") /\ at(this).kind = "FunctionDeclaration"
        /\ Enter(list, << >>) /\ UNCHANGED << ast, history, errors >>
    BY <1>1 DEF validate_function_declaration, Visiting
  <2>2. this \in DOMAIN ast.nodes /\ Head(Current.todo).do = "visit" /\ IsAst(ast)
    BY <2>1, HeadFacts DEF Now, IInv
  <2>3. ASSUME NEW c \in Range(at(this).params) \cup Range(at(this).body)
        PROVE  \E i \in DOMAIN list : list[i] = c
    <3>1. PICK p, b : p = at(this).params /\ b = at(this).body
      OBVIOUS
    <3>2. p \in Seq(Nat) /\ b \in Seq(Nat)
      BY <2>2, <3>1, AstFacts DEF AstNode
    <3>3. /\ DOMAIN p = 1 .. Len(p) /\ DOMAIN b = 1 .. Len(b) /\ DOMAIN (p \o b) = 1 .. Len(p) + Len(b)
          /\ Len(p) \in Nat /\ Len(b) \in Nat
          /\ \A j \in 1 .. Len(p) : (p \o b)[j] = p[j]
          /\ \A j \in 1 .. Len(b) : (p \o b)[Len(p) + j] = b[j]
      BY <3>2, Joins
    <3>4. CASE c \in Range(p)
      <4>1. PICK i \in DOMAIN p : p[i] = c
        BY <3>4 DEF Range
      <4>2. i \in DOMAIN (p \o b) /\ (p \o b)[i] = c
        BY <3>3, <4>1
      <4> QED BY <3>1, <4>2
    <3>5. CASE c \in Range(b)
      <4>1. PICK i \in DOMAIN b : b[i] = c
        BY <3>5 DEF Range
      <4>2. Len(p) + i \in DOMAIN (p \o b) /\ (p \o b)[Len(p) + i] = c
        BY <3>3, <4>1
      <4> QED BY <3>1, <4>2
    <3> QED BY <3>1, <3>4, <3>5
  <2> HIDE DEF list
  <2>4. Introduces(<< >>, list)
    <3> SUFFICES ASSUME NEW d \in DOMAIN ast.nodes, at(d).kind \in Declaration, Under(ast, d, this), d # this
                 PROVE  \E i \in DOMAIN list : Enters("visit", list[i], d)
      BY <2>1, <2>2 DEF Introduces, Enters, is_function
    <3>1. PICK c \in Range(at(this).params) \cup Range(at(this).body) : Under(ast, d, c)
      BY <2>1, <2>2, DeclarationBelow
    <3>2. Enters("visit", c, d)
      BY <2>2, <3>1, EnteredByVisit
    <3> QED BY <2>3, <3>1, <3>2
  <2>5. ErrorsStay /\ << >> \in Seq(Item)
    BY <2>1 DEF ErrorsStay
  <2> QED BY <2>1, <2>4, <2>5, EnterIntroduces
<1>2. CASE check_condition
  <2> DEFINE items == IF has_else(at(this)) THEN << do("else_block", this) >> ELSE << >>
             condition == at(this).operands[1]
  <2>1. /\ Now("check_condition") /\ Head(Current.todo).do = "check_condition"
        /\ Enter(at(this).body, items) /\ UNCHANGED << ast, history >>
        /\ errors' = errors \/ add_error(condition, "condition should return bool")
    BY <1>2 DEF check_condition, Now
  <2>2. items \in Seq(Item)
    <3>1. do("else_block", this) \in Item
      BY <2>1, ItemType DEF do, Todo
    <3> QED BY <3>1
  <2>3. Left(items, "else_block", this) \/ Range(at(this).orelse) = {}
    BY DEF Left, has_else, do, Range
  <2>4. this \in DOMAIN ast.nodes /\ IsAst(ast)
    BY <2>1, HeadFacts DEF Now, IInv
  <2> HIDE DEF items
  <2>5. ErrorsStay
    BY <2>1, ErrorsEither DEF ErrorsStay
  <2>6. Introduces(items, at(this).body)
    <3> SUFFICES ASSUME NEW d \in DOMAIN ast.nodes, NEW c \in Range(at(this).body) \cup Range(at(this).orelse),
                        Under(ast, d, c)
                 PROVE  \/ \E what, m : Left(items, what, m) /\ Enters(what, m, d)
                        \/ \E i \in DOMAIN at(this).body : Enters("visit", at(this).body[i], d)
      BY <2>1 DEF Introduces, Enters
    <3>1. CASE c \in Range(at(this).body)
      <4>1. Enters("visit", c, d)
        BY <2>4, EnteredByVisit
      <4> QED BY <3>1, <4>1 DEF Range
    <3>2. CASE c \in Range(at(this).orelse)
      BY <2>3, <3>2 DEF Enters
    <3> QED BY <3>1, <3>2
  <2> QED BY <2>1, <2>2, <2>5, <2>6, EnterIntroduces
<1>3. CASE validate_else_block
  <2>1. /\ Now("else_block") /\ Head(Current.todo).do = "else_block"
        /\ Enter(at(this).orelse, << >>) /\ UNCHANGED << ast, history, errors >>
    BY <1>3 DEF validate_else_block, Now
  <2>2. this \in DOMAIN ast.nodes /\ IsAst(ast)
    BY <2>1, HeadFacts DEF Now, IInv
  <2>3. Introduces(<< >>, at(this).orelse)
    <3> SUFFICES ASSUME NEW d \in DOMAIN ast.nodes, NEW c \in Range(at(this).orelse), Under(ast, d, c)
                 PROVE  \E i \in DOMAIN at(this).orelse : Enters("visit", at(this).orelse[i], d)
      BY <2>1 DEF Introduces, Enters
    <3>1. Enters("visit", c, d)
      BY <2>2, EnteredByVisit
    <3> QED BY <3>1 DEF Range
  <2>4. ErrorsStay /\ << >> \in Seq(Item)
    BY <2>1 DEF ErrorsStay
  <2> QED BY <2>1, <2>3, <2>4, EnterIntroduces
<1> QED BY <1>1, <1>2, <1>3

\* At first everything is going to be entered, below an instruction.
LEMMA validateIntroduces ==
  ASSUME IInv, validate
  PROVE  DeclaredInv'
<1>1. ast' = ast /\ IsAst(ast)
  BY DEF validate, IInv
<1> SUFFICES ASSUME NEW d \in DOMAIN ast.nodes
             PROVE  \E what, m : Pending(what, m)' /\ Enters(what, m, d)
  <2>1. \A what, m, e : Enters(what, m, e)' <=> Enters(what, m, e)
    BY <1>1, SameEnters
  <2> QED BY <1>1, <2>1 DEF DeclaredInv
<1>2. PICK i \in DOMAIN ast.top : Under(ast, d, ast.top[i])
  BY <1>1, TopCovers
<1>3. PICK m : m = ast.top[i]
  OBVIOUS
<1>4. Pending("visit", m)' /\ Pending("register", m)'
  BY <1>1, <1>3, TopIsAwaited
<1> QED BY <1>2, <1>3, <1>4 DEF Enters

\* It is still going to be while nothing is dropped.
LEMMA KeptIntroduced ==
  ASSUME DeclaredInv, ast' = ast, round' = round, errors' = errors,
         \A what, m : Pending(what, m) => Pending(what, m)'
  PROVE  DeclaredInv'
<1>1. /\ \A what, m, d : Enters(what, m, d)' <=> Enters(what, m, d)
      /\ \A d : FirstInScope(ast, d)' <=> FirstInScope(ast, d)
  BY SameEnters
<1> QED BY <1>1 DEF DeclaredInv, at

\* Every declaration is the first of its name in its list, or still to be
\* entered, through every step without an error.
LEMMA DeclaredStep ==
  ASSUME IInv, PlacedInv, DeclaredInv, [Next]_vars, IInv'
  PROVE  DeclaredInv'
<1>1. CASE release_stack_frame
  BY <1>1, ReleaseKeeps, KeptIntroduced DEF release_stack_frame, history
<1>2. CASE UNCHANGED vars
  <2>1. \A what, m : Pending(what, m) => Pending(what, m)'
    BY <1>2 DEF vars, Pending
  <2> QED BY <1>2, <2>1, KeptIntroduced DEF vars
<1>3. CASE finish
  <2>1. Len(frames) = 1 /\ frames[1].todo = << >> /\ UNCHANGED << ast, history, errors >>
    BY <1>3 DEF finish, Current
  <2>2. DOMAIN frames = {1}
    BY <2>1 DEF IInv, FramesInv
  <2>3. \A what, n : ~ Pending(what, n)
    BY <2>1, <2>2 DEF Pending
  <2> QED BY <2>1, <2>3, KeptIntroduced DEF history
<1>4. PlacedInv'
  BY PlacedStep
<1> QED BY <1>1, <1>2, <1>3, <1>4, validateIntroduces, DeclarationsIntroduce, EntersIntroduce,
           OperatorsIntroduce, NamesIntroduce, ChecksIntroduce
           DEF Next

(* What a call was found to mean is a function. *)
CalledInv ==
    errors = << >> =>
      \A n \in DOMAIN ast.nodes :
        (at(n).kind = "FunctionCall" /\ resolved[n] # NoNode) => is_function(at(resolved[n]))

LEMMA SameCalled ==
  ASSUME CalledInv, ast' = ast, resolved' = resolved, ErrorsStay
  PROVE  CalledInv'
BY DEF CalledInv, ErrorsStay, at

\* A visitor of another node finds no function of a call.
LEMMA OtherCalled ==
  ASSUME IInv, CalledInv, ast' = ast, ErrorsStay, NEW entry,
         at(this).kind # "FunctionCall", resolved' = [resolved EXCEPT ![this] = entry]
  PROVE  CalledInv'
<1> SUFFICES ASSUME errors' = << >>, NEW n \in DOMAIN ast.nodes, at(n).kind = "FunctionCall",
                    resolved'[n] # NoNode
             PROVE  is_function(at(resolved'[n]))
  BY DEF CalledInv, at
<1>1. resolved'[n] = resolved[n]
  BY DEF IInv, ResolvedInv
<1> QED BY <1>1 DEF CalledInv, ErrorsStay

\* The call that is visited reports an error unless it found a function.
LEMMA validate_function_callCalls ==
  ASSUME IInv, CalledInv, validate_function_call
  PROVE  CalledInv'
<1>1. PICK entry : entry = Table!lookup(at(this).name)
  OBVIOUS
<1>2. /\ ast' = ast /\ resolved' = [resolved EXCEPT ![this] = entry]
      /\ \/ \E message : add_error(this, message)
         \/ entry # NoNode /\ is_function(at(entry)) /\ errors' = errors
  BY <1>1 DEF validate_function_call, KeepScope, Fail
<1>3. CASE \E message : add_error(this, message)
  <2>1. errors' # << >>
    BY <1>2, <1>3, ErrorsEither
  <2> QED BY <2>1 DEF CalledInv
<1>4. CASE entry # NoNode /\ is_function(at(entry)) /\ errors' = errors
  <2> SUFFICES ASSUME errors' = << >>, NEW n \in DOMAIN ast.nodes, at(n).kind = "FunctionCall",
                      resolved'[n] # NoNode
               PROVE  is_function(at(resolved'[n]))
    BY <1>2 DEF CalledInv, at
  <2>1. n \in DOMAIN resolved
    BY DEF IInv, ResolvedInv
  <2>2. CASE n = this
    BY <1>2, <1>4, <2>1, <2>2
  <2>3. CASE n # this
    BY <1>2, <1>4, <2>1, <2>3 DEF CalledInv
  <2> QED BY <2>2, <2>3
<1> QED BY <1>2, <1>3, <1>4

LEMMA CalledStep ==
  ASSUME IInv, CalledInv, [Next]_vars
  PROVE  CalledInv'
<1>1. CASE validate
  <2>1. \A n \in DOMAIN ast.nodes : resolved'[n] = NoNode
    BY <1>1 DEF validate
  <2> QED BY <1>1, <2>1 DEF validate, CalledInv, at
<1>2. CASE validate_function_call
  BY <1>2, validate_function_callCalls
<1>3. CASE validate_variable_assignment \/ validate_variable_lookup
  <2>1. ast' = ast /\ at(this).kind # "FunctionCall"
    BY <1>3 DEF validate_variable_assignment, validate_variable_lookup, KeepScope, Visiting
  <2>2. \E entry : resolved' = [resolved EXCEPT ![this] = entry]
    BY <1>3 DEF validate_variable_assignment, validate_variable_lookup
  <2>3. errors' = errors \/ \E message : add_error(this, message)
    BY <1>3 DEF validate_variable_assignment, validate_variable_lookup, Fail
  <2>4. ErrorsStay
    BY <2>1, <2>3, ErrorsEither DEF ErrorsStay
  <2> QED BY <2>1, <2>2, <2>4, OtherCalled
<1>4. CASE register_function \/ validate_function_declaration \/ validate_constant_declaration
           \/ validate_argument \/ declare_variable
  <2>1. ast' = ast /\ resolved' = resolved
    BY <1>4 DEF register_function, validate_function_declaration, validate_constant_declaration,
         validate_argument, declare_variable, insert_or_fail, KeepScope
  <2>2. errors' = errors \/ \E message : add_error(this, message)
    BY <1>4 DEF register_function, validate_function_declaration, validate_constant_declaration,
         validate_argument, declare_variable, insert_or_fail
  <2>3. ErrorsStay
    BY <2>1, <2>2, ErrorsEither DEF ErrorsStay
  <2> QED BY <2>1, <2>3, SameCalled
<1>5. CASE validate_variable_declaration \/ validate_literal \/ validate_binary_op \/ validate_unary_op
           \/ validate_call_argument \/ validate_function_return \/ validate_if
  BY <1>5, SameCalled
     DEF validate_variable_declaration, validate_literal, validate_binary_op, validate_unary_op,
         validate_call_argument, validate_function_return, validate_if, KeepScope, ErrorsStay
<1>6. CASE check_assignment \/ type_binary_op \/ type_unary_op \/ check_argument \/ check_return
  <2>1. ast' = ast /\ resolved' = resolved
    BY <1>6 DEF check_assignment, type_binary_op, type_unary_op, check_argument, check_return, KeepScope
  <2>2. errors' = errors \/ \E message : add_error(this, message)
    BY <1>6 DEF check_assignment, type_binary_op, type_unary_op, check_argument, check_return, Fail, Assign
  <2>3. ErrorsStay
    BY <2>1, <2>2, ErrorsEither DEF ErrorsStay
  <2> QED BY <2>1, <2>3, SameCalled
<1>7. CASE check_condition
  <2>1. ast' = ast /\ resolved' = resolved
    BY <1>7 DEF check_condition
  <2>2. errors' = errors \/ \E n, message : add_error(n, message)
    BY <1>7 DEF check_condition
  <2>3. ErrorsStay
    BY <2>1, <2>2, ErrorsEither DEF ErrorsStay
  <2> QED BY <2>1, <2>3, SameCalled
<1>8. CASE validate_else_block \/ release_stack_frame \/ finish
  BY <1>8, SameCalled DEF validate_else_block, release_stack_frame, finish, ErrorsStay
<1>9. CASE UNCHANGED vars
  BY <1>9, SameCalled DEF vars, ErrorsStay
<1> QED BY <1>1, <1>2, <1>3, <1>4, <1>5, <1>6, <1>7, <1>8, <1>9 DEF Next

-------------------------------------------------------------------------------
(* Where a use and a declaration stand. *)

\* Below a node, everything but the node itself has its parent below it too.
LEMMA ParentWithin ==
  ASSUME IsAst(ast), NEW m \in DOMAIN ast.nodes, NEW n, Under(ast, n, m), n # m
  PROVE  \E p \in DOMAIN ast.nodes : Child(ast, n, p) /\ Under(ast, p, m)
<1> DEFINE T == {k \in DOMAIN ast.nodes : Under(ast, n, k) /\ n # k /\ Under(ast, k, m)}
<1>1. m \in T
  BY UnderFacts
<1>2. PICK k \in T : \A y \in T : k <= y
  <2>1. T \subseteq Nat
    BY UnderFacts
  <2> HIDE DEF T
  <2> QED BY <1>1, <2>1, Least
<1>3. PICK c : Child(ast, c, k) /\ Under(ast, n, c)
  BY <1>2, Descend
<1>4. c \in DOMAIN ast.nodes /\ c < k /\ Under(ast, c, m) /\ c \in Nat /\ k \in Nat
  BY <1>2, <1>3, ChildUnder, UnderFacts, Transitive
<1>5. c = n
  BY <1>2, <1>3, <1>4
<1> QED BY <1>2, <1>3, <1>5

\* A function is an instruction.
LEMMA FunctionsAreTop ==
  ASSUME IsAst(ast), NEW f \in DOMAIN ast.nodes, is_function(at(f))
  PROVE  \E i \in DOMAIN ast.top : ast.top[i] = f
<1>1. PICK i \in DOMAIN ast.top : ast.top[i] \in DOMAIN ast.nodes /\ Under(ast, f, ast.top[i])
  BY TopCovers
<1>2. CASE f # ast.top[i]
  <2>1. PICK p \in DOMAIN ast.nodes : Child(ast, f, p)
    BY <1>1, <1>2, ParentWithin
  <2>2. at(f).kind \in Expression \cup {"Argument"} \cup Statement
    BY <2>1, AmongChildren, ListKinds DEF at
  <2> QED BY <2>2 DEF is_function, Expression, Statement, Literal
<1> QED BY <1>1, <1>2

\* No node is below two functions.
LEMMA OneFunction ==
  ASSUME IsAst(ast), NEW f \in DOMAIN ast.nodes, is_function(at(f)),
         NEW g \in DOMAIN ast.nodes, is_function(at(g)), NEW n, Under(ast, n, f), Under(ast, n, g)
  PROVE  f = g
<1>1. PICK i \in DOMAIN ast.top : ast.top[i] = f
  BY FunctionsAreTop
<1>2. PICK j \in DOMAIN ast.top : ast.top[j] = g
  BY FunctionsAreTop
<1> QED BY <1>1, <1>2, TopApart

\* So it is the function that encloses it.
LEMMA Enclosing ==
  ASSUME IsAst(ast), NEW f \in DOMAIN ast.nodes, is_function(at(f)), NEW n, Under(ast, n, f)
  PROVE  EnclosingFunction(ast, n) = f
<1> DEFINE g == EnclosingFunction(ast, n)
<1>1. g \in DOMAIN ast.nodes /\ is_function(at(g)) /\ Under(ast, n, g)
  BY DEF EnclosingFunction, at
<1> HIDE DEF g
<1>2. g = f
  BY <1>1, OneFunction
<1> QED BY <1>2 DEF g

\* Whatever else a node is below is in the function, too.
LEMMA InFunction ==
  ASSUME IsAst(ast), NEW f \in DOMAIN ast.nodes, is_function(at(f)), NEW n, Under(ast, n, f),
         NEW p \in DOMAIN ast.nodes, Under(ast, n, p)
  PROVE  Under(ast, p, f)
<1>1. /\ n \in Nat /\ p \in Nat /\ f \in Nat /\ FirstOf(ast)[f] \in Nat /\ FirstOf(ast)[p] \in Nat
      /\ FirstOf(ast)[f] <= n /\ n <= f /\ FirstOf(ast)[p] <= n /\ n <= p
  BY UnderFacts, TreeFacts DEF Under
<1>2. CASE p <= f
  BY <1>1, <1>2 DEF Under
<1>3. CASE f < p
  <2>1. Under(ast, f, p) /\ f # p
    BY <1>1, <1>3 DEF Under
  <2>2. PICK o \in DOMAIN ast.nodes : Child(ast, f, o)
    BY <2>1, ParentWithin
  <2>3. PICK i \in DOMAIN ast.top : ast.top[i] = f
    BY FunctionsAreTop
  <2> QED BY <2>2, <2>3, TopHasNoParent
<1> QED BY <1>1, <1>2, <1>3

\* Every use stands in a function.
LEMMA StandsInFunction ==
  ASSUME IsAst(ast), NEW n \in DOMAIN ast.nodes, at(n).kind \in Uses
  PROVE  \E f \in DOMAIN ast.nodes : is_function(at(f)) /\ Under(ast, n, f)
<1>1. PICK i \in DOMAIN ast.top : ast.top[i] \in DOMAIN ast.nodes /\ Under(ast, n, ast.top[i])
  BY TopCovers
<1>2. PICK f : f = ast.top[i]
  OBVIOUS
<1>3. f \in DOMAIN ast.nodes /\ at(f).kind \in TopLevel
  <2>1. ast.top \in Seq({m \in 1 .. Len(ast.nodes) : ast.nodes[m].kind \in TopLevel})
    BY DEF IsAst
  <2> QED BY <1>1, <1>2, <2>1 DEF at
<1>4. CASE at(f).kind = "ConstantDeclaration"
  <2>1. n # f
    BY <1>4 DEF Uses
  <2>2. PICK c : Child(ast, c, f) /\ Under(ast, n, c)
    BY <1>1, <1>2, <2>1, Descend
  <2>3. c \in Range(at(f).operands) \cup Range(at(f).params) \cup Range(at(f).body) \cup Range(at(f).orelse)
    BY <1>3, <2>2, AmongChildren DEF at
  <2>4. Range(at(f).params) = {} /\ Range(at(f).body) = {} /\ Range(at(f).orelse) = {}
    BY <1>3, <1>4, ListKinds DEF at
  <2>5. at(f).operands \in Seq({m \in 1 .. f - 1 : ast.nodes[m].kind \in Literal})
    BY <1>3, <1>4 DEF IsAst, at
  <2>6. at(c).kind \in Literal
    <3> DEFINE L == {m \in 1 .. f - 1 : ast.nodes[m].kind \in Literal}
    <3>1. PICK list : list = at(f).operands
      OBVIOUS
    <3>2. list \in Seq(L) /\ c \in Range(list)
      BY <2>3, <2>4, <2>5, <3>1
    <3>3. c \in L
      <4> HIDE DEF L
      <4> QED BY <3>2 DEF Range
    <3> QED BY <3>3 DEF at
  <2>7. c \in DOMAIN ast.nodes
    BY <1>3, <2>2, ChildUnder
  <2>8. n = c
    BY <2>2, <2>6, <2>7, Childless DEF at
  <2> QED BY <2>6, <2>8 DEF Uses, Literal
<1> QED BY <1>1, <1>2, <1>3, <1>4 DEF TopLevel, is_function

\* The nodes of a scope come in order, and apart.
LEMMA ScopeScattered ==
  ASSUME IsAst(ast), NEW list \in ScopeLists(ast)
  PROVE  Scattered(list)
BY ScopeIs, TopScattered, OpenedScattered

\* An earlier node of a scope is done before the later ones begin.
LEMMA ScopeInOrder ==
  ASSUME IsAst(ast), NEW list \in ScopeLists(ast), NEW d \in Range(list), NEW m \in Range(list), d < m
  PROVE  d < FirstOf(ast)[m] /\ d \in DOMAIN ast.nodes /\ m \in DOMAIN ast.nodes
<1>1. Scattered(list)
  BY ScopeScattered
<1>2. PICK i \in DOMAIN list : list[i] = d
  BY DEF Range
<1>3. PICK j \in DOMAIN list : list[j] = m
  BY DEF Range
<1>4. d \in DOMAIN ast.nodes /\ m \in DOMAIN ast.nodes
  BY <1>1, <1>2, <1>3 DEF Scattered
<1>5. d \in Nat /\ m \in Nat /\ FirstOf(ast)[m] \in Nat /\ Under(ast, d, d)
  BY <1>4, UnderFacts, TreeFacts
<1>6. ~ Under(ast, d, m)
  <2> SUFFICES ASSUME Under(ast, d, m) PROVE FALSE
    OBVIOUS
  <2>1. i = j
    BY <1>1, <1>2, <1>3, <1>5 DEF Scattered
  <2> QED BY <1>2, <1>3, <1>5, <2>1
<1> QED BY <1>4, <1>5, <1>6 DEF Under

\* Inside a scope other than the program there are arguments and statements.
LEMMA InnerScope ==
  ASSUME IsAst(ast), NEW p \in DOMAIN ast.nodes, NEW list, Opens(p, list), NEW m \in Range(list)
  PROVE  /\ Child(ast, m, p) /\ m \in DOMAIN ast.nodes
         /\ at(m).kind \in Declaration => at(m).kind \in {"VariableDeclaration", "Argument"}
<1>1. Child(ast, m, p)
  BY OpensChildren
<1>2. m \in DOMAIN ast.nodes
  BY <1>1, ChildUnder
<1>3. at(m).kind \in Expression \cup {"Argument"} \cup Statement
  BY <1>1, AmongChildren, ListKinds DEF at
<1> QED BY <1>1, <1>2, <1>3 DEF Expression, Statement, Literal, Declaration

\* Joining lists joins their elements.
LEMMA RangeOfBoth ==
  ASSUME NEW s \in Seq(Nat), NEW t \in Seq(Nat), NEW m \in Range(s) \cup Range(t)
  PROVE  m \in Range(s \o t)
<1>1. CASE m \in Range(s)
  <2>1. PICK i \in DOMAIN s : s[i] = m
    BY <1>1 DEF Range
  <2>2. i \in DOMAIN (s \o t) /\ (s \o t)[i] = m
    BY <2>1
  <2> QED BY <2>2 DEF Range
<1>2. CASE m \in Range(t)
  <2>1. PICK i \in DOMAIN t : t[i] = m
    BY <1>2 DEF Range
  <2>2. Len(s) + i \in DOMAIN (s \o t) /\ (s \o t)[Len(s) + i] = m
    BY <2>1
  <2> QED BY <2>2 DEF Range
<1> QED BY <1>1, <1>2

\* A variable or an argument stands in the scope that its parent opens.
LEMMA ScopeOf ==
  ASSUME IsAst(ast), NEW f \in DOMAIN ast.nodes, is_function(at(f)),
         NEW d, at(d).kind \in {"VariableDeclaration", "Argument"}, Under(ast, d, f)
  PROVE  \E p \in DOMAIN ast.nodes, list \in ScopeLists(ast) :
           /\ Opens(p, list) /\ d \in Range(list) /\ Under(ast, p, f)
           /\ at(d).kind = "Argument" => p = f
<1>1. d # f
  BY DEF is_function
<1>2. PICK p \in DOMAIN ast.nodes : Child(ast, d, p) /\ Under(ast, p, f)
  BY <1>1, ParentWithin
<1>3. d \in Range(at(p).operands) \cup Range(at(p).params) \cup Range(at(p).body) \cup Range(at(p).orelse)
  BY <1>2, AmongChildren DEF at
<1>4. /\ \A c \in Range(at(p).operands) : at(c).kind \in Expression
      /\ \A c \in Range(at(p).body) \cup Range(at(p).orelse) : at(c).kind \in Statement
      /\ at(p).kind # "FunctionDeclaration" => Range(at(p).params) = {}
      /\ at(p).kind \notin {"FunctionDeclaration", "If"} => Range(at(p).body) = {}
      /\ at(p).kind # "If" => Range(at(p).orelse) = {}
  BY ListKinds DEF at
<1>5. d \notin Range(at(p).operands)
  BY <1>4 DEF Expression, Literal
<1>6. at(p).params \in Seq(Nat) /\ at(p).body \in Seq(Nat)
  <2>1. at(p) \in AstNode
    BY DEF IsAst, at
  <2> QED BY <2>1 DEF AstNode
<1>7. CASE is_function(at(p))
  <2>1. PICK list : list = at(p).params \o at(p).body
    OBVIOUS
  <2>2. d \in Range(list)
    BY <1>3, <1>4, <1>5, <1>6, <1>7, <2>1, RangeOfBoth DEF is_function
  <2>3. list \in ScopeLists(ast)
    BY <1>7, <2>1 DEF ScopeLists, at
  <2>4. p = f
    <3>1. Under(ast, d, p)
      BY <1>2, ChildUnder
    <3> QED BY <1>7, <3>1, OneFunction
  <2> QED BY <1>2, <1>7, <2>1, <2>2, <2>3, <2>4 DEF Opens
<1>8. CASE ~ is_function(at(p))
  <2>1. at(p).kind = "If" /\ at(d).kind # "Argument"
    BY <1>3, <1>4, <1>5, <1>8 DEF is_function, Statement, Expression, Literal
  <2>2. PICK list \in {at(p).body, at(p).orelse} : d \in Range(list)
    BY <1>3, <1>4, <1>5, <1>8 DEF is_function
  <2>3. list \in ScopeLists(ast)
    BY <2>1, <2>2 DEF ScopeLists, at
  <2> QED BY <1>2, <1>8, <2>1, <2>2, <2>3 DEF Opens
<1> QED BY <1>7, <1>8

-------------------------------------------------------------------------------
(* What a name means, and what the last storage of its name before it is. *)

\* The declaration in force is that of the innermost scope that has one.
LEMMA ResolveIs ==
  ASSUME IsAst(ast), NEW n \in DOMAIN ast.nodes, NEW x, x = at(n).name,
         NEW list \in ScopeLists(ast), InForce(ast, n, x, list) # {}
  PROVE  \E meant \in ScopeLists(ast) :
           \E m \in InForce(ast, n, x, meant) :
             /\ Resolve(ast, n) = FirstDeclared(ast, meant, x)
             /\ \A other \in ScopeLists(ast) : \A o \in InForce(ast, n, x, other) : m <= o
<1> DEFINE L == {scope \in ScopeLists(ast) : InForce(ast, n, x, scope) # {}}
           Innermost(scope) == \A other \in L :
             \A m \in InForce(ast, n, x, scope), o \in InForce(ast, n, x, other) : m <= o
           T == {m \in DOMAIN ast.nodes : \E scope \in L : m \in InForce(ast, n, x, scope)}
<1>1. ASSUME NEW scope \in ScopeLists(ast), NEW m \in InForce(ast, n, x, scope)
      PROVE  m \in T /\ m \in Range(scope) /\ Under(ast, n, m)
  <2>1. m \in Range(scope) /\ Under(ast, n, m)
    BY <1>1 DEF InForce
  <2>2. m \in DOMAIN ast.nodes
    BY <2>1, ScopeScattered DEF Scattered, Range
  <2> QED BY <1>1, <2>1, <2>2
<1>2. T # {} /\ T \subseteq Nat
  <2>1. PICK m \in InForce(ast, n, x, list) : TRUE
    OBVIOUS
  <2>2. m \in T
    BY <1>1, <2>1
  <2> QED BY <2>2, UnderFacts
<1>3. PICK first \in T : \A m \in T : first <= m
  <2> HIDE DEF T
  <2> QED BY <1>2, Least
<1>4. PICK scope \in L : first \in InForce(ast, n, x, scope)
  OBVIOUS
<1>5. ASSUME NEW m \in InForce(ast, n, x, scope)
      PROVE  m = first
  <2>1. m \in Range(scope) /\ Under(ast, n, m) /\ first \in Range(scope) /\ Under(ast, n, first)
    BY <1>1, <1>4, <1>5
  <2>2. PICK i \in DOMAIN scope : scope[i] = m
    BY <2>1 DEF Range
  <2>3. PICK j \in DOMAIN scope : scope[j] = first
    BY <2>1 DEF Range
  <2>4. i = j
    BY <1>4, <2>1, <2>2, <2>3, ScopeScattered DEF Scattered
  <2> QED BY <2>2, <2>3, <2>4
<1>6. Innermost(scope)
  <2> SUFFICES ASSUME NEW other \in L, NEW m \in InForce(ast, n, x, scope), NEW o \in InForce(ast, n, x, other)
               PROVE  m <= o
    OBVIOUS
  <2>1. o \in T /\ m = first
    BY <1>1, <1>5
  <2> QED BY <1>3, <2>1
<1>7. PICK meant \in L : meant = (CHOOSE choice \in L : Innermost(choice)) /\ Innermost(meant)
  <2> HIDE DEF L, Innermost
  <2> QED BY <1>4, <1>6
<1>8. Resolve(ast, n) = FirstDeclared(ast, meant, x)
  BY <1>4, <1>7 DEF Resolve, at
<1>9. PICK m \in InForce(ast, n, x, meant) : TRUE
  BY <1>7
<1>10. ASSUME NEW other \in ScopeLists(ast), NEW o \in InForce(ast, n, x, other)
       PROVE  m <= o
  <2>1. other \in L
    BY <1>10
  <2> QED BY <1>7, <1>9, <1>10, <2>1
<1> QED BY <1>7, <1>8, <1>9, <1>10

\* The storage of the name of n that stands before it in the function.
Stored(f, n) ==
    {d \in DOMAIN ast.nodes :
       /\ at(d).kind \in {"VariableDeclaration", "Argument"} /\ at(d).name = at(n).name
       /\ Under(ast, d, f) /\ d < FirstOf(ast)[n]}

\* The declaration stands in a block that ended before n, in the same function.
Ended(d, n) ==
    /\ at(d).kind = "VariableDeclaration" /\ at(d).name = at(n).name
    /\ d < n
    /\ EnclosingFunction(ast, d) = EnclosingFunction(ast, n)
    /\ \E list \in ScopeLists(ast) : d \in Range(list) /\ \A m \in Range(list) : ~ Under(ast, n, m)

\* In any scope but the program's, what a name means in it comes before.
LEMMA MeantBefore ==
  ASSUME IInv, NEW n \in DOMAIN ast.nodes, NEW p \in DOMAIN ast.nodes,
         NEW meant \in ScopeLists(ast), Opens(p, meant), NEW m \in InForce(ast, n, at(n).name, meant),
         NEW r, r = FirstDeclared(ast, meant, at(n).name)
  PROVE  /\ r \in Range(meant) /\ r < m /\ r < FirstOf(ast)[n] /\ r \in DOMAIN ast.nodes
         /\ at(r).kind \in {"VariableDeclaration", "Argument"} /\ at(r).name = at(n).name
<1> DEFINE x == at(n).name
           D == Declarations(ast, meant, x)
<1>1. IsAst(ast) /\ Scattered(meant) /\ m \in Range(meant) /\ Under(ast, n, m)
  BY ScopeScattered DEF IInv, InForce
<1>2. PICK e \in D : Known(ast, e, m)
  BY DEF InForce
<1>3. r \in D
  BY <1>1, <1>2, FirstExists
<1>4. r = e \/ Precedes(ast, r, e)
  <2>1. D # {}
    BY <1>2
  <2> QED BY <1>1, <1>2, <2>1, FirstExists
<1>5. ASSUME NEW d \in D
      PROVE  /\ d \in Range(meant) /\ d \in DOMAIN ast.nodes /\ d \in Nat /\ ~ is_function(at(d))
             /\ at(d).kind \in {"VariableDeclaration", "Argument"} /\ at(d).name = x
  <2>1. d \in Range(meant) /\ at(d).kind \in Declaration /\ at(d).name = x
    BY DEF Declarations, at
  <2>2. d \in DOMAIN ast.nodes /\ at(d).kind \in {"VariableDeclaration", "Argument"}
    BY <1>1, <2>1, InnerScope
  <2> QED BY <1>1, <2>1, <2>2, UnderFacts DEF is_function
<1>6. r <= e /\ e < m
  <2>1. e < m
    BY <1>2, <1>5 DEF Known, at
  <2>2. r = e \/ r < e
    BY <1>3, <1>4, <1>5 DEF Precedes, at
  <2> QED BY <1>2, <1>3, <1>5, <2>1, <2>2
<1>7. m \in DOMAIN ast.nodes /\ m \in Nat
  BY <1>1, UnderFacts DEF Scattered, Range
<1>8. r < m
  BY <1>2, <1>3, <1>5, <1>6, <1>7
<1>9. r < FirstOf(ast)[m]
  BY <1>1, <1>3, <1>5, <1>8, ScopeInOrder
<1>10. FirstOf(ast)[m] <= FirstOf(ast)[n] /\ FirstOf(ast)[m] \in Nat /\ FirstOf(ast)[n] \in Nat
  BY <1>1, <1>7, Nested, TreeFacts
<1>11. r < FirstOf(ast)[n]
  BY <1>3, <1>5, <1>9, <1>10
<1> QED BY <1>3, <1>5, <1>8, <1>11

\* The last storage of the name before n is what the name means at n, unless
\* its block has ended.
LEMMA LatestIsMeant ==
  ASSUME IInv, NEW n \in DOMAIN ast.nodes, at(n).kind \in Uses,
         NEW f \in DOMAIN ast.nodes, is_function(at(f)), Under(ast, n, f),
         NEW d \in Stored(f, n), \A e \in Stored(f, n) : e <= d,
         FirstInScope(ast, d)
  PROVE  d = Resolve(ast, n) \/ Ended(d, n)
<1>1. /\ IsAst(ast) /\ d \in DOMAIN ast.nodes
      /\ at(d).kind \in {"VariableDeclaration", "Argument"} /\ at(d).name = at(n).name
      /\ Under(ast, d, f) /\ d < FirstOf(ast)[n]
  BY DEF Stored, IInv
<1>2. /\ n \in Nat /\ d \in Nat /\ FirstOf(ast)[n] \in Nat /\ FirstOf(ast)[n] <= n /\ d < n
  BY <1>1, UnderFacts, TreeFacts
<1>3. PICK p \in DOMAIN ast.nodes, list \in ScopeLists(ast) :
        /\ Opens(p, list) /\ d \in Range(list) /\ Under(ast, p, f)
        /\ at(d).kind = "Argument" => p = f
  BY <1>1, ScopeOf
<1>4. CASE \A m \in Range(list) : ~ Under(ast, n, m)
  <2>1. at(d).kind # "Argument"
    <3> SUFFICES ASSUME at(d).kind = "Argument" PROVE FALSE
      OBVIOUS
    <3>1. list = at(f).params \o at(f).body
      BY <1>3 DEF Opens
    <3>2. n # f
      BY DEF Uses, is_function
    <3>3. PICK c : Child(ast, c, f) /\ Under(ast, n, c)
      BY <1>1, <3>2, Descend
    <3>4. c \in Range(at(f).operands) \cup Range(at(f).params) \cup Range(at(f).body) \cup Range(at(f).orelse)
      BY <1>1, <3>3, AmongChildren DEF at
    <3>5. Range(at(f).operands) = {} /\ Range(at(f).orelse) = {}
      <4>1. DOMAIN at(f).operands = {}
        BY NoOperands DEF Operands, is_function
      <4> QED BY <1>1, <4>1, ListKinds DEF at, is_function, Range
    <3>6. at(f).params \in Seq(Nat) /\ at(f).body \in Seq(Nat)
      <4>1. at(f) \in AstNode
        BY <1>1 DEF IsAst, at
      <4> QED BY <4>1 DEF AstNode
    <3>7. c \in Range(list)
      BY <3>1, <3>4, <3>5, <3>6, RangeOfBoth
    <3> QED BY <1>4, <3>3, <3>7
  <2>2. EnclosingFunction(ast, d) = f /\ EnclosingFunction(ast, n) = f
    BY <1>1, Enclosing
  <2> QED BY <1>1, <1>2, <1>3, <1>4, <2>1, <2>2 DEF Ended
<1>5. CASE \E m \in Range(list) : Under(ast, n, m)
  <2> DEFINE x == at(n).name
  <2>1. PICK m \in Range(list) : Under(ast, n, m)
    BY <1>5
  <2>2. m \in DOMAIN ast.nodes /\ m \in Nat /\ n <= m /\ Child(ast, m, p) /\ Child(ast, d, p)
    BY <1>1, <1>3, <2>1, InnerScope, UnderFacts
  <2>3. d \in Declarations(ast, list, x) /\ Known(ast, d, m)
    BY <1>1, <1>2, <1>3, <2>2 DEF Declarations, Declaration, Known, at
  <2>4. m \in InForce(ast, n, x, list)
    BY <2>1, <2>3 DEF InForce
  <2>5. FirstDeclared(ast, list, x) = d
    BY <1>1, <1>3 DEF FirstInScope, at
  <2>6. PICK meant \in ScopeLists(ast) :
          \E k \in InForce(ast, n, x, meant) :
            /\ Resolve(ast, n) = FirstDeclared(ast, meant, x)
            /\ \A other \in ScopeLists(ast) : \A o \in InForce(ast, n, x, other) : k <= o
    BY <1>1, <1>3, <2>4, ResolveIs
  <2>7. PICK k \in InForce(ast, n, x, meant) :
            /\ Resolve(ast, n) = FirstDeclared(ast, meant, x)
            /\ \A other \in ScopeLists(ast) : \A o \in InForce(ast, n, x, other) : k <= o
    BY <2>6
  <2>8. k \in Range(meant) /\ Under(ast, n, k) /\ k <= m
    BY <1>3, <2>4, <2>7 DEF InForce
  <2>9. k \in DOMAIN ast.nodes
    BY <1>1, <2>8, ScopeScattered DEF Scattered, Range
  <2>10. k \in Nat
    BY <1>1, <2>9, UnderFacts
  <2>11. CASE k = m
    <3>1. meant = list
      BY <1>1, <1>3, <2>1, <2>8, <2>11, OneScope
    <3> QED BY <2>5, <2>7, <3>1
  <2>12. CASE k # m
    <3>1. Under(ast, k, m)
      <4>1. FirstOf(ast)[m] \in Nat /\ FirstOf(ast)[m] <= n /\ n <= k
        BY <1>1, <2>1, <2>2, <2>8, <2>9, UnderFacts, TreeFacts DEF Under
      <4> QED BY <1>2, <2>2, <2>8, <2>10, <4>1 DEF Under
    <3>2. meant # ast.top
      <4> SUFFICES ASSUME meant = ast.top PROVE FALSE
        OBVIOUS
      <4>1. PICK i \in DOMAIN ast.top : ast.top[i] = k
        BY <2>8 DEF Range
      <4>2. PICK o \in DOMAIN ast.nodes : Child(ast, k, o)
        BY <1>1, <2>2, <2>12, <3>1, ParentWithin
      <4> QED BY <1>1, <4>1, <4>2, TopHasNoParent
    <3>3. PICK o \in DOMAIN ast.nodes : Opens(o, meant)
      BY <3>2, ScopeIs
    <3>4. PICK r : r = Resolve(ast, n)
      OBVIOUS
    <3>5. /\ r \in Range(meant) /\ r < k /\ r < FirstOf(ast)[n] /\ r \in DOMAIN ast.nodes
          /\ at(r).kind \in {"VariableDeclaration", "Argument"} /\ at(r).name = at(n).name
      BY <2>7, <3>3, <3>4, MeantBefore
    <3>6. Child(ast, k, o) /\ Child(ast, r, o)
      BY <1>1, <2>8, <3>3, <3>5, InnerScope
    <3>7. Under(ast, o, m)
      BY <1>1, <2>2, <2>12, <3>1, <3>6, ParentBelow
    <3>8. Under(ast, r, m)
      BY <1>1, <2>2, <3>6, <3>7, ChildUnder, Transitive
    <3>9. Under(ast, m, f)
      BY <1>1, <2>1, <2>2, InFunction
    <3>10. r \in Stored(f, n)
      BY <1>1, <3>5, <3>8, <3>9, Transitive DEF Stored
    <3>11. r <= d
      BY <3>10
    <3>12. d < FirstOf(ast)[m]
      BY <1>1, <1>2, <1>3, <2>1, <2>2, ScopeInOrder
    <3>13. FirstOf(ast)[m] <= r /\ FirstOf(ast)[m] \in Nat /\ r \in Nat
      BY <1>1, <2>2, <3>5, <3>8, UnderFacts, TreeFacts DEF Under
    <3> QED BY <1>2, <3>11, <3>12, <3>13
  <2> QED BY <2>11, <2>12
<1> QED BY <1>4, <1>5

\* A name that means something of which the function has no storage before it
\* means an instruction.
LEMMA NothingStored ==
  ASSUME IInv, NEW n \in DOMAIN ast.nodes,
         NEW f \in DOMAIN ast.nodes, is_function(at(f)), Under(ast, n, f), Stored(f, n) = {},
         Resolve(ast, n) # NoNode
  PROVE  at(Resolve(ast, n)).kind \in TopLevel
<1> DEFINE x == at(n).name
<1>1. IsAst(ast)
  BY DEF IInv
<1>2. PICK list \in ScopeLists(ast) : InForce(ast, n, x, list) # {}
  BY DEF Resolve, at
<1>3. PICK meant \in ScopeLists(ast) :
        \E k \in InForce(ast, n, x, meant) : Resolve(ast, n) = FirstDeclared(ast, meant, x)
  BY <1>1, <1>2, ResolveIs
<1>4. PICK k \in InForce(ast, n, x, meant) : Resolve(ast, n) = FirstDeclared(ast, meant, x)
  BY <1>3
<1>5. PICK r : r = Resolve(ast, n)
  OBVIOUS
<1>6. CASE meant = ast.top
  <2>1. Declarations(ast, meant, x) # {}
    BY <1>4 DEF InForce
  <2>2. r \in Declarations(ast, meant, x)
    BY <1>1, <1>4, <1>5, <2>1, FirstExists, ScopeScattered
  <2>3. r \in Range(ast.top)
    BY <1>6, <2>2 DEF Declarations
  <2> DEFINE T == {m \in 1 .. Len(ast.nodes) : ast.nodes[m].kind \in TopLevel}
  <2>4. ast.top \in Seq(T)
    BY <1>1 DEF IsAst
  <2>5. r \in T
    <3> HIDE DEF T
    <3> QED BY <2>3, <2>4 DEF Range
  <2> QED BY <1>5, <2>5 DEF at
<1>7. CASE meant # ast.top
  <2>1. PICK p \in DOMAIN ast.nodes : Opens(p, meant)
    BY <1>7, ScopeIs
  <2>2. /\ r \in Range(meant) /\ r < FirstOf(ast)[n] /\ r \in DOMAIN ast.nodes
        /\ at(r).kind \in {"VariableDeclaration", "Argument"} /\ at(r).name = at(n).name
    BY <1>4, <1>5, <2>1, MeantBefore
  <2>3. Child(ast, k, p) /\ Child(ast, r, p) /\ Under(ast, n, k)
    BY <1>1, <1>4, <2>1, <2>2, InnerScope DEF InForce
  <2>4. Under(ast, n, p)
    BY <1>1, <2>3, ChildUnder
  <2>5. Under(ast, p, f)
    BY <1>1, <2>4, InFunction
  <2>6. Under(ast, r, f)
    BY <1>1, <2>3, <2>5, ChildUnder, Transitive
  <2> QED BY <2>2, <2>6 DEF Stored
<1> QED BY <1>6, <1>7

\* What a name means has the name.
LEMMA MeansItsName ==
  ASSUME IInv, NEW n \in DOMAIN ast.nodes, Resolve(ast, n) # NoNode
  PROVE  /\ Resolve(ast, n) \in DOMAIN ast.nodes
         /\ at(Resolve(ast, n)).kind \in Declaration
         /\ at(Resolve(ast, n)).name = at(n).name
<1> DEFINE x == at(n).name
<1>1. IsAst(ast)
  BY DEF IInv
<1>2. PICK list \in ScopeLists(ast) : InForce(ast, n, x, list) # {}
  BY DEF Resolve, at
<1>3. PICK meant \in ScopeLists(ast) :
        \E k \in InForce(ast, n, x, meant) : Resolve(ast, n) = FirstDeclared(ast, meant, x)
  BY <1>1, <1>2, ResolveIs
<1>4. Declarations(ast, meant, x) # {} /\ Scattered(meant)
  BY <1>1, <1>3, ScopeScattered DEF InForce
<1>5. Resolve(ast, n) \in Declarations(ast, meant, x)
  BY <1>3, <1>4, FirstExists
<1>6. \A d \in Declarations(ast, meant, x) : d \in DOMAIN ast.nodes /\ at(d).kind \in Declaration /\ at(d).name = x
  BY <1>4 DEF Declarations, Scattered, Range, at
<1> QED BY <1>5, <1>6

\* Two functions of a name cannot both be the first.
LEMMA OneOfAName ==
  ASSUME IsAst(ast), NEW f \in DOMAIN ast.nodes, is_function(at(f)), FirstInScope(ast, f),
         NEW g \in DOMAIN ast.nodes, is_function(at(g)), FirstInScope(ast, g), at(f).name = at(g).name
  PROVE  f = g
<1>1. f \in Range(ast.top) /\ g \in Range(ast.top)
  BY FunctionsAreTop DEF Range
<1>2. ast.top \in ScopeLists(ast)
  BY DEF ScopeLists
<1>3. FirstDeclared(ast, ast.top, at(f).name) = f /\ FirstDeclared(ast, ast.top, at(g).name) = g
  BY <1>1, <1>2 DEF FirstInScope, at
<1> QED BY <1>3

\* A function that has nothing of its own before a call is the caller or a
\* later one.
LEMMA CalledLater ==
  ASSUME IsAst(ast), NEW n \in DOMAIN ast.nodes, at(n).kind \in Uses,
         NEW g \in DOMAIN ast.nodes, is_function(at(g)), FirstOf(ast)[n] <= g
  PROVE  g >= EnclosingFunction(ast, n)
<1>1. PICK f \in DOMAIN ast.nodes : is_function(at(f)) /\ Under(ast, n, f)
  BY StandsInFunction
<1>2. EnclosingFunction(ast, n) = f
  BY <1>1, Enclosing
<1>3. f \in Range(ast.top) /\ g \in Range(ast.top) /\ ast.top \in ScopeLists(ast)
  BY <1>1, FunctionsAreTop DEF Range, ScopeLists
<1>4. f \in Nat /\ g \in Nat /\ FirstOf(ast)[f] \in Nat /\ FirstOf(ast)[n] \in Nat
  BY <1>1, UnderFacts, TreeFacts
<1>5. ~ (g < f)
  <2> SUFFICES ASSUME g < f PROVE FALSE
    OBVIOUS
  <2>1. g < FirstOf(ast)[f]
    BY <1>3, ScopeInOrder
  <2>2. FirstOf(ast)[f] <= FirstOf(ast)[n]
    BY <1>1, Nested
  <2> QED BY <1>4, <2>1, <2>2
<1> QED BY <1>2, <1>4, <1>5

-------------------------------------------------------------------------------
(* What a validation without errors leaves. *)

Settled ==
    /\ \A n \in DOMAIN ast.nodes :
         at(n).kind \in Uses => resolved[n] # NoNode /\ resolved[n] = Resolve(ast, n)
    /\ \A n \in DOMAIN ast.nodes : at(n).kind = "FunctionCall" => is_function(at(resolved[n]))
    /\ \A d \in DOMAIN ast.nodes : at(d).kind \in Declaration => FirstInScope(ast, d)

ScopingInv == PlacedInv /\ FoundInv /\ AwaitedInv /\ DeclaredInv /\ CalledInv

LEMMA ScopingInit == Init => ScopingInv
<1> SUFFICES ASSUME Init PROVE ScopingInv
  OBVIOUS
<1>1. frames = << >> /\ round = 0 /\ resolved = [n \in DOMAIN ast.nodes |-> NoNode]
  BY DEF Init
<1> QED BY <1>1 DEF ScopingInv, PlacedInv, FoundInv, AwaitedInv, DeclaredInv, CalledInv

LEMMA ScopingStep == IInv /\ ScopingInv /\ [Next]_vars /\ IInv' => ScopingInv'
<1> SUFFICES ASSUME IInv, ScopingInv, [Next]_vars, IInv' PROVE ScopingInv'
  OBVIOUS
<1>1. PlacedInv /\ FoundInv /\ AwaitedInv /\ DeclaredInv /\ CalledInv
  BY DEF ScopingInv
<1>2. PlacedInv'
  BY <1>1, PlacedStep
<1>3. FoundInv'
  BY <1>1, FoundStep
<1>4. AwaitedInv'
  BY <1>1, AwaitedStep
<1>5. DeclaredInv'
  BY <1>1, DeclaredStep
<1>6. CalledInv'
  BY <1>1, CalledStep
<1> QED BY <1>2, <1>3, <1>4, <1>5, <1>6 DEF ScopingInv

LEMMA Settles ==
  ASSUME IInv, ScopingInv, Validated, Accepted
  PROVE  Settled
<1>1. round > 0 /\ errors = << >> /\ frames = << >>
  BY DEF Validated, Accepted, Running
<1>2. \A what, m : ~ Pending(what, m)
  BY <1>1 DEF Pending
<1>3. ASSUME NEW n \in DOMAIN ast.nodes, at(n).kind \in Uses
      PROVE  resolved[n] # NoNode /\ resolved[n] = Resolve(ast, n)
  BY <1>1, <1>2, <1>3 DEF ScopingInv, FoundInv, AwaitedInv
<1>4. ASSUME NEW n \in DOMAIN ast.nodes, at(n).kind = "FunctionCall"
      PROVE  is_function(at(resolved[n]))
  BY <1>1, <1>3, <1>4 DEF ScopingInv, CalledInv, Uses
<1>5. ASSUME NEW d \in DOMAIN ast.nodes, at(d).kind \in Declaration
      PROVE  FirstInScope(ast, d)
  BY <1>1, <1>2, <1>5 DEF ScopingInv, DeclaredInv
<1> QED BY <1>3, <1>4, <1>5 DEF Settled

\* The last storage of the name of n that stands before it in its function,
\* NoNode if there is none.
LastStored(n, d) ==
    \E f \in DOMAIN ast.nodes :
      /\ is_function(at(f)) /\ Under(ast, n, f)
      /\ IF Stored(f, n) = {} THEN d = NoNode ELSE d \in Stored(f, n) /\ \A e \in Stored(f, n) : e <= d

\* It is what the name was found to mean, or left over from an ended block;
\* if there is none, the name was found to mean an instruction.
LEMMA StorageMeant ==
  ASSUME IInv, Settled, NEW n \in DOMAIN ast.nodes, at(n).kind \in Uses, NEW d, LastStored(n, d)
  PROVE  IF d = NoNode THEN at(resolved[n]).kind \in TopLevel ELSE d = resolved[n] \/ Ended(d, n)
<1>1. PICK f \in DOMAIN ast.nodes :
        /\ is_function(at(f)) /\ Under(ast, n, f)
        /\ IF Stored(f, n) = {} THEN d = NoNode ELSE d \in Stored(f, n) /\ \A e \in Stored(f, n) : e <= d
  BY DEF LastStored
<1>2. resolved[n] # NoNode /\ resolved[n] = Resolve(ast, n)
  BY DEF Settled
<1>3. CASE Stored(f, n) = {}
  BY <1>1, <1>2, <1>3, NothingStored
<1>4. CASE Stored(f, n) # {}
  <2>1. d \in Stored(f, n) /\ \A e \in Stored(f, n) : e <= d
    BY <1>1, <1>4
  <2>2. d \in DOMAIN ast.nodes /\ at(d).kind \in Declaration /\ d # NoNode
    BY <2>1, AstFacts DEF Stored, Declaration, IInv
  <2>3. FirstInScope(ast, d)
    BY <2>2 DEF Settled
  <2> QED BY <1>1, <1>2, <2>1, <2>2, <2>3, LatestIsMeant
<1> QED BY <1>3, <1>4

\* A call was found to mean the only function of its name.
LEMMA FunctionMeant ==
  ASSUME IInv, Settled, NEW n \in DOMAIN ast.nodes, at(n).kind = "FunctionCall"
  PROVE  /\ resolved[n] \in Functions(ast, at(n).name)
         /\ \A f \in Functions(ast, at(n).name) : f = resolved[n]
<1> DEFINE g == resolved[n]
<1>1. g # NoNode /\ g = Resolve(ast, n) /\ is_function(at(g))
  BY DEF Settled, Uses
<1>2. g \in DOMAIN ast.nodes /\ at(g).name = at(n).name
  BY <1>1, MeansItsName
<1>3. \E i \in DOMAIN ast.top : ast.top[i] = g
  BY <1>1, <1>2, FunctionsAreTop DEF IInv
<1>4. FirstInScope(ast, g)
  BY <1>1, <1>2 DEF Settled, is_function, Declaration
<1>5. ASSUME NEW f \in Functions(ast, at(n).name)
      PROVE  f = g
  <2>1. f \in DOMAIN ast.nodes /\ is_function(at(f)) /\ at(f).name = at(n).name
    BY DEF Functions, at
  <2>2. FirstInScope(ast, f)
    BY <2>1 DEF Settled, is_function, Declaration
  <2> QED BY <1>1, <1>2, <1>4, <2>1, <2>2, OneOfAName DEF IInv
<1>6. g \in Functions(ast, at(n).name)
  BY <1>1, <1>2, <1>3 DEF Functions, InTop, at
<1> QED BY <1>5, <1>6

\* If no function of the name is done before the call, it means its caller or
\* a later one.
LEMMA FunctionMissed ==
  ASSUME IInv, Settled, NEW n \in DOMAIN ast.nodes, at(n).kind = "FunctionCall",
         \A f \in Functions(ast, at(n).name) : FirstOf(ast)[n] <= f
  PROVE  resolved[n] >= EnclosingFunction(ast, n)
<1>1. resolved[n] \in Functions(ast, at(n).name)
  BY FunctionMeant
<1>2. resolved[n] \in DOMAIN ast.nodes /\ is_function(at(resolved[n])) /\ FirstOf(ast)[n] <= resolved[n]
  BY <1>1 DEF Functions, at
<1> QED BY <1>2, CalledLater DEF IInv, Uses

\* No function has two arguments of one name.
LEMMA ArgumentsDiffer ==
  ASSUME IInv, Settled, NEW f \in DOMAIN ast.nodes, is_function(at(f)),
         NEW i \in DOMAIN at(f).params, NEW j \in DOMAIN at(f).params,
         at(at(f).params[i]).name = at(at(f).params[j]).name
  PROVE  at(f).params[i] = at(f).params[j]
<1> DEFINE a == at(f).params[i]
           b == at(f).params[j]
           list == at(f).params \o at(f).body
<1>1. /\ a \in DOMAIN ast.nodes /\ at(a).kind = "Argument" /\ b \in DOMAIN ast.nodes /\ at(b).kind = "Argument"
      /\ at(f).params \in Seq(Nat) /\ at(f).body \in Seq(Nat)
  BY AstFacts DEF IInv, AstNode
<1>2. a \in Range(list) /\ b \in Range(list)
  BY <1>1, RangeOfBoth DEF Range
<1>3. list \in ScopeLists(ast)
  BY DEF ScopeLists, at
<1>4. FirstInScope(ast, a) /\ FirstInScope(ast, b)
  BY <1>1 DEF Settled, Declaration
<1> QED BY <1>2, <1>3, <1>4 DEF FirstInScope, at

-------------------------------------------------------------------------------

\* Whatever the programs and the number of validations: once validate has
\* returned without an error, no declaration has another of its name before it
\* in its scope; an accepted program redeclares nothing.
THEOREM DeclarationsAreFirst ==
  Spec => [](Validated /\ Accepted =>
               \A d \in DOMAIN ast.nodes : at(d).kind \in Declaration => FirstInScope(ast, d))
<1>1. Init => IInv
  BY InitInv
<1>2. IInv /\ [Next]_vars => IInv'
  BY StepInv
<1>3. IInv /\ ScopingInv =>
        (Validated /\ Accepted =>
           \A d \in DOMAIN ast.nodes : at(d).kind \in Declaration => FirstInScope(ast, d))
  BY Settles DEF Settled
<1> QED BY <1>1, <1>2, <1>3, ScopingInit, ScopingStep, PTL DEF Spec

\* Whatever the programs, the names and the number of validations: when
\* validate has returned, every use it looked up was found to mean the
\* declaration in force where the use stands, and if there is no error it
\* looked up every use.
THEOREM NamesAreResolved == Spec => []NamesResolveLexically
<1>1. Init => IInv
  BY InitInv
<1>2. IInv /\ [Next]_vars => IInv'
  BY StepInv
<1>3. ScopingInv => NamesResolveLexically
  <2> SUFFICES ASSUME FoundInv, AwaitedInv, Validated, NEW n \in DOMAIN ast.nodes, at(n).kind \in Uses
               PROVE  /\ resolved[n] \in {NoNode, Resolve(ast, n)}
                      /\ Accepted => resolved[n] # NoNode
    BY DEF NamesResolveLexically, ScopingInv, Uses
  <2>1. resolved[n] \in {NoNode, Resolve(ast, n)}
    BY DEF FoundInv
  <2>2. \A what, m : ~ Pending(what, m)
    BY DEF Validated, Running, Pending
  <2>3. Accepted => resolved[n] # NoNode
    BY <2>2 DEF AwaitedInv, Accepted, Validated
  <2> QED BY <2>1, <2>3
<1> QED BY <1>1, <1>2, <1>3, ScopingInit, ScopingStep, PTL DEF Spec

-------------------------------------------------------------------------------
(* The first verdict.  The items left to do are in tree order, belong to    *)
(* the function at hand, and hold on to what the tree means.                *)

\* The item has the node n typed.
Untyped(what, m, n) == Awaits(what, m, n) \/ (what \in {"type_binary_op", "type_unary_op"} /\ n = m)

\* The items that hold a node to a rule, once its operands are typed.
Judging == {"type_binary_op", "type_unary_op", "check_assignment", "check_return", "check_condition"}

\* The item reads the type of o, and may be the one to fix it.
Consumes(what, m, o) ==
    \/ what = "check_argument" /\ o = m
    \/ what \in Judging /\ o \in Range(at(m).operands)

\* a may be done before b: it leaves alone the types of what b has typed.
Later(a, b) ==
    /\ a.node < b.node \/ (a.node = b.node /\ a.do \in Typing /\ b.do = "check_argument")
    /\ \A n \in DOMAIN ast.nodes : Untyped(b.do, b.node, n) => a.node < n

\* a is done before b: it is further in or in front of it.
Before(a, b) ==
    \E k, l \in DOMAIN frames : \E i \in DOMAIN frames[k].todo, j \in DOMAIN frames[l].todo :
      /\ a = frames[k].todo[i] /\ b = frames[l].todo[j]
      /\ l < k \/ (l = k /\ i < j)

OrderInv == \A a, b : (Before(a, b) /\ "register" \notin {a.do, b.do}) => Later(a, b)

\* The items of all frames but the first are the function's.
WithinInv ==
    \A k \in DOMAIN frames :
      k # 1 => \A j \in DOMAIN frames[k].todo : Under(ast, frames[k].todo[j].node, frames[2].owner)

\* c calls a function with as many arguments as it has.
Callee(c) ==
    LET f == Resolve(ast, c) IN
    /\ f # NoNode /\ is_function(at(f)) /\ Len(at(f).params) = Len(at(c).operands)

\* What the item holds on to is what the tree means by the name.
EntryMeant(item) ==
    /\ item.do \in {"argument", "check_argument"} =>
         \E c \in DOMAIN ast.nodes : \E i \in DOMAIN at(c).operands :
           /\ at(c).kind = "FunctionCall" /\ Callee(c)
           /\ item.node = at(c).operands[i] /\ item.entry = at(Resolve(ast, c)).params[i]
    /\ item.do = "check_assignment" => item.entry = Resolve(ast, item.node)

Waiting(item) == \E k \in DOMAIN frames : \E j \in DOMAIN frames[k].todo : item = frames[k].todo[j]

MeantInv == \A item : Waiting(item) => EntryMeant(item)

\* Where a step leaves its items: what a visitor leaves for later is its own
\* node or a child of it, in the order in which they are done.
Tidy(items, list) ==
    LET what == Head(Current.todo).do IN
    /\ what = "register" => items = << >> /\ list = << >>
    /\ \A j \in DOMAIN items :
         /\ items[j].node = this \/ Child(ast, items[j].node, this)
         /\ (items[j].node = this /\ what \in Typing /\ at(this).kind \in Expression) => items[j].do \in Typing
    /\ \A i \in DOMAIN list : Child(ast, list[i], this)
    /\ \A i, j \in DOMAIN items : i < j => Later(items[i], items[j])
    /\ \A i \in DOMAIN list, j \in DOMAIN items : Later(do("visit", list[i]), items[j])
    /\ \A i, j \in DOMAIN list : i < j => Later(do("visit", list[i]), do("visit", list[j]))

LEMMA LaterStays ==
  ASSUME ast' = ast, NEW a, NEW b, Later(a, b)
  PROVE  Later(a, b)'
<1>1. \A n : Untyped(b.do, b.node, n)' <=> Untyped(b.do, b.node, n)
  BY DEF Untyped, Awaits, at
<1> QED BY <1>1 DEF Later

\* Whoever comes in the place of h, at its node or below, precedes what h preceded.
LEMMA Carries ==
  ASSUME IsAst(ast), NEW a, NEW h, NEW b, Later(h, b), h.node \in Nat, b.node \in Nat, a.node \in Nat,
         \/ a.node < h.node
         \/ a.node = h.node /\ (h.do \in Typing /\ b.node = h.node /\ b.do = "check_argument" => a.do \in Typing)
  PROVE  Later(a, b)
<1>1. DOMAIN ast.nodes \subseteq Nat
  BY TreeFacts
<1>2. a.node < b.node \/ (a.node = b.node /\ a.do \in Typing /\ b.do = "check_argument")
  BY DEF Later
<1>3. ASSUME NEW n \in DOMAIN ast.nodes, Untyped(b.do, b.node, n)
      PROVE  a.node < n
  BY <1>1, <1>3 DEF Later
<1> QED BY <1>2, <1>3 DEF Later

\* Only expressions are checked as arguments.
LEMMA ArgumentsAreExpressions ==
  ASSUME IInv, MeantInv, NEW k \in DOMAIN frames, NEW j \in DOMAIN frames[k].todo,
         frames[k].todo[j].do \in {"argument", "check_argument"}
  PROVE  \E c \in DOMAIN ast.nodes :
           /\ at(c).kind = "FunctionCall" /\ Callee(c) /\ Child(ast, frames[k].todo[j].node, c)
           /\ frames[k].todo[j].node \in Range(at(c).operands)
           /\ at(frames[k].todo[j].node).kind \in Expression
<1>1. PICK c \in DOMAIN ast.nodes : \E i \in DOMAIN at(c).operands :
        at(c).kind = "FunctionCall" /\ Callee(c) /\ frames[k].todo[j].node = at(c).operands[i]
  BY DEF MeantInv, EntryMeant, Waiting
<1>2. frames[k].todo[j].node \in Range(at(c).operands)
  BY <1>1 DEF Range
<1> QED BY <1>1, <1>2, OperandUnder DEF IInv

\* The first item is in the order before all others.
LEMMA HeadIsFirst ==
  ASSUME IInv, OrderInv, Running, Current.todo # << >>, Head(Current.todo).do # "register",
         NEW k \in DOMAIN frames, NEW j \in DOMAIN frames[k].todo, k # Len(frames) \/ j # 1,
         frames[k].todo[j].do # "register"
  PROVE  Later(Head(Current.todo), frames[k].todo[j])
<1> DEFINE L == Len(frames)
<1>1. /\ L \in DOMAIN frames /\ L \in Nat /\ DOMAIN frames = 1 .. L
      /\ frames[L].todo \in Seq(ItemAt(ast, L)) /\ frames[L].todo # << >>
      /\ frames[L].todo = Current.todo
  BY HeadFacts DEF IInv, FramesInv, Current
<1>2. 1 \in DOMAIN frames[L].todo /\ Head(Current.todo) = frames[L].todo[1]
  <2> DEFINE S == ItemAt(ast, L)
             todo == frames[L].todo
  <2>1. todo \in Seq(S) /\ todo # << >> /\ todo = Current.todo
    BY <1>1
  <2> HIDE DEF S, todo
  <2>2. 1 \in DOMAIN todo /\ Head(todo) = todo[1]
    BY <2>1
  <2> QED BY <2>1, <2>2 DEF todo
<1>3. k < L \/ (k = L /\ 1 < j)
  <2>1. frames[k].todo \in Seq(ItemAt(ast, k))
    BY DEF IInv, FramesInv
  <2>2. j \in Nat \ {0}
    BY <2>1
  <2> QED BY <1>1, <2>2
<1> HIDE DEF L
<1> QED BY <1>1, <1>2, <1>3 DEF OrderInv, Before

\* Where an item of the new frames comes from: left by the step or waiting since before.
Came(items, list, k, j) ==
    \/ /\ k = Len(frames) /\ j \in DOMAIN items /\ frames'[k].todo[j] = items[j]
    \/ /\ k = Len(frames) + 1 /\ j \in DOMAIN list /\ frames'[k].todo[j] = do("visit", list[j])

Waited(items, k, j) ==
    \E p \in DOMAIN frames[k].todo :
      /\ k \in DOMAIN frames
      /\ frames'[k].todo[j] = frames[k].todo[p]
      /\ k # Len(frames) => p = j
      /\ k = Len(frames) => p \in 2 .. Len(frames[k].todo) /\ j = Len(items) + p - 1

LEMMA Origins ==
  ASSUME IInv, Running, Current.todo # << >>, NEW items \in Seq(Item), NEW list, Works(items, list),
         NEW k \in DOMAIN frames', NEW j \in DOMAIN frames'[k].todo
  PROVE  Came(items, list, k, j) \/ Waited(items, k, j)
<1> DEFINE L == Len(frames)
<1>1. L \in Nat /\ DOMAIN frames = 1 .. L /\ L \in DOMAIN frames
  BY HeadFacts DEF IInv, FramesInv
<1>2. k \in DOMAIN frames \/ (k = L + 1 /\ k \notin DOMAIN frames)
  <2>1. k = L + 1 => k \notin DOMAIN frames
    BY <1>1
  <2>2. k \in DOMAIN frames \/ k = L \/ k = L + 1
    BY WorksItems
  <2> QED BY <1>1, <2>1, <2>2
<1>3. CASE k \notin DOMAIN frames
  <2>1. k = L + 1 /\ frames'[k].todo = visits(list)
    BY <1>3 DEF Works
  <2>2. j \in DOMAIN list /\ visits(list)[j] = do("visit", list[j])
    BY <2>1 DEF visits
  <2> QED BY <2>1, <2>2 DEF Came
<1>4. CASE k \in DOMAIN frames /\ k # L
  <2>1. frames'[k].todo = frames[k].todo
    BY <1>4 DEF Works
  <2> QED BY <1>4, <2>1 DEF Waited
<1>5. CASE k = L
  <2>1. k # L + 1 /\ DOMAIN items = 1 .. Len(items)
    <3>1. k # L + 1
      <4> HIDE DEF L
      <4> QED BY <1>1, <1>5
    <3>2. DOMAIN items = 1 .. Len(items)
      OBVIOUS
    <3> QED BY <3>1, <3>2
  <2>2. \/ j \in 1 .. Len(items) /\ frames'[k].todo[j] = items[j]
        \/ \E p \in 2 .. Len(frames[k].todo) :
             j = Len(items) + p - 1 /\ frames'[k].todo[j] = frames[k].todo[p]
    BY <1>5, <2>1, WorksItems
  <2>3. k \in DOMAIN frames /\ 2 .. Len(frames[k].todo) \subseteq DOMAIN frames[k].todo
    <3>1. k \in DOMAIN frames /\ frames[k].todo \in Seq(ItemAt(ast, k))
      BY <1>2, <1>5, HeadFacts DEF IInv, FramesInv
    <3> DEFINE S == ItemAt(ast, k)
               todo == frames[k].todo
    <3>2. todo \in Seq(S)
      BY <3>1
    <3> HIDE DEF S, todo
    <3>3. 2 .. Len(todo) \subseteq DOMAIN todo
      BY <3>2
    <3> QED BY <3>1, <3>3 DEF todo
  <2> QED BY <1>5, <2>1, <2>2, <2>3 DEF Came, Waited
<1> QED BY <1>2, <1>3, <1>4, <1>5

LEMMA TidyOrder ==
  ASSUME IInv, OrderInv, MeantInv, Running, Current.todo # << >>, ast' = ast,
         NEW items \in Seq(Item), NEW list, Works(items, list), Tidy(items, list)
  PROVE  OrderInv'
<1> DEFINE L == Len(frames)
           h == Head(Current.todo)
           what == h.do
<1>1. /\ L \in Nat /\ DOMAIN frames = 1 .. L /\ L \in DOMAIN frames
      /\ this \in DOMAIN ast.nodes /\ h.node = this /\ this \in Nat /\ IsAst(ast)
      /\ DOMAIN ast.nodes \subseteq Nat
  BY HeadFacts, TreeFacts DEF IInv, FramesInv, this
<1>2. ASSUME NEW k \in DOMAIN frames, NEW p \in DOMAIN frames[k].todo
      PROVE  frames[k].todo[p].node \in DOMAIN ast.nodes
  <2>1. frames[k].todo \in Seq(ItemAt(ast, k))
    BY DEF IInv, FramesInv
  <2> DEFINE S == ItemAt(ast, k)
             todo == frames[k].todo
  <2>2. \A i \in S : i.node \in DOMAIN ast.nodes
    BY DEF ItemAt, TopItem, InnerItem
  <2>3. todo \in Seq(S) /\ p \in DOMAIN todo
    BY <2>1
  <2> HIDE DEF S, todo
  <2>4. todo[p] \in S
    BY <2>3
  <2> QED BY <2>2, <2>4 DEF todo
<1> HIDE DEF h
<1>3. ASSUME NEW k \in DOMAIN frames, NEW p \in DOMAIN frames[k].todo, k # L \/ p # 1,
             frames[k].todo[p].do # "register", what # "register",
             NEW a, a.node \in Nat,
             \/ a.node < this
             \/ a.node = this /\ ((what \in Typing /\ at(this).kind \in Expression) => a.do \in Typing)
      PROVE  Later(a, frames[k].todo[p])
  <2> DEFINE b == frames[k].todo[p]
  <2>1. Later(h, b)
    BY <1>3, HeadIsFirst DEF h
  <2>2. b.node \in Nat /\ (b.do = "check_argument" => at(b.node).kind \in Expression)
    BY <1>1, <1>2, ArgumentsAreExpressions
  <2> HIDE DEF b
  <2>3. a.node < h.node \/ (a.node = h.node /\ (h.do \in Typing /\ b.node = h.node /\ b.do = "check_argument" => a.do \in Typing))
    BY <1>1, <1>3, <2>2
  <2>4. Later(a, b)
    BY <1>1, <1>3, <2>1, <2>2, <2>3, Carries
  <2> QED BY <2>4 DEF b
\* What the step leaves fits before everything that waited.
<1>4. ASSUME NEW k \in DOMAIN frames', NEW i \in DOMAIN frames'[k].todo, Came(items, list, k, i)
      PROVE  LET a == frames'[k].todo[i] IN
             /\ what # "register"
             /\ a.node \in Nat
             /\ \/ a.node < this
                \/ a.node = this /\ ((what \in Typing /\ at(this).kind \in Expression) => a.do \in Typing)
  <2>1. ASSUME NEW m, Child(ast, m, this)
        PROVE  m \in Nat /\ m < this
    BY <1>1, <2>1, ChildUnder
  <2>2. CASE k = Len(frames) /\ i \in DOMAIN items /\ frames'[k].todo[i] = items[i]
    <3>1. what # "register"
      BY <2>2 DEF Tidy, h
    <3>2. /\ items[i].node = this \/ Child(ast, items[i].node, this)
          /\ (items[i].node = this /\ what \in Typing /\ at(this).kind \in Expression) => items[i].do \in Typing
      BY <2>2 DEF Tidy, h
    <3> QED BY <1>1, <2>1, <2>2, <3>1, <3>2
  <2>3. CASE i \in DOMAIN list /\ frames'[k].todo[i] = do("visit", list[i])
    <3>1. what # "register" /\ Child(ast, list[i], this)
      BY <2>3 DEF Tidy, h
    <3>2. frames'[k].todo[i].node = list[i]
      BY <2>3 DEF do
    <3> QED BY <2>1, <3>1, <3>2
  <2> QED BY <1>4, <2>2, <2>3 DEF Came
<1>5. ASSUME NEW k \in DOMAIN frames', NEW l \in DOMAIN frames',
             NEW i \in DOMAIN frames'[k].todo, NEW j \in DOMAIN frames'[l].todo,
             l < k \/ (l = k /\ i < j),
             "register" \notin {frames'[k].todo[i].do, frames'[l].todo[j].do}
      PROVE  Later(frames'[k].todo[i], frames'[l].todo[j])
  <2>1. /\ Came(items, list, k, i) \/ Waited(items, k, i)
        /\ Came(items, list, l, j) \/ Waited(items, l, j)
    BY Origins
  <2>2. DOMAIN items = 1 .. Len(items) /\ Len(items) \in Nat
    OBVIOUS
  <2>3. ASSUME NEW f \in DOMAIN frames
        PROVE  DOMAIN frames[f].todo = 1 .. Len(frames[f].todo) /\ Len(frames[f].todo) \in Nat
    <3>1. frames[f].todo \in Seq(ItemAt(ast, f))
      BY DEF IInv, FramesInv
    <3> QED BY <3>1
  <2>4. CASE Came(items, list, k, i) /\ Came(items, list, l, j)
    <3>1. \/ k = L /\ i \in DOMAIN items /\ frames'[k].todo[i] = items[i]
          \/ k = L + 1 /\ i \in DOMAIN list /\ frames'[k].todo[i] = do("visit", list[i])
      BY <2>4 DEF Came
    <3>2. \/ l = L /\ j \in DOMAIN items /\ frames'[l].todo[j] = items[j]
          \/ l = L + 1 /\ j \in DOMAIN list /\ frames'[l].todo[j] = do("visit", list[j])
      BY <2>4 DEF Came
    <3>3. ~ (k = L /\ l = L + 1) /\ (k = l => i < j)
      <4>1. k \in {L, L + 1} /\ l \in {L, L + 1}
        BY <3>1, <3>2
      <4> HIDE DEF L
      <4> QED BY <1>1, <1>5, <4>1
    <3> QED BY <3>1, <3>2, <3>3 DEF Tidy
  <2>5. CASE Came(items, list, k, i) /\ Waited(items, l, j)
    <3>1. PICK q \in DOMAIN frames[l].todo :
            /\ l \in DOMAIN frames /\ frames'[l].todo[j] = frames[l].todo[q]
            /\ l = L => q \in 2 .. Len(frames[l].todo)
      BY <2>5 DEF Waited
    <3>2. l # L \/ q # 1
      BY <1>1, <3>1
    <3> QED BY <1>3, <1>4, <1>5, <2>5, <3>1, <3>2
  <2>6. CASE Waited(items, k, i) /\ Came(items, list, l, j)
    <3>1. PICK p \in DOMAIN frames[k].todo :
            /\ k \in DOMAIN frames
            /\ k = L => p \in 2 .. Len(frames[k].todo) /\ i = Len(items) + p - 1
      BY <2>6 DEF Waited
    <3>2. l \in {L, L + 1} /\ (l = L => j \in DOMAIN items)
      BY <2>6, <1>1 DEF Came
    <3>3. k = L /\ l = L /\ i < j
      BY <1>1, <1>5, <3>1, <3>2
    <3> QED BY <2>2, <2>3, <3>1, <3>2, <3>3
  <2>7. CASE Waited(items, k, i) /\ Waited(items, l, j)
    <3>1. PICK p \in DOMAIN frames[k].todo :
            /\ k \in DOMAIN frames
            /\ frames'[k].todo[i] = frames[k].todo[p]
            /\ k # L => p = i
            /\ k = L => p \in 2 .. Len(frames[k].todo) /\ i = Len(items) + p - 1
      BY <2>7 DEF Waited
    <3>2. PICK q \in DOMAIN frames[l].todo :
            /\ l \in DOMAIN frames
            /\ frames'[l].todo[j] = frames[l].todo[q]
            /\ l # L => q = j
            /\ l = L => q \in 2 .. Len(frames[l].todo) /\ j = Len(items) + q - 1
      BY <2>7 DEF Waited
    <3>3. l < k \/ (l = k /\ p < q)
      BY <1>1, <1>5, <2>2, <2>3, <3>1, <3>2
    <3> QED BY <1>5, <3>1, <3>2, <3>3 DEF OrderInv, Before
  <2> QED BY <2>1, <2>4, <2>5, <2>6, <2>7
<1>6. ASSUME NEW a, NEW b, Before(a, b)', "register" \notin {a.do, b.do}
      PROVE  Later(a, b)'
  <2>1. Later(a, b)
    BY <1>5, <1>6 DEF Before
  <2> QED BY <2>1, LaterStays
<1> QED BY <1>6 DEF OrderInv

\* The step keeps the owners of the frames, and opens one for its node.
Owned ==
    /\ \A k \in DOMAIN frames : frames'[k].owner = frames[k].owner
    /\ Len(frames) + 1 \in DOMAIN frames' => frames'[Len(frames) + 1].owner = this

LEMMA TidyWithin ==
  ASSUME IInv, WithinInv, Running, Current.todo # << >>, ast' = ast, Owned,
         NEW items \in Seq(Item), NEW list, Works(items, list), Tidy(items, list),
         Len(frames) = 1 => items = << >>
  PROVE  WithinInv'
<1> DEFINE L == Len(frames)
<1>1. /\ L \in Nat \ {0} /\ DOMAIN frames = 1 .. L /\ L \in DOMAIN frames
      /\ this \in DOMAIN ast.nodes /\ IsAst(ast)
  BY HeadFacts DEF IInv, FramesInv
<1>2. 1 \in DOMAIN Current.todo /\ Current.todo[1].node = this /\ frames[L].todo = Current.todo
  <2> DEFINE S == ItemAt(ast, L)
             todo == Current.todo
  <2>1. todo \in Seq(S) /\ todo # << >>
    BY HeadFacts
  <2> HIDE DEF S, todo
  <2>2. 1 \in DOMAIN todo /\ Head(todo) = todo[1]
    BY <2>1
  <2> QED BY <2>2 DEF todo, this, Current
<1>3. ASSUME NEW m, m = this \/ Child(ast, m, this), NEW n \in DOMAIN ast.nodes, Under(ast, this, n)
      PROVE  Under(ast, m, n)
  BY <1>1, <1>3, ChildUnder, Transitive
<1>4. L # 1 => /\ Under(ast, this, frames[2].owner) /\ frames[2].owner \in DOMAIN ast.nodes
               /\ frames'[2].owner = frames[2].owner
  <2> SUFFICES ASSUME L # 1 PROVE /\ Under(ast, this, frames[2].owner) /\ frames[2].owner \in DOMAIN ast.nodes
                                 /\ frames'[2].owner = frames[2].owner
    OBVIOUS
  <2>1. 2 \in DOMAIN frames
    <3> HIDE DEF L
    <3> QED BY <1>1
  <2>2. frames[2].owner \in OwnerAt(ast, 2) /\ frames'[2].owner = frames[2].owner
    BY <2>1 DEF IInv, FramesInv, Owned
  <2>3. frames[2].owner \in DOMAIN ast.nodes
    BY <2>2 DEF OwnerAt
  <2>4. Under(ast, frames[L].todo[1].node, frames[2].owner)
    BY <1>1, <1>2 DEF WithinInv
  <2> QED BY <1>2, <2>2, <2>3, <2>4
<1>5. ASSUME NEW k \in DOMAIN frames', k # 1, NEW j \in DOMAIN frames'[k].todo
      PROVE  Under(ast, frames'[k].todo[j].node, frames'[2].owner)
  <2>1. CASE Came(items, list, k, j)
    <3>1. CASE k = L /\ j \in DOMAIN items /\ frames'[k].todo[j] = items[j]
      <4>1. items[j].node = this \/ Child(ast, items[j].node, this)
        BY <3>1 DEF Tidy
      <4> QED BY <1>3, <1>4, <1>5, <3>1, <4>1
    <3>2. CASE k = L + 1 /\ j \in DOMAIN list /\ frames'[k].todo[j] = do("visit", list[j])
      <4>1. Child(ast, list[j], this) /\ frames'[k].todo[j].node = list[j]
        BY <3>2 DEF Tidy, do
      <4>2. CASE L = 1
        <5>1. frames'[2].owner = this
          <6>1. L + 1 = 2
            <7> HIDE DEF L
            <7> QED BY <4>2
          <6> QED BY <3>2, <6>1 DEF Owned
        <5> QED BY <1>1, <4>1, <5>1, ChildUnder
      <4> QED BY <1>3, <1>4, <4>1, <4>2
    <3> QED BY <2>1, <3>1, <3>2 DEF Came
  <2>2. CASE Waited(items, k, j)
    <3>1. PICK p \in DOMAIN frames[k].todo :
            k \in DOMAIN frames /\ frames'[k].todo[j] = frames[k].todo[p]
      BY <2>2 DEF Waited
    <3>2. Under(ast, frames[k].todo[p].node, frames[2].owner)
      BY <1>5, <3>1 DEF WithinInv
    <3>3. L # 1
      <4> HIDE DEF L
      <4> QED BY <1>1, <1>5, <3>1
    <3> QED BY <1>4, <3>1, <3>2, <3>3
  <2> QED BY <2>1, <2>2, Origins
<1> QED BY <1>5 DEF WithinInv, Under

LEMMA MeantStays ==
  ASSUME ast' = ast, NEW item, EntryMeant(item)
  PROVE  EntryMeant(item)'
BY DEF EntryMeant, Callee, at

LEMMA TidyMeant ==
  ASSUME IInv, MeantInv, Running, Current.todo # << >>, ast' = ast,
         NEW items \in Seq(Item), NEW list, Works(items, list), \A j \in DOMAIN items : EntryMeant(items[j])
  PROVE  MeantInv'
<1>1. ASSUME NEW k \in DOMAIN frames', NEW j \in DOMAIN frames'[k].todo
      PROVE  EntryMeant(frames'[k].todo[j])
  <2>1. CASE Came(items, list, k, j)
    <3>1. CASE frames'[k].todo[j] = do("visit", list[j])
      BY <3>1 DEF EntryMeant, do
    <3> QED BY <2>1, <3>1 DEF Came
  <2>2. CASE Waited(items, k, j)
    BY <2>2 DEF Waited, MeantInv, Waiting
  <2> QED BY <2>1, <2>2, Origins
<1>2. ASSUME NEW item, Waiting(item)'
      PROVE  EntryMeant(item)'
  BY <1>1, <1>2, MeantStays DEF Waiting
<1> QED BY <1>2 DEF MeantInv

-------------------------------------------------------------------------------
(* In the first validation a node that is still to be typed has the type it *)
(* was made with, and one that is still to be read has its type or is to    *)
(* get it before.                                                           *)

TypeOf(n) == TypesOf(ast)[n]

\* The first validation begins with the types the nodes were made with.
RoundInv ==
    round = 0 => ~ Running /\ \A n \in DOMAIN ast.nodes : result_type[n] = initial_type(at(n))

\* What is still to be typed has the type it was made with.
FreshInv ==
    round = 1 => \A what, m : Pending(what, m) =>
      \A n \in DOMAIN ast.nodes : Untyped(what, m, n) => result_type[n] = initial_type(at(n))

\* What is still to be read has its type, or is to get it first.
TypedInv ==
    round = 1 => \A what, m : Pending(what, m) =>
      \A o \in DOMAIN ast.nodes : Consumes(what, m, o) =>
        result_type[o] = TypeOf(o) \/ \E w \in Typing : Pending(w, o)

\* What a step that leaves items and list does to the types.
Writes ==
    \A o \in DOMAIN ast.nodes :
      \/ result_type'[o] = result_type[o]
      \/ o = this /\ Head(Current.todo).do \in Typing
      \/ Consumes(Head(Current.todo).do, this, o)

Gets(items) ==
    (Head(Current.todo).do \in Typing /\ at(this).kind \in Expression) =>
      result_type'[this] = TypeOf(this) \/ \E w \in Typing : Left(items, w, this)

Asks(items) ==
    \A what, m : Left(items, what, m) =>
      \A o \in DOMAIN ast.nodes : Consumes(what, m, o) => \E w \in Typing : Left(items, w, o)

Spares(items, list) ==
    \A n \in DOMAIN ast.nodes :
      (\/ \E what, m : Left(items, what, m) /\ Untyped(what, m, n)
       \/ \E i \in DOMAIN list : Under(ast, n, list[i]))
      => Untyped(Head(Current.todo).do, this, n) /\ result_type'[n] = result_type[n]

LEMMA HeadPending ==
  ASSUME IInv, Running, Current.todo # << >>
  PROVE  Pending(Head(Current.todo).do, this) /\ this \in DOMAIN ast.nodes
<1>1. Len(frames) \in DOMAIN frames /\ frames[Len(frames)].todo = Current.todo /\ this \in DOMAIN ast.nodes
  BY HeadFacts DEF Current
<1> DEFINE S == ItemAt(ast, Len(frames))
           todo == Current.todo
<1>2. todo \in Seq(S) /\ todo # << >>
  BY HeadFacts
<1> HIDE DEF S, todo
<1>3. 1 \in DOMAIN todo /\ Head(todo) = todo[1]
  BY <1>2
<1> QED BY <1>1, <1>3 DEF todo, Pending, this

\* What an item is tells which node it is for.
LEMMA PendingFacts ==
  ASSUME IInv, MeantInv, NEW what, NEW m, Pending(what, m)
  PROVE  /\ m \in DOMAIN ast.nodes
         /\ what = "type_binary_op" => at(m).kind = "BinaryOp"
         /\ what = "type_unary_op" => at(m).kind = "UnaryOp"
         /\ what \in Judging => at(m).kind # "FunctionCall"
         /\ what = "check_argument" =>
              \E c \in DOMAIN ast.nodes : at(c).kind = "FunctionCall" /\ Child(ast, m, c)
<1>1. PICK k \in DOMAIN frames : \E j \in DOMAIN frames[k].todo :
        frames[k].todo[j].do = what /\ frames[k].todo[j].node = m
  BY DEF Pending
<1>2. PICK j \in DOMAIN frames[k].todo : frames[k].todo[j].do = what /\ frames[k].todo[j].node = m
  BY <1>1
<1>3. frames[k].todo[j] \in ItemAt(ast, k)
  <2> DEFINE S == ItemAt(ast, k)
             todo == frames[k].todo
  <2>1. todo \in Seq(S) /\ j \in DOMAIN todo
    BY DEF IInv, FramesInv
  <2> HIDE DEF S, todo
  <2>2. todo[j] \in S
    BY <2>1
  <2> QED BY <2>2 DEF S, todo
<1>4. m \in DOMAIN ast.nodes /\ (what \notin {"register", "visit"} => Fits(ast, frames[k].todo[j]))
  BY <1>2, <1>3 DEF ItemAt, TopItem, InnerItem
<1>5. /\ what = "type_binary_op" => at(m).kind = "BinaryOp"
      /\ what = "type_unary_op" => at(m).kind = "UnaryOp"
      /\ what \in Judging => at(m).kind # "FunctionCall"
  BY <1>2, <1>4 DEF Fits, at, Judging
<1>6. what = "check_argument" => \E c \in DOMAIN ast.nodes : at(c).kind = "FunctionCall" /\ Child(ast, m, c)
  BY <1>2, ArgumentsAreExpressions
<1> QED BY <1>4, <1>5, <1>6

\* What is pending after a step was left by it, or was pending and is done later.
LEMMA Remaining ==
  ASSUME IInv, OrderInv, Running, Current.todo # << >>,
         NEW items \in Seq(Item), NEW list, Works(items, list), NEW what, NEW m, Pending(what, m)'
  PROVE  \/ Left(items, what, m)
         \/ what = "visit" /\ \E i \in DOMAIN list : list[i] = m
         \/ /\ Pending(what, m)
            /\ "register" \notin {Head(Current.todo).do, what} => Later(Head(Current.todo), do(what, m))
<1>1. PICK k \in DOMAIN frames' : \E j \in DOMAIN frames'[k].todo :
        frames'[k].todo[j].do = what /\ frames'[k].todo[j].node = m
  BY DEF Pending
<1>2. PICK j \in DOMAIN frames'[k].todo : frames'[k].todo[j].do = what /\ frames'[k].todo[j].node = m
  BY <1>1
<1>3. CASE Came(items, list, k, j)
  BY <1>2, <1>3 DEF Came, Left, do
<1>4. CASE Waited(items, k, j)
  <2>1. PICK p \in DOMAIN frames[k].todo :
          /\ k \in DOMAIN frames
          /\ frames'[k].todo[j] = frames[k].todo[p]
          /\ k = Len(frames) => p \in 2 .. Len(frames[k].todo)
    BY <1>4 DEF Waited
  <2>2. Pending(what, m)
    BY <1>2, <2>1 DEF Pending
  <2>3. k # Len(frames) \/ p # 1
    BY <2>1
  <2>4. "register" \notin {Head(Current.todo).do, what} => Later(Head(Current.todo), frames[k].todo[p])
    BY <1>2, <2>1, <2>3, HeadIsFirst
  <2>5. Later(Head(Current.todo), frames[k].todo[p]) => Later(Head(Current.todo), do(what, m))
    BY <1>2, <2>1 DEF Later, do
  <2> QED BY <2>2, <2>4, <2>5
<1> QED BY <1>3, <1>4, Origins

\* The step changes only types of nodes up to its own.
LEMMA WritesBelow ==
  ASSUME IInv, Running, Current.todo # << >>, Writes,
         NEW o \in DOMAIN ast.nodes, result_type'[o] # result_type[o]
  PROVE  o <= this /\ Head(Current.todo).do # "register"
<1>1. this \in DOMAIN ast.nodes /\ DOMAIN ast.nodes \subseteq Nat /\ IsAst(ast)
  BY HeadPending, TreeFacts DEF IInv
<1>2. o = this \/ o \in Range(at(this).operands)
  BY DEF Writes, Consumes
<1>3. o <= this
  <2>1. o \in Range(at(this).operands) => o < this
    BY <1>1, OperandUnder, ChildUnder
  <2> QED BY <1>1, <1>2, <2>1
<1>4. Head(Current.todo).do # "register"
  BY DEF Writes, Consumes, Typing, Judging
<1> QED BY <1>3, <1>4

LEMMA FreshStep ==
  ASSUME IInv, OrderInv, FreshInv, Running, Current.todo # << >>, ast' = ast, round' = round,
         NEW items \in Seq(Item), NEW list, Works(items, list),
         round = 1 => Writes /\ Spares(items, list)
  PROVE  FreshInv'
<1> DEFINE h == Head(Current.todo)
<1>1. ASSUME round = 1, NEW what, NEW m, Pending(what, m)', NEW n \in DOMAIN ast.nodes, Untyped(what, m, n)
      PROVE  result_type'[n] = initial_type(at(n))
  <2>1. Writes /\ Spares(items, list) /\ this \in DOMAIN ast.nodes /\ DOMAIN ast.nodes \subseteq Nat
    BY <1>1, HeadPending, TreeFacts DEF IInv
  <2>2. ASSUME Untyped(h.do, this, n), result_type'[n] = result_type[n]
        PROVE  result_type'[n] = initial_type(at(n))
    BY <1>1, <2>2, HeadPending DEF FreshInv
  <2>3. CASE Left(items, what, m)
    BY <1>1, <2>1, <2>2, <2>3 DEF Spares
  <2>4. CASE what = "visit" /\ \E i \in DOMAIN list : list[i] = m
    <3>1. Under(ast, n, m)
      BY <1>1, <2>4 DEF Untyped, Awaits
    <3> QED BY <2>1, <2>2, <2>4, <3>1 DEF Spares
  <2>5. CASE Pending(what, m) /\ ("register" \notin {h.do, what} => Later(h, do(what, m)))
    <3>1. result_type[n] = initial_type(at(n))
      BY <1>1, <2>5 DEF FreshInv
    <3>2. what # "register"
      BY <1>1 DEF Untyped, Awaits
    <3>3. Later(h, do(what, m)) => this < n
      BY <1>1 DEF Later, do, this
    <3>4. h.do # "register" => ~ (n <= this)
      BY <2>1, <2>5, <3>2, <3>3
    <3> QED BY <2>1, <3>1, <3>4, WritesBelow
  <2> QED BY <1>1, <2>3, <2>4, <2>5, Remaining
<1>2. /\ \A what, m, n : Untyped(what, m, n)' <=> Untyped(what, m, n)
      /\ \A n : initial_type(at(n))' = initial_type(at(n))
  BY DEF Untyped, Awaits, at
<1> QED BY <1>1, <1>2 DEF FreshInv

\* Nothing is read by two items: a node has one parent.
LEMMA ReadOnce ==
  ASSUME IInv, MeantInv, Running, Current.todo # << >>, NEW what, NEW m, Pending(what, m),
         Later(Head(Current.todo), do(what, m)), NEW o \in DOMAIN ast.nodes,
         Consumes(what, m, o), Consumes(Head(Current.todo).do, this, o)
  PROVE  FALSE
<1> DEFINE h == Head(Current.todo)
<1>1. /\ this \in DOMAIN ast.nodes /\ m \in DOMAIN ast.nodes /\ DOMAIN ast.nodes \subseteq Nat /\ IsAst(ast)
      /\ Pending(h.do, this)
  BY HeadPending, PendingFacts, TreeFacts DEF IInv
<1>2. this < m \/ (this = m /\ h.do \in Typing /\ what = "check_argument")
  BY DEF Later, do, this
<1>3. \A n \in DOMAIN ast.nodes : o \in Range(at(n).operands) => Child(ast, o, n) /\ o < n
  BY <1>1, OperandUnder, ChildUnder
<1>4. CASE h.do = "check_argument" /\ o = this
  <2>1. PICK c \in DOMAIN ast.nodes : at(c).kind = "FunctionCall" /\ Child(ast, o, c)
    BY <1>1, <1>4, PendingFacts
  <2>2. what \in Judging /\ o \in Range(at(m).operands)
    BY <1>1, <1>2, <1>4 DEF Consumes, Typing
  <2>3. at(m).kind # "FunctionCall" /\ c = m
    BY <1>1, <1>3, <2>1, <2>2, PendingFacts, OneParent
  <2> QED BY <2>1, <2>3
<1>5. CASE h.do \in Judging /\ o \in Range(at(this).operands)
  <2>1. CASE what = "check_argument" /\ o = m
    BY <1>1, <1>2, <1>3, <1>5, <2>1
  <2>2. CASE what \in Judging /\ o \in Range(at(m).operands)
    <3>1. this = m
      BY <1>1, <1>3, <1>5, <2>2, OneParent
    <3> QED BY <1>1, <1>2, <2>2, <3>1 DEF Judging
  <2> QED BY <2>1, <2>2 DEF Consumes
<1> QED BY <1>4, <1>5 DEF Consumes

LEMMA TypedStep ==
  ASSUME IInv, OrderInv, MeantInv, TypedInv, Running, Current.todo # << >>, ast' = ast, round' = round,
         NEW items \in Seq(Item), NEW list, Works(items, list),
         round = 1 => Writes /\ Gets(items) /\ Asks(items)
  PROVE  TypedInv'
<1> DEFINE h == Head(Current.todo)
<1>1. ASSUME round = 1, NEW what, NEW m, Pending(what, m)', NEW o \in DOMAIN ast.nodes, Consumes(what, m, o)
      PROVE  result_type'[o] = TypeOf(o) \/ \E w \in Typing : Pending(w, o)'
  <2>1. Writes /\ Gets(items) /\ Asks(items) /\ this \in DOMAIN ast.nodes /\ DOMAIN ast.nodes \subseteq Nat
    BY <1>1, HeadPending, TreeFacts DEF IInv
  <2>2. \A w, n : Left(items, w, n) => Pending(w, n)'
    BY WorksPending
  <2>3. CASE Left(items, what, m)
    <3>1. \E w \in Typing : Left(items, w, o)
      BY <1>1, <2>1, <2>3 DEF Asks
    <3> QED BY <2>2, <3>1
  <2>4. CASE what = "visit"
    BY <1>1, <2>4 DEF Consumes, Judging
  <2>5. CASE Pending(what, m) /\ ("register" \notin {h.do, what} => Later(h, do(what, m)))
    <3>1. ASSUME o = this, h.do \in Typing
          PROVE  result_type'[o] = TypeOf(o) \/ \E w \in Typing : Pending(w, o)'
      <4>1. at(o).kind \in Expression
        <5>1. CASE what = "check_argument" /\ o = m
          <6>1. PICK k \in DOMAIN frames : \E j \in DOMAIN frames[k].todo :
                  frames[k].todo[j].do = what /\ frames[k].todo[j].node = m
            BY <2>5 DEF Pending
          <6> QED BY <5>1, <6>1, ArgumentsAreExpressions
        <5>2. CASE o \in Range(at(m).operands)
          BY <2>5, <5>2, PendingFacts, OperandUnder DEF IInv
        <5> QED BY <1>1, <5>1, <5>2 DEF Consumes
      <4>2. result_type'[o] = TypeOf(o) \/ \E w \in Typing : Left(items, w, o)
        BY <2>1, <3>1, <4>1 DEF Gets
      <4> QED BY <2>2, <4>2
    <3>2. CASE result_type[o] = TypeOf(o)
      <4>1. CASE result_type'[o] = result_type[o]
        BY <3>2, <4>1
      <4>2. CASE o = this /\ h.do \in Typing
        BY <3>1, <4>2
      <4>3. CASE Consumes(h.do, this, o)
        <5>1. "register" \notin {h.do, what}
          BY <1>1, <4>3 DEF Consumes, Judging
        <5> QED BY <1>1, <2>5, <4>3, <5>1, ReadOnce
      <4> QED BY <2>1, <4>1, <4>2, <4>3 DEF Writes
    <3>3. CASE \E w \in Typing : Pending(w, o)
      <4>1. PICK w \in Typing : Pending(w, o)
        BY <3>3
      <4>2. Pending(w, o)' \/ (h.do = w /\ this = o)
        BY <4>1, WorksPending DEF Keeps
      <4> QED BY <3>1, <4>1, <4>2
    <3> QED BY <1>1, <2>5, <3>2, <3>3 DEF TypedInv
  <2> QED BY <1>1, <2>3, <2>4, <2>5, Remaining
<1>2. /\ \A what, m, n : Consumes(what, m, n)' <=> Consumes(what, m, n)
      /\ \A n : TypeOf(n)' = TypeOf(n)
  BY DEF Consumes, at, TypeOf
<1> QED BY <1>1, <1>2 DEF TypedInv

\* What a step reads has its type, what it types has the one it was made with.
LEMMA ReadsTyped ==
  ASSUME IInv, OrderInv, MeantInv, TypedInv, round = 1, Running, Current.todo # << >>,
         NEW o \in DOMAIN ast.nodes, Consumes(Head(Current.todo).do, this, o)
  PROVE  result_type[o] = TypeOf(o)
<1> DEFINE h == Head(Current.todo)
<1>1. /\ this \in DOMAIN ast.nodes /\ DOMAIN ast.nodes \subseteq Nat /\ IsAst(ast) /\ Pending(h.do, this)
  BY HeadPending, TreeFacts DEF IInv
<1>2. h.do \notin {"register"} /\ (o = this => h.do \notin Typing) /\ o <= this
  <2>1. CASE h.do = "check_argument" /\ o = this
    BY <1>1, <2>1 DEF Typing
  <2>2. CASE h.do \in Judging /\ o \in Range(at(this).operands)
    <3>1. o < this
      BY <1>1, <2>2, OperandUnder, ChildUnder
    <3> QED BY <1>1, <2>2, <3>1 DEF Judging
  <2> QED BY <2>1, <2>2 DEF Consumes
<1>3. ASSUME NEW w \in Typing, Pending(w, o)
      PROVE  FALSE
  <2>1. PICK k \in DOMAIN frames : \E j \in DOMAIN frames[k].todo :
          frames[k].todo[j].do = w /\ frames[k].todo[j].node = o
    BY <1>3 DEF Pending
  <2>2. PICK j \in DOMAIN frames[k].todo : frames[k].todo[j].do = w /\ frames[k].todo[j].node = o
    BY <2>1
  <2>3. k # Len(frames) \/ j # 1
    <3>1. ASSUME k = Len(frames), j = 1
          PROVE  h = frames[k].todo[j]
      <4> DEFINE S == ItemAt(ast, Len(frames))
                 todo == Current.todo
      <4>1. todo \in Seq(S) /\ todo # << >>
        BY HeadFacts
      <4> HIDE DEF S, todo
      <4>2. Head(todo) = todo[1]
        BY <4>1
      <4> QED BY <3>1, <4>2 DEF todo, Current
    <3> QED BY <1>2, <2>2, <3>1 DEF this
  <2>4. Later(h, frames[k].todo[j])
    BY <1>2, <2>2, <2>3, HeadIsFirst DEF Typing
  <2>5. Untyped(w, o, o)
    BY <1>1, UnderFacts DEF Untyped, Awaits, Typing
  <2>6. this < o
    BY <2>2, <2>4, <2>5 DEF Later, this
  <2> QED BY <1>1, <1>2, <2>6
<1> QED BY <1>1, <1>3 DEF TypedInv

LEMMA TypesFresh ==
  ASSUME IInv, FreshInv, round = 1, Running, Current.todo # << >>, Head(Current.todo).do \in Typing
  PROVE  result_type[this] = initial_type(at(this))
<1>1. Pending(Head(Current.todo).do, this) /\ this \in DOMAIN ast.nodes
  BY HeadPending
<1>2. Untyped(Head(Current.todo).do, this, this)
  BY <1>1, UnderFacts DEF Untyped, Awaits, Typing, IInv
<1> QED BY <1>1, <1>2 DEF FreshInv

-------------------------------------------------------------------------------
(* Without an error, whatever is not yet known to be legal is still to be   *)
(* judged; an error is for a node that is not.                              *)

LegalHere(n) == LegalNode(ast, TypesOf(ast), n)

Judgeable == Kind \ (Literal \cup Declaration)

\* What LegalNode asks of n but for the arguments of a call, which are judged
\* one by one.
Obeys(n) ==
    LET node == at(n)
        decl == Resolve(ast, n)
        value == IF has_value(node) THEN TypeOf(node.operands[1]) ELSE NoType
        returned == at(EnclosingFunction(ast, n)).type
    IN  CASE node.kind = "VariableAssignment" ->
               /\ decl # NoNode
               /\ at(decl).kind = "VariableDeclaration" => check_type_assignment(value, at(decl).type)
          [] node.kind = "FunctionCall" -> Callee(n)
          [] node.kind = "FunctionReturn" ->
               /\ has_value(node) <=> returned # UNDEF
               /\ has_value(node) => check_type_assignment(value, returned)
          [] node.kind = "If" -> value = BOOL
          [] OTHER -> TypeOf(n) # NoType

ArgumentFits(c, i) ==
    /\ Callee(c)
    /\ check_type_assignment(TypeOf(at(c).operands[i]), at(at(Resolve(ast, c)).params[i]).type)

\* The item decides whether n obeys, or leads to the one that does.
Judges(what, m, n) == Awaits(what, m, n) \/ (what \in Judging /\ n = m)

Delivers(what, m, c, i) ==
    Awaits(what, m, c) \/ (what \in {"argument", "check_argument"} /\ m = at(c).operands[i])

\* Errors are reported for trees that break a rule only.
BlamedInv == (round = 1 /\ errors # << >>) => \E n \in DOMAIN ast.nodes : ~ LegalHere(n)

JudgedInv == (round = 1 /\ errors = << >>) =>
    \A n \in DOMAIN ast.nodes : at(n).kind \in Judgeable =>
      Obeys(n) \/ \E what, m : Pending(what, m) /\ Judges(what, m, n)

PassedInv == (round = 1 /\ errors = << >>) =>
    \A c \in DOMAIN ast.nodes : at(c).kind = "FunctionCall" => \A i \in DOMAIN at(c).operands :
      ArgumentFits(c, i) \/ \E what, m : Pending(what, m) /\ Delivers(what, m, c, i)

VerdictInv ==
    /\ OrderInv /\ WithinInv /\ MeantInv
    /\ RoundInv /\ FreshInv /\ TypedInv
    /\ BlamedInv /\ JudgedInv /\ PassedInv

-------------------------------------------------------------------------------
(* What a step owes them. *)

\* An error is reported for a reason.
Blames == errors' = errors \/ \E n \in DOMAIN ast.nodes : ~ LegalHere(n)

\* A visitor passes on what is below its node.
Relays(items, list) ==
    \A n \in DOMAIN ast.nodes :
      (at(n).kind \in Judgeable /\ Awaits(Head(Current.todo).do, this, n) /\ n # this) =>
        \/ \E what, m : Left(items, what, m) /\ Awaits(what, m, n)
        \/ \E i \in DOMAIN list : Under(ast, n, list[i])

\* It judges its own node, or leaves that for later.
Decides(items) ==
    (at(this).kind \in Judgeable /\ Judges(Head(Current.todo).do, this, this)) =>
      Obeys(this) \/ \E what, m : Left(items, what, m) /\ Judges(what, m, this)

\* A call leaves its arguments to be visited and checked.
Checks(items) ==
    LET what == Head(Current.todo).do IN
    /\ (what = "visit" /\ at(this).kind = "FunctionCall") =>
         \A i \in DOMAIN at(this).operands : Left(items, "argument", at(this).operands[i])
    /\ what = "argument" => Left(items, "visit", this) /\ Left(items, "check_argument", this)
    /\ what = "check_argument" =>
         \A c \in DOMAIN ast.nodes : at(c).kind = "FunctionCall" =>
           \A i \in DOMAIN at(c).operands : this = at(c).operands[i] => ArgumentFits(c, i)

Owes(items, list) ==
    /\ Tidy(items, list)
    /\ \A j \in DOMAIN items : EntryMeant(items[j])
    /\ Len(frames) = 1 => items = << >>
    /\ round = 1 =>
         /\ Writes /\ Gets(items) /\ Asks(items) /\ Spares(items, list)
         /\ Blames
         /\ errors' = << >> => Relays(items, list) /\ Decides(items) /\ Checks(items)

LEMMA RulesStay ==
  ASSUME ast' = ast
  PROVE  /\ \A n : LegalHere(n)' <=> LegalHere(n)
         /\ \A n : Obeys(n)' <=> Obeys(n)
         /\ \A n, i : ArgumentFits(n, i)' <=> ArgumentFits(n, i)
         /\ \A what, m, n : Awaits(what, m, n)' <=> Awaits(what, m, n)
         /\ \A what, m, n : Judges(what, m, n)' <=> Judges(what, m, n)
         /\ \A what, m, c, i : Delivers(what, m, c, i)' <=> Delivers(what, m, c, i)
<1>1. \A n : LegalHere(n)' <=> LegalHere(n)
  BY DEF LegalHere
<1>2. \A n : Obeys(n)' <=> Obeys(n)
  BY DEF Obeys, Callee, TypeOf, at
<1>3. \A n, i : ArgumentFits(n, i)' <=> ArgumentFits(n, i)
  BY DEF ArgumentFits, Callee, TypeOf, at
<1>4. \A what, m, n : Awaits(what, m, n)' <=> Awaits(what, m, n)
  BY DEF Awaits, at
<1>5. \A what, m, n : Judges(what, m, n)' <=> Judges(what, m, n)
  BY <1>4 DEF Judges
<1>6. \A what, m, c, i : Delivers(what, m, c, i)' <=> Delivers(what, m, c, i)
  BY <1>4 DEF Delivers, at
<1> QED BY <1>1, <1>2, <1>3, <1>4, <1>5, <1>6

\* What the step passes on, it leaves pending.
LEMMA PassedOn ==
  ASSUME IInv, Running, Current.todo # << >>, NEW items \in Seq(Item), NEW list, Works(items, list),
         NEW n, \/ \E what, m : Left(items, what, m) /\ Awaits(what, m, n)
                \/ \E i \in DOMAIN list : Under(ast, n, list[i])
  PROVE  \E what, m : Pending(what, m)' /\ Awaits(what, m, n)
<1>1. CASE \E what, m : Left(items, what, m) /\ Awaits(what, m, n)
  BY <1>1, WorksPending
<1>2. CASE \E i \in DOMAIN list : Under(ast, n, list[i])
  BY <1>2, WorksPending DEF Awaits
<1> QED BY <1>1, <1>2

LEMMA JudgedStep ==
  ASSUME IInv, JudgedInv, Running, Current.todo # << >>, ast' = ast, round' = round, ErrorsStay,
         NEW items \in Seq(Item), NEW list, Works(items, list), Owes(items, list)
  PROVE  JudgedInv'
<1>1. ASSUME round = 1, errors' = << >>, NEW n \in DOMAIN ast.nodes, at(n).kind \in Judgeable
      PROVE  Obeys(n) \/ \E what, m : Pending(what, m)' /\ Judges(what, m, n)
  <2>1. Relays(items, list) /\ Decides(items)
    BY <1>1 DEF Owes
  <2>2. SUFFICES ASSUME NEW what, NEW m, Pending(what, m), Judges(what, m, n)
                 PROVE  Obeys(n) \/ \E w, o : Pending(w, o)' /\ Judges(w, o, n)
    BY <1>1 DEF JudgedInv, ErrorsStay
  <2>3. CASE Pending(what, m)'
    BY <2>2, <2>3
  <2>4. CASE Head(Current.todo).do = what /\ this = m
    <3>1. CASE n = this
      <4>1. Obeys(n) \/ \E w, o : Left(items, w, o) /\ Judges(w, o, n)
        BY <1>1, <2>1, <2>2, <2>4, <3>1 DEF Decides
      <4> QED BY <4>1, WorksPending
    <3>2. CASE n # this
      <4>1. Awaits(what, m, n)
        BY <2>2, <2>4, <3>2 DEF Judges
      <4>2. \/ \E w, o : Left(items, w, o) /\ Awaits(w, o, n)
            \/ \E i \in DOMAIN list : Under(ast, n, list[i])
        BY <1>1, <2>1, <2>4, <3>2, <4>1 DEF Relays
      <4>3. \E w, o : Pending(w, o)' /\ Awaits(w, o, n)
        BY <4>2, PassedOn
      <4> QED BY <4>3 DEF Judges
    <3> QED BY <3>1, <3>2
  <2> QED BY <2>2, <2>3, <2>4, WorksPending DEF Keeps
<1> QED
  <2>1. \A n : at(n)' = at(n)
    BY DEF at
  <2> QED BY <1>1, <2>1, RulesStay DEF JudgedInv

LEMMA PassedStep ==
  ASSUME IInv, MeantInv, PassedInv, Running, Current.todo # << >>, ast' = ast, round' = round, ErrorsStay,
         NEW items \in Seq(Item), NEW list, Works(items, list), Owes(items, list)
  PROVE  PassedInv'
<1> DEFINE h == Head(Current.todo)
<1>1. ASSUME round = 1, errors' = << >>, NEW c \in DOMAIN ast.nodes, at(c).kind = "FunctionCall",
             NEW i \in DOMAIN at(c).operands
      PROVE  ArgumentFits(c, i) \/ \E what, m : Pending(what, m)' /\ Delivers(what, m, c, i)
  <2>1. Relays(items, list) /\ Checks(items) /\ at(c).kind \in Judgeable
    BY <1>1 DEF Owes, Judgeable, Kind, Literal, Declaration, Expression
  <2>2. SUFFICES ASSUME NEW what, NEW m, Pending(what, m), Delivers(what, m, c, i)
                 PROVE  ArgumentFits(c, i) \/ \E w, o : Pending(w, o)' /\ Delivers(w, o, c, i)
    BY <1>1 DEF PassedInv, ErrorsStay
  <2>3. CASE Pending(what, m)'
    BY <2>2, <2>3
  <2>4. CASE h.do = what /\ this = m
    <3>1. CASE Awaits(what, m, c) /\ c # this
      <4>1. \/ \E w, o : Left(items, w, o) /\ Awaits(w, o, c)
            \/ \E j \in DOMAIN list : Under(ast, c, list[j])
        BY <1>1, <2>1, <2>4, <3>1 DEF Relays
      <4>2. \E w, o : Pending(w, o)' /\ Awaits(w, o, c)
        BY <4>1, PassedOn
      <4> QED BY <4>2 DEF Delivers
    <3>2. CASE h.do = "argument"
      <4>1. Left(items, "visit", this) /\ Left(items, "check_argument", this)
        BY <2>1, <3>2 DEF Checks
      <4>2. Pending("visit", m)' /\ Pending("check_argument", m)'
        BY <2>4, <4>1, WorksPending
      <4>3. CASE Awaits(what, m, c)
        <5>1. Awaits("visit", m, c)
          BY <2>4, <3>2, <4>3 DEF Awaits
        <5> QED BY <4>2, <5>1 DEF Delivers
      <4>4. CASE m = at(c).operands[i]
        BY <4>2, <4>4 DEF Delivers
      <4> QED BY <2>2, <2>4, <4>3, <4>4 DEF Delivers
    <3>3. CASE h.do = "check_argument"
      <4>1. this = at(c).operands[i]
        BY <2>2, <2>4, <3>3 DEF Delivers, Awaits
      <4> QED BY <1>1, <2>1, <3>3, <4>1 DEF Checks
    <3>4. CASE Awaits(what, m, c) /\ c = this /\ h.do = "visit"
      <4>1. Left(items, "argument", at(this).operands[i])
        BY <1>1, <2>1, <3>4 DEF Checks
      <4>2. PICK o : o = at(c).operands[i]
        OBVIOUS
      <4>3. Pending("argument", o)'
        BY <3>4, <4>1, <4>2, WorksPending
      <4> QED BY <4>2, <4>3 DEF Delivers
    <3>5. CASE Awaits(what, m, c) /\ c = this /\ h.do \in {"check_condition", "else_block"}
      <4>1. \E d \in Range(at(this).body) \cup Range(at(this).orelse) : Under(ast, this, d)
        BY <2>4, <3>5 DEF Awaits
      <4>2. PICK d \in Range(at(this).body) \cup Range(at(this).orelse) : Under(ast, this, d)
        BY <4>1
      <4>3. Child(ast, d, this)
        <5>1. /\ At(at(this).body, Len(at(this).operands) + Len(at(this).params), Children(at(this)))
              /\ At(at(this).orelse, Len(at(this).operands) + Len(at(this).params) + Len(at(this).body), Children(at(this)))
          BY <1>1, <3>5, Sections DEF IInv, at
        <5> QED BY <4>2, <5>1 DEF At, Child, Range, at
      <4>4. d \in DOMAIN ast.nodes /\ d < this /\ this <= d
        BY <1>1, <3>5, <4>2, <4>3, ChildUnder, UnderFacts DEF IInv
      <4>5. DOMAIN ast.nodes \subseteq Nat
        BY TreeFacts DEF IInv
      <4> QED BY <1>1, <3>5, <4>4, <4>5
    <3> QED BY <2>2, <2>4, <3>1, <3>2, <3>3, <3>4, <3>5 DEF Delivers, Awaits
  <2> QED BY <2>2, <2>3, <2>4, WorksPending DEF Keeps
<1> QED
  <2>1. \A n : at(n)' = at(n)
    BY DEF at
  <2> QED BY <1>1, <2>1, RulesStay DEF PassedInv

\* A step that does what it owes keeps the invariant.
LEMMA VerdictStep ==
  ASSUME IInv, VerdictInv, Running, Current.todo # << >>, ast' = ast, round' = round, ErrorsStay, Owned,
         NEW items \in Seq(Item), NEW list, Works(items, list), Owes(items, list)
  PROVE  VerdictInv'
<1>1. OrderInv' /\ WithinInv' /\ MeantInv'
  BY TidyOrder, TidyWithin, TidyMeant DEF VerdictInv, Owes
<1>2. FreshInv' /\ TypedInv'
  BY FreshStep, TypedStep DEF VerdictInv, Owes
<1>3. JudgedInv' /\ PassedInv'
  BY JudgedStep, PassedStep DEF VerdictInv
<1>4. RoundInv'
  BY DEF VerdictInv, RoundInv
<1>5. BlamedInv'
  BY RulesStay DEF VerdictInv, BlamedInv, Owes, Blames
<1> QED BY <1>1, <1>2, <1>3, <1>4, <1>5 DEF VerdictInv

-------------------------------------------------------------------------------
(* Steps that leave items, open a list, or leave nothing.                   *)

LEMMA ThenVerdict ==
  ASSUME IInv, VerdictInv, NEW what, Now(what), ast' = ast, history' = history, ErrorsStay,
         NEW items \in Seq(Item), Then(items), Owes(items, << >>)
  PROVE  VerdictInv'
<1>1. Running /\ Current.todo # << >> /\ round' = round
  BY DEF Now, history
<1>2. Works(items, << >>)
  BY <1>1, ThenWorks
<1>3. Owned
  BY <1>1, ThenTodo, HeadFacts DEF Owned, IInv, FramesInv
<1> QED BY <1>1, <1>2, <1>3, VerdictStep

LEMMA EnterVerdict ==
  ASSUME IInv, VerdictInv, NEW what, Now(what), ast' = ast, history' = history, ErrorsStay,
         NEW items \in Seq(Item), NEW list, Enter(list, items), Owes(items, list)
  PROVE  VerdictInv'
<1>1. Running /\ Current.todo # << >> /\ round' = round
  BY DEF Now, history
<1>2. Works(items, list)
  BY <1>1, EnterWorks
<1>3. Owned
  BY <1>1, EnterTodo DEF Owned
<1> QED BY <1>1, <1>2, <1>3, VerdictStep

\* A step that leaves nothing to be done.
LEMMA DoneVerdict ==
  ASSUME IInv, VerdictInv, NEW what, Now(what), ast' = ast, history' = history, Then(<< >>),
         errors' = errors \/ \E n, message : add_error(n, message),
         round = 1 =>
           /\ Writes /\ Gets(<< >>) /\ Blames
           /\ errors' = << >> => Relays(<< >>, << >>) /\ Decides(<< >>) /\ Checks(<< >>)
  PROVE  VerdictInv'
<1>1. << >> \in Seq(Item) /\ DOMAIN << >> = {}
  OBVIOUS
<1>2. ErrorsStay
  BY ErrorsEither
<1>3. \A w, m : ~ Left(<< >>, w, m)
  BY <1>1 DEF Left
<1>4. Owes(<< >>, << >>)
  BY <1>1, <1>3 DEF Owes, Tidy, Asks, Spares
<1> QED BY <1>1, <1>2, <1>4, ThenVerdict

\* Below a node that can be judged, in one of its lists.
LEMMA JudgeableBelow ==
  ASSUME IsAst(ast), NEW n \in DOMAIN ast.nodes, NEW u \in DOMAIN ast.nodes, at(u).kind \in Judgeable,
         Under(ast, u, n), u # n
  PROVE  \/ \E o \in Range(at(n).operands) : Under(ast, u, o) /\ at(o).kind \notin Literal
         \/ at(n).kind \in {"FunctionDeclaration", "If"} /\ \E c \in Range(at(n).body) : Under(ast, u, c)
         \/ at(n).kind = "If" /\ \E c \in Range(at(n).orelse) : Under(ast, u, c)
<1>1. PICK c : Child(ast, c, n) /\ Under(ast, u, c)
  BY Descend
<1>2. c \in DOMAIN ast.nodes
  BY <1>1, ChildUnder
<1>3. at(c).kind \notin Literal \cup {"Argument"}
  BY <1>1, <1>2, Childless DEF Judgeable, Declaration, at
<1>4. c \notin Range(at(n).params)
  BY <1>3, AstFacts DEF Range
<1>5. /\ at(n).kind \notin {"FunctionDeclaration", "If"} => at(n).body = << >>
      /\ at(n).kind # "If" => at(n).orelse = << >>
  BY DEF IsAst, at
<1>6. Range(<< >>) = {}
  BY DEF Range
<1> QED BY <1>1, <1>3, <1>4, <1>5, <1>6, AmongChildren DEF at

\* Nothing below a node without operands but literals and without statements can be judged.
LEMMA NothingBelow ==
  ASSUME IInv, NEW what, Now(what), NEW items, NEW list,
         \/ what \notin {"visit", "argument", "check_condition", "else_block"}
         \/ what = "visit" /\ at(this).kind \in Literal \cup {"Argument", "ConstantDeclaration", "VariableLookup"}
  PROVE  Relays(items, list)
<1>1. Head(Current.todo).do = what /\ this \in DOMAIN ast.nodes /\ IsAst(ast)
  BY HeadFacts DEF Now, IInv
<1> SUFFICES ASSUME NEW n \in DOMAIN ast.nodes, at(n).kind \in Judgeable, Awaits(what, this, n), n # this
             PROVE  FALSE
  BY <1>1 DEF Relays
<1>2. what = "visit" /\ Under(ast, n, this)
  BY DEF Awaits
<1>3. \E o \in Range(at(this).operands) : at(o).kind \notin Literal
  BY <1>1, <1>2, JudgeableBelow DEF Literal
<1>4. CASE at(this).kind # "ConstantDeclaration"
  <2>1. Operands(at(this).kind) = {0}
    BY <1>2, <1>4 DEF Operands, Literal
  <2>2. DOMAIN at(this).operands = {}
    BY <1>1, <2>1, NoOperands
  <2> QED BY <1>3, <2>2 DEF Range
<1>5. CASE at(this).kind = "ConstantDeclaration"
  <2>1. at(this).operands \in Seq({m \in 1 .. this - 1 : at(m).kind \in Literal})
    BY <1>1, <1>5 DEF IsAst, at
  <2> DEFINE S == {m \in 1 .. this - 1 : at(m).kind \in Literal}
             ops == at(this).operands
  <2>2. ops \in Seq(S) /\ \A o \in S : at(o).kind \in Literal
    BY <2>1
  <2> HIDE DEF S, ops
  <2>3. \A o \in Range(ops) : o \in S
    BY <2>2 DEF Range
  <2> QED BY <1>3, <2>2, <2>3 DEF ops
<1> QED BY <1>4, <1>5

\* The children of a node are visited in order.
LEMMA SiblingsLater ==
  ASSUME IsAst(ast), NEW n \in DOMAIN ast.nodes,
         NEW i \in DOMAIN Children(at(n)), NEW j \in DOMAIN Children(at(n)), i < j,
         NEW a, NEW b, a.node = Children(at(n))[i], b.node = Children(at(n))[j], b.do \in {"visit", "argument"}
  PROVE  Later(a, b)
<1> DEFINE children == Children(ast.nodes[n])
           first == FirstOf(ast)
<1>1. /\ Tiles(first, Len(ast.nodes), children, first[n] - 1, n - 1)
      /\ DOMAIN children = 1 .. Len(children)
  BY ChildrenFacts
<1>2. i \in 1 .. Len(children) /\ j \in 1 .. Len(children) /\ a.node = children[i] /\ b.node = children[j]
  BY <1>1 DEF at
<1>3. children[i] \in 1 .. Len(ast.nodes) /\ children[j] \in 1 .. Len(ast.nodes)
      /\ first[children[j]] \in 1 .. children[j]
  <2> HIDE DEF children, first
  <2> QED BY <1>1, <1>2, Places
<1>4. children[i] < first[children[j]]
  <2> HIDE DEF children, first
  <2> QED BY <1>1, <1>2, Ordered
<1>5. DOMAIN ast.nodes \subseteq Nat
  BY TreeFacts
<1>6. ASSUME NEW m \in DOMAIN ast.nodes, Untyped(b.do, b.node, m)
      PROVE  a.node < m
  <2>1. m \in first[children[j]] .. children[j]
    BY <1>2, <1>6 DEF Untyped, Awaits, Under
  <2> HIDE DEF children, first
  <2> QED BY <1>2, <1>3, <1>4, <1>5, <2>1
<1>7. a.node < b.node
  <2> HIDE DEF children, first
  <2> QED BY <1>2, <1>3, <1>4
<1> QED BY <1>6, <1>7 DEF Later

\* An operand is visited before its node is dealt with.
LEMMA OperandLater ==
  ASSUME IsAst(ast), NEW n \in DOMAIN ast.nodes, NEW a, NEW b, a.node \in Range(at(n).operands), b.node = n,
         b.do \in Judging \cup {"declare_variable"}
  PROVE  Later(a, b)
<1>1. /\ DOMAIN ast.nodes \subseteq Nat /\ a.node \in DOMAIN ast.nodes /\ a.node < n
  BY OperandUnder, ChildUnder, TreeFacts
<1>2. ASSUME NEW m \in DOMAIN ast.nodes, Untyped(b.do, b.node, m)
      PROVE  a.node < m
  <2>1. CASE b.do \in {"type_binary_op", "type_unary_op"} /\ m = n
    BY <1>1, <2>1
  <2>2. CASE b.do = "check_condition"
    <3>1. PICK c \in Range(at(n).body) \cup Range(at(n).orelse) : Under(ast, m, c)
      BY <1>2, <2>2 DEF Untyped, Awaits
    <3>2. PICK i \in DOMAIN at(n).operands : at(n).operands[i] = a.node
      BY DEF Range
    <3>3. \E j \in DOMAIN Children(at(n)) : Children(at(n))[j] = c /\ i < j /\ i \in DOMAIN Children(at(n))
                                            /\ Children(at(n))[i] = a.node
      <4>0. \A p, q, r, v \in Nat : \A s \in 1 .. p, t \in 1 .. v :
              s < p + q + t /\ s < p + q + r + t /\ 0 + s = s
        OBVIOUS
      <4>1. LET node == at(n)
                ops == Len(node.operands)
                heads == ops + Len(node.params)
            IN /\ At(node.operands, 0, Children(node))
               /\ At(node.body, heads, Children(node))
               /\ At(node.orelse, heads + Len(node.body), Children(node))
               /\ ops \in Nat /\ Len(node.params) \in Nat /\ Len(node.body) \in Nat
        BY Sections DEF at
      <4>2. i \in 1 .. Len(at(n).operands) /\ 0 + i \in DOMAIN Children(at(n)) /\ Children(at(n))[0 + i] = a.node
        BY <3>2, <4>1 DEF At
      <4>3. CASE c \in Range(at(n).body)
        <5>1. PICK j \in DOMAIN at(n).body : at(n).body[j] = c
          BY <4>3 DEF Range
        <5>2. /\ j \in 1 .. Len(at(n).body)
              /\ Len(at(n).operands) + Len(at(n).params) + j \in DOMAIN Children(at(n))
              /\ Children(at(n))[Len(at(n).operands) + Len(at(n).params) + j] = c
          BY <4>1, <5>1 DEF At
        <5>3. Len(at(n).body) \in Nat
          BY <4>1
        <5>4. PICK p, q : p = Len(at(n).operands) /\ q = Len(at(n).params)
          OBVIOUS
        <5>5. i \in 1 .. p /\ p \in Nat /\ q \in Nat /\ j \in 1 .. Len(at(n).body)
          BY <4>1, <4>2, <5>2, <5>4
        <5>6. i < p + q + j /\ 0 + i = i
          BY <5>3, <5>5
        <5> QED BY <4>2, <5>2, <5>4, <5>6
      <4>4. CASE c \in Range(at(n).orelse)
        <5>1. PICK j \in DOMAIN at(n).orelse : at(n).orelse[j] = c
          BY <4>4 DEF Range
        <5>2. /\ j \in 1 .. Len(at(n).orelse)
              /\ Len(at(n).operands) + Len(at(n).params) + Len(at(n).body) + j \in DOMAIN Children(at(n))
              /\ Children(at(n))[Len(at(n).operands) + Len(at(n).params) + Len(at(n).body) + j] = c
          BY <4>1, <5>1 DEF At
        <5>3. Len(at(n).orelse) \in Nat
          BY <4>1 DEF At
        <5>4. PICK p, q, k : p = Len(at(n).operands) /\ q = Len(at(n).params) /\ k = Len(at(n).body)
          OBVIOUS
        <5>5. i \in 1 .. p /\ p \in Nat /\ q \in Nat /\ k \in Nat /\ j \in 1 .. Len(at(n).orelse)
          BY <4>1, <4>2, <5>2, <5>4
        <5>6. i < p + q + k + j /\ 0 + i = i
          BY <5>3, <5>5
        <5> QED BY <4>2, <5>2, <5>4, <5>6
      <4> QED BY <3>1, <4>3, <4>4
    <3>4. Later(do("visit", a.node), do("visit", c))
      BY <3>3, SiblingsLater DEF do
    <3>5. Untyped("visit", c, m)
      BY <3>1 DEF Untyped, Awaits
    <3> QED BY <3>4, <3>5 DEF Later, do
  <2> QED BY <1>2, <2>1, <2>2 DEF Untyped, Awaits, Judging
<1> QED BY <1>1, <1>2 DEF Later

-------------------------------------------------------------------------------
(* The visitors that have their operands visited first.                     *)

\* A node whose operands are visited first, and dealt with afterwards.
LEMMA OperandsOwed ==
  ASSUME IInv, NEW kind, Visiting(kind), UNCHANGED << errors, result_type >>,
         NEW item \in Item, item.node = this, << kind, item.do >> \in Afterwards, EntryMeant(item)
  PROVE  Owes(visits(at(this).operands) \o << item >>, << >>)
<1> DEFINE ops == at(this).operands
           items == visits(ops) \o << item >>
           children == Children(at(this))
<1>1. /\ at(this).kind = kind /\ this \in DOMAIN ast.nodes /\ Head(Current.todo).do = "visit" /\ IsAst(ast)
      /\ Now("visit")
  BY HeadFacts DEF Visiting, Now, IInv
<1>2. /\ items \in Seq(Item)
      /\ DOMAIN items = 1 .. Len(ops) + 1 /\ Len(ops) \in Nat /\ Len(items) = Len(ops) + 1
      /\ items[Len(ops) + 1] = item
      /\ \A i \in 1 .. Len(ops) : items[i] = do("visit", ops[i])
      /\ DOMAIN ops = 1 .. Len(ops)
  BY <1>1, OperandTodo
<1>3. Len(frames) # 1
  BY <1>1, InnerHead DEF Afterwards, TopLevel
<1>4. \A i \in DOMAIN ops : ops[i] \in Range(ops) /\ Child(ast, ops[i], this)
                            /\ i \in DOMAIN children /\ children[i] = ops[i]
  <2>1. At(ops, 0, children)
    BY <1>1, Sections DEF at
  <2>2. \A i \in DOMAIN ops : 0 + i \in DOMAIN children /\ children[0 + i] = ops[i] /\ 0 + i = i
    BY <2>1 DEF At
  <2> QED BY <1>1, <2>2, OperandUnder DEF Range
<1> HIDE DEF items, children
\* What is left.
<1>5. ASSUME NEW j \in DOMAIN items
      PROVE  \/ j = Len(ops) + 1 /\ items[j] = item
             \/ j \in DOMAIN ops /\ items[j] = do("visit", ops[j]) /\ items[j].node = ops[j] /\ items[j].do = "visit"
  <2>1. j = Len(ops) + 1 \/ j \in 1 .. Len(ops)
    BY <1>2
  <2> QED BY <1>2, <2>1 DEF do
<1>6. Left(items, item.do, this)
  <2>1. Len(ops) + 1 \in DOMAIN items
    BY <1>2
  <2> QED BY <1>2, <2>1 DEF Left
<1>7. ASSUME NEW o \in Range(ops)
      PROVE  Left(items, "visit", o)
  <2>1. PICK i \in DOMAIN ops : ops[i] = o
    BY DEF Range
  <2>2. i \in DOMAIN items /\ items[i] = do("visit", o)
    BY <1>2, <2>1
  <2> QED BY <2>2 DEF Left, do
<1>8. ASSUME NEW what, NEW m, Left(items, what, m)
      PROVE  (what = item.do /\ m = this) \/ (what = "visit" /\ m \in Range(ops))
  <2>1. PICK j \in DOMAIN items : items[j].do = what /\ items[j].node = m
    BY <1>8 DEF Left
  <2> QED BY <1>4, <1>5, <2>1
<1>9. /\ item.do \in Judging \cup {"declare_variable", "check_condition"}
      /\ at(this).kind \in Judgeable => item.do \in Judging
      /\ item.do = "declare_variable" => kind = "VariableDeclaration"
      /\ at(this).kind \in Expression => item.do \in {"type_binary_op", "type_unary_op"}
      /\ at(this).kind \notin Declaration \/ at(this).kind = "VariableDeclaration"
      /\ at(this).kind # "FunctionCall"
      /\ item.do # "check_argument"
  BY <1>1 DEF Afterwards, Judging, Judgeable, Declaration, Kind, Expression, Literal
<1>10. Tidy(items, << >>)
  <2>1. ASSUME NEW j \in DOMAIN items
        PROVE  /\ items[j].node = this \/ Child(ast, items[j].node, this)
               /\ (items[j].node = this /\ at(this).kind \in Expression) => items[j].do \in Typing
    <3>1. ASSUME j \in DOMAIN ops
          PROVE  ops[j] # this
      <4>1. ops[j] < this /\ ops[j] \in DOMAIN ast.nodes
        BY <1>1, <1>4, <3>1, ChildUnder
      <4> QED BY <1>1, <4>1, TreeFacts
    <3> QED BY <1>4, <1>5, <1>9, <3>1 DEF Typing
  <2>2. ASSUME NEW i \in DOMAIN items, NEW j \in DOMAIN items, i < j
        PROVE  Later(items[i], items[j])
    <3>1. i \in DOMAIN ops /\ items[i].node = ops[i]
      <4>1. i # Len(ops) + 1
        BY <1>2, <2>2
      <4> QED BY <1>5, <4>1
    <3>2. CASE j \in DOMAIN ops /\ items[j].node = ops[j] /\ items[j].do = "visit"
      <4>1. i \in DOMAIN children /\ j \in DOMAIN children /\ items[i].node = children[i] /\ items[j].node = children[j]
        BY <1>4, <3>1, <3>2
      <4> QED BY <1>1, <2>2, <3>2, <4>1, SiblingsLater DEF children
    <3>3. CASE items[j] = item
      BY <1>1, <1>4, <1>9, <3>1, <3>3, OperandLater DEF Judging
    <3> QED BY <1>5, <3>2, <3>3
  <2> QED BY <1>1, <2>1, <2>2 DEF Tidy
<1>11. \A j \in DOMAIN items : EntryMeant(items[j])
  <2>1. \A n : EntryMeant(do("visit", n))
    BY DEF EntryMeant, do
  <2> QED BY <1>5, <2>1
<1>12. Writes /\ Blames
  BY DEF Writes, Blames
<1>13. Gets(items)
  BY <1>6, <1>9 DEF Gets, Typing
<1>14. Asks(items)
  <2> SUFFICES ASSUME NEW what, NEW m, Left(items, what, m), NEW o \in DOMAIN ast.nodes, Consumes(what, m, o)
               PROVE  \E w \in Typing : Left(items, w, o)
    BY DEF Asks
  <2>1. o \in Range(ops)
    BY <1>8, <1>9 DEF Consumes, Judging
  <2> QED BY <1>7, <2>1 DEF Typing
<1>15. ASSUME NEW n, \E what, m : Left(items, what, m) /\ Untyped(what, m, n)
       PROVE  Under(ast, n, this)
  <2>1. PICK what, m : Left(items, what, m) /\ Untyped(what, m, n)
    BY <1>15
  <2>2. CASE what = "visit" /\ m \in Range(ops)
    BY <1>1, <2>1, <2>2, OperandUnder, ChildUnder DEF Untyped, Awaits
  <2>3. CASE what = item.do /\ m = this
    <3>1. CASE n = this
      BY <1>1, <3>1, UnderFacts
    <3>2. CASE \E c \in Range(at(this).body) \cup Range(at(this).orelse) : Under(ast, n, c)
      <4>1. PICK c \in Range(at(this).body) \cup Range(at(this).orelse) : Under(ast, n, c)
        BY <3>2
      <4>2. Child(ast, c, this)
        <5>1. /\ At(at(this).body, Len(at(this).operands) + Len(at(this).params), Children(at(this)))
              /\ At(at(this).orelse, Len(at(this).operands) + Len(at(this).params) + Len(at(this).body), Children(at(this)))
          BY <1>1, Sections DEF at
        <5>2. PICK p, q : At(at(this).body, p, Children(at(this))) /\ At(at(this).orelse, q, Children(at(this)))
          BY <5>1
        <5>3. \/ \E j \in DOMAIN at(this).body : at(this).body[j] = c
              \/ \E j \in DOMAIN at(this).orelse : at(this).orelse[j] = c
          BY <4>1 DEF Range
        <5>4. \E j \in DOMAIN Children(at(this)) : Children(at(this))[j] = c
          BY <5>2, <5>3 DEF At
        <5> QED BY <5>4 DEF Child, at
      <4> QED BY <1>1, <4>1, <4>2, ChildUnder
    <3> QED BY <1>9, <2>1, <2>3, <3>1, <3>2 DEF Untyped, Awaits, Judging
  <2> QED BY <1>8, <2>1, <2>2, <2>3
<1>16. Spares(items, << >>)
  BY <1>1, <1>15 DEF Spares, Untyped, Awaits
<1>17. Relays(items, << >>)
  <2> SUFFICES ASSUME NEW n \in DOMAIN ast.nodes, at(n).kind \in Judgeable, Under(ast, n, this), n # this
               PROVE  \E what, m : Left(items, what, m) /\ Awaits(what, m, n)
    BY <1>1 DEF Relays, Awaits
  <2>1. CASE \E o \in Range(at(this).operands) : Under(ast, n, o)
    BY <1>7, <2>1 DEF Awaits
  <2>2. CASE \E c \in Range(at(this).body) \cup Range(at(this).orelse) :
               at(this).kind \in {"FunctionDeclaration", "If"} /\ Under(ast, n, c)
    <3>1. item.do = "check_condition"
      BY <1>1, <2>2 DEF Afterwards
    <3> QED BY <1>6, <2>2, <3>1 DEF Awaits
  <2> QED BY <1>1, <2>1, <2>2, JudgeableBelow
<1>18. Decides(items)
  BY <1>6, <1>9 DEF Decides, Judges
<1>19. Checks(items)
  BY <1>1, <1>9 DEF Checks
<1> HIDE DEF ops
<1> QED BY <1>3, <1>10, <1>11, <1>12, <1>13, <1>14, <1>16, <1>17, <1>18, <1>19 DEF Owes, items, ops

LEMMA OperandsVerdict ==
  ASSUME IInv, VerdictInv, NEW kind, Visiting(kind), KeepScope, UNCHANGED << errors, result_type >>,
         NEW item \in Item, item.node = this, << kind, item.do >> \in Afterwards, EntryMeant(item),
         Then(visits(at(this).operands) \o << item >>)
  PROVE  VerdictInv'
<1>1. Now("visit") /\ this \in DOMAIN ast.nodes
  BY HeadFacts DEF Visiting, Now
<1>2. visits(at(this).operands) \o << item >> \in Seq(Item)
  BY <1>1, OperandTodo
<1>3. Owes(visits(at(this).operands) \o << item >>, << >>)
  BY OperandsOwed
<1>4. ErrorsStay /\ ast' = ast /\ history' = history
  BY DEF ErrorsStay, KeepScope
<1> DEFINE items == visits(at(this).operands) \o << item >>
<1>5. items \in Seq(Item) /\ Owes(items, << >>) /\ Then(items)
  BY <1>2, <1>3
<1> HIDE DEF items
<1> QED BY <1>1, <1>4, <1>5, ThenVerdict

LEMMA OperatorsVerdict ==
  ASSUME IInv, VerdictInv,
         \/ validate_variable_declaration \/ validate_binary_op \/ validate_unary_op
         \/ validate_function_return \/ validate_if
  PROVE  VerdictInv'
<1>1. ASSUME NEW kind, NEW what, << kind, what >> \in Afterwards, Visiting(kind), what # "check_assignment", KeepScope,
             UNCHANGED << errors, result_type >>, Then(visits(at(this).operands) \o << do(what, this) >>)
      PROVE  VerdictInv'
  <2>1. this \in DOMAIN ast.nodes /\ DOMAIN ast.nodes \subseteq Nat
    BY <1>1, HeadFacts, TreeFacts DEF Visiting, Now, IInv
  <2>2. PICK item : item = do(what, this)
    OBVIOUS
  <2>3. item \in Item /\ item.node = this /\ item.do = what /\ EntryMeant(item)
    BY <1>1, <2>1, <2>2 DEF do, Item, Todo, Afterwards, NoNode, EntryMeant
  <2> QED BY <1>1, <2>2, <2>3, OperandsVerdict
<1>2. CASE validate_variable_declaration
  BY <1>1, <1>2 DEF validate_variable_declaration, Afterwards
<1>3. CASE validate_binary_op
  BY <1>1, <1>3 DEF validate_binary_op, Afterwards
<1>4. CASE validate_unary_op
  BY <1>1, <1>4 DEF validate_unary_op, Afterwards
<1>5. CASE validate_function_return
  BY <1>1, <1>5 DEF validate_function_return, Afterwards
<1>6. CASE validate_if
  BY <1>1, <1>6 DEF validate_if, Afterwards
<1> QED BY <1>2, <1>3, <1>4, <1>5, <1>6

-------------------------------------------------------------------------------
(* What the types of the operands make the type of a node. *)
LEMMA TypeIs ==
  ASSUME IsAst(ast), NEW n \in DOMAIN ast.nodes
  PROVE  TypeOf(n) = TypeAt(ast, TypesOf(ast), n)
BY TypesUnfold DEF TypeOf

LEMMA TypeOfLeaf ==
  ASSUME IsAst(ast), NEW n \in DOMAIN ast.nodes
  PROVE  /\ at(n).kind \in Literal => TypeOf(n) = initial_type(at(n))
         /\ at(n).kind = "VariableLookup" => TypeOf(n) = DeclaredType(ast, Resolve(ast, n))
         /\ at(n).kind = "FunctionCall" =>
              TypeOf(n) = IF Resolve(ast, n) # NoNode /\ is_function(at(Resolve(ast, n)))
                          THEN at(Resolve(ast, n)).type ELSE NoType
<1> DEFINE types == TypesOf(ast)
<1>0. TypeOf(n) = TypeAt(ast, types, n)
  BY TypeIs
<1> HIDE DEF types
<1>1. ASSUME at(n).kind \in Literal \cup {"VariableLookup", "FunctionCall"}
      PROVE  at(n).op \notin Arithmetic \cup Comparison \cup Logical /\ at(n).op \notin {"NEGATE", "NOT"}
  <2>1. at(n).op = "none"
    BY <1>1, OperatorFacts DEF Operators, at, Literal
  <2> QED BY <2>1 DEF Arithmetic, Comparison, Logical
<1>2. CASE at(n).kind \in Literal
  BY <1>0, <1>1, <1>2 DEF TypeAt, at, Literal
<1>3. CASE at(n).kind = "VariableLookup"
  BY <1>0, <1>1, <1>3 DEF TypeAt, at, Literal
<1>4. CASE at(n).kind = "FunctionCall"
  BY <1>0, <1>1, <1>4 DEF TypeAt, at, Literal
<1> QED BY <1>2, <1>3, <1>4 DEF Literal

LEMMA TypeOfBinary ==
  ASSUME IsAst(ast), NEW n \in DOMAIN ast.nodes, at(n).kind = "BinaryOp",
         NEW left, left = TypeOf(at(n).operands[1]), NEW right, right = TypeOf(at(n).operands[2]),
         left \in ResultType, right \in ResultType
  PROVE  LET result == binary_result(at(n).op, left, right) IN
         TypeOf(n) = IF NoType \in {left, right} \/ result = UNDEF THEN NoType ELSE result
<1> DEFINE op == at(n).op
           common == convert_arithmetic_types(left, right)
<1>1. op \in Arithmetic \cup Comparison \cup Logical
  BY OperatorFacts DEF Operators, at
<1>2. Arithmetic \cap Comparison = {} /\ Arithmetic \cap Logical = {} /\ Comparison \cap Logical = {}
  BY DEF Arithmetic, Comparison, Logical
<1>3. TypeOf(n) = IF op \in Arithmetic THEN IF common # UNDEF THEN common ELSE NoType
                  ELSE IF op \in Comparison
                       THEN IF NoType \notin {left, right} /\ is_numeric_comparison_compatible(left, right)
                            THEN BOOL ELSE NoType
                       ELSE IF left = BOOL /\ right = BOOL THEN BOOL ELSE NoType
  <2> DEFINE types == TypesOf(ast)
  <2>1. TypeOf(n) = TypeAt(ast, types, n) /\ left = types[at(n).operands[1]] /\ right = types[at(n).operands[2]]
    BY TypeIs DEF TypeOf
  <2> HIDE DEF types
  <2>2. op \notin {"NEGATE", "NOT"} /\ at(n).kind \notin Literal
    BY <1>1 DEF Arithmetic, Comparison, Logical, Literal
  <2>3. CASE op \in Arithmetic
    BY <1>2, <2>1, <2>2, <2>3 DEF TypeAt, at
  <2>4. CASE op \in Comparison
    BY <1>2, <2>1, <2>2, <2>4 DEF TypeAt, at
  <2>5. CASE op \in Logical
    BY <1>2, <2>1, <2>2, <2>5 DEF TypeAt, at
  <2> QED BY <1>1, <1>2, <2>3, <2>4, <2>5
<1>4. NoType \in {left, right} => common = UNDEF
  BY DEF convert_arithmetic_types, same_family, is_signed_int, is_unsigned_int, is_float, NoType, CONST_INT, INT64,
         CONST_UINT, UINT64, CONST_FLOAT, FLOAT64
<1>5. NoType # BOOL /\ BOOL # UNDEF
  BY DEF NoType, BOOL, UNDEF
<1> QED BY <1>1, <1>2, <1>3, <1>4, <1>5 DEF binary_result

LEMMA TypeOfUnary ==
  ASSUME IsAst(ast), NEW n \in DOMAIN ast.nodes, at(n).kind = "UnaryOp",
         NEW type, type = TypeOf(at(n).operands[1])
  PROVE  TypeOf(n) = IF (IF at(n).op = "NEGATE" THEN is_numeric(type) ELSE type = BOOL) THEN type ELSE NoType
<1>1. at(n).op \in {"NEGATE", "NOT"} /\ at(n).op \notin Arithmetic \cup Comparison \cup Logical
  BY OperatorFacts DEF Operators, at, UnaryOperator, Arithmetic, Comparison, Logical
<1> QED BY <1>1, TypeIs DEF TypeAt, at, Literal, TypeOf

-------------------------------------------------------------------------------
(* The visitors that judge their node, and the checks.                      *)

\* A node that is no declaration is legal if it obeys and its arguments fit.
LEMMA LegalIs ==
  ASSUME NEW n
  PROVE  /\ at(n).kind \in Declaration => (LegalHere(n) <=> FirstInScope(ast, n))
         /\ at(n).kind \notin Declaration =>
              (LegalHere(n) <=> Obeys(n) /\ (at(n).kind = "FunctionCall" => \A i \in DOMAIN at(n).operands : ArgumentFits(n, i)))
<1>1. CASE at(n).kind \in Declaration
  BY <1>1 DEF LegalHere, LegalNode, at, Declaration
<1>2. CASE at(n).kind = "VariableAssignment"
  BY <1>2 DEF LegalHere, LegalNode, Obeys, TypeOf, at, Declaration
<1>3. CASE at(n).kind = "FunctionCall"
  BY <1>3 DEF LegalHere, LegalNode, Obeys, ArgumentFits, Callee, TypeOf, at, Declaration
<1>4. CASE at(n).kind = "FunctionReturn"
  BY <1>4 DEF LegalHere, LegalNode, Obeys, TypeOf, at, Declaration
<1>5. CASE at(n).kind = "If"
  BY <1>5 DEF LegalHere, LegalNode, Obeys, TypeOf, at, Declaration
<1>6. CASE at(n).kind \notin Declaration \cup {"VariableAssignment", "FunctionCall", "FunctionReturn", "If"}
  BY <1>6 DEF LegalHere, LegalNode, Obeys, TypeOf, at, Declaration
<1> QED BY <1>1, <1>2, <1>3, <1>4, <1>5, <1>6

\* What an expression other than a call has to obey is to have a type.
LEMMA ObeysIs ==
  ASSUME NEW n, at(n).kind \in Expression \ {"FunctionCall"}
  PROVE  Obeys(n) <=> TypeOf(n) # NoType
<1>1. at(n).kind \notin {"VariableAssignment", "FunctionCall", "FunctionReturn", "If"}
  BY DEF Expression, Literal
<1> QED BY <1>1 DEF Obeys

\* A report of a node that breaks a rule, and has no type.
LEMMA FailVerdict ==
  ASSUME IInv, VerdictInv, NEW what, Now(what), KeepScope, NEW message, Fail(message),
         at(this).kind \notin Literal,
         round = 1 => ~ LegalHere(this) /\ (at(this).kind \in Expression => TypeOf(this) = NoType)
  PROVE  VerdictInv'
<1>1. /\ Head(Current.todo).do = what /\ this \in DOMAIN ast.nodes /\ Running /\ Current.todo # << >>
      /\ add_error(this, message) /\ Then(<< >>) /\ result_type' = result_type
      /\ ast' = ast /\ history' = history
  BY HeadFacts DEF Now, Fail, KeepScope
<1>2. errors' # << >>
  BY <1>1, ErrorsEither
<1>3. ASSUME round = 1
      PROVE  Writes /\ Gets(<< >>) /\ Blames
  <2>1. what \in Typing => result_type[this] = initial_type(at(this))
    BY <1>1, <1>3, TypesFresh DEF VerdictInv
  <2>2. initial_type(at(this)) = NoType
    BY DEF initial_type, Literal
  <2>3. Gets(<< >>)
    BY <1>1, <1>3, <2>1, <2>2 DEF Gets
  <2> QED BY <1>1, <1>3, <2>3 DEF Writes, Blames
<1> QED BY <1>1, <1>2, <1>3, DoneVerdict

LEMMA validate_literalVerdict ==
  ASSUME IInv, VerdictInv, validate_literal
  PROVE  VerdictInv'
<1>1. /\ Now("visit") /\ at(this).kind \in Literal /\ Then(<< >>) /\ UNCHANGED << errors, result_type >>
      /\ ast' = ast /\ history' = history
  BY DEF validate_literal, KeepScope
<1>2. this \in DOMAIN ast.nodes /\ Running /\ Current.todo # << >> /\ Head(Current.todo).do = "visit" /\ IsAst(ast)
  BY <1>1, HeadFacts DEF Now, IInv
<1>3. at(this).kind \notin Judgeable /\ at(this).kind # "FunctionCall"
  BY <1>1 DEF Judgeable, Literal
<1>4. ASSUME round = 1
      PROVE  Gets(<< >>)
  <2>1. result_type[this] = initial_type(at(this))
    BY <1>2, <1>4, TypesFresh DEF VerdictInv, Typing
  <2>2. TypeOf(this) = initial_type(at(this))
    BY <1>1, <1>2, TypeOfLeaf
  <2> QED BY <1>1, <2>1, <2>2 DEF Gets
<1>5. Relays(<< >>, << >>)
  BY <1>1, NothingBelow
<1>6. Decides(<< >>) /\ Checks(<< >>)
  BY <1>2, <1>3 DEF Decides, Checks
<1>7. Writes /\ Blames
  BY <1>1 DEF Writes, Blames
<1> QED BY <1>1, <1>4, <1>5, <1>6, <1>7, DoneVerdict

\* A lookup gets the type of the declaration in force, if that has one.
LEMMA validate_variable_lookupVerdict ==
  ASSUME IInv, AcceptInv, PlacedInv, VerdictInv, validate_variable_lookup
  PROVE  VerdictInv'
<1> DEFINE entry == Table!lookup(at(this).name)
<1>1. /\ Visiting("VariableLookup") /\ Now("visit") /\ at(this).kind = "VariableLookup" /\ KeepScope
      /\ \/ entry = NoNode /\ Fail("not found")
         \/ entry # NoNode /\ is_function(at(entry)) /\ Fail("incompatible element found")
         \/ /\ entry # NoNode /\ ~ is_function(at(entry))
            /\ result_type' = [result_type EXCEPT ![this] = entry_type(entry)]
            /\ Then(<< >>) /\ UNCHANGED errors
  BY DEF validate_variable_lookup, Visiting
<1>2. this \in DOMAIN ast.nodes /\ Running /\ Current.todo # << >> /\ Head(Current.todo).do = "visit" /\ IsAst(ast)
  BY <1>1, HeadFacts DEF Now, IInv
<1>3. entry = Resolve(ast, this)
  BY <1>1, LookupResolves DEF Uses
<1>4. TypeOf(this) = DeclaredType(ast, entry)
  BY <1>1, <1>2, <1>3, TypeOfLeaf
<1>5. at(this).kind \in Expression \ {"FunctionCall"} /\ at(this).kind \notin Declaration \cup Literal
  BY <1>1 DEF Expression, Declaration, Literal
<1> HIDE DEF entry
<1>6. CASE (entry = NoNode \/ is_function(at(entry))) /\ \E message : Fail(message)
  <2>1. TypeOf(this) = NoType
    BY <1>4, <1>6 DEF DeclaredType, at
  <2>2. ~ LegalHere(this)
    BY <1>5, <2>1, LegalIs, ObeysIs
  <2> QED BY <1>1, <1>5, <1>6, <2>1, <2>2, FailVerdict
<1>7. CASE /\ entry # NoNode /\ ~ is_function(at(entry))
           /\ result_type' = [result_type EXCEPT ![this] = entry_type(entry)]
           /\ Then(<< >>) /\ UNCHANGED errors
  <2>1. entry \in DOMAIN ast.nodes
    BY <1>1, <1>7, LooksUp DEF entry
  <2>2. at(entry).kind \in Declaration
    <3>1. at(this).name \in Name
      BY <1>1, <1>2 DEF IsAst, Named, at
    <3> QED BY <1>7, <3>1, FindsEntry DEF entry
  <2>3. TypeOf(this) = entry_type(entry)
    BY <1>4, <1>7 DEF DeclaredType, entry_type, at
  <2>4. TypeOf(this) # NoType
    BY <2>1, <2>2, <2>3, EntryTyped
  <2>5. this \in DOMAIN result_type /\ DOMAIN result_type = DOMAIN ast.nodes
    BY <1>2 DEF IInv, TypesInv
  <2>6. result_type'[this] = TypeOf(this) /\ \A o \in DOMAIN ast.nodes : o # this => result_type'[o] = result_type[o]
    BY <1>7, <2>3, <2>5
  <2>7. Writes /\ Gets(<< >>) /\ Blames
    BY <1>2, <1>7, <2>6 DEF Writes, Gets, Blames, Typing
  <2>8. Obeys(this)
    BY <1>5, <2>4, ObeysIs
  <2>9. Decides(<< >>) /\ Checks(<< >>)
    BY <1>1, <1>2, <2>8 DEF Decides, Checks
  <2>10. Relays(<< >>, << >>)
    BY <1>1, NothingBelow
  <2>11. ast' = ast /\ history' = history
    BY <1>1 DEF KeepScope
  <2> QED BY <1>1, <1>7, <2>7, <2>9, <2>10, <2>11, DoneVerdict
<1> QED BY <1>1, <1>6, <1>7 DEF entry

\* An assignment holds on to what the tree means by its name.
LEMMA validate_variable_assignmentVerdict ==
  ASSUME IInv, PlacedInv, VerdictInv, validate_variable_assignment
  PROVE  VerdictInv'
<1> DEFINE found == Table!lookup(at(this).name)
           check == [do |-> "check_assignment", node |-> this, entry |-> found]
<1>1. /\ Visiting("VariableAssignment") /\ Now("visit") /\ at(this).kind = "VariableAssignment" /\ KeepScope
      /\ \/ found = NoNode /\ Fail("not found")
         \/ found # NoNode /\ Then(visits(at(this).operands) \o << check >>) /\ UNCHANGED << errors, result_type >>
  BY DEF validate_variable_assignment, Visiting
<1>2. this \in DOMAIN ast.nodes /\ found \in {NoNode} \cup DOMAIN ast.nodes /\ DOMAIN ast.nodes \subseteq Nat
      /\ found = Resolve(ast, this)
  <2>1. found = Resolve(ast, this)
    BY <1>1, LookupResolves DEF Uses
  <2>2. this \in DOMAIN ast.nodes /\ found \in {NoNode} \cup DOMAIN ast.nodes
    BY <1>1, LooksUp
  <2>3. DOMAIN ast.nodes \subseteq Nat
    BY TreeFacts DEF IInv
  <2> QED BY <2>1, <2>2, <2>3
<1>3. at(this).kind \notin Declaration \cup Literal \cup Expression
  BY <1>1 DEF Expression, Declaration, Literal
<1> HIDE DEF found
<1>4. CASE found = NoNode /\ Fail("not found")
  <2>1. ~ Obeys(this)
    BY <1>1, <1>2, <1>4 DEF Obeys
  <2>2. ~ LegalHere(this)
    BY <1>3, <2>1, LegalIs
  <2> QED BY <1>1, <1>3, <1>4, <2>2, FailVerdict
<1>5. CASE found # NoNode /\ Then(visits(at(this).operands) \o << check >>) /\ UNCHANGED << errors, result_type >>
  <2>1. check \in Item
    BY <1>2 DEF Item, Todo, NoNode
  <2>2. check.node = this /\ << "VariableAssignment", check.do >> \in Afterwards /\ EntryMeant(check)
    BY <1>2 DEF Afterwards, EntryMeant
  <2> HIDE DEF check
  <2> QED BY <1>1, <1>5, <2>1, <2>2, OperandsVerdict
<1> QED BY <1>1, <1>4, <1>5 DEF found

\* The type of an operation follows from those of its operands.
LEMMA type_binary_opVerdict ==
  ASSUME IInv, VerdictInv, type_binary_op
  PROVE  VerdictInv'
<1> DEFINE l == at(this).operands[1]
           r == at(this).operands[2]
           left == result_type[l]
           right == result_type[r]
           result == binary_result(at(this).op, left, right)
           asked == operand_types(at(this).op, left, right, result)
           typed == [result_type EXCEPT ![this] = result]
           once == set_type_on_const(typed, l, asked[1])
           fails == NoType \in {left, right} \/ result = UNDEF
<1>1. /\ Now("type_binary_op") /\ KeepScope
      /\ \/ fails /\ \E message : Fail(message)
         \/ /\ ~ fails
            /\ result_type' = set_type_on_const(once, r, asked[2])
            /\ Then(<< >>) /\ UNCHANGED errors
  BY DEF type_binary_op
<1>2. /\ this \in DOMAIN ast.nodes /\ at(this).kind = "BinaryOp" /\ Head(Current.todo).do = "type_binary_op"
      /\ Running /\ Current.todo # << >>
  BY <1>1, HeadFits DEF Todo, Now
<1>3. /\ l \in DOMAIN ast.nodes /\ r \in DOMAIN ast.nodes /\ IsAst(ast)
      /\ l \in Range(at(this).operands) /\ r \in Range(at(this).operands)
  <2>1. Len(at(this).operands) = 2 /\ at(this).operands \in Seq(Nat)
    BY <1>2, AstFacts DEF IInv, Operands, AstNode
  <2>2. DOMAIN at(this).operands = {1, 2}
    BY <2>1
  <2> QED BY <1>2, <2>2, OperandOf DEF IInv, Range
<1>4. l < this /\ r < this /\ this \in Nat
  BY <1>2, <1>3, OperandUnder, ChildUnder, TreeFacts
<1>5. left \in ResultType /\ right \in ResultType /\ DOMAIN result_type = DOMAIN ast.nodes
  BY <1>3 DEF IInv, TypesInv
<1>6. Consumes(Head(Current.todo).do, this, l) /\ Consumes(Head(Current.todo).do, this, r)
  BY <1>2, <1>3 DEF Consumes, Judging
<1>7. round = 1 => TypeOf(this) = IF fails THEN NoType ELSE result
  <2>1. ASSUME round = 1
        PROVE  left = TypeOf(l) /\ right = TypeOf(r)
    BY <1>2, <1>3, <1>6, <2>1, ReadsTyped DEF VerdictInv
  <2>2. ASSUME left = TypeOf(l), right = TypeOf(r)
        PROVE  TypeOf(this) = IF NoType \in {left, right} \/ result = UNDEF THEN NoType ELSE result
    BY <1>2, <1>3, <1>5, <2>2, TypeOfBinary
  <2> QED BY <2>1, <2>2
<1>8. at(this).kind \in Expression \ {"FunctionCall"} /\ at(this).kind \notin Declaration \cup Literal
  BY <1>2 DEF Expression, Declaration, Literal
<1>9. ~ fails => result # NoType
  <2>1. result \in {left, right, UNDEF, BOOL}
    BY DEF binary_result, convert_arithmetic_types
  <2>2. BOOL # NoType
    BY DEF BOOL, NoType
  <2> HIDE DEF left, right, result
  <2> QED BY <2>1, <2>2
<1> HIDE DEF l, r, left, right, result, fails, asked
<1>10. CASE fails /\ \E message : Fail(message)
  <2>1. round = 1 => ~ LegalHere(this) /\ TypeOf(this) = NoType
    BY <1>7, <1>8, <1>10, LegalIs, ObeysIs
  <2> QED BY <1>1, <1>8, <1>10, <2>1, FailVerdict
<1>11. CASE /\ ~ fails
            /\ result_type' = set_type_on_const(once, r, asked[2])
            /\ Then(<< >>) /\ UNCHANGED errors
  <2>1. /\ DOMAIN typed = DOMAIN ast.nodes
        /\ \A m \in DOMAIN ast.nodes : typed[m] = IF m = this THEN result ELSE result_type[m]
    BY <1>2, <1>5
  <2> HIDE DEF typed
  <2>2. /\ DOMAIN once = DOMAIN ast.nodes
        /\ \A m \in DOMAIN ast.nodes : m # l => once[m] = typed[m]
    BY <1>3, <2>1 DEF set_type_on_const
  <2> HIDE DEF once
  <2>3. \A m \in DOMAIN ast.nodes : m # r => result_type'[m] = once[m]
    BY <1>3, <1>11, <2>2 DEF set_type_on_const
  <2>4. result_type'[this] = result
    BY <1>2, <1>4, <2>1, <2>2, <2>3
  <2>5. Writes /\ Blames
    BY <1>2, <1>6, <1>11, <2>1, <2>2, <2>3 DEF Writes, Blames, Typing
  <2>6. round = 1 => TypeOf(this) = result
    BY <1>7, <1>11
  <2>7. round = 1 => Gets(<< >>)
    BY <2>4, <2>6 DEF Gets
  <2>8. round = 1 => Obeys(this)
    BY <1>8, <1>9, <1>11, <2>6, ObeysIs
  <2>9. round = 1 => Decides(<< >>) /\ Checks(<< >>)
    BY <1>2, <2>8 DEF Decides, Checks
  <2>10. Relays(<< >>, << >>)
    BY <1>1, NothingBelow
  <2>11. ast' = ast /\ history' = history
    BY <1>1 DEF KeepScope
  <2> QED BY <1>1, <1>11, <2>5, <2>7, <2>9, <2>10, <2>11, DoneVerdict
<1> QED BY <1>1, <1>10, <1>11

LEMMA type_unary_opVerdict ==
  ASSUME IInv, VerdictInv, type_unary_op
  PROVE  VerdictInv'
<1> DEFINE o == at(this).operands[1]
           type == result_type[o]
           fits == IF at(this).op = "NEGATE" THEN is_numeric(type) ELSE type = BOOL
<1>1. /\ Now("type_unary_op") /\ KeepScope
      /\ \/ (type = NoType \/ ~ fits) /\ \E message : Fail(message)
         \/ /\ type # NoType /\ fits
            /\ result_type' = [result_type EXCEPT ![this] = type]
            /\ Then(<< >>) /\ UNCHANGED errors
  BY DEF type_unary_op
<1>2. /\ this \in DOMAIN ast.nodes /\ at(this).kind = "UnaryOp" /\ Head(Current.todo).do = "type_unary_op"
      /\ Running /\ Current.todo # << >> /\ IsAst(ast)
  BY <1>1, HeadFits DEF Todo, Now, IInv
<1>3. o \in DOMAIN ast.nodes /\ o \in Range(at(this).operands)
  <2>1. Len(at(this).operands) = 1 /\ at(this).operands \in Seq(Nat)
    BY <1>2, AstFacts DEF IInv, Operands, AstNode
  <2>2. DOMAIN at(this).operands = {1}
    BY <2>1
  <2> QED BY <1>2, <2>2, OperandOf DEF Range
<1>4. Consumes(Head(Current.todo).do, this, o)
  BY <1>2, <1>3 DEF Consumes, Judging
<1>5. ASSUME round = 1
      PROVE  TypeOf(this) = IF fits THEN type ELSE NoType
  <2>1. type = TypeOf(o)
    BY <1>2, <1>3, <1>4, <1>5, ReadsTyped DEF VerdictInv
  <2> QED BY <1>2, <2>1, TypeOfUnary
<1>6. at(this).kind \in Expression \ {"FunctionCall"} /\ at(this).kind \notin Declaration \cup Literal
  BY <1>2 DEF Expression, Declaration, Literal
<1> HIDE DEF o, type, fits
<1>7. CASE (type = NoType \/ ~ fits) /\ \E message : Fail(message)
  <2>1. round = 1 => ~ LegalHere(this) /\ TypeOf(this) = NoType
    BY <1>5, <1>6, <1>7, LegalIs, ObeysIs
  <2> QED BY <1>1, <1>6, <1>7, <2>1, FailVerdict
<1>8. CASE /\ type # NoType /\ fits
           /\ result_type' = [result_type EXCEPT ![this] = type]
           /\ Then(<< >>) /\ UNCHANGED errors
  <2>1. DOMAIN result_type = DOMAIN ast.nodes
    BY DEF IInv, TypesInv
  <2>2. result_type'[this] = type /\ \A m \in DOMAIN ast.nodes : m # this => result_type'[m] = result_type[m]
    BY <1>2, <1>8, <2>1
  <2>3. Writes /\ Blames
    BY <1>2, <1>8, <2>2 DEF Writes, Blames, Typing
  <2>4. round = 1 => Gets(<< >>) /\ Obeys(this)
    BY <1>5, <1>6, <1>8, <2>2, ObeysIs DEF Gets
  <2>5. round = 1 => Decides(<< >>) /\ Checks(<< >>)
    BY <1>2, <2>4 DEF Decides, Checks
  <2>6. Relays(<< >>, << >>)
    BY <1>1, NothingBelow
  <2>7. ast' = ast /\ history' = history
    BY <1>1 DEF KeepScope
  <2> QED BY <1>1, <1>8, <2>3, <2>4, <2>5, <2>6, <2>7, DoneVerdict
<1> QED BY <1>1, <1>7, <1>8

\* What the item at hand holds on to is what the tree means.
LEMMA HeadMeant ==
  ASSUME IInv, MeantInv, Running, Current.todo # << >>
  PROVE  EntryMeant(Head(Current.todo))
<1> DEFINE S == ItemAt(ast, Len(frames))
           todo == Current.todo
<1>1. todo \in Seq(S) /\ todo # << >> /\ Len(frames) \in DOMAIN frames /\ frames[Len(frames)].todo = todo
  BY HeadFacts DEF Current
<1> HIDE DEF S, todo
<1>2. 1 \in DOMAIN todo /\ Head(todo) = todo[1]
  BY <1>1
<1>3. Waiting(Head(todo))
  BY <1>1, <1>2 DEF Waiting
<1> QED BY <1>3 DEF MeantInv, todo

\* A check that finds what the rules say.
LEMMA AssignVerdict ==
  ASSUME IInv, VerdictInv, NEW what \in {"check_assignment", "check_return", "check_argument"}, Now(what), KeepScope,
         NEW n \in DOMAIN ast.nodes, Consumes(what, this, n), NEW type, NEW message, Assign(n, type, message),
         IF check_type_assignment(TypeOf(n), type) THEN Decides(<< >>) /\ Checks(<< >>)
         ELSE \E m \in DOMAIN ast.nodes : ~ LegalHere(m)
  PROVE  VerdictInv'
<1>1. /\ Head(Current.todo).do = what /\ Running /\ Current.todo # << >> /\ ast' = ast /\ history' = history
      /\ Then(<< >>)
  BY DEF Now, KeepScope, Assign
<1>2. round = 1 => result_type[n] = TypeOf(n)
  BY <1>1, ReadsTyped DEF VerdictInv
<1>3. Relays(<< >>, << >>) /\ Gets(<< >>)
  BY <1>1, NothingBelow DEF Gets, Typing
<1>4. CASE check_type_assignment(result_type[n], type)
  <2>1. result_type' = set_type_on_const(result_type, n, type) /\ errors' = errors
    BY <1>4 DEF Assign
  <2>2. \A o \in DOMAIN ast.nodes : o # n => result_type'[o] = result_type[o]
    BY <2>1 DEF set_type_on_const, IInv, TypesInv
  <2>3. Writes /\ Blames
    BY <1>1, <2>1, <2>2 DEF Writes, Blames
  <2> QED BY <1>1, <1>2, <1>3, <1>4, <2>1, <2>3, DoneVerdict
<1>5. CASE ~ check_type_assignment(result_type[n], type)
  <2>1. add_error(this, message) /\ result_type' = result_type
    BY <1>5 DEF Assign
  <2>2. errors' # << >>
    BY <1>1, <2>1, ErrorsEither
  <2>3. Writes
    BY <2>1 DEF Writes
  <2>4. round = 1 => Blames
    BY <1>2, <1>5 DEF Blames
  <2> QED BY <1>1, <1>3, <2>1, <2>2, <2>3, <2>4, DoneVerdict
<1> QED BY <1>4, <1>5

LEMMA check_assignmentVerdict ==
  ASSUME IInv, VerdictInv, check_assignment
  PROVE  VerdictInv'
<1> DEFINE o == at(this).operands[1]
<1>1. /\ Now("check_assignment") /\ KeepScope
      /\ IF at(held_entry).kind = "VariableDeclaration"
         THEN Assign(o, at(held_entry).type, "type mismatch")
         ELSE Then(<< >>) /\ UNCHANGED << errors, result_type >>
  BY DEF check_assignment
<1>2. /\ this \in DOMAIN ast.nodes /\ at(this).kind = "VariableAssignment" /\ held_entry \in DOMAIN ast.nodes
      /\ Head(Current.todo).do = "check_assignment" /\ Running /\ Current.todo # << >> /\ IsAst(ast)
  BY <1>1, HeadFits DEF Todo, Now, IInv
<1>3. held_entry = Resolve(ast, this)
  BY <1>2, HeadMeant DEF VerdictInv, EntryMeant, held_entry, this
<1>4. o \in DOMAIN ast.nodes /\ o \in Range(at(this).operands) /\ has_value(at(this))
  <2>1. Len(at(this).operands) = 1 /\ at(this).operands \in Seq(Nat)
    BY <1>2, AstFacts DEF IInv, Operands, AstNode
  <2>2. DOMAIN at(this).operands = {1}
    BY <2>1
  <2> QED BY <1>2, <2>1, <2>2, OperandOf DEF Range, has_value
<1>5. Resolve(ast, this) # NoNode
  BY <1>2, <1>3, AstFacts
<1>6. Obeys(this) <=> (at(held_entry).kind = "VariableDeclaration" => check_type_assignment(TypeOf(o), at(held_entry).type))
  BY <1>2, <1>3, <1>4, <1>5 DEF Obeys
<1>7. at(this).kind \notin Declaration /\ at(this).kind # "FunctionCall"
  BY <1>2 DEF Declaration
<1>8. /\ Obeys(this) => Decides(<< >>) /\ Checks(<< >>)
      /\ ~ Obeys(this) => ~ LegalHere(this)
  BY <1>2, <1>7, LegalIs DEF Decides, Checks
<1>9. Consumes("check_assignment", this, o)
  BY <1>4 DEF Consumes, Judging
<1> HIDE DEF o
<1>10. CASE at(held_entry).kind = "VariableDeclaration"
  BY <1>1, <1>2, <1>4, <1>6, <1>8, <1>9, <1>10, AssignVerdict
<1>11. CASE at(held_entry).kind # "VariableDeclaration"
  <2>1. Relays(<< >>, << >>) /\ Gets(<< >>)
    BY <1>1, <1>2, NothingBelow DEF Gets, Typing
  <2>2. Writes /\ Blames /\ ast' = ast /\ history' = history
    BY <1>1, <1>11 DEF Writes, Blames, KeepScope
  <2> QED BY <1>1, <1>6, <1>8, <1>11, <2>1, <2>2, DoneVerdict
<1> QED BY <1>10, <1>11

\* The return is inside the function that the visitor remembers.
LEMMA check_returnVerdict ==
  ASSUME IInv, VerdictInv, check_return
  PROVE  VerdictInv'
<1> DEFINE o == at(this).operands[1]
           returned == at(current_function_).type
<1>1. /\ Now("check_return") /\ KeepScope
      /\ IF current_function_ = NoNode THEN Fail("return outside function")
         ELSE IF ~ has_value(at(this)) /\ returned # UNDEF THEN Fail("return value expected")
         ELSE IF has_value(at(this)) /\ returned = UNDEF THEN Fail("return value not expected")
         ELSE IF has_value(at(this)) THEN Assign(o, returned, "return type mismatch")
         ELSE Then(<< >>) /\ UNCHANGED << errors, result_type >>
  BY DEF check_return
<1>2. /\ this \in DOMAIN ast.nodes /\ at(this).kind = "FunctionReturn" /\ Len(frames) # 1
      /\ Head(Current.todo).do = "check_return" /\ Running /\ Current.todo # << >> /\ IsAst(ast)
  BY <1>1, HeadFits, InnerHead DEF Todo, Now, IInv, Fits, this, at
<1>3. current_function_ = EnclosingFunction(ast, this) /\ current_function_ \in DOMAIN ast.nodes
  <2>1. Len(frames) \in Nat \ {0} /\ Len(frames) \in DOMAIN frames /\ DOMAIN frames = 1 .. Len(frames)
    BY <1>2, HeadFacts DEF IInv, FramesInv
  <2>2. Len(frames) > 1 /\ 2 \in DOMAIN frames
    BY <1>2, <2>1
  <2>3. current_function_ = frames[2].owner
    BY <2>2 DEF IInv, FramesOwnScopes
  <2>4. frames[2].owner \in DOMAIN ast.nodes /\ is_function(at(frames[2].owner))
    <3>1. frames[2].owner \in OwnerAt(ast, 2)
      BY <2>2 DEF IInv, FramesInv
    <3> QED BY <3>1 DEF OwnerAt, is_function, at
  <2>5. Under(ast, this, frames[2].owner)
    <3> DEFINE S == ItemAt(ast, Len(frames))
               todo == Current.todo
    <3>1. todo \in Seq(S) /\ todo # << >> /\ frames[Len(frames)].todo = todo
      BY <1>2, HeadFacts DEF Current
    <3> HIDE DEF S, todo
    <3>2. 1 \in DOMAIN todo /\ Head(todo) = todo[1]
      BY <3>1
    <3>3. Under(ast, todo[1].node, frames[2].owner)
      BY <1>2, <2>1, <3>1, <3>2 DEF VerdictInv, WithinInv
    <3> QED BY <3>2, <3>3 DEF todo, this
  <2> QED BY <1>2, <2>3, <2>4, <2>5, Enclosing
<1>4. current_function_ # NoNode
  BY <1>2, <1>3, AstFacts
<1>5. Obeys(this) <=> /\ has_value(at(this)) <=> returned # UNDEF
                      /\ has_value(at(this)) => check_type_assignment(TypeOf(o), returned)
  BY <1>2, <1>3 DEF Obeys
<1>6. at(this).kind \notin Declaration \cup Literal \cup Expression /\ at(this).kind # "FunctionCall"
  BY <1>2 DEF Declaration, Literal, Expression
<1>7. /\ Obeys(this) => Decides(<< >>) /\ Checks(<< >>)
      /\ ~ Obeys(this) => ~ LegalHere(this)
  BY <1>2, <1>6, LegalIs DEF Decides, Checks
<1>8. ASSUME has_value(at(this))
      PROVE  o \in DOMAIN ast.nodes /\ Consumes("check_return", this, o)
  <2>1. at(this).operands \in Seq(Nat) /\ at(this).operands # << >>
    BY <1>2, <1>8, AstFacts DEF AstNode, has_value
  <2>2. 1 \in DOMAIN at(this).operands
    BY <2>1
  <2> QED BY <1>2, <1>8, <2>2, OperandOf DEF Range, Consumes, Judging
<1> HIDE DEF o, returned
<1>9. CASE ((~ has_value(at(this)) /\ returned # UNDEF) \/ (has_value(at(this)) /\ returned = UNDEF))
           /\ \E message : Fail(message)
  BY <1>1, <1>5, <1>6, <1>7, <1>9, FailVerdict
<1>10. CASE has_value(at(this)) /\ returned # UNDEF /\ Assign(o, returned, "return type mismatch")
  BY <1>1, <1>2, <1>5, <1>7, <1>8, <1>10, AssignVerdict
<1>11. CASE ~ has_value(at(this)) /\ returned = UNDEF /\ Then(<< >>) /\ UNCHANGED << errors, result_type >>
  <2>1. Relays(<< >>, << >>) /\ Gets(<< >>)
    BY <1>1, <1>2, NothingBelow DEF Gets, Typing
  <2>2. Writes /\ Blames /\ ast' = ast /\ history' = history
    BY <1>1, <1>11 DEF Writes, Blames, KeepScope
  <2> QED BY <1>1, <1>5, <1>7, <1>11, <2>1, <2>2, DoneVerdict
<1> QED BY <1>1, <1>4, <1>9, <1>10, <1>11

\* An argument has one place in one call.
LEMMA OnePlace ==
  ASSUME IsAst(ast), NEW c \in DOMAIN ast.nodes, NEW d \in DOMAIN ast.nodes,
         NEW i \in DOMAIN at(c).operands, NEW j \in DOMAIN at(d).operands, at(c).operands[i] = at(d).operands[j]
  PROVE  c = d /\ i = j
<1>1. c = d
  <2>1. at(c).operands[i] \in Range(at(c).operands) /\ at(c).operands[i] \in Range(at(d).operands)
    BY DEF Range
  <2> QED BY <2>1, OperandUnder, OneParent
<1>2. PICK kids : kids = Children(at(c))
  OBVIOUS
<1>3. /\ DOMAIN at(c).operands \subseteq Nat
      /\ i \in DOMAIN kids /\ j \in DOMAIN kids /\ kids[i] = kids[j]
  <2>1. At(at(c).operands, 0, kids)
    BY <1>2, Sections DEF at
  <2>2. /\ 0 + i \in DOMAIN kids /\ kids[0 + i] = at(c).operands[i]
        /\ 0 + j \in DOMAIN kids /\ kids[0 + j] = at(c).operands[j]
    BY <1>1, <2>1 DEF At
  <2>3. DOMAIN at(c).operands = 1 .. Len(at(c).operands)
    BY <2>1 DEF At
  <2>4. 0 + i = i /\ 0 + j = j
    BY <1>1, <2>3
  <2> QED BY <1>1, <2>2, <2>3, <2>4
<1>4. \A p, q \in DOMAIN kids : p < q => kids[p] < kids[q] /\ kids[p] \in Nat
  <2>1. ASSUME NEW p \in DOMAIN kids, NEW q \in DOMAIN kids, p < q
        PROVE  kids[p] < kids[q] /\ kids[p] \in Nat
    <3>1. kids[p] < kids[q]
      BY <1>2, <2>1, ChildrenAscend DEF at
    <3>2. Child(ast, kids[p], c)
      BY <1>2 DEF Child, at
    <3> QED BY <3>1, <3>2, ChildUnder, TreeFacts
  <2> QED BY <2>1
<1>5. i \in Nat /\ j \in Nat
  BY <1>1, <1>3
<1> QED BY <1>1, <1>3, <1>4, <1>5

LEMMA check_argumentVerdict ==
  ASSUME IInv, VerdictInv, check_argument
  PROVE  VerdictInv'
<1>1. Now("check_argument") /\ KeepScope /\ Assign(this, at(held_entry).type, "type mismatch")
  BY DEF check_argument
<1>2. /\ this \in DOMAIN ast.nodes
      /\ Head(Current.todo).do = "check_argument" /\ Running /\ Current.todo # << >> /\ IsAst(ast)
  BY <1>1, HeadFits DEF Todo, Now, IInv
<1> DEFINE Place(c, i) == /\ at(c).kind = "FunctionCall" /\ Callee(c)
                          /\ this = at(c).operands[i] /\ held_entry = at(Resolve(ast, c)).params[i]
<1>9. \E d \in DOMAIN ast.nodes : \E j \in DOMAIN at(d).operands : Place(d, j)
  BY <1>2, HeadMeant DEF VerdictInv, EntryMeant, held_entry, this
<1>10. PICK c \in DOMAIN ast.nodes : \E j \in DOMAIN at(c).operands : Place(c, j)
  BY <1>9
<1>3. PICK i \in DOMAIN at(c).operands : Place(c, i)
  BY <1>10
<1>4. Decides(<< >>)
  BY <1>2 DEF Decides, Judges, Awaits, Judging
<1>5. ArgumentFits(c, i) <=> check_type_assignment(TypeOf(this), at(held_entry).type)
  BY <1>3 DEF ArgumentFits
<1>6. ArgumentFits(c, i) => Checks(<< >>)
  <2>1. \A d \in DOMAIN ast.nodes : \A j \in DOMAIN at(d).operands : this = at(d).operands[j] => d = c /\ j = i
    <3> TAKE d \in DOMAIN ast.nodes
    <3> TAKE j \in DOMAIN at(d).operands
    <3> HAVE this = at(d).operands[j]
    <3>1. at(c).operands[i] = at(d).operands[j]
      BY <1>3
    <3>2. c = d /\ i = j
      BY <1>2, <3>1, OnePlace
    <3> QED BY <3>2
  <2> QED BY <1>2, <2>1 DEF Checks
<1>7. ~ ArgumentFits(c, i) => ~ LegalHere(c)
  BY <1>3, LegalIs DEF Declaration
<1>8. Consumes("check_argument", this, this)
  BY DEF Consumes
<1> QED BY <1>1, <1>2, <1>4, <1>5, <1>6, <1>7, <1>8, AssignVerdict

-------------------------------------------------------------------------------
(* The visitors that enter a declaration.                                   *)

\* A declaration whose name is taken is not the first of its list.
LEMMA TakenIsIllegal ==
  ASSUME IInv, PlacedInv, Running, Current.todo # << >>,
         \/ Head(Current.todo).do = "register" /\ is_function(at(this))
         \/ Head(Current.todo).do = "visit" /\ at(this).kind \in {"ConstantDeclaration", "Argument"}
         \/ Head(Current.todo).do = "declare_variable" /\ at(this).kind = "VariableDeclaration",
         scopes[Len(frames)][at(this).name] # NoNode
  PROVE  ~ FirstInScope(ast, this)
<1> DEFINE L == Len(frames)
           what == Head(Current.todo).do
           x == at(this).name
<1>1. L \in DOMAIN frames /\ this \in DOMAIN ast.nodes
  BY HeadFacts
<1>2. x \in Name /\ at(this).kind \in Declaration
  BY <1>1, AstFacts DEF IInv, Named, Declaration, is_function
<1>3. PICK list, i, r, inner : Placed(L, list, i, r, inner)
  BY <1>1 DEF PlacedInv
<1>4. /\ Scattered(list) /\ list \in ScopeLists(ast)
      /\ Shape(L, list, i, r, inner, frames[L].todo)
      /\ Holds(scopes[L], list, r, Behind(list, i, inner))
  BY <1>1, <1>3, FrameList DEF Placed
<1>5. PICK p : p = Behind(list, i, inner)
  OBVIOUS
<1>6. << >> \in Seq(Item) /\ Offspring(<< >>)
  BY DEF Offspring
<1>7. PICK r2, p2 : Moves(list, r, p, r2, p2)
  <2>1. \E i2, r2, inner2 : Moves(list, r, p, r2, Behind(list, i2, inner2))
    BY <1>4, <1>5, <1>6, Goes
  <2> QED BY <2>1
<1>8. PICK j \in DOMAIN list : Declares(list, x, j) /\ Entered(list, r, p, j)
  BY <1>2, <1>4, <1>5 DEF Holds
<1>9. r \in Nat /\ p \in Nat /\ \A m \in DOMAIN list : m \in Nat /\ list[m] \in Nat
  <2>1. Len(list) \in Nat /\ r \in Nat /\ p \in Nat
    BY <1>4, <1>5, BehindNat DEF Scattered
  <2>2. DOMAIN ast.nodes \subseteq Nat
    BY TreeFacts DEF IInv
  <2> QED BY <1>4, <2>1, <2>2 DEF Scattered
<1>10. \A m, n \in DOMAIN list : m < n => list[m] < list[n]
  BY <1>4 DEF Scattered
<1>11. \E m \in DOMAIN list : list[m] = this /\ list[j] # this /\ ~ Precedes(ast, this, list[j])
  <2>1. CASE what = "register"
    <3>1. r2 = r + 1 /\ r2 \in DOMAIN list /\ list[r2] = this /\ is_function(at(this))
      BY <1>7, <2>1 DEF Moves
    <3>2. p = 0
      <4>1. i = 0
        BY <1>4, <2>1, Heads
      <4> QED BY <1>5, <4>1 DEF Behind
    <3>3. is_function(at(list[j])) /\ j < r2
      <4>1. ~ (j <= p)
        <5>1. j \in 1 .. Len(list)
          BY <1>4, <1>8 DEF Scattered
        <5> QED BY <3>2, <5>1
      <4> QED BY <1>8, <1>9, <3>1, <4>1 DEF Entered
    <3>4. list[j] < this
      BY <1>10, <3>1, <3>3
    <3> QED BY <1>9, <3>1, <3>3, <3>4 DEF Precedes, is_function, at
  <2>2. CASE what # "register"
    <3>1. p2 = p + 1 /\ p2 \in DOMAIN list /\ list[p2] = this /\ ~ is_function(at(this))
      BY <1>7, <2>2 DEF Moves, is_function
    <3>2. CASE is_function(at(list[j]))
      BY <3>1, <3>2 DEF Precedes, is_function, at
    <3>3. CASE ~ is_function(at(list[j]))
      <4>1. j < p2
        BY <1>8, <1>9, <3>1, <3>3 DEF Entered
      <4>2. list[j] < this
        BY <1>10, <3>1, <4>1
      <4> QED BY <1>9, <3>1, <3>3, <4>2 DEF Precedes, is_function, at
    <3> QED BY <3>2, <3>3
  <2> QED BY <2>1, <2>2
<1> SUFFICES ASSUME FirstInScope(ast, this) PROVE FALSE
  OBVIOUS
<1>12. this \in Range(list) /\ list[j] \in Declarations(ast, list, x)
  BY <1>8, <1>11 DEF Range, Declarations, Declares, at
<1>13. FirstDeclared(ast, list, x) = this
  BY <1>4, <1>12 DEF FirstInScope, at
<1> QED BY <1>4, <1>11, <1>12, <1>13, FirstExists

\* A declaration is entered, or reported as not the first.
LEMMA DeclarationsVerdict ==
  ASSUME IInv, PlacedInv, VerdictInv,
         register_function \/ declare_variable \/ validate_constant_declaration \/ validate_argument
  PROVE  VerdictInv'
<1>1. ASSUME NEW what, Now(what), NEW message, insert_or_fail(this, message),
             \/ what = "register" /\ is_function(at(this))
             \/ what = "visit" /\ at(this).kind \in {"ConstantDeclaration", "Argument"}
             \/ what = "declare_variable" /\ at(this).kind = "VariableDeclaration"
      PROVE  VerdictInv'
  <2>1. /\ ast' = ast /\ history' = history /\ Then(<< >>) /\ result_type' = result_type
        /\ IF Table!is_new(at(this).name) THEN errors' = errors ELSE add_error(this, message)
        /\ Running /\ Current.todo # << >> /\ Head(Current.todo).do = what
        /\ this \in DOMAIN ast.nodes
    BY <1>1, HeadFacts DEF insert_or_fail, Now
  <2>2. at(this).kind \in Declaration /\ at(this).kind \notin Judgeable \cup Expression /\ at(this).kind # "FunctionCall"
    BY <1>1 DEF Judgeable, Declaration, Expression, Literal, is_function
  <2>3. Writes /\ Gets(<< >>)
    BY <2>1, <2>2 DEF Writes, Gets
  <2>4. Relays(<< >>, << >>)
    BY <1>1, NothingBelow
  <2>5. Decides(<< >>) /\ Checks(<< >>)
    BY <1>1, <2>1, <2>2 DEF Decides, Checks
  <2>6. Blames
    <3>1. CASE errors' = errors
      BY <3>1 DEF Blames
    <3>2. CASE ~ Table!is_new(at(this).name)
      <4>1. scopes[Len(frames)][at(this).name] # NoNode
        BY <2>1, <3>2, RunningScopes DEF Table!is_new
      <4>2. ~ FirstInScope(ast, this)
        BY <1>1, <2>1, <4>1, TakenIsIllegal
      <4>3. ~ LegalHere(this)
        BY <2>2, <4>2, LegalIs
      <4> QED BY <2>1, <4>3 DEF Blames
    <3> QED BY <2>1, <3>1, <3>2
  <2> QED BY <1>1, <2>1, <2>3, <2>4, <2>5, <2>6, DoneVerdict
<1>2. CASE register_function
  <2>1. CASE is_function(at(this)) /\ insert_or_fail(this, "already defined")
    BY <1>1, <1>2, <2>1 DEF register_function
  <2>2. CASE ~ is_function(at(this)) /\ Then(<< >>) /\ UNCHANGED << errors, result_type >> /\ KeepScope
    <3>1. Now("register") /\ Head(Current.todo).do = "register"
      BY <1>2 DEF register_function, Now
    <3>2. Writes /\ Gets(<< >>) /\ Blames
      BY <2>2, <3>1 DEF Writes, Gets, Blames, Typing
    <3>3. Relays(<< >>, << >>)
      BY <3>1, NothingBelow
    <3>4. Decides(<< >>) /\ Checks(<< >>)
      BY <3>1 DEF Decides, Judges, Awaits, Judging, Checks
    <3> QED BY <2>2, <3>1, <3>2, <3>3, <3>4, DoneVerdict DEF KeepScope
  <2> QED BY <1>2, <2>1, <2>2 DEF register_function
<1>3. CASE declare_variable
  <2>1. Now("declare_variable") /\ insert_or_fail(this, "already defined")
    BY <1>3 DEF declare_variable
  <2>2. at(this).kind = "VariableDeclaration"
    BY <2>1, InnerHead DEF Fits, Now, this, at
  <2> QED BY <1>1, <2>1, <2>2
<1>4. CASE validate_constant_declaration
  BY <1>1, <1>4 DEF validate_constant_declaration, Visiting
<1>5. CASE validate_argument
  BY <1>1, <1>5 DEF validate_argument, Visiting
<1> QED BY <1>2, <1>3, <1>4, <1>5

-------------------------------------------------------------------------------
(* Calls, and the visitors that open a list.                                *)

\* The nodes of one list are visited in order.
LEMMA ListLater ==
  ASSUME IsAst(ast), NEW n \in DOMAIN ast.nodes, NEW list, NEW shift, At(list, shift, Children(at(n)))
  PROVE  /\ \A i \in DOMAIN list : Child(ast, list[i], n)
         /\ \A i, j \in DOMAIN list : i < j => Later(do("visit", list[i]), do("visit", list[j]))
<1> DEFINE kids == Children(at(n))
<1>1. /\ Len(list) \in Nat /\ shift \in Nat /\ DOMAIN list = 1 .. Len(list)
      /\ \A j \in DOMAIN list : shift + j \in DOMAIN kids /\ kids[shift + j] = list[j]
  BY DEF At
<1> HIDE DEF kids
<1>2. \A i \in DOMAIN list : Child(ast, list[i], n)
  BY <1>1 DEF Child, at, kids
<1>3. ASSUME NEW i \in DOMAIN list, NEW j \in DOMAIN list, i < j
      PROVE  Later(do("visit", list[i]), do("visit", list[j]))
  <2>1. shift + i < shift + j
    BY <1>1, <1>3
  <2>2. PICK p, q : p = shift + i /\ q = shift + j
    OBVIOUS
  <2>3. p \in DOMAIN kids /\ q \in DOMAIN kids /\ p < q /\ kids[p] = list[i] /\ kids[q] = list[j]
    BY <1>1, <2>1, <2>2
  <2> QED BY <2>3, SiblingsLater DEF do, kids
<1> QED BY <1>2, <1>3

\* A then block is done before the else block.
LEMMA ThenBeforeElse ==
  ASSUME IsAst(ast), NEW n \in DOMAIN ast.nodes, NEW i \in DOMAIN at(n).body, NEW c \in Range(at(n).orelse)
  PROVE  Later(do("visit", at(n).body[i]), do("visit", c))
<1> DEFINE kids == Children(at(n))
<1>1. PICK b, e : b = at(n).body /\ e = at(n).orelse
  OBVIOUS
<1>2. PICK s \in Nat : At(b, s, kids) /\ At(e, s + Len(b), kids)
  <2>1. LET heads == Len(at(n).operands) + Len(at(n).params) IN
        At(b, heads, kids) /\ At(e, heads + Len(b), kids)
    BY <1>1, Sections DEF at
  <2> QED BY <2>1 DEF At
<1>3. PICK j \in DOMAIN e : e[j] = c
  BY <1>1 DEF Range
<1> HIDE DEF kids
<1>4. PICK p, q : p = s + i /\ q = s + Len(b) + j
  OBVIOUS
<1>5. /\ i \in 1 .. Len(b) /\ j \in 1 .. Len(e) /\ Len(b) \in Nat /\ Len(e) \in Nat
      /\ p \in DOMAIN kids /\ kids[p] = b[i] /\ q \in DOMAIN kids /\ kids[q] = c
  BY <1>1, <1>2, <1>3, <1>4 DEF At
<1>6. p < q
  BY <1>4, <1>5
<1> QED BY <1>1, <1>5, <1>6, SiblingsLater DEF do, kids

\* A block of an if is a list of children before it.
LEMMA BlockUnder ==
  ASSUME IsAst(ast), NEW n \in DOMAIN ast.nodes, NEW c \in Range(at(n).body) \cup Range(at(n).orelse)
  PROVE  /\ Child(ast, c, n) /\ c \in DOMAIN ast.nodes /\ c < n /\ ~ Under(ast, n, c)
         /\ \A u : Under(ast, u, c) => Under(ast, u, n) /\ u # n
<1>1. PICK b, e : b = at(n).body /\ e = at(n).orelse
  OBVIOUS
<1>2. PICK p, q : At(b, p, Children(at(n))) /\ At(e, q, Children(at(n)))
  <2>1. LET heads == Len(at(n).operands) + Len(at(n).params) IN
        At(b, heads, Children(at(n))) /\ At(e, heads + Len(b), Children(at(n)))
    BY <1>1, Sections DEF at
  <2> QED BY <2>1
<1>3. (\E j \in DOMAIN b : b[j] = c) \/ (\E j \in DOMAIN e : e[j] = c)
  BY <1>1 DEF Range
<1>4. Child(ast, c, n)
  BY <1>2, <1>3, ListLater
<1>5. c \in DOMAIN ast.nodes /\ c < n /\ DOMAIN ast.nodes \subseteq Nat
  BY <1>4, ChildUnder, TreeFacts
<1>6. ~ Under(ast, n, c)
  <2>1. Under(ast, n, c) => n <= c
    BY <1>5, UnderFacts
  <2> QED BY <1>5, <2>1
<1>7. \A u : Under(ast, u, c) => Under(ast, u, n)
  BY <1>4, ChildUnder
<1> QED BY <1>4, <1>5, <1>6, <1>7

\* A call judges whether it calls a function, and leaves each argument to be checked.
LEMMA validate_function_callVerdict ==
  ASSUME IInv, PlacedInv, VerdictInv, validate_function_call
  PROVE  VerdictInv'
<1> DEFINE found == Table!lookup(at(this).name)
           args == at(this).operands
           params == at(found).params
           items == [i \in DOMAIN args |-> [do |-> "argument", node |-> args[i], entry |-> params[i]]]
           typed == result_type' = [result_type EXCEPT ![this] = at(found).type]
<1>1. /\ Visiting("FunctionCall") /\ Now("visit") /\ at(this).kind = "FunctionCall" /\ KeepScope
      /\ \/ (found = NoNode \/ ~ is_function(at(found))) /\ \E message : Fail(message)
         \/ /\ found # NoNode /\ is_function(at(found)) /\ typed /\ Len(args) # Len(params)
            /\ add_error(this, "wrong argument count") /\ Then(<< >>)
         \/ /\ found # NoNode /\ is_function(at(found)) /\ typed /\ Len(args) = Len(params)
            /\ Then(items) /\ errors' = errors
  BY DEF validate_function_call, Visiting
<1>2. /\ this \in DOMAIN ast.nodes /\ found \in {NoNode} \cup DOMAIN ast.nodes
      /\ Running /\ Current.todo # << >> /\ Head(Current.todo).do = "visit" /\ IsAst(ast)
      /\ ast' = ast /\ history' = history
  BY <1>1, LooksUp DEF IInv, Now, KeepScope
<1>3. found = Resolve(ast, this)
  BY <1>1, LookupResolves DEF Uses
<1>4. /\ TypeOf(this) = IF found # NoNode /\ is_function(at(found)) THEN at(found).type ELSE NoType
      /\ Callee(this) <=> found # NoNode /\ is_function(at(found)) /\ Len(params) = Len(args)
      /\ Obeys(this) <=> Callee(this)
  BY <1>1, <1>2, <1>3, TypeOfLeaf DEF Callee, Obeys
<1>5. at(this).kind \notin Declaration \cup Literal /\ at(this).kind \in Judgeable
  BY <1>1 DEF Declaration, Literal, Judgeable, Kind, Expression
<1>6. ~ Callee(this) => ~ LegalHere(this)
  BY <1>4, <1>5, LegalIs
<1>7. typed => /\ result_type'[this] = at(found).type
               /\ \A o \in DOMAIN ast.nodes : o # this => result_type'[o] = result_type[o]
  <2>1. DOMAIN result_type = DOMAIN ast.nodes
    BY DEF IInv, TypesInv
  <2> QED BY <1>2, <2>1
<1>8. CASE (found = NoNode \/ ~ is_function(at(found))) /\ \E message : Fail(message)
  BY <1>1, <1>4, <1>5, <1>6, <1>8, FailVerdict
<1>9. CASE /\ found # NoNode /\ is_function(at(found)) /\ typed /\ Len(args) # Len(params)
           /\ add_error(this, "wrong argument count") /\ Then(<< >>)
  <2>1. Writes /\ Blames
    BY <1>2, <1>4, <1>6, <1>7, <1>9 DEF Writes, Blames, Typing
  <2>2. Gets(<< >>)
    BY <1>4, <1>7, <1>9 DEF Gets
  <2>3. errors' # << >>
    BY <1>2, <1>9, ErrorsEither
  <2> QED BY <1>1, <1>2, <1>9, <2>1, <2>2, <2>3, DoneVerdict
<1>10. CASE /\ found # NoNode /\ is_function(at(found)) /\ typed /\ Len(args) = Len(params)
            /\ Then(items) /\ errors' = errors
  <2>1. items \in Seq(Item) /\ DOMAIN items = DOMAIN args
    BY <1>2, <1>10, CallTodo
  <2>2. \A j \in DOMAIN items : /\ j \in DOMAIN args
                                /\ items[j].do = "argument" /\ items[j].node = args[j] /\ items[j].entry = params[j]
    OBVIOUS
  <2>3. Callee(this)
    BY <1>4, <1>10
  <2>4. Then(items)
    BY <1>10
  <2>5. \A j \in DOMAIN items : EntryMeant(items[j])
    <3> HIDE DEF items
    <3> QED BY <1>1, <1>2, <1>3, <2>2, <2>3 DEF EntryMeant
  <2> HIDE DEF items, found
  <2>6. \A j \in DOMAIN args : /\ args[j] \in Range(args) /\ Left(items, "argument", args[j])
                               /\ Child(ast, args[j], this) /\ args[j] # this
    <3>1. ASSUME NEW j \in DOMAIN args
          PROVE  args[j] \in Range(args) /\ Child(ast, args[j], this) /\ args[j] # this
      <4>1. args[j] \in Range(args)
        BY DEF Range
      <4>2. Child(ast, args[j], this) /\ args[j] < this /\ args[j] \in DOMAIN ast.nodes
        BY <1>2, <4>1, OperandUnder, ChildUnder
      <4> QED BY <1>2, <4>1, <4>2, TreeFacts
    <3> QED BY <2>1, <2>2, <3>1 DEF Left
  <2>7. ASSUME NEW what, NEW m, Left(items, what, m)
        PROVE  what = "argument" /\ m \in Range(args)
    BY <2>1, <2>2, <2>6, <2>7 DEF Left
  <2>8. Len(frames) # 1
    BY <1>1, InnerHead DEF TopLevel
  <2>9. Tidy(items, << >>)
    <3>1. ASSUME NEW i \in DOMAIN items, NEW j \in DOMAIN items, i < j
          PROVE  Later(items[i], items[j])
      <4>1. PICK list : list = args
        OBVIOUS
      <4>2. At(list, 0, Children(at(this)))
        BY <1>2, <4>1, Sections DEF at
      <4>3. /\ 0 + i \in DOMAIN Children(at(this)) /\ Children(at(this))[0 + i] = list[i]
            /\ 0 + j \in DOMAIN Children(at(this)) /\ Children(at(this))[0 + j] = list[j]
            /\ 0 + i = i /\ 0 + j = j
        BY <2>1, <4>1, <4>2 DEF At
      <4> QED BY <1>2, <2>2, <3>1, <4>1, <4>3, SiblingsLater
    <3> QED BY <1>2, <2>2, <2>6, <3>1 DEF Tidy
  <2>10. Writes /\ Blames /\ Gets(items)
    BY <1>2, <1>4, <1>7, <1>10 DEF Writes, Blames, Typing, Gets
  <2>11. Asks(items)
    BY <2>7 DEF Asks, Consumes, Judging
  <2>12. ASSUME NEW o \in Range(args), NEW n, Under(ast, n, o)
         PROVE  Under(ast, n, this) /\ n # this /\ n \in DOMAIN ast.nodes
    <3>1. Child(ast, o, this) /\ o < this /\ n \in DOMAIN ast.nodes /\ n <= o /\ o \in DOMAIN ast.nodes
      BY <1>2, <2>12, OperandUnder, ChildUnder
    <3>2. DOMAIN ast.nodes \subseteq Nat
      BY <1>2, TreeFacts
    <3>3. n # this
      BY <1>2, <3>1, <3>2
    <3> QED BY <1>2, <2>12, <3>1, <3>3, ChildUnder
  <2>13. Spares(items, << >>)
    BY <1>2, <1>7, <1>10, <2>7, <2>12 DEF Spares, Untyped, Awaits
  <2>14. Relays(items, << >>)
    <3> SUFFICES ASSUME NEW n \in DOMAIN ast.nodes, at(n).kind \in Judgeable, Under(ast, n, this), n # this
                 PROVE  \E what, m : Left(items, what, m) /\ Awaits(what, m, n)
      BY <1>2 DEF Relays, Awaits
    <3>1. PICK o \in Range(args) : Under(ast, n, o)
      BY <1>1, <1>2, JudgeableBelow
    <3>2. Left(items, "argument", o)
      BY <2>6 DEF Range
    <3> QED BY <3>1, <3>2 DEF Awaits
  <2>15. Decides(items)
    BY <1>4, <2>3 DEF Decides
  <2>16. Checks(items)
    BY <1>2, <2>6 DEF Checks
  <2>17. Owes(items, << >>)
    BY <2>5, <2>8, <2>9, <2>10, <2>11, <2>13, <2>14, <2>15, <2>16 DEF Owes
  <2>18. ErrorsStay
    BY <1>10 DEF ErrorsStay
  <2> QED BY <1>1, <1>2, <2>1, <2>4, <2>17, <2>18, ThenVerdict
<1> QED BY <1>1, <1>8, <1>9, <1>10

\* An argument is visited, and then checked.
LEMMA validate_call_argumentVerdict ==
  ASSUME IInv, VerdictInv, validate_call_argument
  PROVE  VerdictInv'
<1> DEFINE check == [do |-> "check_argument", node |-> this, entry |-> held_entry]
           items == << do("visit", this), check >>
<1>1. /\ Now("argument") /\ KeepScope /\ UNCHANGED << errors, result_type >> /\ Then(items)
  BY DEF validate_call_argument
<1>2. Fits(ast, Head(Current.todo)) /\ Head(Current.todo).do = "argument" /\ Len(frames) # 1
      /\ Running /\ Current.todo # << >> /\ this \in DOMAIN ast.nodes /\ IsAst(ast)
  BY <1>1, InnerHead, HeadFacts DEF Now, IInv
<1>3. held_entry \in DOMAIN ast.nodes
  BY <1>2 DEF Fits, held_entry
<1>4. do("visit", this) \in Item /\ check \in Item
  BY <1>1, <1>3, ItemType DEF do, Todo
<1>5. /\ items \in Seq(Item) /\ DOMAIN items = {1, 2}
      /\ items[1].do = "visit" /\ items[1].node = this
      /\ items[2].do = "check_argument" /\ items[2].node = this /\ items[2].entry = held_entry
  BY <1>4 DEF do
<1> HIDE DEF items
<1>6. \A what, m : Left(items, what, m) <=> what \in {"visit", "check_argument"} /\ m = this
  BY <1>5 DEF Left
<1>7. EntryMeant(items[1]) /\ EntryMeant(items[2])
  <2>1. EntryMeant(Head(Current.todo))
    BY <1>2, HeadMeant DEF VerdictInv
  <2> QED BY <1>2, <1>5, <2>1 DEF EntryMeant, held_entry, this
<1>8. Tidy(items, << >>)
  <2>1. Later(items[1], items[2])
    BY <1>5 DEF Later, Typing, Untyped, Awaits
  <2>2. \A i, j \in DOMAIN items : i < j => i = 1 /\ j = 2
    BY <1>5
  <2> QED BY <1>2, <1>5, <2>1, <2>2 DEF Tidy, Typing
<1>9. Writes /\ Blames /\ Gets(items)
  BY <1>1, <1>2 DEF Writes, Blames, Gets, Typing
<1>10. Asks(items)
  BY <1>6 DEF Asks, Consumes, Judging, Typing
<1>11. Spares(items, << >>)
  BY <1>1, <1>2, <1>6 DEF Spares, Untyped, Awaits
<1>12. Relays(items, << >>)
  BY <1>2, <1>6 DEF Relays, Awaits
<1>13. Decides(items)
  BY <1>2, <1>6 DEF Decides, Judges, Awaits, Judging
<1>14. Checks(items)
  BY <1>2, <1>6 DEF Checks
<1>15. Owes(items, << >>)
  BY <1>2, <1>5, <1>7, <1>8, <1>9, <1>10, <1>11, <1>12, <1>13, <1>14 DEF Owes
<1>16. ErrorsStay /\ ast' = ast /\ history' = history
  BY <1>1 DEF ErrorsStay, KeepScope
<1> QED BY <1>1, <1>5, <1>15, <1>16, ThenVerdict

LEMMA validate_function_declarationVerdict ==
  ASSUME IInv, VerdictInv, validate_function_declaration
  PROVE  VerdictInv'
<1> DEFINE list == at(this).params \o at(this).body
<1>1. /\ Now("visit") /\ at(this).kind = "FunctionDeclaration"
      /\ Enter(list, << >>) /\ UNCHANGED << ast, history, errors, result_type >>
  BY DEF validate_function_declaration, Visiting
<1>2. this \in DOMAIN ast.nodes /\ Head(Current.todo).do = "visit" /\ IsAst(ast)
  BY <1>1, HeadFacts DEF Now, IInv
<1>3. at(this).kind \notin Judgeable \cup Expression /\ at(this).kind # "FunctionCall"
  BY <1>1 DEF Judgeable, Declaration, Expression, Literal
<1>4. PICK shift : At(list, shift, Children(at(this)))
  BY <1>1, <1>2, OpenedList DEF Opens, is_function
<1>5. \A c \in Range(at(this).body) : \E i \in DOMAIN list : list[i] = c
  <2> SUFFICES ASSUME NEW c \in Range(at(this).body) PROVE \E i \in DOMAIN list : list[i] = c
    OBVIOUS
  <2>1. PICK p, b : p = at(this).params /\ b = at(this).body
    OBVIOUS
  <2>2. p \in Seq(Nat) /\ b \in Seq(Nat)
    BY <1>2, <2>1, AstFacts DEF AstNode
  <2>3. PICK i \in DOMAIN b : b[i] = c
    BY <2>1 DEF Range
  <2>4. Len(p) + i \in DOMAIN (p \o b) /\ (p \o b)[Len(p) + i] = b[i]
    BY <2>2, <2>3
  <2> QED BY <2>1, <2>3, <2>4
<1> HIDE DEF list
<1>6. << >> \in Seq(Item) /\ DOMAIN << >> = {} /\ \A w, m : ~ Left(<< >>, w, m)
  BY DEF Left
<1>7. /\ \A i \in DOMAIN list : Child(ast, list[i], this)
      /\ \A i, j \in DOMAIN list : i < j => Later(do("visit", list[i]), do("visit", list[j]))
  BY <1>2, <1>4, ListLater
<1>8. Tidy(<< >>, list)
  BY <1>2, <1>6, <1>7 DEF Tidy
<1>9. Writes /\ Blames /\ Gets(<< >>) /\ Asks(<< >>)
  BY <1>1, <1>3, <1>6 DEF Writes, Blames, Gets, Asks
<1>10. Spares(<< >>, list)
  <2>1. \A i \in DOMAIN list : \A n : Under(ast, n, list[i]) => Under(ast, n, this)
    BY <1>2, <1>7, ChildUnder
  <2> QED BY <1>1, <1>2, <1>6, <2>1 DEF Spares, Untyped, Awaits
<1>11. Relays(<< >>, list)
  <2>1. Range(at(this).operands) = {}
    <3>1. DOMAIN at(this).operands = {}
      BY <1>1, <1>2, NoOperands DEF Operands
    <3> QED BY <3>1 DEF Range
  <2> SUFFICES ASSUME NEW n \in DOMAIN ast.nodes, at(n).kind \in Judgeable, Under(ast, n, this), n # this
               PROVE  \E i \in DOMAIN list : Under(ast, n, list[i])
    BY <1>2 DEF Relays, Awaits
  <2>2. PICK c \in Range(at(this).body) : Under(ast, n, c)
    BY <1>1, <1>2, <2>1, JudgeableBelow
  <2> QED BY <1>5, <2>2
<1>12. Decides(<< >>) /\ Checks(<< >>)
  BY <1>2, <1>3 DEF Decides, Checks
<1>13. Owes(<< >>, list)
  BY <1>6, <1>8, <1>9, <1>10, <1>11, <1>12 DEF Owes
<1>14. ErrorsStay
  BY <1>1 DEF ErrorsStay
<1> QED BY <1>1, <1>6, <1>13, <1>14, EnterVerdict

\* The condition decides whether an if is legal, its blocks are left to be done.
LEMMA check_conditionVerdict ==
  ASSUME IInv, AcceptInv, VerdictInv, check_condition
  PROVE  VerdictInv'
<1> DEFINE items == IF has_else(at(this)) THEN << do("else_block", this) >> ELSE << >>
           o == at(this).operands[1]
           list == at(this).body
<1>1. /\ Now("check_condition") /\ Enter(list, items) /\ UNCHANGED << ast, history, result_type >>
      /\ IF result_type[o] \in {NoType, BOOL} THEN errors' = errors
         ELSE add_error(o, "condition should return bool")
  BY DEF check_condition
<1>2. /\ this \in DOMAIN ast.nodes /\ at(this).kind = "If" /\ Head(Current.todo).do = "check_condition"
      /\ Running /\ Current.todo # << >> /\ IsAst(ast) /\ Len(frames) # 1
  BY <1>1, HeadFits, InnerHead DEF Todo, Now, IInv
<1>3. o \in DOMAIN ast.nodes /\ o \in Range(at(this).operands) /\ has_value(at(this))
  <2>1. Len(at(this).operands) = 1 /\ at(this).operands \in Seq(Nat)
    BY <1>2, AstFacts DEF IInv, Operands, AstNode
  <2>2. DOMAIN at(this).operands = {1}
    BY <2>1
  <2> QED BY <1>2, <2>1, <2>2, OperandOf DEF Range, has_value
<1>4. /\ at(this).kind \notin Declaration \cup Expression /\ at(this).kind \in Judgeable
      /\ at(this).kind # "FunctionCall"
  BY <1>2 DEF Declaration, Expression, Literal, Judgeable, Kind
<1>5. Obeys(this) <=> TypeOf(o) = BOOL
  BY <1>2, <1>3 DEF Obeys
<1>6. round = 1 => result_type[o] = TypeOf(o)
  <2>1. Consumes(Head(Current.todo).do, this, o)
    BY <1>2, <1>3 DEF Consumes, Judging
  <2> QED BY <1>2, <1>3, <2>1, ReadsTyped DEF VerdictInv
<1>7. errors' = errors \/ \E n, message : add_error(n, message)
  BY <1>1
<1>8. ErrorsStay /\ (~ (result_type[o] \in {NoType, BOOL}) => errors' # << >>)
  BY <1>1, <1>7, ErrorsEither
<1>9. errors' = << >> => result_type[o] = BOOL
  <2>1. errors = << >> => result_type[o] # NoType
    BY <1>1, HeldHead
  <2> QED BY <1>8, <2>1 DEF ErrorsStay
<1>10. /\ items \in Seq(Item)
       /\ \A j \in DOMAIN items : items[j].do = "else_block" /\ items[j].node = this /\ j = 1
       /\ \A w, m : Left(items, w, m) => w = "else_block" /\ m = this
       /\ Left(items, "else_block", this) \/ Range(at(this).orelse) = {}
  <2>1. PICK b : b = do("else_block", this)
    OBVIOUS
  <2>2. b \in Item /\ b.do = "else_block" /\ b.node = this
    BY <1>1, <2>1, ItemType DEF do, Todo
  <2>3. CASE has_else(at(this))
    <3>1. items = << b >> /\ << b >> \in Seq(Item) /\ DOMAIN << b >> = {1} /\ << b >>[1] = b
      BY <2>1, <2>2, <2>3
    <3> HIDE DEF items
    <3> QED BY <2>2, <3>1 DEF Left
  <2>4. CASE ~ has_else(at(this))
    <3>1. items = << >> /\ << >> \in Seq(Item) /\ DOMAIN << >> = {} /\ Range(at(this).orelse) = {}
      BY <2>4 DEF has_else, Range
    <3> HIDE DEF items
    <3> QED BY <3>1 DEF Left
  <2> QED BY <2>3, <2>4
<1> HIDE DEF items, list, o
<1>11. \A i \in DOMAIN list : list[i] \in Range(at(this).body)
  BY DEF list, Range
<1>12. Tidy(items, list)
  <2>1. PICK shift : At(list, shift, Children(at(this)))
    BY <1>2, Sections DEF at, list
  <2>2. /\ \A i \in DOMAIN list : Child(ast, list[i], this)
        /\ \A i, j \in DOMAIN list : i < j => Later(do("visit", list[i]), do("visit", list[j]))
    BY <1>2, <2>1, ListLater
  <2>3. ASSUME NEW i \in DOMAIN list, NEW j \in DOMAIN items
        PROVE  Later(do("visit", list[i]), items[j])
    <3>1. list[i] < this
      BY <1>2, <1>11, BlockUnder
    <3>2. ASSUME NEW n \in DOMAIN ast.nodes, Untyped(items[j].do, items[j].node, n)
          PROVE  list[i] < n
      <4>1. PICK c \in Range(at(this).orelse) : Under(ast, n, c)
        BY <1>10, <3>2 DEF Untyped, Awaits
      <4>2. Later(do("visit", list[i]), do("visit", c))
        BY <1>2, <4>1, ThenBeforeElse DEF list
      <4> QED BY <4>1, <4>2 DEF Later, Untyped, Awaits, do
    <3> QED BY <1>10, <3>1, <3>2 DEF Later, do
  <2>4. \A i, j \in DOMAIN items : ~ (i < j)
    BY <1>10
  <2> QED BY <1>2, <1>10, <2>2, <2>3, <2>4 DEF Tidy, Typing
<1>13. \A j \in DOMAIN items : EntryMeant(items[j])
  BY <1>10 DEF EntryMeant
<1>14. Writes /\ Gets(items) /\ Asks(items)
  BY <1>1, <1>2, <1>10 DEF Writes, Gets, Asks, Typing, Consumes, Judging
<1>15. round = 1 => Blames
  <2>1. CASE result_type[o] \in {NoType, BOOL}
    BY <1>1, <2>1 DEF Blames
  <2>2. CASE ~ (result_type[o] \in {NoType, BOOL})
    <3>1. round = 1 => ~ LegalHere(this)
      BY <1>4, <1>5, <1>6, <2>2, LegalIs
    <3> QED BY <1>2, <3>1 DEF Blames
  <2> QED BY <2>1, <2>2
<1>16. Spares(items, list)
  BY <1>1, <1>2, <1>10, <1>11 DEF Spares, Untyped, Awaits
<1>17. Relays(items, list)
  <2> SUFFICES ASSUME NEW n \in DOMAIN ast.nodes, NEW c \in Range(at(this).body) \cup Range(at(this).orelse),
                      Under(ast, n, c)
               PROVE  \/ \E what, m : Left(items, what, m) /\ Awaits(what, m, n)
                      \/ \E i \in DOMAIN list : Under(ast, n, list[i])
    BY <1>2 DEF Relays, Awaits
  <2>1. CASE c \in Range(at(this).body)
    BY <2>1 DEF Range, list
  <2>2. CASE c \in Range(at(this).orelse)
    BY <1>10, <2>2 DEF Awaits
  <2> QED BY <2>1, <2>2
<1>18. (round = 1 /\ errors' = << >>) => Decides(items)
  BY <1>5, <1>6, <1>9 DEF Decides
<1>19. Checks(items)
  BY <1>2 DEF Checks
<1>20. Owes(items, list)
  BY <1>2, <1>12, <1>13, <1>14, <1>15, <1>16, <1>17, <1>18, <1>19 DEF Owes
<1> QED BY <1>1, <1>8, <1>10, <1>20, EnterVerdict

LEMMA validate_else_blockVerdict ==
  ASSUME IInv, VerdictInv, validate_else_block
  PROVE  VerdictInv'
<1> DEFINE list == at(this).orelse
<1>1. Now("else_block") /\ Enter(list, << >>) /\ UNCHANGED << ast, history, errors, result_type >>
  BY DEF validate_else_block
<1>2. this \in DOMAIN ast.nodes /\ Head(Current.todo).do = "else_block" /\ IsAst(ast) /\ at(this).kind = "If"
  BY <1>1, HeadFits DEF Todo, Now, IInv
<1> HIDE DEF list
<1>3. << >> \in Seq(Item) /\ DOMAIN << >> = {} /\ \A w, m : ~ Left(<< >>, w, m)
  BY DEF Left
<1>4. PICK shift : At(list, shift, Children(at(this)))
  BY <1>2, Sections DEF at, list
<1>5. /\ \A i \in DOMAIN list : Child(ast, list[i], this)
      /\ \A i, j \in DOMAIN list : i < j => Later(do("visit", list[i]), do("visit", list[j]))
  BY <1>2, <1>4, ListLater
<1>6. Tidy(<< >>, list)
  BY <1>2, <1>3, <1>5 DEF Tidy
<1>7. Writes /\ Blames /\ Gets(<< >>) /\ Asks(<< >>)
  BY <1>1, <1>2, <1>3 DEF Writes, Blames, Gets, Asks, Typing
<1>8. Spares(<< >>, list) /\ Relays(<< >>, list)
  BY <1>1, <1>2, <1>3 DEF Spares, Relays, Untyped, Awaits, Range, list
<1>9. Decides(<< >>)
  <2>1. ~ Judges("else_block", this, this)
    BY <1>2, BlockUnder DEF Judges, Awaits, Judging
  <2> QED BY <1>2, <2>1 DEF Decides
<1>10. Checks(<< >>)
  BY <1>2 DEF Checks
<1>11. Owes(<< >>, list)
  BY <1>3, <1>6, <1>7, <1>8, <1>9, <1>10 DEF Owes
<1>12. ErrorsStay
  BY <1>1 DEF ErrorsStay
<1> QED BY <1>1, <1>3, <1>11, <1>12, EnterVerdict

-------------------------------------------------------------------------------
(* The first step of a validation, the last ones, and the theorem.          *)

\* What is pending when validate begins.
LEMMA FirstPending ==
  ASSUME IInv, validate, NEW what, NEW m, Pending(what, m)'
  PROVE  what \in {"register", "visit"} /\ \E i \in DOMAIN ast.top : m = ast.top[i]
<1>1. frames' = << [owner |-> NoNode, todo |-> top_level_items] >>
  BY DEF validate
<1>2. DOMAIN frames' = {1} /\ frames'[1].todo = top_level_items
  BY <1>1
<1>3. PICK j \in DOMAIN top_level_items : top_level_items[j].do = what /\ top_level_items[j].node = m
  BY <1>2 DEF Pending
<1> QED BY <1>3, TopIsAwaited DEF InTop

\* The instructions are visited in tree order.
LEMMA FirstOrder ==
  ASSUME IInv, validate
  PROVE  OrderInv'
<1> DEFINE n == Len(ast.top)
<1>1. frames' = << [owner |-> NoNode, todo |-> top_level_items] >> /\ ast' = ast /\ IsAst(ast)
  BY DEF validate, IInv
<1>2. DOMAIN frames' = {1} /\ frames'[1].todo = top_level_items
  BY <1>1
<1>3. /\ n \in Nat /\ DOMAIN ast.top = 1 .. n /\ DOMAIN top_level_items = 1 .. n + n
      /\ \A i \in DOMAIN ast.top : top_level_items[i] = do("register", ast.top[i])
      /\ \A i \in DOMAIN ast.top : top_level_items[n + i] = do("visit", ast.top[i])
  BY TopItems
<1>4. /\ ast.top \in ScopeLists(ast)
      /\ \A i \in DOMAIN ast.top : ast.top[i] \in Range(ast.top)
      /\ \A i, j \in DOMAIN ast.top : i < j => ast.top[i] < ast.top[j]
      /\ DOMAIN ast.nodes \subseteq Nat
  BY <1>1, TopScattered, TreeFacts DEF ScopeLists, Range, Scattered
<1> HIDE DEF n
<1>5. ASSUME NEW i \in 1 .. n, NEW j \in 1 .. n, i < j
      PROVE  Later(do("visit", ast.top[i]), do("visit", ast.top[j]))
  <2>1. PICK a, b : a = ast.top[i] /\ b = ast.top[j]
    OBVIOUS
  <2>2. a < b /\ a < FirstOf(ast)[b] /\ a \in DOMAIN ast.nodes /\ b \in DOMAIN ast.nodes
    BY <1>1, <1>3, <1>4, <1>5, <2>1, ScopeInOrder
  <2>3. ASSUME NEW m \in DOMAIN ast.nodes, Untyped("visit", b, m)
        PROVE  a < m
    <3>1. Under(ast, m, b)
      BY <2>3 DEF Untyped, Awaits
    <3>2. FirstOf(ast)[b] <= m /\ FirstOf(ast)[b] \in Nat
      BY <1>1, <1>4, <2>2, <3>1, TreeFacts DEF Under
    <3> QED BY <1>4, <2>2, <3>2
  <2> QED BY <2>1, <2>2, <2>3 DEF Later, do
<1>6. ASSUME NEW i \in 1 .. n + n, NEW j \in 1 .. n + n, i < j,
             "register" \notin {top_level_items[i].do, top_level_items[j].do}
      PROVE  Later(top_level_items[i], top_level_items[j])
  <2>1. ASSUME NEW k \in 1 .. n + n, top_level_items[k].do # "register"
        PROVE  k - n \in 1 .. n /\ top_level_items[k] = do("visit", ast.top[k - n])
    <3>1. k \notin 1 .. n
      <4> SUFFICES ASSUME k \in 1 .. n PROVE FALSE
        OBVIOUS
      <4>1. k \in DOMAIN ast.top
        BY <1>3
      <4>2. top_level_items[k] = do("register", ast.top[k])
        BY <1>3, <4>1
      <4> QED BY <2>1, <4>2 DEF do
    <3>2. k - n \in 1 .. n /\ n + (k - n) = k
      BY <1>3, <3>1
    <3> QED BY <1>3, <3>2
  <2>2. i - n < j - n
    BY <1>3, <1>6
  <2> QED BY <1>5, <1>6, <2>1, <2>2
<1>7. ASSUME NEW a, NEW b, Before(a, b)', "register" \notin {a.do, b.do}
      PROVE  Later(a, b)'
  <2>1. Later(a, b)
    BY <1>2, <1>3, <1>6, <1>7 DEF Before
  <2> QED BY <1>1, <2>1, LaterStays
<1> QED BY <1>7 DEF OrderInv

\* The first validation begins with all nodes as they were made and to be judged.
LEMMA validateVerdict ==
  ASSUME IInv, VerdictInv, validate
  PROVE  VerdictInv'
<1>1. /\ frames' = << [owner |-> NoNode, todo |-> top_level_items] >> /\ ast' = ast /\ IsAst(ast)
      /\ errors' = << >> /\ round' = round + 1 /\ result_type' = result_type /\ round \in Nat
  BY DEF validate, IInv, HistoryInv
<1>2. DOMAIN frames' = {1} /\ frames'[1].todo = top_level_items
  BY <1>1
<1>3. OrderInv'
  BY FirstOrder
<1>4. WithinInv'
  BY <1>2 DEF WithinInv
<1>5. MeantInv'
  <2>1. ASSUME NEW item, Waiting(item)'
        PROVE  EntryMeant(item)'
    <3>1. item.do \in {"register", "visit"}
      BY <1>2, <2>1, TopIsAwaited DEF Waiting
    <3> QED BY <3>1 DEF EntryMeant
  <2> QED BY <2>1 DEF MeantInv
<1>6. RoundInv' /\ BlamedInv'
  BY <1>1 DEF RoundInv, BlamedInv
<1>7. \A n : at(n)' = at(n)
  BY <1>1 DEF at
<1>8. FreshInv'
  <2>1. round' = 1 => \A n \in DOMAIN ast.nodes : result_type[n] = initial_type(at(n))
    BY <1>1 DEF VerdictInv, RoundInv
  <2> QED BY <1>1, <1>7, <2>1 DEF FreshInv
<1>9. TypedInv'
  <2>1. ASSUME NEW what, NEW m, Pending(what, m)'
        PROVE  \A o : ~ Consumes(what, m, o)'
    BY <2>1, FirstPending DEF Consumes, Judging
  <2> QED BY <2>1 DEF TypedInv
<1>10. \A n \in DOMAIN ast.nodes : \E m : Pending("visit", m)' /\ Awaits("visit", m, n)
  <2> TAKE n \in DOMAIN ast.nodes
  <2>1. PICK i \in DOMAIN ast.top : Under(ast, n, ast.top[i])
    BY <1>1, TopCovers
  <2>2. PICK m : m = ast.top[i]
    OBVIOUS
  <2>3. Pending("visit", m)'
    BY <1>1, <2>2, TopIsAwaited
  <2> QED BY <2>1, <2>2, <2>3 DEF Awaits
<1>11. JudgedInv'
  <2>1. \A n \in DOMAIN ast.nodes : \E what, m : Pending(what, m)' /\ Judges(what, m, n)
    BY <1>10 DEF Judges
  <2> QED BY <1>1, <2>1, RulesStay DEF JudgedInv
<1>12. PassedInv'
  <2>1. \A c \in DOMAIN ast.nodes : \A i : \E what, m : Pending(what, m)' /\ Delivers(what, m, c, i)
    BY <1>10 DEF Delivers
  <2> QED BY <1>1, <2>1, RulesStay DEF PassedInv
<1> QED BY <1>3, <1>4, <1>5, <1>6, <1>8, <1>9, <1>11, <1>12 DEF VerdictInv

\* Nothing is dropped and nothing new is to be done.
LEMMA KeptVerdict ==
  ASSUME VerdictInv, UNCHANGED << ast, round, errors, result_type >>, frames' = << >> \/ frames # << >>,
         \A k \in DOMAIN frames' : k \in DOMAIN frames /\ frames'[k] = frames[k] /\ (k # 1 => frames'[2] = frames[2]),
         \A what, m : Pending(what, m) => Pending(what, m)'
  PROVE  VerdictInv'
<1>1. \A what, m : Pending(what, m)' <=> Pending(what, m)
  BY DEF Pending
<1>2. \A n : at(n)' = at(n)
  BY DEF at
<1>3. OrderInv'
  <2>1. ASSUME NEW a, NEW b, Before(a, b)', "register" \notin {a.do, b.do}
        PROVE  Later(a, b)'
    <3>1. Before(a, b)
      BY <2>1 DEF Before
    <3>2. Later(a, b)
      BY <2>1, <3>1 DEF VerdictInv, OrderInv
    <3> QED BY <3>2, LaterStays
  <2> QED BY <2>1 DEF OrderInv
<1>4. WithinInv'
  BY DEF VerdictInv, WithinInv
<1>5. MeantInv'
  <2>1. ASSUME NEW item, Waiting(item)'
        PROVE  EntryMeant(item)'
    <3>1. Waiting(item)
      BY <2>1 DEF Waiting
    <3>2. EntryMeant(item)
      BY <3>1 DEF VerdictInv, MeantInv
    <3> QED BY <1>2, <3>2 DEF EntryMeant, Callee
  <2> QED BY <2>1 DEF MeantInv
<1>6. RoundInv'
  BY <1>2 DEF VerdictInv, RoundInv, Running
<1>7. FreshInv'
  <2>1. \A what, m, n : Untyped(what, m, n)' <=> Untyped(what, m, n)
    BY <1>2 DEF Untyped, Awaits
  <2> QED BY <1>1, <1>2, <2>1 DEF VerdictInv, FreshInv
<1>8. TypedInv'
  <2>1. \A what, m, o : Consumes(what, m, o)' <=> Consumes(what, m, o)
    BY <1>2 DEF Consumes
  <2>2. \A o : TypeOf(o)' = TypeOf(o)
    BY DEF TypeOf
  <2> QED BY <1>1, <2>1, <2>2 DEF VerdictInv, TypedInv
<1>9. BlamedInv'
  BY RulesStay DEF VerdictInv, BlamedInv
<1>10. JudgedInv'
  BY <1>1, <1>2, RulesStay DEF VerdictInv, JudgedInv
<1>11. PassedInv'
  BY <1>1, <1>2, RulesStay DEF VerdictInv, PassedInv
<1> QED BY <1>3, <1>4, <1>5, <1>6, <1>7, <1>8, <1>9, <1>10, <1>11 DEF VerdictInv

LEMMA RestVerdict ==
  ASSUME IInv, IInv', VerdictInv, release_stack_frame \/ finish \/ UNCHANGED vars
  PROVE  VerdictInv'
<1>1. CASE release_stack_frame
  <2>1. UNCHANGED << ast, round, errors, result_type >> /\ frames # << >>
    <3>1. Len(frames) > 1 /\ UNCHANGED << ast, history, errors, result_type >>
      BY <1>1 DEF release_stack_frame
    <3> QED BY <3>1 DEF history
  <2>2. /\ \A k \in DOMAIN frames' : k \in DOMAIN frames /\ frames'[k] = frames[k]
        /\ \A what, m : Pending(what, m) => Pending(what, m)'
    BY <1>1, ReleaseKeeps
  <2>3. \A k \in DOMAIN frames' : k # 1 => 2 \in DOMAIN frames'
    <3>1. frames' \in Seq(Frame)
      BY DEF IInv, FramesInv
    <3> QED BY <3>1
  <2> QED BY <2>1, <2>2, <2>3, KeptVerdict
<1>2. CASE finish
  <2>1. /\ Len(frames) = 1 /\ frames[1].todo = << >> /\ frames' = << >>
        /\ UNCHANGED << ast, round, errors, result_type >>
    BY <1>2 DEF finish, Current, history
  <2>2. DOMAIN frames = {1} /\ DOMAIN frames' = {}
    BY <2>1 DEF IInv, FramesInv
  <2>3. \A what, m : ~ Pending(what, m)
    BY <2>1, <2>2 DEF Pending
  <2> QED BY <2>1, <2>2, <2>3, KeptVerdict
<1>3. CASE UNCHANGED vars
  <2>1. UNCHANGED << ast, round, errors, result_type, frames >>
    BY <1>3 DEF vars
  <2>2. \A what, m : Pending(what, m) => Pending(what, m)'
    BY <2>1 DEF Pending
  <2> QED BY <2>1, <2>2, KeptVerdict
<1> QED BY <1>1, <1>2, <1>3

LEMMA VerdictInit == Init => VerdictInv
<1> SUFFICES ASSUME Init PROVE VerdictInv
  OBVIOUS
<1>1. /\ frames = << >> /\ round = 0
      /\ result_type = [n \in DOMAIN ast.nodes |-> initial_type(at(n))]
  BY DEF Init
<1> QED BY <1>1 DEF VerdictInv, OrderInv, Before, WithinInv, MeantInv, Waiting, RoundInv, Running, FreshInv,
                    TypedInv, BlamedInv, JudgedInv, PassedInv

LEMMA VerdictInvStep == IInv /\ AcceptInv /\ ScopingInv /\ VerdictInv /\ [Next]_vars /\ IInv' => VerdictInv'
<1> SUFFICES ASSUME IInv, AcceptInv, ScopingInv, VerdictInv, [Next]_vars, IInv'
             PROVE  VerdictInv'
  OBVIOUS
<1>0. PlacedInv
  BY DEF ScopingInv
<1>1. CASE validate
  BY <1>1, validateVerdict
<1>2. CASE register_function \/ declare_variable \/ validate_constant_declaration \/ validate_argument
  BY <1>0, <1>2, DeclarationsVerdict
<1>3. CASE validate_function_declaration
  BY <1>3, validate_function_declarationVerdict
<1>4. CASE \/ validate_variable_declaration \/ validate_binary_op \/ validate_unary_op
           \/ validate_function_return \/ validate_if
  BY <1>4, OperatorsVerdict
<1>5. CASE validate_variable_assignment
  BY <1>0, <1>5, validate_variable_assignmentVerdict
<1>6. CASE check_assignment
  BY <1>6, check_assignmentVerdict
<1>7. CASE validate_variable_lookup
  BY <1>0, <1>7, validate_variable_lookupVerdict
<1>8. CASE validate_literal
  BY <1>8, validate_literalVerdict
<1>9. CASE type_binary_op
  BY <1>9, type_binary_opVerdict
<1>10. CASE type_unary_op
  BY <1>10, type_unary_opVerdict
<1>11. CASE validate_function_call
  BY <1>0, <1>11, validate_function_callVerdict
<1>12. CASE validate_call_argument
  BY <1>12, validate_call_argumentVerdict
<1>13. CASE check_argument
  BY <1>13, check_argumentVerdict
<1>14. CASE check_return
  BY <1>14, check_returnVerdict
<1>15. CASE check_condition
  BY <1>15, check_conditionVerdict
<1>16. CASE validate_else_block
  BY <1>16, validate_else_blockVerdict
<1>17. CASE release_stack_frame \/ finish \/ UNCHANGED vars
  BY <1>17, RestVerdict
<1> QED BY <1>1, <1>2, <1>3, <1>4, <1>5, <1>6, <1>7, <1>8, <1>9, <1>10, <1>11, <1>12, <1>13, <1>14, <1>15,
           <1>16, <1>17 DEF Next

\* Literals are legal whatever stands around them.
LEMMA LiteralsAreLegal ==
  ASSUME IsAst(ast), NEW n \in DOMAIN ast.nodes, at(n).kind \in Literal
  PROVE  LegalHere(n)
<1>1. TypeOf(n) = initial_type(at(n))
  BY TypeOfLeaf
<1>2. TypeOf(n) # NoType
  BY <1>1 DEF initial_type, Literal, NoType, BOOL, CONST_FLOAT, CONST_INT, CONST_UINT
<1>3. at(n).kind \in Expression \ {"FunctionCall"} /\ at(n).kind \notin Declaration
  BY DEF Expression, Literal, Declaration
<1> QED BY <1>2, <1>3, LegalIs, ObeysIs

\* The first verdict is that of the rules.
LEMMA VerdictIs ==
  ASSUME IInv, ScopingInv, VerdictInv
  PROVE  VerdictIsStatic
<1> SUFFICES ASSUME Validated, round = 1
             PROVE  Accepted <=> Legal(ast)
  BY DEF VerdictIsStatic
<1>1. \A what, m : ~ Pending(what, m)
  BY DEF Validated, Running, Pending
<1>2. Legal(ast) <=> \A n \in DOMAIN ast.nodes : LegalHere(n)
  BY DEF Legal, LegalHere
<1>3. ~ Accepted => ~ Legal(ast)
  BY <1>2 DEF Accepted, VerdictInv, BlamedInv
<1>4. ASSUME Accepted, NEW n \in DOMAIN ast.nodes
      PROVE  LegalHere(n)
  <2>1. at(n).kind \in Judgeable \cup Literal \cup Declaration /\ IsAst(ast)
    BY AstFacts DEF IInv, AstNode, Judgeable, at
  <2>2. CASE at(n).kind \in Declaration
    <3>1. FirstInScope(ast, n)
      BY <1>4, <2>2, Settles DEF Settled
    <3> QED BY <2>2, <3>1, LegalIs
  <2>3. CASE at(n).kind \in Literal
    BY <2>1, <2>3, LiteralsAreLegal
  <2>4. CASE at(n).kind \in Judgeable
    <3>1. Obeys(n)
      BY <1>1, <1>4, <2>4 DEF Accepted, VerdictInv, JudgedInv
    <3>2. at(n).kind = "FunctionCall" => \A i \in DOMAIN at(n).operands : ArgumentFits(n, i)
      BY <1>1, <1>4 DEF Accepted, VerdictInv, PassedInv
    <3>3. at(n).kind \notin Declaration
      BY <2>4 DEF Judgeable
    <3> QED BY <3>1, <3>2, <3>3, LegalIs
  <2> QED BY <2>1, <2>2, <2>3, <2>4
<1> QED BY <1>2, <1>3, <1>4

\* Whatever the programs: a fresh validation throws exactly for the trees
\* that break a static rule, in whichever order it meets the nodes and
\* whatever it skips after an error.
THEOREM VerdictsAreStatic == Spec => []VerdictIsStatic
<1>1. Init => IInv
  BY InitInv
<1>2. IInv /\ [Next]_vars => IInv'
  BY StepInv
<1>3. Init => AcceptInv
  BY AcceptInit
<1>4. IInv /\ AcceptInv /\ [Next]_vars => AcceptInv'
  BY StepAccepts
<1>5. IInv /\ ScopingInv /\ VerdictInv => VerdictIsStatic
  BY VerdictIs
<1> QED BY <1>1, <1>2, <1>3, <1>4, <1>5, ScopingInit, ScopingStep, VerdictInit, VerdictInvStep, PTL DEF Spec

-------------------------------------------------------------------------------
(* Families.  In every validation a node has no type yet, or the one the     *)
(* rules give it, or, if that is a constant's, what its place asks it to be: *)
(* the type of the arithmetic it is an operand of, the type by the rules of  *)
(* the other operand of a comparison, a type of its family as a value.       *)

\* Operation m asks its operand o to have the type.
AsksFor(m, o, type) ==
    \E i \in 1 .. 2 :
      /\ at(m).kind = "BinaryOp" /\ TypeOf(m) # NoType /\ at(m).operands[i] = o
      /\ \/ at(m).op \in Arithmetic /\ type = TypeOf(m)
         \/ at(m).op \in Comparison /\ type = TypeOf(at(m).operands[3 - i])

\* What o is the value of m is checked with check_type_assignment.
ValueIn(m, o) ==
    /\ at(m).kind \in {"VariableAssignment", "FunctionCall", "FunctionReturn"}
    /\ \E i \in DOMAIN at(m).operands : at(m).operands[i] = o

MayHave(o, type) ==
    \/ type \in {NoType, TypeOf(o)}
    \/ /\ TypeOf(o) \in ConstType
       /\ \E m \in DOMAIN ast.nodes : AsksFor(m, o, type) \/ (ValueIn(m, o) /\ Family(type) = Family(TypeOf(o)))

GivenInv == \A o \in DOMAIN ast.nodes : MayHave(o, result_type[o])

LEMMA Families ==
  ASSUME NEW a, NEW b
  PROVE  /\ same_family(a, b) <=> Family(a) = Family(b) /\ Family(a) # "none"
         /\ Family(a) # "none" <=> is_numeric(a)
         /\ a \in ConstType => is_numeric(a)
BY DEF same_family, Family, is_numeric, is_signed_int, is_unsigned_int, is_float, ConstType, CONST_INT, INT64,
   CONST_UINT, UINT64, CONST_FLOAT, FLOAT64

\* The operands of an operation have one place, so nobody else asks for their
\* types.
LEMMA OnlyAsked ==
  ASSUME IsAst(ast), NEW m \in DOMAIN ast.nodes, at(m).kind = "BinaryOp",
         NEW i \in 1 .. 2, NEW type, MayHave(at(m).operands[i], type)
  PROVE  LET o == at(m).operands[i] IN
         type \in {NoType, TypeOf(o)} \/ (TypeOf(o) \in ConstType /\ AsksFor(m, o, type))
<1> DEFINE o == at(m).operands[i]
<1>1. \A n \in DOMAIN ast.nodes : at(n).kind = "BinaryOp" => DOMAIN at(n).operands = 1 .. 2
  <2>1. ASSUME NEW n \in DOMAIN ast.nodes, at(n).kind = "BinaryOp"
        PROVE  DOMAIN at(n).operands = 1 .. 2
    <3>1. Len(at(n).operands) = 2 /\ at(n).operands \in Seq(Nat)
      BY <2>1, AstFacts DEF Operands, AstNode
    <3> QED BY <3>1
  <2> QED BY <2>1
<1>2. ASSUME NEW n \in DOMAIN ast.nodes, NEW j \in DOMAIN at(n).operands, at(n).operands[j] = o
      PROVE  n = m
  BY <1>1, <1>2, OnePlace
<1>3. \A n \in DOMAIN ast.nodes : ~ ValueIn(n, o)
  BY <1>2 DEF ValueIn
<1>4. \A n \in DOMAIN ast.nodes : AsksFor(n, o, type) => n = m
  BY <1>1, <1>2 DEF AsksFor
<1> QED BY <1>3, <1>4 DEF MayHave

\* The operand of a negation and a value are no operands of an operation.
LEMMA NotAsked ==
  ASSUME IsAst(ast), NEW m \in DOMAIN ast.nodes, at(m).kind # "BinaryOp",
         NEW i \in DOMAIN at(m).operands, NEW type, MayHave(at(m).operands[i], type)
  PROVE  LET o == at(m).operands[i] IN
         \/ type \in {NoType, TypeOf(o)}
         \/ TypeOf(o) \in ConstType /\ ValueIn(m, o) /\ Family(type) = Family(TypeOf(o))
<1> DEFINE o == at(m).operands[i]
<1>1. ASSUME NEW n \in DOMAIN ast.nodes, NEW j \in DOMAIN at(n).operands, at(n).operands[j] = o
      PROVE  n = m
  BY <1>1, OnePlace
<1>2. ASSUME NEW n \in DOMAIN ast.nodes, AsksFor(n, o, type)
      PROVE  FALSE
  <2>1. PICK j \in 1 .. 2 : at(n).kind = "BinaryOp" /\ at(n).operands[j] = o
    BY <1>2 DEF AsksFor
  <2>2. Len(at(n).operands) = 2 /\ at(n).operands \in Seq(Nat)
    BY <2>1, AstFacts DEF Operands, AstNode
  <2>3. j \in DOMAIN at(n).operands
    BY <2>2
  <2> QED BY <1>1, <2>1, <2>3
<1>3. \A n \in DOMAIN ast.nodes : ValueIn(n, o) => n = m
  BY <1>1 DEF ValueIn
<1> QED BY <1>2, <1>3 DEF MayHave

LEMMA GivenStep ==
  ASSUME GivenInv, ast' = ast,
         \A o \in DOMAIN ast.nodes : result_type'[o] = result_type[o] \/ MayHave(o, result_type'[o])
  PROVE  GivenInv'
<1>1. \A o, type : MayHave(o, type)' <=> MayHave(o, type')
  BY DEF MayHave, AsksFor, ValueIn, TypeOf, at
<1> QED BY DEF GivenInv, MayHave, AsksFor, ValueIn, TypeOf, at

LEMMA GivenKept ==
  ASSUME GivenInv, UNCHANGED << ast, result_type >>
  PROVE  GivenInv'
BY GivenStep

\* A check fixes a constant in its family.
LEMMA GivenAssign ==
  ASSUME IInv, GivenInv, ast' = ast, NEW m \in DOMAIN ast.nodes, NEW i \in DOMAIN at(m).operands,
         at(m).kind \in {"VariableAssignment", "FunctionCall", "FunctionReturn"},
         NEW type, NEW message, Assign(at(m).operands[i], type, message)
  PROVE  GivenInv'
<1> DEFINE n == at(m).operands[i]
<1>1. /\ DOMAIN result_type = DOMAIN ast.nodes /\ n \in DOMAIN ast.nodes /\ IsAst(ast)
      /\ ValueIn(m, n) /\ MayHave(n, result_type[n])
  BY AstFacts DEF IInv, TypesInv, GivenInv, ValueIn
<1>2. result_type[n] \in {NoType, TypeOf(n)} \/ (TypeOf(n) \in ConstType /\ Family(result_type[n]) = Family(TypeOf(n)))
  BY <1>1, NotAsked
<1> HIDE DEF n
<1>3. CASE check_type_assignment(result_type[n], type) /\ result_type[n] \in ConstType
  <2>1. \A o \in DOMAIN ast.nodes : result_type'[o] = IF o = n THEN type ELSE result_type[o]
    BY <1>1, <1>3 DEF Assign, set_type_on_const, n
  <2>2. Family(type) = Family(result_type[n]) /\ result_type[n] # NoType
    BY <1>3, Families DEF check_type_assignment, is_assignment_compatible
  <2>3. TypeOf(n) \in ConstType /\ Family(type) = Family(TypeOf(n))
    BY <1>2, <1>3, <2>2
  <2>4. MayHave(n, type)
    BY <1>1, <2>3 DEF MayHave
  <2> QED BY <2>1, <2>4, GivenStep
<1>4. CASE ~ (check_type_assignment(result_type[n], type) /\ result_type[n] \in ConstType)
  BY <1>4, GivenKept DEF Assign, set_type_on_const, n
<1> QED BY <1>3, <1>4

LEMMA GivenChecks ==
  ASSUME IInv, MeantInv, GivenInv, check_assignment \/ check_argument \/ check_return
  PROVE  GivenInv'
<1> DEFINE Values(m) == at(m).kind \in {"VariableAssignment", "FunctionCall", "FunctionReturn"}
<1>1. ast' = ast /\ IsAst(ast)
  BY DEF check_assignment, check_argument, check_return, KeepScope, IInv
<1>2. ASSUME NEW m \in DOMAIN ast.nodes, NEW i \in DOMAIN at(m).operands, Values(m),
             NEW type, NEW message, Assign(at(m).operands[i], type, message)
      PROVE  GivenInv'
  BY <1>1, <1>2, GivenAssign
<1>3. CASE check_argument
  <2>1. /\ Now("check_argument") /\ Running /\ Current.todo # << >> /\ Head(Current.todo).do = "check_argument"
        /\ Assign(this, at(held_entry).type, "type mismatch")
    BY <1>3 DEF check_argument, Now
  <2>2. PICK c \in DOMAIN ast.nodes : \E i \in DOMAIN at(c).operands :
          at(c).kind = "FunctionCall" /\ this = at(c).operands[i]
    BY <2>1, HeadMeant DEF EntryMeant, this
  <2> QED BY <1>2, <2>1, <2>2
<1>4. CASE check_return
  <2> DEFINE m == at(this).operands[1]
  <2>1. /\ Now("check_return")
        /\ \/ result_type' = result_type
           \/ has_value(at(this)) /\ \E type, message : Assign(m, type, message)
    BY <1>4 DEF check_return, Fail
  <2>2. this \in DOMAIN ast.nodes /\ at(this).kind = "FunctionReturn"
    <3>1. this \in DOMAIN ast.nodes /\ Fits(ast, Head(Current.todo)) /\ Head(Current.todo).do = "check_return"
      BY <2>1, HeadFits DEF Todo
    <3> QED BY <3>1 DEF Fits, this, at
  <2>3. has_value(at(this)) => 1 \in DOMAIN at(this).operands
    <3>1. at(this).operands \in Seq(Nat)
      BY <1>1, <2>2, AstFacts DEF AstNode
    <3> QED BY <3>1 DEF has_value
  <2> QED BY <1>1, <1>2, <2>1, <2>2, <2>3, GivenKept
<1>5. CASE check_assignment
  <2> DEFINE m == at(this).operands[1]
  <2>1. /\ Now("check_assignment")
        /\ \/ result_type' = result_type
           \/ \E type, message : Assign(m, type, message)
    BY <1>5 DEF check_assignment
  <2>2. this \in DOMAIN ast.nodes /\ at(this).kind = "VariableAssignment"
    BY <2>1, HeadFits DEF Todo
  <2>3. 1 \in DOMAIN at(this).operands
    <3>1. Len(at(this).operands) = 1 /\ at(this).operands \in Seq(Nat)
      BY <1>1, <2>2, AstFacts DEF Operands, AstNode
    <3> QED BY <3>1
  <2> QED BY <1>1, <1>2, <2>1, <2>2, <2>3, GivenKept
<1> QED BY <1>3, <1>4, <1>5

\* A lookup and a call get the type their name gives them.
LEMMA GivenNames ==
  ASSUME IInv, AcceptInv, PlacedInv, GivenInv, validate_variable_lookup \/ validate_function_call
  PROVE  GivenInv'
<1> DEFINE found == Table!lookup(at(this).name)
<1>1. PICK kind \in {"VariableLookup", "FunctionCall"} :
        /\ Visiting(kind) /\ ast' = ast
        /\ \/ result_type' = result_type
           \/ /\ kind = "VariableLookup" /\ found # NoNode /\ ~ is_function(at(found))
              /\ result_type' = [result_type EXCEPT ![this] = entry_type(found)]
           \/ /\ kind = "FunctionCall" /\ found # NoNode /\ is_function(at(found))
              /\ result_type' = [result_type EXCEPT ![this] = at(found).type]
  BY DEF validate_variable_lookup, validate_function_call, Fail, KeepScope
<1>2. this \in DOMAIN ast.nodes /\ at(this).kind = kind /\ found = Resolve(ast, this) /\ IsAst(ast)
  BY <1>1, LookupResolves, LooksUp DEF Uses, Visiting, IInv
<1>3. DOMAIN result_type = DOMAIN ast.nodes
  BY DEF IInv, TypesInv
<1> HIDE DEF found
<1>4. CASE result_type' = result_type
  BY <1>1, <1>4, GivenKept
<1>5. CASE result_type' = [result_type EXCEPT ![this] = TypeOf(this)]
  <2>1. MayHave(this, result_type'[this])
    BY <1>2, <1>3, <1>5 DEF MayHave
  <2> QED BY <1>1, <1>3, <1>5, <2>1, GivenStep
<1>6. CASE kind = "VariableLookup" /\ found # NoNode /\ ~ is_function(at(found))
  <2>1. TypeOf(this) = entry_type(found)
    BY <1>2, <1>6, TypeOfLeaf DEF DeclaredType, entry_type, at
  <2> QED BY <1>1, <1>4, <1>5, <1>6, <2>1
<1>7. CASE kind = "FunctionCall" /\ found # NoNode /\ is_function(at(found))
  <2>1. TypeOf(this) = at(found).type
    BY <1>2, <1>7, TypeOfLeaf
  <2> QED BY <1>1, <1>4, <1>5, <1>7, <2>1
<1> QED BY <1>1, <1>4, <1>6, <1>7

\* Nobody asks the operand of a unary operator for a type.
LEMMA GivenUnary ==
  ASSUME IInv, GivenInv, type_unary_op
  PROVE  GivenInv'
<1> DEFINE o == at(this).operands[1]
           type == result_type[o]
           fits(t) == IF at(this).op = "NEGATE" THEN is_numeric(t) ELSE t = BOOL
<1>1. /\ Now("type_unary_op") /\ ast' = ast
      /\ \/ result_type' = result_type
         \/ type # NoType /\ fits(type) /\ result_type' = [result_type EXCEPT ![this] = type]
  BY DEF type_unary_op, Fail, KeepScope
<1>2. this \in DOMAIN ast.nodes /\ at(this).kind = "UnaryOp" /\ IsAst(ast)
  BY <1>1, HeadFits DEF Todo, Now, IInv
<1>3. o \in DOMAIN ast.nodes /\ DOMAIN result_type = DOMAIN ast.nodes
  BY <1>2, OperatorFacts DEF at, IInv, TypesInv
<1>4. TypeOf(this) = IF fits(TypeOf(o)) THEN TypeOf(o) ELSE NoType
  BY <1>2, TypeOfUnary
<1>5. type \in {NoType, TypeOf(o)}
  <2>1. Len(at(this).operands) = 1 /\ at(this).operands \in Seq(Nat)
    BY <1>2, AstFacts DEF Operands, AstNode
  <2>2. 1 \in DOMAIN at(this).operands /\ MayHave(o, type)
    BY <1>3, <2>1 DEF GivenInv
  <2>3. ~ ValueIn(this, o)
    BY <1>2 DEF ValueIn
  <2> HIDE DEF type
  <2> QED BY <1>2, <2>2, <2>3, NotAsked
<1>6. CASE type # NoType /\ fits(type) /\ result_type' = [result_type EXCEPT ![this] = type]
  <2>1. \A m \in DOMAIN ast.nodes : result_type'[m] = IF m = this THEN type ELSE result_type[m]
    BY <1>2, <1>3, <1>6
  <2>2. type = TypeOf(this)
    BY <1>4, <1>5, <1>6
  <2> HIDE DEF type
  <2>3. MayHave(this, type)
    BY <2>2 DEF MayHave
  <2> QED BY <1>1, <2>1, <2>3, GivenStep
<1> QED BY <1>1, <1>6, GivenKept

\* The greater of two types, of which one or both may have become the greater
\* already.
LEMMA SumsStay ==
  ASSUME NEW s \in ResultType, NEW t \in ResultType, NEW a \in ResultType, NEW b \in ResultType,
         convert_arithmetic_types(s, t) # UNDEF, convert_arithmetic_types(a, b) # UNDEF,
         a \in {s, convert_arithmetic_types(s, t)}, b \in {t, convert_arithmetic_types(s, t)}
  PROVE  convert_arithmetic_types(a, b) = convert_arithmetic_types(s, t)
<1>1. /\ convert_arithmetic_types(s, t) = IF s > t THEN s ELSE t
      /\ convert_arithmetic_types(a, b) = IF a > b THEN a ELSE b
  BY DEF convert_arithmetic_types
<1>2. s \in Int /\ t \in Int /\ a \in Int /\ b \in Int
  BY DEF ResultType, PrimitiveType, NoType, UNDEF, BOOL
<1> QED BY <1>1, <1>2

\* An operation has the type of the rules, and asks its operands for what it
\* asks them by the rules: a constant it has given a type before counts as well
\* as the constant did.
LEMMA GivenBinary ==
  ASSUME IInv, GivenInv, type_binary_op
  PROVE  GivenInv'
<1> DEFINE l == at(this).operands[1]
           r == at(this).operands[2]
           left == result_type[l]
           right == result_type[r]
           op == at(this).op
           result == binary_result(op, left, right)
           asked == operand_types(op, left, right, result)
           typed == [result_type EXCEPT ![this] = result]
           once == set_type_on_const(typed, l, asked[1])
           tl == TypeOf(l)
           tr == TypeOf(r)
           T == TypeOf(this)
<1>1. /\ Now("type_binary_op") /\ ast' = ast
      /\ \/ result_type' = result_type
         \/ /\ NoType \notin {left, right} /\ result # UNDEF
            /\ result_type' = set_type_on_const(once, r, asked[2])
  BY DEF type_binary_op, Fail, KeepScope
<1>2. this \in DOMAIN ast.nodes /\ at(this).kind = "BinaryOp" /\ IsAst(ast)
  BY <1>1, HeadFits DEF Todo, Now, IInv
<1>3. /\ l \in DOMAIN ast.nodes /\ r \in DOMAIN ast.nodes /\ DOMAIN result_type = DOMAIN ast.nodes
      /\ l < this /\ r < this /\ this \in Nat
      /\ left \in ResultType /\ right \in ResultType
      /\ op \in Arithmetic \cup Comparison \cup Logical
  BY <1>2, OperatorFacts, TreeFacts DEF at, IInv, TypesInv, Operators
<1>4. l # r
  BY <1>2, OperandsDiffer DEF at
<1>5. Arithmetic \cap Comparison = {} /\ Arithmetic \cap Logical = {} /\ Comparison \cap Logical = {}
  BY DEF Arithmetic, Comparison, Logical
<1>6. ASSUME NEW type
      PROVE  /\ AsksFor(this, l, type) <=>
                  T # NoType /\ ((op \in Arithmetic /\ type = T) \/ (op \in Comparison /\ type = tr))
             /\ AsksFor(this, r, type) <=>
                  T # NoType /\ ((op \in Arithmetic /\ type = T) \/ (op \in Comparison /\ type = tl))
  <2>1. \A i \in 1 .. 2 : (at(this).operands[i] = l <=> i = 1) /\ (at(this).operands[i] = r <=> i = 2)
    BY <1>4
  <2>2. 3 - 1 = 2 /\ 3 - 2 = 1 /\ 1 \in 1 .. 2 /\ 2 \in 1 .. 2
    OBVIOUS
  <2> QED BY <1>2, <2>1, <2>2 DEF AsksFor
<1>7. /\ left \in {NoType, tl} \/ (tl \in ConstType /\ AsksFor(this, l, left))
      /\ right \in {NoType, tr} \/ (tr \in ConstType /\ AsksFor(this, r, right))
  <2>1. MayHave(l, left) /\ MayHave(r, right)
    BY <1>3 DEF GivenInv
  <2> HIDE DEF left, right
  <2>2. 1 \in 1 .. 2 /\ 2 \in 1 .. 2
    OBVIOUS
  <2>3. left \in {NoType, tl} \/ (tl \in ConstType /\ AsksFor(this, l, left))
    BY <1>2, <2>1, <2>2, OnlyAsked
  <2>4. right \in {NoType, tr} \/ (tr \in ConstType /\ AsksFor(this, r, right))
    BY <1>2, <2>1, <2>2, OnlyAsked
  <2> QED BY <2>3, <2>4
<1> HIDE DEF left, right
<1>8. \A t \in ConstType : t \in ResultType /\ t # NoType /\ t # BOOL
  BY DEF ConstType, CONST_INT, CONST_UINT, CONST_FLOAT, ResultType, PrimitiveType, UNDEF, BOOL, NoType
<1>9. SUFFICES ASSUME NoType \notin {left, right}, result # UNDEF,
                      result_type' = set_type_on_const(once, r, asked[2])
               PROVE  GivenInv'
  BY <1>1, GivenKept DEF GivenInv
<1>10. tl \in ResultType /\ tr \in ResultType /\ NoType \notin {tl, tr}
  BY <1>3, <1>7, <1>8, <1>9
<1>11. T = IF NoType \in {tl, tr} \/ binary_result(op, tl, tr) = UNDEF THEN NoType ELSE binary_result(op, tl, tr)
  BY <1>2, <1>10, TypeOfBinary
<1> HIDE DEF l, r, op, tl, tr, T
\* The type of the operation itself.
<1>12. result = T /\ T # NoType
  <2>1. T = NoType => left = tl /\ right = tr
    BY <1>6, <1>7, <1>9
  <2>2. result \in {left, right, BOOL}
    BY <1>9 DEF binary_result, convert_arithmetic_types
  <2>3. T # NoType
    <3>1. NoType # BOOL
      BY DEF NoType, BOOL
    <3> QED BY <1>9, <1>10, <1>11, <2>1, <2>2, <3>1
  <2>4. T = binary_result(op, tl, tr) /\ T # UNDEF
    BY <1>11, <2>3
  <2>5. CASE op \in Arithmetic
    <3>1. result = convert_arithmetic_types(left, right) /\ T = convert_arithmetic_types(tl, tr)
      BY <2>4, <2>5 DEF binary_result
    <3>2. left \in {tl, T} /\ right \in {tr, T}
      BY <1>5, <1>6, <1>7, <1>9, <2>5
    <3> HIDE DEF result
    <3>3. convert_arithmetic_types(left, right) = convert_arithmetic_types(tl, tr)
      BY <1>3, <1>9, <1>10, <2>4, <3>1, <3>2, SumsStay
    <3> QED BY <2>3, <3>1, <3>3
  <2>6. CASE op \notin Arithmetic
    BY <1>9, <2>3, <2>4, <2>6 DEF binary_result
  <2> QED BY <2>5, <2>6
\* Those of its operands, if they are constants.
<1>13. left \in ConstType => MayHave(l, asked[1])
  <2> SUFFICES ASSUME left \in ConstType
               PROVE  MayHave(l, asked[1])
    OBVIOUS
  <2>1. tl \in ConstType
    BY <1>7, <1>9
  <2>2. AsksFor(this, l, asked[1]) \/ asked[1] = tl
    <3>1. CASE op \in Arithmetic
      <4>1. asked[1] = T
        BY <1>12, <3>1 DEF operand_types
      <4> HIDE DEF asked
      <4> QED BY <1>6, <1>12, <3>1, <4>1
    <3>2. CASE op \in Comparison
      <4>1. asked[1] = right
        BY <1>5, <3>2 DEF operand_types
      <4>2. right \in {tr, tl}
        BY <1>5, <1>6, <1>7, <1>9, <3>2
      <4> HIDE DEF asked
      <4> QED BY <1>6, <1>12, <3>2, <4>1, <4>2
    <3>3. CASE op \in Logical
      BY <1>5, <1>8, <1>9, <3>3 DEF binary_result
    <3> QED BY <1>3, <3>1, <3>2, <3>3
  <2> HIDE DEF asked
  <2> QED BY <1>2, <2>1, <2>2 DEF MayHave, tl
<1>14. right \in ConstType => MayHave(r, asked[2])
  <2> SUFFICES ASSUME right \in ConstType
               PROVE  MayHave(r, asked[2])
    OBVIOUS
  <2>1. tr \in ConstType
    BY <1>7, <1>9
  <2>2. AsksFor(this, r, asked[2]) \/ asked[2] = tr
    <3>1. CASE op \in Arithmetic
      <4>1. asked[2] = T
        BY <1>12, <3>1 DEF operand_types
      <4> HIDE DEF asked
      <4> QED BY <1>6, <1>12, <3>1, <4>1
    <3>2. CASE op \in Comparison
      <4>1. asked[2] = left
        BY <1>5, <3>2 DEF operand_types
      <4>2. left \in {tr, tl}
        BY <1>5, <1>6, <1>7, <1>9, <3>2
      <4> HIDE DEF asked
      <4> QED BY <1>6, <1>12, <3>2, <4>1, <4>2
    <3>3. CASE op \in Logical
      BY <1>5, <1>8, <1>9, <3>3 DEF binary_result
    <3> QED BY <1>3, <3>1, <3>2, <3>3
  <2> HIDE DEF asked
  <2> QED BY <1>2, <2>1, <2>2 DEF MayHave, tr
<1>15. MayHave(this, result)
  <2> HIDE DEF result
  <2> QED BY <1>12 DEF MayHave, T
<1>16. \A o \in DOMAIN ast.nodes : result_type'[o] = result_type[o] \/ MayHave(o, result_type'[o])
  <2> HIDE DEF result, asked
  <2>1. this # l /\ this # r
    BY <1>3
  <2>2. \A o \in DOMAIN ast.nodes : typed[o] = IF o = this THEN result ELSE result_type[o]
    BY <1>3
  <2>3. DOMAIN typed = DOMAIN ast.nodes
    BY <1>3
  <2> HIDE DEF typed
  <2>4. typed[l] = left /\ typed[r] = right /\ typed[this] = result
    BY <1>2, <1>3, <2>1, <2>2 DEF left, right
  <2>5. \A o \in DOMAIN ast.nodes : once[o] = IF o = l /\ left \in ConstType THEN asked[1] ELSE typed[o]
    BY <2>3, <2>4 DEF set_type_on_const
  <2>6. DOMAIN once = DOMAIN ast.nodes
    BY <2>3 DEF set_type_on_const
  <2> HIDE DEF once
  <2>7. once[r] = right
    BY <1>3, <1>4, <2>4, <2>5
  <2>8. \A o \in DOMAIN ast.nodes : result_type'[o] = IF o = r /\ right \in ConstType THEN asked[2] ELSE once[o]
    BY <1>9, <2>6, <2>7 DEF set_type_on_const
  <2> TAKE o \in DOMAIN ast.nodes
  <2>9. CASE o = this
    <3>1. result_type'[o] = result
      BY <1>2, <2>1, <2>4, <2>5, <2>8, <2>9
    <3> QED BY <1>15, <2>9, <3>1
  <2>10. CASE o = l
    <3>1. result_type'[o] = IF left \in ConstType THEN asked[1] ELSE result_type[o]
      BY <1>3, <1>4, <2>1, <2>2, <2>5, <2>8, <2>10
    <3> QED BY <1>13, <2>10, <3>1
  <2>11. CASE o = r
    <3>1. result_type'[o] = IF right \in ConstType THEN asked[2] ELSE result_type[o]
      BY <1>3, <1>4, <2>1, <2>2, <2>5, <2>8, <2>11
    <3> QED BY <1>14, <2>11, <3>1
  <2>12. CASE o \notin {this, l, r}
    BY <2>2, <2>5, <2>8, <2>12
  <2> QED BY <2>9, <2>10, <2>11, <2>12
<1> QED BY <1>1, <1>16, GivenStep

LEMMA GivenInit == Init => GivenInv
<1> SUFFICES ASSUME Init, NEW n \in DOMAIN ast.nodes, result_type[n] # NoType
             PROVE  result_type[n] = TypeOf(n)
  BY DEF GivenInv, MayHave
<1>1. IsAst(ast) /\ result_type[n] = initial_type(at(n))
  BY InitInv DEF Init, IInv
<1>2. at(n).kind \in Literal
  BY <1>1 DEF initial_type, Literal, NoType
<1> QED BY <1>1, <1>2, TypeOfLeaf

LEMMA GivenInvStep == IInv /\ AcceptInv /\ ScopingInv /\ VerdictInv /\ GivenInv /\ [Next]_vars => GivenInv'
<1> SUFFICES ASSUME IInv, AcceptInv, ScopingInv, VerdictInv, GivenInv, [Next]_vars
             PROVE  GivenInv'
  OBVIOUS
<1>1. PlacedInv /\ MeantInv
  BY DEF ScopingInv, VerdictInv
<1>2. CASE \/ validate \/ register_function \/ validate_function_declaration \/ validate_constant_declaration
           \/ validate_argument \/ validate_variable_declaration \/ declare_variable
  BY <1>2, GivenKept DEF validate, register_function, validate_function_declaration, validate_constant_declaration,
     validate_argument, validate_variable_declaration, declare_variable, insert_or_fail, KeepScope
<1>3. CASE \/ validate_variable_assignment \/ validate_literal \/ validate_binary_op \/ validate_unary_op
           \/ validate_call_argument \/ validate_function_return \/ validate_if
  BY <1>3, GivenKept DEF validate_variable_assignment, validate_literal, validate_binary_op, validate_unary_op,
     validate_call_argument, validate_function_return, validate_if, Fail, KeepScope
<1>4. CASE \/ check_condition \/ validate_else_block \/ release_stack_frame \/ finish \/ UNCHANGED vars
  BY <1>4, GivenKept DEF check_condition, validate_else_block, release_stack_frame, finish, vars
<1>5. CASE validate_variable_lookup \/ validate_function_call
  BY <1>1, <1>5, GivenNames
<1>6. CASE type_binary_op
  BY <1>6, GivenBinary
<1>7. CASE type_unary_op
  BY <1>7, GivenUnary
<1>8. CASE check_assignment \/ check_argument \/ check_return
  BY <1>1, <1>8, GivenChecks
<1> QED BY <1>2, <1>3, <1>4, <1>5, <1>6, <1>7, <1>8 DEF Next

\* Whatever the programs and however often they are validated: a literal keeps
\* its family, or is the operand of a comparison and has the type that the
\* rules give to the other operand.
THEOREM FamiliesStay == Spec => []LiteralsKeepFamily
<1>1. IInv /\ AcceptInv /\ GivenInv => LiteralsKeepFamily
  <2> DEFINE Moved(n) == \E m \in DOMAIN ast.nodes, i \in 1 .. 2 :
                           /\ at(m).op \in Comparison
                           /\ at(m).operands[i] = n
                           /\ result_type[n] = TypesOf(ast)[at(m).operands[3 - i]]
  <2> SUFFICES ASSUME IInv, AcceptInv, GivenInv, NEW n \in DOMAIN ast.nodes, at(n).kind \in Literal
               PROVE  Family(result_type[n]) = Family(initial_type(at(n))) \/ Moved(n)
    BY DEF LiteralsKeepFamily
  <2>1. TypeOf(n) = initial_type(at(n)) /\ IsAst(ast)
    BY TypeOfLeaf DEF IInv
  <2>2. MayHave(n, result_type[n]) /\ result_type[n] # NoType
    BY DEF AcceptInv, LiteralsInv, GivenInv
  <2>3. ASSUME NEW m \in DOMAIN ast.nodes, AsksFor(m, n, result_type[n])
        PROVE  Family(result_type[n]) = Family(TypeOf(n)) \/ Moved(n)
    <3>1. PICK i \in 1 .. 2 :
            /\ at(m).kind = "BinaryOp" /\ TypeOf(m) # NoType /\ at(m).operands[i] = n
            /\ \/ at(m).op \in Arithmetic /\ result_type[n] = TypeOf(m)
               \/ at(m).op \in Comparison /\ result_type[n] = TypeOf(at(m).operands[3 - i])
      BY <2>3 DEF AsksFor
    <3>2. CASE at(m).op \in Comparison /\ result_type[n] = TypeOf(at(m).operands[3 - i])
      BY <3>1, <3>2 DEF TypeOf
    <3>3. CASE at(m).op \in Arithmetic /\ result_type[n] = TypeOf(m)
      <4> DEFINE s == TypeOf(at(m).operands[1])
                 t == TypeOf(at(m).operands[2])
      <4>1. at(m).op \notin Comparison \cup Logical /\ at(m).op \notin {"NEGATE", "NOT"} /\ at(m).kind \notin Literal
        BY <3>1, <3>3 DEF Arithmetic, Comparison, Logical, Literal
      <4>2. TypeOf(m) = IF convert_arithmetic_types(s, t) # UNDEF THEN convert_arithmetic_types(s, t) ELSE NoType
        BY <2>1, <3>1, <3>3, <4>1, TypeIs DEF TypeAt, at, TypeOf
      <4>3. same_family(s, t) /\ TypeOf(m) \in {s, t}
        BY <3>1, <4>2 DEF convert_arithmetic_types
      <4>4. TypeOf(n) \in {s, t}
        BY <3>1
      <4> HIDE DEF s, t
      <4> QED BY <3>3, <4>3, <4>4, Families
    <3> QED BY <3>1, <3>2, <3>3
  <2> QED BY <2>1, <2>2, <2>3 DEF MayHave
<1>2. Init => IInv
  BY InitInv
<1>3. IInv /\ [Next]_vars => IInv'
  BY StepInv
<1>4. Init => AcceptInv
  BY AcceptInit
<1>5. IInv /\ AcceptInv /\ [Next]_vars => AcceptInv'
  BY StepAccepts
<1> QED BY <1>1, <1>2, <1>3, <1>4, <1>5, ScopingInit, ScopingStep, VerdictInit, VerdictInvStep, GivenInit, GivenInvStep,
    PTL DEF Spec

-------------------------------------------------------------------------------
(* Widths.  A literal that is assigned to a variable is given the type of    *)
(* the variable by the check of the assignment, and by nothing else.         *)

\* An item waits until it is done.
LEMMA StepKeeps ==
  ASSUME IInv, [Next]_vars, ~ validate, NEW what, NEW m, Pending(what, m)
  PROVE  Pending(what, m)' \/ (Now(what) /\ this = m)
<1>1. ASSUME NEW does, Now(does), NEW items \in Seq(Item), NEW list, Then(items) \/ Enter(list, items)
      PROVE  Pending(what, m)' \/ (Now(what) /\ this = m)
  <2>1. Running /\ Current.todo # << >>
    BY <1>1 DEF Now
  <2>2. Works(items, << >>) \/ Works(items, list)
    BY <1>1, <2>1, ThenWorks, EnterWorks
  <2>3. Keeps
    BY <2>1, <2>2, WorksPending
  <2> QED BY <2>1, <2>3 DEF Keeps, Now
<1>2. << >> \in Seq(Item)
  OBVIOUS
<1>3. ASSUME NEW kind, Visiting(kind), NEW item \in Item, Then(visits(at(this).operands) \o << item >>)
      PROVE  Pending(what, m)' \/ (Now(what) /\ this = m)
  <2>1. this \in DOMAIN ast.nodes /\ Now("visit")
    BY <1>3, HeadFacts DEF Visiting, Now
  <2>2. visits(at(this).operands) \o << item >> \in Seq(Item)
    BY <2>1, OperandTodo
  <2> QED BY <1>1, <1>3, <2>1, <2>2
<1>4. ASSUME NEW does, Now(does), NEW next \in Todo
      PROVE  do(next, this) \in Item
  BY <1>4, ItemType DEF do
<1>5. CASE register_function \/ declare_variable \/ validate_constant_declaration \/ validate_argument
  <2>1. Then(<< >>) /\ \E does : Now(does)
    BY <1>5 DEF register_function, declare_variable, validate_constant_declaration, validate_argument, insert_or_fail, Visiting
  <2> QED BY <1>1, <1>2, <2>1
<1>6. CASE check_assignment \/ check_argument \/ check_return \/ type_binary_op \/ type_unary_op \/ validate_literal \/ validate_variable_lookup
  <2>1. Then(<< >>) /\ \E does : Now(does)
    BY <1>6 DEF check_assignment, check_argument, check_return, type_binary_op, type_unary_op, validate_literal,
       validate_variable_lookup, Assign, Fail, Visiting
  <2> QED BY <1>1, <1>2, <2>1
<1>7. CASE validate_variable_declaration \/ validate_binary_op \/ validate_unary_op \/ validate_function_return \/ validate_if
  <2>1. ASSUME NEW kind, NEW next \in Todo, Visiting(kind), Then(visits(at(this).operands) \o << do(next, this) >>)
        PROVE  Pending(what, m)' \/ (Now(what) /\ this = m)
    <3>1. do(next, this) \in Item
      BY <1>4, <2>1 DEF Visiting
    <3> QED BY <1>3, <2>1, <3>1
  <2>2. CASE validate_variable_declaration
    BY <2>1, <2>2 DEF validate_variable_declaration, Todo
  <2>3. CASE validate_binary_op
    BY <2>1, <2>3 DEF validate_binary_op, Todo
  <2>4. CASE validate_unary_op
    BY <2>1, <2>4 DEF validate_unary_op, Todo
  <2>5. CASE validate_function_return
    BY <2>1, <2>5 DEF validate_function_return, Todo
  <2>6. CASE validate_if
    BY <2>1, <2>6 DEF validate_if, Todo
  <2> QED BY <1>7, <2>2, <2>3, <2>4, <2>5, <2>6
<1>8. CASE validate_variable_assignment
  <2> DEFINE entry == Table!lookup(at(this).name)
             check == [do |-> "check_assignment", node |-> this, entry |-> entry]
  <2>1. /\ Visiting("VariableAssignment") /\ Now("visit")
        /\ Then(<< >>) \/ Then(visits(at(this).operands) \o << check >>)
    BY <1>8 DEF validate_variable_assignment, Fail, Visiting
  <2>2. entry \in {NoNode} \cup DOMAIN ast.nodes
    BY <2>1, LooksUp
  <2>3. check \in Item
    BY <2>1, <2>2, ItemType DEF Todo
  <2> HIDE DEF check
  <2> QED BY <1>1, <1>2, <1>3, <2>1, <2>3
<1>9. CASE validate_function_call
  <2> DEFINE found == Table!lookup(at(this).name)
             args == at(this).operands
             params == at(found).params
             items == [i \in DOMAIN args |-> [do |-> "argument", node |-> args[i], entry |-> params[i]]]
  <2>1. /\ Visiting("FunctionCall") /\ Now("visit")
        /\ \/ Then(<< >>)
           \/ found # NoNode /\ Len(args) = Len(params) /\ Then(items)
    BY <1>9 DEF validate_function_call, Fail, Visiting
  <2>2. ASSUME found # NoNode, Len(args) = Len(params)
        PROVE  items \in Seq(Item)
    <3>1. this \in DOMAIN ast.nodes /\ found \in DOMAIN ast.nodes
      BY <2>1, <2>2, LooksUp
    <3> QED BY <2>2, <3>1, CallTodo DEF IInv
  <2> HIDE DEF items
  <2> QED BY <1>1, <1>2, <2>1, <2>2
<1>10. CASE validate_call_argument
  <2> DEFINE check == [do |-> "check_argument", node |-> this, entry |-> held_entry]
  <2>1. Now("argument") /\ Then(<< do("visit", this), check >>)
    BY <1>10 DEF validate_call_argument
  <2>2. held_entry \in DOMAIN ast.nodes
    BY <2>1, InnerHead DEF Now, Fits, held_entry
  <2>3. do("visit", this) \in Item /\ check \in Item
    BY <2>1, <2>2, ItemType DEF do, Todo
  <2>4. << do("visit", this), check >> \in Seq(Item)
    BY <2>3
  <2> QED BY <1>1, <2>1, <2>4
<1>11. CASE validate_function_declaration \/ validate_else_block
  <2>1. \E list : Enter(list, << >>) /\ \E does : Now(does)
    BY <1>11 DEF validate_function_declaration, validate_else_block, Visiting
  <2> QED BY <1>1, <1>2, <2>1
<1>12. CASE check_condition
  <2> DEFINE items == IF has_else(at(this)) THEN << do("else_block", this) >> ELSE << >>
  <2>1. Now("check_condition") /\ Enter(at(this).body, items)
    BY <1>12 DEF check_condition
  <2>2. do("else_block", this) \in Item
    BY <1>4, <2>1 DEF Todo
  <2>3. items \in Seq(Item)
    BY <2>2
  <2> QED BY <1>1, <2>1, <2>3
<1>13. CASE release_stack_frame
  BY <1>13, ReleaseKeeps
<1>14. CASE finish
  <2>1. Len(frames) = 1 /\ frames[1].todo = << >>
    BY <1>14 DEF finish, Current
  <2>2. DOMAIN frames = {1}
    BY <2>1 DEF IInv, FramesInv
  <2> QED BY <2>1, <2>2 DEF Pending
<1>15. CASE UNCHANGED vars
  BY <1>15 DEF vars, Pending
<1> QED BY <1>5, <1>6, <1>7, <1>8, <1>9, <1>10, <1>11, <1>12, <1>13, <1>14, <1>15 DEF Next

\* n assigns a literal to a variable.
AssignsLiteral(n) ==
    LET d == Resolve(ast, n) IN
    /\ at(n).kind = "VariableAssignment" /\ at(at(n).operands[1]).kind \in Literal
    /\ d # NoNode /\ at(d).kind = "VariableDeclaration"

\* The type of the variable.
VariableType(n) == at(Resolve(ast, n)).type

\* The literal has its own type or the variable's, and the variable's once the
\* assignment was checked without an error.
AssignedInv ==
    \A n \in DOMAIN ast.nodes : AssignsLiteral(n) =>
      LET o == at(n).operands[1] IN
      /\ result_type[o] \in {initial_type(at(o)), VariableType(n)}
      /\ (errors = << >> /\ resolved[n] # NoNode) =>
           result_type[o] = VariableType(n) \/ Pending("check_assignment", n)

LEMMA AssignsFacts ==
  ASSUME IInv, NEW n \in DOMAIN ast.nodes, AssignsLiteral(n)
  PROVE  LET o == at(n).operands[1] IN
         /\ 1 \in DOMAIN at(n).operands /\ o \in DOMAIN ast.nodes
         /\ at(n).kind = "VariableAssignment" /\ at(o).kind \in Literal
<1>1. /\ at(n).kind = "VariableAssignment" /\ at(at(n).operands[1]).kind \in Literal /\ IsAst(ast)
      /\ Resolve(ast, n) # NoNode /\ at(Resolve(ast, n)).kind = "VariableDeclaration"
  BY DEF AssignsLiteral, IInv
<1>2. Len(at(n).operands) = 1 /\ at(n).operands \in Seq(Nat)
  BY <1>1, AstFacts DEF Operands, AstNode
<1> QED BY <1>1, <1>2, OperandOf

\* Only the check of the assignment gives the literal a type.
LEMMA AssignedOnly ==
  ASSUME IInv, MeantInv, Next, NEW n \in DOMAIN ast.nodes, AssignsLiteral(n)
  PROVE  LET o == at(n).operands[1] IN result_type'[o] = result_type[o] \/ (check_assignment /\ this = n)
<1> DEFINE o == at(n).operands[1]
<1>1. /\ 1 \in DOMAIN at(n).operands /\ o \in DOMAIN ast.nodes /\ IsAst(ast)
      /\ at(n).kind = "VariableAssignment" /\ at(o).kind \in Literal
      /\ DOMAIN result_type = DOMAIN ast.nodes
  BY AssignsFacts DEF IInv, TypesInv
<1>2. ASSUME NEW c \in DOMAIN ast.nodes, NEW i \in DOMAIN at(c).operands, at(c).operands[i] = o
      PROVE  c = n
  BY <1>1, <1>2, OnePlace
<1> SUFFICES result_type'[o] = result_type[o] \/ (check_assignment /\ this = n)
  OBVIOUS
<1> HIDE DEF o
<1>3. ASSUME NEW m \in DOMAIN ast.nodes, m # o, NEW type, NEW message, Assign(m, type, message)
      PROVE  result_type'[o] = result_type[o]
  BY <1>1, <1>3 DEF Assign, set_type_on_const
<1>4. CASE \/ validate \/ register_function \/ validate_function_declaration \/ validate_constant_declaration
           \/ validate_argument \/ validate_variable_declaration \/ declare_variable
  BY <1>4 DEF validate, register_function, validate_function_declaration, validate_constant_declaration,
     validate_argument, validate_variable_declaration, declare_variable, insert_or_fail, KeepScope
<1>5. CASE \/ validate_variable_assignment \/ validate_literal \/ validate_binary_op \/ validate_unary_op
           \/ validate_call_argument \/ validate_function_return \/ validate_if
  BY <1>5 DEF validate_variable_assignment, validate_literal, validate_binary_op, validate_unary_op,
     validate_call_argument, validate_function_return, validate_if, Fail, KeepScope
<1>6. CASE \/ check_condition \/ validate_else_block \/ release_stack_frame \/ finish
  BY <1>6 DEF check_condition, validate_else_block, release_stack_frame, finish
<1>7. CASE validate_variable_lookup \/ validate_function_call
  <2>1. at(this).kind \notin Literal /\ (result_type' = result_type \/ \E type : result_type' = [result_type EXCEPT ![this] = type])
    BY <1>7 DEF validate_variable_lookup, validate_function_call, Visiting, Fail, Literal
  <2> QED BY <1>1, <2>1
<1>8. CASE type_binary_op
  <2> DEFINE l == at(this).operands[1]
             r == at(this).operands[2]
  <2>1. Now("type_binary_op")
    BY <1>8 DEF type_binary_op
  <2>2. this \in DOMAIN ast.nodes /\ at(this).kind = "BinaryOp"
    BY <2>1, HeadFits DEF Todo
  <2>3. 1 \in DOMAIN at(this).operands /\ 2 \in DOMAIN at(this).operands
    <3>1. Len(at(this).operands) = 2 /\ at(this).operands \in Seq(Nat)
      BY <1>1, <2>2, AstFacts DEF Operands, AstNode
    <3> QED BY <3>1
  <2>4. l # o /\ r # o /\ this # o
    BY <1>1, <1>2, <2>2, <2>3 DEF Literal
  <2>5. \/ result_type' = result_type
        \/ \E s, t, u : result_type' = set_type_on_const(set_type_on_const([result_type EXCEPT ![this] = s], l, t), r, u)
    BY <1>8 DEF type_binary_op, Fail
  <2> HIDE DEF l, r
  <2> QED BY <1>1, <2>4, <2>5 DEF set_type_on_const
<1>9. CASE type_unary_op
  <2>1. Now("type_unary_op") /\ (result_type' = result_type \/ \E type : result_type' = [result_type EXCEPT ![this] = type])
    BY <1>9 DEF type_unary_op, Fail
  <2>2. this \in DOMAIN ast.nodes /\ at(this).kind = "UnaryOp"
    BY <2>1, HeadFits DEF Todo
  <2>3. this # o
    BY <1>1, <2>2 DEF Literal
  <2> QED BY <1>1, <2>1, <2>3
<1>10. CASE check_argument
  <2>1. /\ Now("check_argument") /\ Running /\ Current.todo # << >> /\ Head(Current.todo).do = "check_argument"
        /\ Assign(this, at(held_entry).type, "type mismatch")
    BY <1>10 DEF check_argument, Now
  <2>2. \E c \in DOMAIN ast.nodes : \E i \in DOMAIN at(c).operands :
          at(c).kind = "FunctionCall" /\ this = at(c).operands[i]
    BY <2>1, HeadMeant DEF EntryMeant, this
  <2>3. this # o /\ this \in DOMAIN ast.nodes
    BY <1>1, <1>2, <2>1, <2>2, HeadFacts
  <2> QED BY <1>3, <2>1, <2>3
<1>11. CASE check_return
  <2> DEFINE m == at(this).operands[1]
  <2>1. /\ Now("check_return")
        /\ \/ result_type' = result_type
           \/ has_value(at(this)) /\ \E type, message : Assign(m, type, message)
    BY <1>11 DEF check_return, Fail
  <2>2. this \in DOMAIN ast.nodes /\ at(this).kind = "FunctionReturn"
    <3>1. this \in DOMAIN ast.nodes /\ Fits(ast, Head(Current.todo)) /\ Head(Current.todo).do = "check_return"
      BY <2>1, HeadFits DEF Todo
    <3> QED BY <3>1 DEF Fits, this, at
  <2>3. has_value(at(this)) => 1 \in DOMAIN at(this).operands /\ m \in DOMAIN ast.nodes
    <3>1. at(this).operands \in Seq(Nat)
      BY <1>1, <2>2, AstFacts DEF AstNode
    <3> QED BY <2>2, <3>1, OperandOf DEF has_value
  <2>4. has_value(at(this)) => m # o
    BY <1>1, <1>2, <2>2, <2>3
  <2> HIDE DEF m
  <2> QED BY <1>3, <2>1, <2>3, <2>4
<1>12. CASE check_assignment
  <2> DEFINE m == at(this).operands[1]
  <2>1. /\ Now("check_assignment")
        /\ \/ result_type' = result_type
           \/ \E type, message : Assign(m, type, message)
    BY <1>12 DEF check_assignment
  <2>2. this \in DOMAIN ast.nodes /\ at(this).kind = "VariableAssignment"
    BY <2>1, HeadFits DEF Todo
  <2>3. 1 \in DOMAIN at(this).operands /\ m \in DOMAIN ast.nodes
    <3>1. Len(at(this).operands) = 1 /\ at(this).operands \in Seq(Nat)
      BY <1>1, <2>2, AstFacts DEF Operands, AstNode
    <3> QED BY <2>2, <3>1, OperandOf
  <2>4. m = o => this = n
    BY <1>2, <2>2, <2>3
  <2> HIDE DEF m
  <2> QED BY <1>3, <1>12, <2>1, <2>3, <2>4
<1> QED BY <1>4, <1>5, <1>6, <1>7, <1>8, <1>9, <1>10, <1>11, <1>12 DEF Next, o

\* Only a new validation forgets errors.
LEMMA ErrorsRemain ==
  ASSUME IInv, Next, ~ validate, errors' = << >>
  PROVE  errors = << >>
<1>1. ast' = ast
  BY TreeStays
<1>2. \A n, message : ~ add_error(n, message)
  BY <1>1, ErrorsEither
<1>3. errors' = errors
  BY <1>2 DEF Next, register_function, validate_function_declaration, validate_constant_declaration, validate_argument,
     validate_variable_declaration, declare_variable, validate_variable_assignment, check_assignment,
     validate_variable_lookup, validate_literal, validate_binary_op, type_binary_op, validate_unary_op, type_unary_op,
     validate_function_call, validate_call_argument, check_argument, validate_function_return, check_return, validate_if,
     check_condition, validate_else_block, release_stack_frame, finish, insert_or_fail, Fail, Assign
<1> QED BY <1>3

\* An assignment is looked up when it is visited, and will be checked then.
LEMMA AssignmentsFound ==
  ASSUME IInv, Next, errors' = << >>, NEW n \in DOMAIN ast.nodes, at(n).kind = "VariableAssignment", resolved'[n] # NoNode
  PROVE  resolved[n] # NoNode \/ Pending("check_assignment", n)'
<1>1. resolved \in [DOMAIN ast.nodes -> {NoNode} \cup DOMAIN ast.nodes]
  BY DEF IInv, ResolvedInv
<1>2. CASE validate
  BY <1>2 DEF validate
<1>3. CASE validate_variable_lookup \/ validate_function_call
  <2>1. at(this).kind # "VariableAssignment" /\ \E entry : resolved' = [resolved EXCEPT ![this] = entry]
    BY <1>3 DEF validate_variable_lookup, validate_function_call, Visiting
  <2> QED BY <1>1, <2>1
<1>4. CASE validate_variable_assignment
  <2> DEFINE entry == Table!lookup(at(this).name)
             check == [do |-> "check_assignment", node |-> this, entry |-> entry]
             items == visits(at(this).operands) \o << check >>
  <2>1. /\ Visiting("VariableAssignment") /\ Now("visit") /\ Running /\ Current.todo # << >>
        /\ ast' = ast /\ resolved' = [resolved EXCEPT ![this] = entry]
        /\ Then(items) \/ add_error(this, "not found")
    BY <1>4 DEF validate_variable_assignment, Fail, Visiting, Now, KeepScope
  <2>2. this \in DOMAIN ast.nodes /\ entry \in {NoNode} \cup DOMAIN ast.nodes
    BY <2>1, LooksUp
  <2>3. check \in Item
    BY <2>1, <2>2, ItemType DEF Todo
  <2>4. check.do = "check_assignment" /\ check.node = this
    OBVIOUS
  <2> HIDE DEF check
  <2>5. items \in Seq(Item) /\ Left(items, "check_assignment", this)
    <3>1. /\ items \in Seq(Item) /\ DOMAIN items = 1 .. Len(at(this).operands) + 1
          /\ Len(at(this).operands) \in Nat /\ items[Len(at(this).operands) + 1] = check
      BY <2>2, <2>3, OperandTodo
    <3> HIDE DEF items
    <3>2. Len(at(this).operands) + 1 \in DOMAIN items
      BY <3>1
    <3> QED BY <2>4, <3>1, <3>2 DEF Left
  <2> HIDE DEF items, entry
  <2>6. Then(items)
    <3>1. ~ add_error(this, "not found")
      BY <2>1, ErrorsEither
    <3> QED BY <2>1, <3>1
  <2>8. CASE n # this
    BY <1>1, <2>1, <2>8
  <2>9. CASE n = this
    <3>1. PICK m : m = this
      OBVIOUS
    <3>2. Pending("check_assignment", m)'
      <4>1. \A k : (k = this /\ Left(items, "check_assignment", k)) => Pending("check_assignment", k)'
        <5>1. Works(items, << >>)
          BY <2>1, <2>5, <2>6, ThenWorks
        <5> QED BY <2>1, <2>5, <5>1, WorksPending
      <4> QED BY <2>5, <3>1, <4>1
    <3> QED BY <2>9, <3>1, <3>2
  <2> QED BY <2>8, <2>9
<1>5. CASE \/ register_function \/ validate_function_declaration \/ validate_constant_declaration
           \/ validate_argument \/ declare_variable \/ check_condition \/ validate_else_block \/ release_stack_frame \/ finish
  BY <1>5 DEF register_function, validate_function_declaration, validate_constant_declaration, validate_argument,
     declare_variable, insert_or_fail, KeepScope, check_condition, validate_else_block, release_stack_frame, finish
<1>6. CASE validate_variable_declaration \/ validate_literal \/ validate_binary_op \/ validate_unary_op
           \/ validate_call_argument \/ validate_function_return \/ validate_if
  BY <1>6 DEF validate_variable_declaration, validate_literal, validate_binary_op, validate_unary_op,
     validate_call_argument, validate_function_return, validate_if
<1>7. CASE check_assignment \/ type_binary_op \/ type_unary_op \/ check_argument \/ check_return
  BY <1>7 DEF check_assignment, type_binary_op, type_unary_op, check_argument, check_return
<1> QED BY <1>2, <1>3, <1>4, <1>5, <1>6, <1>7 DEF Next

\* The check is what is done when it is next.
LEMMA OnlyCheck ==
  ASSUME Next, Now("check_assignment")
  PROVE  check_assignment
BY DEF Now, Visiting, Next, validate, register_function, validate_function_declaration, validate_constant_declaration,
   validate_argument, validate_variable_declaration, declare_variable, validate_variable_assignment, check_assignment,
   validate_variable_lookup, validate_literal, validate_binary_op, type_binary_op, validate_unary_op, type_unary_op,
   validate_function_call, validate_call_argument, check_argument, validate_function_return, check_return, validate_if,
   check_condition, validate_else_block, release_stack_frame, finish

\* Assignments give their literals the types of their variables, through every
\* step.
LEMMA AssignedStep == IInv /\ VerdictInv /\ AssignedInv /\ [Next]_vars => AssignedInv'
<1> SUFFICES ASSUME IInv, VerdictInv, AssignedInv, [Next]_vars
             PROVE  AssignedInv'
  OBVIOUS
<1>1. CASE UNCHANGED vars
  BY <1>1 DEF vars, AssignedInv, AssignsLiteral, VariableType, Pending, at
<1>2. CASE Next
  <2>1. ast' = ast /\ MeantInv /\ DOMAIN result_type = DOMAIN ast.nodes
    BY <1>2, TreeStays DEF VerdictInv, IInv, TypesInv
  <2> SUFFICES ASSUME NEW n \in DOMAIN ast.nodes, AssignsLiteral(n)
               PROVE  LET o == at(n).operands[1] IN
                      /\ result_type'[o] \in {initial_type(at(o)), VariableType(n)}
                      /\ (errors' = << >> /\ resolved'[n] # NoNode) =>
                           result_type'[o] = VariableType(n) \/ Pending("check_assignment", n)'
    BY <2>1 DEF AssignedInv, AssignsLiteral, VariableType, at
  <2> DEFINE o == at(n).operands[1]
             Given == result_type[o] = VariableType(n) \/ Pending("check_assignment", n)
  <2>2. /\ o \in DOMAIN ast.nodes /\ at(n).kind = "VariableAssignment" /\ at(o).kind \in Literal
        /\ result_type[o] \in {initial_type(at(o)), VariableType(n)}
        /\ (errors = << >> /\ resolved[n] # NoNode) => Given
    BY AssignsFacts DEF AssignedInv
  <2>3. (errors' = << >> /\ resolved'[n] # NoNode) => Given \/ Pending("check_assignment", n)'
    <3>1. ASSUME errors' = << >>, resolved'[n] # NoNode, resolved[n] # NoNode
          PROVE  Given
      <4>1. ~ validate
        BY <3>1 DEF validate
      <4>2. errors = << >>
        BY <1>2, <3>1, <4>1, ErrorsRemain
      <4> QED BY <2>2, <3>1, <4>2
    <3> HIDE DEF Given
    <3> QED BY <1>2, <2>2, <3>1, AssignmentsFound
  <2> SUFFICES /\ result_type'[o] \in {initial_type(at(o)), VariableType(n)}
               /\ (errors' = << >> /\ resolved'[n] # NoNode) =>
                    result_type'[o] = VariableType(n) \/ Pending("check_assignment", n)'
    OBVIOUS
  <2>4. CASE check_assignment /\ this = n
    <3>1. /\ Now("check_assignment") /\ Running /\ Current.todo # << >> /\ Head(Current.todo).do = "check_assignment"
          /\ at(held_entry).kind = "VariableDeclaration" =>
               Assign(o, at(held_entry).type, "type mismatch")
      BY <2>4 DEF check_assignment, Now
    <3>2. held_entry = Resolve(ast, n)
      BY <2>1, <2>4, <3>1, HeadMeant DEF EntryMeant, held_entry, this
    <3>3. Assign(o, VariableType(n), "type mismatch")
      BY <3>1, <3>2 DEF AssignsLiteral, VariableType
    <3>4. check_type_assignment(result_type[o], VariableType(n)) =>
            result_type'[o] = IF result_type[o] \in ConstType THEN VariableType(n) ELSE result_type[o]
      BY <2>1, <2>2, <3>3 DEF Assign, set_type_on_const
    <3>5. ~ check_type_assignment(result_type[o], VariableType(n)) => result_type' = result_type /\ errors' # << >>
      <4>1. ~ check_type_assignment(result_type[o], VariableType(n)) => result_type' = result_type /\ add_error(this, "type mismatch")
        BY <3>3 DEF Assign
      <4> QED BY <2>1, <4>1, ErrorsEither
    <3>6. initial_type(at(o)) \in ConstType \cup {BOOL}
      BY <2>2 DEF initial_type, Literal, ConstType
    <3>7. \A t : check_type_assignment(BOOL, t) => t = BOOL
      BY DEF check_type_assignment, is_assignment_compatible, same_family, is_signed_int, is_unsigned_int, is_float,
         BOOL, CONST_INT, INT64, CONST_UINT, UINT64, CONST_FLOAT, FLOAT64
    <3> HIDE DEF o
    <3> QED BY <2>2, <3>4, <3>5, <3>6, <3>7
  <2>5. CASE ~ (check_assignment /\ this = n)
    <3>1. result_type'[o] = result_type[o]
      BY <1>2, <2>1, <2>5, AssignedOnly
    <3>2. ASSUME errors' = << >>, resolved'[n] # NoNode, Pending("check_assignment", n)
          PROVE  Pending("check_assignment", n)'
      <4>1. ~ validate
        <5>1. validate => resolved'[n] = NoNode
          BY DEF validate
        <5> QED BY <3>2, <5>1
      <4>2. ~ (Now("check_assignment") /\ this = n)
        <5>1. Now("check_assignment") => check_assignment
          BY <1>2, OnlyCheck
        <5> QED BY <2>5, <5>1
      <4> QED BY <1>2, <3>2, <4>1, <4>2, StepKeeps
    <3> HIDE DEF o
    <3> QED BY <2>2, <2>3, <3>1, <3>2
  <2> QED BY <2>4, <2>5
<1> QED BY <1>1, <1>2

LEMMA AssignedInit == Init => AssignedInv
<1> SUFFICES ASSUME Init, NEW n \in DOMAIN ast.nodes, AssignsLiteral(n)
             PROVE  LET o == at(n).operands[1] IN
                    result_type[o] = initial_type(at(o)) /\ resolved[n] = NoNode
  BY DEF AssignedInv
<1>1. IInv
  BY InitInv
<1>2. at(n).operands[1] \in DOMAIN ast.nodes
  BY <1>1, AssignsFacts
<1> QED BY <1>2 DEF Init
================================================================================
