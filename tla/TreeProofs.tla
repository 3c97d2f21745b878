------------------------------ MODULE TreeProofs ------------------------------
(***************************************************************************)
(* Trees in tree order.  Children precede their parents, so a subtree is   *)
(* an interval of nodes, the intervals of two children are apart, and of   *)
(* a list of nodes every earlier one is done before the next begins: what  *)
(* the walks of both phases over a tree rest on.                           *)
(***************************************************************************)
EXTENDS StaticSemantics, TLAPS, WellFoundedInduction, SequenceTheorems

\* A set of numbers has a least one: what a recursion over a tree would give.
LEMMA Least ==
  ASSUME NEW T, T \subseteq Nat, T # {}
  PROVE  \E x \in T : \A y \in T : x <= y
<1>1. PICK x \in T : \A y \in T : ~ (<< y, x >> \in OpToRel(<, Nat))
  BY NatLessThanWellFounded, WFMin
<1>2. \A y \in T : ~ (y < x)
  BY <1>1 DEF OpToRel
<1> QED BY <1>2

\* What InPostOrder says of the first nodes and of one list.
Tiles(first, N, list, a, b) ==
    /\ N \in Nat /\ a \in Nat /\ b \in Nat
    /\ \A n \in 1 .. N : first[n] \in 1 .. n
    /\ list \in Seq(1 .. N)
    /\ Spans(first, list, a, b)

\* The nodes of such a list, and the first nodes below them, are nodes.
LEMMA Places ==
  ASSUME NEW first, NEW N, NEW list, NEW a, NEW b, Tiles(first, N, list, a, b)
  PROVE  /\ Len(list) \in Nat /\ DOMAIN list = 1 .. Len(list)
         /\ \A k \in 1 .. Len(list) : list[k] \in 1 .. N
         /\ \A k \in 1 .. Len(list) : first[list[k]] \in 1 .. list[k]
<1>1. list \in Seq(1 .. N) /\ \A n \in 1 .. N : first[n] \in 1 .. n
  BY DEF Tiles
<1> DEFINE T == 1 .. N
<1>2. Len(list) \in Nat /\ DOMAIN list = 1 .. Len(list) /\ \A k \in 1 .. Len(list) : list[k] \in T
  <2> HIDE DEF T
  <2>1. list \in Seq(T)
    BY <1>1 DEF T
  <2> QED BY <2>1
<1> QED BY <1>1, <1>2

\* They come one after the other.
LEMMA Ordered ==
  ASSUME NEW first, NEW N, NEW list, NEW a, NEW b, Tiles(first, N, list, a, b)
  PROVE  \A i, j \in 1 .. Len(list) : i < j => list[i] < first[list[j]]
<1> DEFINE T == {j \in 1 .. Len(list) : \E i \in 1 .. Len(list) : i < j /\ ~ (list[i] < first[list[j]])}
<1>1. SUFFICES ASSUME T # {}
               PROVE  FALSE
  OBVIOUS
<1>2. PICK j \in T : \A y \in T : j <= y
  <2>1. T \subseteq Nat
    OBVIOUS
  <2> HIDE DEF T
  <2> QED BY <1>1, <2>1, Least
<1>3. PICK i \in 1 .. Len(list) : i < j /\ ~ (list[i] < first[list[j]])
  OBVIOUS
<1>4. /\ Len(list) \in Nat
      /\ \A k \in 1 .. Len(list) : list[k] \in 1 .. N
      /\ \A k \in 1 .. Len(list) : first[list[k]] \in 1 .. list[k]
  BY Places
<1>5. j - 1 \in 1 .. Len(list) - 1 /\ j - 1 + 1 = j
  BY <1>3, <1>4
<1>6. first[list[j]] = list[j - 1] + 1
  BY <1>5 DEF Tiles, Spans
<1>7. j - 1 \notin T
  BY <1>2, <1>5
<1>8. i = j - 1 \/ list[i] < first[list[j - 1]]
  BY <1>3, <1>5, <1>7
<1> QED BY <1>3, <1>4, <1>5, <1>6, <1>8

\* A node of the list and all below it are in the stretch.
LEMMA Within ==
  ASSUME NEW first, NEW N, NEW list, NEW a, NEW b, Tiles(first, N, list, a, b),
         NEW i \in 1 .. Len(list)
  PROVE  list[i] \in 1 .. N /\ first[list[i]] \in a + 1 .. list[i] /\ list[i] <= b
<1>1. /\ Len(list) \in Nat
      /\ \A k \in 1 .. Len(list) : list[k] \in 1 .. N
      /\ \A k \in 1 .. Len(list) : first[list[k]] \in 1 .. list[k]
      /\ first[list[1]] = a + 1 /\ list[Len(list)] = b /\ a \in Nat /\ b \in Nat
  BY DEF Tiles, Spans
<1>2. 1 \in 1 .. Len(list) /\ Len(list) \in 1 .. Len(list)
  BY <1>1
<1>3. i = 1 \/ list[1] < first[list[i]]
  BY <1>1, <1>2, Ordered
<1>4. i = Len(list) \/ list[i] < first[list[Len(list)]]
  BY <1>1, <1>2, Ordered
<1> QED BY <1>1, <1>2, <1>3, <1>4

\* Every node of the stretch is below a node of the list.
LEMMA Covered ==
  ASSUME NEW first, NEW N, NEW list, NEW a, NEW b, Tiles(first, N, list, a, b),
         NEW m \in a + 1 .. b
  PROVE  \E i \in 1 .. Len(list) : m \in first[list[i]] .. list[i]
<1> DEFINE T == {i \in 1 .. Len(list) : m <= list[i]}
<1>1. /\ Len(list) \in Nat /\ a \in Nat /\ b \in Nat /\ a # b /\ m \in Nat
      /\ \A k \in 1 .. Len(list) : list[k] \in 1 .. N
      /\ \A k \in 1 .. Len(list) : first[list[k]] \in 1 .. list[k]
  BY DEF Tiles
<1>2. list # << >>
  BY <1>1 DEF Tiles, Spans
<1>3. first[list[1]] = a + 1 /\ list[Len(list)] = b /\ Len(list) # 0
  BY <1>2 DEF Tiles, Spans
<1>4. Len(list) \in T
  BY <1>1, <1>3
<1>5. PICK i \in T : \A y \in T : i <= y
  <2>1. T \subseteq Nat
    OBVIOUS
  <2> HIDE DEF T
  <2> QED BY <1>4, <2>1, Least
<1>6. CASE i = 1
  BY <1>1, <1>3, <1>6
<1>7. CASE i # 1
  <2>1. i - 1 \in 1 .. Len(list) - 1 /\ i - 1 + 1 = i
    BY <1>1, <1>7
  <2>2. first[list[i]] = list[i - 1] + 1
    BY <2>1 DEF Tiles, Spans
  <2>3. i - 1 \notin T
    BY <1>5, <2>1
  <2> QED BY <1>1, <2>1, <2>2, <2>3
<1> QED BY <1>6, <1>7

\* Two subtrees of a list have no node in common.
LEMMA Apart ==
  ASSUME NEW first, NEW N, NEW list, NEW a, NEW b, Tiles(first, N, list, a, b),
         NEW i \in 1 .. Len(list), NEW j \in 1 .. Len(list),
         NEW m, m \in first[list[i]] .. list[i], m \in first[list[j]] .. list[j]
  PROVE  i = j
<1>1. /\ Len(list) \in Nat
      /\ \A k \in 1 .. Len(list) : list[k] \in 1 .. N
      /\ \A k \in 1 .. Len(list) : first[list[k]] \in 1 .. list[k]
  BY Places
<1>2. i < j => list[i] < first[list[j]]
  BY Ordered
<1>3. j < i => list[j] < first[list[i]]
  BY Ordered
<1> QED BY <1>1, <1>2, <1>3

LEMMA SeqGrows ==
  ASSUME NEW S, NEW T, S \subseteq T, NEW s \in Seq(S)
  PROVE  s \in Seq(T)
OBVIOUS

LEMMA Joined ==
  ASSUME NEW S, NEW s \in Seq(S), NEW t \in Seq(S)
  PROVE  s \o t \in Seq(S)
OBVIOUS

LEMMA Associative ==
  ASSUME NEW S, NEW s \in Seq(S), NEW t \in Seq(S), NEW u \in Seq(S)
  PROVE  s \o (t \o u) = (s \o t) \o u
BY ConcatAssociative

\* What IsAst says of the order of the nodes.
LEMMA TreeFacts ==
  ASSUME NEW tree, IsAst(tree)
  PROVE  /\ Len(tree.nodes) \in Nat /\ DOMAIN tree.nodes = 1 .. Len(tree.nodes)
         /\ \A n \in DOMAIN tree.nodes : FirstOf(tree)[n] \in 1 .. n
         /\ Tiles(FirstOf(tree), Len(tree.nodes), tree.top, 0, Len(tree.nodes))
         /\ DOMAIN tree.top = 1 .. Len(tree.top)
<1> DEFINE N == Len(tree.nodes)
<1>1. N \in Nat /\ DOMAIN tree.nodes = 1 .. N
  BY DEF IsAst
<1>2. tree.top \in Seq(1 .. N)
  <2>1. {n \in 1 .. N : tree.nodes[n].kind \in TopLevel} \subseteq 1 .. N
    OBVIOUS
  <2>2. tree.top \in Seq({n \in 1 .. N : tree.nodes[n].kind \in TopLevel})
    BY DEF IsAst
  <2> QED BY <2>1, <2>2, SeqGrows
<1>3. /\ \A n \in DOMAIN tree.nodes : FirstOf(tree)[n] \in 1 .. n
      /\ Spans(FirstOf(tree), tree.top, 0, N)
  BY DEF IsAst, InPostOrder
<1> QED BY <1>1, <1>2, <1>3 DEF Tiles

\* The lists of a node are behind each other in that of its children.
LEMMA ChildrenFacts ==
  ASSUME NEW tree, IsAst(tree), NEW n \in DOMAIN tree.nodes
  PROVE  /\ Children(tree.nodes[n]) \in Seq(1 .. n - 1)
         /\ DOMAIN Children(tree.nodes[n]) = 1 .. Len(Children(tree.nodes[n]))
         /\ Tiles(FirstOf(tree), Len(tree.nodes), Children(tree.nodes[n]), FirstOf(tree)[n] - 1, n - 1)
<1> DEFINE N == Len(tree.nodes)
           node == tree.nodes[n]
           Before(kinds) == {m \in 1 .. n - 1 : tree.nodes[m].kind \in kinds}
<1>1. N \in Nat /\ n \in 1 .. N /\ FirstOf(tree)[n] \in 1 .. n
  BY TreeFacts
<1>2. /\ node.operands \in Seq(Before(Expression))
      /\ node.params \in Seq(Before({"Argument"}))
      /\ node.body \in Seq(Before(Statement))
      /\ node.orelse \in Seq(Before(Statement))
  BY DEF IsAst
<1>4. /\ node.operands \in Seq(1 .. n - 1) /\ node.params \in Seq(1 .. n - 1)
      /\ node.body \in Seq(1 .. n - 1) /\ node.orelse \in Seq(1 .. n - 1)
  <2>1. ASSUME NEW kinds, NEW s \in Seq(Before(kinds))
        PROVE  s \in Seq(1 .. n - 1)
    <3>1. Before(kinds) \subseteq 1 .. n - 1
      OBVIOUS
    <3> HIDE DEF Before
    <3> QED BY <2>1, <3>1, SeqGrows
  <2> HIDE DEF Before, node
  <2> QED BY <1>2, <2>1
<1>5. Children(node) \in Seq(1 .. n - 1)
  <2>1. node.operands \o node.params \in Seq(1 .. n - 1)
    BY <1>4, Joined
  <2>2. node.operands \o node.params \o node.body \in Seq(1 .. n - 1)
    BY <1>4, <2>1, Joined
  <2> QED BY <1>4, <2>2, Joined DEF Children
<1>6. Children(node) \in Seq(1 .. N)
  <2>1. 1 .. n - 1 \subseteq 1 .. N
    BY <1>1
  <2> QED BY <1>5, <2>1, SeqGrows
<1>7. Spans(FirstOf(tree), Children(node), FirstOf(tree)[n] - 1, n - 1)
  BY DEF IsAst, InPostOrder
<1>8. \A m \in 1 .. N : FirstOf(tree)[m] \in 1 .. m
  BY TreeFacts
<1>9. FirstOf(tree)[n] - 1 \in Nat /\ n - 1 \in Nat
  BY <1>1
<1>10. Tiles(FirstOf(tree), N, Children(node), FirstOf(tree)[n] - 1, n - 1)
  BY <1>1, <1>6, <1>7, <1>8, <1>9 DEF Tiles
<1>11. DOMAIN Children(node) = 1 .. Len(Children(node))
  BY <1>5
<1> QED BY <1>5, <1>10, <1>11

Child(tree, m, n) == \E i \in DOMAIN Children(tree.nodes[n]) : Children(tree.nodes[n])[i] = m

\* What is below a child is below its parent.
LEMMA ChildUnder ==
  ASSUME NEW tree, IsAst(tree), NEW n \in DOMAIN tree.nodes, NEW c, Child(tree, c, n)
  PROVE  /\ c \in DOMAIN tree.nodes /\ c < n
         /\ Under(tree, c, n)
         /\ \A m : Under(tree, m, c) => Under(tree, m, n)
         /\ FirstOf(tree)[n] <= FirstOf(tree)[c]
<1>1. PICK i \in DOMAIN Children(tree.nodes[n]) : Children(tree.nodes[n])[i] = c
  BY DEF Child
<1>2. /\ c \in 1 .. Len(tree.nodes) /\ FirstOf(tree)[c] \in FirstOf(tree)[n] - 1 + 1 .. c /\ c <= n - 1
  BY <1>1, ChildrenFacts, Within
<1>3. FirstOf(tree)[n] \in 1 .. n /\ n \in Nat /\ Len(tree.nodes) \in Nat /\ DOMAIN tree.nodes = 1 .. Len(tree.nodes)
  BY TreeFacts
<1>4. FirstOf(tree)[n] <= FirstOf(tree)[c] /\ FirstOf(tree)[c] \in Nat /\ c <= n - 1 /\ c \in Nat
      /\ FirstOf(tree)[c] <= c
  BY <1>2, <1>3
<1> QED BY <1>2, <1>3, <1>4 DEF Under

\* Below a node is the node and what is below its children.
LEMMA Descend ==
  ASSUME NEW tree, IsAst(tree), NEW n \in DOMAIN tree.nodes, NEW m, Under(tree, m, n), m # n
  PROVE  \E c : Child(tree, c, n) /\ Under(tree, m, c)
<1>1. FirstOf(tree)[n] \in 1 .. n /\ n \in Nat
  BY TreeFacts
<1>2. m \in FirstOf(tree)[n] - 1 + 1 .. n - 1
  BY <1>1 DEF Under
<1>3. PICK i \in 1 .. Len(Children(tree.nodes[n])) :
        m \in FirstOf(tree)[Children(tree.nodes[n])[i]] .. Children(tree.nodes[n])[i]
  BY <1>2, ChildrenFacts, Covered
<1> QED BY <1>3, ChildrenFacts DEF Child, Under

\* A node is below itself, and nothing after it is below it.
LEMMA UnderFacts ==
  ASSUME NEW tree, IsAst(tree), NEW n \in DOMAIN tree.nodes
  PROVE  /\ Under(tree, n, n)
         /\ \A m : Under(tree, m, n) => m \in DOMAIN tree.nodes /\ m <= n /\ m \in Nat
         /\ n \in Nat
<1>1. FirstOf(tree)[n] \in 1 .. n /\ n \in Nat /\ Len(tree.nodes) \in Nat /\ DOMAIN tree.nodes = 1 .. Len(tree.nodes)
  BY TreeFacts
<1> QED BY <1>1 DEF Under

\* Whatever is below a node starts no earlier.
LEMMA Nested ==
  ASSUME NEW tree, IsAst(tree), NEW n \in DOMAIN tree.nodes, NEW m, Under(tree, m, n)
  PROVE  FirstOf(tree)[n] <= FirstOf(tree)[m]
<1> DEFINE T == {k \in DOMAIN tree.nodes : Under(tree, m, k) /\ ~ (FirstOf(tree)[k] <= FirstOf(tree)[m])}
<1>1. SUFFICES ASSUME T # {}
               PROVE  FALSE
  OBVIOUS
<1>2. PICK k \in T : \A y \in T : k <= y
  <2>1. T \subseteq Nat
    BY UnderFacts
  <2> HIDE DEF T
  <2> QED BY <1>1, <2>1, Least
<1>3. m # k /\ m \in DOMAIN tree.nodes
  <2>1. FirstOf(tree)[k] \in Nat
    BY TreeFacts
  <2> QED BY <2>1, UnderFacts
<1>4. PICK c : Child(tree, c, k) /\ Under(tree, m, c)
  BY <1>3, Descend
<1>5. c \in DOMAIN tree.nodes /\ c < k /\ FirstOf(tree)[k] <= FirstOf(tree)[c]
  BY <1>4, ChildUnder
<1>6. c \notin T
  <2>1. c \in Nat /\ k \in Nat
    BY <1>5, UnderFacts
  <2> QED BY <1>2, <1>5, <2>1
<1>7. FirstOf(tree)[c] <= FirstOf(tree)[m]
  BY <1>4, <1>5, <1>6
<1>8. FirstOf(tree)[c] \in Nat /\ FirstOf(tree)[m] \in Nat /\ FirstOf(tree)[k] \in Nat
  BY <1>3, <1>5, TreeFacts
<1> QED BY <1>5, <1>7, <1>8

LEMMA Transitive ==
  ASSUME NEW tree, IsAst(tree), NEW n \in DOMAIN tree.nodes, NEW m, Under(tree, m, n),
         NEW k, Under(tree, k, m)
  PROVE  Under(tree, k, n)
<1>1. m \in DOMAIN tree.nodes /\ m \in Nat /\ n \in Nat /\ m <= n
  BY UnderFacts
<1>2. FirstOf(tree)[n] <= FirstOf(tree)[m] /\ FirstOf(tree)[n] \in Nat /\ FirstOf(tree)[m] \in Nat
  BY <1>1, Nested, TreeFacts
<1> QED BY <1>1, <1>2 DEF Under

\* Children have no descendants in common, nor do instructions.
LEMMA ChildrenApart ==
  ASSUME NEW tree, IsAst(tree), NEW n \in DOMAIN tree.nodes,
         NEW i \in DOMAIN Children(tree.nodes[n]), NEW j \in DOMAIN Children(tree.nodes[n]),
         NEW m, Under(tree, m, Children(tree.nodes[n])[i]), Under(tree, m, Children(tree.nodes[n])[j])
  PROVE  i = j
<1> DEFINE first == FirstOf(tree)
           list == Children(tree.nodes[n])
<1>1. /\ Tiles(first, Len(tree.nodes), list, first[n] - 1, n - 1)
      /\ i \in 1 .. Len(list) /\ j \in 1 .. Len(list)
  BY ChildrenFacts
<1>2. m \in first[list[i]] .. list[i] /\ m \in first[list[j]] .. list[j]
  BY DEF Under
<1> HIDE DEF first, list
<1> QED BY <1>1, <1>2, Apart

\* No two instructions of a tree have a node below both.
LEMMA TopApart ==
  ASSUME NEW tree, IsAst(tree), NEW i \in DOMAIN tree.top, NEW j \in DOMAIN tree.top,
         NEW m, Under(tree, m, tree.top[i]), Under(tree, m, tree.top[j])
  PROVE  i = j
BY TreeFacts, Apart DEF Under

\* Every node is below an instruction.
LEMMA TopCovers ==
  ASSUME NEW tree, IsAst(tree), NEW n \in DOMAIN tree.nodes
  PROVE  \E i \in DOMAIN tree.top : tree.top[i] \in DOMAIN tree.nodes /\ Under(tree, n, tree.top[i])
<1>1. n \in 0 + 1 .. Len(tree.nodes)
  BY TreeFacts
<1>2. PICK i \in 1 .. Len(tree.top) : n \in FirstOf(tree)[tree.top[i]] .. tree.top[i]
  BY <1>1, TreeFacts, Covered
<1>3. tree.top[i] \in 1 .. Len(tree.nodes)
  BY TreeFacts, Within
<1> QED BY <1>2, <1>3, TreeFacts DEF Under

\* A node is the child of one node, at one place, and an instruction of none.
LEMMA OneParent ==
  ASSUME NEW tree, IsAst(tree), NEW n \in DOMAIN tree.nodes, NEW o \in DOMAIN tree.nodes,
         NEW c, Child(tree, c, n), Child(tree, c, o)
  PROVE  n = o
<1>1. ASSUME NEW p \in DOMAIN tree.nodes, NEW q \in DOMAIN tree.nodes,
             Child(tree, c, p), Child(tree, c, q), p < q
      PROVE  FALSE
  <2>1. p \in Nat /\ q \in Nat /\ c \in DOMAIN tree.nodes /\ c \in Nat /\ c < p
    BY <1>1, ChildUnder, UnderFacts
  <2>2. /\ FirstOf(tree)[q] <= FirstOf(tree)[c] /\ FirstOf(tree)[q] \in Nat
        /\ FirstOf(tree)[c] \in Nat /\ FirstOf(tree)[c] <= c
    BY <1>1, <2>1, ChildUnder, TreeFacts
  <2>3. Under(tree, p, q)
    BY <1>1, <2>1, <2>2 DEF Under
  <2>4. PICK d : Child(tree, d, q) /\ Under(tree, p, d)
    BY <1>1, <2>1, <2>3, Descend
  <2>5. d \in DOMAIN tree.nodes /\ d \in Nat /\ p <= d
    BY <1>1, <2>4, ChildUnder, UnderFacts
  <2>6. Under(tree, c, p)
    BY <1>1, ChildUnder
  <2>7. Under(tree, c, d)
    BY <2>4, <2>5, <2>6, Transitive
  <2>8. Under(tree, c, c)
    BY <2>1, UnderFacts
  <2>9. c = d
    BY <1>1, <2>4, <2>7, <2>8, ChildrenApart DEF Child
  <2> QED BY <2>1, <2>5, <2>9
<1>2. n \in Nat /\ o \in Nat
  BY UnderFacts
<1> QED BY <1>1, <1>2

\* An instruction is nobody's child.
LEMMA TopHasNoParent ==
  ASSUME NEW tree, IsAst(tree), NEW o \in DOMAIN tree.nodes, NEW i \in DOMAIN tree.top,
         Child(tree, tree.top[i], o)
  PROVE  FALSE
<1> DEFINE c == tree.top[i]
<1>1. c \in DOMAIN tree.nodes /\ c \in Nat /\ c < o /\ o \in Nat /\ Under(tree, c, c) /\ Under(tree, c, o)
  BY ChildUnder, UnderFacts
<1>2. PICK j \in DOMAIN tree.top : tree.top[j] \in DOMAIN tree.nodes /\ Under(tree, o, tree.top[j])
  BY TopCovers
<1>3. Under(tree, c, tree.top[j])
  BY <1>1, <1>2, Transitive
<1>4. i = j
  BY <1>1, <1>3, TopApart
<1> QED BY <1>1, <1>2, <1>4, UnderFacts

\* Whatever has its child below a node is below it, unless the child is it.
LEMMA ParentBelow ==
  ASSUME NEW tree, IsAst(tree), NEW n \in DOMAIN tree.nodes, NEW o \in DOMAIN tree.nodes,
         NEW c, Child(tree, c, o), Under(tree, c, n), c # n
  PROVE  Under(tree, o, n)
<1> DEFINE T == {k \in DOMAIN tree.nodes : Under(tree, c, k) /\ c # k /\ ~ Under(tree, o, k)}
<1>1. SUFFICES ASSUME T # {}
               PROVE  FALSE
  OBVIOUS
<1>2. PICK k \in T : \A y \in T : k <= y
  <2>1. T \subseteq Nat
    BY UnderFacts
  <2> HIDE DEF T
  <2> QED BY <1>1, <2>1, Least
<1>3. PICK d : Child(tree, d, k) /\ Under(tree, c, d)
  BY <1>2, Descend
<1>4. d \in DOMAIN tree.nodes /\ d \in Nat /\ k \in Nat /\ d < k /\ \A m : Under(tree, m, d) => Under(tree, m, k)
  BY <1>3, ChildUnder, UnderFacts
<1>5. c # d
  <2>1. SUFFICES ASSUME c = d
                 PROVE  FALSE
    OBVIOUS
  <2>2. o = k
    BY <1>3, <2>1, OneParent
  <2> QED BY <2>2, UnderFacts
<1>6. d \notin T
  BY <1>2, <1>4
<1>7. Under(tree, o, d)
  BY <1>3, <1>4, <1>5, <1>6
<1> QED BY <1>4, <1>7

\* Expressions have only expressions below them.
LEMMA ExpressionsBelow ==
  ASSUME NEW tree, IsAst(tree), NEW n \in DOMAIN tree.nodes, tree.nodes[n].kind \in Expression,
         NEW m, Under(tree, m, n)
  PROVE  tree.nodes[m].kind \in Expression
<1> DEFINE T == {k \in DOMAIN tree.nodes : /\ tree.nodes[k].kind \in Expression
                                           /\ Under(tree, m, k)
                                           /\ tree.nodes[m].kind \notin Expression}
<1>1. SUFFICES ASSUME T # {}
               PROVE  FALSE
  OBVIOUS
<1>2. PICK k \in T : \A y \in T : k <= y
  <2>1. T \subseteq Nat
    BY UnderFacts
  <2> HIDE DEF T
  <2> QED BY <1>1, <2>1, Least
<1>3. PICK d : Child(tree, d, k) /\ Under(tree, m, d)
  BY <1>2, Descend
<1>4. d \in DOMAIN tree.nodes /\ d \in Nat /\ k \in Nat /\ d < k
  BY <1>3, ChildUnder, UnderFacts
<1>5. tree.nodes[d].kind \in Expression
  <2> DEFINE node == tree.nodes[k]
  <2>1. /\ node.params = << >> /\ node.body = << >> /\ node.orelse = << >>
    BY <1>2 DEF IsAst, Expression, Literal
  <2>2. node.operands \in Seq({x \in 1 .. k - 1 : tree.nodes[x].kind \in Expression})
    BY DEF IsAst
  <2>3. Children(node) = node.operands
    BY <2>1, <2>2 DEF Children
  <2>4. PICK i \in DOMAIN node.operands : node.operands[i] = d
    BY <1>3, <2>3 DEF Child
  <2> QED BY <2>2, <2>4
<1>6. d \notin T
  BY <1>2, <1>4
<1> QED BY <1>3, <1>4, <1>5, <1>6

\* Two lists one after the other.
LEMMA Joins ==
  ASSUME NEW S, NEW s \in Seq(S), NEW t \in Seq(S)
  PROVE  /\ Len(s) \in Nat /\ DOMAIN s = 1 .. Len(s)
         /\ Len(t) \in Nat /\ DOMAIN t = 1 .. Len(t)
         /\ s \o t \in Seq(S) /\ Len(s \o t) = Len(s) + Len(t)
         /\ DOMAIN (s \o t) = 1 .. Len(s) + Len(t)
         /\ \A j \in 1 .. Len(s) : (s \o t)[j] = s[j]
         /\ \A j \in 1 .. Len(t) : (s \o t)[Len(s) + j] = t[j]
OBVIOUS

\* Where the lists of a node are among its children.
At(list, shift, children) ==
    /\ Len(list) \in Nat /\ shift \in Nat
    /\ DOMAIN list = 1 .. Len(list)
    /\ \A j \in DOMAIN list : shift + j \in DOMAIN children /\ children[shift + j] = list[j]

\* Where the children of a node are: operands, arguments, body and else block.
LEMMA Sections ==
  ASSUME NEW tree, IsAst(tree), NEW n \in DOMAIN tree.nodes
  PROVE  LET node == tree.nodes[n]
             ops == Len(node.operands)
             heads == ops + Len(node.params)
         IN /\ At(node.operands, 0, Children(node))
            /\ At(node.params, ops, Children(node))
            /\ At(node.params \o node.body, ops, Children(node))
            /\ At(node.body, heads, Children(node))
            /\ At(node.orelse, heads + Len(node.body), Children(node))
            /\ ops \in Nat /\ Len(node.params) \in Nat /\ Len(node.body) \in Nat
<1> DEFINE node == tree.nodes[n]
           Before(kinds) == {m \in 1 .. n - 1 : tree.nodes[m].kind \in kinds}
<1>1. PICK o, p, b, e : o = node.operands /\ p = node.params /\ b = node.body /\ e = node.orelse
  OBVIOUS
<1>2. /\ o \in Seq(Before(Expression)) /\ p \in Seq(Before({"Argument"}))
      /\ b \in Seq(Before(Statement)) /\ e \in Seq(Before(Statement))
  BY <1>1 DEF IsAst
<1>3. PICK N : N = 1 .. n - 1
  OBVIOUS
<1>4. o \in Seq(N) /\ p \in Seq(N) /\ b \in Seq(N) /\ e \in Seq(N)
  <2>1. ASSUME NEW kinds, NEW s \in Seq(Before(kinds))
        PROVE  s \in Seq(N)
    <3>1. Before(kinds) \subseteq N
      BY <1>3
    <3> HIDE DEF Before
    <3> QED BY <2>1, <3>1, SeqGrows
  <2> HIDE DEF Before
  <2> QED BY <1>2, <2>1
<1>5. Children(node) = o \o p \o b \o e
  BY <1>1 DEF Children
<1>6. /\ Len(o) \in Nat /\ DOMAIN o = 1 .. Len(o) /\ Len(p) \in Nat /\ DOMAIN p = 1 .. Len(p)
      /\ Len(b) \in Nat /\ DOMAIN b = 1 .. Len(b) /\ Len(e) \in Nat /\ DOMAIN e = 1 .. Len(e)
  BY <1>4
<1>7. /\ o \o p \in Seq(N) /\ Len(o \o p) = Len(o) + Len(p)
      /\ \A j \in 1 .. Len(o) : (o \o p)[j] = o[j]
      /\ \A j \in 1 .. Len(p) : (o \o p)[Len(o) + j] = p[j]
  BY <1>4, Joins
<1>8. PICK op : op = o \o p
  OBVIOUS
<1>9. /\ op \o b \in Seq(N) /\ Len(op \o b) = Len(op) + Len(b)
      /\ \A j \in 1 .. Len(op) : (op \o b)[j] = op[j]
      /\ \A j \in 1 .. Len(b) : (op \o b)[Len(op) + j] = b[j]
  BY <1>4, <1>7, <1>8, Joins
<1>10. PICK opb : opb = op \o b
  OBVIOUS
<1>11. /\ DOMAIN (opb \o e) = 1 .. Len(opb) + Len(e)
       /\ \A j \in 1 .. Len(opb) : (opb \o e)[j] = opb[j]
       /\ \A j \in 1 .. Len(e) : (opb \o e)[Len(opb) + j] = e[j]
  BY <1>4, <1>9, <1>10, Joins
<1>12. PICK c : c = Children(node)
  OBVIOUS
<1>13. c = opb \o e
  BY <1>5, <1>8, <1>10, <1>12
<1>14. /\ Len(op) = Len(o) + Len(p) /\ Len(opb) = Len(o) + Len(p) + Len(b)
       /\ DOMAIN c = 1 .. Len(o) + Len(p) + Len(b) + Len(e)
  BY <1>6, <1>7, <1>8, <1>9, <1>10, <1>11, <1>13
<1>15. \A j \in 1 .. Len(o) : j \in DOMAIN c /\ c[j] = o[j] /\ 0 + j = j
  <2> TAKE j \in 1 .. Len(o)
  <2>1. j \in 1 .. Len(op) /\ j \in 1 .. Len(opb) /\ j \in DOMAIN c /\ 0 + j = j
    BY <1>6, <1>14
  <2> QED BY <1>7, <1>8, <1>9, <1>10, <1>11, <1>13, <2>1
<1>16. \A j \in 1 .. Len(p) : Len(o) + j \in DOMAIN c /\ c[Len(o) + j] = p[j]
  <2> TAKE j \in 1 .. Len(p)
  <2>1. Len(o) + j \in 1 .. Len(op) /\ Len(o) + j \in 1 .. Len(opb) /\ Len(o) + j \in DOMAIN c
    BY <1>6, <1>14
  <2> QED BY <1>7, <1>8, <1>9, <1>10, <1>11, <1>13, <2>1
<1>17. \A j \in 1 .. Len(b) : Len(o) + Len(p) + j \in DOMAIN c /\ c[Len(o) + Len(p) + j] = b[j]
  <2> TAKE j \in 1 .. Len(b)
  <2>1. Len(op) + j \in 1 .. Len(opb) /\ Len(op) + j \in DOMAIN c /\ Len(op) + j = Len(o) + Len(p) + j
    BY <1>6, <1>14
  <2> QED BY <1>9, <1>10, <1>11, <1>13, <2>1
<1>18. \A j \in 1 .. Len(e) : Len(o) + Len(p) + Len(b) + j \in DOMAIN c /\ c[Len(o) + Len(p) + Len(b) + j] = e[j]
  <2> TAKE j \in 1 .. Len(e)
  <2>1. Len(opb) + j \in DOMAIN c /\ Len(opb) + j = Len(o) + Len(p) + Len(b) + j
    BY <1>6, <1>14
  <2> QED BY <1>11, <1>13, <2>1
<1>19. /\ Len(p \o b) = Len(p) + Len(b) /\ DOMAIN (p \o b) = 1 .. Len(p) + Len(b)
       /\ \A j \in 1 .. Len(p) : (p \o b)[j] = p[j]
       /\ \A j \in 1 .. Len(b) : (p \o b)[Len(p) + j] = b[j]
  BY <1>4, Joins
<1>20. \A j \in 1 .. Len(p) + Len(b) : Len(o) + j \in DOMAIN c /\ c[Len(o) + j] = (p \o b)[j]
  <2> TAKE j \in 1 .. Len(p) + Len(b)
  <2>1. CASE j \in 1 .. Len(p)
    BY <1>16, <1>19, <2>1
  <2>2. CASE j \notin 1 .. Len(p)
    <3>1. j - Len(p) \in 1 .. Len(b) /\ Len(p) + (j - Len(p)) = j /\ Len(o) + Len(p) + (j - Len(p)) = Len(o) + j
      BY <1>6, <2>2
    <3> QED BY <1>17, <1>19, <3>1
  <2> QED BY <2>1, <2>2
<1>21. At(o, 0, c) /\ At(p, Len(o), c)
  BY <1>6, <1>15, <1>16 DEF At
<1>22. At(p \o b, Len(o), c)
  BY <1>6, <1>19, <1>20 DEF At
<1>23. At(b, Len(o) + Len(p), c) /\ At(e, Len(o) + Len(p) + Len(b), c)
  BY <1>6, <1>17, <1>18 DEF At
<1> QED BY <1>1, <1>6, <1>12, <1>21, <1>22, <1>23

\* So are the children of a node.
LEMMA ChildrenAscend ==
  ASSUME NEW tree, IsAst(tree), NEW n \in DOMAIN tree.nodes,
         NEW i \in DOMAIN Children(tree.nodes[n]), NEW j \in DOMAIN Children(tree.nodes[n]), i < j
  PROVE  Children(tree.nodes[n])[i] < Children(tree.nodes[n])[j]
<1> DEFINE c == Children(tree.nodes[n])
           first == FirstOf(tree)
<1>1. Tiles(first, Len(tree.nodes), c, first[n] - 1, n - 1) /\ DOMAIN c = 1 .. Len(c)
  BY ChildrenFacts
<1>2. c[i] < first[c[j]]
  BY <1>1, Ordered
<1>3. c[i] \in Nat /\ c[j] \in Nat /\ first[c[j]] \in Nat /\ first[c[j]] <= c[j]
  <2>1. c[i] \in 1 .. Len(tree.nodes) /\ c[j] \in 1 .. Len(tree.nodes) /\ first[c[j]] \in 1 .. c[j]
    BY <1>1, Places
  <2> QED BY <2>1
<1> QED BY <1>2, <1>3

\* Of the children of a node, one has a given node below it.
LEMMA OnlyChild ==
  ASSUME NEW tree, IsAst(tree), NEW o \in DOMAIN tree.nodes, NEW c, Child(tree, c, o),
         NEW d, Child(tree, d, o), NEW n, Under(tree, n, c), Under(tree, n, d)
  PROVE  c = d
<1>1. PICK i \in DOMAIN Children(tree.nodes[o]) : Children(tree.nodes[o])[i] = c
  BY DEF Child
<1>2. PICK j \in DOMAIN Children(tree.nodes[o]) : Children(tree.nodes[o])[j] = d
  BY DEF Child
<1>3. i = j
  BY <1>1, <1>2, ChildrenApart
<1> QED BY <1>1, <1>2, <1>3

LEMMA RangeJoin ==
  ASSUME NEW S, NEW s \in Seq(S), NEW t \in Seq(S), NEW i \in DOMAIN (s \o t)
  PROVE  (s \o t)[i] \in Range(s) \cup Range(t)
<1>1. CASE i \in DOMAIN s
  BY <1>1 DEF Range
<1>2. CASE i \notin DOMAIN s
  <2>1. i - Len(s) \in DOMAIN t /\ (s \o t)[i] = t[i - Len(s)]
    BY <1>2
  <2> QED BY <2>1 DEF Range
<1> QED BY <1>1, <1>2

\* The children of a node by the list they are in.
LEMMA AmongChildren ==
  ASSUME NEW tree, IsAst(tree), NEW n \in DOMAIN tree.nodes, NEW c, Child(tree, c, n)
  PROVE  c \in Range(tree.nodes[n].operands) \cup Range(tree.nodes[n].params)
               \cup Range(tree.nodes[n].body) \cup Range(tree.nodes[n].orelse)
<1> DEFINE node == tree.nodes[n]
<1>1. PICK o, p, b, e : o = node.operands /\ p = node.params /\ b = node.body /\ e = node.orelse
  OBVIOUS
<1>2. o \in Seq(Nat) /\ p \in Seq(Nat) /\ b \in Seq(Nat) /\ e \in Seq(Nat)
  <2>1. node \in AstNode
    BY DEF IsAst
  <2> QED BY <1>1, <2>1 DEF AstNode
<1>3. o \o p \in Seq(Nat) /\ o \o p \o b \in Seq(Nat)
  BY <1>2
<1>4. PICK i \in DOMAIN (o \o p \o b \o e) : (o \o p \o b \o e)[i] = c
  BY <1>1 DEF Child, Children
<1>5. c \in Range(o \o p \o b) \cup Range(e)
  BY <1>2, <1>3, <1>4, RangeJoin
<1>6. c \in Range(o \o p \o b) => c \in Range(o \o p) \cup Range(b)
  BY <1>2, <1>3, RangeJoin DEF Range
<1>7. c \in Range(o \o p) => c \in Range(o) \cup Range(p)
  BY <1>2, RangeJoin DEF Range
<1> QED BY <1>1, <1>5, <1>6, <1>7

\* Only a function has arguments, only it and an if have a body, only an if an
\* else; and a list has nodes of its kinds.
LEMMA ListKinds ==
  ASSUME NEW tree, IsAst(tree), NEW n \in DOMAIN tree.nodes
  PROVE  LET node == tree.nodes[n] IN
         /\ \A c \in Range(node.operands) : tree.nodes[c].kind \in Expression
         /\ \A c \in Range(node.params) : tree.nodes[c].kind = "Argument"
         /\ \A c \in Range(node.body) \cup Range(node.orelse) : tree.nodes[c].kind \in Statement
         /\ node.kind # "FunctionDeclaration" => Range(node.params) = {}
         /\ node.kind \notin {"FunctionDeclaration", "If"} => Range(node.body) = {}
         /\ node.kind # "If" => Range(node.orelse) = {}
<1> DEFINE node == tree.nodes[n]
           Among(kinds) == {m \in 1 .. n - 1 : tree.nodes[m].kind \in kinds}
<1>1. /\ node.operands \in Seq(Among(Expression))
      /\ node.params \in Seq(Among({"Argument"}))
      /\ node.body \in Seq(Among(Statement))
      /\ node.orelse \in Seq(Among(Statement))
      /\ node.kind # "FunctionDeclaration" => node.params = << >>
      /\ node.kind \notin {"FunctionDeclaration", "If"} => node.body = << >>
      /\ node.kind # "If" => node.orelse = << >>
  BY DEF IsAst
<1>2. Range(<< >>) = {}
  BY DEF Range
<1>3. ASSUME NEW kinds, NEW list \in Seq(Among(kinds)), NEW c \in Range(list)
      PROVE  tree.nodes[c].kind \in kinds
  BY <1>3 DEF Range
<1> HIDE DEF Among
<1> QED BY <1>1, <1>2, <1>3

\* A literal and an argument have nothing below them.
LEMMA Childless ==
  ASSUME NEW tree, IsAst(tree), NEW c \in DOMAIN tree.nodes,
         tree.nodes[c].kind \in Literal \cup {"Argument"},
         NEW n, Under(tree, n, c)
  PROVE  n = c
<1>1. SUFFICES ASSUME n # c
               PROVE  FALSE
  OBVIOUS
<1>2. PICK d : Child(tree, d, c)
  BY <1>1, Descend
<1> DEFINE node == tree.nodes[c]
<1>3. /\ node.params = << >> /\ node.body = << >> /\ node.orelse = << >>
      /\ Len(node.operands) = 0 /\ node.operands \in Seq(Nat)
  <2>1. node.kind \notin {"FunctionDeclaration", "If"} /\ Operands(node.kind) = {0}
    BY DEF Literal, Operands
  <2>2. node.params = << >> /\ node.body = << >> /\ node.orelse = << >>
        /\ Len(node.operands) \in Operands(node.kind)
    BY <2>1 DEF IsAst
  <2>3. node \in AstNode
    BY DEF IsAst
  <2> QED BY <2>1, <2>2, <2>3 DEF AstNode
<1>4. node.operands = << >>
  BY <1>3
<1> QED BY <1>2, <1>3, <1>4, AmongChildren DEF Range

\* What never falls from one place to the next is in order.
LEMMA Monotone ==
  ASSUME NEW n \in Nat, NEW b \in [1 .. n + 1 -> Nat], \A j \in 1 .. n : b[j] <= b[j + 1],
         NEW i \in 1 .. n + 1, NEW j \in 1 .. n + 1, i <= j
  PROVE  b[i] <= b[j]
<1> DEFINE T == {k \in 1 .. n + 1 : i <= k /\ b[k] < b[i]}
<1>1. ASSUME T # {} PROVE FALSE
  <2>1. PICK k \in T : \A l \in T : k <= l
    <3>1. T \subseteq Nat
      OBVIOUS
    <3> HIDE DEF T
    <3> QED BY <1>1, <3>1, Least
  <2>2. k \in 1 .. n + 1 /\ i <= k /\ b[k] < b[i] /\ b[i] \in Nat /\ b[k] \in Nat
    BY <2>1
  <2>3. i < k
    BY <2>2
  <2>4. k - 1 \in 1 .. n /\ k - 1 \in 1 .. n + 1 /\ i <= k - 1 /\ ~ (k <= k - 1) /\ (k - 1) + 1 = k
    BY <2>2, <2>3
  <2>5. k - 1 \notin T
    BY <2>1, <2>4
  <2>6. b[k - 1] \in Nat /\ b[k - 1] <= b[k]
    BY <2>4
  <2>7. ~ (b[k - 1] < b[i])
    BY <2>4, <2>5
  <2> QED BY <2>2, <2>6, <2>7
<1>2. j \notin T
  BY <1>1
<1>3. b[i] \in Nat /\ b[j] \in Nat
  OBVIOUS
<1> QED BY <1>2, <1>3

\* Where one list ends and the next begins.
LEMMA SplitTiles ==
  ASSUME NEW first, NEW N, NEW s, NEW t, NEW a, NEW b, s \in Seq(1 .. N), t \in Seq(1 .. N),
         Tiles(first, N, s \o t, a, b)
  PROVE  \E m \in a .. b : Tiles(first, N, s, a, m) /\ Tiles(first, N, t, m, b)
<1> DEFINE u == s \o t
           p == Len(s)
           q == Len(t)
           m == IF p = 0 THEN a ELSE s[p]
<1>1. /\ p \in Nat /\ DOMAIN s = 1 .. p /\ q \in Nat /\ DOMAIN t = 1 .. q
      /\ u \in Seq(1 .. N) /\ Len(u) = p + q
      /\ \A j \in 1 .. p : u[j] = s[j]
      /\ \A j \in 1 .. q : u[p + j] = t[j]
  BY Joins
<1>2. /\ N \in Nat /\ a \in Nat /\ b \in Nat
      /\ \A n \in 1 .. N : first[n] \in 1 .. n
      /\ u = << >> => a = b
      /\ u # << >> => first[u[1]] = a + 1 /\ u[Len(u)] = b
      /\ \A i \in 1 .. Len(u) - 1 : first[u[i + 1]] = u[i] + 1
  BY DEF Tiles, Spans
<1>3. \A i \in 1 .. p + q : u[i] \in a + 1 .. b
  <2> TAKE i \in 1 .. p + q
  <2>1. i \in 1 .. Len(u)
    BY <1>1
  <2>2. u[i] \in 1 .. N /\ first[u[i]] \in a + 1 .. u[i] /\ u[i] <= b
    BY <2>1, Within
  <2>3. PICK v : v = u[i]
    OBVIOUS
  <2>4. PICK f : f = first[u[i]]
    OBVIOUS
  <2>5. /\ v \in 1 .. N /\ N \in Nat /\ a \in Nat /\ b \in Nat
        /\ f \in a + 1 .. v /\ v <= b
    BY <1>2, <2>2, <2>3, <2>4
  <2>6. v \in a + 1 .. b
    BY <2>5
  <2> QED BY <2>3, <2>6
<1>4. s = << >> <=> p = 0
  BY <1>1
<1>5. t = << >> <=> q = 0
  BY <1>1
<1>6. u = << >> <=> p + q = 0
  BY <1>1
<1> HIDE DEF u
<1>7. p # 0 => p \in 1 .. p + q /\ u[p] = s[p] /\ 1 \in 1 .. p /\ u[1] = s[1] /\ p \in 1 .. p
  BY <1>1
<1>8. q # 0 => 1 \in 1 .. q /\ q \in 1 .. q /\ u[p + 1] = t[1] /\ u[p + q] = t[q]
  BY <1>1
<1> HIDE DEF p, q
<1>9. m \in a .. b
  <2>1. CASE p = 0
    <3>1. a <= b
      <4>1. CASE q = 0
        BY <1>2, <1>6, <2>1, <4>1
      <4>2. CASE q # 0
        <5>1. 1 \in 1 .. p + q
          BY <1>1, <2>1, <4>2
        <5> QED BY <1>2, <1>3, <5>1
      <4> QED BY <4>1, <4>2
    <3> QED BY <1>2, <2>1, <3>1
  <2>2. CASE p # 0
    BY <1>2, <1>3, <1>7, <2>2
  <2> QED BY <2>1, <2>2
<1>10. Spans(first, s, a, m)
  <2>1. \A i \in 1 .. p - 1 : first[s[i + 1]] = s[i] + 1
    <3> TAKE i \in 1 .. p - 1
    <3>1. i \in 1 .. p /\ i + 1 \in 1 .. p /\ i \in 1 .. Len(u) - 1
      BY <1>1
    <3>2. first[u[i + 1]] = u[i] + 1
      BY <1>2, <3>1
    <3>3. u[i] = s[i] /\ u[i + 1] = s[i + 1]
      BY <1>1, <3>1
    <3> QED BY <3>2, <3>3
  <2>2. s # << >> => first[s[1]] = a + 1
    BY <1>1, <1>2, <1>4, <1>6, <1>7
  <2>3. s # << >> => s[Len(s)] = m
    BY <1>4 DEF p
  <2>4. s = << >> => a = m
    BY <1>4
  <2> QED BY <2>1, <2>2, <2>3, <2>4 DEF Spans, p
<1>11. Spans(first, t, m, b)
  <2>1. \A i \in 1 .. q - 1 : first[t[i + 1]] = t[i] + 1
    <3> TAKE i \in 1 .. q - 1
    <3>1. i \in 1 .. q /\ i + 1 \in 1 .. q /\ p + i \in 1 .. Len(u) - 1 /\ (p + i) + 1 = p + (i + 1)
      BY <1>1
    <3>2. first[u[(p + i) + 1]] = u[p + i] + 1
      BY <1>2, <3>1
    <3>3. u[p + i] = t[i] /\ u[p + (i + 1)] = t[i + 1]
      BY <1>1, <3>1
    <3>4. u[(p + i) + 1] = u[p + (i + 1)]
      BY <3>1
    <3> QED BY <3>2, <3>3, <3>4
  <2>2. q # 0 => first[t[1]] = m + 1
    <3> SUFFICES ASSUME q # 0 PROVE first[t[1]] = m + 1
      OBVIOUS
    <3>1. CASE p = 0
      <4>1. p + 1 = 1 /\ u # << >>
        BY <1>1, <1>6, <3>1
      <4> QED BY <1>2, <1>8, <3>1, <4>1
    <3>2. CASE p # 0
      <4>1. p \in 1 .. Len(u) - 1
        BY <1>1, <3>2
      <4> QED BY <1>2, <1>7, <1>8, <3>2, <4>1
    <3> QED BY <3>1, <3>2
  <2>3. q # 0 => t[q] = b
    <3>1. q # 0 => u # << >>
      BY <1>1, <1>6
    <3> QED BY <1>1, <1>2, <1>8, <3>1
  <2>4. q = 0 => m = b
    <3> SUFFICES ASSUME q = 0 PROVE m = b
      OBVIOUS
    <3>1. CASE p = 0
      BY <1>2, <1>6, <3>1
    <3>2. CASE p # 0
      <4>1. Len(u) = p /\ u # << >>
        BY <1>1, <1>6, <3>2
      <4> QED BY <1>2, <1>7, <3>2, <4>1
    <3> QED BY <3>1, <3>2
  <2> QED BY <1>5, <2>1, <2>2, <2>3, <2>4 DEF Spans, q
<1>12. m \in Nat
  BY <1>2, <1>9
<1> HIDE DEF m
<1>13. Tiles(first, N, s, a, m) /\ Tiles(first, N, t, m, b)
  BY <1>2, <1>10, <1>11, <1>12 DEF Tiles
<1> QED BY <1>9, <1>13

\* Nothing is below what has no operands.
LEMMA LeafFirst ==
  ASSUME NEW tree, IsAst(tree), NEW n \in DOMAIN tree.nodes, Children(tree.nodes[n]) = << >>
  PROVE  FirstOf(tree)[n] = n
<1>1. Tiles(FirstOf(tree), Len(tree.nodes), Children(tree.nodes[n]), FirstOf(tree)[n] - 1, n - 1)
  BY ChildrenFacts
<1>2. FirstOf(tree)[n] - 1 = n - 1
  BY <1>1 DEF Tiles, Spans
<1>3. FirstOf(tree)[n] \in Nat /\ n \in Nat
  BY TreeFacts
<1> QED BY <1>2, <1>3

\* The lists a node of each kind has.
LEMMA NodeShape ==
  ASSUME NEW tree, IsAst(tree), NEW n \in DOMAIN tree.nodes
  PROVE  LET node == tree.nodes[n] IN
         /\ node.operands \in Seq(1 .. Len(tree.nodes)) /\ node.params \in Seq(1 .. Len(tree.nodes))
         /\ node.body \in Seq(1 .. Len(tree.nodes)) /\ node.orelse \in Seq(1 .. Len(tree.nodes))
         /\ node.kind \notin {"FunctionDeclaration", "If"} => Children(node) = node.operands
         /\ node.kind = "If" => Children(node) = node.operands \o (node.body \o node.orelse)
         /\ node.kind = "FunctionDeclaration" => Children(node) = node.params \o node.body
         /\ node.kind \in Literal \cup {"VariableLookup"} => node.operands = << >>
<1> DEFINE N == Len(tree.nodes)
           node == tree.nodes[n]
           Of(kinds) == {m \in 1 .. n - 1 : tree.nodes[m].kind \in kinds}
<1>1. N \in Nat /\ n \in 1 .. N
  BY TreeFacts
<1>2. /\ node.operands \in Seq(Of(Expression)) /\ node.params \in Seq(Of({"Argument"}))
      /\ node.body \in Seq(Of(Statement)) /\ node.orelse \in Seq(Of(Statement))
      /\ Len(node.operands) \in Operands(node.kind)
      /\ node.kind # "FunctionDeclaration" => node.params = << >>
      /\ node.kind \notin {"FunctionDeclaration", "If"} => node.body = << >>
      /\ node.kind # "If" => node.orelse = << >>
  BY DEF IsAst
<1>3. \A kinds : Of(kinds) \subseteq 1 .. N
  BY <1>1
<1> HIDE DEF Of, node, N
<1>4. /\ node.operands \in Seq(1 .. N) /\ node.params \in Seq(1 .. N)
      /\ node.body \in Seq(1 .. N) /\ node.orelse \in Seq(1 .. N)
  BY <1>2, <1>3, SeqGrows
<1>5. node.kind \in Literal \cup {"VariableLookup", "FunctionDeclaration"} => node.operands = << >>
  <2>1. node.kind \in Literal \cup {"VariableLookup", "FunctionDeclaration"} => Len(node.operands) = 0
    BY <1>2 DEF Operands, Literal
  <2> QED BY <1>4, <2>1
<1>6. node.kind \notin {"FunctionDeclaration", "If"} => Children(node) = node.operands
  <2> SUFFICES ASSUME node.kind \notin {"FunctionDeclaration", "If"} PROVE Children(node) = node.operands
    OBVIOUS
  <2>1. node.params = << >> /\ node.body = << >> /\ node.orelse = << >>
    BY <1>2
  <2>2. node.operands \o << >> = node.operands
    BY <1>4, ConcatEmptySeq
  <2> QED BY <2>1, <2>2 DEF Children
<1>7. node.kind = "If" => Children(node) = node.operands \o (node.body \o node.orelse)
  <2> SUFFICES ASSUME node.kind = "If" PROVE Children(node) = node.operands \o (node.body \o node.orelse)
    OBVIOUS
  <2>1. node.params = << >>
    BY <1>2
  <2>2. node.operands \o << >> = node.operands
    BY <1>4, ConcatEmptySeq
  <2>3. (node.operands \o node.body) \o node.orelse = node.operands \o (node.body \o node.orelse)
    <3> DEFINE S == 1 .. N
    <3>1. node.operands \in Seq(S) /\ node.body \in Seq(S) /\ node.orelse \in Seq(S)
      BY <1>4
    <3> HIDE DEF S
    <3>2. PICK r \in Seq(S), s \in Seq(S), t \in Seq(S) : r = node.operands /\ s = node.body /\ t = node.orelse
      BY <3>1
    <3>3. (r \o s) \o t = r \o (s \o t)
      BY Associative
    <3> QED BY <3>2, <3>3
  <2> QED BY <2>1, <2>2, <2>3 DEF Children
<1>8. node.kind = "FunctionDeclaration" => Children(node) = node.params \o node.body
  <2> SUFFICES ASSUME node.kind = "FunctionDeclaration" PROVE Children(node) = node.params \o node.body
    OBVIOUS
  <2>1. node.operands = << >> /\ node.orelse = << >>
    BY <1>2, <1>5
  <2>2. << >> \o node.params = node.params
    BY <1>4, ConcatEmptySeq
  <2>3. node.params \o node.body \in Seq(1 .. N)
    BY <1>4, ConcatProperties
  <2>4. (node.params \o node.body) \o << >> = node.params \o node.body
    BY <2>3, ConcatEmptySeq
  <2> QED BY <2>1, <2>2, <2>4 DEF Children
<1> QED BY <1>4, <1>5, <1>6, <1>7, <1>8 DEF node, N

-------------------------------------------------------------------------------
(* The types of a tree: each is that of its node, given those of the        *)
(* operands.  The recursive definition of TypesOf is a CHOOSE, and what it  *)
(* chooses from is shown to exist.                                          *)

\* Literals and lookups have no parts.
LEMMA Leaf ==
  ASSUME NEW tree, IsAst(tree), NEW n \in DOMAIN tree.nodes,
         tree.nodes[n].kind \in Literal \cup {"VariableLookup"}
  PROVE  FirstOf(tree)[n] = n
<1>1. PICK node : node = tree.nodes[n]
  OBVIOUS
<1>2. node.kind \notin {"FunctionDeclaration", "If"}
  BY <1>1 DEF Literal
<1>3. /\ node.kind \notin {"FunctionDeclaration", "If"} => Children(node) = node.operands
      /\ node.kind \in Literal \cup {"VariableLookup"} => node.operands = << >>
  BY <1>1, NodeShape
<1>4. Children(node) = << >>
  BY <1>1, <1>2, <1>3
<1> QED BY <1>1, <1>4, LeafFirst

LEMMA OperandSeq ==
  ASSUME NEW tree, IsAst(tree), NEW n \in DOMAIN tree.nodes
  PROVE  /\ tree.nodes[n].operands \in Seq(DOMAIN tree.nodes)
         /\ tree.nodes[n].body \in Seq(DOMAIN tree.nodes)
         /\ tree.nodes[n].orelse \in Seq(DOMAIN tree.nodes)
<1>1. DOMAIN tree.nodes = 1 .. Len(tree.nodes)
  BY TreeFacts
<1> QED BY <1>1, NodeShape

\* The type of n, if its operands have the types given.
TypeAt(tree, types, n) ==
    LET node == tree.nodes[n]
        left == types[node.operands[1]]
        right == types[node.operands[2]]
        common == convert_arithmetic_types(left, right)
    IN  CASE node.kind \in Literal -> initial_type(node)
          [] node.kind = "VariableLookup" -> DeclaredType(tree, Resolve(tree, n))
          [] node.kind = "FunctionCall" ->
               LET f == Resolve(tree, n) IN
               IF f # NoNode /\ is_function(tree.nodes[f]) THEN tree.nodes[f].type ELSE NoType
          [] node.op \in Arithmetic -> IF common # UNDEF THEN common ELSE NoType
          [] node.op \in Comparison ->
               IF NoType \notin {left, right} /\ is_numeric_comparison_compatible(left, right)
               THEN BOOL ELSE NoType
          [] node.op \in Logical -> IF left = BOOL /\ right = BOOL THEN BOOL ELSE NoType
          [] node.op = "NEGATE" -> IF is_numeric(left) THEN left ELSE NoType
          [] node.op = "NOT" -> IF left = BOOL THEN BOOL ELSE NoType
          [] OTHER -> NoType

\* types is right for the nodes up to k.
TypedUpTo(tree, types, k) == \A n \in DOMAIN tree.nodes : n <= k => types[n] = TypeAt(tree, types, n)

LEMMA OperatorFacts ==
  ASSUME NEW tree, IsAst(tree), NEW n \in DOMAIN tree.nodes
  PROVE  /\ tree.nodes[n].op \in Operators(tree.nodes[n].kind)
         /\ tree.nodes[n].kind = "BinaryOp" =>
              /\ tree.nodes[n].operands[1] \in DOMAIN tree.nodes /\ tree.nodes[n].operands[1] < n
              /\ tree.nodes[n].operands[2] \in DOMAIN tree.nodes /\ tree.nodes[n].operands[2] < n
         /\ tree.nodes[n].kind = "UnaryOp" =>
              tree.nodes[n].operands[1] \in DOMAIN tree.nodes /\ tree.nodes[n].operands[1] < n
<1> DEFINE node == tree.nodes[n]
           E == {m \in 1 .. n - 1 : tree.nodes[m].kind \in Expression}
<1>1. Len(tree.nodes) \in Nat /\ DOMAIN tree.nodes = 1 .. Len(tree.nodes)
  BY TreeFacts
<1>2. node.op \in Operators(node.kind) /\ node.operands \in Seq(E) /\ Len(node.operands) \in Operands(node.kind)
  BY DEF IsAst
<1>3. \A m \in E : m \in DOMAIN tree.nodes /\ m < n
  BY <1>1
<1> HIDE DEF E
<1>4. \A i \in 1 .. Len(node.operands) : node.operands[i] \in E
  BY <1>2
<1>5. node.kind = "BinaryOp" => Len(node.operands) = 2
  BY <1>2 DEF Operands
<1>6. node.kind = "UnaryOp" => Len(node.operands) = 1
  BY <1>2 DEF Operands
<1> HIDE DEF node
<1> QED BY <1>2, <1>3, <1>4, <1>5, <1>6 DEF node

\* An operator has two operands, not one twice.
LEMMA OperandsDiffer ==
  ASSUME NEW tree, IsAst(tree), NEW n \in DOMAIN tree.nodes, tree.nodes[n].kind = "BinaryOp"
  PROVE  tree.nodes[n].operands[1] # tree.nodes[n].operands[2]
<1> DEFINE ops == tree.nodes[n].operands
<1>1. Children(tree.nodes[n]) = ops
  BY NodeShape
<1>2. Len(ops) = 2 /\ ops \in Seq(1 .. Len(tree.nodes))
  <2>1. Len(ops) \in Operands("BinaryOp")
    BY DEF IsAst
  <2> QED BY <2>1, NodeShape DEF Operands
<1>3. DOMAIN ops = 1 .. 2
  BY <1>2
<1>4. ops[1] \in DOMAIN tree.nodes
  BY OperatorFacts
<1>5. Under(tree, ops[1], ops[1])
  BY <1>4, UnderFacts
<1> HIDE DEF ops
<1>6. ASSUME ops[1] = ops[2]
      PROVE  FALSE
  <2>1. 1 \in DOMAIN Children(tree.nodes[n]) /\ 2 \in DOMAIN Children(tree.nodes[n])
    BY <1>1, <1>3
  <2>2. Under(tree, ops[1], Children(tree.nodes[n])[1]) /\ Under(tree, ops[1], Children(tree.nodes[n])[2])
    BY <1>1, <1>5, <1>6
  <2> QED BY <2>1, <2>2, ChildrenApart
<1> QED BY <1>6 DEF ops

\* The type of a node depends on those of earlier nodes only.
LEMMA TypeAtLocal ==
  ASSUME NEW tree, IsAst(tree), NEW n \in DOMAIN tree.nodes, NEW f, NEW g,
         \A m \in DOMAIN tree.nodes : m < n => f[m] = g[m]
  PROVE  TypeAt(tree, f, n) = TypeAt(tree, g, n)
<1> DEFINE node == tree.nodes[n]
<1>1. node.op \in Operators(node.kind)
  BY OperatorFacts
<1>2. CASE node.kind = "BinaryOp"
  <2>1. f[node.operands[1]] = g[node.operands[1]] /\ f[node.operands[2]] = g[node.operands[2]]
    BY <1>2, OperatorFacts
  <2> QED BY <2>1 DEF TypeAt
<1>3. CASE node.kind = "UnaryOp"
  <2>1. f[node.operands[1]] = g[node.operands[1]]
    BY <1>3, OperatorFacts
  <2>2. node.op \in {"NEGATE", "NOT"} /\ node.op \notin Arithmetic \cup Comparison \cup Logical
    BY <1>1, <1>3 DEF Operators, UnaryOperator, Arithmetic, Comparison, Logical
  <2> QED BY <2>1, <2>2, <1>3 DEF TypeAt, Literal
<1>4. CASE node.kind \notin {"BinaryOp", "UnaryOp"}
  <2>1. node.op \notin Arithmetic \cup Comparison \cup Logical /\ node.op \notin {"NEGATE", "NOT"}
    BY <1>1, <1>4 DEF Operators, Arithmetic, Comparison, Logical
  <2> QED BY <2>1 DEF TypeAt
<1> QED BY <1>2, <1>3, <1>4

LEMMA TypesExist ==
  ASSUME NEW tree, IsAst(tree), NEW k \in Nat
  PROVE  \E f : TypedUpTo(tree, f, k)
<1> DEFINE S == {n \in Nat : ~ \E f : TypedUpTo(tree, f, n)}
<1>1. SUFFICES ASSUME S # {}
      PROVE  FALSE
  OBVIOUS
<1>2. PICK n \in S : \A y \in S : n <= y
  <2>1. S \subseteq Nat
    OBVIOUS
  <2> HIDE DEF S
  <2> QED BY <1>1, <2>1, Least
<1>3. DOMAIN tree.nodes \subseteq Nat \ {0}
  BY TreeFacts
<1>4. PICK g : \A m \in DOMAIN tree.nodes : m < n => g[m] = TypeAt(tree, g, m)
  <2>1. CASE n = 0
    BY <1>3, <2>1
  <2>2. CASE n # 0
    <3>1. n - 1 \in Nat /\ n - 1 \notin S /\ n \in Nat
      BY <1>2, <2>2
    <3>2. PICK g : TypedUpTo(tree, g, n - 1)
      BY <3>1
    <3>3. \A m \in DOMAIN tree.nodes : m < n => m <= n - 1
      BY <1>3, <3>1
    <3> QED BY <3>2, <3>3 DEF TypedUpTo
  <2> QED BY <2>1, <2>2
<1> DEFINE f == [m \in DOMAIN tree.nodes |-> IF m = n THEN TypeAt(tree, g, n) ELSE g[m]]
<1>5. \A m \in DOMAIN tree.nodes : m < n => f[m] = g[m]
  BY <1>2, <1>3
<1>6. n \in DOMAIN tree.nodes => f[n] = TypeAt(tree, g, n)
  OBVIOUS
<1> HIDE DEF f
<1>7. ASSUME NEW m \in DOMAIN tree.nodes, m <= n
      PROVE  f[m] = TypeAt(tree, f, m)
  <2>1. n \in Nat /\ \A j \in DOMAIN tree.nodes : j < m => f[j] = g[j]
    BY <1>2, <1>3, <1>5, <1>7
  <2>2. TypeAt(tree, f, m) = TypeAt(tree, g, m)
    BY <2>1, TypeAtLocal
  <2>3. f[m] = TypeAt(tree, g, m)
    BY <1>3, <1>4, <1>5, <1>6, <1>7, <2>1
  <2> QED BY <2>2, <2>3
<1>8. TypedUpTo(tree, f, n)
  BY <1>7 DEF TypedUpTo
<1> QED BY <1>2, <1>8

\* TypesOf gives every node the type its parts give it.
LEMMA TypesUnfold ==
  ASSUME NEW tree, IsAst(tree), NEW k \in DOMAIN tree.nodes
  PROVE  TypesOf(tree)[k] = TypeAt(tree, TypesOf(tree), k)
<1> DEFINE Body(f) == [n \in DOMAIN tree.nodes |-> TypeAt(tree, f, n)]
           types == TypesOf(tree)
<1>1. \E F : F = Body(F)
  <2>1. Len(tree.nodes) \in Nat /\ \A n \in DOMAIN tree.nodes : n <= Len(tree.nodes)
    BY TreeFacts
  <2>2. PICK g : TypedUpTo(tree, g, Len(tree.nodes))
    BY <2>1, TypesExist
  <2> DEFINE F == [n \in DOMAIN tree.nodes |-> g[n]]
  <2>3. ASSUME NEW n \in DOMAIN tree.nodes
        PROVE  F[n] = TypeAt(tree, F, n)
    <3>1. \A m \in DOMAIN tree.nodes : m < n => F[m] = g[m]
      OBVIOUS
    <3>2. F[n] = TypeAt(tree, g, n)
      BY <2>1, <2>2 DEF TypedUpTo
    <3> HIDE DEF F
    <3> QED BY <3>1, <3>2, TypeAtLocal
  <2>4. F = Body(F)
    BY <2>3
  <2> QED BY <2>4
<1>2. types = CHOOSE f : f = Body(f)
  BY DEF TypesOf, TypeAt
<1>3. types = Body(types)
  <2> HIDE DEF Body, types
  <2> QED BY Zenon, <1>1, <1>2
<1> HIDE DEF types
<1>4. types[k] = TypeAt(tree, types, k)
  BY <1>3
<1> QED BY <1>4 DEF types
================================================================================
