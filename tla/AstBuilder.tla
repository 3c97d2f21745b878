------------------------------- MODULE AstBuilder -------------------------------
(***************************************************************************)
(* Programs as nested nodes, and Tree, which numbers the nodes of a        *)
(* top-level list in the order the parser reduces them.  For writing down  *)
(* programs: only the modules that instantiate a specification for TLC     *)
(* use it.                                                                 *)
(***************************************************************************)
EXTENDS AstNodes

RECURSIVE AddNode(_, _)
RECURSIVE AddList(_, _)

\* The nodes after the list, and the numbers of its elements.
AddList(nodes, list) ==
    IF list = << >> THEN [nodes |-> nodes, ids |-> << >>]
    ELSE LET first == AddNode(nodes, Head(list))
             rest  == AddList(first, Tail(list))
         IN  [nodes |-> rest.nodes, ids |-> << Len(first) >> \o rest.ids]

\* The nodes after the subtree of node, which ends with node itself.
AddNode(nodes, node) ==
    LET operands == AddList(nodes, node.operands)
        params   == AddList(operands.nodes, node.params)
        body     == AddList(params.nodes, node.body)
        orelse   == AddList(body.nodes, node.orelse)
    IN  Append(orelse.nodes,
               [node EXCEPT !.operands = operands.ids, !.params = params.ids,
                            !.body = body.ids, !.orelse = orelse.ids])

Tree(top_level) ==
    LET all == AddList(<< >>, top_level) IN [nodes |-> all.nodes, top |-> all.ids]
================================================================================
