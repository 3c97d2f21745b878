-------------------------- MODULE LexicalEnvironment --------------------------
(***************************************************************************)
(* What the chain of symbol tables promises its user, without the chain:   *)
(* in every open scope each name has one meaning.  Opening a scope changes *)
(* no meaning, a declaration gives a name that the scope has not declared  *)
(* itself a new meaning there, and closing the scope gives every name the  *)
(* meaning it had when the scope was opened.                               *)
(***************************************************************************)
EXTENDS Integers, Sequences

CONSTANTS Name,     \* identifiers
          Decl,     \* what an identifier can mean
          NoEntry   \* the meaning of an identifier nothing declares

VARIABLES env,      \* env[k][x]: the meaning of x in the k-th open scope
          local     \* local[k]: the names the k-th open scope declares itself

vars == <<env, local>>

TypeOK ==
    /\ env \in Seq([Name -> Decl \cup {NoEntry}])
    /\ local \in Seq(SUBSET Name)

Init ==
    /\ env = << [x \in Name |-> NoEntry] >>
    /\ local = << {} >>

Open ==
    /\ env' = Append(env, env[Len(env)])
    /\ local' = Append(local, {})

Close ==
    /\ Len(env) > 1
    /\ env' = SubSeq(env, 1, Len(env) - 1)
    /\ local' = SubSeq(local, 1, Len(env) - 1)

Declare(x, d) ==
    /\ x \notin local[Len(env)]
    /\ env' = [env EXCEPT ![Len(env)][x] = d]
    /\ local' = [local EXCEPT ![Len(env)] = @ \cup {x}]

\* The user drops the whole environment and starts a new one.
Restart ==
    /\ env' = << [x \in Name |-> NoEntry] >>
    /\ local' = << {} >>

Next ==
    \/ Open
    \/ Close
    \/ \E x \in Name, d \in Decl : Declare(x, d)
    \/ Restart

Spec == Init /\ [][Next]_vars
===============================================================================
