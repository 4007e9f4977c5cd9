------------------------------ MODULE ControlFlow ------------------------------
(***************************************************************************)
(* The static control-flow analysis of a plan (core/rules/structure.py).   *)
(* A graph is a function from nodes to the sequence of their successors.   *)
(***************************************************************************)
EXTENDS Sequences, FiniteSets, SequencesExt, TLC

\* A node's next, then the targets of its cases, then those of its inputs.
Successors(node) ==
  (IF "next" \in DOMAIN node THEN <<node.next>> ELSE <<>>)
  \o (IF node.kind = "branch" THEN SetToSeq(Range(node.cases)) ELSE <<>>)
  \o (IF node.kind = "wait" THEN SetToSeq(Range(node.inputs)) ELSE <<>>)

RECURSIVE ReachableFrom(_, _)
ReachableFrom(graph, seen) ==
  LET more == seen \cup UNION {Range(graph[n]) : n \in seen}
  IN IF more = seen THEN seen ELSE ReachableFrom(graph, more)

\* One depth-first walk: the rest of the targets of the last node on path.  An
\* edge back to a node being visited closes the cycle that the path spells; it
\* is kept when no bounded node is on it.
RECURSIVE Follow(_, _, _, _, _)
Follow(graph, bounded, path, targets, found) ==
  IF targets = <<>> THEN [found EXCEPT !.finished = @ \cup {Last(path)}]
  ELSE LET t == Head(targets)
           cycle == Range(SubSeq(path, SelectInSeq(path, LAMBDA n : n = t), Len(path)))
           next == CASE t \in Range(path) ->
                          IF cycle \cap bounded = {} THEN [found EXCEPT !.unbounded = @ \cup {cycle}] ELSE found
                     [] t \in found.finished -> found
                     [] OTHER -> Follow(graph, bounded, Append(path, t), graph[t], found)
       IN Follow(graph, bounded, path, Tail(targets), next)

\* The code goes on with a walk from each node, in the plan's order, that no walk
\* has been to.  The plan begins with its entry, and a plan that has nodes out of
\* reach of the entry is refused, so that the first walk is the only one.
UnboundedCycles(graph, entry, bounded) ==
  Follow(graph, bounded, <<entry>>, graph[entry], [finished |-> {}, unbounded |-> {}]).unbounded
=============================================================================
