---------------------------- MODULE MCBPlusTree -----------------------------
(***************************************************************************)
(* The B+ tree with small nodes: three levels of leaves of 3 and inner     *)
(* nodes of 4 keys, for TLC.                                               *)
(***************************************************************************)
EXTENDS BPlusTree

\* The tree from node a down, without addresses.
RECURSIVE Nested(_, _)
Nested(h, a) ==
  [h[a] EXCEPT !.children =
     <<>> \o [i \in DOMAIN h[a].children |-> Nested(h, h[a].children[i])]]

\* The same without its items.
RECURSIVE Outline(_)
Outline(a) ==
  LET n == nodes[a] IN
  <<n.leaf, Len(n.keys), n.cnt,
    <<>> \o [i \in DOMAIN n.children |-> Outline(n.children[i])]>>

\* Everything from node a down lies in order between lo and hi.
RECURSIVE InOrder(_, _, _)
InOrder(a, lo, hi) ==
  LET n   == nodes[a]
      end == <<lo>> \o n.keys \o <<hi>>
  IN /\ \A i \in 1..(Len(end) - 1) : end[i] < end[i + 1]
     /\ \A i \in DOMAIN n.children : InOrder(n.children[i], end[i], end[i + 1])

\* The tree up to the numbers of its items and the addresses of its nodes,
\* without the last call.  The outline says everything about a tree in order.
Canonical ==
  LET h == Renumber IN
  <<count, height, num_nodes,
    CASE root = Null -> <<>>
      [] root # Null /\ job.op # "add" /\ InOrder(root, 0, 2 * MaxCount + 2) ->
           <<"ordered", Outline(root)>>
      [] OTHER -> <<"keys", Nested(h, root)>>,
    CASE job.op = "idle" -> <<>>
      [] job.op = "add" -> <<[i \in DOMAIN job.path |-> job.path[i].pos],
                             Abstract!Renumbered(ItemSet, job.median),
                             Nested(h, job.right)>>
      [] OTHER -> [i \in DOMAIN job.path |-> job.path[i].pos]>>

=============================================================================
