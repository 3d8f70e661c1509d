----------------------------- MODULE NodeLookup -----------------------------
(***************************************************************************)
(* The in-memory tree of leaf paths (src/src/Library/Keypath/NodeLookup.ts)*)
(* reduced to the set of its leaves.  A path is a member of Key; the only  *)
(* structure of paths the operations use is Heritage: the pairs of         *)
(* distinct paths one of which is a prefix of the other.                   *)
(*                                                                         *)
(* The reduction is exact because the tree holds nothing but its leaves:   *)
(* an inner node exists only while it has a leaf below it (deleteNode      *)
(* empties the inner nodes it leaves without children).  NodeLookupTree    *)
(* has the tree, and shows that.                                           *)
(***************************************************************************)
CONSTANTS Key, Heritage

\* Sharing heritage is symmetric, and no path shares heritage with itself.
ASSUME HeritageAssumption ==
    /\ Heritage \subseteq Key \X Key
    /\ \A p, q \in Key : <<p, q>> \in Heritage => <<q, p>> \in Heritage
    /\ \A p \in Key : <<p, p>> \notin Heritage

Related(p, q) == <<p, q>> \in Heritage

\* findMatchingLeafNodes answers Ancestor or Descendants for p: some leaf is
\* a proper prefix or a proper extension of p.
SharesHeritage(leaves, p) == \E q \in leaves : Related(p, q)

\* No leaf lies below another one.
HeritageFree(leaves) == \A p, q \in leaves : ~Related(p, q)

\* addPathStrings: each path becomes a leaf.  A leaf on the way to it becomes
\* an inner node, and an inner node at its place loses its subtree.
AddLeaves(leaves, paths) == {q \in leaves : ~SharesHeritage(paths, q)} \cup paths

\* delete, for each path: the node and its subtree go; so does a leaf above
\* it, which then has no defined property.
KeepLeaves(leaves, paths) == leaves  \* mutant: delete does nothing

RemoveLeaves(leaves, paths) ==
    {q \in leaves : q \notin paths /\ ~SharesHeritage(paths, q)}
=============================================================================
