--------------------------- MODULE NodeLookupTree ---------------------------
(***************************************************************************)
(* The tree itself of src/src/Library/Keypath/NodeLookup.ts: objects in    *)
(* objects, with null for a leaf.  `nodes' has the places that are there,  *)
(* each with what is there; a property that is undefined, as deleteNode    *)
(* leaves it, is to every function like one that is not there.  NodeLookup *)
(* reduces the tree to the set of its leaves; here is why it may.          *)
(***************************************************************************)
EXTENDS NodeLookup, Naturals, Sequences

CONSTANT Name   \* the specifiers of paths

\* p is a strict prefix of q.
Above(p, q) == Len(p) < Len(q) /\ \A i \in 1 .. Len(p) : p[i] = q[i]

ASSUME PathAssumption ==
    /\ \A p \in Key : p \in Seq(Name) /\ p # <<>>
    /\ \A p, q \in Key : <<p, q>> \in Heritage <=> Above(p, q) \/ Above(q, p)

\* The places of a tree: a path and the prefixes of it.
Place == {<<>>} \cup UNION {{SubSeq(p, 1, n) : n \in 1 .. Len(p)} : p \in Key}

VARIABLE nodes

IsObject(p) == p \in DOMAIN nodes /\ nodes[p] = "object"

Leaves == {p \in DOMAIN nodes : nodes[p] = "leaf"}

InitTree == nodes = [p \in {<<>>} |-> "object"]

\* add: what is missing, or a leaf, on the way to p becomes an object, and p a
\* leaf, whatever was there.
NothingReplaced(p) == DOMAIN nodes  \* mutant: what is below p stays

NotReplaced(p) == {q \in DOMAIN nodes : ~Above(p, q)}

Add(p) ==
    nodes' = [q \in NotReplaced(p) \cup {q \in Place : q = p \/ Above(q, p)} |->
                IF q = p THEN "leaf" ELSE IF Above(q, p) THEN "object" ELSE nodes[q]]

\* delete: p goes with what is below it, then, upwards, each object on the way
\* to it that is left without properties, and so does a leaf there.
EmptyObjectsStay(q, p) == q # p /\ ~Above(p, q)  \* mutant: no clean-up

Stays(q, p) ==
    /\ q # p /\ ~Above(p, q)
    /\ Above(q, p) /\ q # <<>> =>
          \E r \in DOMAIN nodes : Above(q, r) /\ r # p /\ ~Above(r, p) /\ ~Above(p, r)

Delete(p) == nodes' = [q \in {q \in DOMAIN nodes : Stays(q, p)} |-> nodes[q]]

Clear == nodes' = [p \in {<<>>} |-> "object"]

NextTree == Clear \/ \E p \in Key : Add(p) \/ Delete(p)

SpecTree == InitTree /\ [][NextTree]_nodes

-----------------------------------------------------------------------------

\* findMatchingLeafNodes walks from the root while it meets objects; where it
\* cannot go on there is a leaf or nothing.
StopsAtGaps(p) ==  \* mutant: leaves are passed
    {q \in Place : (q = p \/ Above(q, p)) /\ q \notin DOMAIN nodes}

Stops(p) == {q \in Place : (q = p \/ Above(q, p)) /\ ~IsObject(q)}

MatchingLeaf(p) == {q \in Leaves : q \in Stops(p) /\ \A r \in Stops(p) : ~Above(r, q)}

MatchType(p) ==
    CASE Stops(p) = {} -> "Descendants"
      [] MatchingLeaf(p) = {p} -> "Exact"
      [] MatchingLeaf(p) \notin {{}, {p}} -> "Ancestor"
      [] OTHER -> "None"

FindMatchingLeafNodes(p) ==
    IF MatchType(p) = "Descendants" THEN {q \in Leaves : Above(p, q)} ELSE MatchingLeaf(p)

-----------------------------------------------------------------------------

\* The objects make up a tree: whatever is there, objects lead to, nothing is
\* below a leaf, and no object but the root is empty.
TreeOK ==
    /\ nodes \in [DOMAIN nodes -> {"object", "leaf"}]
    /\ DOMAIN nodes \subseteq Place
    /\ IsObject(<<>>) /\ Leaves \subseteq Key
    /\ \A q \in DOMAIN nodes, p \in Place : Above(p, q) => IsObject(p)
    /\ \A p \in DOMAIN nodes : IsObject(p) /\ p # <<>> => \E q \in Leaves : Above(p, q)

\* add, delete and clear do to the leaves what NodeLookup says, with which all
\* other modules work: nothing of the tree's history but its leaves matters.
StepsAsLeafSet ==
    [][/\ \A p \in Key :
            /\ Add(p) => Leaves' = AddLeaves(Leaves, {p})
            /\ Delete(p) => Leaves' = RemoveLeaves(Leaves, {p})
       /\ Clear => Leaves' = {}]_nodes

\* The search of a path finds the leaves that it is, or shares heritage with,
\* and tells the two apart: an inner node that was left over would make a path
\* unusable, with no leaf to show for it.
FindsMatchingLeaves ==
    \A p \in Key :
        /\ FindMatchingLeafNodes(p) = {q \in Leaves : q = p \/ Related(p, q)}
        /\ (MatchType(p) \in {"Ancestor", "Descendants"}) <=> SharesHeritage(Leaves, p)
=============================================================================
