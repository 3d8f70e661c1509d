------------------------ MODULE Representations_proofs ------------------------
(***************************************************************************)
(* The tree of a lookup implements the set of its leaves, for any names    *)
(* and any set of paths of any lengths; files of entries, of any length,   *)
(* come back from their bytes; and texts stand for their paths, whatever   *)
(* letters are in the names.                                               *)
(***************************************************************************)
EXTENDS Representations, Integers, FiniteSetTheorems, SequenceTheorems, WellFoundedInduction, TLAPS

\* Heritage, between the paths a lookup is given, is what Above says.
LEMMA RelatedIsAbove ==
    ASSUME NEW p \in Key, NEW q \in Key
    PROVE  Related(p, q) <=> Above(p, q) \/ Above(q, p)
  BY PathAssumption DEF Related

LEMMA PrefixIsSeq ==
    ASSUME NEW p \in Seq(Name), NEW n \in 1 .. Len(p)
    PROVE  SubSeq(p, 1, n) \in Seq(Name)
  OBVIOUS

LEMMA PlacesAreSequences == Place \subseteq Seq(Name)
<1>1. \A p \in Key : p \in Seq(Name)
  BY PathAssumption
<1>2. <<>> \in Seq(Name)
  OBVIOUS
<1>3. ASSUME NEW q \in Place PROVE q \in Seq(Name)
  <2>1. CASE q = <<>>
    BY <1>2, <2>1
  <2>2. CASE q # <<>>
    <3>1. PICK p \in Key : q \in {SubSeq(p, 1, n) : n \in 1 .. Len(p)}
      BY <2>2, Zenon DEF Place
    <3>2. PICK n \in 1 .. Len(p) : q = SubSeq(p, 1, n)
      BY <3>1, Zenon
    <3> QED
      BY <1>1, <3>2, PrefixIsSeq
  <2> QED
    BY <2>1, <2>2
<1> QED
  BY <1>3

LEMMA KeysArePlaces == ASSUME NEW p \in Key PROVE p \in Place /\ p # <<>>
<1>1. p \in Seq(Name) /\ p # <<>>
  BY PathAssumption
<1>2. Len(p) \in 1 .. Len(p)
  BY <1>1
<1>3. SubSeq(p, 1, Len(p)) = p
  BY <1>1, SMT
<1>4. p \in {SubSeq(p, 1, n) : n \in 1 .. Len(p)}
  BY <1>2, <1>3, Zenon
<1>5. p \in Place
  BY <1>4, Zenon DEF Place
<1> QED
  BY <1>1, <1>5

LEMMA LenOfPlaces == \A p \in Place : Len(p) \in Nat /\ (Len(p) = 0 <=> p = <<>>)
<1>1. \A p \in Seq(Name) : Len(p) \in Nat /\ (Len(p) = 0 <=> p = <<>>)
  OBVIOUS
<1> QED
  BY <1>1, PlacesAreSequences

\* Being above is a strict order in which what is above a place is a chain,
\* and the root is above all.
LEMMA AboveIsOrder ==
    ASSUME NEW x \in Place, NEW y \in Place, NEW z \in Place
    PROVE  /\ ~Above(x, x)
           /\ Above(x, y) /\ Above(y, z) => Above(x, z)
           /\ Above(x, y) => ~Above(y, x) /\ y # <<>>
           /\ Above(x, z) /\ Above(y, z) /\ x # y => Above(x, y) \/ Above(y, x)
           /\ x # <<>> => Above(<<>>, x)
<1>1. Len(x) \in Nat /\ Len(y) \in Nat /\ Len(z) \in Nat /\ Len(<<>>) = 0
  BY LenOfPlaces
<1>2. ~Above(x, x)
  BY <1>1 DEF Above
<1>3. Above(x, y) /\ Above(y, z) => Above(x, z)
  BY <1>1 DEF Above
<1>4. Above(x, y) => ~Above(y, x) /\ y # <<>>
  BY <1>1 DEF Above
<1>5. ASSUME Above(x, z), Above(y, z), x # y PROVE Above(x, y) \/ Above(y, x)
  <2>1. CASE Len(x) < Len(y)
    BY <1>1, <1>5, <2>1 DEF Above
  <2>2. CASE Len(y) < Len(x)
    BY <1>1, <1>5, <2>2 DEF Above
  <2>3. CASE Len(x) = Len(y)
    <3>1. \A i \in 1 .. Len(x) : x[i] = y[i]
      BY <1>1, <1>5, <2>3 DEF Above
    <3>2. x \in Seq(Name) /\ y \in Seq(Name)
      BY PlacesAreSequences
    <3> QED
      BY <1>5, <2>3, <3>1, <3>2
  <2> QED
    BY <1>1, <2>1, <2>2, <2>3
<1>6. x # <<>> => Above(<<>>, x)
  BY <1>1, LenOfPlaces DEF Above
<1> QED
  BY <1>2, <1>3, <1>4, <1>5, <1>6

LEMMA RootIsPlace == <<>> \in Place
  BY DEF Place

-----------------------------------------------------------------------------

LEMMA TreeAtFirst == InitTree => TreeOK
  BY RootIsPlace, AboveIsOrder DEF InitTree, TreeOK, IsObject, Leaves

LEMMA ClearKeepsTree == Clear => TreeOK'
  BY RootIsPlace, AboveIsOrder DEF Clear, TreeOK, IsObject, Leaves

\* The effect of add, place by place.
LEMMA AddIs ==
    ASSUME TreeOK, NEW p \in Key, Add(p)
    PROVE  /\ DOMAIN nodes' = NotReplaced(p) \cup {q \in Place : q = p \/ Above(q, p)}
           /\ \A q \in DOMAIN nodes' :
                nodes'[q] = IF q = p THEN "leaf" ELSE IF Above(q, p) THEN "object" ELSE nodes[q]
           /\ nodes' = [q \in DOMAIN nodes' |-> nodes'[q]]
  BY DEF Add

LEMMA AddKeepsTree == ASSUME TreeOK, NEW p \in Key, Add(p) PROVE TreeOK'
<1> USE AddIs, KeysArePlaces, RootIsPlace
<1>0. DOMAIN nodes \subseteq Place /\ NotReplaced(p) \subseteq DOMAIN nodes /\ ~Above(p, p)
  BY AboveIsOrder DEF TreeOK, NotReplaced
<1>1. DOMAIN nodes' \subseteq Place
  BY <1>0
<1>2. nodes' \in [DOMAIN nodes' -> {"object", "leaf"}]
  <2>1. \A q \in DOMAIN nodes : nodes[q] \in {"object", "leaf"}
    BY DEF TreeOK
  <2>2. \A q \in DOMAIN nodes' : nodes'[q] \in {"object", "leaf"}
    BY <1>0, <2>1
  <2> QED
    BY <2>2
<1>3. IsObject(<<>>)'
  BY AboveIsOrder DEF IsObject
<1>4. Leaves' \subseteq Key
  BY <1>0 DEF Leaves, TreeOK
<1>5. ASSUME NEW q \in DOMAIN nodes', NEW x \in Place, Above(x, q) PROVE IsObject(x)'
  <2>1. CASE q = p \/ Above(q, p)
    <3>1. Above(x, p) /\ x # p
      BY <1>1, <1>5, <2>1, AboveIsOrder
    <3> QED
      BY <3>1 DEF IsObject
  <2>2. CASE ~(q = p \/ Above(q, p))
    <3>1. q \in DOMAIN nodes /\ q \in Place /\ ~Above(p, q)
      BY <1>0, <2>2 DEF NotReplaced
    <3>2. x \in DOMAIN nodes /\ nodes[x] = "object"
      BY <1>5, <3>1 DEF TreeOK, IsObject
    <3>3. ~Above(p, x) /\ x # p
      BY <1>5, <3>1, AboveIsOrder
    <3> QED
      BY <3>2, <3>3 DEF IsObject, NotReplaced
  <2> QED
    BY <2>1, <2>2
<1>6. ASSUME NEW x \in DOMAIN nodes', IsObject(x)', x # <<>>
      PROVE  \E q \in Leaves' : Above(x, q)
  <2>1. CASE Above(x, p)
    BY <2>1 DEF Leaves
  <2>2. CASE ~Above(x, p)
    <3>1. x # p /\ x \in DOMAIN nodes /\ ~Above(p, x) /\ nodes[x] = "object" /\ x \in Place
      BY <1>0, <1>6, <2>2 DEF IsObject, NotReplaced
    <3>2. PICK s \in Leaves : Above(x, s)
      BY <1>6, <3>1 DEF TreeOK, IsObject
    <3>3. s \in Place /\ s \in DOMAIN nodes /\ nodes[s] = "leaf"
      BY <1>0 DEF Leaves
    <3>4. ~Above(p, s) /\ s # p /\ ~Above(s, p)
      BY <2>2, <3>1, <3>2, <3>3, AboveIsOrder
    <3>5. s \in Leaves'
      BY <3>3, <3>4 DEF Leaves, NotReplaced
    <3> QED
      BY <3>2, <3>5
  <2> QED
    BY <2>1, <2>2
<1> QED
  BY <1>1, <1>2, <1>3, <1>4, <1>5, <1>6 DEF TreeOK

\* A node off the way to p is left alone by a deletion.
LEMMA OffTheWayStays ==
    ASSUME NEW q, NEW p, q # p, ~Above(p, q), ~Above(q, p)
    PROVE  Stays(q, p)
  BY DEF Stays

LEMMA DeleteIs ==
    ASSUME NEW p \in Key, Delete(p)
    PROVE  /\ DOMAIN nodes' = {q \in DOMAIN nodes : Stays(q, p)}
           /\ \A q \in DOMAIN nodes' : nodes'[q] = nodes[q]
           /\ nodes' = [q \in DOMAIN nodes' |-> nodes'[q]]
  BY DEF Delete

\* What is below an object that is neither on the way to p nor below p stays.
LEMMA LeafOffTheWay ==
    ASSUME TreeOK, NEW p \in Key, NEW r \in DOMAIN nodes,
           r # p, ~Above(r, p), ~Above(p, r), r # <<>>
    PROVE  \E s \in Leaves : (s = r \/ Above(r, s)) /\ Stays(s, p)
<1>1. r \in Place /\ p \in Place
  BY KeysArePlaces DEF TreeOK
<1>2. CASE r \in Leaves
  BY <1>2, OffTheWayStays
<1>3. CASE r \notin Leaves
  <2>1. PICK s \in Leaves : Above(r, s)
    BY <1>3 DEF TreeOK, IsObject, Leaves
  <2>2. s \in Place
    BY DEF TreeOK, Leaves
  <2>3. s # p /\ ~Above(p, s) /\ ~Above(s, p)
    BY <1>1, <2>1, <2>2, AboveIsOrder
  <2> QED
    BY <2>1, <2>3, OffTheWayStays
<1> QED
  BY <1>2, <1>3

LEMMA DeleteKeepsTree == ASSUME TreeOK, NEW p \in Key, Delete(p) PROVE TreeOK'
<1> USE DeleteIs, KeysArePlaces, RootIsPlace
<1>0. DOMAIN nodes \subseteq Place /\ DOMAIN nodes' \subseteq DOMAIN nodes
  BY DEF TreeOK
<1>1. nodes' \in [DOMAIN nodes' -> {"object", "leaf"}]
  <2>1. \A q \in DOMAIN nodes : nodes[q] \in {"object", "leaf"}
    BY DEF TreeOK
  <2> QED
    BY <1>0, <2>1
<1>2. IsObject(<<>>)'
  <2>1. Stays(<<>>, p)
    BY AboveIsOrder DEF Stays
  <2> QED
    BY <2>1 DEF IsObject, TreeOK
<1>3. Leaves' \subseteq Leaves
  BY <1>0 DEF Leaves
<1>4. ASSUME NEW q \in DOMAIN nodes', NEW x \in Place, Above(x, q) PROVE IsObject(x)'
  <2>1. q \in DOMAIN nodes /\ q \in Place /\ Stays(q, p) /\ q # <<>>
    BY <1>0, <1>4, AboveIsOrder
  <2>2. x \in DOMAIN nodes /\ nodes[x] = "object"
    BY <1>4, <2>1 DEF TreeOK, IsObject
  <2>3. q # p /\ ~Above(p, q)
    BY <2>1 DEF Stays
  <2>4. x # p /\ ~Above(p, x)
    BY <1>4, <2>1, <2>3, AboveIsOrder
  <2>5. ASSUME Above(x, p)
        PROVE  \E r \in DOMAIN nodes : Above(x, r) /\ r # p /\ ~Above(r, p) /\ ~Above(p, r)
    <3>1. CASE ~Above(q, p)
      BY <1>4, <2>1, <2>3, <3>1
    <3>2. CASE Above(q, p)
      <4>1. PICK r \in DOMAIN nodes : Above(q, r) /\ r # p /\ ~Above(r, p) /\ ~Above(p, r)
        BY <2>1, <3>2 DEF Stays
      <4> QED
        BY <1>0, <1>4, <2>1, <4>1, AboveIsOrder
    <3> QED
      BY <3>1, <3>2
  <2>6. Stays(x, p)
    BY <2>4, <2>5 DEF Stays
  <2> QED
    BY <2>2, <2>6 DEF IsObject
<1>5. ASSUME NEW x \in DOMAIN nodes', IsObject(x)', x # <<>>
      PROVE  \E q \in Leaves' : Above(x, q)
  <2>1. x \in DOMAIN nodes /\ x \in Place /\ nodes[x] = "object" /\ Stays(x, p)
    BY <1>0, <1>5 DEF IsObject
  <2>2. x # p /\ ~Above(p, x)
    BY <2>1 DEF Stays
  <2>3. \E s \in Leaves : Above(x, s) /\ Stays(s, p)
    <3>1. CASE ~Above(x, p)
      <4>1. PICK s \in Leaves : (s = x \/ Above(x, s)) /\ Stays(s, p)
        BY <1>5, <2>1, <2>2, <3>1, LeafOffTheWay
      <4> QED
        BY <2>1, <4>1 DEF Leaves
    <3>2. CASE Above(x, p)
      <4>1. PICK r \in DOMAIN nodes : Above(x, r) /\ r # p /\ ~Above(r, p) /\ ~Above(p, r)
        BY <1>5, <2>1, <3>2 DEF Stays
      <4>2. r \in Place /\ r # <<>>
        BY <1>0, <2>1, <4>1, AboveIsOrder
      <4>3. PICK s \in Leaves : (s = r \/ Above(r, s)) /\ Stays(s, p)
        BY <4>1, <4>2, LeafOffTheWay
      <4>4. s \in Place
        BY <1>0 DEF Leaves
      <4> QED
        BY <2>1, <4>1, <4>2, <4>3, <4>4, AboveIsOrder
    <3> QED
      BY <3>1, <3>2
  <2> QED
    BY <2>3 DEF Leaves
<1> QED
  BY <1>0, <1>1, <1>2, <1>3, <1>4, <1>5 DEF TreeOK

\* What a behaviour does not change of the tree, it leaves alone.
LEMMA StepsOfTree == [Next]_representationVars => [NextTree]_nodes
  BY DEF Next, ChangeLookup, ChangeFile, representationVars

\* The tree stays one, whatever is added and deleted: no inner node is left
\* without a leaf below it, and none is below a leaf.
THEOREM TreeStaysTree == Spec => []TreeOK
<1>1. Init => TreeOK
  BY TreeAtFirst DEF Init
<1>2. TreeOK /\ [Next]_representationVars => TreeOK'
  <2>1. TreeOK /\ UNCHANGED nodes => TreeOK'
    BY DEF TreeOK, IsObject, Leaves
  <2>2. [Next]_representationVars => [NextTree]_nodes
    BY StepsOfTree
  <2> QED
    BY <2>1, <2>2, AddKeepsTree, DeleteKeepsTree, ClearKeepsTree DEF NextTree
<1> QED
  BY <1>1, <1>2, PTL DEF Spec
-----------------------------------------------------------------------------

LEMMA AddToLeaves ==
    ASSUME TreeOK, NEW p \in Key, Add(p)
    PROVE  Leaves' = AddLeaves(Leaves, {p})
<1> USE AddIs, KeysArePlaces
<1>1. ASSUME NEW q \in Leaves' PROVE q \in AddLeaves(Leaves, {p})
  <2>1. CASE q = p
    BY <2>1 DEF AddLeaves
  <2>2. CASE q # p
    <3>1. q \in Leaves /\ ~Above(p, q) /\ ~Above(q, p)
      BY <2>2 DEF Leaves, NotReplaced
    <3>2. ~Related(p, q)
      BY <3>1, RelatedIsAbove DEF TreeOK
    <3>3. ~Related(q, p)
      BY <3>1, RelatedIsAbove DEF TreeOK
    <3> QED
      BY <3>1, <3>2, <3>3 DEF AddLeaves, SharesHeritage
  <2> QED
    BY <2>1, <2>2
<1>2. ASSUME NEW q \in AddLeaves(Leaves, {p}) PROVE q \in Leaves'
  <2>1. CASE q = p
    BY <2>1 DEF Leaves
  <2>2. CASE q # p
    <3>1. q \in Leaves /\ q \in Key /\ ~Related(q, p)
      BY <2>2 DEF AddLeaves, SharesHeritage, TreeOK
    <3>2. ~Above(p, q) /\ ~Above(q, p)
      BY <3>1, RelatedIsAbove
    <3> QED
      BY <2>2, <3>1, <3>2 DEF Leaves, NotReplaced
  <2> QED
    BY <2>1, <2>2
<1> QED
  BY <1>1, <1>2

LEMMA DeleteFromLeaves ==
    ASSUME TreeOK, NEW p \in Key, Delete(p)
    PROVE  Leaves' = RemoveLeaves(Leaves, {p})
<1>1. Leaves' = {q \in Leaves : Stays(q, p)}
  BY DeleteIs DEF Leaves
<1>2. ASSUME NEW q \in Leaves
      PROVE  Stays(q, p) <=> q # p /\ ~Above(p, q) /\ ~Above(q, p)
  <2>1. q \in Key /\ q \in Place /\ q # <<>> /\ ~IsObject(q)
    BY KeysArePlaces DEF TreeOK, Leaves, IsObject
  <2>2. ~\E r \in DOMAIN nodes : Above(q, r)
    BY <2>1 DEF TreeOK
  <2> QED
    BY <2>1, <2>2 DEF Stays
<1>3. ASSUME NEW q \in Leaves
      PROVE  q \in RemoveLeaves(Leaves, {p}) <=> q # p /\ ~Above(p, q) /\ ~Above(q, p)
  BY RelatedIsAbove DEF RemoveLeaves, SharesHeritage, TreeOK
<1>4. RemoveLeaves(Leaves, {p}) \subseteq Leaves
  BY DEF RemoveLeaves
<1> QED
  BY <1>1, <1>2, <1>3, <1>4

\* What add, delete and clear do to the tree, they do to the set of its leaves
\* as NodeLookup has it: the models of the database, which have that set only,
\* leave nothing out.
THEOREM TreeImplementsLeafSet == Spec => StepsAsLeafSet
<1>1. TreeOK /\ [NextTree]_nodes =>
        [/\ \A p \in Key :
              /\ Add(p) => Leaves' = AddLeaves(Leaves, {p})
              /\ Delete(p) => Leaves' = RemoveLeaves(Leaves, {p})
         /\ Clear => Leaves' = {}]_nodes
  <2>1. Clear => Leaves' = {}
    BY DEF Clear, Leaves
  <2> QED
    BY <2>1, AddToLeaves, DeleteFromLeaves
<1> QED
  BY <1>1, StepsOfTree, TreeStaysTree, PTL DEF Spec, StepsAsLeafSet

-----------------------------------------------------------------------------

LEMMA WholeWayOfObjects ==
    ASSUME TreeOK, NEW p \in Key, Stops(p) = {}
    PROVE  /\ IsObject(p)
           /\ \A q \in Leaves : q # p /\ ~Above(q, p)
           /\ \E q \in Leaves : Above(p, q)
<1>1. IsObject(p)
  BY KeysArePlaces DEF Stops
<1>2. ASSUME NEW q \in Leaves PROVE q # p /\ ~Above(q, p)
  BY <1>1 DEF Stops, Leaves, IsObject, TreeOK
<1>3. \E q \in Leaves : Above(p, q)
  BY <1>1, KeysArePlaces DEF TreeOK, IsObject
<1> QED
  BY <1>1, <1>2, <1>3

LEMMA WayThatStops ==
    ASSUME TreeOK, NEW p \in Key, Stops(p) # {}
    PROVE  /\ MatchingLeaf(p) = {q \in Leaves : q = p \/ Above(q, p)}
           /\ \A q \in Leaves : ~Above(p, q)
<1>1. ASSUME NEW q \in Leaves, q = p \/ Above(q, p)
      PROVE  q \in Stops(p) /\ \A r \in Stops(p) : ~Above(r, q)
  <2>1. q \in Place /\ ~IsObject(q)
    BY DEF Leaves, IsObject, TreeOK
  <2>2. \A r \in Place : Above(r, q) => IsObject(r)
    BY DEF TreeOK, Leaves
  <2> QED
    BY <1>1, <2>1, <2>2 DEF Stops
<1>2. MatchingLeaf(p) = {q \in Leaves : q = p \/ Above(q, p)}
  BY <1>1 DEF MatchingLeaf, Stops
<1>3. ASSUME NEW q \in Leaves, Above(p, q) PROVE FALSE
  <2>1. PICK r \in Place : (r = p \/ Above(r, p)) /\ ~IsObject(r)
    BY DEF Stops
  <2>2. q \in Place /\ q \in DOMAIN nodes
    BY DEF Leaves, TreeOK
  <2>3. Above(r, q)
    BY <1>3, <2>1, <2>2, KeysArePlaces, AboveIsOrder
  <2> QED
    BY <2>1, <2>2, <2>3 DEF TreeOK
<1> QED
  BY <1>2, <1>3

\* In any tree that is one, the search of a path finds exactly the leaves that
\* are the path or share heritage with it.
LEMMA TreeFindsLeaves == TreeOK => FindsMatchingLeaves
<1> SUFFICES ASSUME TreeOK, NEW p \in Key
             PROVE  /\ FindMatchingLeafNodes(p) = {q \in Leaves : q = p \/ Related(p, q)}
                    /\ (MatchType(p) \in {"Ancestor", "Descendants"}) <=> SharesHeritage(Leaves, p)
  BY DEF FindsMatchingLeaves
<1>1. \A q \in Leaves : (Related(p, q) <=> Above(p, q) \/ Above(q, p))
                       /\ (Related(q, p) <=> Above(p, q) \/ Above(q, p))
  BY RelatedIsAbove DEF TreeOK
<1>2. SharesHeritage(Leaves, p) <=> \E q \in Leaves : Above(p, q) \/ Above(q, p)
  BY <1>1 DEF SharesHeritage
<1>3. CASE Stops(p) = {}
  <2>0. MatchingLeaf(p) = {}
    BY <1>3 DEF MatchingLeaf
  <2>1. MatchType(p) = "Descendants"
    BY <1>3, <2>0 DEF MatchType
  <2> QED
    BY <1>1, <1>2, <1>3, <2>1, WholeWayOfObjects DEF FindMatchingLeafNodes
<1>4. CASE Stops(p) # {}
  <2>1. MatchType(p) # "Descendants"
    BY <1>4 DEF MatchType
  <2>2. MatchType(p) = "Ancestor" <=> MatchingLeaf(p) # {} /\ MatchingLeaf(p) # {p}
    BY <1>4 DEF MatchType
  <2>3. FindMatchingLeafNodes(p) = MatchingLeaf(p)
    BY <2>1 DEF FindMatchingLeafNodes
  <2>4. /\ MatchingLeaf(p) = {q \in Leaves : q = p \/ Above(q, p)}
        /\ \A q \in Leaves : ~Above(p, q)
    BY <1>4, WayThatStops
  <2>5. ~Above(p, p)
    BY KeysArePlaces, AboveIsOrder
  <2>6. MatchType(p) = "Ancestor" <=> \E q \in Leaves : Above(q, p)
    <3>1. MatchType(p) = "Ancestor" <=> \E q \in MatchingLeaf(p) : q # p
      BY <2>2
    <3>2. ASSUME NEW q \in Leaves, Above(q, p) PROVE q # p /\ q \in MatchingLeaf(p)
      BY <2>4, <2>5, <3>2
    <3>3. ASSUME NEW q \in MatchingLeaf(p), q # p PROVE q \in Leaves /\ Above(q, p)
      BY <2>4, <3>3
    <3> QED
      BY <3>1, <3>2, <3>3
  <2> QED
    BY <1>1, <1>2, <2>1, <2>3, <2>4, <2>6
<1> QED
  BY <1>3, <1>4

\* The search of a path finds the leaves that are the path or share heritage
\* with it, and tells which of the two, after any additions and deletions.
THEOREM SearchIsExact == Spec => []FindsMatchingLeaves
  BY TreeStaysTree, TreeFindsLeaves, PTL
-----------------------------------------------------------------------------

(***************************************************************************)
(* The fields of a header.                                                 *)
(***************************************************************************)

\* Induction: what fails fails first somewhere.
LEMMA LeastNumber ==
    ASSUME NEW T \in SUBSET Nat, T # {}
    PROVE  \E m \in T : \A t \in T : m <= t
<1> DEFINE less == OpToRel(<, Nat)
<1>1. PICK m \in T : \A t \in T : <<t, m>> \notin less
  <2> HIDE DEF less
  <2>1. IsWellFoundedOn(less, Nat)
    BY NatLessThanWellFounded DEF less
  <2> QED BY <2>1, WFMin
<1>2. \A t \in T : ~(t < m)
  BY <1>1 DEF OpToRel
<1> QED BY <1>2

\* Fields have room for numbers below 2^64, from two halves.
LEMMA HalvesMakeWhole ==
    ASSUME NEW n \in Nat, n < Word * Word
    PROVE  Whole(Halves(n)) = n
<1> DEFINE q == n \div Word
           r == n % Word
<1>1. Word \in Nat /\ Word > 0
  BY FieldAssumption
<1>2. q \in Int /\ r \in Int /\ n = Word * q + r /\ 0 <= r /\ r < Word
  BY <1>1
<1>3. 0 <= q
  <2> HIDE DEF q, r
  <2>1. Word * q > 0 - Word
    BY <1>1, <1>2
  <2> QED BY <1>1, <1>2, <2>1
<1>4. q < Word
  <2> HIDE DEF q, r
  <2> SUFFICES ASSUME q >= Word PROVE FALSE
    BY <1>1, <1>2
  <2>1. Word * q >= Word * Word
    BY <1>1, <1>2
  <2> QED BY <1>1, <1>2, <2>1
<1>5. q % Word = q
  <2> HIDE DEF q, r
  <2> QED BY <1>1, <1>2, <1>3, <1>4
<1>6. Halves(n) = <<r, q>>
  BY <1>5 DEF Halves
<1> HIDE DEF q, r
<1> QED BY <1>1, <1>2, <1>6 DEF Whole

(***************************************************************************)
(* The cells of one entry.                                                 *)
(***************************************************************************)
Vector == IV \cup {NoKey}

KeyCells(entry, iv) == IF iv = NoKey THEN entry.key ELSE Encrypt(entry.key, ZeroBlock)

ValueCells(entry, iv) ==
    IF iv = NoKey \/ entry.value.cells = <<>> THEN entry.value.cells
    ELSE <<<<"iv", iv>>>> \o Encrypt(entry.value.cells, iv)

Fields(entry, iv, commitTime, first) ==
    [totalSize |-> Halves(HeaderByteSize + Len(KeyCells(entry, iv)) + Len(ValueCells(entry, iv))),
     keySize |-> Len(KeyCells(entry, iv)) % KeySizeLimit,
     valueEncoding |-> entry.value.encoding,
     encryptionMethod |-> IF iv = NoKey THEN "None" ELSE "AES_CBC_128",
     flags |-> IF first THEN "HeadEntry" ELSE "None",
     updateTime |-> Halves(entry.updateTime), commitTime |-> Halves(commitTime)]

Chunk(entry, iv, commitTime, first) == Stamped(SerializeEntry(entry, iv), commitTime, first)

BodyCell ==
    TextCell \cup {<<"cipher", cells, iv>> : cells \in Seq(TextCell), iv \in Vector \cup {ZeroBlock}}
             \cup {<<"iv", iv>> : iv \in Vector}

Cell == BodyCell \cup {<<"checksums">>}
                 \cup {<<"header", Fields(e, iv, t, first)>> : e \in Entry, iv \in Vector, t \in Nat, first \in BOOLEAN}

\* A sequence of cells that is laid out as an entry is.
IsChunk(chunk, entry, iv, commitTime, first) ==
    LET k == KeyCells(entry, iv)
        v == ValueCells(entry, iv)
    IN  /\ chunk \in Seq(Cell) /\ Len(chunk) = 2 + Len(k) + Len(v)
        /\ chunk[1] = <<"header", Fields(entry, iv, commitTime, first)>>
        /\ chunk[2] = <<"checksums">>
        /\ \A i \in 1 .. Len(k) : chunk[2 + i] = k[i]
        /\ \A i \in 1 .. Len(v) : chunk[2 + Len(k) + i] = v[i]

\* What AES or the code made of a key and a value fits the fields for their sizes.
LEMMA BodyCells ==
    ASSUME NEW entry \in Entry, NEW iv \in Vector
    PROVE  /\ KeyCells(entry, iv) \in Seq(BodyCell)
           /\ ValueCells(entry, iv) \in Seq(BodyCell)
           /\ Len(KeyCells(entry, iv)) < KeySizeLimit
           /\ 2 + Len(KeyCells(entry, iv)) + Len(ValueCells(entry, iv)) < Word * Word
<1>1. entry.key \in Seq(TextCell) /\ entry.value.cells \in Seq(TextCell) /\ Len(entry.key) < KeySizeLimit
      /\ 2 + Len(entry.key) + Len(entry.value.cells) < Word * Word
  <2>1. entry.key \in Seq(TextCell) /\ entry.value.cells \in Seq(TextCell)
        /\ Len(entry.key) + BlockSize < KeySizeLimit
        /\ 2 + Len(entry.key) + Len(entry.value.cells) < Word * Word
    BY EntryAssumption, SizeAssumption DEF HeaderByteSize
  <2>2. BlockSize \in Nat /\ KeySizeLimit \in Nat
    BY FieldAssumption
  <2>3. Len(entry.key) < KeySizeLimit
    <3>1. PICK n \in Nat : n = Len(entry.key)
      BY <2>1
    <3>2. n + BlockSize < KeySizeLimit
      BY <2>1, <3>1
    <3> QED BY <2>2, <3>1, <3>2
  <2> QED BY <2>1, <2>3
<1>2. \A s \in Seq(TextCell) : s \in Seq(BodyCell)
  BY DEF BodyCell
<1>3. \A cells \in Seq(TextCell), v \in Vector \cup {ZeroBlock} :
         Encrypt(cells, v) \in Seq(BodyCell) /\ Len(Encrypt(cells, v)) = 1
  BY DEF Encrypt, BodyCell
<1>4. <<<<"iv", iv>>>> \in Seq(BodyCell) /\ Len(<<<<"iv", iv>>>>) = 1
  BY DEF BodyCell
<1>5. KeyCells(entry, iv) \in Seq(BodyCell)
  BY <1>1, <1>2, <1>3 DEF KeyCells
<1>6. ValueCells(entry, iv) \in Seq(BodyCell)
  BY <1>1, <1>2, <1>3, <1>4 DEF ValueCells
<1>7. Len(KeyCells(entry, iv)) < KeySizeLimit
  BY <1>1, <1>3, FieldAssumption DEF KeyCells
<1>8. Word * Word > 5
  <2>1. Word \in Nat /\ Word >= 3
    BY FieldAssumption
  <2>2. Word * Word >= 3 * Word
    BY <2>1
  <2> QED BY <2>1, <2>2
<1>9. 2 + Len(KeyCells(entry, iv)) + Len(ValueCells(entry, iv)) < Word * Word
  <2>1. CASE iv = NoKey
    BY <1>1, <2>1 DEF KeyCells, ValueCells
  <2>2. CASE iv # NoKey
    <3>1. Len(KeyCells(entry, iv)) = 1
      BY <1>1, <1>3, <2>2 DEF KeyCells
    <3>2. Len(ValueCells(entry, iv)) \in {0, 2}
      <4>1. CASE entry.value.cells = <<>>
        BY <4>1 DEF ValueCells
      <4>2. CASE entry.value.cells # <<>>
        <5> DEFINE c == Encrypt(entry.value.cells, iv)
        <5>1. c \in Seq(BodyCell) /\ Len(c) = 1
          BY <1>1, <1>3
        <5> HIDE DEF c
        <5>2. Len(<<<<"iv", iv>>>> \o c) = 2
          <6> DEFINE i == <<<<"iv", iv>>>>
          <6>1. i \in Seq(BodyCell) /\ Len(i) = 1
            BY <1>4
          <6> HIDE DEF i
          <6>2. Len(i \o c) = 1 + 1
            BY <5>1, <6>1, ConcatProperties
          <6> QED BY <6>2 DEF i
        <5> QED BY <2>2, <4>2, <5>2 DEF ValueCells, c
      <4> QED BY <4>1, <4>2
    <3>3. PICK n \in Nat : n = Word * Word
      BY FieldAssumption
    <3>4. n > 5 /\ \A l \in {0, 2} : 2 + 1 + l < n
      BY <1>8, <3>3
    <3> QED BY <3>1, <3>2, <3>3, <3>4
  <2> QED BY <2>1, <2>2
<1> QED BY <1>5, <1>6, <1>7, <1>9

LEMMA SmallerSeq ==
    ASSUME NEW S, NEW T, NEW s \in Seq(T), \A i \in 1 .. Len(s) : s[i] \in S
    PROVE  s \in Seq(S)
  OBVIOUS

\* What the server appends for an entry.
LEMMA ChunkIsChunk ==
    ASSUME NEW entry \in Entry, NEW iv \in Vector, NEW commitTime \in Nat, NEW first \in BOOLEAN
    PROVE  IsChunk(Chunk(entry, iv, commitTime, first), entry, iv, commitTime, first)
<1> DEFINE k == KeyCells(entry, iv)
           v == ValueCells(entry, iv)
           sent == [totalSize |-> Halves(HeaderByteSize + Len(k) + Len(v)),
                    keySize |-> Len(k) % KeySizeLimit,
                    valueEncoding |-> entry.value.encoding,
                    encryptionMethod |-> IF iv = NoKey THEN "None" ELSE "AES_CBC_128",
                    flags |-> "None",
                    updateTime |-> Halves(entry.updateTime), commitTime |-> Halves(0)]
           h == [sent EXCEPT !.commitTime = Halves(commitTime), !.flags = IF first THEN "HeadEntry" ELSE "None"]
           head == <<<<"header", sent>>, <<"checksums">>>>
           AllCells == Cell \cup {<<"header", sent>>}
           hk == head \o k
           bytes == hk \o v
           h1 == <<<<"header", h>>>>
           c == h1 \o Tail(bytes)
<1>1. SerializeEntry(entry, iv) = bytes
  BY DEF SerializeEntry, KeyCells, ValueCells
<1>2. h = Fields(entry, iv, commitTime, first)
  <2> DEFINE fl == IF first THEN "HeadEntry" ELSE "None"
             ct == Halves(commitTime)
             names == {"totalSize", "keySize", "valueEncoding", "encryptionMethod", "flags", "updateTime", "commitTime"}
  <2>1. names = DOMAIN sent
    OBVIOUS
  <2>2. h = [x \in DOMAIN sent |-> IF x = "flags" THEN fl ELSE IF x = "commitTime" THEN ct ELSE sent[x]]
    <3>1. h = [sent EXCEPT !.commitTime = ct, !.flags = fl]
      OBVIOUS
    <3> HIDE DEF sent, fl, ct, h
    <3> QED BY <3>1
  <2>3. Fields(entry, iv, commitTime, first)
        = [x \in names |-> IF x = "flags" THEN fl ELSE IF x = "commitTime" THEN ct ELSE sent[x]]
    <3> DEFINE sz == Halves(HeaderByteSize + Len(k) + Len(v))
               ks == Len(k) % KeySizeLimit
               en == entry.value.encoding
               me == IF iv = NoKey THEN "None" ELSE "AES_CBC_128"
               ut == Halves(entry.updateTime)
               c0 == Halves(0)
    <3>1. Fields(entry, iv, commitTime, first)
          = [totalSize |-> sz, keySize |-> ks, valueEncoding |-> en, encryptionMethod |-> me, flags |-> fl,
             updateTime |-> ut, commitTime |-> ct]
      BY DEF Fields
    <3> HIDE DEF sz, ks, en, me, fl, ut, ct, c0
    <3>2. [totalSize |-> sz, keySize |-> ks, valueEncoding |-> en, encryptionMethod |-> me, flags |-> fl,
             updateTime |-> ut, commitTime |-> ct] =
          [x \in names |-> IF x = "flags" THEN fl ELSE IF x = "commitTime" THEN ct ELSE
            [totalSize |-> sz, keySize |-> ks, valueEncoding |-> en, encryptionMethod |-> me, flags |-> "None",
             updateTime |-> ut, commitTime |-> c0][x]]
      OBVIOUS
    <3> QED BY <3>1, <3>2 DEF sz, ks, en, me, fl, ut, ct, c0
  <2> HIDE DEF h, sent, names
  <2> QED BY <2>1, <2>2, <2>3
<1>3. <<"header", h>> \in Cell
  BY <1>2 DEF Cell
<1>4. k \in Seq(BodyCell) /\ v \in Seq(BodyCell) /\ BodyCell \subseteq Cell /\ <<"checksums">> \in Cell
  BY BodyCells DEF Cell
<1>5. Chunk(entry, iv, commitTime, first) = <<<<"header", [bytes[1][2] EXCEPT !.commitTime = Halves(commitTime),
                                      !.flags = IF first THEN "HeadEntry" ELSE "None"]>>>> \o Tail(bytes)
  <2> HIDE DEF bytes
  <2> QED BY <1>1 DEF Chunk, Stamped
<1>6. k \in Seq(AllCells) /\ v \in Seq(AllCells) /\ head \in Seq(AllCells) /\ Len(head) = 2
      /\ head[1] = <<"header", sent>> /\ head[2] = <<"checksums">>
  <2> HIDE DEF k, v, sent
  <2> QED BY <1>4, SeqMonotonic
<1> HIDE DEF k, v, sent, h, head, AllCells
<1>7. Len(k) \in Nat /\ Len(v) \in Nat
  BY <1>6
<1>8. hk \in Seq(AllCells) /\ Len(hk) = 2 + Len(k)
      /\ \A i \in 1 .. 2 + Len(k) : hk[i] = IF i <= 2 THEN head[i] ELSE k[i - 2]
  <2>1. hk \in Seq(AllCells) /\ Len(hk) = Len(head) + Len(k)
        /\ \A i \in 1 .. Len(head) + Len(k) : hk[i] = IF i <= Len(head) THEN head[i] ELSE k[i - Len(head)]
    BY <1>6, ConcatProperties
  <2> HIDE DEF hk
  <2> QED BY <1>6, <2>1
<1> HIDE DEF hk
<1>9. bytes \in Seq(AllCells) /\ Len(bytes) = 2 + Len(k) + Len(v)
      /\ \A i \in 1 .. 2 + Len(k) + Len(v) : bytes[i] = IF i <= 2 + Len(k) THEN hk[i] ELSE v[i - (2 + Len(k))]
  BY <1>6, <1>8, ConcatProperties
<1> HIDE DEF bytes
<1>10. bytes[1] = <<"header", sent>> /\ bytes[2] = <<"checksums">>
       /\ (\A i \in 1 .. Len(k) : bytes[2 + i] = k[i])
       /\ \A i \in 1 .. Len(v) : bytes[2 + Len(k) + i] = v[i]
  <2>1. bytes[1] = head[1] /\ bytes[2] = head[2]
    BY <1>7, <1>8, <1>9
  <2>2. ASSUME NEW i \in 1 .. Len(k) PROVE bytes[2 + i] = k[i]
    <3>1. 2 + i \in 1 .. 2 + Len(k) /\ 2 + i \in 1 .. 2 + Len(k) + Len(v) /\ ~(2 + i <= 2) /\ (2 + i) - 2 = i
      BY <1>7
    <3> QED BY <1>8, <1>9, <3>1
  <2>3. ASSUME NEW i \in 1 .. Len(v) PROVE bytes[2 + Len(k) + i] = v[i]
    <3>1. 2 + Len(k) + i \in 1 .. 2 + Len(k) + Len(v) /\ ~(2 + Len(k) + i <= 2 + Len(k))
          /\ (2 + Len(k) + i) - (2 + Len(k)) = i
      BY <1>7
    <3> QED BY <1>9, <3>1
  <2> QED BY <1>6, <2>1, <2>2, <2>3
<1>11. bytes # <<>>
  BY <1>7, <1>9
<1>12. Tail(bytes) \in Seq(AllCells) /\ Len(Tail(bytes)) = Len(bytes) - 1
       /\ \A i \in 1 .. Len(bytes) - 1 : Tail(bytes)[i] = bytes[i + 1]
  BY <1>9, <1>11, HeadTailProperties
<1>13. Tail(bytes) \in Seq(Cell)
  <2>1. \A i \in 1 .. Len(bytes) - 1 : Tail(bytes)[i] \in Cell
    <3>1. \A i \in 2 .. Len(bytes) : bytes[i] \in Cell
      <4>1. (\A i \in 1 .. Len(k) : k[i] \in Cell) /\ \A i \in 1 .. Len(v) : v[i] \in Cell
        BY <1>4
      <4>2. ASSUME NEW i \in 2 .. Len(bytes) PROVE bytes[i] \in Cell
        <5>1. i = 2 \/ (\E j \in 1 .. Len(k) : i = 2 + j) \/ \E j \in 1 .. Len(v) : i = 2 + Len(k) + j
          <6>1. i <= 2 + Len(k) => i = 2 \/ (i - 2 \in 1 .. Len(k) /\ i = 2 + (i - 2))
            BY <1>7
          <6>2. i > 2 + Len(k) => i - (2 + Len(k)) \in 1 .. Len(v) /\ i = 2 + Len(k) + (i - (2 + Len(k)))
            BY <1>7, <1>9
          <6>3. i <= 2 + Len(k) \/ i > 2 + Len(k)
            BY <1>7
          <6> QED BY <6>1, <6>2, <6>3, Zenon
        <5>2. CASE i = 2
          BY <1>4, <1>10, <5>2
        <5>3. CASE \E j \in 1 .. Len(k) : i = 2 + j
          BY <1>10, <4>1, <5>3, Zenon
        <5>4. CASE \E j \in 1 .. Len(v) : i = 2 + Len(k) + j
          BY <1>10, <4>1, <5>4, Zenon
        <5> QED BY <5>1, <5>2, <5>3, <5>4
      <4> QED BY <4>2
    <3>2. ASSUME NEW i \in 1 .. Len(bytes) - 1 PROVE i + 1 \in 2 .. Len(bytes)
      BY <1>7, <1>9
    <3> QED BY <1>12, <3>1, <3>2
  <2> DEFINE tail == Tail(bytes)
  <2> HIDE DEF tail
  <2>2. tail \in Seq(AllCells) /\ Len(tail) = Len(bytes) - 1 /\ \A i \in 1 .. Len(bytes) - 1 : tail[i] \in Cell
    BY <1>12, <2>1 DEF tail
  <2> QED BY <2>2, SmallerSeq DEF tail
<1>14. h1 \in Seq(Cell) /\ Len(h1) = 1 /\ h1[1] = <<"header", h>>
  BY <1>3
<1> HIDE DEF h1
<1>15. c \in Seq(Cell) /\ Len(c) = 1 + Len(Tail(bytes))
       /\ \A i \in 1 .. 1 + Len(Tail(bytes)) : c[i] = IF i <= 1 THEN h1[i] ELSE Tail(bytes)[i - 1]
  <2>1. c \in Seq(Cell) /\ Len(c) = Len(h1) + Len(Tail(bytes))
        /\ \A i \in 1 .. Len(h1) + Len(Tail(bytes)) : c[i] = IF i <= Len(h1) THEN h1[i] ELSE Tail(bytes)[i - Len(h1)]
    BY <1>13, <1>14, ConcatProperties
  <2> HIDE DEF c
  <2> QED BY <1>14, <2>1
<1> HIDE DEF c
<1>16. Len(c) = 2 + Len(k) + Len(v) /\ c[1] = <<"header", h>> /\ \A i \in 2 .. Len(bytes) : c[i] = bytes[i]
  BY <1>7, <1>9, <1>12, <1>14, <1>15
<1>17. c[2] = <<"checksums">> /\ (\A i \in 1 .. Len(k) : c[2 + i] = k[i])
       /\ \A i \in 1 .. Len(v) : c[2 + Len(k) + i] = v[i]
  BY <1>7, <1>9, <1>10, <1>16
<1>18. IsChunk(c, entry, iv, commitTime, first)
  BY <1>2, <1>15, <1>16, <1>17 DEF IsChunk, k, v
<1>19. bytes[1][2] = sent
  BY <1>10
<1>20. Chunk(entry, iv, commitTime, first) = c
  BY <1>5, <1>19 DEF c, h1, h
<1> QED BY <1>18, <1>20

\* A sequence of cells with its size in its header.
Sized(chunk) ==
    chunk \in Seq(Cell) /\ Len(chunk) >= 2 /\ Whole(chunk[1][2].totalSize) = Len(chunk)

LEMMA ChunkIsSized ==
    ASSUME NEW entry \in Entry, NEW iv \in Vector, NEW t \in Nat, NEW first \in BOOLEAN,
           NEW chunk, IsChunk(chunk, entry, iv, t, first)
    PROVE  Sized(chunk)
<1> DEFINE k == KeyCells(entry, iv)
           v == ValueCells(entry, iv)
<1>1. k \in Seq(BodyCell) /\ v \in Seq(BodyCell) /\ 2 + Len(k) + Len(v) < Word * Word
  BY BodyCells
<1>2. Len(k) \in Nat /\ Len(v) \in Nat
  BY <1>1
<1>3. chunk \in Seq(Cell) /\ Len(chunk) = 2 + Len(k) + Len(v)
      /\ chunk[1] = <<"header", Fields(entry, iv, t, first)>>
  BY DEF IsChunk
<1>4. chunk[1][2].totalSize = Halves(2 + Len(k) + Len(v))
  BY <1>3 DEF Fields, HeaderByteSize
<1> HIDE DEF k, v
<1>5. Whole(Halves(2 + Len(k) + Len(v))) = 2 + Len(k) + Len(v)
  BY <1>1, <1>2, HalvesMakeWhole
<1> QED BY <1>2, <1>3, <1>4, <1>5 DEF Sized

\* Where a whole piece follows, a pass cuts it off.
LEMMA PassOfPiece ==
    ASSUME NEW bytes \in Seq(Cell), NEW o \in Nat, NEW chunk, NEW ps, Sized(chunk),
           o + Len(chunk) <= Len(bytes), \A i \in 1 .. Len(chunk) : bytes[o + i] = chunk[i]
    PROVE  Pass(bytes, [offset |-> o, pieces |-> ps])
             = [offset |-> o + Len(chunk), pieces |-> Append(ps, [offset |-> o, bytes |-> chunk])]
<1> DEFINE rest == SubSeq(bytes, o + 1, Len(bytes))
<1>1. chunk \in Seq(Cell) /\ Len(chunk) \in Nat /\ Len(chunk) >= 2 /\ Len(bytes) \in Nat
      /\ Whole(chunk[1][2].totalSize) = Len(chunk)
  BY DEF Sized
<1>2. rest \in Seq(Cell) /\ Len(rest) = Len(bytes) - o
      /\ \A i \in 1 .. Len(bytes) - o : rest[i] = bytes[o + i]
  BY <1>1
<1> HIDE DEF rest
<1>3. Len(rest) >= Len(chunk) /\ (\A i \in 1 .. Len(chunk) : rest[i] = chunk[i]) /\ rest # <<>>
  BY <1>1, <1>2
<1>4. Whole(rest[1][2].totalSize) = Len(chunk)
  BY <1>1, <1>3
<1> DEFINE head == SubSeq(rest, 1, Len(chunk))
<1>5. head \in Seq(Cell) /\ Len(head) = Len(chunk) /\ \A i \in 1 .. Len(chunk) : head[i] = rest[i]
  BY <1>1, <1>2, <1>3
<1> HIDE DEF head
<1>6. head = chunk
  BY <1>1, <1>3, <1>5, SeqEqual
<1>7. ~(Len(rest) < HeaderByteSize \/ Len(chunk) < HeaderByteSize \/ Len(chunk) > Len(rest))
  BY <1>1, <1>2, <1>3 DEF HeaderByteSize
<1> QED BY <1>3, <1>4, <1>6, <1>7 DEF Pass, rest, head

\* At the end a pass changes nothing.
LEMMA PassAtEnd ==
    ASSUME NEW bytes \in Seq(Cell), NEW ps
    PROVE  Pass(bytes, [offset |-> Len(bytes), pieces |-> ps]) = [offset |-> Len(bytes), pieces |-> ps]
<1>1. SubSeq(bytes, Len(bytes) + 1, Len(bytes)) = <<>>
  OBVIOUS
<1> QED BY <1>1 DEF Pass

\* Where the bytes end within a piece, the pass throws.
LEMMA PassOfPart ==
    ASSUME NEW bytes \in Seq(Cell), NEW o \in Nat, NEW chunk, NEW ps, Sized(chunk),
           o < Len(bytes), Len(bytes) < o + Len(chunk),
           \A i \in 1 .. Len(bytes) - o : bytes[o + i] = chunk[i]
    PROVE  Pass(bytes, [offset |-> o, pieces |-> ps])
             = [offset |-> Len(bytes), pieces |-> Append(ps, [offset |-> o, bytes |-> <<>>])]
<1> DEFINE rest == SubSeq(bytes, o + 1, Len(bytes))
<1>1. chunk \in Seq(Cell) /\ Len(chunk) \in Nat /\ Len(chunk) >= 2 /\ Len(bytes) \in Nat
      /\ Whole(chunk[1][2].totalSize) = Len(chunk)
  BY DEF Sized
<1>2. rest \in Seq(Cell) /\ Len(rest) = Len(bytes) - o
      /\ \A i \in 1 .. Len(bytes) - o : rest[i] = bytes[o + i]
  BY <1>1
<1> HIDE DEF rest
<1>3. rest # <<>> /\ rest[1] = chunk[1] /\ Len(rest) < Len(chunk)
  BY <1>1, <1>2
<1>4. Whole(rest[1][2].totalSize) = Len(chunk)
  BY <1>1, <1>3
<1> QED BY <1>3, <1>4 DEF Pass, rest

(***************************************************************************)
(* The loop.                                                               *)
(***************************************************************************)
LoopStep(bytes, g, n) ==
    IF n = 0 THEN [offset |-> 0, pieces |-> <<>>] ELSE Pass(bytes, g[n - 1])

IsLoop(bytes, g, last) == g = [n \in 0 .. last |-> LoopStep(bytes, g, n)]

\* There are the passes that the definition of Pieces speaks of.
LEMMA LoopExists ==
    ASSUME NEW bytes, NEW last \in Nat
    PROVE  \E g : IsLoop(bytes, g, last)
<1> DEFINE T == {m \in Nat : ~ \E g : IsLoop(bytes, g, m)}
<1>1. ASSUME NEW m \in Nat, m = 0 PROVE \E g : IsLoop(bytes, g, m)
  <2> DEFINE g == [n \in 0 .. m |-> [offset |-> 0, pieces |-> <<>>]]
  <2>1. g = [n \in 0 .. m |-> LoopStep(bytes, g, n)]
    <3>1. \A n \in 0 .. m : n = 0
      BY <1>1
    <3> QED BY <3>1 DEF LoopStep
  <2> QED BY <2>1 DEF IsLoop
<1>2. ASSUME NEW m \in Nat, NEW g, IsLoop(bytes, g, m) PROVE \E h : IsLoop(bytes, h, m + 1)
  <2> DEFINE h == [n \in 0 .. m + 1 |-> LoopStep(bytes, g, n)]
  <2>1. ASSUME NEW n \in 0 .. m + 1 PROVE h[n] = LoopStep(bytes, h, n)
    <3>1. CASE n = 0
      BY <3>1 DEF LoopStep
    <3>2. CASE n # 0
      <4>1. n - 1 \in 0 .. m /\ n - 1 \in 0 .. m + 1
        BY <3>2
      <4>2. g[n - 1] = LoopStep(bytes, g, n - 1)
        BY <1>2, <4>1 DEF IsLoop
      <4>3. h[n - 1] = g[n - 1]
        BY <4>1, <4>2
      <4>4. h[n] = LoopStep(bytes, g, n)
        OBVIOUS
      <4> HIDE DEF h
      <4> QED BY <3>2, <4>3, <4>4 DEF LoopStep
    <3> QED BY <3>1, <3>2
  <2>2. h = [n \in 0 .. m + 1 |-> h[n]]
    OBVIOUS
  <2> HIDE DEF h
  <2>3. h = [n \in 0 .. m + 1 |-> LoopStep(bytes, h, n)]
    BY <2>1, <2>2
  <2> QED BY <2>3 DEF IsLoop
<1>3. T = {}
  <2> SUFFICES ASSUME T # {} PROVE FALSE
    OBVIOUS
  <2>1. PICK m \in T : \A t \in T : m <= t
    <3>1. T \in SUBSET Nat
      OBVIOUS
    <3> HIDE DEF T
    <3> QED BY <3>1, LeastNumber
  <2>2. m \in Nat /\ ~ \E g : IsLoop(bytes, g, m)
    OBVIOUS
  <2>3. m # 0
    BY <1>1, <2>2
  <2>4. m - 1 \in Nat /\ ~(m <= m - 1) /\ (m - 1) + 1 = m
    BY <2>2, <2>3
  <2>5. m - 1 \notin T
    BY <2>1, <2>4
  <2>6. PICK g : IsLoop(bytes, g, m - 1)
    BY <2>4, <2>5
  <2>7. \E h : IsLoop(bytes, h, (m - 1) + 1)
    BY <1>2, <2>4, <2>6
  <2> QED BY <2>2, <2>4, <2>7
<1> QED BY <1>3

\* What Pieces stands for.
LEMMA PiecesAreOfLoop ==
    ASSUME NEW bytes \in Seq(Cell)
    PROVE  \E g : IsLoop(bytes, g, Len(bytes)) /\ Pieces(bytes) = g[Len(bytes)].pieces
<1> DEFINE chosen == CHOOSE g : g = [n \in 0 .. Len(bytes) |-> LoopStep(bytes, g, n)]
<1>1. Pieces(bytes) = chosen[Len(bytes)].pieces
  BY DEF Pieces, LoopStep
<1>2. chosen = [n \in 0 .. Len(bytes) |-> LoopStep(bytes, chosen, n)]
  <2>1. Len(bytes) \in Nat
    OBVIOUS
  <2>2. PICK g : IsLoop(bytes, g, Len(bytes))
    BY <2>1, LoopExists
  <2>3. \E h : h = [n \in 0 .. Len(bytes) |-> LoopStep(bytes, h, n)]
    BY <2>2 DEF IsLoop
  <2> QED BY <2>3
<1> QED BY <1>1, <1>2 DEF IsLoop

LEMMA LoopSteps ==
    ASSUME NEW bytes, NEW last \in Nat, NEW g, IsLoop(bytes, g, last)
    PROVE  /\ g[0] = [offset |-> 0, pieces |-> <<>>]
           /\ \A n \in Nat : n < last => g[n + 1] = Pass(bytes, g[n])
<1>1. g[0] = LoopStep(bytes, g, 0)
  BY DEF IsLoop
<1>2. ASSUME NEW n \in Nat, n < last PROVE g[n + 1] = Pass(bytes, g[n])
  <2>1. n + 1 \in 0 .. last /\ n + 1 # 0 /\ (n + 1) - 1 = n
    BY <1>2
  <2>2. g[n + 1] = LoopStep(bytes, g, n + 1)
    BY <2>1 DEF IsLoop
  <2> QED BY <2>1, <2>2 DEF LoopStep
<1> QED BY <1>1, <1>2 DEF LoopStep

\* Once the end is reached, nothing follows.
LEMMA LoopEnds ==
    ASSUME NEW bytes \in Seq(Cell), NEW g, IsLoop(bytes, g, Len(bytes)), NEW m \in 0 .. Len(bytes), NEW ps,
           g[m] = [offset |-> Len(bytes), pieces |-> ps]
    PROVE  g[Len(bytes)] = g[m]
<1> DEFINE T == {n \in Nat : m + n <= Len(bytes) /\ g[m + n] # g[m]}
<1>0. Len(bytes) \in Nat /\ m \in Nat
  OBVIOUS
<1>1. T = {}
  <2> SUFFICES ASSUME T # {} PROVE FALSE
    OBVIOUS
  <2>1. PICK n \in T : \A t \in T : n <= t
    <3>1. T \in SUBSET Nat
      OBVIOUS
    <3> HIDE DEF T
    <3> QED BY <3>1, LeastNumber
  <2>2. n \in Nat /\ m + n <= Len(bytes) /\ g[m + n] # g[m]
    OBVIOUS
  <2>3. n # 0
    <3>1. m + 0 = m
      OBVIOUS
    <3> QED BY <2>2, <3>1
  <2>4. n - 1 \in Nat /\ ~(n <= n - 1) /\ m + (n - 1) <= Len(bytes)
        /\ m + (n - 1) \in Nat /\ m + (n - 1) < Len(bytes) /\ (m + (n - 1)) + 1 = m + n
    BY <1>0, <2>2, <2>3
  <2>5. g[m + (n - 1)] = g[m]
    BY <2>1, <2>4
  <2>6. g[(m + (n - 1)) + 1] = Pass(bytes, g[m + (n - 1)])
    <3>1. \A x \in Nat : x < Len(bytes) => g[x + 1] = Pass(bytes, g[x])
      BY <1>0, LoopSteps
    <3> QED BY <2>4, <3>1
  <2>7. Pass(bytes, g[m]) = g[m]
    BY PassAtEnd
  <2> QED BY <2>2, <2>4, <2>5, <2>6, <2>7
<1>2. Len(bytes) - m \in Nat /\ m + (Len(bytes) - m) = Len(bytes)
  BY <1>0
<1>3. Len(bytes) - m \notin T
  BY <1>1
<1> QED BY <1>0, <1>2, <1>3

(***************************************************************************)
(* Pieces one after the other.                                             *)
(***************************************************************************)
Laid(off, ch, m) ==
    /\ off[0] = 0 /\ \A i \in 0 .. m : off[i] \in Nat
    /\ \A i \in 1 .. m : Sized(ch[i]) /\ off[i] = off[i - 1] + Len(ch[i])

PieceAt(off, ch, i) == [offset |-> off[i - 1], bytes |-> ch[i]]

PiecesAt(off, ch, m) == [i \in 1 .. m |-> PieceAt(off, ch, i)]

\* No piece is shorter than its header.
LEMMA OffsetsGrow ==
    ASSUME NEW off, NEW ch, NEW m \in Nat, Laid(off, ch, m)
    PROVE  /\ \A i, j \in 0 .. m : i < j => off[i] + 2 <= off[j]
           /\ \A i \in 0 .. m : 2 * i <= off[i]
<1>1. ASSUME NEW i \in 1 .. m
      PROVE  off[i] \in Nat /\ off[i - 1] \in Nat /\ off[i] >= off[i - 1] + 2
  <2>1. i \in 0 .. m /\ i - 1 \in 0 .. m
    OBVIOUS
  <2>2. off[i] \in Nat /\ off[i - 1] \in Nat
    BY <2>1 DEF Laid
  <2>3. Sized(ch[i]) /\ off[i] = off[i - 1] + Len(ch[i])
    BY DEF Laid
  <2>4. Len(ch[i]) \in Nat /\ Len(ch[i]) >= 2
    BY <2>3 DEF Sized
  <2> QED BY <2>2, <2>3, <2>4
<1>2. ASSUME NEW i \in 0 .. m, NEW d \in Nat, i + d <= m PROVE off[i] \in Nat /\ off[i + d] >= off[i] + 2 * d
  <2> DEFINE T == {e \in Nat : i + e <= m /\ ~(off[i + e] >= off[i] + 2 * e)}
  <2>1. off[i] \in Nat
    BY DEF Laid
  <2>2. T = {}
    <3> SUFFICES ASSUME T # {} PROVE FALSE
      OBVIOUS
    <3>1. PICK e \in T : \A t \in T : e <= t
      <4>1. T \in SUBSET Nat
        OBVIOUS
      <4> HIDE DEF T
      <4> QED BY <4>1, LeastNumber
    <3>2. e \in Nat /\ i + e <= m /\ ~(off[i + e] >= off[i] + 2 * e)
      OBVIOUS
    <3>3. e # 0
      <4>1. i + 0 = i
        OBVIOUS
      <4> QED BY <2>1, <3>2, <4>1
    <3>4. e - 1 \in Nat /\ ~(e <= e - 1) /\ i + (e - 1) <= m /\ i + e \in 1 .. m /\ (i + e) - 1 = i + (e - 1)
      BY <3>2, <3>3
    <3>5. off[i + (e - 1)] >= off[i] + 2 * (e - 1)
      BY <3>1, <3>4
    <3>6. off[i + e] \in Nat /\ off[i + (e - 1)] \in Nat /\ off[i + e] >= off[i + (e - 1)] + 2
      BY <1>1, <3>4
    <3> QED BY <2>1, <3>2, <3>5, <3>6
  <2>3. d \notin T
    BY <2>2
  <2> QED BY <1>2, <2>1, <2>3
<1>3. ASSUME NEW i \in 0 .. m, NEW j \in 0 .. m, i < j PROVE off[i] + 2 <= off[j]
  <2>1. j - i \in Nat /\ j - i >= 1 /\ i + (j - i) = j
    BY <1>3
  <2>2. off[i] \in Nat /\ off[j] >= off[i] + 2 * (j - i)
    BY <1>2, <2>1
  <2>3. off[j] \in Nat
    BY DEF Laid
  <2> QED BY <2>1, <2>2, <2>3
<1>4. ASSUME NEW i \in 0 .. m PROVE 2 * i <= off[i]
  <2>1. 0 \in 0 .. m /\ i \in Nat /\ 0 + i = i /\ i <= m
    OBVIOUS
  <2>2. off[0 + i] >= off[0] + 2 * i
    BY <1>2, <2>1
  <2>3. off[0] = 0 /\ off[i] \in Nat
    BY DEF Laid
  <2> QED BY <2>1, <2>2, <2>3
<1> QED BY <1>3, <1>4

\* The bytes are, up to a limit, those of the pieces.
Holds(bytes, off, ch, m) ==
    \A i \in 1 .. m : \A j \in 1 .. Len(ch[i]) :
        off[i - 1] + j <= Len(bytes) => bytes[off[i - 1] + j] = ch[i][j]

\* After as many passes there are as many pieces, as far as the bytes go.
LEMMA LoopCutsPieces ==
    ASSUME NEW bytes \in Seq(Cell), NEW off, NEW ch, NEW m \in Nat,
           Laid(off, ch, m), Holds(bytes, off, ch, m), off[m] <= Len(bytes),
           NEW g, IsLoop(bytes, g, Len(bytes))
    PROVE  2 * m <= Len(bytes) /\ g[m] = [offset |-> off[m], pieces |-> PiecesAt(off, ch, m)]
<1> DEFINE Cut(n) == g[n] = [offset |-> off[n], pieces |-> PiecesAt(off, ch, n)]
           T == {n \in Nat : n <= m /\ ~Cut(n)}
<1>1. 2 * m <= off[m] /\ off[m] \in Nat /\ Len(bytes) \in Nat /\ 2 * m <= Len(bytes)
  <2>1. off[m] \in Nat
    BY DEF Laid
  <2> QED BY <2>1, OffsetsGrow
<1>2. Cut(0)
  <2>1. PiecesAt(off, ch, 0) = <<>>
    BY DEF PiecesAt
  <2> QED BY <1>1, <2>1, LoopSteps DEF Laid
<1>3. ASSUME NEW n \in Nat, n + 1 <= m, Cut(n) PROVE Cut(n + 1)
  <2>1. n + 1 \in 1 .. m /\ n + 1 \in 0 .. m /\ n \in 0 .. m /\ (n + 1) - 1 = n /\ n < Len(bytes)
    BY <1>1, <1>3
  <2>2. Sized(ch[n + 1]) /\ off[n + 1] = off[n] + Len(ch[n + 1]) /\ off[n] \in Nat /\ off[n + 1] \in Nat
    BY <2>1 DEF Laid
  <2>3. off[n + 1] <= off[m]
    <3>1. n + 1 < m => off[n + 1] + 2 <= off[m]
      BY <2>1, OffsetsGrow
    <3> QED BY <1>1, <1>3, <2>1, <2>2, <3>1
  <2>4. off[n] + Len(ch[n + 1]) <= Len(bytes)
    BY <1>1, <2>2, <2>3
  <2>5. Len(ch[n + 1]) \in Nat
    BY <2>2 DEF Sized
  <2>6. \A j \in 1 .. Len(ch[n + 1]) : bytes[off[n] + j] = ch[n + 1][j]
    <3>1. \A j \in 1 .. Len(ch[n + 1]) : off[n] + j <= Len(bytes)
      BY <1>1, <2>2, <2>4, <2>5
    <3> QED BY <2>1, <3>1 DEF Holds
  <2> DEFINE p == PiecesAt(off, ch, n)
  <2>7. Pass(bytes, [offset |-> off[n], pieces |-> p])
          = [offset |-> off[n] + Len(ch[n + 1]), pieces |-> Append(p, [offset |-> off[n], bytes |-> ch[n + 1]])]
    <3> DEFINE chunk == ch[n + 1]
               o == off[n]
    <3>1. Sized(chunk) /\ o \in Nat /\ o + Len(chunk) <= Len(bytes)
          /\ \A i \in 1 .. Len(chunk) : bytes[o + i] = chunk[i]
      BY <2>2, <2>4, <2>6
    <3> HIDE DEF chunk, o, p
    <3>2. Pass(bytes, [offset |-> o, pieces |-> p])
            = [offset |-> o + Len(chunk), pieces |-> Append(p, [offset |-> o, bytes |-> chunk])]
      BY <3>1, PassOfPiece
    <3> QED BY <3>2 DEF chunk, o
  <2>8. g[n + 1] = Pass(bytes, g[n])
    BY <1>1, <2>1, LoopSteps
  <2>9. Append(p, PieceAt(off, ch, n + 1)) = PiecesAt(off, ch, n + 1)
    BY DEF PiecesAt
  <2>10. PieceAt(off, ch, n + 1) = [offset |-> off[n], bytes |-> ch[n + 1]]
    BY <2>1 DEF PieceAt
  <2> QED BY <1>3, <2>2, <2>7, <2>8, <2>9, <2>10
<1> HIDE DEF Cut
<1>4. T = {}
  <2> SUFFICES ASSUME T # {} PROVE FALSE
    OBVIOUS
  <2>1. PICK n \in T : \A t \in T : n <= t
    <3>1. T \in SUBSET Nat
      OBVIOUS
    <3> HIDE DEF T
    <3> QED BY <3>1, LeastNumber
  <2>2. n # 0
    BY <1>2
  <2>3. n - 1 \in Nat /\ ~(n <= n - 1) /\ n - 1 <= m /\ (n - 1) + 1 = n
    BY <2>2
  <2>4. Cut(n - 1)
    BY <2>1, <2>3
  <2>5. Cut((n - 1) + 1)
    BY <1>3, <2>3, <2>4
  <2> QED BY <2>3, <2>5
<1>5. Cut(m)
  BY <1>4
<1> QED BY <1>1, <1>5 DEF Cut

\* Bytes that end with a piece are read as the pieces.
LEMMA WholePieces ==
    ASSUME NEW bytes \in Seq(Cell), NEW off, NEW ch, NEW m \in Nat,
           Laid(off, ch, m), Holds(bytes, off, ch, m), off[m] = Len(bytes)
    PROVE  Pieces(bytes) = PiecesAt(off, ch, m)
<1>1. PICK g : IsLoop(bytes, g, Len(bytes)) /\ Pieces(bytes) = g[Len(bytes)].pieces
  BY PiecesAreOfLoop
<1>2. off[m] <= Len(bytes) /\ Len(bytes) \in Nat
  OBVIOUS
<1>3. 2 * m <= Len(bytes) /\ g[m] = [offset |-> off[m], pieces |-> PiecesAt(off, ch, m)]
  BY <1>1, <1>2, LoopCutsPieces
<1>4. m \in 0 .. Len(bytes)
  BY <1>2, <1>3
<1>5. g[Len(bytes)] = g[m]
  BY <1>1, <1>3, <1>4, LoopEnds
<1> QED BY <1>1, <1>3, <1>5

\* Bytes that end within a piece are refused.
LEMMA CutPiece ==
    ASSUME NEW bytes \in Seq(Cell), NEW off, NEW ch, NEW m \in Nat,
           Laid(off, ch, m), Laid(off, ch, m + 1), Holds(bytes, off, ch, m + 1),
           off[m] < Len(bytes), Len(bytes) < off[m + 1]
    PROVE  IsCorrupted(bytes)
<1>1. PICK g : IsLoop(bytes, g, Len(bytes)) /\ Pieces(bytes) = g[Len(bytes)].pieces
  BY PiecesAreOfLoop
<1>2. Sized(ch[m + 1]) /\ off[m + 1] = off[m] + Len(ch[m + 1]) /\ off[m] \in Nat
  <2>1. m + 1 \in 1 .. m + 1 /\ (m + 1) - 1 = m /\ m \in 0 .. m + 1
    OBVIOUS
  <2> QED BY <2>1 DEF Laid
<1>3. off[m] <= Len(bytes) /\ Len(bytes) \in Nat
  BY <1>2
<1>4. Holds(bytes, off, ch, m)
  BY DEF Holds
<1>5. 2 * m <= Len(bytes) /\ g[m] = [offset |-> off[m], pieces |-> PiecesAt(off, ch, m)]
  BY <1>1, <1>3, <1>4, LoopCutsPieces
<1>6. m < Len(bytes)
  <2>1. 2 * m <= off[m]
    BY OffsetsGrow
  <2> QED BY <1>2, <1>3, <2>1
<1>7. \A j \in 1 .. Len(bytes) - off[m] : bytes[off[m] + j] = ch[m + 1][j]
  <2>1. m + 1 \in 1 .. m + 1 /\ (m + 1) - 1 = m
    OBVIOUS
  <2>2. Len(ch[m + 1]) \in Nat
    BY <1>2 DEF Sized
  <2>3. \A j \in 1 .. Len(bytes) - off[m] : j \in 1 .. Len(ch[m + 1]) /\ off[m] + j <= Len(bytes)
    BY <1>2, <1>3, <2>2
  <2> QED BY <2>1, <2>3 DEF Holds
<1> DEFINE p == PiecesAt(off, ch, m)
           q == Append(p, [offset |-> off[m], bytes |-> <<>>])
<1>8. Pass(bytes, [offset |-> off[m], pieces |-> p]) = [offset |-> Len(bytes), pieces |-> q]
  <2>1. Len(bytes) < off[m] + Len(ch[m + 1])
    BY <1>2
  <2> QED BY <1>2, <1>7, <2>1, PassOfPart
<1>9. g[m + 1] = [offset |-> Len(bytes), pieces |-> q]
  <2>1. g[m + 1] = Pass(bytes, g[m])
    BY <1>1, <1>3, <1>6, LoopSteps
  <2> QED BY <1>5, <1>8, <2>1
<1>10. m + 1 \in 0 .. Len(bytes)
  BY <1>3, <1>6
<1>11. g[Len(bytes)] = g[m + 1]
  BY <1>1, <1>9, <1>10, LoopEnds
<1>12. Pieces(bytes) = q
  BY <1>1, <1>9, <1>11
<1>13. m + 1 \in DOMAIN q /\ q[m + 1].bytes = <<>>
  BY DEF PiecesAt
<1> QED BY <1>12, <1>13 DEF IsCorrupted

(***************************************************************************)
(* What a piece is read as.                                                *)
(***************************************************************************)
Record(entry, t, first) ==
    [key |-> entry.key, value |-> entry.value, updateTime |-> entry.updateTime, commitTime |-> t,
     isHeadEntry |-> first]

\* The parts of a piece are found where they were put.
LEMMA ChunkHeader ==
    ASSUME NEW entry \in Entry, NEW iv \in Vector, NEW t \in Nat, NEW first \in BOOLEAN,
           NEW o, NEW chunk, IsChunk(chunk, entry, iv, t, first)
    PROVE  Header([offset |-> o, bytes |-> chunk]) = Fields(entry, iv, t, first)
<1>1. chunk[1] = <<"header", Fields(entry, iv, t, first)>>
  BY DEF IsChunk
<1> QED BY <1>1 DEF Header

LEMMA ChunkBytes ==
    ASSUME NEW entry \in Entry, NEW iv \in Vector, NEW t \in Nat, NEW first \in BOOLEAN,
           NEW o, NEW chunk, IsChunk(chunk, entry, iv, t, first)
    PROVE  /\ KeyBytes([offset |-> o, bytes |-> chunk]) = KeyCells(entry, iv)
           /\ ValueBytes([offset |-> o, bytes |-> chunk]) = ValueCells(entry, iv)
<1> DEFINE k == KeyCells(entry, iv)
           v == ValueCells(entry, iv)
           p == [offset |-> o, bytes |-> chunk]
<1>1. /\ chunk \in Seq(Cell) /\ Len(chunk) = 2 + Len(k) + Len(v)
      /\ \A i \in 1 .. Len(k) : chunk[2 + i] = k[i]
      /\ \A i \in 1 .. Len(v) : chunk[2 + Len(k) + i] = v[i]
  BY DEF IsChunk
<1>2. k \in Seq(BodyCell) /\ v \in Seq(BodyCell) /\ Len(k) < KeySizeLimit
  BY BodyCells
<1>3. BodyCell \subseteq Cell
  BY DEF Cell
<1>4. k \in Seq(Cell) /\ v \in Seq(Cell) /\ Len(k) \in Nat /\ Len(v) \in Nat
  BY <1>2, <1>3, SeqMonotonic
<1>5. Header(p).keySize = Len(k)
  <2>1. Header(p).keySize = Len(k) % KeySizeLimit
    <3>1. Header(p) = Fields(entry, iv, t, first)
      BY ChunkHeader
    <3> HIDE DEF p
    <3> QED BY <3>1 DEF Fields
  <2> HIDE DEF k
  <2> QED BY <1>2, <1>4, <2>1, FieldAssumption
<1>6. p.bytes = chunk
  OBVIOUS
<1>7. KeyBytes(p) = SubSeq(chunk, 3, 2 + Len(k)) /\ ValueBytes(p) = SubSeq(chunk, 3 + Len(k), Len(chunk))
  <2> HIDE DEF k, v, p
  <2>1. KeyBytes(p) = SubSeq(chunk, 2 + 1, 2 + Len(k)) /\ ValueBytes(p) = SubSeq(chunk, 2 + Len(k) + 1, Len(chunk))
    BY <1>5, <1>6 DEF KeyBytes, ValueBytes, HeaderByteSize
  <2>2. 2 + 1 = 3 /\ 2 + Len(k) + 1 = 3 + Len(k)
    BY <1>4
  <2> QED BY <2>1, <2>2
<1> HIDE DEF k, v, p
<1>8. SubSeq(chunk, 3, 2 + Len(k)) = k
  <2> DEFINE s == SubSeq(chunk, 3, 2 + Len(k))
  <2>1. s \in Seq(Cell) /\ Len(s) = Len(k) /\ \A i \in 1 .. Len(k) : s[i] = chunk[2 + i]
    BY <1>1, <1>4
  <2> HIDE DEF s
  <2>2. s = k
    BY <1>1, <1>4, <2>1, SeqEqual
  <2> QED BY <2>2 DEF s
<1>9. SubSeq(chunk, 3 + Len(k), Len(chunk)) = v
  <2> DEFINE s == SubSeq(chunk, 3 + Len(k), Len(chunk))
  <2>1. s \in Seq(Cell) /\ Len(s) = Len(v) /\ \A i \in 1 .. Len(v) : s[i] = chunk[2 + Len(k) + i]
    BY <1>1, <1>4
  <2> HIDE DEF s
  <2>2. s = v
    BY <1>1, <1>4, <2>1, SeqEqual
  <2> QED BY <2>2 DEF s
<1> QED BY <1>7, <1>8, <1>9 DEF k, v, p

LEMMA EncryptedComesBack ==
    ASSUME NEW cells, NEW iv
    PROVE  Decrypt(Encrypt(cells, iv), iv) = cells
  BY DEF Decrypt, Encrypt

\* A piece is read as what was appended.
LEMMA ChunkIsRead ==
    ASSUME NEW entry \in Entry, NEW iv \in Vector, NEW t \in Nat, NEW first \in BOOLEAN,
           t < Word * Word, NEW o, NEW chunk, IsChunk(chunk, entry, iv, t, first)
    PROVE  DeserializeEntryBody([offset |-> o, bytes |-> chunk]) = Record(entry, t, first)
<1> DEFINE p == [offset |-> o, bytes |-> chunk]
           d == DeserializeEntryBody(p)
           encrypted == Header(p).encryptionMethod = "AES_CBC_128"
           value == ValueBytes(p)
           cells == IF encrypted /\ value # <<>> THEN Decrypt(Tail(value), value[1][2]) ELSE value
           key == IF encrypted THEN Decrypt(KeyBytes(p), ZeroBlock) ELSE KeyBytes(p)
<1>1. Header(p) = Fields(entry, iv, t, first) /\ KeyBytes(p) = KeyCells(entry, iv)
      /\ value = ValueCells(entry, iv)
  BY ChunkHeader, ChunkBytes
<1>2. encrypted <=> iv # NoKey
  BY <1>1 DEF Fields
<1>3. key = entry.key
  BY <1>1, <1>2, EncryptedComesBack DEF KeyCells
<1>4. cells = entry.value.cells
  <2>1. CASE iv = NoKey
    BY <1>1, <1>2, <2>1 DEF ValueCells
  <2>2. CASE entry.value.cells = <<>>
    BY <1>1, <2>2 DEF ValueCells
  <2>3. CASE iv # NoKey /\ entry.value.cells # <<>>
    <3>1. value = <<<<"iv", iv>>>> \o Encrypt(entry.value.cells, iv)
      BY <1>1, <2>3 DEF ValueCells
    <3>2. value = <<<<"iv", iv>>, <<"cipher", entry.value.cells, iv>>>>
      BY <3>1 DEF Encrypt
    <3>3. Tail(value) = Encrypt(entry.value.cells, iv) /\ value[1][2] = iv /\ value # <<>>
      <4> HIDE DEF value
      <4> QED BY <3>2 DEF Encrypt
    <3> HIDE DEF value, encrypted
    <3> QED BY <1>2, <2>3, <3>3, EncryptedComesBack
  <2> QED BY <2>1, <2>2, <2>3
<1>5. entry.value = [encoding |-> entry.value.encoding, cells |-> entry.value.cells]
      /\ entry.updateTime \in Nat
  BY EntryAssumption
<1>6. Whole(Halves(entry.updateTime)) = entry.updateTime /\ Whole(Halves(t)) = t
  <2>1. entry.updateTime < Word * Word
    <3>1. PICK n \in Nat : n = Word * Word
      BY FieldAssumption
    <3>2. entry.updateTime + MaxEntries < n
      BY <3>1, SizeAssumption
    <3> QED BY <1>5, <3>1, <3>2, FieldAssumption
  <2> QED BY <1>5, <2>1, HalvesMakeWhole
<1>7. Header(p).valueEncoding = entry.value.encoding /\ Whole(Header(p).updateTime) = entry.updateTime
      /\ Whole(Header(p).commitTime) = t /\ (Header(p).flags = "HeadEntry") = first
  <2>1. (Header(p).flags = "HeadEntry") = first
    <3>1. Header(p).flags = IF first THEN "HeadEntry" ELSE "None"
      BY <1>1 DEF Fields
    <3> QED BY <3>1
  <2> QED BY <1>1, <1>6, <2>1 DEF Fields
<1>8. d = [key |-> key, value |-> [encoding |-> Header(p).valueEncoding, cells |-> cells],
           updateTime |-> Whole(Header(p).updateTime), commitTime |-> Whole(Header(p).commitTime),
           isHeadEntry |-> Header(p).flags = "HeadEntry"]
  BY DEF DeserializeEntryBody
<1> HIDE DEF key, cells, p
<1> QED BY <1>3, <1>4, <1>5, <1>7, <1>8 DEF Record, p

(***************************************************************************)
(* The file.                                                               *)
(***************************************************************************)

\* A piece, and the entry that it is read as.
IsPieceOf(chunk, record) ==
    \E entry \in Entry, iv \in Vector, t \in Nat, first \in BOOLEAN :
        t < Word * Word /\ IsChunk(chunk, entry, iv, t, first) /\ record = Record(entry, t, first)

\* Where the pieces of a file are, and which.
Layout(bytes, entries, off, ch) ==
    /\ Laid(off, ch, Len(entries)) /\ Holds(bytes, off, ch, Len(entries))
    /\ off[Len(entries)] = Len(bytes)
    /\ \A i \in 1 .. Len(entries) : IsPieceOf(ch[i], entries[i])

AnyRecord ==
    {Record(entry, t, first) : entry \in Entry, t \in Nat, first \in BOOLEAN}

FileOK ==
    /\ file \in Seq(Cell) /\ written \in Seq(AnyRecord) /\ Len(written) <= MaxEntries
    /\ \E off, ch : Layout(file, written, off, ch)

LEMMA InitFile == InitSerializer => FileOK
<1> SUFFICES ASSUME InitSerializer PROVE FileOK
  OBVIOUS
<1>1. file = <<>> /\ written = <<>> /\ Len(written) = 0 /\ Len(file) = 0
  BY DEF InitSerializer
<1>2. Layout(file, written, [i \in {0} |-> 0], <<>>)
  BY <1>1 DEF Layout, Laid, Holds
<1> QED BY <1>1, <1>2, FieldAssumption DEF FileOK

\* A file with one more piece at its end.
LEMMA LayoutExtends ==
    ASSUME NEW bytes \in Seq(Cell), NEW entries \in Seq(AnyRecord), NEW off, NEW ch,
           Layout(bytes, entries, off, ch),
           NEW chunk, NEW record \in AnyRecord, IsPieceOf(chunk, record), Sized(chunk)
    PROVE  \E o, c : Layout(bytes \o chunk, Append(entries, record), o, c)
<1> DEFINE m == Len(entries)
           size == Len(bytes)
           added == Len(chunk)
           o == [i \in 0 .. m + 1 |-> IF i = m + 1 THEN size + added ELSE off[i]]
           c == [i \in 1 .. m + 1 |-> IF i = m + 1 THEN chunk ELSE ch[i]]
           b == bytes \o chunk
           e == Append(entries, record)
<1>1. m \in Nat /\ size \in Nat /\ added \in Nat /\ chunk \in Seq(Cell)
  BY DEF Sized
<1>2. Len(e) = m + 1 /\ e[m + 1] = record /\ \A i \in 1 .. m : e[i] = entries[i]
  OBVIOUS
<1>3. b \in Seq(Cell) /\ Len(b) = size + added
      /\ \A i \in 1 .. size + added : b[i] = IF i <= size THEN bytes[i] ELSE chunk[i - size]
  BY <1>1, ConcatProperties
<1> HIDE DEF b, e
<1>4. Laid(off, ch, m) /\ Holds(bytes, off, ch, m) /\ off[m] = size
      /\ \A i \in 1 .. m : IsPieceOf(ch[i], entries[i])
  BY DEF Layout
<1>5. (\A i \in 0 .. m : o[i] = off[i] /\ off[i] \in Nat /\ off[i] <= size) /\ o[m + 1] = size + added
      /\ (\A i \in 1 .. m : c[i] = ch[i]) /\ c[m + 1] = chunk
  <2>1. \A i \in 0 .. m : i # m + 1 /\ i \in 0 .. m + 1
    BY <1>1
  <2>2. \A i \in 1 .. m : i # m + 1 /\ i \in 1 .. m + 1
    BY <1>1
  <2>3. \A i \in 0 .. m : off[i] \in Nat
    BY <1>4 DEF Laid
  <2>4. \A i \in 0 .. m : off[i] <= size
    <3>1. ASSUME NEW i \in 0 .. m PROVE off[i] <= size
      <4>1. CASE i = m
        BY <1>1, <1>4, <4>1
      <4>2. CASE i < m
        <5>1. off[i] + 2 <= off[m]
          BY <1>1, <1>4, <4>2, OffsetsGrow
        <5> QED BY <1>1, <1>4, <2>3, <5>1
      <4> QED BY <1>1, <4>1, <4>2
    <3> QED BY <3>1
  <2>5. m + 1 \in 0 .. m + 1 /\ m + 1 \in 1 .. m + 1
    BY <1>1
  <2> QED BY <2>1, <2>2, <2>3, <2>4, <2>5
<1> HIDE DEF o, c, m, size, added
<1>6. Laid(o, c, m + 1)
  <2>1. o[0] = 0 /\ \A i \in 0 .. m + 1 : o[i] \in Nat
    <3>1. \A i \in 0 .. m + 1 : i \in 0 .. m \/ i = m + 1
      BY <1>1
    <3>2. size + added \in Nat /\ 0 \in 0 .. m
      BY <1>1
    <3> QED BY <1>4, <1>5, <3>1, <3>2 DEF Laid
  <2>2. ASSUME NEW i \in 1 .. m + 1 PROVE Sized(c[i]) /\ o[i] = o[i - 1] + Len(c[i])
    <3>1. CASE i = m + 1
      <4>1. i - 1 = m /\ m \in 0 .. m
        BY <1>1, <3>1
      <4>2. o[i - 1] = size
        BY <1>4, <1>5, <4>1
      <4> QED BY <1>5, <3>1, <4>2 DEF added
    <3>2. CASE i # m + 1
      <4>1. i \in 1 .. m /\ i \in 0 .. m /\ i - 1 \in 0 .. m
        BY <1>1, <3>2
      <4> QED BY <1>4, <1>5, <4>1 DEF Laid
    <3> QED BY <3>1, <3>2
  <2> QED BY <2>1, <2>2 DEF Laid
<1>7. Holds(b, o, c, m + 1)
  <2>1. ASSUME NEW i \in 1 .. m + 1, NEW j \in 1 .. Len(c[i]), o[i - 1] + j <= Len(b)
        PROVE  b[o[i - 1] + j] = c[i][j]
    <3>1. CASE i = m + 1
      <4>1. i - 1 = m /\ m \in 0 .. m
        BY <1>1, <3>1
      <4>2. o[i - 1] = size /\ c[i] = chunk
        BY <1>4, <1>5, <3>1, <4>1
      <4>3. j \in 1 .. added
        BY <4>2 DEF added
      <4>4. size + j \in 1 .. size + added /\ ~(size + j <= size) /\ (size + j) - size = j
        BY <1>1, <4>3
      <4> QED BY <1>3, <4>2, <4>4
    <3>2. CASE i # m + 1
      <4>1. i \in 1 .. m /\ i \in 0 .. m /\ i - 1 \in 0 .. m
        BY <1>1, <3>2
      <4>2. c[i] = ch[i] /\ o[i - 1] = off[i - 1] /\ off[i] = off[i - 1] + Len(ch[i]) /\ off[i] <= size
            /\ off[i - 1] \in Nat /\ Len(ch[i]) \in Nat
        BY <1>4, <1>5, <4>1 DEF Laid, Sized
      <4>3. j \in 1 .. Len(ch[i]) /\ off[i - 1] + j <= size /\ off[i - 1] + j \in 1 .. size + added
        BY <1>1, <4>2
      <4>4. bytes[off[i - 1] + j] = ch[i][j]
        BY <1>4, <4>1, <4>3 DEF Holds, size
      <4> QED BY <1>3, <4>2, <4>3, <4>4
    <3> QED BY <3>1, <3>2
  <2> QED BY <2>1 DEF Holds
<1>8. \A i \in 1 .. m + 1 : IsPieceOf(c[i], e[i])
  <2>1. \A i \in 1 .. m + 1 : i \in 1 .. m \/ i = m + 1
    BY <1>1
  <2> QED BY <1>2, <1>4, <1>5, <2>1
<1>9. o[m + 1] = Len(b)
  BY <1>3, <1>5
<1> QED BY <1>2, <1>6, <1>7, <1>8, <1>9 DEF Layout, b, e

LEMMA AppendKeepsFile ==
    ASSUME FileOK, NEW entry \in Entry, NEW iv \in Vector, AppendEntry(entry, iv)
    PROVE  FileOK'
<1> DEFINE t == entry.updateTime + Len(written)
           first == written = <<>>
           chunk == Chunk(entry, iv, t, first)
           record == Record(entry, t, first)
<1>1. entry.updateTime \in Nat /\ Len(written) \in Nat /\ MaxEntries \in Nat /\ Len(written) < MaxEntries
  <2>1. written \in Seq(AnyRecord) /\ Len(written) < MaxEntries
    BY DEF FileOK, AppendEntry
  <2> QED BY <2>1, EntryAssumption, FieldAssumption
<1>2. t \in Nat /\ first \in BOOLEAN /\ t < Word * Word
  <2>1. PICK n \in Nat : n = Word * Word
    BY FieldAssumption
  <2>2. entry.updateTime + MaxEntries < n
    BY <2>1, SizeAssumption
  <2> QED BY <1>1, <2>1, <2>2
<1>3. IsChunk(chunk, entry, iv, t, first)
  BY <1>2, ChunkIsChunk
<1>4. Sized(chunk)
  BY <1>2, <1>3, ChunkIsSized
<1>5. record \in AnyRecord /\ IsPieceOf(chunk, record)
  <2> HIDE DEF t, first, chunk
  <2> QED BY <1>2, <1>3 DEF AnyRecord, IsPieceOf
<1>6. written' = Append(written, record) /\ file' = file \o chunk
  BY DEF AppendEntry, Record, Chunk
<1> HIDE DEF t, first, chunk, record
<1>7. PICK off, ch : Layout(file, written, off, ch)
  BY DEF FileOK
<1>8. \E o, c : Layout(file \o chunk, Append(written, record), o, c)
  BY <1>4, <1>5, <1>7, LayoutExtends DEF FileOK
<1>9. file' \in Seq(Cell)
  <2>1. file \in Seq(Cell) /\ chunk \in Seq(Cell)
    BY <1>4 DEF FileOK, Sized
  <2> QED BY <1>6, <2>1, ConcatProperties
<1>10. written' \in Seq(AnyRecord) /\ Len(written') = Len(written) + 1
  BY <1>5, <1>6 DEF FileOK
<1> QED BY <1>1, <1>6, <1>8, <1>9, <1>10 DEF FileOK

(***************************************************************************)
(* Pieces in the order of their offsets.                                   *)
(***************************************************************************)
InOrder(s, T) ==
    s \in [1 .. Cardinality(T) -> T]
    /\ \A x, y \in 1 .. Cardinality(T) : x < y => s[x].offset < s[y].offset

HasOrder(T) == IsFiniteSet(T) /\ \E s : InOrder(s, T)

\* What is after all others goes to the end.
LEMMA OrderExtends ==
    ASSUME NEW U, HasOrder(U), NEW p, p \notin U, \A q \in U : q.offset < p.offset
    PROVE  HasOrder(U \cup {p})
<1>1. PICK s : InOrder(s, U)
  BY DEF HasOrder
<1>2. IsFiniteSet(U) /\ Cardinality(U) \in Nat
  BY FS_CardinalityType DEF HasOrder
<1>3. IsFiniteSet(U \cup {p}) /\ Cardinality(U \cup {p}) = Cardinality(U) + 1
  BY <1>2, FS_AddElement
<1> DEFINE c == Cardinality(U)
           r == [x \in 1 .. c + 1 |-> IF x = c + 1 THEN p ELSE s[x]]
<1>4. s \in [1 .. c -> U] /\ \A x, y \in 1 .. c : x < y => s[x].offset < s[y].offset
  BY <1>1 DEF InOrder
<1>5. c \in Nat
  BY <1>2
<1> HIDE DEF c
<1>6. \A x \in 1 .. c + 1 : x # c + 1 => x \in 1 .. c /\ s[x] \in U
  BY <1>4, <1>5
<1>7. r \in [1 .. c + 1 -> U \cup {p}]
  BY <1>6
<1>8. ASSUME NEW x \in 1 .. c + 1, NEW y \in 1 .. c + 1, x < y PROVE r[x].offset < r[y].offset
  <2>1. x # c + 1 /\ x \in 1 .. c
    BY <1>5, <1>8
  <2>2. r[x] = s[x] /\ s[x] \in U
    BY <1>6, <2>1
  <2>3. CASE y = c + 1
    BY <2>2, <2>3
  <2>4. CASE y # c + 1
    <3>1. y \in 1 .. c /\ r[y] = s[y]
      BY <1>6, <2>4
    <3> QED BY <1>4, <1>8, <2>1, <2>2, <3>1
  <2> QED BY <2>3, <2>4
<1> HIDE DEF r
<1>9. InOrder(r, U \cup {p})
  BY <1>3, <1>7, <1>8 DEF InOrder, c
<1> QED BY <1>3, <1>9 DEF HasOrder

LEMMA PiecesHaveOrder ==
    ASSUME NEW off, NEW ch, NEW m \in Nat, Laid(off, ch, m),
           NEW T, T \subseteq {PieceAt(off, ch, i) : i \in 1 .. m}
    PROVE  HasOrder(T)
<1> DEFINE First(n) == {PieceAt(off, ch, i) : i \in 1 .. n}
           Bad == {n \in Nat : n <= m /\ \E V : V \subseteq First(n) /\ ~HasOrder(V)}
<1>1. ASSUME NEW V, V \subseteq First(0) PROVE HasOrder(V)
  <2>1. V = {}
    BY <1>1
  <2>2. IsFiniteSet({}) /\ Cardinality({}) = 0
    BY FS_EmptySet
  <2>3. InOrder([x \in 1 .. 0 |-> 0], {})
    BY <2>2 DEF InOrder
  <2> QED BY <2>1, <2>2, <2>3 DEF HasOrder
<1>2. ASSUME NEW n \in Nat, n + 1 <= m, \A V : V \subseteq First(n) => HasOrder(V),
             NEW V, V \subseteq First(n + 1)
      PROVE  HasOrder(V)
  <2> DEFINE p == PieceAt(off, ch, n + 1)
             U == V \ {p}
  <2>1. U \subseteq First(n)
    <3>1. \A i \in 1 .. n + 1 : i \in 1 .. n \/ i = n + 1
      OBVIOUS
    <3> QED BY <1>2, <3>1
  <2>2. HasOrder(U)
    <3> HIDE DEF First, U
    <3> QED BY <1>2, <2>1
  <2>3. CASE p \in V
    <3>1. V = U \cup {p} /\ p \notin U
      BY <2>3
    <3>2. ASSUME NEW q \in U PROVE q.offset < p.offset
      <4>1. PICK i \in 1 .. n : q = PieceAt(off, ch, i)
        BY <2>1
      <4>2. q.offset = off[i - 1] /\ p.offset = off[n]
        <5>1. (n + 1) - 1 = n
          OBVIOUS
        <5> QED BY <4>1, <5>1 DEF PieceAt
      <4>3. i - 1 \in 0 .. m /\ n \in 0 .. m /\ i - 1 < n
        BY <1>2
      <4>4. off[i - 1] + 2 <= off[n] /\ off[i - 1] \in Nat /\ off[n] \in Nat
        BY <4>3, OffsetsGrow DEF Laid
      <4> QED BY <4>2, <4>4
    <3> HIDE DEF U, p
    <3> QED BY <2>2, <3>1, <3>2, OrderExtends
  <2>4. CASE p \notin V
    <3>1. V = U
      BY <2>4
    <3> HIDE DEF U, p
    <3> QED BY <2>2, <3>1
  <2> QED BY <2>3, <2>4
<1> HIDE DEF First
<1>3. Bad = {}
  <2> SUFFICES ASSUME Bad # {} PROVE FALSE
    OBVIOUS
  <2>1. PICK n \in Bad : \A t \in Bad : n <= t
    <3>1. Bad \in SUBSET Nat
      OBVIOUS
    <3> HIDE DEF Bad
    <3> QED BY <3>1, LeastNumber
  <2>2. n # 0
    BY <1>1
  <2>3. n - 1 \in Nat /\ ~(n <= n - 1) /\ n - 1 <= m /\ (n - 1) + 1 = n /\ n <= m
    BY <2>2
  <2>4. \A V : V \subseteq First(n - 1) => HasOrder(V)
    BY <2>1, <2>3
  <2>5. \A V : V \subseteq First((n - 1) + 1) => HasOrder(V)
    BY <1>2, <2>3, <2>4
  <2> QED BY <2>3, <2>5
<1>4. m \notin Bad
  BY <1>3
<1> QED BY <1>4 DEF First

\* Sorted, all are there.
LEMMA OrderIsWhole ==
    ASSUME NEW T, HasOrder(T), NEW s, InOrder(s, T), \A p \in T : p.offset \in Nat
    PROVE  \A p \in T : \E x \in 1 .. Cardinality(T) : s[x] = p
<1> DEFINE c == Cardinality(T)
<1>1. IsFiniteSet(T) /\ c \in Nat
  BY FS_CardinalityType DEF HasOrder
<1>2. s \in [1 .. c -> T] /\ \A x, y \in 1 .. c : x < y => s[x].offset < s[y].offset
  BY DEF InOrder
<1>3. Cardinality(1 .. c) = c
  BY <1>1, FS_Interval
<1> HIDE DEF c
<1>4. \A x, y \in 1 .. c : s[x] = s[y] => x = y
  <2>1. ASSUME NEW x \in 1 .. c, NEW y \in 1 .. c, s[x] = s[y] PROVE x = y
    <3>1. s[x].offset \in Nat /\ ~(s[x].offset < s[x].offset)
      BY <1>2
    <3>2. ~(x < y) /\ ~(y < x)
      BY <1>2, <2>1, <3>1
    <3> QED BY <1>1, <3>2
  <2> QED BY <2>1
<1>5. s \in Injection(1 .. c, T)
  BY <1>2, <1>4 DEF Injection, IsInjective
<1>6. s \in Surjection(1 .. c, T)
  BY <1>1, <1>3, <1>5, FS_Injection DEF c
<1> QED BY <1>6 DEF Surjection, c

\* What the compacted pieces are.
LEMMA CompactedAre ==
    ASSUME NEW bytes, NEW off, NEW ch, NEW m \in Nat, Laid(off, ch, m), Pieces(bytes) = PiecesAt(off, ch, m)
    PROVE  LET T == LastOfKeys(PiecesAt(off, ch, m))
           IN  InOrder(CompactedPieces(bytes), T)
               /\ \A p \in T : \E x \in 1 .. Cardinality(T) : CompactedPieces(bytes)[x] = p
<1> DEFINE T == LastOfKeys(PiecesAt(off, ch, m))
           s == CompactedPieces(bytes)
<1>1. Range(PiecesAt(off, ch, m)) = {PieceAt(off, ch, i) : i \in 1 .. m}
  BY DEF Range, PiecesAt
<1>2. T \subseteq {PieceAt(off, ch, i) : i \in 1 .. m}
  BY <1>1 DEF LastOfKeys
<1>3. s = CHOOSE r \in [1 .. Cardinality(T) -> T] :
            \A i, j \in DOMAIN r : i < j => r[i].offset < r[j].offset
  BY DEF CompactedPieces, Precedes
<1> HIDE DEF T, s
<1>4. HasOrder(T)
  BY <1>2, PiecesHaveOrder
<1>5. PICK r : InOrder(r, T)
  BY <1>4 DEF HasOrder
<1>6. r \in [1 .. Cardinality(T) -> T] /\ \A i, j \in DOMAIN r : i < j => r[i].offset < r[j].offset
  BY <1>5 DEF InOrder
<1>7. s \in [1 .. Cardinality(T) -> T] /\ \A i, j \in DOMAIN s : i < j => s[i].offset < s[j].offset
  BY <1>3, <1>6
<1>8. InOrder(s, T)
  BY <1>7 DEF InOrder
<1>9. \A p \in T : p.offset \in Nat
  <2>1. ASSUME NEW i \in 1 .. m PROVE PieceAt(off, ch, i).offset \in Nat
    <3>1. i - 1 \in 0 .. m
      OBVIOUS
    <3> QED BY <3>1 DEF PieceAt, Laid
  <2> QED BY <1>2, <2>1
<1> QED BY <1>4, <1>8, <1>9, OrderIsWhole DEF T, s

(***************************************************************************)
(* Keys, as bytes and as they were.                                        *)
(***************************************************************************)
IsEncrypted(piece) == Header(piece).encryptionMethod # "None"

\* A piece of a file is read as the entry it was made of.
LEMMA PieceIsRead ==
    ASSUME NEW off, NEW ch, NEW i, NEW record, IsPieceOf(ch[i], record)
    PROVE  DeserializeEntryBody(PieceAt(off, ch, i)) = record
<1>1. PICK entry \in Entry, iv \in Vector, t \in Nat, first \in BOOLEAN :
        t < Word * Word /\ IsChunk(ch[i], entry, iv, t, first) /\ record = Record(entry, t, first)
  BY DEF IsPieceOf
<1> QED BY <1>1, ChunkIsRead DEF PieceAt

\* Pieces with the same bytes for their keys have the same key, and both or none
\* are encrypted.
LEMMA BytesOfKeys ==
    ASSUME NEW off, NEW ch, NEW i, NEW j, NEW r, NEW s, IsPieceOf(ch[i], r), IsPieceOf(ch[j], s),
           KeyBytes(PieceAt(off, ch, i)) = KeyBytes(PieceAt(off, ch, j))
    PROVE  r.key = s.key /\ (IsEncrypted(PieceAt(off, ch, i)) <=> IsEncrypted(PieceAt(off, ch, j)))
<1>1. PICK d \in Entry, u \in Vector, t \in Nat, first \in BOOLEAN :
        IsChunk(ch[i], d, u, t, first) /\ r = Record(d, t, first)
  BY DEF IsPieceOf
<1>2. PICK e \in Entry, v \in Vector, k \in Nat, one \in BOOLEAN :
        IsChunk(ch[j], e, v, k, one) /\ s = Record(e, k, one)
  BY DEF IsPieceOf
<1>3. KeyCells(d, u) = KeyCells(e, v)
  BY <1>1, <1>2, ChunkBytes DEF PieceAt
<1>4. (IsEncrypted(PieceAt(off, ch, i)) <=> u # NoKey) /\ (IsEncrypted(PieceAt(off, ch, j)) <=> v # NoKey)
  <2>1. Header(PieceAt(off, ch, i)) = Fields(d, u, t, first) /\ Header(PieceAt(off, ch, j)) = Fields(e, v, k, one)
    BY <1>1, <1>2, ChunkHeader DEF PieceAt
  <2> QED BY <2>1 DEF IsEncrypted, Fields
<1>5. d.key \in Seq(TextCell) /\ e.key \in Seq(TextCell)
  BY EntryAssumption
<1>6. ASSUME NEW x, NEW y \in Seq(TextCell) PROVE Encrypt(x, ZeroBlock) # y
  <2>1. Encrypt(x, ZeroBlock)[1] = <<"cipher", x, ZeroBlock>> /\ Len(Encrypt(x, ZeroBlock)) = 1
    BY DEF Encrypt
  <2>2. ASSUME Encrypt(x, ZeroBlock) = y PROVE FALSE
    <3>1. y[1] \in TextCell
      <4>1. 1 \in 1 .. Len(y)
        BY <2>1, <2>2
      <4> QED BY <4>1, ElementOfSeq
    <3>2. PICK c \in Character : y[1] = <<"text", c>>
      BY <3>1 DEF TextCell
    <3>3. <<"cipher", x, ZeroBlock>>[1] = "cipher" /\ <<"text", c>>[1] = "text"
      OBVIOUS
    <3> QED BY <2>1, <2>2, <3>2, <3>3
  <2> QED BY <2>2
<1>7. r.key = d.key /\ s.key = e.key
  BY <1>1, <1>2 DEF Record
<1>8. CASE u = NoKey /\ v = NoKey
  BY <1>3, <1>4, <1>7, <1>8 DEF KeyCells
<1>9. CASE u # NoKey /\ v # NoKey
  <2>1. Encrypt(d.key, ZeroBlock) = Encrypt(e.key, ZeroBlock)
    BY <1>3, <1>9 DEF KeyCells
  <2>2. d.key = e.key
    BY <2>1, EncryptedComesBack
  <2> QED BY <1>4, <1>7, <1>9, <2>2
<1>10. (u = NoKey) <=> (v = NoKey)
  BY <1>3, <1>5, <1>6 DEF KeyCells
<1> QED BY <1>8, <1>9, <1>10

(***************************************************************************)
(* Compaction, of m pieces that are read as m entries.                     *)
(***************************************************************************)
LastIndices(off, ch, m) ==
    {i \in 1 .. m : \A j \in 1 .. m :
        KeyBytes(PieceAt(off, ch, j)) = KeyBytes(PieceAt(off, ch, i)) => j <= i}

LEMMA OffsetsTellIndices ==
    ASSUME NEW off, NEW ch, NEW m \in Nat, Laid(off, ch, m), NEW i \in 1 .. m, NEW j \in 1 .. m
    PROVE  /\ PieceAt(off, ch, j).offset <= PieceAt(off, ch, i).offset <=> j <= i
           /\ PieceAt(off, ch, j).offset < PieceAt(off, ch, i).offset <=> j < i
<1>1. i - 1 \in 0 .. m /\ j - 1 \in 0 .. m
  OBVIOUS
<1>2. off[i - 1] \in Nat /\ off[j - 1] \in Nat
  BY <1>1 DEF Laid
<1>3. (i < j => off[i - 1] + 2 <= off[j - 1]) /\ (j < i => off[j - 1] + 2 <= off[i - 1])
  BY <1>1, OffsetsGrow
<1> QED BY <1>2, <1>3 DEF PieceAt

LEMMA LastAreOfIndices ==
    ASSUME NEW off, NEW ch, NEW m \in Nat, Laid(off, ch, m)
    PROVE  LastOfKeys(PiecesAt(off, ch, m)) = {PieceAt(off, ch, i) : i \in LastIndices(off, ch, m)}
<1> DEFINE P(i) == PieceAt(off, ch, i)
<1>1. Range(PiecesAt(off, ch, m)) = {P(i) : i \in 1 .. m}
  BY DEF Range, PiecesAt
<1>2. ASSUME NEW i \in 1 .. m
      PROVE  (\A q \in {P(j) : j \in 1 .. m} : KeyBytes(q) = KeyBytes(P(i)) => q.offset <= P(i).offset)
                <=> i \in LastIndices(off, ch, m)
  <2>1. (\A q \in {P(j) : j \in 1 .. m} : KeyBytes(q) = KeyBytes(P(i)) => q.offset <= P(i).offset)
        <=> \A j \in 1 .. m : KeyBytes(P(j)) = KeyBytes(P(i)) => P(j).offset <= P(i).offset
    OBVIOUS
  <2>2. \A j \in 1 .. m : P(j).offset <= P(i).offset <=> j <= i
    BY OffsetsTellIndices
  <2> QED BY <2>1, <2>2 DEF LastIndices
<1>3. LastIndices(off, ch, m) \subseteq 1 .. m
  BY DEF LastIndices
<1> HIDE DEF P
<1>4. LastOfKeys(PiecesAt(off, ch, m)) = {P(i) : i \in LastIndices(off, ch, m)}
  BY <1>1, <1>2, <1>3 DEF LastOfKeys
<1> QED BY <1>4 DEF P

\* After each piece, or there, is the last with its bytes for a key.
LEMMA LastIndexExists ==
    ASSUME NEW off, NEW ch, NEW m \in Nat, NEW i \in 1 .. m
    PROVE  \E j \in LastIndices(off, ch, m) :
              i <= j /\ KeyBytes(PieceAt(off, ch, j)) = KeyBytes(PieceAt(off, ch, i))
<1> DEFINE KB(j) == KeyBytes(PieceAt(off, ch, j))
           T == {d \in Nat : m - d \in 1 .. m /\ KB(m - d) = KB(i)}
<1>1. PICK d \in T : \A e \in T : d <= e
  <2>1. T \in SUBSET Nat
    OBVIOUS
  <2>2. m - i \in T
    <3>1. m - i \in Nat /\ m - (m - i) = i
      OBVIOUS
    <3> QED BY <3>1
  <2> HIDE DEF T
  <2> QED BY <2>1, <2>2, LeastNumber
<1>2. d \in Nat /\ m - d \in 1 .. m /\ KB(m - d) = KB(i)
  OBVIOUS
<1>3. ASSUME NEW j \in 1 .. m, KB(j) = KB(i) PROVE j <= m - d
  <2>1. m - j \in Nat /\ m - (m - j) = j
    OBVIOUS
  <2>2. m - j \in T
    BY <1>3, <2>1
  <2>3. d <= m - j
    BY <1>1, <2>2
  <2> QED BY <1>2, <2>3
<1> HIDE DEF T, KB
<1>4. i <= m - d
  BY <1>3
<1>5. m - d \in LastIndices(off, ch, m)
  BY <1>2, <1>3 DEF LastIndices, KB
<1> QED BY <1>2, <1>4, <1>5 DEF KB

\* What pieces are laid out for entries.
Reads(off, ch, m, w) ==
    /\ Laid(off, ch, m) /\ w = [i \in 1 .. m |-> w[i]]
    /\ \A i \in 1 .. m : IsPieceOf(ch[i], w[i])

LEMMA PiecesReadAsEntries ==
    ASSUME NEW off, NEW ch, NEW m \in Nat, NEW w, Reads(off, ch, m, w),
           NEW bytes, Pieces(bytes) = PiecesAt(off, ch, m)
    PROVE  DeserializeEntries(bytes) = w /\ ~IsCorrupted(bytes)
<1> DEFINE ps == PiecesAt(off, ch, m)
<1>1. DOMAIN ps = 1 .. m /\ \A i \in 1 .. m : ps[i] = PieceAt(off, ch, i)
  BY DEF PiecesAt
<1> HIDE DEF ps
<1>2. \A i \in 1 .. m : DeserializeEntryBody(ps[i]) = w[i]
  <2>1. ASSUME NEW i \in 1 .. m PROVE DeserializeEntryBody(PieceAt(off, ch, i)) = w[i]
    <3>1. IsPieceOf(ch[i], w[i])
      BY DEF Reads
    <3> QED BY <3>1, PieceIsRead
  <2> QED BY <1>1, <2>1
<1>3. DeserializeEntries(bytes) = [i \in 1 .. m |-> DeserializeEntryBody(ps[i])]
  BY <1>1 DEF DeserializeEntries, ps
<1>4. DeserializeEntries(bytes) = w
  BY <1>2, <1>3 DEF Reads
<1>5. ASSUME NEW i \in 1 .. m PROVE ps[i].bytes # <<>>
  <2>1. ps[i].bytes = ch[i] /\ Sized(ch[i])
    BY <1>1 DEF PieceAt, Reads, Laid
  <2>2. Len(ch[i]) >= 2 /\ Len(<<>>) = 0
    BY <2>1 DEF Sized
  <2> QED BY <2>1, <2>2
<1> QED BY <1>1, <1>4, <1>5 DEF IsCorrupted, ps

\* Compaction by the bytes of keys keeps the last of each key, in the order of
\* the file: of one key written with and without encryption both pieces stay,
\* and the later one comes later.
LEMMA LatestOfCompacted ==
    ASSUME NEW off, NEW ch, NEW m \in Nat, NEW w, Reads(off, ch, m, w),
           NEW bytes, Pieces(bytes) = PiecesAt(off, ch, m)
    PROVE  /\ LatestRevisions(CompactAndDeserializeEntries(bytes)) = LatestRevisions(w)
           /\ NeedsKey(CompactedPieces(bytes)) <=> NeedsKey(Pieces(bytes))
<1> DEFINE P(i) == PieceAt(off, ch, i)
           A == LastIndices(off, ch, m)
           T == LastOfKeys(PiecesAt(off, ch, m))
           s == CompactedPieces(bytes)
           c == Cardinality(T)
           d == CompactAndDeserializeEntries(bytes)
<1>1. Laid(off, ch, m) /\ w = [i \in 1 .. m |-> w[i]] /\ \A i \in 1 .. m : IsPieceOf(ch[i], w[i])
  BY DEF Reads
<1>2. T = {P(i) : i \in A} /\ A \subseteq 1 .. m
  BY <1>1, LastAreOfIndices DEF LastIndices
<1>3. InOrder(s, T) /\ \A p \in T : \E x \in 1 .. c : s[x] = p
  BY <1>1, CompactedAre
<1>4. c \in Nat
  <2>1. HasOrder(T)
    <3>1. T \subseteq {PieceAt(off, ch, i) : i \in 1 .. m}
      BY <1>2
    <3> HIDE DEF T
    <3> QED BY <1>1, <3>1, PiecesHaveOrder
  <2> QED BY <2>1, FS_CardinalityType DEF HasOrder
<1>5. s \in [1 .. c -> T] /\ \A x, y \in 1 .. c : x < y => s[x].offset < s[y].offset
  BY <1>3 DEF InOrder
<1>6. DOMAIN s = 1 .. c /\ d = [x \in 1 .. c |-> DeserializeEntryBody(s[x])]
  BY <1>5 DEF CompactAndDeserializeEntries
<1> HIDE DEF s, c, d, T
<1>7. \A i \in 1 .. m : DeserializeEntryBody(P(i)) = w[i]
  BY <1>1, PieceIsRead
<1>8. \A i, j \in 1 .. m : P(j).offset < P(i).offset <=> j < i
  BY <1>1, OffsetsTellIndices
<1>9. \A i, j \in 1 .. m : KeyBytes(P(i)) = KeyBytes(P(j)) =>
          w[i].key = w[j].key /\ (IsEncrypted(P(i)) <=> IsEncrypted(P(j)))
  BY <1>1, BytesOfKeys
<1>10. \A i \in 1 .. m : \E j \in A : i <= j /\ KeyBytes(P(j)) = KeyBytes(P(i))
  BY LastIndexExists
<1>11. \A i \in A, j \in 1 .. m : KeyBytes(P(j)) = KeyBytes(P(i)) => j <= i
  BY DEF LastIndices
<1> HIDE DEF P, A
<1>12. \A x \in 1 .. c : \E i \in A : s[x] = P(i) /\ d[x] = w[i]
  <2>1. ASSUME NEW x \in 1 .. c PROVE \E i \in A : s[x] = P(i) /\ d[x] = w[i]
    <3>1. s[x] \in T /\ d[x] = DeserializeEntryBody(s[x])
      BY <1>5, <1>6
    <3>2. PICK i \in A : s[x] = P(i)
      BY <1>2, <3>1
    <3> QED BY <1>2, <1>7, <3>1, <3>2
  <2> QED BY <2>1
<1>13. \A i \in A : \E x \in 1 .. c : s[x] = P(i) /\ d[x] = w[i]
  <2>1. ASSUME NEW i \in A PROVE \E x \in 1 .. c : s[x] = P(i) /\ d[x] = w[i]
    <3>1. P(i) \in T /\ DeserializeEntryBody(P(i)) = w[i]
      BY <1>2, <1>7
    <3>2. PICK x \in 1 .. c : s[x] = P(i)
      BY <1>3, <3>1 DEF c
    <3>3. d[x] = DeserializeEntryBody(s[x])
      BY <1>6
    <3> QED BY <3>1, <3>2, <3>3
  <2> QED BY <2>1
<1>14. ASSUME NEW x \in 1 .. c, NEW y \in 1 .. c, NEW i \in A, NEW j \in A, s[x] = P(i), s[y] = P(j)
       PROVE  j <= i <=> y <= x
  <2>1. i \in 1 .. m /\ j \in 1 .. m
    BY <1>2
  <2>2. x < y => i < j
    BY <1>5, <1>8, <1>14, <2>1
  <2>3. y < x => j < i
    BY <1>5, <1>8, <1>14, <2>1
  <2>4. x = y => i = j
    <3>1. ASSUME x = y PROVE ~(i < j) /\ ~(j < i)
      <4>1. P(i) = P(j) /\ ~(i < i) /\ ~(j < j)
        BY <1>14, <2>1, <3>1
      <4> QED BY <1>8, <2>1, <4>1
    <3> QED BY <2>1, <3>1
  <2> QED BY <1>4, <2>1, <2>2, <2>3, <2>4
<1>15. DOMAIN w = 1 .. m /\ DOMAIN d = 1 .. c
  BY <1>1, <1>6
<1>16. ASSUME NEW i \in 1 .. m, \A j \in 1 .. m : w[j].key = w[i].key => j <= i
       PROVE  w[i] \in LatestRevisions(d)
  <2>1. PICK k \in A : i <= k /\ KeyBytes(P(k)) = KeyBytes(P(i))
    BY <1>10
  <2>2. k \in 1 .. m /\ w[k].key = w[i].key
    BY <1>2, <1>9, <2>1
  <2>3. k = i
    BY <1>16, <2>1, <2>2
  <2>4. PICK x \in 1 .. c : s[x] = P(i) /\ d[x] = w[i]
    BY <1>13, <2>1, <2>3
  <2>5. ASSUME NEW y \in 1 .. c, d[y].key = d[x].key PROVE y <= x
    <3>1. PICK j \in A : s[y] = P(j) /\ d[y] = w[j]
      BY <1>12
    <3>2. j \in 1 .. m /\ w[j].key = w[i].key
      BY <1>2, <2>4, <2>5, <3>1
    <3>3. j <= i
      BY <1>16, <3>2
    <3> QED BY <1>14, <2>1, <2>3, <2>4, <3>1, <3>3
  <2> QED BY <1>15, <2>4, <2>5 DEF LatestRevisions
<1>17. ASSUME NEW x \in 1 .. c, \A y \in 1 .. c : d[y].key = d[x].key => y <= x
       PROVE  d[x] \in LatestRevisions(w)
  <2>1. PICK i \in A : s[x] = P(i) /\ d[x] = w[i]
    BY <1>12
  <2>2. i \in 1 .. m
    BY <1>2
  <2>3. ASSUME NEW j \in 1 .. m, w[j].key = w[i].key PROVE j <= i
    <3>1. PICK k \in A : j <= k /\ KeyBytes(P(k)) = KeyBytes(P(j))
      BY <1>10
    <3>2. k \in 1 .. m /\ w[k].key = w[i].key
      BY <1>2, <1>9, <2>3, <3>1
    <3>3. PICK y \in 1 .. c : s[y] = P(k) /\ d[y] = w[k]
      BY <1>13
    <3>4. y <= x
      BY <1>17, <2>1, <3>2, <3>3
    <3>5. k <= i
      BY <1>14, <2>1, <3>3, <3>4
    <3> QED BY <2>2, <3>1, <3>2, <3>5
  <2> QED BY <1>15, <2>1, <2>2, <2>3 DEF LatestRevisions
<1>18. LatestRevisions(d) = LatestRevisions(w)
  <2>1. ASSUME NEW r \in LatestRevisions(d) PROVE r \in LatestRevisions(w)
    <3>1. PICK x \in 1 .. c : r = d[x] /\ \A y \in 1 .. c : d[y].key = d[x].key => y <= x
      BY <1>15 DEF LatestRevisions
    <3> QED BY <1>17, <3>1
  <2>2. ASSUME NEW r \in LatestRevisions(w) PROVE r \in LatestRevisions(d)
    <3>1. PICK i \in 1 .. m : r = w[i] /\ \A j \in 1 .. m : w[j].key = w[i].key => j <= i
      BY <1>15 DEF LatestRevisions
    <3> QED BY <1>16, <3>1
  <2> QED BY <2>1, <2>2
<1>19. NeedsKey(Pieces(bytes)) <=> \E i \in 1 .. m : IsEncrypted(P(i))
  <2>1. DOMAIN Pieces(bytes) = 1 .. m /\ \A i \in 1 .. m : Pieces(bytes)[i] = P(i)
    BY DEF PiecesAt, P
  <2> QED BY <2>1 DEF NeedsKey, IsEncrypted
<1>20. NeedsKey(s) <=> \E x \in 1 .. c : IsEncrypted(s[x])
  BY <1>6 DEF NeedsKey, IsEncrypted
<1>21. NeedsKey(s) <=> NeedsKey(Pieces(bytes))
  <2>1. ASSUME NEW x \in 1 .. c, IsEncrypted(s[x]) PROVE \E i \in 1 .. m : IsEncrypted(P(i))
    BY <1>2, <1>12, <2>1
  <2>2. ASSUME NEW i \in 1 .. m, IsEncrypted(P(i)) PROVE \E x \in 1 .. c : IsEncrypted(s[x])
    <3>1. PICK k \in A : KeyBytes(P(k)) = KeyBytes(P(i))
      BY <1>10
    <3>2. k \in 1 .. m /\ IsEncrypted(P(k))
      BY <1>2, <1>9, <2>2, <3>1
    <3> QED BY <1>13, <3>2
  <2> QED BY <1>19, <1>20, <2>1, <2>2
<1> QED BY <1>18, <1>21 DEF s, d

\* Of any part of a file, the pieces it has.
LEMMA PartOfFile ==
    ASSUME FileOK, NEW n \in 0 .. Len(file), ~IsCorrupted(SubSeq(file, 1, n))
    PROVE  \E m \in 0 .. Len(written) : \E off, ch :
              Reads(off, ch, m, SubSeq(written, 1, m))
              /\ Pieces(SubSeq(file, 1, n)) = PiecesAt(off, ch, m)
              /\ off[m] = n
<1> DEFINE part == SubSeq(file, 1, n)
           last == Len(written)
<1>1. PICK off, ch : Layout(file, written, off, ch)
  BY DEF FileOK
<1>2. file \in Seq(Cell) /\ written \in Seq(AnyRecord) /\ last \in Nat /\ Len(file) \in Nat
  BY DEF FileOK
<1>3. Laid(off, ch, last) /\ Holds(file, off, ch, last) /\ off[last] = Len(file)
      /\ \A i \in 1 .. last : IsPieceOf(ch[i], written[i])
  BY <1>1 DEF Layout
<1>4. part \in Seq(Cell) /\ Len(part) = n /\ \A i \in 1 .. n : part[i] = file[i]
  BY <1>2
<1>5. \A m \in 0 .. last : off[m] \in Nat
  BY <1>3 DEF Laid
<1>6. \A m \in 0 .. last : Laid(off, ch, m)
  BY <1>3 DEF Laid
<1> HIDE DEF part, last
<1>7. \A m \in 0 .. last : Holds(part, off, ch, m)
  <2>1. ASSUME NEW m \in 0 .. last, NEW i \in 1 .. m, NEW j \in 1 .. Len(ch[i]), off[i - 1] + j <= Len(part)
        PROVE  part[off[i - 1] + j] = ch[i][j]
    <3>1. i \in 1 .. last /\ i - 1 \in 0 .. last
      BY <1>2
    <3>2. off[i - 1] \in Nat /\ Len(ch[i]) \in Nat
      BY <1>3, <1>5, <3>1 DEF Laid, Sized
    <3>3. off[i - 1] + j \in 1 .. n /\ off[i - 1] + j <= Len(file)
      BY <1>2, <1>4, <2>1, <3>2
    <3> QED BY <1>3, <1>4, <3>1, <3>3 DEF Holds
  <2> QED BY <2>1 DEF Holds
<1> DEFINE Rest == {e \in Nat : last - e \in 0 .. last /\ off[last - e] <= n}
<1>8. PICK e \in Rest : \A x \in Rest : e <= x
  <2>1. Rest \in SUBSET Nat
    OBVIOUS
  <2>2. last \in Rest
    <3>1. last - last = 0 /\ 0 \in 0 .. last /\ off[0] = 0
      BY <1>2, <1>3 DEF Laid
    <3> QED BY <1>2, <3>1
  <2> HIDE DEF Rest
  <2> QED BY <2>1, <2>2, LeastNumber
<1> DEFINE m == last - e
<1>9. m \in 0 .. last /\ off[m] <= n /\ e \in Nat
  OBVIOUS
<1>10. m < last => off[m + 1] > n
  <2>1. CASE m < last
    <3>1. e - 1 \in Nat /\ ~(e <= e - 1) /\ last - (e - 1) = m + 1 /\ m + 1 \in 0 .. last
      BY <1>2, <1>9, <2>1
    <3>2. e - 1 \notin Rest
      BY <1>8, <3>1
    <3>3. ~(off[m + 1] <= n)
      BY <3>1, <3>2
    <3> QED BY <1>5, <3>1, <3>3
  <2> QED BY <2>1
<1> HIDE DEF Rest, m
<1>11. m \in Nat /\ m <= last
  BY <1>2, <1>9
<1>12. off[m] = n
  <2> SUFFICES ASSUME off[m] # n PROVE FALSE
    OBVIOUS
  <2>1. off[m] < n
    BY <1>5, <1>9
  <2>2. m # last
    BY <1>3, <2>1, <1>2
  <2>3. m < last /\ m + 1 \in 0 .. last
    BY <1>2, <1>11, <2>2
  <2>4. off[m] < Len(part) /\ Len(part) < off[m + 1]
    BY <1>4, <1>5, <1>10, <2>1, <2>3
  <2>5. Laid(off, ch, m) /\ Laid(off, ch, m + 1) /\ Holds(part, off, ch, m + 1)
    BY <1>6, <1>7, <1>9, <2>3
  <2>6. IsCorrupted(part)
    BY <1>4, <1>11, <2>4, <2>5, CutPiece
  <2> QED BY <2>6 DEF part
<1>13. Pieces(part) = PiecesAt(off, ch, m)
  <2>1. Laid(off, ch, m) /\ Holds(part, off, ch, m) /\ off[m] = Len(part)
    BY <1>4, <1>6, <1>7, <1>9, <1>12
  <2> QED BY <1>4, <1>11, <2>1, WholePieces
<1>14. Reads(off, ch, m, SubSeq(written, 1, m))
  <2> DEFINE w == SubSeq(written, 1, m)
  <2>1. w = [i \in 1 .. m |-> w[i]] /\ \A i \in 1 .. m : w[i] = written[i] /\ i \in 1 .. last
    BY <1>2, <1>11 DEF last
  <2> HIDE DEF w
  <2>2. Reads(off, ch, m, w)
    BY <1>3, <1>6, <1>9, <2>1 DEF Reads
  <2> QED BY <2>2 DEF w
<1> QED BY <1>9, <1>12, <1>13, <1>14 DEF part, last

LEMMA FileIsRead == FileOK => LatestRevisionsAreRead
<1> SUFFICES ASSUME FileOK PROVE LatestRevisionsAreRead
  OBVIOUS
<1>1. file \in Seq(Cell) /\ written \in Seq(AnyRecord) /\ Len(written) \in Nat /\ Len(file) \in Nat
  BY DEF FileOK
<1>2. ~IsCorrupted(file) /\ DeserializeEntries(file) = written
  <2>1. PICK off, ch : Layout(file, written, off, ch)
    BY DEF FileOK
  <2>2. Pieces(file) = PiecesAt(off, ch, Len(written))
    BY <1>1, <2>1, WholePieces DEF Layout
  <2>3. Reads(off, ch, Len(written), written)
    BY <1>1, <2>1 DEF Layout, Reads
  <2> QED BY <1>1, <2>2, <2>3, PiecesReadAsEntries
<1>3. ASSUME NEW n \in 0 .. Len(file), ~IsCorrupted(SubSeq(file, 1, n))
      PROVE  \E m \in 0 .. Len(written) :
                /\ DeserializeEntries(SubSeq(file, 1, n)) = SubSeq(written, 1, m)
                /\ LatestRevisions(CompactAndDeserializeEntries(SubSeq(file, 1, n)))
                     = LatestRevisions(SubSeq(written, 1, m))
                /\ NeedsKey(CompactedPieces(SubSeq(file, 1, n))) <=> NeedsKey(Pieces(SubSeq(file, 1, n)))
  <2>0. PICK m \in 0 .. Len(written) : \E off, ch :
          Reads(off, ch, m, SubSeq(written, 1, m)) /\ Pieces(SubSeq(file, 1, n)) = PiecesAt(off, ch, m)
    BY <1>3, PartOfFile
  <2>1. PICK off, ch :
          Reads(off, ch, m, SubSeq(written, 1, m)) /\ Pieces(SubSeq(file, 1, n)) = PiecesAt(off, ch, m)
    BY <2>0
  <2>2. m \in Nat
    BY <1>1
  <2> DEFINE w == SubSeq(written, 1, m)
             part == SubSeq(file, 1, n)
  <2>3. Reads(off, ch, m, w) /\ Pieces(part) = PiecesAt(off, ch, m)
    BY <2>1
  <2> HIDE DEF w, part
  <2>4. DeserializeEntries(part) = w
    BY <2>2, <2>3, PiecesReadAsEntries
  <2>5. LatestRevisions(CompactAndDeserializeEntries(part)) = LatestRevisions(w)
        /\ (NeedsKey(CompactedPieces(part)) <=> NeedsKey(Pieces(part)))
    BY <2>2, <2>3, LatestOfCompacted
  <2> QED BY <2>4, <2>5 DEF w, part
<1> QED BY <1>2, <1>3 DEF LatestRevisionsAreRead

\* Files have pieces of entries at all times.
LEMMA FileStaysOK == Spec => []FileOK
<1>1. Init => FileOK
  BY InitFile DEF Init
<1>2. FileOK /\ [Next]_representationVars => FileOK'
  <2> SUFFICES ASSUME FileOK, [Next]_representationVars PROVE FileOK'
    OBVIOUS
  <2>1. CASE ChangeFile
    BY <2>1, AppendKeepsFile DEF ChangeFile, Vector
  <2>2. CASE UNCHANGED <<written, file>>
    <3>1. written' = written /\ file' = file
      BY <2>2
    <3> QED BY <3>1 DEF FileOK
  <2> QED BY <2>1, <2>2 DEF Next, ChangeLookup, representationVars
<1> QED BY <1>1, <1>2, PTL DEF Spec

\* Any part of a file of entries, of any keys, values, sizes and times that the
\* fields have room for, is refused or read as the entries that were first
\* written, with the latest of each key when it is compacted, and needs a key
\* compacted if and only if it does whole.
THEOREM EntriesComeBack == Spec => []LatestRevisionsAreRead
  BY FileStaysOK, FileIsRead, PTL

(***************************************************************************)
(* Numerals.                                                               *)
(***************************************************************************)
NumeralStep(g, m) ==
    IF m < 10 THEN <<Digits[m + 1]>> ELSE Append(g[m \div 10], Digits[(m % 10) + 1])

AreNumerals(g, n) == g = [m \in 0 .. n |-> NumeralStep(g, m)]

LEMMA NumeralsExist ==
    ASSUME NEW n \in Nat
    PROVE  \E g : AreNumerals(g, n)
<1> DEFINE T == {m \in Nat : ~ \E g : AreNumerals(g, m)}
<1>1. ASSUME NEW m \in Nat, m = 0 PROVE \E g : AreNumerals(g, m)
  <2> DEFINE g == [x \in 0 .. m |-> <<Digits[1]>>]
  <2>1. g = [x \in 0 .. m |-> NumeralStep(g, x)]
    <3>1. \A x \in 0 .. m : x = 0 /\ 0 < 10 /\ 0 + 1 = 1
      BY <1>1
    <3> QED BY <3>1 DEF NumeralStep
  <2> QED BY <2>1 DEF AreNumerals
<1>2. ASSUME NEW m \in Nat, NEW g, AreNumerals(g, m) PROVE \E h : AreNumerals(h, m + 1)
  <2> DEFINE h == [x \in 0 .. m + 1 |-> NumeralStep(g, x)]
  <2>1. ASSUME NEW x \in 0 .. m + 1 PROVE h[x] = NumeralStep(h, x)
    <3>1. CASE x < 10
      BY <3>1 DEF NumeralStep
    <3>2. CASE ~(x < 10)
      <4>1. x \div 10 \in 0 .. m /\ x \div 10 \in 0 .. m + 1
        BY <3>2
      <4>2. g[x \div 10] = NumeralStep(g, x \div 10)
        BY <1>2, <4>1 DEF AreNumerals
      <4>3. h[x \div 10] = g[x \div 10]
        BY <4>1, <4>2
      <4>4. h[x] = NumeralStep(g, x)
        OBVIOUS
      <4> HIDE DEF h
      <4> QED BY <3>2, <4>3, <4>4 DEF NumeralStep
    <3> QED BY <3>1, <3>2
  <2>2. h = [x \in 0 .. m + 1 |-> h[x]]
    OBVIOUS
  <2> HIDE DEF h
  <2>3. h = [x \in 0 .. m + 1 |-> NumeralStep(h, x)]
    BY <2>1, <2>2
  <2> QED BY <2>3 DEF AreNumerals
<1>3. T = {}
  <2> SUFFICES ASSUME T # {} PROVE FALSE
    OBVIOUS
  <2>1. PICK m \in T : \A t \in T : m <= t
    <3>1. T \in SUBSET Nat
      OBVIOUS
    <3> HIDE DEF T
    <3> QED BY <3>1, LeastNumber
  <2>2. m \in Nat /\ ~ \E g : AreNumerals(g, m)
    OBVIOUS
  <2>3. m # 0
    BY <1>1, <2>2
  <2>4. m - 1 \in Nat /\ ~(m <= m - 1) /\ (m - 1) + 1 = m
    BY <2>2, <2>3
  <2>5. PICK g : AreNumerals(g, m - 1)
    <3>1. m - 1 \notin T
      BY <2>1, <2>4
    <3> QED BY <2>4, <3>1
  <2>6. \E h : AreNumerals(h, (m - 1) + 1)
    BY <1>2, <2>4, <2>5
  <2> QED BY <2>2, <2>4, <2>6
<1> QED BY <1>3

LEMMA NumeralIs ==
    ASSUME NEW n \in Nat
    PROVE  \E g : AreNumerals(g, n) /\ Numeral(n) = g[n]
<1> DEFINE chosen == CHOOSE g : g = [m \in 0 .. n |-> NumeralStep(g, m)]
<1>1. Numeral(n) = chosen[n]
  BY DEF Numeral, NumeralStep
<1>2. chosen = [m \in 0 .. n |-> NumeralStep(chosen, m)]
  <2>1. PICK g : AreNumerals(g, n)
    BY NumeralsExist
  <2>2. \E h : h = [m \in 0 .. n |-> NumeralStep(h, m)]
    BY <2>1 DEF AreNumerals
  <2> QED BY <2>2
<1> QED BY <1>1, <1>2 DEF AreNumerals

DigitSet == Range(Digits)

LEMMA DigitsAre ==
    /\ DigitSet = {"0", "1", "2", "3", "4", "5", "6", "7", "8", "9"}
    /\ \A m \in 0 .. 9 : Digits[m + 1] \in DigitSet
    /\ \A m, n \in 0 .. 9 : Digits[m + 1] = Digits[n + 1] => m = n
<1>1. DigitSet = {"0", "1", "2", "3", "4", "5", "6", "7", "8", "9"}
  BY DEF DigitSet, Digits, Range
<1>2. \A m \in 0 .. 9 : Digits[m + 1] \in DigitSet
  BY DEF DigitSet, Digits, Range
<1>3. \A m, n \in 0 .. 9 : Digits[m + 1] = Digits[n + 1] => m = n
  BY DEF Digits
<1> QED BY <1>1, <1>2, <1>3

\* A numeral is of digits, and has one at least.
LEMMA NumeralsAreDigits ==
    ASSUME NEW n \in Nat, NEW g, AreNumerals(g, n)
    PROVE  \A m \in 0 .. n : g[m] \in Seq(DigitSet) /\ Len(g[m]) >= 1
<1> DEFINE T == {m \in Nat : m <= n /\ ~(g[m] \in Seq(DigitSet) /\ Len(g[m]) >= 1)}
<1>1. T = {}
  <2> SUFFICES ASSUME T # {} PROVE FALSE
    OBVIOUS
  <2>1. PICK m \in T : \A t \in T : m <= t
    <3>1. T \in SUBSET Nat
      OBVIOUS
    <3> HIDE DEF T
    <3> QED BY <3>1, LeastNumber
  <2>2. m \in Nat /\ m <= n /\ ~(g[m] \in Seq(DigitSet) /\ Len(g[m]) >= 1)
    OBVIOUS
  <2>3. g[m] = NumeralStep(g, m)
    BY <2>2 DEF AreNumerals
  <2>4. CASE m < 10
    <3>1. Digits[m + 1] \in DigitSet
      BY <2>2, <2>4, DigitsAre
    <3> QED BY <2>2, <2>3, <2>4, <3>1 DEF NumeralStep
  <2>5. CASE ~(m < 10)
    <3>1. m % 10 \in 0 .. 9 /\ m \div 10 \in Nat /\ ~(m <= m \div 10) /\ m \div 10 <= n
      BY <2>2, <2>5
    <3>2. Digits[(m % 10) + 1] \in DigitSet
      BY <3>1, DigitsAre
    <3>3. g[m \div 10] \in Seq(DigitSet) /\ Len(g[m \div 10]) >= 1
      BY <2>1, <3>1
    <3>4. g[m] = Append(g[m \div 10], Digits[(m % 10) + 1])
      BY <2>3, <2>5 DEF NumeralStep
    <3> QED BY <2>2, <3>2, <3>3, <3>4
  <2> QED BY <2>4, <2>5
<1> QED BY <1>1

(***************************************************************************)
(* parseInt.                                                               *)
(***************************************************************************)
DigitOf(d) == CHOOSE m \in 0 .. 9 : Digits[m + 1] = d

ValueStep(digits, v, i) == IF i = 0 THEN 0 ELSE 10 * v[i - 1] + DigitOf(digits[i])

AreValues(digits, v, last) == v = [i \in 0 .. last |-> ValueStep(digits, v, i)]

LEMMA ValuesExist ==
    ASSUME NEW digits, NEW last \in Nat
    PROVE  \E v : AreValues(digits, v, last)
<1> DEFINE T == {m \in Nat : ~ \E v : AreValues(digits, v, m)}
<1>1. ASSUME NEW m \in Nat, m = 0 PROVE \E v : AreValues(digits, v, m)
  <2> DEFINE v == [x \in 0 .. m |-> 0]
  <2>1. v = [x \in 0 .. m |-> ValueStep(digits, v, x)]
    <3>1. \A x \in 0 .. m : x = 0
      BY <1>1
    <3> QED BY <3>1 DEF ValueStep
  <2> QED BY <2>1 DEF AreValues
<1>2. ASSUME NEW m \in Nat, NEW g, AreValues(digits, g, m) PROVE \E h : AreValues(digits, h, m + 1)
  <2> DEFINE h == [x \in 0 .. m + 1 |-> ValueStep(digits, g, x)]
  <2>1. ASSUME NEW x \in 0 .. m + 1 PROVE h[x] = ValueStep(digits, h, x)
    <3>1. CASE x = 0
      BY <3>1 DEF ValueStep
    <3>2. CASE x # 0
      <4>1. x - 1 \in 0 .. m /\ x - 1 \in 0 .. m + 1
        BY <3>2
      <4>2. g[x - 1] = ValueStep(digits, g, x - 1)
        BY <1>2, <4>1 DEF AreValues
      <4>3. h[x - 1] = g[x - 1]
        BY <4>1, <4>2
      <4>4. h[x] = ValueStep(digits, g, x)
        OBVIOUS
      <4> HIDE DEF h
      <4> QED BY <3>2, <4>3, <4>4 DEF ValueStep
    <3> QED BY <3>1, <3>2
  <2>2. h = [x \in 0 .. m + 1 |-> h[x]]
    OBVIOUS
  <2> HIDE DEF h
  <2>3. h = [x \in 0 .. m + 1 |-> ValueStep(digits, h, x)]
    BY <2>1, <2>2
  <2> QED BY <2>3 DEF AreValues
<1>3. T = {}
  <2> SUFFICES ASSUME T # {} PROVE FALSE
    OBVIOUS
  <2>1. PICK m \in T : \A t \in T : m <= t
    <3>1. T \in SUBSET Nat
      OBVIOUS
    <3> HIDE DEF T
    <3> QED BY <3>1, LeastNumber
  <2>2. m \in Nat /\ ~ \E g : AreValues(digits, g, m)
    OBVIOUS
  <2>3. m # 0
    BY <1>1, <2>2
  <2>4. m - 1 \in Nat /\ ~(m <= m - 1) /\ (m - 1) + 1 = m
    BY <2>2, <2>3
  <2>5. PICK g : AreValues(digits, g, m - 1)
    <3>1. m - 1 \notin T
      BY <2>1, <2>4
    <3> QED BY <2>4, <3>1
  <2>6. \E h : AreValues(digits, h, (m - 1) + 1)
    BY <1>2, <2>4, <2>5
  <2> QED BY <2>2, <2>4, <2>6
<1> QED BY <1>3

LEMMA ParseIntIs ==
    ASSUME NEW digits, Len(digits) \in Nat
    PROVE  \E v : AreValues(digits, v, Len(digits)) /\ ParseInt(digits) = v[Len(digits)]
<1> DEFINE chosen == CHOOSE v : v = [i \in 0 .. Len(digits) |-> ValueStep(digits, v, i)]
<1>1. ParseInt(digits) = chosen[Len(digits)]
  BY DEF ParseInt, ValueStep, DigitOf
<1>2. chosen = [i \in 0 .. Len(digits) |-> ValueStep(digits, chosen, i)]
  <2>1. PICK v : AreValues(digits, v, Len(digits))
    BY ValuesExist
  <2>2. \E v1 : v1 = [i \in 0 .. Len(digits) |-> ValueStep(digits, v1, i)]
    BY <2>1 DEF AreValues
  <2> QED BY <2>2
<1> QED BY <1>1, <1>2 DEF AreValues

LEMMA DigitComesBack == \A m \in 0 .. 9 : DigitOf(Digits[m + 1]) = m
<1> SUFFICES ASSUME NEW m \in 0 .. 9 PROVE DigitOf(Digits[m + 1]) = m
  OBVIOUS
<1> DEFINE d == Digits[m + 1]
<1>1. \A n \in 0 .. 9 : Digits[n + 1] = d => n = m
  BY DigitsAre
<1>2. Digits[m + 1] = d
  OBVIOUS
<1> HIDE DEF d
<1>3. DigitOf(d) \in 0 .. 9 /\ Digits[DigitOf(d) + 1] = d
  BY <1>2 DEF DigitOf
<1>4. DigitOf(d) = m
  BY <1>1, <1>3
<1> QED BY <1>4 DEF d

\* What the digits of m are read as, at the start of whatever they are.
LEMMA NumeralsAreRead ==
    ASSUME NEW n \in Nat, NEW g, AreNumerals(g, n), NEW digits, NEW v, NEW last \in Nat,
           AreValues(digits, v, last)
    PROVE  \A m \in 0 .. n :
              Len(g[m]) <= last /\ (\A i \in 1 .. Len(g[m]) : digits[i] = g[m][i]) => v[Len(g[m])] = m
<1> DEFINE Starts(m) == Len(g[m]) <= last /\ \A i \in 1 .. Len(g[m]) : digits[i] = g[m][i]
           T == {m \in Nat : m <= n /\ Starts(m) /\ v[Len(g[m])] # m}
<1>0. \A i \in 0 .. last : v[i] = ValueStep(digits, v, i)
  BY DEF AreValues
<1>1. T = {}
  <2> SUFFICES ASSUME T # {} PROVE FALSE
    OBVIOUS
  <2>1. PICK m \in T : \A t \in T : m <= t
    <3>1. T \in SUBSET Nat
      OBVIOUS
    <3> HIDE DEF T
    <3> QED BY <3>1, LeastNumber
  <2>2. m \in Nat /\ m <= n /\ Starts(m) /\ v[Len(g[m])] # m
    OBVIOUS
  <2>3. g[m] = NumeralStep(g, m)
    BY <2>2 DEF AreNumerals
  <2>4. CASE m < 10
    <3>1. g[m] = <<Digits[m + 1]>> /\ m \in 0 .. 9
      BY <2>2, <2>3, <2>4 DEF NumeralStep
    <3>2. Len(g[m]) = 1 /\ g[m][1] = Digits[m + 1]
      BY <3>1
    <3>3. digits[1] = Digits[m + 1] /\ 1 \in 0 .. last /\ 0 \in 0 .. last
      BY <2>2, <3>2
    <3>4. v[0] = 0 /\ v[1] = 10 * v[0] + DigitOf(digits[1])
      BY <1>0, <3>3 DEF ValueStep
    <3>5. v[1] = m
      BY <3>1, <3>3, <3>4, DigitComesBack
    <3> QED BY <2>2, <3>2, <3>5
  <2>5. CASE ~(m < 10)
    <3> DEFINE q == m \div 10
               r == m % 10
    <3>1. r \in 0 .. 9 /\ q \in Nat /\ ~(m <= q) /\ q <= n /\ m = 10 * q + r /\ q \in 0 .. n
      BY <2>2, <2>5
    <3>2. g[m] = Append(g[q], Digits[r + 1])
      BY <2>3, <2>5 DEF NumeralStep
    <3> HIDE DEF q, r
    <3>3. g[q] \in Seq(DigitSet)
      BY <3>1, NumeralsAreDigits
    <3>4. Len(g[q]) \in Nat /\ Len(g[m]) = Len(g[q]) + 1 /\ g[m][Len(g[q]) + 1] = Digits[r + 1]
          /\ \A i \in 1 .. Len(g[q]) : g[m][i] = g[q][i]
      BY <3>2, <3>3
    <3> DEFINE l == Len(g[q])
    <3>5. l \in Nat /\ l + 1 <= last /\ l + 1 # 0 /\ (l + 1) - 1 = l /\ l + 1 \in 0 .. last /\ l + 1 \in 1 .. Len(g[m])
      BY <2>2, <3>4
    <3>6. Starts(q)
      <4>1. \A i \in 1 .. l : i \in 1 .. Len(g[m])
        BY <3>4
      <4> QED BY <2>2, <3>4, <3>5, <4>1
    <3>7. v[l] = q
      BY <2>1, <3>1, <3>6
    <3>8. digits[l + 1] = Digits[r + 1]
      BY <2>2, <3>4, <3>5
    <3>9. v[l + 1] = 10 * v[l] + DigitOf(digits[l + 1])
      BY <1>0, <3>5 DEF ValueStep
    <3>10. DigitOf(digits[l + 1]) = r
      BY <3>1, <3>8, DigitComesBack
    <3>11. v[l + 1] = m
      BY <3>1, <3>7, <3>9, <3>10
    <3> QED BY <2>2, <3>4, <3>11
  <2> QED BY <2>4, <2>5
<1> QED BY <1>1

LEMMA NumeralComesBack ==
    ASSUME NEW n \in Nat
    PROVE  ParseInt(Numeral(n)) = n /\ Numeral(n) \in Seq(DigitSet) /\ Len(Numeral(n)) >= 1
<1>1. PICK g : AreNumerals(g, n) /\ Numeral(n) = g[n]
  BY NumeralIs
<1>2. Numeral(n) \in Seq(DigitSet) /\ Len(Numeral(n)) >= 1 /\ n \in 0 .. n
  BY <1>1, NumeralsAreDigits
<1>3. Len(Numeral(n)) \in Nat
  BY <1>2
<1>4. PICK v : AreValues(Numeral(n), v, Len(Numeral(n))) /\ ParseInt(Numeral(n)) = v[Len(Numeral(n))]
  BY <1>3, ParseIntIs
<1>5. v[Len(g[n])] = n
  BY <1>1, <1>2, <1>3, <1>4, NumeralsAreRead
<1> QED BY <1>1, <1>2, <1>4, <1>5

(***************************************************************************)
(* FlattenSeq.                                                             *)
(***************************************************************************)
FlattenStep(segs, f, i) == IF i = 1 THEN segs[i] ELSE f[i - 1] \o segs[i]

AreFlattened(segs, f, last) == f = [i \in 1 .. last |-> FlattenStep(segs, f, i)]

LEMMA FlattenedExist ==
    ASSUME NEW segs, NEW last \in Nat
    PROVE  \E f : AreFlattened(segs, f, last)
<1> DEFINE T == {m \in Nat : ~ \E f : AreFlattened(segs, f, m)}
<1>1. ASSUME NEW m \in Nat, m = 0 PROVE \E f : AreFlattened(segs, f, m)
  <2> DEFINE f == [x \in 1 .. m |-> segs[1]]
  <2>1. f = [x \in 1 .. m |-> FlattenStep(segs, f, x)]
    <3>1. 1 .. m = {}
      BY <1>1
    <3> QED BY <3>1
  <2> QED BY <2>1 DEF AreFlattened
<1>2. ASSUME NEW m \in Nat, NEW g, AreFlattened(segs, g, m)
      PROVE  \E h : AreFlattened(segs, h, m + 1)
  <2> DEFINE h == [x \in 1 .. m + 1 |-> FlattenStep(segs, g, x)]
  <2>1. ASSUME NEW x \in 1 .. m + 1 PROVE h[x] = FlattenStep(segs, h, x)
    <3>1. CASE x = 1
      BY <3>1 DEF FlattenStep
    <3>2. CASE x # 1
      <4>1. x - 1 \in 1 .. m /\ x - 1 \in 1 .. m + 1
        BY <3>2
      <4>2. g[x - 1] = FlattenStep(segs, g, x - 1)
        BY <1>2, <4>1 DEF AreFlattened
      <4>3. h[x - 1] = g[x - 1]
        BY <4>1, <4>2
      <4>4. h[x] = FlattenStep(segs, g, x)
        OBVIOUS
      <4> HIDE DEF h
      <4> QED BY <3>2, <4>3, <4>4 DEF FlattenStep
    <3> QED BY <3>1, <3>2
  <2>2. h = [x \in 1 .. m + 1 |-> h[x]]
    OBVIOUS
  <2> HIDE DEF h
  <2>3. h = [x \in 1 .. m + 1 |-> FlattenStep(segs, h, x)]
    BY <2>1, <2>2
  <2> QED BY <2>3 DEF AreFlattened
<1>3. T = {}
  <2> SUFFICES ASSUME T # {} PROVE FALSE
    OBVIOUS
  <2>1. PICK m \in T : \A t \in T : m <= t
    <3>1. T \in SUBSET Nat
      OBVIOUS
    <3> HIDE DEF T
    <3> QED BY <3>1, LeastNumber
  <2>2. m \in Nat /\ ~ \E f : AreFlattened(segs, f, m)
    OBVIOUS
  <2>3. m # 0
    BY <1>1, <2>2
  <2>4. m - 1 \in Nat /\ ~(m <= m - 1) /\ (m - 1) + 1 = m
    BY <2>2, <2>3
  <2>5. PICK g : AreFlattened(segs, g, m - 1)
    <3>1. m - 1 \notin T
      BY <2>1, <2>4
    <3> QED BY <2>4, <3>1
  <2>6. \E h : AreFlattened(segs, h, (m - 1) + 1)
    BY <1>2, <2>4, <2>5
  <2> QED BY <2>2, <2>4, <2>6
<1> QED BY <1>3

LEMMA FlattenIs ==
    ASSUME NEW segs, Len(segs) \in Nat, Len(segs) # 0
    PROVE  \E f : AreFlattened(segs, f, Len(segs)) /\ FlattenSeq(segs) = f[Len(segs)]
<1> DEFINE chosen == CHOOSE f : f = [i \in 1 .. Len(segs) |-> FlattenStep(segs, f, i)]
<1>1. FlattenSeq(segs) = chosen[Len(segs)]
  BY DEF FlattenSeq, FlattenStep
<1>2. chosen = [i \in 1 .. Len(segs) |-> FlattenStep(segs, chosen, i)]
  <2>1. PICK f : AreFlattened(segs, f, Len(segs))
    BY FlattenedExist
  <2>2. \E f1 : f1 = [i \in 1 .. Len(segs) |-> FlattenStep(segs, f1, i)]
    BY <2>1 DEF AreFlattened
  <2> QED BY <2>2
<1> QED BY <1>1, <1>2 DEF AreFlattened

\* The first ones of a longer sequence are flattened to the same.
LEMMA FlattenedAreEqual ==
    ASSUME NEW a, NEW b, NEW f, NEW g, NEW m \in Nat, NEW n \in Nat, m <= n,
           AreFlattened(a, f, m), AreFlattened(b, g, n), \A i \in 1 .. m : a[i] = b[i]
    PROVE  \A i \in 1 .. m : f[i] = g[i]
<1> DEFINE T == {i \in Nat : i \in 1 .. m /\ f[i] # g[i]}
<1>1. T = {}
  <2> SUFFICES ASSUME T # {} PROVE FALSE
    OBVIOUS
  <2>1. PICK i \in T : \A t \in T : i <= t
    <3>1. T \in SUBSET Nat
      OBVIOUS
    <3> HIDE DEF T
    <3> QED BY <3>1, LeastNumber
  <2>2. i \in 1 .. m /\ i \in 1 .. n /\ f[i] # g[i]
    OBVIOUS
  <2>3. f[i] = FlattenStep(a, f, i) /\ g[i] = FlattenStep(b, g, i) /\ a[i] = b[i]
    BY <2>2 DEF AreFlattened
  <2>4. CASE i = 1
    BY <2>2, <2>3, <2>4 DEF FlattenStep
  <2>5. CASE i # 1
    <3>1. i - 1 \in Nat /\ i - 1 \in 1 .. m /\ ~(i <= i - 1)
      BY <2>2, <2>5
    <3>2. f[i - 1] = g[i - 1]
      BY <2>1, <3>1
    <3> QED BY <2>2, <2>3, <2>5, <3>2 DEF FlattenStep
  <2> QED BY <2>4, <2>5
<1> QED BY <1>1

LEMMA FlattenEmpty == FlattenSeq(<<>>) = <<>>
BY DEF FlattenSeq

LEMMA FlattenTyped ==
    ASSUME NEW S, NEW segs \in Seq(Seq(S))
    PROVE  FlattenSeq(segs) \in Seq(S)
<1>1. CASE segs = <<>>
  <2>1. <<>> \in Seq(S)
    OBVIOUS
  <2>2. FlattenSeq(segs) = <<>>
    BY <1>1, FlattenEmpty, Zenon
  <2> QED BY <2>1, <2>2
<1>2. CASE segs # <<>>
  <2> DEFINE n == Len(segs)
  <2>1. n \in Nat /\ n # 0 /\ n \in 1 .. n /\ \A i \in 1 .. n : segs[i] \in Seq(S)
    BY <1>2
  <2>2. PICK f : AreFlattened(segs, f, n) /\ FlattenSeq(segs) = f[n]
    BY <2>1, FlattenIs
  <2> HIDE DEF n
  <2> DEFINE T == {i \in Nat : i \in 1 .. n /\ f[i] \notin Seq(S)}
  <2>3. T = {}
    <3> SUFFICES ASSUME T # {} PROVE FALSE
      OBVIOUS
    <3>1. PICK i \in T : \A t \in T : i <= t
      <4>1. T \in SUBSET Nat
        OBVIOUS
      <4> HIDE DEF T
      <4> QED BY <4>1, LeastNumber
    <3>2. i \in 1 .. n /\ f[i] \notin Seq(S)
      OBVIOUS
    <3>3. f[i] = FlattenStep(segs, f, i)
      BY <2>2, <3>2 DEF AreFlattened
    <3>4. CASE i = 1
      BY <2>1, <3>2, <3>3, <3>4 DEF FlattenStep
    <3>5. CASE i # 1
      <4>1. i - 1 \in Nat /\ i - 1 \in 1 .. n /\ ~(i <= i - 1)
        BY <2>1, <3>2, <3>5
      <4>2. f[i - 1] \in Seq(S)
        BY <3>1, <4>1
      <4> QED BY <2>1, <3>2, <3>3, <3>5, <4>2 DEF FlattenStep
    <3> QED BY <3>4, <3>5
  <2> QED BY <2>1, <2>2, <2>3
<1> QED BY <1>1, <1>2

LEMMA FlattenAppend ==
    ASSUME NEW S, NEW segs \in Seq(Seq(S)), NEW x \in Seq(S)
    PROVE  FlattenSeq(Append(segs, x)) = FlattenSeq(segs) \o x
<1> DEFINE n == Len(segs)
           more == Append(segs, x)
<1>1. n \in Nat /\ Len(more) = n + 1 /\ more[n + 1] = x /\ \A i \in 1 .. n : segs[i] = more[i]
  OBVIOUS
<1> HIDE DEF more
<1>2. n + 1 \in Nat /\ n + 1 # 0 /\ n + 1 \in 1 .. n + 1 /\ n <= n + 1 /\ (n + 1) - 1 = n
  BY <1>1
<1>3. PICK g : AreFlattened(more, g, n + 1) /\ FlattenSeq(more) = g[n + 1]
  BY <1>1, <1>2, FlattenIs
<1>4. g[n + 1] = FlattenStep(more, g, n + 1)
  BY <1>2, <1>3 DEF AreFlattened
<1>5. CASE n = 0
  <2>1. segs = <<>>
    <3>1. segs \in Seq(Seq(S)) /\ Len(segs) = 0
      BY <1>5
    <3> HIDE DEF n
    <3> QED BY <3>1, EmptySeq
  <2>2. g[n + 1] = x
    BY <1>1, <1>4, <1>5 DEF FlattenStep
  <2>3. <<>> \o x = x
    OBVIOUS
  <2> QED BY <1>3, <2>1, <2>2, <2>3, FlattenEmpty DEF more
<1>6. CASE n # 0
  <2>1. n \in 1 .. n /\ n + 1 # 1
    BY <1>1, <1>6
  <2>2. PICK f : AreFlattened(segs, f, n) /\ FlattenSeq(segs) = f[n]
    BY <1>1, <1>6, FlattenIs
  <2>3. f[n] = g[n]
    <3> HIDE DEF n
    <3>1. \A i \in 1 .. n : f[i] = g[i]
      <4>1. AreFlattened(segs, f, n) /\ AreFlattened(more, g, n + 1)
        BY <1>3, <2>2
      <4> QED BY <1>1, <1>2, <4>1, FlattenedAreEqual
    <3> QED BY <2>1, <3>1
  <2>4. g[n + 1] = g[n] \o x
    BY <1>1, <1>2, <1>4, <2>1 DEF FlattenStep
  <2> QED BY <1>3, <2>2, <2>3, <2>4 DEF more
<1> QED BY <1>5, <1>6

(***************************************************************************)
(* Quotes.                                                                 *)
(***************************************************************************)
LEMMA OpenAtFirst == ASSUME NEW text PROVE ~Open(text, 0)
<1>1. {j \in 1 .. 0 : text[j] = "'"} = {}
  OBVIOUS
<1>2. Cardinality({}) = 0
  BY FS_EmptySet
<1> QED BY <1>1, <1>2 DEF Open

LEMMA OpenStep ==
    ASSUME NEW text, NEW i \in Nat
    PROVE  Open(text, i + 1) <=> IF text[i + 1] = "'" THEN ~Open(text, i) ELSE Open(text, i)
<1> DEFINE quotes == {j \in 1 .. i : text[j] = "'"}
           more == {j \in 1 .. i + 1 : text[j] = "'"}
<1>1. IsFiniteSet(quotes)
  <2>1. IsFiniteSet(1 .. i)
    BY FS_Interval
  <2>2. quotes \in SUBSET (1 .. i)
    OBVIOUS
  <2> HIDE DEF quotes
  <2> QED BY <2>1, <2>2, FS_Subset
<1>2. i + 1 \notin quotes
  OBVIOUS
<1>3. Open(text, i) <=> Cardinality(quotes) % 2 = 1
  BY DEF Open
<1>4. Open(text, i + 1) <=> Cardinality(more) % 2 = 1
  BY DEF Open
<1>5. CASE text[i + 1] = "'"
  <2>1. more = quotes \cup {i + 1}
    BY <1>5
  <2> HIDE DEF more, quotes
  <2>2. Cardinality(quotes) \in Nat /\ Cardinality(more) = Cardinality(quotes) + 1
    BY <1>1, <1>2, <2>1, FS_AddElement, FS_CardinalityType
  <2>3. \A c \in Nat : ((c + 1) % 2 = 1) <=> ~(c % 2 = 1)
    OBVIOUS
  <2> QED BY <1>3, <1>4, <1>5, <2>2, <2>3
<1>6. CASE text[i + 1] # "'"
  <2>1. more = quotes
    BY <1>6
  <2> QED BY <1>3, <1>4, <1>6, <2>1
<1> QED BY <1>5, <1>6

\* Whether a quote is open is a matter of the letters before.
LEMMA OpenIsLocal ==
    ASSUME NEW a, NEW b, NEW i \in Nat, \A j \in 1 .. i : a[j] = b[j]
    PROVE  Open(a, i) <=> Open(b, i)
<1>1. {j \in 1 .. i : a[j] = "'"} = {j \in 1 .. i : b[j] = "'"}
  OBVIOUS
<1> QED BY <1>1 DEF Open

(***************************************************************************)
(* Escaped letters: quotes in pairs.                                       *)
(***************************************************************************)
Sign == Letter \cup DigitSet \cup {"[", "]", "'"}

EscapedLetter(c) == IF c = "'" THEN <<"'", "'">> ELSE <<c>>

ReadLetter(text, i) == IF text[i] = "'" /\ Open(text, i - 1) THEN <<>> ELSE <<text[i]>>

\* No quote is left open, and where one is open the next letter closes it.
InPairs(text) ==
    /\ ~Open(text, Len(text))
    /\ \A j \in 0 .. Len(text) : Open(text, j) => j < Len(text) /\ text[j + 1] = "'"

LEMMA EscapedEmpty == Escaped(<<>>) = <<>>
<1>1. [i \in DOMAIN <<>> |-> IF <<>>[i] = "'" THEN <<"'", "'">> ELSE <<<<>>[i]>>] = <<>>
  OBVIOUS
<1> QED BY <1>1, FlattenEmpty DEF Escaped

LEMMA EscapedAppend ==
    ASSUME NEW text \in Seq(Letter), NEW c \in Letter
    PROVE  Escaped(Append(text, c)) = Escaped(text) \o EscapedLetter(c)
<1> DEFINE segs == [i \in DOMAIN text |-> EscapedLetter(text[i])]
           longer == Append(text, c)
           more == [i \in DOMAIN longer |-> EscapedLetter(longer[i])]
<1>1. \A d \in Sign : EscapedLetter(d) \in Seq(Sign)
  <2>1. "'" \in Sign
    BY DEF Sign
  <2> QED BY <2>1 DEF EscapedLetter
<1>2. Letter \subseteq Sign
  BY DEF Sign
<1>3. segs \in Seq(Seq(Sign)) /\ Len(segs) = Len(text)
  <2>1. \A i \in 1 .. Len(text) : EscapedLetter(text[i]) \in Seq(Sign)
    BY <1>1, <1>2
  <2> QED BY <2>1
<1>4. EscapedLetter(c) \in Seq(Sign)
  BY <1>1, <1>2
<1>5. Len(longer) = Len(text) + 1 /\ longer \in Seq(Letter)
      /\ (\A i \in 1 .. Len(text) : longer[i] = text[i]) /\ longer[Len(text) + 1] = c
  OBVIOUS
<1>6. more = Append(segs, EscapedLetter(c))
  <2>1. more \in Seq(Seq(Sign)) /\ Len(more) = Len(longer)
    BY <1>1, <1>2, <1>5
  <2>2. Len(Append(segs, EscapedLetter(c))) = Len(text) + 1
        /\ Append(segs, EscapedLetter(c)) \in Seq(Seq(Sign))
    BY <1>3, <1>4
  <2>3. \A i \in 1 .. Len(text) + 1 : more[i] = Append(segs, EscapedLetter(c))[i]
    <3> SUFFICES ASSUME NEW i \in 1 .. Len(text) + 1
                 PROVE  more[i] = Append(segs, EscapedLetter(c))[i]
      OBVIOUS
    <3>1. more[i] = EscapedLetter(longer[i])
      BY <1>5
    <3>2. CASE i \in 1 .. Len(text)
      <4>1. Append(segs, EscapedLetter(c))[i] = segs[i]
        BY <1>3, <1>4, <3>2
      <4>2. segs[i] = EscapedLetter(text[i])
        BY <3>2
      <4>3. longer[i] = text[i]
        BY <1>5, <3>2
      <4> QED BY <3>1, <4>1, <4>2, <4>3
    <3>3. CASE i = Len(text) + 1
      <4>1. Append(segs, EscapedLetter(c))[i] = EscapedLetter(c)
        BY <1>3, <1>4, <3>3
      <4> QED BY <1>5, <3>1, <3>3, <4>1
    <3> QED BY <3>2, <3>3
  <2> HIDE DEF more, segs, longer
  <2> QED BY <1>5, <2>1, <2>2, <2>3, SeqEqual
<1>7. FlattenSeq(more) = FlattenSeq(segs) \o EscapedLetter(c)
  <2> HIDE DEF segs, more
  <2> QED BY <1>3, <1>4, <1>6, FlattenAppend
<1>8. Escaped(text) = FlattenSeq(segs) /\ Escaped(longer) = FlattenSeq(more)
  BY DEF Escaped, EscapedLetter
<1> QED BY <1>7, <1>8

LEMMA UnescapedEmpty == Unescaped(<<>>) = <<>>
<1>1. [i \in DOMAIN <<>> |-> IF <<>>[i] = "'" /\ Open(<<>>, i - 1) THEN <<>> ELSE <<<<>>[i]>>] = <<>>
  OBVIOUS
<1> QED BY <1>1, FlattenEmpty DEF Unescaped

LEMMA UnescapedAppend ==
    ASSUME NEW text \in Seq(Sign), NEW c \in Sign
    PROVE  Unescaped(Append(text, c)) =
              Unescaped(text) \o (IF c = "'" /\ Open(text, Len(text)) THEN <<>> ELSE <<c>>)
<1> DEFINE last == IF c = "'" /\ Open(text, Len(text)) THEN <<>> ELSE <<c>>
           longer == Append(text, c)
           segs == [i \in DOMAIN text |-> ReadLetter(text, i)]
           more == [i \in DOMAIN longer |-> ReadLetter(longer, i)]
<1>1. Len(longer) = Len(text) + 1 /\ longer \in Seq(Sign) /\ Len(text) \in Nat
      /\ (\A i \in 1 .. Len(text) : longer[i] = text[i]) /\ longer[Len(text) + 1] = c
  OBVIOUS
<1>2. \A i \in 1 .. Len(text) : ReadLetter(text, i) \in Seq(Sign)
  BY DEF ReadLetter
<1>3. \A i \in 1 .. Len(longer) : ReadLetter(longer, i) \in Seq(Sign)
  BY <1>1 DEF ReadLetter
<1>4. \A i \in 0 .. Len(text) : Open(longer, i) <=> Open(text, i)
  <2> SUFFICES ASSUME NEW i \in 0 .. Len(text) PROVE Open(longer, i) <=> Open(text, i)
    OBVIOUS
  <2>1. \A j \in 1 .. i : longer[j] = text[j]
    BY <1>1
  <2> HIDE DEF longer
  <2> QED BY <2>1, OpenIsLocal
<1>5. segs \in Seq(Seq(Sign)) /\ Len(segs) = Len(text)
  BY <1>2
<1>6. last \in Seq(Sign)
  OBVIOUS
<1>7. more = Append(segs, last)
  <2>1. more \in Seq(Seq(Sign)) /\ Len(more) = Len(longer)
    BY <1>1, <1>3
  <2>2. Len(Append(segs, last)) = Len(text) + 1 /\ Append(segs, last) \in Seq(Seq(Sign))
    BY <1>5, <1>6
  <2>3. \A i \in 1 .. Len(text) + 1 : more[i] = Append(segs, last)[i]
    <3> SUFFICES ASSUME NEW i \in 1 .. Len(text) + 1 PROVE more[i] = Append(segs, last)[i]
      OBVIOUS
    <3>1. more[i] = ReadLetter(longer, i)
      BY <1>1
    <3>0. i - 1 \in 0 .. Len(text)
      BY <1>1
    <3>2. CASE i \in 1 .. Len(text)
      <4>1. Append(segs, last)[i] = segs[i]
        <5> HIDE DEF segs, last
        <5> QED BY <1>5, <1>6, <3>2
      <4>2. segs[i] = ReadLetter(text, i)
        BY <3>2
      <4>3. longer[i] = text[i] /\ (Open(longer, i - 1) <=> Open(text, i - 1))
        BY <1>1, <1>4, <3>0, <3>2
      <4> HIDE DEF longer, more, segs, last
      <4>4. ReadLetter(longer, i) = ReadLetter(text, i)
        BY <4>3 DEF ReadLetter
      <4> QED BY <3>1, <4>1, <4>2, <4>4
    <3>3. CASE i = Len(text) + 1
      <4>1. Append(segs, last)[i] = last
        <5> HIDE DEF segs, last
        <5> QED BY <1>5, <1>6, <3>3
      <4>2. longer[i] = c /\ (Open(longer, i - 1) <=> Open(text, Len(text)))
        BY <1>1, <1>4, <3>3
      <4>3. ReadLetter(longer, i) = last
        <5> HIDE DEF longer, more, segs
        <5> QED BY <4>2 DEF ReadLetter
      <4> HIDE DEF longer, more, segs, last
      <4> QED BY <3>1, <4>1, <4>3
    <3> QED BY <3>2, <3>3
  <2> HIDE DEF more, segs, longer, last
  <2> QED BY <1>1, <2>1, <2>2, <2>3, SeqEqual
<1>8. FlattenSeq(more) = FlattenSeq(segs) \o last
  <2> HIDE DEF segs, more, last
  <2> QED BY <1>5, <1>6, <1>7, FlattenAppend
<1>9. Unescaped(text) = FlattenSeq(segs) /\ Unescaped(longer) = FlattenSeq(more)
  BY DEF Unescaped, ReadLetter
<1> QED BY <1>8, <1>9

LEMMA OpenInLonger ==
    ASSUME NEW text \in Seq(Sign), NEW c \in Sign
    PROVE  /\ \A i \in 0 .. Len(text) : Open(Append(text, c), i) <=> Open(text, i)
           /\ Open(Append(text, c), Len(text) + 1) <=>
                 IF c = "'" THEN ~Open(text, Len(text)) ELSE Open(text, Len(text))
<1> DEFINE longer == Append(text, c)
<1>1. (\A i \in 1 .. Len(text) : longer[i] = text[i]) /\ longer[Len(text) + 1] = c /\ Len(text) \in Nat
  OBVIOUS
<1> HIDE DEF longer
<1>2. \A i \in 0 .. Len(text) : Open(longer, i) <=> Open(text, i)
  <2> SUFFICES ASSUME NEW i \in 0 .. Len(text) PROVE Open(longer, i) <=> Open(text, i)
    OBVIOUS
  <2>1. \A j \in 1 .. i : longer[j] = text[j]
    BY <1>1
  <2> QED BY <2>1, OpenIsLocal
<1>3. Open(longer, Len(text) + 1) <=> IF c = "'" THEN ~Open(longer, Len(text)) ELSE Open(longer, Len(text))
  BY <1>1, OpenStep
<1>4. Len(text) \in 0 .. Len(text)
  BY <1>1
<1> QED BY <1>2, <1>3, <1>4 DEF longer

LEMMA PairAppended ==
    ASSUME NEW text \in Seq(Sign), InPairs(text)
    PROVE  /\ InPairs(text \o <<"'", "'">>)
           /\ Unescaped(text \o <<"'", "'">>) = Append(Unescaped(text), "'")
<1> DEFINE n == Len(text)
           one == Append(text, "'")
           two == Append(one, "'")
<1>0. "'" \in Sign
  BY DEF Sign
<1>1. n \in Nat /\ one \in Seq(Sign) /\ Len(one) = n + 1 /\ two \in Seq(Sign) /\ Len(two) = n + 2
      /\ (\A i \in 1 .. n : two[i] = text[i]) /\ two[n + 1] = "'" /\ two[n + 2] = "'"
  BY <1>0
<1>2. two = text \o <<"'", "'">>
  OBVIOUS
<1>3. \A i \in 0 .. n : Open(one, i) <=> Open(text, i)
  BY <1>0, OpenInLonger
<1>4. ~Open(text, n)
  BY DEF InPairs
<1>5. Open(one, n + 1)
  BY <1>0, <1>4, OpenInLonger
<1>6. Open(one, Len(one))
  BY <1>1, <1>5
<1>7. (\A i \in 0 .. n + 1 : Open(two, i) <=> Open(one, i)) /\ ~Open(two, n + 2)
  <2> HIDE DEF one, n
  <2>1. \A i \in 0 .. Len(one) : Open(two, i) <=> Open(one, i)
    BY <1>0, <1>1, OpenInLonger
  <2>2. Open(two, Len(one) + 1) <=> ~Open(one, Len(one))
    BY <1>0, <1>1, OpenInLonger
  <2>3. Len(one) + 1 = n + 2
    BY <1>1
  <2> QED BY <1>1, <1>6, <2>1, <2>2, <2>3
<1>8. Unescaped(one) = Unescaped(text) \o <<"'">>
  BY <1>0, <1>4, UnescapedAppend
<1>9. Unescaped(two) = Unescaped(one) \o <<>>
  <2> HIDE DEF one, n
  <2> QED BY <1>0, <1>1, <1>6, UnescapedAppend
<1>10. Unescaped(text) \in Seq(Sign)
  <2> DEFINE segs == [i \in DOMAIN text |-> ReadLetter(text, i)]
  <2>1. \A i \in 1 .. n : ReadLetter(text, i) \in Seq(Sign)
    BY DEF ReadLetter
  <2>2. segs \in Seq(Seq(Sign))
    BY <2>1
  <2>3. Unescaped(text) = FlattenSeq(segs)
    BY DEF Unescaped, ReadLetter
  <2> HIDE DEF segs
  <2> QED BY <2>2, <2>3, FlattenTyped
<1>11. Unescaped(two) = Append(Unescaped(text), "'")
  <2> DEFINE u == Unescaped(text)
  <2>1. (u \o <<"'">>) \o <<>> = Append(u, "'")
    <3>1. u \in Seq(Sign)
      BY <1>10
    <3> HIDE DEF u
    <3> QED BY <1>0, <3>1
  <2> HIDE DEF one, two
  <2> QED BY <1>8, <1>9, <2>1
<1>12. InPairs(two)
  <2>1. ~Open(two, Len(two))
    BY <1>1, <1>7
  <2>2. ASSUME NEW j \in 0 .. Len(two), Open(two, j)
        PROVE  j < Len(two) /\ two[j + 1] = "'"
    <3> HIDE DEF one, two
    <3>1. j # n + 2 /\ j \in 0 .. n + 2
      BY <1>1, <1>7, <2>2
    <3>2. CASE j \in 0 .. n
      <4>1. j \in 0 .. n + 1 /\ Open(text, j)
        BY <1>1, <1>3, <1>7, <2>2, <3>2
      <4>2. j < n /\ text[j + 1] = "'"
        BY <3>2, <4>1 DEF InPairs
      <4> QED BY <1>1, <3>2, <4>2
    <3>3. CASE j = n + 1
      BY <1>1, <3>3
    <3> QED BY <1>1, <3>1, <3>2, <3>3
  <2> HIDE DEF one, two
  <2> QED BY <2>1, <2>2 DEF InPairs
<1> HIDE DEF one, two
<1> QED BY <1>2, <1>11, <1>12

LEMMA LetterAppended ==
    ASSUME NEW text \in Seq(Sign), InPairs(text), NEW c \in Sign, c # "'"
    PROVE  /\ InPairs(text \o <<c>>)
           /\ Unescaped(text \o <<c>>) = Unescaped(text) \o <<c>>
<1> DEFINE n == Len(text)
           one == Append(text, c)
<1>1. n \in Nat /\ one \in Seq(Sign) /\ Len(one) = n + 1
      /\ (\A i \in 1 .. n : one[i] = text[i]) /\ one[n + 1] = c
  OBVIOUS
<1>2. one = text \o <<c>>
  OBVIOUS
<1>3. (\A i \in 0 .. n : Open(one, i) <=> Open(text, i)) /\ ~Open(text, n) /\ ~Open(one, n + 1)
  BY OpenInLonger DEF InPairs
<1>4. Unescaped(one) = Unescaped(text) \o <<c>>
  BY UnescapedAppend
<1>5. InPairs(one)
  <2>2. ASSUME NEW j \in 0 .. Len(one), Open(one, j)
        PROVE  j < Len(one) /\ one[j + 1] = "'"
    <3> HIDE DEF one
    <3>1. j \in 0 .. n /\ Open(text, j)
      BY <1>1, <1>3, <2>2
    <3>2. j < n /\ text[j + 1] = "'"
      BY <3>1 DEF InPairs
    <3> QED BY <1>1, <3>1, <3>2
  <2> HIDE DEF one
  <2> QED BY <1>1, <1>3, <2>2 DEF InPairs
<1> HIDE DEF one
<1> QED BY <1>2, <1>4, <1>5

EscapeOK(text) ==
    Escaped(text) \in Seq(Sign) /\ InPairs(Escaped(text)) /\ Unescaped(Escaped(text)) = text

LEMMA EscapeOKAppend ==
    ASSUME NEW text \in Seq(Letter), EscapeOK(text), NEW c \in Letter
    PROVE  EscapeOK(Append(text, c))
<1> DEFINE e == Escaped(text)
<1>1. e \in Seq(Sign) /\ InPairs(e) /\ Unescaped(e) = text
  BY DEF EscapeOK
<1>2. Escaped(Append(text, c)) = e \o EscapedLetter(c)
  BY EscapedAppend
<1> HIDE DEF e
<1>3. CASE c = "'"
  <2>1. e \o <<"'", "'">> \in Seq(Sign)
    <3>1. "'" \in Sign
      BY DEF Sign
    <3> QED BY <1>1, <3>1
  <2>2. Escaped(Append(text, c)) = e \o <<"'", "'">>
    BY <1>2, <1>3 DEF EscapedLetter
  <2>3. InPairs(e \o <<"'", "'">>) /\ Unescaped(e \o <<"'", "'">>) = Append(text, c)
    BY <1>1, <1>3, PairAppended
  <2> QED BY <2>1, <2>2, <2>3 DEF EscapeOK
<1>4. CASE c # "'"
  <2>0. c \in Sign
    BY DEF Sign
  <2>1. e \o <<c>> \in Seq(Sign)
    BY <1>1, <2>0
  <2>2. Escaped(Append(text, c)) = e \o <<c>>
    BY <1>2, <1>4 DEF EscapedLetter
  <2>3. InPairs(e \o <<c>>) /\ Unescaped(e \o <<c>>) = text \o <<c>>
    BY <1>1, <1>4, <2>0, LetterAppended
  <2>4. text \o <<c>> = Append(text, c)
    OBVIOUS
  <2> QED BY <2>1, <2>2, <2>3, <2>4 DEF EscapeOK
<1> QED BY <1>3, <1>4

LEMMA EscapedComesBack == \A text \in Seq(Letter) : EscapeOK(text)
<1> DEFINE T == {m \in Nat : \E text \in Seq(Letter) : Len(text) = m /\ ~EscapeOK(text)}
<1>1. T = {}
  <2> SUFFICES ASSUME T # {} PROVE FALSE
    OBVIOUS
  <2>1. PICK m \in T : \A t \in T : m <= t
    <3>1. T \in SUBSET Nat
      OBVIOUS
    <3> HIDE DEF T
    <3> QED BY <3>1, LeastNumber
  <2>2. PICK text \in Seq(Letter) : Len(text) = m /\ ~EscapeOK(text)
    OBVIOUS
  <2>3. CASE text = <<>>
    <3>1. <<>> \in Seq(Sign) /\ Len(<<>>) = 0
      OBVIOUS
    <3>2. InPairs(<<>>)
      BY <3>1, OpenAtFirst DEF InPairs
    <3>3. EscapeOK(<<>>)
      BY <3>1, <3>2, EscapedEmpty, UnescapedEmpty DEF EscapeOK
    <3> QED BY <2>2, <2>3, <3>3
  <2>4. CASE text # <<>>
    <3>1. PICK front \in Seq(Letter), c \in Letter : text = Append(front, c)
      BY <2>4, SequenceEmptyOrAppend
    <3>2. Len(front) \in Nat /\ m = Len(front) + 1 /\ ~(m <= Len(front))
      BY <2>2, <3>1
    <3>3. EscapeOK(front)
      BY <2>1, <3>2
    <3> QED BY <2>2, <3>1, <3>3, EscapeOKAppend
  <2> QED BY <2>3, <2>4
<1> QED BY <1>1

(***************************************************************************)
(* A specifier is matched by its own text, whatever follows.               *)
(***************************************************************************)
LEMMA OpenAfterQuote ==
    ASSUME NEW q, NEW e, NEW m \in Nat, q[1] = "'", \A j \in 1 .. m : q[j + 1] = e[j]
    PROVE  \A j \in 0 .. m : Open(q, j + 1) <=> ~Open(e, j)
<1> DEFINE T == {j \in Nat : j \in 0 .. m /\ ~(Open(q, j + 1) <=> ~Open(e, j))}
<1>1. T = {}
  <2> SUFFICES ASSUME T # {} PROVE FALSE
    OBVIOUS
  <2>1. PICK j \in T : \A t \in T : j <= t
    <3>1. T \in SUBSET Nat
      OBVIOUS
    <3> HIDE DEF T
    <3> QED BY <3>1, LeastNumber
  <2>2. j \in 0 .. m /\ ~(Open(q, j + 1) <=> ~Open(e, j))
    OBVIOUS
  <2>3. CASE j = 0
    <3>1. ~Open(q, 0) /\ ~Open(e, 0)
      BY OpenAtFirst
    <3>2. Open(q, 0 + 1) <=> IF q[0 + 1] = "'" THEN ~Open(q, 0) ELSE Open(q, 0)
      BY OpenStep
    <3>3. 0 + 1 = 1
      OBVIOUS
    <3>4. Open(q, 1)
      BY <3>1, <3>2, <3>3
    <3> QED BY <2>2, <2>3, <3>1, <3>3, <3>4
  <2>4. CASE j # 0
    <3> DEFINE i == j - 1
    <3>1. i \in Nat /\ i \in 0 .. m /\ ~(j <= i) /\ i + 1 = j /\ j \in 1 .. m /\ j \in Nat
      BY <2>2, <2>4
    <3>2. Open(q, i + 1) <=> ~Open(e, i)
      <4>1. i \notin T
        BY <2>1, <3>1
      <4> HIDE DEF i
      <4> QED BY <3>1, <4>1
    <3> HIDE DEF T, i
    <3>3. Open(q, j + 1) <=> IF q[j + 1] = "'" THEN ~Open(q, j) ELSE Open(q, j)
      BY <3>1, OpenStep
    <3>4. Open(e, i + 1) <=> IF e[i + 1] = "'" THEN ~Open(e, i) ELSE Open(e, i)
      BY <3>1, OpenStep
    <3>5. q[j + 1] = e[j]
      BY <3>1
    <3> QED BY <2>2, <3>1, <3>2, <3>3, <3>4, <3>5
  <2> QED BY <2>3, <2>4
<1> QED BY <1>1

IsNumberText(seg, digits) ==
    LET m == Len(digits)
    IN  /\ digits \in Seq(DigitSet) /\ m \in Nat /\ m >= 1
        /\ seg \in Seq(Sign) /\ Len(seg) = m + 2 /\ seg[1] = "[" /\ seg[m + 2] = "]"
        /\ \A i \in 1 .. m : seg[i + 1] = digits[i]

LEMMA NumeralOfText ==
    ASSUME NEW k \in Nat
    PROVE  IsNumberText(<<"[">> \o Numeral(k) \o <<"]">>, Numeral(k))
<1> DEFINE digits == Numeral(k)
<1>1. digits \in Seq(DigitSet) /\ Len(digits) >= 1
  BY NumeralComesBack
<1>2. DigitSet \subseteq Sign /\ "[" \in Sign /\ "]" \in Sign
  BY DEF Sign
<1> HIDE DEF digits
<1>3. digits \in Seq(Sign) /\ Len(digits) \in Nat
  BY <1>1, <1>2
<1> DEFINE seg == <<"[">> \o digits \o <<"]">>
<1>4. seg \in Seq(Sign) /\ Len(seg) = Len(digits) + 2
      /\ seg[1] = "[" /\ seg[Len(digits) + 2] = "]"
  BY <1>2, <1>3
<1>5. \A i \in 1 .. Len(digits) : seg[i + 1] = digits[i]
  <2> SUFFICES ASSUME NEW i \in 1 .. Len(digits) PROVE seg[i + 1] = digits[i]
    OBVIOUS
  <2>1. (<<"[">> \o digits)[i + 1] = digits[i] /\ Len(<<"[">> \o digits) = Len(digits) + 1
        /\ <<"[">> \o digits \in Seq(Sign) /\ i + 1 \in 1 .. Len(digits) + 1
    BY <1>2, <1>3
  <2> DEFINE start == <<"[">> \o digits
  <2>2. (start \o <<"]">>)[i + 1] = start[i + 1]
    <3>1. start \in Seq(Sign) /\ Len(start) = Len(digits) + 1
      BY <2>1
    <3> HIDE DEF start
    <3> QED BY <2>1, <3>1, <1>2
  <2> QED BY <2>1, <2>2
<1> HIDE DEF seg
<1>6. IsNumberText(seg, digits)
  BY <1>1, <1>3, <1>4, <1>5 DEF IsNumberText
<1> QED BY <1>6 DEF digits, seg

IsQuotedText(seg, e) ==
    LET l == Len(e)
    IN  /\ l \in Nat /\ seg \in Seq(Sign) /\ Len(seg) = l + 4
        /\ seg[1] = "[" /\ seg[2] = "'" /\ seg[l + 3] = "'" /\ seg[l + 4] = "]"
        /\ \A i \in 1 .. l : seg[i + 2] = e[i]

LEMMA QuotedText ==
    ASSUME NEW e \in Seq(Sign)
    PROVE  IsQuotedText(<<"[", "'">> \o e \o <<"'", "]">>, e)
<1>0. "'" \in Sign /\ "[" \in Sign /\ "]" \in Sign /\ Len(e) \in Nat
  BY DEF Sign
<1> DEFINE start == <<"[", "'">> \o e
           seg == start \o <<"'", "]">>
<1>1. start \in Seq(Sign) /\ Len(start) = Len(e) + 2 /\ start[1] = "[" /\ start[2] = "'"
      /\ \A i \in 1 .. Len(e) : start[i + 2] = e[i]
  BY <1>0
<1>2. seg \in Seq(Sign) /\ Len(seg) = Len(e) + 4 /\ (\A i \in 1 .. Len(e) + 2 : seg[i] = start[i])
      /\ seg[Len(e) + 3] = "'" /\ seg[Len(e) + 4] = "]"
  <2> HIDE DEF start
  <2> QED BY <1>0, <1>1
<1> HIDE DEF start
<1>3. seg[1] = "[" /\ seg[2] = "'" /\ \A i \in 1 .. Len(e) : seg[i + 2] = e[i]
  BY <1>0, <1>1, <1>2
<1> HIDE DEF seg
<1>4. IsQuotedText(seg, e)
  BY <1>0, <1>2, <1>3 DEF IsQuotedText
<1> QED BY <1>4 DEF seg, start

\* What is between the brackets of a text that starts with a segment.
LEMMA InnerOf ==
    ASSUME NEW t \in Seq(Sign), NEW n \in 3 .. Len(t)
    PROVE  LET inner == SubSeq(t, 2, n - 1)
           IN  /\ inner \in Seq(Sign) /\ Len(inner) = n - 2 /\ DOMAIN inner = 1 .. n - 2
               /\ \A i \in 1 .. n - 2 : inner[i] = t[i + 1]
<1> DEFINE inner == SubSeq(t, 2, n - 1)
<1>0. Len(t) \in Nat /\ n \in Nat /\ n >= 3 /\ n <= Len(t)
  OBVIOUS
<1>1. inner \in Seq(Sign) /\ Len(inner) = n - 2
  BY <1>0
<1>2. \A i \in 1 .. n - 2 : inner[i] = t[i + 1]
  <2> SUFFICES ASSUME NEW i \in 1 .. n - 2 PROVE inner[i] = t[i + 1]
    OBVIOUS
  <2>1. inner[i] = t[2 + i - 1] /\ 2 + i - 1 = i + 1
    BY <1>0
  <2> QED BY <2>1
<1> HIDE DEF inner
<1>3. DOMAIN inner = 1 .. n - 2
  BY <1>1
<1> QED BY <1>1, <1>2, <1>3 DEF inner

IsMatched(t, seg, x) ==
    /\ Matches(t) = {Len(seg)}
    /\ SpecifierOf(SubSeq(t, 2, Len(seg) - 1)) = x

MarksAreNoDigits == "[" \notin DigitSet /\ "]" \notin DigitSet /\ "'" \notin DigitSet

LEMMA NumberIsMatched ==
    ASSUME NEW k \in Nat, NEW t \in Seq(Sign),
           Len(StringifySpecifier(<<"number", k>>)) <= Len(t),
           \A i \in 1 .. Len(StringifySpecifier(<<"number", k>>)) :
              t[i] = StringifySpecifier(<<"number", k>>)[i]
    PROVE  IsMatched(t, StringifySpecifier(<<"number", k>>), <<"number", k>>)
<1> DEFINE digits == Numeral(k)
           m == Len(digits)
           seg == StringifySpecifier(<<"number", k>>)
<1>0a. Len(seg) <= Len(t) /\ \A i \in 1 .. Len(seg) : t[i] = seg[i]
  OBVIOUS
<1>0. MarksAreNoDigits /\ Range(Digits) = DigitSet
  BY DigitsAre DEF MarksAreNoDigits, DigitSet
<1>1. seg = <<"[">> \o digits \o <<"]">>
  BY DEF StringifySpecifier
<1>1a. IsNumberText(seg, digits) /\ ParseInt(digits) = k
  BY <1>1, NumeralOfText, NumeralComesBack
<1> HIDE DEF digits, seg
<1>2. /\ digits \in Seq(DigitSet) /\ m \in Nat /\ m >= 1
      /\ Len(seg) = m + 2 /\ seg[1] = "[" /\ seg[m + 2] = "]"
      /\ \A i \in 1 .. m : seg[i + 1] = digits[i]
  BY <1>1a DEF IsNumberText
<1>4. Len(t) \in Nat /\ m + 2 <= Len(t) /\ \A i \in 1 .. m + 2 : t[i] = seg[i]
  BY <1>0a, <1>2
<1> HIDE DEF m
<1>5. t[1] = "[" /\ t[m + 2] = "]"
  BY <1>2, <1>4
<1>6. \A i \in 1 .. m : t[i + 1] = digits[i]
  BY <1>2, <1>4
<1>6a. \A i \in 1 .. m : digits[i] \in DigitSet
  BY <1>2 DEF m
<1>7. m + 2 \in 3 .. Len(t) /\ (m + 2) - 1 = m + 1 /\ (m + 2) - 2 = m
  BY <1>2, <1>4
<1>8. SubSeq(t, 2, (m + 2) - 1) = digits
  <2> DEFINE inner == SubSeq(t, 2, (m + 2) - 1)
  <2>1. inner \in Seq(Sign) /\ Len(inner) = m /\ DOMAIN inner = 1 .. m
        /\ \A i \in 1 .. m : inner[i] = t[i + 1]
    BY <1>7, InnerOf
  <2> HIDE DEF inner
  <2>2. digits \in Seq(Sign)
    BY <1>2 DEF Sign
  <2>3. Len(inner) = Len(digits) /\ \A i \in 1 .. Len(inner) : inner[i] = digits[i]
    BY <1>6, <2>1 DEF m
  <2> QED BY <2>1, <2>2, <2>3, SeqEqual DEF inner
<1>9. m + 2 \in Matches(t)
  <2>1. \A i \in DOMAIN digits : digits[i] \in Range(Digits)
    BY <1>0, <1>2
  <2> QED BY <1>5, <1>7, <1>8, <2>1 DEF Matches
<1>10. ASSUME NEW n \in Matches(t) PROVE n = m + 2
  <2> DEFINE inner == SubSeq(t, 2, n - 1)
  <2>1. n \in 3 .. Len(t) /\ t[n] = "]" /\ (IsQuoted(inner) \/ \A i \in DOMAIN inner : inner[i] \in DigitSet)
    BY <1>0 DEF Matches
  <2>2. Len(inner) = n - 2 /\ DOMAIN inner = 1 .. n - 2 /\ \A i \in 1 .. n - 2 : inner[i] = t[i + 1]
    BY <2>1, InnerOf
  <2> HIDE DEF inner
  <2>3. ~IsQuoted(inner)
    <3>1. 1 \in 1 .. n - 2 /\ 1 \in 1 .. m /\ 1 + 1 = 2 /\ 1 \in 1 .. Len(inner) /\ 1 - 1 = 0
      BY <1>2, <1>4, <2>1, <2>2
    <3>2. inner[1] \in DigitSet
      BY <1>6, <1>6a, <2>2, <3>1
    <3>3. inner[1] # "'" /\ ~Open(inner, 0)
      BY <1>0, <3>2, OpenAtFirst DEF MarksAreNoDigits
    <3> QED BY <3>1, <3>3 DEF IsQuoted
  <2>4. \A i \in 1 .. n - 2 : t[i + 1] \in DigitSet
    BY <2>1, <2>2, <2>3
  <2>5. ~(n < m + 2)
    <3> SUFFICES ASSUME n < m + 2 PROVE FALSE
      OBVIOUS
    <3>1. n - 1 \in 1 .. m /\ (n - 1) + 1 = n
      BY <1>2, <1>4, <2>1
    <3>2. t[n] \in DigitSet
      BY <1>6, <1>6a, <3>1
    <3> QED BY <1>0, <2>1, <3>2 DEF MarksAreNoDigits
  <2>6. ~(n > m + 2)
    <3> SUFFICES ASSUME n > m + 2 PROVE FALSE
      OBVIOUS
    <3>1. m + 1 \in 1 .. n - 2 /\ (m + 1) + 1 = m + 2
      BY <1>2, <1>4, <2>1
    <3>2. t[m + 2] \in DigitSet
      BY <2>4, <3>1
    <3> QED BY <1>0, <1>5, <3>2 DEF MarksAreNoDigits
  <2> QED BY <1>2, <2>1, <2>5, <2>6
<1>11. Matches(t) = {Len(seg)}
  BY <1>2, <1>9, <1>10
<1>12. SpecifierOf(digits) = <<"number", k>>
  <2>1. digits[1] # "'"
    BY <1>0, <1>2, <1>6a DEF MarksAreNoDigits
  <2> QED BY <1>1a, <2>1 DEF SpecifierOf
<1>13. SpecifierOf(SubSeq(t, 2, Len(seg) - 1)) = <<"number", k>>
  BY <1>2, <1>8, <1>12
<1> QED BY <1>11, <1>13 DEF IsMatched, seg

LEMMA StringIsMatched ==
    ASSUME NEW s \in Seq(Letter), NEW t \in Seq(Sign),
           Len(StringifySpecifier(<<"string", s>>)) <= Len(t),
           \A i \in 1 .. Len(StringifySpecifier(<<"string", s>>)) :
              t[i] = StringifySpecifier(<<"string", s>>)[i]
    PROVE  IsMatched(t, StringifySpecifier(<<"string", s>>), <<"string", s>>)
<1> DEFINE e == Escaped(s)
           l == Len(e)
           seg == StringifySpecifier(<<"string", s>>)
<1>0. Len(seg) <= Len(t) /\ \A i \in 1 .. Len(seg) : t[i] = seg[i]
  OBVIOUS
<1>1. e \in Seq(Sign) /\ InPairs(e) /\ Unescaped(e) = s
  BY EscapedComesBack DEF EscapeOK
<1>2. seg = <<"[", "'">> \o e \o <<"'", "]">>
  BY DEF StringifySpecifier
<1>2a. IsQuotedText(seg, e)
  <2> HIDE DEF e
  <2> QED BY <1>1, <1>2, QuotedText
<1> HIDE DEF e, seg
<1>3. /\ l \in Nat /\ Len(seg) = l + 4 /\ seg[1] = "[" /\ seg[2] = "'" /\ seg[l + 3] = "'"
      /\ seg[l + 4] = "]" /\ \A i \in 1 .. l : seg[i + 2] = e[i]
  BY <1>2a DEF IsQuotedText
<1>4. Len(t) \in Nat /\ l + 4 <= Len(t) /\ \A i \in 1 .. l + 4 : t[i] = seg[i]
  BY <1>0, <1>3
<1> HIDE DEF l
<1>5. t[1] = "[" /\ t[2] = "'" /\ t[l + 3] = "'" /\ t[l + 4] = "]"
  BY <1>3, <1>4
<1>6. \A i \in 1 .. l : t[i + 2] = e[i]
  BY <1>3, <1>4
<1>7. /\ ~Open(e, l)
      /\ \A j \in 0 .. l : Open(e, j) => j < l /\ e[j + 1] = "'"
  BY <1>1 DEF InPairs, l
\* Between the brackets, quotes are as in the escaped letters, but for the first one.
<1>8. ASSUME NEW n \in 3 .. Len(t)
      PROVE  \A j \in 0 .. l : j + 1 <= n - 2 => (Open(SubSeq(t, 2, n - 1), j + 1) <=> ~Open(e, j))
  <2> DEFINE inner == SubSeq(t, 2, n - 1)
  <2>1. \A i \in 1 .. n - 2 : inner[i] = t[i + 1]
    BY InnerOf
  <2> HIDE DEF inner
  <2> SUFFICES ASSUME NEW j \in 0 .. l, j + 1 <= n - 2
               PROVE  Open(inner, j + 1) <=> ~Open(e, j)
    BY DEF inner
  <2>2. inner[1] = "'"
    <3>1. 1 \in 1 .. n - 2 /\ 1 + 1 = 2
      BY <1>4
    <3> QED BY <1>5, <2>1, <3>1
  <2>3. \A i \in 1 .. j : inner[i + 1] = e[i]
    <3> SUFFICES ASSUME NEW i \in 1 .. j PROVE inner[i + 1] = e[i]
      OBVIOUS
    <3>1. i + 1 \in 1 .. n - 2 /\ i \in 1 .. l /\ (i + 1) + 1 = i + 2
      BY <1>3, <1>4
    <3> QED BY <1>6, <2>1, <3>1
  <2>4. j \in Nat /\ j \in 0 .. j
    BY <1>3
  <2> QED BY <2>2, <2>3, <2>4, OpenAfterQuote
<1>9. l + 4 \in 3 .. Len(t) /\ (l + 4) - 1 = l + 3 /\ (l + 4) - 2 = l + 2
  BY <1>3, <1>4
<1> DEFINE whole == SubSeq(t, 2, (l + 4) - 1)
<1>10. /\ whole \in Seq(Sign) /\ Len(whole) = l + 2 /\ DOMAIN whole = 1 .. l + 2
       /\ \A i \in 1 .. l + 2 : whole[i] = t[i + 1]
  BY <1>9, InnerOf
<1>11. \A j \in 0 .. l : Open(whole, j + 1) <=> ~Open(e, j)
  BY <1>3, <1>8, <1>9
<1> HIDE DEF whole
<1>12. whole[1] = "'" /\ whole[l + 2] = "'" /\ \A i \in 1 .. l : whole[i + 1] = e[i]
  <2>1. 1 \in 1 .. l + 2 /\ l + 2 \in 1 .. l + 2 /\ 1 + 1 = 2 /\ (l + 2) + 1 = l + 3
    BY <1>3
  <2>2. \A i \in 1 .. l : i + 1 \in 1 .. l + 2 /\ (i + 1) + 1 = i + 2
    BY <1>3
  <2> QED BY <1>5, <1>6, <1>10, <2>1, <2>2
<1>13. IsQuoted(whole)
  <2>1. whole # <<>>
    BY <1>3, <1>10
  <2>2. ~Open(whole, l + 2)
    <3>1. l \in 0 .. l /\ l + 1 \in Nat /\ (l + 1) + 1 = l + 2
      BY <1>3
    <3>2. Open(whole, l + 1)
      BY <1>7, <1>11, <3>1
    <3>3. Open(whole, (l + 1) + 1) <=> IF whole[(l + 1) + 1] = "'" THEN ~Open(whole, l + 1) ELSE Open(whole, l + 1)
      BY <3>1, OpenStep
    <3> QED BY <1>12, <3>1, <3>2, <3>3
  <2>3. ASSUME NEW i \in 1 .. l + 2 PROVE whole[i] = "'" \/ Open(whole, i - 1)
    <3>1. CASE i = 1 \/ i = l + 2
      BY <1>12, <3>1
    <3>2. CASE ~(i = 1 \/ i = l + 2)
      <4> DEFINE j == i - 2
      <4>1. j \in 0 .. l /\ j + 1 = i - 1 /\ j + 1 \in 1 .. l /\ (j + 1) + 1 = i
        BY <1>3, <3>2
      <4>2. whole[i] = e[j + 1]
        BY <1>12, <4>1
      <4> HIDE DEF j
      <4>3. CASE Open(e, j)
        BY <1>7, <4>1, <4>2, <4>3
      <4>4. CASE ~Open(e, j)
        BY <1>11, <4>1, <4>4
      <4> QED BY <4>3, <4>4
    <3> QED BY <3>1, <3>2
  <2> QED BY <1>10, <2>1, <2>2, <2>3 DEF IsQuoted
<1>14. l + 4 \in Matches(t)
  BY <1>5, <1>9, <1>13 DEF Matches, whole
<1>15. ASSUME NEW n \in Matches(t) PROVE n = l + 4
  <2> DEFINE inner == SubSeq(t, 2, n - 1)
  <2>0. n \in 3 .. Len(t) /\ t[n] = "]" /\ (IsQuoted(inner) \/ \A i \in DOMAIN inner : inner[i] \in Range(Digits))
    BY DEF Matches
  <2>1. Len(inner) = n - 2 /\ DOMAIN inner = 1 .. n - 2 /\ \A i \in 1 .. n - 2 : inner[i] = t[i + 1]
    BY <2>0, InnerOf
  <2>2. \A j \in 0 .. l : j + 1 <= n - 2 => (Open(inner, j + 1) <=> ~Open(e, j))
    BY <1>8, <2>0
  <2> HIDE DEF inner
  <2>3. IsQuoted(inner)
    <3>1. 1 \in 1 .. n - 2 /\ 1 + 1 = 2
      BY <1>4, <2>0
    <3>2. inner[1] = "'"
      BY <1>5, <2>1, <3>1
    <3>3. inner[1] \notin Range(Digits)
      BY <3>2, DigitsAre DEF DigitSet
    <3> QED BY <2>0, <2>1, <3>1, <3>3
  <2>4. ~(n < l + 4)
    <3> SUFFICES ASSUME n < l + 4 PROVE FALSE
      OBVIOUS
    <3> DEFINE j == n - 3
    <3>1. n \in Nat /\ j \in 0 .. l /\ j + 1 = n - 2
      BY <1>3, <1>4, <2>0
    <3> HIDE DEF j
    <3>2. ~Open(inner, n - 2)
      BY <2>1, <2>3 DEF IsQuoted
    <3>3. Open(e, j)
      BY <2>2, <3>1, <3>2
    <3>4. j < l /\ e[j + 1] = "'"
      BY <1>7, <3>1, <3>3
    <3>5. j + 1 \in 1 .. l /\ (j + 1) + 2 = n
      BY <1>3, <3>1, <3>4
    <3>6. t[n] = "'"
      BY <1>6, <3>4, <3>5
    <3> QED BY <2>0, <3>6
  <2>5. ~(n > l + 4)
    <3> SUFFICES ASSUME n > l + 4 PROVE FALSE
      OBVIOUS
    <3>1. l + 3 \in 1 .. n - 2 /\ (l + 3) + 1 = l + 4 /\ (l + 3) - 1 = l + 2 /\ (l + 1) + 1 = l + 2
          /\ l + 2 \in 1 .. n - 2 /\ (l + 2) + 1 = l + 3 /\ l + 1 \in Nat /\ l \in 0 .. l /\ l + 1 <= n - 2
      BY <1>3, <1>4, <2>0
    <3>2. inner[l + 3] = "]" /\ inner[l + 2] = "'"
      BY <1>5, <2>1, <3>1
    <3>3. Open(inner, l + 2)
      <4>1. l + 3 \in 1 .. Len(inner)
        BY <2>1, <3>1
      <4>2. inner[l + 3] = "'" \/ Open(inner, (l + 3) - 1)
        BY <2>3, <4>1 DEF IsQuoted
      <4> QED BY <3>1, <3>2, <4>2
    <3>4. Open(inner, l + 1)
      BY <1>7, <2>2, <3>1
    <3>5. Open(inner, (l + 1) + 1) <=> IF inner[(l + 1) + 1] = "'" THEN ~Open(inner, l + 1) ELSE Open(inner, l + 1)
      BY <3>1, OpenStep
    <3> QED BY <3>1, <3>2, <3>3, <3>4, <3>5
  <2> QED BY <1>3, <1>4, <2>0, <2>4, <2>5
<1>16. Matches(t) = {Len(seg)}
  BY <1>3, <1>14, <1>15
<1>17. SubSeq(whole, 2, Len(whole) - 1) = e
  <2> DEFINE middle == SubSeq(whole, 2, Len(whole) - 1)
  <2>1. Len(whole) - 1 = l + 1 /\ Len(whole) \in Nat /\ l \in Nat
    BY <1>3, <1>10
  <2>2. middle \in Seq(Sign) /\ Len(middle) = l
    BY <1>10, <2>1
  <2>3. \A i \in 1 .. l : middle[i] = e[i]
    <3> SUFFICES ASSUME NEW i \in 1 .. l PROVE middle[i] = e[i]
      OBVIOUS
    <3>1. middle[i] = whole[2 + i - 1] /\ 2 + i - 1 = i + 1
      BY <1>10, <2>1
    <3> QED BY <1>12, <3>1
  <2> HIDE DEF middle
  <2>4. Len(middle) = Len(e) /\ \A i \in 1 .. Len(middle) : middle[i] = e[i]
    BY <2>2, <2>3 DEF l
  <2> QED BY <1>1, <2>2, <2>4, SeqEqual DEF middle
<1>18. SpecifierOf(whole) = <<"string", s>>
  BY <1>1, <1>12, <1>17 DEF SpecifierOf
<1>19. SpecifierOf(SubSeq(t, 2, Len(seg) - 1)) = <<"string", s>>
  BY <1>3, <1>18 DEF whole
<1> QED BY <1>16, <1>19 DEF IsMatched, seg

(***************************************************************************)
(* The texts of paths.                                                     *)
(***************************************************************************)
LEMMA SegmentOf ==
    ASSUME NEW x \in Specifier
    PROVE  StringifySpecifier(x) \in Seq(Sign) /\ Len(StringifySpecifier(x)) >= 3
<1>1. CASE x \in {"number"} \X Nat
  <2>1. PICK k \in Nat : x = <<"number", k>>
    BY <1>1
  <2>2. StringifySpecifier(x) = <<"[">> \o Numeral(k) \o <<"]">>
    BY <2>1 DEF StringifySpecifier
  <2>3. IsNumberText(StringifySpecifier(x), Numeral(k))
    BY <2>2, NumeralOfText
  <2> QED BY <2>3 DEF IsNumberText
<1>2. CASE x \in {"string"} \X Seq(Letter)
  <2>1. PICK s \in Seq(Letter) : x = <<"string", s>>
    BY <1>2
  <2>2. StringifySpecifier(x) = <<"[", "'">> \o Escaped(s) \o <<"'", "]">>
    BY <2>1 DEF StringifySpecifier
  <2>3. Escaped(s) \in Seq(Sign)
    BY EscapedComesBack DEF EscapeOK
  <2>4. IsQuotedText(StringifySpecifier(x), Escaped(s))
    BY <2>2, <2>3, QuotedText
  <2> QED BY <2>4 DEF IsQuotedText
<1> QED BY <1>1, <1>2 DEF Specifier

StartsWith(text, start) ==
    Len(start) <= Len(text) /\ \A i \in 1 .. Len(start) : text[i] = start[i]

LEMMA SpecifierIsMatched ==
    ASSUME NEW x \in Specifier, NEW t \in Seq(Sign), StartsWith(t, StringifySpecifier(x))
    PROVE  IsMatched(t, StringifySpecifier(x), x)
<1>1. CASE x \in {"number"} \X Nat
  <2>1. PICK k \in Nat : x = <<"number", k>>
    BY <1>1
  <2>2. StartsWith(t, StringifySpecifier(<<"number", k>>))
    BY <2>1
  <2>3. IsMatched(t, StringifySpecifier(<<"number", k>>), <<"number", k>>)
    BY <2>2, NumberIsMatched DEF StartsWith
  <2> QED BY <2>1, <2>3
<1>2. CASE x \in {"string"} \X Seq(Letter)
  <2>1. PICK s \in Seq(Letter) : x = <<"string", s>>
    BY <1>2
  <2>2. StartsWith(t, StringifySpecifier(<<"string", s>>))
    BY <2>1
  <2>3. IsMatched(t, StringifySpecifier(<<"string", s>>), <<"string", s>>)
    BY <2>2, StringIsMatched DEF StartsWith
  <2> QED BY <2>1, <2>3
<1> QED BY <1>1, <1>2 DEF Specifier

LEMMA StringifyEmpty == Stringify(<<>>) = <<>>
<1>1. [i \in DOMAIN <<>> |-> StringifySpecifier(<<>>[i])] = <<>>
  OBVIOUS
<1> QED BY <1>1, FlattenEmpty DEF Stringify

LEMMA StringifyTyped ==
    ASSUME NEW p \in Seq(Specifier)
    PROVE  Stringify(p) \in Seq(Sign)
<1> DEFINE segs == [i \in DOMAIN p |-> StringifySpecifier(p[i])]
<1>1. \A i \in 1 .. Len(p) : StringifySpecifier(p[i]) \in Seq(Sign)
  BY SegmentOf
<1>2. segs \in Seq(Seq(Sign))
  BY <1>1
<1>3. Stringify(p) = FlattenSeq(segs)
  BY DEF Stringify
<1> HIDE DEF segs
<1> QED BY <1>2, <1>3, FlattenTyped

LEMMA StringifyAppend ==
    ASSUME NEW p \in Seq(Specifier), NEW x \in Specifier
    PROVE  Stringify(Append(p, x)) = Stringify(p) \o StringifySpecifier(x)
<1> DEFINE segs == [i \in DOMAIN p |-> StringifySpecifier(p[i])]
           longer == Append(p, x)
           more == [i \in DOMAIN longer |-> StringifySpecifier(longer[i])]
           last == StringifySpecifier(x)
<1>1. \A y \in Specifier : StringifySpecifier(y) \in Seq(Sign)
  BY SegmentOf
<1>2. segs \in Seq(Seq(Sign)) /\ Len(segs) = Len(p)
  <2>1. \A i \in 1 .. Len(p) : StringifySpecifier(p[i]) \in Seq(Sign)
    BY <1>1
  <2> QED BY <2>1
<1>3. last \in Seq(Sign)
  BY <1>1
<1>4. Len(longer) = Len(p) + 1 /\ longer \in Seq(Specifier) /\ Len(p) \in Nat
      /\ (\A i \in 1 .. Len(p) : longer[i] = p[i]) /\ longer[Len(p) + 1] = x
  OBVIOUS
<1>5. more = Append(segs, last)
  <2>1. more \in Seq(Seq(Sign)) /\ Len(more) = Len(longer)
    <3>1. \A i \in 1 .. Len(longer) : StringifySpecifier(longer[i]) \in Seq(Sign)
      BY <1>1, <1>4
    <3> QED BY <1>4, <3>1
  <2>2. Len(Append(segs, last)) = Len(p) + 1 /\ Append(segs, last) \in Seq(Seq(Sign))
    <3> HIDE DEF segs, last
    <3> QED BY <1>2, <1>3
  <2>3. \A i \in 1 .. Len(p) + 1 : more[i] = Append(segs, last)[i]
    <3> SUFFICES ASSUME NEW i \in 1 .. Len(p) + 1 PROVE more[i] = Append(segs, last)[i]
      OBVIOUS
    <3>1. more[i] = StringifySpecifier(longer[i])
      BY <1>4
    <3>2. CASE i \in 1 .. Len(p)
      <4>1. Append(segs, last)[i] = segs[i]
        <5> HIDE DEF segs, last
        <5> QED BY <1>2, <1>3, <3>2
      <4>2. segs[i] = StringifySpecifier(p[i])
        BY <3>2
      <4>3. longer[i] = p[i]
        BY <1>4, <3>2
      <4> HIDE DEF longer, more, segs, last
      <4> QED BY <3>1, <4>1, <4>2, <4>3
    <3>3. CASE i = Len(p) + 1
      <4>1. Append(segs, last)[i] = last
        <5> HIDE DEF segs, last
        <5> QED BY <1>2, <1>3, <3>3
      <4> HIDE DEF longer, more, segs
      <4> QED BY <1>4, <3>1, <3>3, <4>1
    <3> QED BY <3>2, <3>3
  <2> HIDE DEF more, segs, longer, last
  <2> QED BY <1>4, <2>1, <2>2, <2>3, SeqEqual
<1>6. FlattenSeq(more) = FlattenSeq(segs) \o last
  <2> HIDE DEF segs, more, last
  <2> QED BY <1>2, <1>3, <1>5, FlattenAppend
<1>7. Stringify(p) = FlattenSeq(segs) /\ Stringify(longer) = FlattenSeq(more)
  BY DEF Stringify
<1> QED BY <1>6, <1>7

Joins(p, r) == Stringify(p \o r) = Stringify(p) \o Stringify(r)

LEMMA StringifyConcat ==
    ASSUME NEW p \in Seq(Specifier)
    PROVE  \A r \in Seq(Specifier) : Joins(p, r)
<1> DEFINE T == {m \in Nat : \E r \in Seq(Specifier) : Len(r) = m /\ ~Joins(p, r)}
<1>1. T = {}
  <2> SUFFICES ASSUME T # {} PROVE FALSE
    OBVIOUS
  <2>1. PICK m \in T : \A t \in T : m <= t
    <3>1. T \in SUBSET Nat
      OBVIOUS
    <3> HIDE DEF T
    <3> QED BY <3>1, LeastNumber
  <2>2. PICK r \in Seq(Specifier) : Len(r) = m /\ ~Joins(p, r)
    OBVIOUS
  <2>3. CASE r = <<>>
    <3>1. p \o <<>> = p /\ Stringify(p) \o <<>> = Stringify(p)
      BY StringifyTyped
    <3> QED BY <2>2, <2>3, <3>1, StringifyEmpty DEF Joins
  <2>4. CASE r # <<>>
    <3>1. PICK front \in Seq(Specifier), x \in Specifier : r = Append(front, x)
      BY <2>4, SequenceEmptyOrAppend
    <3>2. Len(front) \in Nat /\ m = Len(front) + 1 /\ ~(m <= Len(front))
      BY <2>2, <3>1
    <3>3. Joins(p, front)
      BY <2>1, <3>2
    <3>4. p \o r = Append(p \o front, x) /\ p \o front \in Seq(Specifier)
      BY <3>1
    <3> DEFINE sp == Stringify(p)
               sf == Stringify(front)
               sx == StringifySpecifier(x)
    <3>5. sp \in Seq(Sign) /\ sf \in Seq(Sign) /\ sx \in Seq(Sign)
      BY StringifyTyped, SegmentOf
    <3>6. Stringify(p \o r) = Stringify(p \o front) \o sx
      BY <3>4, StringifyAppend
    <3>7. Stringify(r) = sf \o sx
      BY <3>1, StringifyAppend
    <3>8. Stringify(p \o front) = sp \o sf
      BY <3>3 DEF Joins
    <3>9. (sp \o sf) \o sx = sp \o (sf \o sx)
      <4> HIDE DEF sp, sf, sx
      <4> QED BY <3>5, ConcatAssociative
    <3> QED BY <2>2, <3>6, <3>7, <3>8, <3>9 DEF Joins
  <2> QED BY <2>3, <2>4
<1> QED BY <1>1

(***************************************************************************)
(* The loop of parse.                                                      *)
(***************************************************************************)
PassStep(text, g, n) ==
    IF n = 0 THEN [remainder |-> text, parsed |-> <<>>] ELSE ParsePass(g[n - 1])

ArePasses(text, g, last) == g = [n \in 0 .. last |-> PassStep(text, g, n)]

LEMMA PassesExist ==
    ASSUME NEW text, NEW last \in Nat
    PROVE  \E g : ArePasses(text, g, last)
<1> DEFINE T == {m \in Nat : ~ \E g : ArePasses(text, g, m)}
<1>1. ASSUME NEW m \in Nat, m = 0 PROVE \E g : ArePasses(text, g, m)
  <2> DEFINE g == [x \in 0 .. m |-> [remainder |-> text, parsed |-> <<>>]]
  <2>1. g = [x \in 0 .. m |-> PassStep(text, g, x)]
    <3>1. \A x \in 0 .. m : x = 0
      BY <1>1
    <3> QED BY <3>1 DEF PassStep
  <2> QED BY <2>1 DEF ArePasses
<1>2. ASSUME NEW m \in Nat, NEW g, ArePasses(text, g, m) PROVE \E h : ArePasses(text, h, m + 1)
  <2> DEFINE h == [x \in 0 .. m + 1 |-> PassStep(text, g, x)]
  <2>1. ASSUME NEW x \in 0 .. m + 1 PROVE h[x] = PassStep(text, h, x)
    <3>1. CASE x = 0
      BY <3>1 DEF PassStep
    <3>2. CASE x # 0
      <4>1. x - 1 \in 0 .. m /\ x - 1 \in 0 .. m + 1
        BY <3>2
      <4>2. g[x - 1] = PassStep(text, g, x - 1)
        BY <1>2, <4>1 DEF ArePasses
      <4>3. h[x - 1] = g[x - 1]
        BY <4>1, <4>2
      <4>4. h[x] = PassStep(text, g, x)
        OBVIOUS
      <4> HIDE DEF h
      <4> QED BY <3>2, <4>3, <4>4 DEF PassStep
    <3> QED BY <3>1, <3>2
  <2>2. h = [x \in 0 .. m + 1 |-> h[x]]
    OBVIOUS
  <2> HIDE DEF h
  <2>3. h = [x \in 0 .. m + 1 |-> PassStep(text, h, x)]
    BY <2>1, <2>2
  <2> QED BY <2>3 DEF ArePasses
<1>3. T = {}
  <2> SUFFICES ASSUME T # {} PROVE FALSE
    OBVIOUS
  <2>1. PICK m \in T : \A t \in T : m <= t
    <3>1. T \in SUBSET Nat
      OBVIOUS
    <3> HIDE DEF T
    <3> QED BY <3>1, LeastNumber
  <2>2. m \in Nat /\ ~ \E g : ArePasses(text, g, m)
    OBVIOUS
  <2>3. m # 0
    BY <1>1, <2>2
  <2>4. m - 1 \in Nat /\ ~(m <= m - 1) /\ (m - 1) + 1 = m
    BY <2>2, <2>3
  <2>5. PICK g : ArePasses(text, g, m - 1)
    <3>1. m - 1 \notin T
      BY <2>1, <2>4
    <3> QED BY <2>4, <3>1
  <2>6. \E h : ArePasses(text, h, (m - 1) + 1)
    BY <1>2, <2>4, <2>5
  <2> QED BY <2>2, <2>4, <2>6
<1> QED BY <1>3

LEMMA ParseIs ==
    ASSUME NEW text, Len(text) \in Nat
    PROVE  \E g : ArePasses(text, g, Len(text)) /\ Parse(text) = g[Len(text)].parsed
<1> DEFINE chosen == CHOOSE g : g = [n \in 0 .. Len(text) |-> PassStep(text, g, n)]
<1>1. Parse(text) = chosen[Len(text)].parsed
  BY DEF Parse, PassStep
<1>2. chosen = [n \in 0 .. Len(text) |-> PassStep(text, chosen, n)]
  <2>1. PICK g : ArePasses(text, g, Len(text))
    BY PassesExist
  <2>2. \E g1 : g1 = [n \in 0 .. Len(text) |-> PassStep(text, g1, n)]
    BY <2>1 DEF ArePasses
  <2> QED BY <2>2
<1> QED BY <1>1, <1>2 DEF ArePasses

\* A pass over a text that starts with a specifier cuts it off.
LEMMA PassOfSpecifier ==
    ASSUME NEW x \in Specifier, NEW t \in Seq(Sign), StartsWith(t, StringifySpecifier(x)),
           NEW parsed
    PROVE  ParsePass([remainder |-> t, parsed |-> parsed]) =
              [remainder |-> SubSeq(t, Len(StringifySpecifier(x)) + 1, Len(t)),
               parsed |-> Append(parsed, x)]
<1> DEFINE before == [remainder |-> t, parsed |-> parsed]
           l == Len(StringifySpecifier(x))
<1>1. Matches(t) = {l} /\ SpecifierOf(SubSeq(t, 2, l - 1)) = x
  BY SpecifierIsMatched DEF IsMatched
<1>2. l >= 3 /\ l <= Len(t) /\ l \in Nat
  BY SegmentOf DEF StartsWith
<1> HIDE DEF l
<1>3. t # <<>>
  BY <1>2
<1>4. (CHOOSE n \in Matches(t) : TRUE) = l /\ Matches(t) # {}
  BY <1>1
<1>5. before.remainder = t /\ before.parsed = parsed
  OBVIOUS
<1> HIDE DEF before
<1>6. ParsePass(before) = [remainder |-> SubSeq(t, l + 1, Len(t)), parsed |-> Append(parsed, x)]
  BY <1>1, <1>3, <1>4, <1>5 DEF ParsePass
<1> QED BY <1>6 DEF before, l

LEMMA PassAtEndOfText ==
    ASSUME NEW parsed
    PROVE  ParsePass([remainder |-> <<>>, parsed |-> parsed]) = [remainder |-> <<>>, parsed |-> parsed]
<1> DEFINE before == [remainder |-> <<>>, parsed |-> parsed]
<1>1. before.remainder = <<>>
  OBVIOUS
<1> HIDE DEF before
<1>2. ParsePass(before) = before
  BY <1>1 DEF ParsePass
<1> QED BY <1>2 DEF before

\* What is left of a text after its first letters.
IsRest(rest, text, from) ==
    /\ rest \in Seq(Sign) /\ Len(rest) = Len(text) - from
    /\ \A i \in 1 .. Len(text) - from : rest[i] = text[from + i]

LEMMA RestIs ==
    ASSUME NEW text \in Seq(Sign), NEW from \in 0 .. Len(text)
    PROVE  IsRest(SubSeq(text, from + 1, Len(text)), text, from)
<1> DEFINE rest == SubSeq(text, from + 1, Len(text))
<1>1. Len(text) \in Nat /\ from \in Nat /\ from <= Len(text)
  OBVIOUS
<1>2. rest \in Seq(Sign) /\ Len(rest) = Len(text) - from
  BY <1>1
<1>3. \A i \in 1 .. Len(text) - from : rest[i] = text[from + i]
  <2> SUFFICES ASSUME NEW i \in 1 .. Len(text) - from PROVE rest[i] = text[from + i]
    OBVIOUS
  <2>1. rest[i] = text[from + 1 + i - 1] /\ from + 1 + i - 1 = from + i
    BY <1>1
  <2> QED BY <2>1
<1> HIDE DEF rest
<1> QED BY <1>2, <1>3 DEF IsRest, rest

LEMMA RestsAreEqual ==
    ASSUME NEW text \in Seq(Sign), NEW a, NEW b, NEW from, IsRest(a, text, from), IsRest(b, text, from)
    PROVE  a = b
<1>1. Len(a) = Len(b) /\ a \in Seq(Sign) /\ b \in Seq(Sign) /\ \A i \in 1 .. Len(a) : a[i] = b[i]
  BY DEF IsRest
<1> QED BY <1>1, SeqEqual

LEMMA RestOfRest ==
    ASSUME NEW text \in Seq(Sign), NEW l \in Nat, NEW k \in Nat, l + k <= Len(text),
           NEW rest, IsRest(rest, text, l)
    PROVE  SubSeq(rest, k + 1, Len(rest)) = SubSeq(text, l + k + 1, Len(text))
<1> DEFINE a == SubSeq(rest, k + 1, Len(rest))
           b == SubSeq(text, l + k + 1, Len(text))
           n == Len(text)
<1>1. rest \in Seq(Sign) /\ Len(rest) = n - l /\ n \in Nat /\ k \in 0 .. Len(rest) /\ l + k \in 0 .. n
      /\ (n - l) - k = n - (l + k)
  BY DEF IsRest
<1>2. IsRest(a, rest, k) /\ IsRest(b, text, l + k)
  BY <1>1, RestIs
<1> HIDE DEF a, b, n
<1>3. IsRest(a, text, l + k)
  <2>1. a \in Seq(Sign) /\ Len(a) = n - (l + k)
    BY <1>1, <1>2 DEF IsRest
  <2>2. \A i \in 1 .. n - (l + k) : a[i] = text[(l + k) + i]
    <3> SUFFICES ASSUME NEW i \in 1 .. n - (l + k) PROVE a[i] = text[(l + k) + i]
      OBVIOUS
    <3>1. i \in 1 .. Len(rest) - k /\ k + i \in 1 .. n - l /\ l + (k + i) = (l + k) + i
      BY <1>1
    <3>2. a[i] = rest[k + i]
      BY <1>2, <3>1 DEF IsRest
    <3>3. rest[k + i] = text[l + (k + i)]
      BY <3>1 DEF IsRest, n
    <3> QED BY <3>1, <3>2, <3>3
  <2> QED BY <2>1, <2>2 DEF IsRest, n
<1>4. a = b
  BY <1>2, <1>3, RestsAreEqual
<1> QED BY <1>4 DEF a, b

\* The loop reads a path off the text that starts with the text of it.
IsReadOff(text, g, p) ==
    StartsWith(text, Stringify(p)) =>
       /\ Len(p) <= Len(Stringify(p))
       /\ g[Len(p)] = [remainder |-> SubSeq(text, Len(Stringify(p)) + 1, Len(text)), parsed |-> p]

LEMMA ReadOffAppend ==
    ASSUME NEW text \in Seq(Sign), NEW g, ArePasses(text, g, Len(text)),
           NEW p \in Seq(Specifier), IsReadOff(text, g, p), NEW x \in Specifier
    PROVE  IsReadOff(text, g, Append(p, x))
<1> DEFINE longer == Append(p, x)
           start == Stringify(p)
           seg == StringifySpecifier(x)
           l == Len(start)
           k == Len(seg)
           n == Len(text)
<1> SUFFICES ASSUME StartsWith(text, Stringify(longer))
             PROVE  /\ Len(longer) <= Len(Stringify(longer))
                    /\ g[Len(longer)] = [remainder |-> SubSeq(text, Len(Stringify(longer)) + 1, Len(text)),
                                         parsed |-> longer]
  BY DEF IsReadOff
<1>1. Stringify(longer) = start \o seg
  BY StringifyAppend
<1>2. start \in Seq(Sign) /\ seg \in Seq(Sign) /\ k >= 3
  BY StringifyTyped, SegmentOf
<1>2a. IsReadOff(text, g, p) <=>
         (StartsWith(text, start) =>
            /\ Len(p) <= l
            /\ g[Len(p)] = [remainder |-> SubSeq(text, l + 1, n), parsed |-> p])
  BY DEF IsReadOff
<1> HIDE DEF start, seg
<1>3. Len(start \o seg) = l + k /\ (\A i \in 1 .. l : (start \o seg)[i] = start[i])
      /\ \A i \in 1 .. k : (start \o seg)[l + i] = seg[i]
  BY <1>2
<1>4. l \in Nat /\ k \in Nat /\ n \in Nat /\ k >= 3
  BY <1>2
<1>5. l + k <= n /\ \A i \in 1 .. l + k : text[i] = (start \o seg)[i]
  BY <1>1, <1>3 DEF StartsWith
<1>6. StartsWith(text, start)
  <2>1. \A i \in 1 .. l : text[i] = start[i]
    BY <1>3, <1>4, <1>5
  <2> QED BY <1>4, <1>5, <2>1 DEF StartsWith
<1> DEFINE rest == SubSeq(text, l + 1, n)
<1>7. Len(p) <= l /\ g[Len(p)] = [remainder |-> rest, parsed |-> p]
  BY <1>2a, <1>6
<1>8. IsRest(rest, text, l)
  <2>1. l \in 0 .. n
    BY <1>4, <1>5
  <2> QED BY <2>1, RestIs
<1>9. rest \in Seq(Sign) /\ Len(rest) = n - l /\ \A i \in 1 .. n - l : rest[i] = text[l + i]
  BY <1>8 DEF IsRest
<1>10. SubSeq(rest, k + 1, Len(rest)) = SubSeq(text, l + k + 1, n)
  <2> HIDE DEF rest
  <2> QED BY <1>4, <1>5, <1>8, RestOfRest
<1> HIDE DEF rest
<1>11. StartsWith(rest, seg)
  <2>1. \A i \in 1 .. k : i \in 1 .. n - l /\ l + i \in 1 .. l + k
    BY <1>4, <1>5
  <2>2. \A i \in 1 .. k : rest[i] = seg[i]
    BY <1>3, <1>5, <1>9, <2>1
  <2> QED BY <1>4, <1>5, <1>9, <2>2 DEF StartsWith
<1>12. ParsePass([remainder |-> rest, parsed |-> p]) =
          [remainder |-> SubSeq(text, l + k + 1, n), parsed |-> longer]
  BY <1>9, <1>10, <1>11, PassOfSpecifier DEF seg
<1>13. Len(longer) = Len(p) + 1 /\ Len(p) \in Nat
  OBVIOUS
<1> HIDE DEF longer
<1>14. g[Len(longer)] = ParsePass(g[Len(p)])
  <2>1. Len(longer) \in 0 .. n /\ Len(longer) # 0 /\ Len(longer) - 1 = Len(p)
    BY <1>4, <1>5, <1>7, <1>13
  <2>2. g[Len(longer)] = PassStep(text, g, Len(longer))
    BY <2>1 DEF ArePasses
  <2> QED BY <2>1, <2>2 DEF PassStep
<1>15. Len(Stringify(longer)) = l + k
  BY <1>1, <1>3
<1>16. Len(longer) <= Len(Stringify(longer))
  BY <1>4, <1>7, <1>13, <1>15
<1> HIDE DEF l, k, n
<1> QED BY <1>7, <1>12, <1>14, <1>15, <1>16 DEF n

LEMMA PathsAreReadOff ==
    ASSUME NEW text \in Seq(Sign), NEW g, ArePasses(text, g, Len(text))
    PROVE  \A p \in Seq(Specifier) : IsReadOff(text, g, p)
<1> DEFINE T == {m \in Nat : \E p \in Seq(Specifier) : Len(p) = m /\ ~IsReadOff(text, g, p)}
<1>1. T = {}
  <2> SUFFICES ASSUME T # {} PROVE FALSE
    OBVIOUS
  <2>1. PICK m \in T : \A t \in T : m <= t
    <3>1. T \in SUBSET Nat
      OBVIOUS
    <3> HIDE DEF T
    <3> QED BY <3>1, LeastNumber
  <2>2. PICK p \in Seq(Specifier) : Len(p) = m /\ ~IsReadOff(text, g, p)
    OBVIOUS
  <2>3. CASE p = <<>>
    <3>1. Len(<<>>) = 0 /\ 0 \in 0 .. Len(text) /\ 0 + 1 = 1 /\ SubSeq(text, 1, Len(text)) = text
      BY SubSeqFull
    <3>2. g[0] = [remainder |-> text, parsed |-> <<>>]
      BY <3>1 DEF ArePasses, PassStep
    <3>3. IsReadOff(text, g, <<>>)
      <4>1. Len(Stringify(<<>>)) = 0 /\ Len(Stringify(<<>>)) + 1 = 1 /\ 0 <= 0
        BY <3>1, StringifyEmpty
      <4>2. g[Len(<<>>)] = [remainder |-> SubSeq(text, 1, Len(text)), parsed |-> <<>>]
        BY <3>1, <3>2
      <4>3. Len(<<>>) <= Len(Stringify(<<>>))
        BY <3>1, <4>1
      <4> QED BY <4>1, <4>2, <4>3, Zenon DEF IsReadOff
    <3> QED BY <2>2, <2>3, <3>3
  <2>4. CASE p # <<>>
    <3>1. PICK front \in Seq(Specifier), x \in Specifier : p = Append(front, x)
      BY <2>4, SequenceEmptyOrAppend
    <3>2. Len(front) \in Nat /\ m = Len(front) + 1 /\ ~(m <= Len(front))
      BY <2>2, <3>1
    <3>3. IsReadOff(text, g, front)
      BY <2>1, <3>2
    <3> QED BY <2>2, <3>1, <3>3, ReadOffAppend
  <2> QED BY <2>3, <2>4
<1> QED BY <1>1

LEMMA StartOfItself == ASSUME NEW t \in Seq(Sign) PROVE StartsWith(t, t)
BY DEF StartsWith

LEMMA RestAtEnd ==
    ASSUME NEW t \in Seq(Sign)
    PROVE  SubSeq(t, Len(t) + 1, Len(t)) = <<>>
<1> DEFINE rest == SubSeq(t, Len(t) + 1, Len(t))
<1>1. IsRest(rest, t, Len(t)) /\ Len(t) \in Nat
  BY RestIs
<1> HIDE DEF rest
<1>2. rest \in Seq(Sign) /\ Len(rest) = 0
  BY <1>1 DEF IsRest
<1>3. rest = <<>>
  BY <1>2, EmptySeq
<1> QED BY <1>3 DEF rest

\* After a pass each specifier of a path, the loop has all of it, and keeps it.
LEMMA LoopReadsPath ==
    ASSUME NEW q \in Seq(Specifier), NEW g,
           ArePasses(Stringify(q), g, Len(Stringify(q)))
    PROVE  \A n \in Len(q) .. Len(Stringify(q)) : g[n] = [remainder |-> <<>>, parsed |-> q]
<1> DEFINE text == Stringify(q)
           done == [remainder |-> <<>>, parsed |-> q]
<1>1. text \in Seq(Sign) /\ Len(text) \in Nat /\ Len(q) \in Nat
  BY StringifyTyped
<1>2. ArePasses(text, g, Len(text))
  OBVIOUS
<1>3. Len(q) <= Len(text) /\ g[Len(q)] = done
  <2>1. IsReadOff(text, g, q)
    <3> HIDE DEF text
    <3> QED BY <1>1, <1>2, PathsAreReadOff
  <2>2. StartsWith(text, text)
    <3> HIDE DEF text
    <3> QED BY <1>1, StartOfItself
  <2>3. SubSeq(text, Len(text) + 1, Len(text)) = <<>>
    <3> HIDE DEF text
    <3> QED BY <1>1, RestAtEnd
  <2> QED BY <2>1, <2>2, <2>3 DEF IsReadOff
<1> HIDE DEF text, done
<1> DEFINE T == {n \in Nat : n \in Len(q) .. Len(text) /\ g[n] # done}
<1>4. T = {}
  <2> SUFFICES ASSUME T # {} PROVE FALSE
    OBVIOUS
  <2>1. PICK n \in T : \A t \in T : n <= t
    <3>1. T \in SUBSET Nat
      OBVIOUS
    <3> HIDE DEF T
    <3> QED BY <3>1, LeastNumber
  <2>2. n \in Nat /\ n \in Len(q) .. Len(text) /\ g[n] # done
    OBVIOUS
  <2>3. n # Len(q)
    BY <1>3, <2>2
  <2>4. n - 1 \in Nat /\ n - 1 \in Len(q) .. Len(text) /\ ~(n <= n - 1) /\ n # 0 /\ n \in 0 .. Len(text)
    BY <1>1, <2>2, <2>3
  <2>5. g[n - 1] = done
    BY <2>1, <2>4
  <2>6. g[n] = ParsePass(g[n - 1])
    <3>1. g[n] = PassStep(text, g, n)
      BY <1>2, <2>4 DEF ArePasses
    <3> QED BY <2>4, <3>1 DEF PassStep
  <2>7. g[n] = done
    BY <2>5, <2>6, PassAtEndOfText DEF done
  <2> QED BY <2>2, <2>7
<1>5. \A n \in Len(q) .. Len(text) : g[n] = done
  <2>1. \A n \in Len(q) .. Len(text) : n \in Nat
    BY <1>1
  <2> QED BY <1>4, <2>1
<1> QED BY <1>5 DEF text, done

\* parse takes a path back from its text.
LEMMA ParseReadsPath ==
    ASSUME NEW q \in Seq(Specifier)
    PROVE  Parse(Stringify(q)) = q /\ Len(q) <= Len(Stringify(q))
<1>1. Stringify(q) \in Seq(Sign) /\ Len(Stringify(q)) \in Nat /\ Len(q) \in Nat
  BY StringifyTyped
<1>2. PICK g : ArePasses(Stringify(q), g, Len(Stringify(q))) /\ Parse(Stringify(q)) = g[Len(Stringify(q))].parsed
  BY <1>1, ParseIs
<1>3. Len(q) <= Len(Stringify(q))
  <2>1. IsReadOff(Stringify(q), g, q)
    BY <1>1, <1>2, PathsAreReadOff
  <2> QED BY <1>1, <2>1, StartOfItself DEF IsReadOff
<1>4. g[Len(Stringify(q))] = [remainder |-> <<>>, parsed |-> q]
  <2>1. Len(Stringify(q)) \in Len(q) .. Len(Stringify(q))
    BY <1>1, <1>3
  <2> QED BY <1>2, <2>1, LoopReadsPath
<1> QED BY <1>2, <1>3, <1>4

\* A path is above or at another one where its text starts the other text.
LEMMA StartOfPath ==
    ASSUME NEW p \in Seq(Specifier), NEW q \in Seq(Specifier), Len(p) <= Len(q),
           p = SubSeq(q, 1, Len(p))
    PROVE  /\ StartsWith(Stringify(q), Stringify(p))
           /\ \E r \in Seq(Specifier) : q = p \o r /\ Stringify(q) = Stringify(p) \o Stringify(r)
<1> DEFINE m == Len(p)
           n == Len(q)
           r == SubSeq(q, m + 1, n)
<1>1. m \in Nat /\ n \in Nat /\ m <= n
  OBVIOUS
<1>2. r \in Seq(Specifier) /\ Len(r) = n - m
  BY <1>1
<1>3. q = p \o r
  <2>1. Len(p \o r) = n /\ p \o r \in Seq(Specifier)
    <3> HIDE DEF r
    <3> QED BY <1>1, <1>2
  <2>2. \A i \in 1 .. n : (p \o r)[i] = q[i]
    <3> SUFFICES ASSUME NEW i \in 1 .. n PROVE (p \o r)[i] = q[i]
      OBVIOUS
    <3>1. CASE i \in 1 .. m
      <4>1. (p \o r)[i] = p[i]
        <5> HIDE DEF r
        <5> QED BY <1>2, <3>1
      <4>2. SubSeq(q, 1, m)[i] = q[1 + i - 1] /\ 1 + i - 1 = i
        BY <1>1, <3>1
      <4> QED BY <4>1, <4>2
    <3>2. CASE i \notin 1 .. m
      <4>1. i - m \in 1 .. n - m /\ m + (i - m) = i /\ m + 1 + (i - m) - 1 = i
        BY <1>1, <3>2
      <4>2. (p \o r)[i] = r[i - m]
        <5> HIDE DEF r
        <5> QED BY <1>1, <1>2, <3>2, <4>1
      <4>3. r[i - m] = q[m + 1 + (i - m) - 1]
        BY <1>1, <4>1
      <4> QED BY <4>1, <4>2, <4>3
    <3> QED BY <3>1, <3>2
  <2> HIDE DEF r
  <2> QED BY <2>1, <2>2, SeqEqual
<1> HIDE DEF r
<1>4. Stringify(q) = Stringify(p) \o Stringify(r)
  BY <1>2, <1>3, StringifyConcat DEF Joins
<1>5. Stringify(p) \in Seq(Sign) /\ Stringify(r) \in Seq(Sign)
  BY <1>2, StringifyTyped
<1>6. StartsWith(Stringify(p) \o Stringify(r), Stringify(p))
  BY <1>5 DEF StartsWith
<1> QED BY <1>2, <1>3, <1>4, <1>6

LEMMA StartOfText ==
    ASSUME NEW p \in Seq(Specifier), NEW q \in Seq(Specifier),
           StartsWith(Stringify(q), Stringify(p))
    PROVE  Len(p) <= Len(q) /\ p = SubSeq(q, 1, Len(p))
<1> DEFINE text == Stringify(q)
<1>1. text \in Seq(Sign) /\ Len(text) \in Nat /\ Len(p) \in Nat /\ Len(q) \in Nat /\ Stringify(p) \in Seq(Sign)
      /\ Len(Stringify(p)) \in Nat
  BY StringifyTyped
<1>2. PICK g : ArePasses(text, g, Len(text))
  BY <1>1, PassesExist
<1>3. Len(p) <= Len(Stringify(p)) /\ Len(Stringify(p)) <= Len(text) /\ g[Len(p)].parsed = p
  <2>1. IsReadOff(text, g, p)
    <3> HIDE DEF text
    <3> QED BY <1>1, <1>2, PathsAreReadOff
  <2>2. StartsWith(text, Stringify(p)) /\ Len(Stringify(p)) <= Len(text)
    BY DEF StartsWith
  <2> HIDE DEF text
  <2> QED BY <2>1, <2>2 DEF IsReadOff
<1>4. \A n \in Len(q) .. Len(text) : g[n] = [remainder |-> <<>>, parsed |-> q]
  BY <1>2, LoopReadsPath
<1>5. Len(p) <= Len(q)
  <2> SUFFICES ASSUME ~(Len(p) <= Len(q)) PROVE FALSE
    OBVIOUS
  <2>1. Len(p) \in Len(q) .. Len(text)
    BY <1>1, <1>3
  <2>2. g[Len(p)].parsed = q
    BY <1>4, <2>1
  <2> QED BY <1>1, <1>3, <2>2
<1>6. p = SubSeq(q, 1, Len(p))
  <2> DEFINE s == SubSeq(q, 1, Len(p))
  <2>1. s \in Seq(Specifier) /\ Len(s) = Len(p)
    BY <1>1, <1>5
  <2> HIDE DEF s
  <2>2. StartsWith(text, Stringify(s))
    BY <1>1, <1>5, <2>1, StartOfPath DEF s
  <2>3. g[Len(s)].parsed = s
    <3> HIDE DEF text
    <3>1. IsReadOff(text, g, s)
      BY <1>1, <1>2, <2>1, PathsAreReadOff
    <3> QED BY <2>2, <3>1 DEF IsReadOff
  <2> QED BY <1>3, <2>1, <2>3 DEF s
<1> QED BY <1>5, <1>6

\* What determineRelationship tells, by the two comparisons that it makes.
IsAtOrAbove(p, q) == Len(p) <= Len(q) /\ p = SubSeq(q, 1, Len(p))

LEMMA RelationshipIs ==
    ASSUME NEW S, NEW p \in Seq(S), NEW q \in Seq(S)
    PROVE  DetermineRelationship(p, q) =
              IF IsAtOrAbove(p, q)
              THEN IF IsAtOrAbove(q, p) THEN "Equal" ELSE "Ancestor"
              ELSE IF IsAtOrAbove(q, p) THEN "Descendant" ELSE "None"
<1>1. Len(p) \in Nat /\ Len(q) \in Nat
  OBVIOUS
<1>2. CASE Len(p) = Len(q)
  <2>1. SubSeq(q, 1, Len(p)) = q /\ SubSeq(p, 1, Len(q)) = p
    BY <1>2, SubSeqFull
  <2> QED BY <1>1, <1>2, <2>1 DEF DetermineRelationship, IsAtOrAbove
<1>3. CASE Len(p) < Len(q)
  <2>1. ~(Len(p) = Len(q)) /\ ~(Len(p) > Len(q)) /\ ~(Len(q) <= Len(p)) /\ Len(p) <= Len(q)
    BY <1>1, <1>3
  <2> QED BY <1>3, <2>1 DEF DetermineRelationship, IsAtOrAbove
<1>4. CASE Len(p) > Len(q)
  <2>1. ~(Len(p) = Len(q)) /\ ~(Len(p) < Len(q)) /\ ~(Len(p) <= Len(q)) /\ Len(q) <= Len(p)
    BY <1>1, <1>4
  <2> QED BY <1>4, <2>1 DEF DetermineRelationship, IsAtOrAbove
<1> QED BY <1>1, <1>2, <1>3, <1>4

LEMMA StartIsPrefix ==
    ASSUME NEW s \in Seq(Sign), NEW t \in Seq(Sign)
    PROVE  StartsWith(t, s) <=> IsAtOrAbove(s, t)
<1> DEFINE start == SubSeq(t, 1, Len(s))
<1>1. Len(s) \in Nat /\ Len(t) \in Nat
  OBVIOUS
<1>2. ASSUME Len(s) <= Len(t)
      PROVE  start \in Seq(Sign) /\ Len(start) = Len(s) /\ \A i \in 1 .. Len(s) : start[i] = t[i]
  <2>1. start \in Seq(Sign) /\ Len(start) = Len(s)
    BY <1>1, <1>2
  <2>2. \A i \in 1 .. Len(s) : start[i] = t[1 + i - 1] /\ 1 + i - 1 = i
    BY <1>1, <1>2
  <2> QED BY <2>1, <2>2
<1> HIDE DEF start
<1>3. ASSUME StartsWith(t, s) PROVE s = start
  <2>1. Len(start) = Len(s) /\ start \in Seq(Sign) /\ \A i \in 1 .. Len(start) : start[i] = s[i]
    BY <1>2, <1>3 DEF StartsWith
  <2> QED BY <2>1, SeqEqual
<1>4. ASSUME Len(s) <= Len(t), s = start PROVE StartsWith(t, s)
  BY <1>2, <1>4 DEF StartsWith
<1> QED BY <1>3, <1>4 DEF StartsWith, IsAtOrAbove, start

LEMMA TextsRelate ==
    ASSUME NEW p \in Seq(Specifier), NEW q \in Seq(Specifier)
    PROVE  TextsRelateAsPaths(p, q)
<1>1. Parse(Stringify(p)) = p
  BY ParseReadsPath
<1>2. \A a, b \in Seq(Specifier) : IsAtOrAbove(Stringify(a), Stringify(b)) <=> IsAtOrAbove(a, b)
  <2> SUFFICES ASSUME NEW a \in Seq(Specifier), NEW b \in Seq(Specifier)
               PROVE  IsAtOrAbove(Stringify(a), Stringify(b)) <=> IsAtOrAbove(a, b)
    OBVIOUS
  <2>1. StartsWith(Stringify(b), Stringify(a)) <=> IsAtOrAbove(Stringify(a), Stringify(b))
    BY StringifyTyped, StartIsPrefix
  <2>2. StartsWith(Stringify(b), Stringify(a)) => IsAtOrAbove(a, b)
    BY StartOfText DEF IsAtOrAbove
  <2>3. IsAtOrAbove(a, b) => StartsWith(Stringify(b), Stringify(a))
    BY StartOfPath DEF IsAtOrAbove
  <2> QED BY <2>1, <2>2, <2>3
<1>3. DetermineRelationship(Stringify(p), Stringify(q)) = DetermineRelationship(p, q)
  <2>1. DetermineRelationship(p, q) =
           IF IsAtOrAbove(p, q)
           THEN IF IsAtOrAbove(q, p) THEN "Equal" ELSE "Ancestor"
           ELSE IF IsAtOrAbove(q, p) THEN "Descendant" ELSE "None"
    BY RelationshipIs
  <2> DEFINE s == Stringify(p)
             t == Stringify(q)
  <2>2. s \in Seq(Sign) /\ t \in Seq(Sign)
    BY StringifyTyped
  <2>3. (IsAtOrAbove(s, t) <=> IsAtOrAbove(p, q)) /\ (IsAtOrAbove(t, s) <=> IsAtOrAbove(q, p))
    BY <1>2
  <2> HIDE DEF s, t
  <2>4. DetermineRelationship(s, t) =
           IF IsAtOrAbove(s, t)
           THEN IF IsAtOrAbove(t, s) THEN "Equal" ELSE "Ancestor"
           ELSE IF IsAtOrAbove(t, s) THEN "Descendant" ELSE "None"
    BY <2>2, RelationshipIs
  <2>5. DetermineRelationship(s, t) = DetermineRelationship(p, q)
    BY <2>1, <2>3, <2>4
  <2> QED BY <2>5 DEF s, t
<1>4. ASSUME DetermineRelationship(p, q) = "Ancestor"
      PROVE  p \o Parse(RelativeText(p, q)) = q
  <2>1. IsAtOrAbove(p, q)
    <3>1. DetermineRelationship(p, q) =
             IF IsAtOrAbove(p, q)
             THEN IF IsAtOrAbove(q, p) THEN "Equal" ELSE "Ancestor"
             ELSE IF IsAtOrAbove(q, p) THEN "Descendant" ELSE "None"
      BY RelationshipIs
    <3> QED BY <1>4, <3>1
  <2>2. PICK r \in Seq(Specifier) : q = p \o r /\ Stringify(q) = Stringify(p) \o Stringify(r)
    BY <2>1, StartOfPath DEF IsAtOrAbove
  <2> DEFINE s == Stringify(p)
             t == Stringify(r)
  <2>3. s \in Seq(Sign) /\ t \in Seq(Sign) /\ Parse(t) = r
    BY StringifyTyped, ParseReadsPath
  <2>4. RelativeText(p, q) = SubSeq(s \o t, Len(s) + 1, Len(s \o t))
    BY <2>2 DEF RelativeText
  <2> HIDE DEF s, t
  <2>5. SubSeq(s \o t, Len(s) + 1, Len(s \o t)) = t
    <3> DEFINE whole == s \o t
               rest == SubSeq(whole, Len(s) + 1, Len(whole))
    <3>1. whole \in Seq(Sign) /\ Len(whole) = Len(s) + Len(t) /\ Len(s) \in Nat /\ Len(t) \in Nat
          /\ \A i \in 1 .. Len(t) : whole[Len(s) + i] = t[i]
      BY <2>3
    <3> HIDE DEF whole
    <3>2. Len(s) \in 0 .. Len(whole)
      BY <3>1
    <3>3. IsRest(rest, whole, Len(s))
      BY <3>1, <3>2, RestIs
    <3>4. Len(whole) - Len(s) = Len(t)
      BY <3>1
    <3> HIDE DEF rest
    <3>5. rest \in Seq(Sign) /\ Len(rest) = Len(t) /\ \A i \in 1 .. Len(rest) : rest[i] = t[i]
      BY <3>1, <3>3, <3>4 DEF IsRest
    <3>6. rest = t
      BY <2>3, <3>5, SeqEqual
    <3> QED BY <3>6 DEF rest, whole
  <2> QED BY <2>2, <2>3, <2>4, <2>5
<1> HIDE DEF TextsRelateAsPaths
<1> QED BY <1>1, <1>3, <1>4 DEF TextsRelateAsPaths

(***************************************************************************)
(* Texts of paths, in the specification of the structures.                 *)
(***************************************************************************)
PairOK == pair \in Seq(Specifier) \X Seq(Specifier)

LEMMA PairStaysOK == Spec => []PairOK
<1>1. Init => PairOK
  <2> SUFFICES ASSUME Init PROVE PairOK
    OBVIOUS
  <2>1. CASE pair = <<<<>>, <<>>>>
    <3>1. <<>> \in Seq(Specifier)
      OBVIOUS
    <3> QED BY <2>1, <3>1 DEF PairOK
  <2>2. CASE pair \in Path \X Path
    BY <2>2, SpecifierAssumption DEF PairOK
  <2> QED BY <2>1, <2>2 DEF Init
<1>2. PairOK /\ [Next]_representationVars => PairOK'
  <2> SUFFICES ASSUME PairOK, [Next]_representationVars PROVE PairOK'
    OBVIOUS
  <2>1. pair' = pair
    BY DEF Next, ChangeLookup, ChangeFile, representationVars
  <2> QED BY <2>1 DEF PairOK
<1> QED BY <1>1, <1>2, PTL DEF Spec

\* The text of any path, of any length and with any quotes, brackets and digits
\* in its names, is parsed as that path; one text is the start of another one,
\* for determineRelationship, if and only if its path is of the other path; and
\* what is left of the longer text is parsed as what is left of the longer path.
THEOREM TextsAreUnambiguous == Spec => []TextsStandForPaths
<1>1. PairOK => TextsStandForPaths
  <2> SUFFICES ASSUME PairOK PROVE TextsStandForPaths
    OBVIOUS
  <2>1. pair[1] \in Seq(Specifier) /\ pair[2] \in Seq(Specifier)
    BY DEF PairOK
  <2>2. TextsRelateAsPaths(pair[1], pair[2])
    BY <2>1, TextsRelate
  <2> QED BY <2>2 DEF TextsStandForPaths
<1> QED BY <1>1, PairStaysOK, PTL
=============================================================================
