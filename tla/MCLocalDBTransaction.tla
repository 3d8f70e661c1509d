------------------------ MODULE MCLocalDBTransaction ------------------------
(***************************************************************************)
(* Three paths: <<"a">>, and <<"a", "b">> and <<"a", "c">>, which are two  *)
(* leaves below it, or parts of its value when it is a leaf itself.  The   *)
(* root is a branch.                                                       *)
(***************************************************************************)
EXTENDS LocalDBTransaction

CONSTANTS v, w

MCKey == {<<"a">>, <<"a", "b">>, <<"a", "c">>}
MCEntityPath == MCKey \cup {<<>>}
MCHeritage == {<<p, q>> \in MCKey \X MCKey : IsStrictPrefix(p, q) \/ IsStrictPrefix(q, p)}

MCScalar == {v, w}
Objects(names, values) == UNION {[S -> values] : S \in SUBSET names}
MCValue == MCScalar \cup Objects({"b", "c"}, MCScalar)

MCNewValues ==
    [p \in MCEntityPath |->
        CASE p = <<"a", "b">> -> {v, w}
          [] p = <<"a", "c">> -> {v}
          [] p = <<"a">>      -> {v, ("b" :> w) @@ ("c" :> v)}
          [] p = <<>>         -> {"a" :> v, "a" :> ("b" :> w)}]

MCTime == 1 .. 2

\* Deletions pulled, and a datastore rewritten to nothing.
MCBatches ==
    {[head |-> 0, revs |-> {[key |-> k, value |-> Undefined, commitTime |-> 2]}, last |-> 2] : k \in MCKey}
    \cup {[head |-> 2, revs |-> {}, last |-> 2]}

\* The diff is only read by subscribers.
MCView == <<isOpen, local, remote, lastModified, lookup, txVars>>
=============================================================================
