------------------------ MODULE MCLocalDBOperations ------------------------
(***************************************************************************)
(* Three leaf paths: <<"a">>, <<"a", "b">> below it, and <<"c">>.          *)
(***************************************************************************)
EXTENDS LocalDBOperations, SequencesExt

MCKey == {<<"a">>, <<"a", "b">>, <<"c">>}

MCHeritage == {<<p, q>> \in MCKey \X MCKey : IsStrictPrefix(p, q) \/ IsStrictPrefix(q, p)}

MCTime == 1 .. 2

\* Answers with at most two revisions, with or without a head entry.
MCBatches ==
    {batch \in [head : {0, 2}, revs : {revs \in SUBSET Revision : Cardinality(revs) <= 2}, last : MCTime] :
        IsBatch(batch)}
=============================================================================
