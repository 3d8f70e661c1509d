--------------------------- MODULE MCSubscriptions ---------------------------
(***************************************************************************)
(* A leaf in a branch and one beside it; subscriptions to the root, to the *)
(* branch, and to a path inside of the value of its leaf.                  *)
(***************************************************************************)
EXTENDS Subscriptions

MCKey == {<<"a">>, <<"b", "x">>}

MCWatched == {<<>>, <<"b">>, <<"b", "x", "z">>}

\* The root, whose value is read after a change below it, and a path whose value
\* the change itself has.
RootAndPart == {<<>>, <<"b", "x", "z">>}

MCHeritage == {}

\* One revision from the server.
MCBatches ==
    {[head |-> 0, revs |-> {[key |-> <<"b", "x">>, value |-> v, commitTime |-> 1]}, last |-> 1] :
        v \in Value}

Put(entries) == [op |-> "commitLocalTransaction", entries |-> entries]

To(k, v) == [key |-> k, value |-> v]

SingleChanges ==
    {Put(<<To(<<"a">>, v)>>) : v \in Value}
    \cup {Put(<<To(<<"b", "x">>, v)>>) : v \in Data}
    \cup {[op |-> "commitSerializedRemoteEntries", batch |-> b] : b \in MCBatches}
    \cup {[op |-> "discardLocalEntryKeys", keys |-> {<<"b", "x">>}]}

\* Both leaves are put in one transaction.
DoublePuts == {Put(<<To(<<"b", "x">>, v), To(<<"a">>, v)>>) : v \in Value}
=============================================================================
