--------------------------- MODULE MCLocalDBSync ---------------------------
(***************************************************************************)
(* Two leaves.  Every edit, foreign write and fault may cost the server    *)
(* one commit, which bounds the commit times that are needed.              *)
(***************************************************************************)
EXTENDS LocalDBSync, TLC

CONSTANTS k1, k2

MCHeritage == {}                        \* two independent leaves
MCNested == {<<k1, k2>>, <<k2, k1>>}    \* one leaf below the other
MCTime == 1 .. (1 + MaxEdits + MaxWrites + MaxFaults)
MCBatches == {}
MCScopes == {Key}

\* The diff is only read by subscribers: it decides nothing that happens later.
MCView == <<isOpen, local, remote, lastModified, lookup, syncVars, firstBase>>

MCSymmetry == Permutations(Key) \cup Permutations(Value)
=============================================================================
