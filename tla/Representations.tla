-------------------------- MODULE Representations --------------------------
(***************************************************************************)
(* What all other modules take for granted of the data: that a lookup is   *)
(* the set of its leaves, that the text of a path stands for the path, and *)
(* that entries come back from their binary form.  The three have nothing  *)
(* to do with each other; a behaviour is about the one it has chosen.      *)
(***************************************************************************)
EXTENDS NodeLookupTree, Keypath, EntrySerializer

VARIABLES structure, pair

representationVars == <<structure, pair, nodes, written, file>>

Init ==
    /\ InitTree /\ InitSerializer
    /\ \/ structure \in {"lookup", "entries"} /\ pair = <<<<>>, <<>>>>
       \/ structure = "texts" /\ pair \in Path \X Path

ChangeLookup ==
    /\ structure = "lookup" /\ NextTree
    /\ UNCHANGED <<structure, pair, written, file>>

ChangeFile ==
    /\ structure = "entries"
    /\ \E entry \in Entry, iv \in IV \cup {NoKey} : AppendEntry(entry, iv)
    /\ UNCHANGED <<structure, pair, nodes>>

Next == ChangeLookup \/ ChangeFile

Spec == Init /\ [][Next]_representationVars

\* No path is taken for another one, or for one above or below it, by its text,
\* whatever quotes and brackets there are in names: subscribers and the reads
\* of branches compare texts.
TextsStandForPaths == TextsRelateAsPaths(pair[1], pair[2])
=============================================================================
