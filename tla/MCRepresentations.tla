------------------------- MODULE MCRepresentations -------------------------
(***************************************************************************)
(* Lookups of up to three names deep, texts of up to two specifiers with   *)
(* the characters that mean something in them, and files of three entries  *)
(* whose sizes and times need both halves of their fields.                 *)
(***************************************************************************)
EXTENDS Representations

MCName == {"a", "b"}
MCKey == UNION {[1 .. n -> MCName] : n \in 1 .. 3}
MCHeritage == {<<p, q>> \in MCKey \X MCKey : Above(p, q) \/ Above(q, p)}

MCString == UNION {[1 .. n -> Letter] : n \in 0 .. 2}
MCSpecifier == ({"string"} \X MCString) \cup ({"number"} \X {0, 10})
MCPath == UNION {[1 .. n -> MCSpecifier] : n \in 0 .. 2}

k == <<"text", "k">>
MCEntry == [key : {<<k>>, <<k, k>>}, updateTime : {0, 3},
            value : {[encoding |-> "Json", cells |-> <<>>], [encoding |-> "Binary", cells |-> <<>>],
                     [encoding |-> "Binary", cells |-> <<k>>], [encoding |-> "OmniJson", cells |-> <<k>>]}]
=============================================================================
