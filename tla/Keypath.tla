------------------------------ MODULE Keypath ------------------------------
(***************************************************************************)
(* The text of a path (src/src/Library/Keypath/Keypath.ts): entries are    *)
(* stored and subscribed to under it, and prefixes of texts stand for      *)
(* prefixes of paths.  A path is a sequence of specifiers,                 *)
(* <<"string", letters>> or <<"number", n>>, of the numbers that a         *)
(* template string writes in digits only; a text is a sequence of letters, *)
(* too, with the marks and digits that stringify puts in.                  *)
(***************************************************************************)
EXTENDS Naturals, Sequences, SequencesExt

CONSTANTS Letter,  \* of strings: quotes, brackets and digits may be among them
          Path     \* the paths that have texts

Specifier == ({"string"} \X Seq(Letter)) \cup ({"number"} \X Nat)

ASSUME SpecifierAssumption == Path \subseteq Seq(Specifier)

Digits == <<"0", "1", "2", "3", "4", "5", "6", "7", "8", "9">>

\* The decimal numeral that a template string makes of a number.
Numeral(n) ==
    LET numeral[m \in 0 .. n] ==
            IF m < 10 THEN <<Digits[m + 1]>> ELSE Append(numeral[m \div 10], Digits[(m % 10) + 1])
    IN  numeral[n]

ParseInt(digits) ==
    LET value[i \in 0 .. Len(digits)] ==
            IF i = 0 THEN 0
            ELSE 10 * value[i - 1] + (CHOOSE m \in 0 .. 9 : Digits[m + 1] = digits[i])
    IN  value[Len(digits)]

QuotesAsTheyAre(text) == text  \* mutant: no escape

\* replace(/'/g, "''")
Escaped(text) ==
    FlattenSeq([i \in DOMAIN text |-> IF text[i] = "'" THEN <<"'", "'">> ELSE <<text[i]>>])

StringifySpecifier(specifier) ==
    IF specifier[1] = "number" THEN <<"[">> \o Numeral(specifier[2]) \o <<"]">>
    ELSE <<"[", "'">> \o Escaped(specifier[2]) \o <<"'", "]">>

Stringify(path) == FlattenSeq([i \in DOMAIN path |-> StringifySpecifier(path[i])])

\* After i letters the expression [^']* is open.
Open(text, i) == Cardinality({j \in 1 .. i : text[j] = "'"}) % 2 = 1

\* ('[^']*')+: one or more identifiers, each closed, one right after the other.
IsQuoted(text) ==
    /\ text # <<>> /\ ~Open(text, Len(text))
    /\ \A i \in 1 .. Len(text) : text[i] = "'" \/ Open(text, i - 1)

\* replace(/''/g, "'"), where all quotes are in pairs.
Unescaped(text) ==
    FlattenSeq([i \in DOMAIN text |-> IF text[i] = "'" /\ Open(text, i - 1) THEN <<>> ELSE <<text[i]>>])

\* Where a match of specifierRegExp at the start of the text may end.
Matches(text) ==
    {n \in 3 .. Len(text) :
        /\ text[1] = "[" /\ text[n] = "]"
        /\ LET inner == SubSeq(text, 2, n - 1)
           IN  IsQuoted(inner) \/ \A i \in DOMAIN inner : inner[i] \in Range(Digits)}

SpecifierOf(inner) ==
    IF inner[1] = "'" THEN <<"string", Unescaped(SubSeq(inner, 2, Len(inner) - 1))>>
    ELSE <<"number", ParseInt(inner)>>

\* One pass of the loop of parse, which throws where nothing matches.
ParserError == <<"error">>

ParsePass(before) ==
    LET text == before.remainder
        end == CHOOSE n \in Matches(text) : TRUE
        after(remainder, specifier) ==
            [remainder |-> remainder, parsed |-> Append(before.parsed, specifier)]
    IN  CASE text = <<>> -> before
          [] text # <<>> /\ Matches(text) = {} -> after(<<>>, ParserError)
          [] OTHER -> after(SubSeq(text, end + 1, Len(text)), SpecifierOf(SubSeq(text, 2, end - 1)))

Parse(text) ==
    LET pass[n \in 0 .. Len(text)] ==
            IF n = 0 THEN [remainder |-> text, parsed |-> <<>>] ELSE ParsePass(pass[n - 1])
    IN  pass[Len(text)].parsed

\* determineRelationship, of two paths, and determineStringRelationship, of two
\* texts.
DetermineRelationship(p, q) ==
    CASE Len(p) = Len(q) -> IF p = q THEN "Equal" ELSE "None"
      [] Len(p) < Len(q) -> IF p = SubSeq(q, 1, Len(p)) THEN "Ancestor" ELSE "None"
      [] Len(p) > Len(q) -> IF SubSeq(p, 1, Len(q)) = q THEN "Descendant" ELSE "None"

RelativeText(p, q) == SubSeq(Stringify(q), Len(Stringify(p)) + 1, Len(Stringify(q)))

\* Texts are to each other what their paths are, and a path can be had back
\* from its text, or the rest of it from the rest of the text: whatever quotes
\* and brackets it has, no path is taken for one that it is not below.
TextsRelateAsPaths(p, q) ==
    /\ Parse(Stringify(p)) = p
    /\ DetermineRelationship(Stringify(p), Stringify(q)) = DetermineRelationship(p, q)
    /\ DetermineRelationship(p, q) = "Ancestor" =>
          p \o Parse(RelativeText(p, q)) = q
=============================================================================
