-------------------------- MODULE EntrySerializer --------------------------
(***************************************************************************)
(* The binary form of entries (src/src/DB/Serialization/EntrySerializer.ts)*)
(* as the file of a bucket has them: the server appends to it what clients *)
(* send, and clients read it, or the part of it that they are given.       *)
(*                                                                         *)
(* A file is a sequence of cells, which are smaller than bytes are:        *)
(* <<"header", fields>> and <<"checksums">> make a header, a character of  *)
(* a key or a value is <<"text", c>>, and AES-CBC makes of some cells      *)
(* <<"cipher", cells, iv>>, for the one key that all clients share.        *)
(***************************************************************************)
EXTENDS Naturals, Sequences, SequencesExt

CONSTANTS Entry,         \* what may be sent: [key, value, updateTime]
          Character,     \* of keys and values, as bytes have them
          IV,            \* the random initialization vectors
          Word,          \* 2^32, half of a 64 bit field
          KeySizeLimit,  \* 2^16, beyond the 16 bits of keySize
          BlockSize,     \* of AES, up to which encryption pads
          MaxEntries     \* bound: the entries of a file

HeaderByteSize == 2

TextCell == {<<"text", c>> : c \in Character}

DataEncoding == {"Binary", "UTF8", "Json", "OmniJson"}

ASSUME FieldAssumption ==
    /\ Word \in Nat /\ Word > 2
    /\ KeySizeLimit \in Nat /\ KeySizeLimit > 1
    /\ BlockSize \in Nat
    /\ MaxEntries \in Nat

ASSUME EntryAssumption ==
    Entry \subseteq [key : Seq(TextCell), value : [encoding : DataEncoding, cells : Seq(TextCell)],
                    updateTime : Nat]

\* What the code does not check: of a key that is longer, or becomes so when it is
\* encrypted and padded, the value would get the rest; sizes and times have 64 bits.
ASSUME SizeAssumption ==
    \A e \in Entry :
        /\ Len(e.key) + BlockSize < KeySizeLimit
        /\ HeaderByteSize + Len(e.key) + Len(e.value.cells) < Word * Word
        /\ e.updateTime + MaxEntries < Word * Word

VARIABLES written,  \* what was appended, in order: what a reader should get
          file

serializerVars == <<written, file>>

ZeroBlock == "zero"
NoKey == "no key"   \* in place of an initialization vector: no encryption

Halves(n) == <<n % Word, (n \div Word) % Word>>

Whole(halves) == halves[1] + halves[2] * Word

\* One cell, for as many blocks as it takes.
Encrypt(cells, iv) == <<<<"cipher", cells, iv>>>>

\* The value goes with its initialization vector; an empty one stays empty.
SerializeEntry(entry, iv) ==
    LET key == IF iv = NoKey THEN entry.key ELSE Encrypt(entry.key, ZeroBlock)
        value == IF iv = NoKey \/ entry.value.cells = <<>> THEN entry.value.cells
                 ELSE <<<<"iv", iv>>>> \o Encrypt(entry.value.cells, iv)
        header == [totalSize |-> Halves(HeaderByteSize + Len(key) + Len(value)),
                   keySize |-> Len(key) % KeySizeLimit,
                   valueEncoding |-> entry.value.encoding,
                   encryptionMethod |-> IF iv = NoKey THEN "None" ELSE "AES_CBC_128",
                   flags |-> "None",
                   updateTime |-> Halves(entry.updateTime), commitTime |-> Halves(0)]
    IN  <<<<"header", header>>, <<"checksums">>>> \o key \o value

\* The server sets the commit time, and marks the first entry of a file.
Stamped(bytes, commitTime, first) ==
    <<<<"header", [bytes[1][2] EXCEPT !.commitTime = Halves(commitTime),
                                      !.flags = IF first THEN "HeadEntry" ELSE "None"]>>>>
      \o Tail(bytes)

InitSerializer == written = <<>> /\ file = <<>>

AppendEntry(entry, iv) ==
    LET commitTime == entry.updateTime + Len(written)
    IN  /\ Len(written) < MaxEntries
        /\ written' = Append(written, [key |-> entry.key, value |-> entry.value,
                                       updateTime |-> entry.updateTime, commitTime |-> commitTime,
                                       isHeadEntry |-> written = <<>>])
        /\ file' = file \o Stamped(SerializeEntry(entry, iv), commitTime, written = <<>>)

-----------------------------------------------------------------------------

\* One pass of the loop over the bytes: deserializeHeaderAndValidateEntryBytes cuts
\* the next piece off.  Where it throws, that is empty, and nothing follows.  The
\* result of the verification of checksums is not looked at.
Pass(bytes, before) ==
    LET rest == SubSeq(bytes, before.offset + 1, Len(bytes))
        size == Whole(rest[1][2].totalSize)
        after(offset, piece) ==
            [offset |-> offset,
             pieces |-> Append(before.pieces, [offset |-> before.offset, bytes |-> piece])]
    IN  CASE rest = <<>> -> before
          [] rest # <<>> /\ (Len(rest) < HeaderByteSize \/ size < HeaderByteSize \/ size > Len(rest)) ->
                after(Len(bytes), <<>>)
          [] OTHER -> after(before.offset + size, SubSeq(rest, 1, size))

Pieces(bytes) ==
    LET pass[n \in 0 .. Len(bytes)] ==
            IF n = 0 THEN [offset |-> 0, pieces |-> <<>>] ELSE Pass(bytes, pass[n - 1])
    IN  pass[Len(bytes)].pieces

Header(piece) == piece.bytes[1][2]

KeyBytes(piece) == SubSeq(piece.bytes, HeaderByteSize + 1, HeaderByteSize + Header(piece).keySize)

ValueBytes(piece) ==
    SubSeq(piece.bytes, HeaderByteSize + Header(piece).keySize + 1, Len(piece.bytes))

\* AES-CBC gives the cells back under the vector they were encrypted with.
Decrypt(cells, iv) == IF cells[1][3] = iv THEN cells[1][2] ELSE <<<<"garbage">>>>

DeserializeEntryBody(piece) ==
    LET encrypted == Header(piece).encryptionMethod = "AES_CBC_128"
        value == ValueBytes(piece)
    IN  [key |-> IF encrypted THEN Decrypt(KeyBytes(piece), ZeroBlock) ELSE KeyBytes(piece),
         value |-> [encoding |-> Header(piece).valueEncoding,
                    cells |-> IF encrypted /\ value # <<>> THEN Decrypt(Tail(value), value[1][2])
                              ELSE value],
         updateTime |-> Whole(Header(piece).updateTime),
         commitTime |-> Whole(Header(piece).commitTime),
         isHeadEntry |-> Header(piece).flags = "HeadEntry"]

IsCorrupted(bytes) == \E i \in DOMAIN Pieces(bytes) : Pieces(bytes)[i].bytes = <<>>

\* deserializeEntryBody throws without a key where there is one to be used.
NeedsKey(pieces) == \E i \in DOMAIN pieces : Header(pieces[i]).encryptionMethod # "None"

DeserializeEntries(bytes) == [i \in DOMAIN Pieces(bytes) |-> DeserializeEntryBody(Pieces(bytes)[i])]

InOrderOfKeys(pieces, p, q) ==  \* mutant: as the map has them
    \E r \in Range(pieces) :
        /\ KeyBytes(r) = KeyBytes(p)
        /\ \A s \in Range(pieces) : KeyBytes(s) = KeyBytes(q) => r.offset < s.offset

\* The order that the map of pieces by key is brought into.
Precedes(pieces, p, q) == p.offset < q.offset

\* Of the pieces with the same bytes for a key, the last.
LastOfKeys(pieces) ==
    {p \in Range(pieces) : \A q \in Range(pieces) : KeyBytes(q) = KeyBytes(p) => q.offset <= p.offset}

CompactedPieces(bytes) ==
    LET pieces == Pieces(bytes)
        last == LastOfKeys(pieces)
    IN  CHOOSE s \in [1 .. Cardinality(last) -> last] :
            \A i, j \in DOMAIN s : i < j => Precedes(pieces, s[i], s[j])

CompactAndDeserializeEntries(bytes) ==
    [i \in DOMAIN CompactedPieces(bytes) |-> DeserializeEntryBody(CompactedPieces(bytes)[i])]

-----------------------------------------------------------------------------

\* The last entry for each key, in the order of the file.
LatestRevisions(entries) ==
    LET last == {i \in DOMAIN entries : \A j \in DOMAIN entries : entries[j].key = entries[i].key => j <= i}
    IN  {entries[i] : i \in last}

\* Any part of a file, as a broken connection may leave it, is refused or read
\* as the entries that were first written, and has the latest of them for each
\* key when it is compacted, whatever the sizes and times, and whether or not
\* some clients encrypted what others did not; who has no key gets an error and
\* never what is encrypted.
LatestRevisionsAreRead ==
    /\ ~IsCorrupted(file) /\ DeserializeEntries(file) = written
    /\ \A n \in 0 .. Len(file) :
          LET part == SubSeq(file, 1, n)
          IN  ~IsCorrupted(part) =>
                 \E m \in 0 .. Len(written) :
                    /\ DeserializeEntries(part) = SubSeq(written, 1, m)
                    /\ LatestRevisions(CompactAndDeserializeEntries(part))
                         = LatestRevisions(SubSeq(written, 1, m))
                    /\ NeedsKey(CompactedPieces(part)) <=> NeedsKey(Pieces(part))
=============================================================================
