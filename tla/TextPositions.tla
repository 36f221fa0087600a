--------------------------- MODULE TextPositions ---------------------------
(***************************************************************************)
(* Columns of a line of text: the editor counts UTF-16 code units, the     *)
(* front end and the database bytes of UTF-8 (lsp_source.cpp).             *)
(*                                                                         *)
(* A line is a sequence of characters, a character the number of bytes it  *)
(* has in UTF-8, and Broken a byte that is part of none.                   *)
(***************************************************************************)
EXTENDS Integers, SequencesExt

CONSTANT NoColumn

Broken == 0

\* nextCodePoint: 4 bytes are needed above U+FFFF, and there only.
Bytes(char) == IF char = Broken THEN 1 ELSE char
Units(char) == IF char = 4 THEN 2 ELSE 1

Decodes(text) == Broken \notin ToSet(text)

BytesOf(text) == FoldLeft(LAMBDA n, char : n + Bytes(char), 0, text)
UnitsOf(text) == FoldLeft(LAMBDA n, char : n + Units(char), 0, text)

PrefixesOf(text) == {SubSeq(text, 1, n) : n \in 0 .. Len(text)}

\* No offset inside of a surrogate pair, past the end or past a broken byte.
ByteOffset(text, column) ==
    LET before == {p \in PrefixesOf(text) : Decodes(p) /\ UnitsOf(p) = column}
    IN IF before = {} THEN NoColumn ELSE BytesOf(CHOOSE p \in before : TRUE)

\* Mutant: bytes are taken for UTF-16 units.
ByteLength(text, bytes) == Min({bytes, BytesOf(text)})

\* The length of the first bytes of a line, which may end inside a character.
Utf16Length(text, bytes) ==
    LET size == Min({bytes, BytesOf(text)})
        whole == {p \in PrefixesOf(text) : Decodes(p) /\ BytesOf(p) = size}
    IN IF whole = {} THEN size ELSE UnitsOf(CHOOSE p \in whole : TRUE)
=============================================================================
