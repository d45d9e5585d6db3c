-------------------------------- MODULE Utf16 -------------------------------
(***************************************************************************)
(* UTF-16 in the runtime: src/api/utf16.hpp, which the Windows build uses  *)
(* for arguments, environment, paths and the console.                      *)
(*                                                                         *)
(* The operators bind as C++ binds them: + before << before & before |.    *)
(***************************************************************************)
EXTENDS Integers, SequencesExt

Surr1 == 55296
Surr2 == 56320
Surr3 == 57344
SurrSelf == 65536
ReplacementChar == 65533
LOCAL Max16Rune == 1114111

High == Surr1 .. Surr2 - 1
Low == Surr2 .. Surr3 - 1

\* Neither half of a pair nor in need of one.
Plain == (0 .. Surr1 - 1) \union (Surr3 .. SurrSelf - 1)

-----------------------------------------------------------------------------
\* utf16_decode_rune: the or takes the low half with SurrSelf already added, a
\* bit that the high half may have as well.
PairToRune(r1, r2) ==
    LET high == 1024 * (r1 - Surr1)
        low  == (r2 - Surr2) + SurrSelf
    IN  IF ~(r1 \in High /\ r2 \in Low) THEN ReplacementChar
        ELSE IF (high \div SurrSelf) % 2 = 1 THEN high + low - SurrSelf
        ELSE high + low

\* Units i and i + 1 are the two halves of a pair.
PairAt(units, i) ==
    {i, i + 1} \subseteq DOMAIN units /\ units[i] \in High /\ units[i + 1] \in Low

\* utf16_decode: a unit by itself, a pair, or the replacement character.  The
\* second half of a pair is passed over.
Utf16Decode(units) ==
    FlattenSeq([i \in DOMAIN units |->
        IF units[i] \in Plain THEN <<units[i]>>
        ELSE IF PairAt(units, i) THEN <<PairToRune(units[i], units[i + 1])>>
        ELSE IF PairAt(units, i - 1) THEN <<>>
        ELSE <<ReplacementChar>>])

\* utf16_encode_rune: the sum is masked, so that the prefixes of both halves
\* go with the bits above the tenth.
RuneToPair(r) ==
    IF r \notin SurrSelf .. Max16Rune THEN <<ReplacementChar, ReplacementChar>>
    ELSE <<(Surr1 + (r - SurrSelf) \div 1024) % 1024,
           (Surr2 + (r - SurrSelf)) % 1024>>

\* utf16_append_rune and the body of the loop of utf16_encode: the units that
\* are added for a rune.
UnitsOf(r) ==
    IF r \in Plain THEN <<r>>
    ELSE IF r \in SurrSelf .. Max16Rune THEN RuneToPair(r)
    ELSE <<ReplacementChar>>

\* utf16_encode
Utf16Encode(runes) == FlattenSeq([i \in DOMAIN runes |-> UnitsOf(runes[i])])

\* Mutant: a null character does not end the text.
MutantUtf16FromRunes(runes) == Utf16Encode(runes) \o <<0>>

\* utf16_from_str, given the runes of the string: what comes before the first
\* null character, and a null.
Utf16FromRunes(runes) ==
    LET nulls == {i \in DOMAIN runes : runes[i] = 0}
        last  == IF nulls = {} THEN Len(runes)
                 ELSE (CHOOSE i \in nulls : \A j \in nulls : i <= j) - 1
    IN  Utf16Encode(SubSeq(runes, 1, last)) \o <<0>>
=============================================================================
