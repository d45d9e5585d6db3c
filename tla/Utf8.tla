-------------------------------- MODULE Utf8 --------------------------------
(***************************************************************************)
(* UTF-8 in the runtime: src/api/utf8.hpp translates between runes and     *)
(* byte sequences for the built-in strings.  A string is a sequence of     *)
(* bytes, a rune an integer (I32 in the code; a program may hold a         *)
(* negative one, or one that is no code point).                            *)
(*                                                                         *)
(* The bit operations of the code work on disjoint bits, so that a shift   *)
(* is a product or a quotient by a power of two, a mask a remainder, and   *)
(* an or a sum.                                                            *)
(***************************************************************************)
EXTENDS Integers, Sequences

Byte == 0 .. 255

RuneError == 65533
Rune1Max == 127
Rune2Max == 2047
Rune3Max == 65535
MaxRune == 1114111
Continuation == 128 .. 191

\* The surrogates, and the code points that text may hold.
IsSurrogate(r) == 55296 <= r /\ r <= 57343
IsScalar(r) == 0 <= r /\ r <= MaxRune /\ ~IsSurrogate(r)

-----------------------------------------------------------------------------
\* utf8_first and utf8_accept_ranges, told apart by what the decoder reads of
\* them: how long the sequence is that a byte leads (0 when it leads none) ...
Size(b) == IF b \in 0 .. 127 THEN 1
           ELSE IF b \in 194 .. 223 THEN 2
           ELSE IF b \in 224 .. 239 THEN 3
           ELSE IF b \in 240 .. 244 THEN 4
           ELSE 0

\* Mutant: the table of the second bytes has one row for every lead.
MutantAccept(b) == Continuation

\* ... and which bytes may come second.
Accept(b) == IF b = 224 THEN 160 .. 191
             ELSE IF b = 237 THEN 128 .. 159
             ELSE IF b = 240 THEN 144 .. 191
             ELSE IF b = 244 THEN 128 .. 143
             ELSE Continuation

\* No sequence of UTF-8 begins s: what is not a rune is an error of one byte,
\* which the caller steps over.
Malformed(s) ==
    LET size == Size(s[1])
    IN  \/ size = 0
        \/ Len(s) < size
        \/ size > 1 /\ s[2] \notin Accept(s[1])
        \/ size > 2 /\ s[3] \notin Continuation
        \/ size > 3 /\ s[4] \notin Continuation

\* The rune that the sequence at the beginning of s holds.
Value(s) ==
    LET size == Size(s[1])
    IN  IF size = 1 THEN s[1]
        ELSE IF size = 2 THEN 64 * (s[1] % 32) + (s[2] % 64)
        ELSE IF size = 3
             THEN 4096 * (s[1] % 16) + 64 * (s[2] % 64) + (s[3] % 64)
        ELSE 262144 * (s[1] % 8) + 4096 * (s[2] % 64) + 64 * (s[3] % 64)
                 + (s[4] % 64)

\* utf8_decode_rune_str: the first rune of s and the bytes it takes.
DecodeRune(s) == IF Len(s) < 1 THEN <<RuneError, 0>>
                 ELSE IF Malformed(s) THEN <<RuneError, 1>>
                 ELSE <<Value(s), Size(s[1])>>

\* The forms of two, three and four bytes.
Form2(r) == <<192 + (r \div 64), 128 + (r % 64)>>
Form3(r) == <<224 + (r \div 4096), 128 + ((r \div 64) % 64), 128 + (r % 64)>>
Form4(r) == <<240 + (r \div 262144), 128 + ((r \div 4096) % 64),
              128 + ((r \div 64) % 64), 128 + (r % 64)>>

\* Mutant: the comparison with Rune3Max is strict too.
MutantRuneToBytes(r) ==
    IF ~IsScalar(r) THEN Form4(RuneError)
    ELSE IF r <= Rune1Max THEN <<r>>
    ELSE IF r < Rune2Max THEN Form2(r)
    ELSE IF r < Rune3Max THEN Form3(r)
    ELSE Form4(r)

\* utf8_rune_to_bytes.  The comparison with Rune2Max is strict, and the length
\* of the form is that of the rune asked for, not of the RuneError that takes
\* the place of an invalid one (a negative rune is a large unsigned one).
RuneToBytes(r) ==
    LET valid == IF IsScalar(r) THEN r ELSE RuneError
    IN  IF r < 0 THEN Form4(valid)
        ELSE IF r <= Rune1Max THEN <<r>>
        ELSE IF r < Rune2Max THEN Form2(r)
        ELSE IF r <= Rune3Max THEN Form3(valid)
        ELSE Form4(valid)
=============================================================================
