--------------------------------- MODULE Str --------------------------------
(***************************************************************************)
(* The operations of jule::Str, the built-in string (src/api/str.hpp): a   *)
(* value of bytes that assignments copy.  Indices are the code's, from 0.  *)
(***************************************************************************)
EXTENDS Utf8, SequencesExt

\* What std::basic_string::find and the code's own find return when there is
\* nothing to find.
None == -1

\* The null byte, where a C string ends.
Nul == 0

-----------------------------------------------------------------------------
\* Str::slice, for the bounds that it does not panic about.
InBounds(s, start, end) == 0 <= start /\ start <= end /\ end <= Len(s)
SubStr(s, start, end) == SubSeq(s, start + 1, end)

\* std::basic_string::find from a position, and Str::find, Str::rfind.
Matches(s, sub) == {i \in 0 .. Len(s) - Len(sub) :
                        SubSeq(s, i + 1, i + Len(sub)) = sub}
FindFrom(s, sub, pos) ==
    LET found == {i \in Matches(s, sub) : i >= pos}
    IN  IF found = {} THEN None ELSE Min(found)
Find(s, sub) == FindFrom(s, sub, 0)
RFind(s, sub) == Max(Matches(s, sub) \union {None})

HasPrefix(s, sub) == Find(s, sub) = 0
HasSuffix(s, sub) ==
    Len(s) >= Len(sub) /\ SubSeq(s, Len(s) - Len(sub) + 1, Len(s)) = sub

\* Str::ltrim, Str::rtrim and Str::trim: bytes is a set of bytes.
Kept(s, bytes) == {i \in DOMAIN s : s[i] \notin Range(bytes)}
LTrim(s, bytes) == IF Kept(s, bytes) = {} THEN <<>>
                   ELSE SubSeq(s, Min(Kept(s, bytes)), Len(s))
RTrim(s, bytes) == IF Kept(s, bytes) = {} THEN <<>>
                   ELSE SubSeq(s, 1, Max(Kept(s, bytes)))
Trim(s, bytes) == RTrim(LTrim(s, bytes), bytes)

\* The copy that split works on is made from a C string: it ends at a null.
CString(s) == IF Find(s, <<Nul>>) = None THEN s
              ELSE SubSeq(s, 1, Find(s, <<Nul>>))

\* The loops of split and replace search for an empty separator where they
\* stand, find it there and, with no count to end them, never leave.
Endless(sub, n) == sub = <<>> /\ n < 0

\* One turn of the loop of split: what stands before the separator is cut off.
SplitTurn(c, sub) ==
    LET pos == Find(c.rest, sub)
    IN  IF pos = None THEN c
        ELSE [parts |-> Append(c.parts, SubStr(c.rest, 0, pos)),
              rest  |-> SubStr(c.rest, pos + Len(sub), Len(c.rest))]

\* The loop, which finds at most so many separators.
SplitLoop(text, sub, turns) ==
    LET after[k \in 0 .. turns] ==
            IF k = 0 THEN [parts |-> <<>>, rest |-> text]
            ELSE SplitTurn(after[k - 1], sub)
    IN  after[turns]

\* What follows the loop: the rest is a part too, but for an empty one when
\* there is no count.
SplitEnd(c, n) ==
    IF n > 0 \/ c.rest /= <<>> THEN Append(c.parts, c.rest) ELSE c.parts

\* Mutant: one part more than was asked for.
MutantSplit(s, sub, n) ==
    IF n = 0 THEN <<>>
    ELSE SplitEnd(SplitLoop(CString(s), sub, IF n > 0 THEN n ELSE Len(s)), n)

\* Str::split: at most n parts, all of them when n is negative: there are no
\* more separators than bytes.
Split(s, sub, n) ==
    IF n = 0 THEN <<>>
    ELSE SplitEnd(SplitLoop(CString(s), sub, IF n > 0 THEN n - 1 ELSE Len(s)), n)

\* One turn of the loop of replace, which goes on after what it put in.
ReplaceTurn(c, sub, new) ==
    LET at == FindFrom(c.text, sub, c.pos)
    IN  IF at = None THEN c
        ELSE [text |-> SubStr(c.text, 0, at) \o new \o
                           SubStr(c.text, at + Len(sub), Len(c.text)),
              pos  |-> at + Len(new)]

\* The loop, which finds at most so many occurrences.
ReplaceLoop(s, sub, new, turns) ==
    LET after[k \in 0 .. turns] ==
            IF k = 0 THEN [text |-> s, pos |-> 0]
            ELSE ReplaceTurn(after[k - 1], sub, new)
    IN  after[turns]

\* Mutant: one replacement more than was asked for.
MutantReplace(s, sub, new, n) ==
    IF n = 0 THEN s
    ELSE ReplaceLoop(s, sub, new, IF n > 0 THEN n + 1 ELSE Len(s)).text

\* Str::replace: at most n occurrences, all of them when n is negative.
Replace(s, sub, new, n) ==
    IF n = 0 THEN s
    ELSE ReplaceLoop(s, sub, new, IF n > 0 THEN n ELSE Len(s)).text

\* The conversion of a string to a slice of runes.
Runes(s) ==
    LET from[i \in 1 .. Len(s) + 1] ==
            IF i > Len(s) THEN <<>>
            ELSE LET first == DecodeRune(SubStr(s, i - 1, Len(s)))
                 IN  <<first[1]>> \o from[i + first[2]]
    IN  from[1]

\* The construction of a string from a slice of runes.
FromRunes(runes) == FlattenSeq([i \in DOMAIN runes |-> RuneToBytes(runes[i])])
=============================================================================
