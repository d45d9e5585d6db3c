-------------------------------- MODULE Text --------------------------------
(***************************************************************************)
(* A program that works on one string: it builds the string of bytes and   *)
(* runes, takes it apart (slice, trim, split, replace) and converts it to  *)
(* runes and to UTF-16 and back, as the runtime does for a program that    *)
(* handles text (src/api/str.hpp, utf8.hpp, utf16.hpp).  asked is the last *)
(* operation with its operands and ret its result.                         *)
(***************************************************************************)
EXTENDS Str, Utf16

CONSTANTS
    Bytes,      \* the bytes that raw text is made of
    RuneInputs, \* the runes that are appended
    Subs,       \* what is searched for, cut off and put in
    Counts,     \* the last operand of split and replace
    MaxRaw      \* bound: the length up to which a string grows

ASSUME TextAssumption ==
    /\ Bytes \subseteq Byte
    /\ RuneInputs \subseteq Int
    /\ \A sub \in Subs : sub \in Seq(Byte)
    /\ Counts \subseteq Int
    /\ MaxRaw \in Nat

VARIABLES
    str,   \* the string
    asked, \* the operation that ret is the result of
    ret

textVars == <<str, asked, ret>>

NoCall == [op |-> "none"]

TextInit == str = <<>> /\ asked = NoCall /\ ret = <<>>

-----------------------------------------------------------------------------
\* The program has used the result of the last call.
Idle == asked.op \in {"none", "append"}
Done == ~Idle /\ asked' = NoCall /\ ret' = <<>> /\ UNCHANGED str

\* Str::operator+= with raw bytes, which need not be UTF-8.
AppendByte(b) ==
    /\ Idle /\ Len(str) < MaxRaw
    /\ str' = Append(str, b)
    /\ asked' = NoCall
    /\ UNCHANGED ret

\* Str(rune) and operator+=.
AppendRune(r) ==
    /\ Idle /\ Len(str) <= MaxRaw
    /\ str' = str \o RuneToBytes(r)
    /\ asked' = [op |-> "append", rune |-> r]
    /\ UNCHANGED ret

\* A call that returns a new value and leaves the string alone.
Answer(request, result) ==
    /\ Idle
    /\ asked' = request
    /\ ret' = result
    /\ UNCHANGED str

\* operator Slice<I32>
ToRunes == Answer([op |-> "runes"], Runes(str))

\* utf16_from_str: what the Windows build gives to the console.
ToUnits == Answer([op |-> "units"], Utf16FromRunes(Runes(str)))

\* utf16_to_utf8_str of the units that the system gives back.
FromUnits ==
    /\ asked.op = "units"
    /\ asked' = [op |-> "text"]
    /\ ret' = FromRunes(Utf16Decode(ret))
    /\ UNCHANGED str

\* Out of bounds the code panics instead.
DoSlice(start, end) ==
    /\ InBounds(str, start, end)
    /\ Answer([op |-> "slice"], SubStr(str, start, end))

\* find, rfind, has_prefix and has_suffix.
DoFind(sub) ==
    Answer([op |-> "find", sub |-> sub],
         [first |-> Find(str, sub), last |-> RFind(str, sub),
          prefix |-> HasPrefix(str, sub), suffix |-> HasSuffix(str, sub)])

DoTrim(bytes) == Answer([op |-> "trim", bytes |-> bytes], Trim(str, bytes))

\* An endless loop never returns.
DoSplit(sub, n) ==
    /\ ~Endless(sub, n)
    /\ Answer([op |-> "split", sub |-> sub, n |-> n], Split(str, sub, n))

DoReplace(sub, new, n) ==
    /\ ~Endless(sub, n)
    /\ Answer([op |-> "replace", sub |-> sub, new |-> new, n |-> n],
            Replace(str, sub, new, n))

TextNext ==
    \/ Done
    \/ \E b \in Bytes : AppendByte(b)
    \/ \E r \in RuneInputs : AppendRune(r)
    \/ ToRunes
    \/ ToUnits
    \/ FromUnits
    \/ \E start, end \in 0 .. MaxRaw : DoSlice(start, end)
    \/ \E sub \in Subs : DoFind(sub)
    \/ \E bytes \in Subs : DoTrim(bytes)
    \/ \E sub \in Subs, n \in Counts : DoSplit(sub, n)
    \/ \E sub, new \in Subs, n \in Counts : DoReplace(sub, new, n)

TextSpec == TextInit /\ [][TextNext]_textVars

-----------------------------------------------------------------------------
\* Every value of the variables is a sequence of numbers, or, for the result
\* of split, of strings.
TextTypeOK ==
    /\ str \in Seq(Byte)
    /\ asked.op \in {"none", "append", "runes", "units", "text",
                    "slice", "find", "trim", "split", "replace"}
    /\ asked.op \in {"runes", "units"} => ret \in Seq(Nat)
    /\ asked.op = "split" => ret \in Seq(Seq(Byte))
    /\ asked.op \in {"text", "slice", "trim", "replace"} => ret \in Seq(Byte)

\* The value that k bytes from the first hold, read as the standard lays out a
\* sequence of k bytes; None when they are not laid out so.
Reading(s, k) ==
    LET lead == <<0, 192, 224, 240>>[k]
        room == <<128, 32, 16, 8>>[k]
        bits[i \in 1 .. k] ==
            IF i = 1 THEN s[1] - lead ELSE 64 * bits[i - 1] + (s[i] - 128)
    IN  IF /\ k <= Len(s)
           /\ s[1] \in lead .. lead + room - 1
           /\ \A i \in 2 .. k : s[i] \in 128 .. 191
        THEN bits[k] ELSE None

\* A code point whose shortest form is k bytes long.
OfLength(r, k) == /\ IsScalar(r)
                  /\ r \in <<0 .. 127, 128 .. 2047,
                             2048 .. 65535, 65536 .. MaxRune>>[k]

\* What the Unicode standard makes of the beginning of a text: the rune that is
\* written there in its shortest form and its bytes, and the replacement
\* character for a byte that no such form begins with.
Shortest(s) ==
    LET fits == {k \in 1 .. 4 : OfLength(Reading(s, k), k)}
    IN  IF fits = {} THEN <<RuneError, 1>>
        ELSE LET k == CHOOSE n \in fits : TRUE IN <<Reading(s, k), k>>

\* And of a whole text.
Standard(s) ==
    LET from[i \in 1 .. Len(s) + 1] ==
            IF i > Len(s) THEN <<>>
            ELSE LET first == Shortest(SubSeq(s, i, Len(s)))
                 IN  <<first[1]>> \o from[i + first[2]]
    IN  from[1]

\* The table of first bytes, the ranges of second bytes and the steps over
\* malformed bytes accept exactly the text that the standard calls UTF-8,
\* wherever in a string a sequence is cut, overlong, a surrogate or too large.
RunesByStandard == asked.op = "runes" => ret = Standard(str)

\* What the runes of a string gain in a step that only adds to them; None when
\* the runes before change.
Gained == LET before == Runes(str)
              after  == Runes(str')
          IN  IF IsPrefix(before, after)
              THEN SubSeq(after, Len(before) + 1, Len(after)) ELSE None

\* A rune that is appended is read back as it is, whatever the bytes before it
\* are; one that is no code point adds replacement characters and nothing else
\* (utf8_rune_to_bytes and utf8_decode_rune_str together).  2047 is left out:
\* RuneKept says of every rune what the code does not do for this one.
RuneAppended ==
    [][asked'.op = "append" /\ asked'.rune /= Rune2Max =>
         IF IsScalar(asked'.rune) THEN Gained = <<asked'.rune>>
         ELSE Gained /= <<>> /\ Range(Gained) = {RuneError}]_textVars

\* Every code point is kept, as utf8.hpp says of itself: it "includes functions
\* to translate between runes and UTF-8 byte sequences" (utf8.hpp:10).
RuneKept ==
    [][asked'.op = "append" /\ IsScalar(asked'.rune) => Gained = <<asked'.rune>>]_textVars

\* What reaches a Windows console of a text of the first plane: its runes up to
\* a null character, and a null (utf16_from_str after the decoder of UTF-8).
UnitsKeepText ==
    asked.op = "units" =>
        LET runes == Runes(str)
            text  == SubStr(runes, 0, Find(runes \o <<Nul>>, <<Nul>>))
        IN  (\A i \in DOMAIN text : text[i] < SurrSelf) =>
                Utf16Decode(ret) = text \o <<Nul>>

\* The parts of a string with the separators between them again.
Joined(parts, sub) ==
    IF parts = <<>> THEN <<>>
    ELSE FlattenSeq([i \in DOMAIN parts |->
             IF i < Len(parts) THEN parts[i] \o sub ELSE parts[i]])

\* split loses nothing of the string up to its first null but, without a count,
\* a separator at the end; it makes no more parts than it was told, and no part
\* before the last holds a separator.
SplitParts ==
    asked.op = "split" /\ asked.n /= 0 =>
        /\ \/ Joined(ret, asked.sub) = CString(str)
           \/ asked.n < 0 /\ Joined(ret, asked.sub) \o asked.sub = CString(str)
        /\ asked.n > 0 => Len(ret) \in 1 .. asked.n
        /\ asked.sub /= <<>> =>
               \A i \in DOMAIN ret :
                   i < Len(ret) \/ asked.n < 0 => Find(ret[i], asked.sub) = None

\* Two loops that cut a string at the same places: replacing an occurrence is
\* to split there and to join the parts with what is put in, also where the
\* new text holds or completes the old one (Str::replace and Str::split).
ReplaceIsSplit ==
    asked.op = "replace" /\ asked.sub /= <<>> /\ Find(str, <<Nul>>) = None =>
        LET n == IF asked.n < 0 THEN Len(str) ELSE asked.n
        IN  ret = Joined(Split(str, asked.sub, n + 1), asked.new)
=============================================================================
