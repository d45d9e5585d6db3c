------------------------------- MODULE MCText -------------------------------
\* Boundaries of every row of the decoder's tables: plain and null, the ends of
\* the range of second bytes, a lead of each kind and the special leads.
EXTENDS Text

MCBytes == {0, 97, 128, 160, 194, 224, 237, 240, 244}
MCRunes == {-1, 97, 127, 128, 2046, 2047, 2048, 55295, 55296, 57343, 57344,
            65535, 131072, 1114111, 1114112}
MCSubs == {<<>>, <<97>>, <<97, 97>>, <<0>>}
MCCounts == {-1, 0, 1, 2}
=============================================================================
