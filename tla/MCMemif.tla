------------------------------ MODULE MCMemif ------------------------------
\* Operations on memories of five words, with blocks of two; and on memories of
\* eight, with blocks of half a FIFO, as the real ones have.
EXTENDS Memif

Op(o, l, a, n) == [op |-> o, local |-> l, remote |-> a, len |-> n]

\* Transfers of one block, of two and of a block and a part, with single words
\* that fill the FIFO up.
MixedOps == {Op("write", 1, 0, 2), Op("write", 0, 1, 4), Op("write", 2, 0, 3), Op("read", 0, 1, 4),
             Op("write_word", 0, 3, 1), Op("read_word", 4, 2, 1)}
\* Two blocks in one call.
LongWrites == {Op("write", 0, 0, 8)}
=============================================================================
