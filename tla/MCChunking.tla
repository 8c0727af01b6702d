----------------------------- MODULE MCChunking -----------------------------
EXTENDS Chunking
MCTexts == UNION {[1 .. n -> Char] : n \in 0 .. 6}
MCSettings == {<<1, 0>>, <<2, 0>>, <<2, 1>>, <<3, 1>>, <<3, 2>>, <<2, 2>>}
=============================================================================
