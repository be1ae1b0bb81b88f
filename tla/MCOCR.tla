------------------------------- MODULE MCOCR -------------------------------
(***************************************************************************)
(* OCR with blocks of a few bytes and small outputs, for TLC.              *)
(***************************************************************************)
EXTENDS OCR

\* Empty, less than a block, two with and without a rest, at and over the limit.
MCFileSizes == {0, 2, 6, 7, 9, 10}

\* Rows of up to three codes, up to three steps, one batch and more.
MCDims == {<<2, 1, 2>>, <<1, 1, 3>>, <<3, 1, 1>>, <<2, 2, 1>>, <<1, 3, 1>>}

\* Two numbers below 0: a search for the largest that starts at 0 finds none.
MCNumbers == {-5, -2}
MCLowest == -9
=============================================================================
