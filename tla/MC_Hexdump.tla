----------------------------- MODULE MC_Hexdump -----------------------------
(* Payloads of up to 5 lines over two byte values: runs of equal lines of  *)
(* every length up to 5, runs one after the other, and short lines.       *)
EXTENDS Hexdump

Rep(b, n) == [i \in 1..n |-> b]

\* Every concatenation of up to five pieces: a line of 0s, a line of 1s, and
\* five 0 bytes (a short line, or one that shifts the lines after it).
MCPayloads ==
    {FlattenSeq(s) : s \in BoundedSeq({Rep(0, 16), Rep(1, 16), Rep(0, 5)}, 5)}
=============================================================================
