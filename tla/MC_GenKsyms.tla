---------------------------- MODULE MC_GenKsyms -----------------------------
(* A small instance of GenKsyms: nm outputs with an undefined symbol, a    *)
(* data symbol, a blank line, two symbols at one address, a name starting *)
(* with "$", an address int(_, 16) rejects, and names with a digit first, *)
(* a double quote and a character outside ASCII.                          *)
EXTENDS GenKsyms, CStringLiteral

Ln(n, a, t, s) == [ntok |-> n, addr |-> a, typ |-> t, name |-> s]

G      == << 103 >>        \* g
A      == << 97 >>         \* a
Digit  == << 48, 103 >>    \* 0g
Dollar == << 36, 103 >>    \* $g
Quote  == << 34, 97 >>     \* "a
Eacute == << 233 >>        \* U+00E9
Snow   == << 9731 >>       \* U+2603

MCNmOutputs ==
    { << >>,
      << Ln(2, NotHex, "U", G), Ln(3, 16, "T", G), Ln(3, 16, "t", A),
         Ln(3, 32, "D", G), Ln(0, NotHex, "T", << >>), Ln(3, 48, "W", Eacute) >>,
      << Ln(3, 32, "T", Dollar), Ln(3, NotHex, "T", G), Ln(3, 8, "w", Digit),
         Ln(3, 8, "T", Snow), Ln(3, 4, "T", Quote) >>,
      << Ln(3, 16, "T", G), Ln(3, 24, "t", Digit) >> }

\* TextSymbols agrees with the filter written with SelectSeq on every nm
\* output of this instance.
ASSUME TextSymbolsIsFilter ==
    \A ls \in MCNmOutputs :
        LET t == SelectSeq(ls, IsTextSymbol) IN
        TextSymbols(ls) = [k \in 1..Len(t) |-> [addr |-> t[k].addr, name |-> t[k].name]]

\* The C compiler makes of the literal gen_ksyms writes for __ksym_names
\* (gen_ksyms.py:83-84) exactly names_blob, so every name offset reads the
\* name it was recorded for.
NamesLiteralDecodes ==
    (phase = "done" /\ rc = 0) =>
        LET r == Unescape(out.names) IN r.ok /\ r.bytes = blob
=============================================================================
