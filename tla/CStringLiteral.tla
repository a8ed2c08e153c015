--------------------------- MODULE CStringLiteral ---------------------------
(***************************************************************************)
(* The bytes a C compiler makes of the characters between the quotes of a  *)
(* string literal (C11 6.4.4.4 and 6.4.5), as the reference the escaping  *)
(* of gen_ksyms.py is checked against: an octal escape takes up to three   *)
(* octal digits, a hexadecimal escape every hexadecimal digit that         *)
(* follows, and an escape whose value does not fit in a char is a          *)
(* constraint violation.  Characters are their codes.                      *)
(***************************************************************************)
EXTENDS Integers, Sequences

OctDigits == 48..55
HexDigits == (48..57) \cup (65..70) \cup (97..102)

DigitValue(c) == CASE c \in 48..57  -> c - 48
                   [] c \in 65..70  -> c - 55
                   [] c \in 97..102 -> c - 87

\* The number of characters of D that follow s[i - 1], at most m.
RunLen(s, i, D, m) ==
    CHOOSE k \in 0..m :
        /\ \A j \in i..(i + k - 1) : j <= Len(s) /\ s[j] \in D
        /\ k = m \/ i + k > Len(s) \/ s[i + k] \notin D

RECURSIVE DigitsValue(_, _)
DigitsValue(ds, base) ==
    IF ds = << >> THEN 0
    ELSE DigitsValue(SubSeq(ds, 1, Len(ds) - 1), base) * base + DigitValue(ds[Len(ds)])

SimpleEscapes == [c \in {34, 39, 63, 92} |-> c]

\* [ok |-> FALSE] for a literal a compiler rejects.
RECURSIVE Unescape(_)
Unescape(s) ==
    IF s = << >> THEN [ok |-> TRUE, bytes |-> << >>]
    ELSE
    LET Then(b, n) == LET r == Unescape(SubSeq(s, n + 1, Len(s))) IN
                      IF r.ok /\ b < 256 THEN [ok |-> TRUE, bytes |-> << b >> \o r.bytes]
                      ELSE [ok |-> FALSE]
    IN
    CASE s[1] # 92 -> Then(s[1], 1)
      [] Len(s) >= 2 /\ s[2] \in OctDigits ->
            LET k == RunLen(s, 2, OctDigits, 3) IN
            Then(DigitsValue(SubSeq(s, 2, k + 1), 8), k + 1)
      [] Len(s) >= 3 /\ s[2] = 120 /\ s[3] \in HexDigits ->
            LET k == RunLen(s, 3, HexDigits, Len(s)) IN
            Then(DigitsValue(SubSeq(s, 3, k + 2), 16), k + 2)
      [] Len(s) >= 2 /\ s[2] \in DOMAIN SimpleEscapes -> Then(SimpleEscapes[s[2]], 2)
      [] OTHER -> [ok |-> FALSE]
=============================================================================
