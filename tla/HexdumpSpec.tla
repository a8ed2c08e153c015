----------------------------- MODULE HexdumpSpec -----------------------------
(***************************************************************************)
(* What the hex-dump helper of the dump command promises (spec section    *)
(* 4.6): it renders a data payload as its 16-byte lines, each at its      *)
(* offset, collapsing every run of lines identical to the line before     *)
(* them into one elision marker.  Here the rendering is a single step:    *)
(* before it nothing has been shown, after it the whole rendering has,    *)
(* and nothing changes afterwards.                                         *)
(***************************************************************************)
EXTENDS Integers, SequencesExt

CONSTANT Payloads   \* the payloads the helper may be given

VARIABLES
    data,       \* the payload
    printed,    \* what the helper has shown
    done        \* the helper has returned

vars == <<data, printed, done>>

\* The elision marker, and a shown line: its offset and its bytes.
Star == [star |-> TRUE]

Shown(o, l) == [star |-> FALSE, off |-> o, d |-> l]

\* The 16-byte lines of bs, the last one possibly shorter.
LineEnd(bs, k) == IF 16 * k <= Len(bs) THEN 16 * k ELSE Len(bs)

Chunks(bs) == [k \in 1..((Len(bs) + 15) \div 16) |-> SubSeq(bs, 16 * (k - 1) + 1, LineEnd(bs, k))]

\* What is shown for line k of ls: the line, or for a line equal to the one
\* before it a marker if that one was shown, and nothing if it was elided.
Piece(ls, k) ==
    IF k > 1 /\ ls[k] = ls[k - 1]
    THEN IF k > 2 /\ ls[k - 1] = ls[k - 2] THEN << >> ELSE << Star >>
    ELSE << Shown(16 * (k - 1), ls[k]) >>

Rendered(bs) == LET ls == Chunks(bs) IN FlattenSeq([k \in 1..Len(ls) |-> Piece(ls, k)])

Init ==
    /\ data \in Payloads
    /\ printed = << >>
    /\ done = FALSE

Render ==
    /\ ~done
    /\ printed' = Rendered(data)
    /\ done' = TRUE
    /\ UNCHANGED data

SafeSpec == Init /\ [][Render]_vars

\* The helper returns.
Spec == SafeSpec /\ WF_vars(Render)
==============================================================================
