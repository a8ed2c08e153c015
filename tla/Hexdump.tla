------------------------------ MODULE Hexdump -------------------------------
(***************************************************************************)
(* hexdump (ovmf.py:343-377) as dump calls it from                         *)
(* AuthenticatedVariable.print (ovmf.py:340): over io.BytesIO(data) with   *)
(* offset 0, no limit, elide=True and no LBA column.  Each iteration reads *)
(* up to 16 bytes; a line equal to the previous one is not printed, and   *)
(* the first of a run of them prints a "*" line.  A printed line is its    *)
(* offset and its bytes: the hex and ASCII columns are their formatting.   *)
(***************************************************************************)
EXTENDS Integers, SequencesExt

CONSTANT Payloads   \* the data fields of the records dump prints

\* A record's data field is bytes.
ASSUME HexdumpAssumption == Payloads \subseteq Seq(0..255)

VARIABLES
    data,       \* the bytes of io.BytesIO(self.data)
    offset,     \* offset
    consumed,   \* consumed
    prevLine,   \* prev_line (<< >> stands for None: a read is never empty)
    eliding,    \* eliding
    printed,    \* the lines printed so far
    done        \* the function has returned

vars == <<data, offset, consumed, prevLine, eliding, printed, done>>

Star == [star |-> TRUE]

Printed == {Star} \cup [star : {FALSE}, off : Nat, d : Seq(0..255)]

TypeOK ==
    /\ data \in Payloads
    /\ offset \in Nat /\ consumed \in 0..(Len(data) + 15)
    /\ prevLine \in Seq(0..255)
    /\ eliding \in BOOLEAN
    /\ printed \in Seq(Printed)
    /\ done \in BOOLEAN

Init ==
    /\ data \in Payloads
    /\ offset = 0 /\ consumed = 0
    /\ prevLine = << >>
    /\ eliding = FALSE
    /\ printed = << >>
    /\ done = FALSE

\* Where a read of the bytes up to position e of bs stops: at e, or at the
\* end of bs.
ReadEnd(bs, e) == IF e <= Len(bs) THEN e ELSE Len(bs)

\* f.read(16) at the current position.
Read16 == SubSeq(data, consumed + 1, ReadEnd(data, consumed + 16))

\* An elision that never ends once begun: eliding is not reset by a
\* printed line.
StepSticky ==
    /\ ~done
    /\ LET d == Read16 IN
       /\ d # << >>
       /\ IF d = prevLine
          THEN /\ eliding' = TRUE
               /\ printed' = IF eliding THEN printed ELSE Append(printed, Star)
          ELSE /\ printed' = Append(printed, [star |-> FALSE, off |-> offset, d |-> d])
               /\ UNCHANGED eliding
       /\ offset' = offset + 16 /\ consumed' = consumed + 16
       /\ prevLine' = d
    /\ UNCHANGED <<data, done>>

\* The loop without its "if not d: break".
StepUnguarded ==
    /\ ~done
    /\ LET d == Read16 IN
       /\ IF d = prevLine
          THEN /\ eliding' = TRUE
               /\ printed' = IF eliding THEN printed ELSE Append(printed, Star)
          ELSE /\ eliding' = FALSE
               /\ printed' = Append(printed, [star |-> FALSE, off |-> offset, d |-> d])
       /\ offset' = offset + 16 /\ consumed' = consumed + 16
       /\ prevLine' = d
    /\ UNCHANGED <<data, done>>

\* One iteration of the loop (ovmf.py:350-376) that reads a line.
Step ==
    /\ ~done
    /\ LET d == Read16 IN
       /\ d # << >>
       /\ IF d = prevLine
          THEN /\ eliding' = TRUE
               /\ printed' = IF eliding THEN printed ELSE Append(printed, Star)
          ELSE /\ eliding' = FALSE
               /\ printed' = Append(printed, [star |-> FALSE, off |-> offset, d |-> d])
       /\ offset' = offset + 16 /\ consumed' = consumed + 16
       /\ prevLine' = d
    /\ UNCHANGED <<data, done>>

\* A loop whose end is tested on prev_line instead of on the read: it only
\* ends after a line has been read, so an empty payload never returns.
ReturnAfterLine ==
    /\ ~done
    /\ Read16 = << >> /\ prevLine # << >>
    /\ done' = TRUE
    /\ UNCHANGED <<data, offset, consumed, prevLine, eliding, printed>>

\* ovmf.py:353-354 and 377: an empty read ends the loop.
Return ==
    /\ ~done
    /\ Read16 = << >>
    /\ done' = TRUE
    /\ UNCHANGED <<data, offset, consumed, prevLine, eliding, printed>>

Next == Step \/ Return

Spec == Init /\ [][Next]_vars /\ WF_vars(Next)

-----------------------------------------------------------------------------
(* Properties                                                              *)

\* The 16-byte lines of bs, the last one possibly shorter.
Lines(bs) == [k \in 1..((Len(bs) + 15) \div 16) |->
                 SubSeq(bs, 16 * (k - 1) + 1, ReadEnd(bs, 16 * k))]

\* Spec section 4.6: the hex dump of a payload shows each 16-byte line at
\* its offset, except that a run of lines equal to the one before them is
\* collapsed into a single "*": when hexdump returns, it has printed
\* exactly that.
ElidedDump ==
    done =>
        LET ls == Lines(data)
            Piece(k) == IF k > 1 /\ ls[k] = ls[k - 1]
                        THEN IF k > 2 /\ ls[k - 1] = ls[k - 2] THEN << >> ELSE << Star >>
                        ELSE << [star |-> FALSE, off |-> 16 * (k - 1), d |-> ls[k]] >>
        IN  printed = FlattenSeq([k \in 1..Len(ls) |-> Piece(k)])

\* hexdump seen from the dump command, which only looks at its output once
\* it has returned: what it has printed by then, and nothing before.
Abs == INSTANCE HexdumpSpec WITH printed <- IF done THEN printed ELSE << >>

\* The loop of hexdump implements the hex dump of spec section 4.6: each
\* read either does nothing the caller can see or, on the empty read that
\* ends the loop, hands over the whole elided rendering of the payload at
\* once; and under the loop's own progress hexdump does return.
HexdumpRefines == Abs!Spec
=============================================================================
