---------------------------- MODULE Hexdump_proofs ----------------------------
(***************************************************************************)
(* Proofs about hexdump (ovmf.py:343-377) for every payload: the loop      *)
(* keeps its types, and when it returns it has printed exactly the elided *)
(* dump ElidedDump describes.                                              *)
(*                                                                         *)
(* The argument: after c reads, printed is the flattening of the pieces   *)
(* of the first c lines, prev_line is line c and eliding says that line c *)
(* repeats line c - 1.  Each read appends the piece of line c + 1         *)
(* (FlattenSeqAppend), and the empty read comes exactly after the last    *)
(* line.                                                                   *)
(***************************************************************************)
EXTENDS Hexdump, SeqFlattenLemmas, SequenceTheorems, TLAPS

\* The printed line of bytes l at offset o.
Shown(o, l) == [star |-> FALSE, off |-> o, d |-> l]

\* What ElidedDump prints for line k of ls.
LinePiece(ls, k) ==
    IF k > 1 /\ ls[k] = ls[k - 1]
    THEN IF k > 2 /\ ls[k - 1] = ls[k - 2] THEN << >> ELSE << Star >>
    ELSE << Shown(16 * (k - 1), ls[k]) >>

\* The dump of the first c lines.
Dump(ls, c) == FlattenSeq([k \in 1..c |-> LinePiece(ls, k)])

\* The state of the loop after c reads.
AfterReads(c) ==
    LET ls == Lines(data) IN
    /\ consumed = 16 * c /\ offset = 16 * c
    /\ printed = Dump(ls, c)
    /\ prevLine = IF c = 0 THEN << >> ELSE ls[c]
    /\ eliding = (c > 1 /\ ls[c] = ls[c - 1])
    /\ done => c = Len(ls)

DumpInv == TypeOK /\ \E c \in 0..Len(Lines(data)) : AfterReads(c)

-----------------------------------------------------------------------------
(* Lines and reads.  ReadEnd is kept opaque: the SubSeq terms then differ  *)
(* only in arguments that arithmetic shows equal.                          *)

\* The number of lines of bs.
NLines(bs) == (Len(bs) + 15) \div 16

\* A read ends inside the payload.
LEMMA ReadEndType ==
    ASSUME NEW pay \in Seq(0..255), NEW e \in Int
    PROVE  /\ ReadEnd(pay, e) \in Int
           /\ ReadEnd(pay, e) <= Len(pay)
           /\ e <= Len(pay) => ReadEnd(pay, e) = e
           /\ e > Len(pay) => ReadEnd(pay, e) = Len(pay)
  BY DEF ReadEnd

\* The bytes of a payload from m to n are bytes.
LEMMA ChunkType ==
    ASSUME NEW pay \in Seq(0..255), NEW m \in Nat \ {0}, NEW n \in Int, n <= Len(pay)
    PROVE  /\ SubSeq(pay, m, n) \in Seq(0..255)
           /\ Len(SubSeq(pay, m, n)) = IF m <= n THEN n - m + 1 ELSE 0
<1>1. \A i \in m..n : pay[i] \in 0..255
  <2>. TAKE i \in m..n
  <2>1. i \in 1..Len(pay)
    OBVIOUS
  <2>. QED  BY <2>1, ElementOfSeq
<1>. QED  BY <1>1, SubSeqProperties

\* The lines of a payload are byte strings, NLines of them; the c-th of
\* them exists exactly when 16 * c bytes do not yet reach the end.
LEMMA LinesFacts ==
    ASSUME NEW pay \in Seq(0..255)
    PROVE  /\ Lines(pay) \in Seq(Seq(0..255))
           /\ Len(Lines(pay)) = NLines(pay)
           /\ \A k \in 1..NLines(pay) :
                 Lines(pay)[k] = SubSeq(pay, 16 * (k - 1) + 1, ReadEnd(pay, 16 * k))
           /\ NLines(pay) \in Nat
           /\ 16 * NLines(pay) <= Len(pay) + 15
           /\ \A c \in 0..NLines(pay) : c < NLines(pay) <=> 16 * c < Len(pay)
<1>1. NLines(pay) \in Nat /\ 16 * NLines(pay) <= Len(pay) + 15
      /\ \A c \in 0..NLines(pay) : c < NLines(pay) <=> 16 * c < Len(pay)
  BY DEF NLines
<1>2. \A k \in 1..NLines(pay) :
         SubSeq(pay, 16 * (k - 1) + 1, ReadEnd(pay, 16 * k)) \in Seq(0..255)
  <2>. TAKE k \in 1..NLines(pay)
  <2>1. ReadEnd(pay, 16 * k) \in Int /\ ReadEnd(pay, 16 * k) <= Len(pay)
    BY ReadEndType
  <2>2. 16 * (k - 1) + 1 \in Nat \ {0}
    BY <1>1
  <2>. QED  BY <2>1, <2>2, ChunkType
<1>3. Lines(pay) = [k \in 1..NLines(pay) |-> SubSeq(pay, 16 * (k - 1) + 1, ReadEnd(pay, 16 * k))]
  BY DEF Lines, NLines
<1>4. Lines(pay) \in [1..NLines(pay) -> Seq(0..255)]
  BY <1>2, <1>3, Zenon
<1>5. Lines(pay) \in Seq(Seq(0..255)) /\ Len(Lines(pay)) = NLines(pay)
  BY <1>1, <1>4
<1>. QED  BY <1>1, <1>3, <1>5

\* f.read(16) after c lines (Read16 with consumed = 16 * c).
ReadAt(bs, c) == SubSeq(bs, 16 * c + 1, ReadEnd(bs, 16 * c + 16))

\* The read after c lines is line c + 1, or the empty read after the last.
LEMMA ReadLine ==
    ASSUME NEW pay \in Seq(0..255), NEW c \in 0..NLines(pay)
    PROVE  /\ c < NLines(pay) => ReadAt(pay, c) = Lines(pay)[c + 1] /\ ReadAt(pay, c) # << >>
           /\ c = NLines(pay) => ReadAt(pay, c) = << >>
           /\ ReadAt(pay, c) \in Seq(0..255)
<1>1. /\ NLines(pay) \in Nat /\ c \in Nat /\ Len(pay) \in Nat
      /\ c < NLines(pay) <=> 16 * c < Len(pay)
      /\ \A k \in 1..NLines(pay) :
            Lines(pay)[k] = SubSeq(pay, 16 * (k - 1) + 1, ReadEnd(pay, 16 * k))
  BY LinesFacts
<1>2. /\ ReadEnd(pay, 16 * c + 16) \in Int /\ ReadEnd(pay, 16 * c + 16) <= Len(pay)
      /\ 16 * c + 16 <= Len(pay) => ReadEnd(pay, 16 * c + 16) = 16 * c + 16
      /\ 16 * c + 16 > Len(pay) => ReadEnd(pay, 16 * c + 16) = Len(pay)
  BY <1>1, ReadEndType
<1>3. c < NLines(pay) => ReadAt(pay, c) = Lines(pay)[c + 1]
  <2>. SUFFICES ASSUME c < NLines(pay) PROVE ReadAt(pay, c) = Lines(pay)[c + 1]
    OBVIOUS
  <2>1. Lines(pay)[c + 1] = SubSeq(pay, 16 * (c + 1 - 1) + 1, ReadEnd(pay, 16 * (c + 1)))
    BY <1>1
  <2>2. 16 * (c + 1 - 1) + 1 = 16 * c + 1 /\ 16 * (c + 1) = 16 * c + 16
    BY <1>1
  <2>. QED  BY <2>1, <2>2, Zenon DEF ReadAt
<1>4. /\ ReadAt(pay, c) \in Seq(0..255)
      /\ Len(ReadAt(pay, c)) = IF 16 * c + 1 <= ReadEnd(pay, 16 * c + 16)
                                THEN ReadEnd(pay, 16 * c + 16) - (16 * c + 1) + 1 ELSE 0
  <2>1. 16 * c + 1 \in Nat \ {0}
    BY <1>1
  <2>2. /\ SubSeq(pay, 16 * c + 1, ReadEnd(pay, 16 * c + 16)) \in Seq(0..255)
        /\ Len(SubSeq(pay, 16 * c + 1, ReadEnd(pay, 16 * c + 16))) =
             IF 16 * c + 1 <= ReadEnd(pay, 16 * c + 16)
             THEN ReadEnd(pay, 16 * c + 16) - (16 * c + 1) + 1 ELSE 0
    BY <1>2, <2>1, ChunkType
  <2>. QED  BY <2>2, Zenon DEF ReadAt
<1>5. c < NLines(pay) => Len(ReadAt(pay, c)) > 0
  BY <1>1, <1>2, <1>4
<1>6. c = NLines(pay) => Len(ReadAt(pay, c)) = 0
  BY <1>1, <1>2, <1>4
<1>. QED  BY <1>3, <1>4, <1>5, <1>6

-----------------------------------------------------------------------------
(* The dump of the first c lines.                                          *)

\* What ElidedDump prints for one line is a sequence of printed lines.
LEMMA PieceType ==
    ASSUME NEW pay \in Seq(0..255), NEW k \in 1..NLines(pay)
    PROVE  LinePiece(Lines(pay), k) \in Seq(Printed)
<1>1. Lines(pay)[k] \in Seq(0..255) /\ NLines(pay) \in Nat
  BY LinesFacts, ElementOfSeq
<1>2. Shown(16 * (k - 1), Lines(pay)[k]) \in Printed
  BY <1>1 DEF Printed, Shown
<1>3. Star \in Printed
  BY DEF Printed, Star
<1>. QED  BY <1>2, <1>3 DEF LinePiece

\* Nothing is printed before the first read.
LEMMA DumpZero ==
    ASSUME NEW ls
    PROVE  Dump(ls, 0) = << >>
<1>1. [k \in 1..0 |-> LinePiece(ls, k)] = << >>
  OBVIOUS
<1>. QED  BY <1>1 DEF Dump, FlattenSeq

\* Each read adds the piece of its line to the dump.
LEMMA DumpAppend ==
    ASSUME NEW pay \in Seq(0..255), NEW c \in 0..(NLines(pay) - 1)
    PROVE  Dump(Lines(pay), c + 1) = Dump(Lines(pay), c) \o LinePiece(Lines(pay), c + 1)
<1>. DEFINE ls == Lines(pay)
            P(n) == [k \in 1..n |-> LinePiece(ls, k)]
<1>1. NLines(pay) \in Nat /\ c \in Nat
  BY LinesFacts
<1>2. P(c) \in Seq(Seq(Printed)) /\ LinePiece(ls, c + 1) \in Seq(Printed)
  <2>1. \A k \in 1..c : LinePiece(ls, k) \in Seq(Printed)
    BY <1>1, PieceType
  <2>2. LinePiece(ls, c + 1) \in Seq(Printed)
    BY <1>1, PieceType
  <2>. QED  BY <1>1, <2>1, <2>2
<1>3. P(c + 1) = Append(P(c), LinePiece(ls, c + 1))
  BY <1>1
<1>. HIDE DEF P
<1>4. FlattenSeq(Append(P(c), LinePiece(ls, c + 1))) = FlattenSeq(P(c)) \o LinePiece(ls, c + 1)
  BY <1>2, FlattenSeqAppend
<1>. QED  BY <1>3, <1>4 DEF Dump, P

\* A line equal to the one before it is elided: a star, or nothing if
\* the one before was already elided.
LEMMA PieceRepeat ==
    ASSUME NEW s, NEW k, k > 1, s[k] = s[k - 1]
    PROVE  LinePiece(s, k) = IF k > 2 /\ s[k - 1] = s[k - 2] THEN << >> ELSE << Star >>
  BY Zenon DEF LinePiece

\* Any other line is printed at its offset.
LEMMA PieceOther ==
    ASSUME NEW s, NEW k, ~(k > 1 /\ s[k] = s[k - 1])
    PROVE  LinePiece(s, k) = << Shown(16 * (k - 1), s[k]) >>
  BY Zenon DEF LinePiece

LEMMA PieceNew ==
    ASSUME NEW s, NEW c \in Nat, c = 0 \/ s[c + 1] # s[c]
    PROVE  LinePiece(s, c + 1) = << Shown(16 * c, s[c + 1]) >>
<1>1. c + 1 - 1 = c /\ (c = 0 => ~(c + 1 > 1))
  OBVIOUS
<1>2. ~(c + 1 > 1 /\ s[c + 1] = s[c + 1 - 1])
  BY <1>1, Zenon
<1>3. LinePiece(s, c + 1) = << Shown(16 * (c + 1 - 1), s[c + 1]) >>
  BY <1>2, PieceOther
<1>4. 16 * (c + 1 - 1) = 16 * c
  OBVIOUS
<1>. QED  BY <1>3, <1>4, Zenon

-----------------------------------------------------------------------------
(* DumpInv is inductive.                                                   *)

\* The state after c reads, with the variables passed explicitly.
Reads(c, pay, o, n, pr, pl, el, dn) ==
    /\ n = 16 * c /\ o = 16 * c
    /\ pr = Dump(Lines(pay), c)
    /\ pl = IF c = 0 THEN << >> ELSE Lines(pay)[c]
    /\ el = (c > 1 /\ Lines(pay)[c] = Lines(pay)[c - 1])
    /\ dn => c = Len(Lines(pay))

LEMMA ReadsDef ==
    ASSUME NEW c
    PROVE  /\ AfterReads(c) = Reads(c, data, offset, consumed, printed, prevLine, eliding, done)
           /\ AfterReads(c)' = Reads(c, data', offset', consumed', printed', prevLine', eliding', done')
  BY DEF AfterReads, Reads

\* Read16 is the read after c lines.
LEMMA Read16At ==
    ASSUME NEW c, consumed = 16 * c
    PROVE  Read16 = ReadAt(data, c)
  BY Zenon DEF Read16, ReadAt

\* Before the loop: no line read, nothing printed.
LEMMA DumpInit == Init => DumpInv
<1>. SUFFICES ASSUME Init PROVE DumpInv
  OBVIOUS
<1>1. data \in Seq(0..255) /\ Len(data) \in Nat
  BY HexdumpAssumption DEF Init
<1>2. TypeOK
  <2>1. << >> \in Seq(Printed) /\ << >> \in Seq(0..255)
    OBVIOUS
  <2>2. 0 \in 0..(Len(data) + 15) /\ 0 \in Nat
    BY <1>1
  <2>. QED  BY <2>1, <2>2, Zenon DEF Init, TypeOK
<1>3. NLines(data) \in Nat /\ Len(Lines(data)) = NLines(data)
  BY <1>1, LinesFacts
<1>4. Dump(Lines(data), 0) = << >>
  BY DumpZero
<1>5. Reads(0, data, offset, consumed, printed, prevLine, eliding, done)
  <2>1. consumed = 16 * 0 /\ offset = 16 * 0
    BY DEF Init
  <2>2. prevLine = IF 0 = 0 THEN << >> ELSE Lines(data)[0]
    BY DEF Init
  <2>3. eliding = (0 > 1 /\ Lines(data)[0] = Lines(data)[0 - 1])
    <3>1. ~(0 > 1)
      OBVIOUS
    <3>. QED  BY <3>1, Zenon DEF Init
  <2>4. printed = Dump(Lines(data), 0) /\ (done => 0 = Len(Lines(data)))
    BY <1>4 DEF Init
  <2>. QED  BY <2>1, <2>2, <2>3, <2>4, Zenon DEF Reads
<1>6. AfterReads(0)
  BY <1>5, ReadsDef
<1>7. 0 \in 0..Len(Lines(data))
  BY <1>3
<1>. QED  BY <1>2, <1>6, <1>7, Zenon DEF DumpInv

\* One iteration of the loop that prints (ovmf.py:355-376): the read is
\* line c + 1, and the code prints exactly its piece.
LEMMA DumpStep ==
    ASSUME DumpInv, Step
    PROVE  DumpInv'
<1>. DEFINE ls == Lines(data)
            N  == NLines(data)
<1>1. data \in Seq(0..255) /\ TypeOK
  BY HexdumpAssumption DEF DumpInv, TypeOK
<1>2. /\ ls \in Seq(Seq(0..255)) /\ Len(ls) = N /\ N \in Nat
      /\ 16 * N <= Len(data) + 15
  BY <1>1, LinesFacts
<1>3. PICK c \in 0..N : AfterReads(c)
  BY <1>2 DEF DumpInv
<1>4. Read16 = ReadAt(data, c)
  BY <1>3, Read16At DEF AfterReads
<1>5. Read16 # << >> /\ ~done
  BY DEF Step
<1>6. c < N /\ Read16 = ls[c + 1]
  <2>1. /\ c < N => ReadAt(data, c) = ls[c + 1]
        /\ c = N => ReadAt(data, c) = << >>
    BY <1>1, ReadLine
  <2>2. c # N
    BY <1>4, <1>5, <2>1
  <2>3. c < N
    BY <1>2, <2>2
  <2>. QED  BY <1>4, <2>1, <2>3
<1>7. ls[c + 1] \in Seq(0..255)
  BY <1>2, <1>6, ElementOfSeq
<1>8. Dump(ls, c + 1) = Dump(ls, c) \o LinePiece(ls, c + 1)
  <2>1. c \in 0..(NLines(data) - 1)
    BY <1>2, <1>6
  <2>. QED  BY <1>1, <2>1, DumpAppend
<1>9. /\ offset' = offset + 16 /\ consumed' = consumed + 16 /\ prevLine' = ls[c + 1]
      /\ data' = data /\ done' = done
  BY <1>6 DEF Step
<1>10. /\ printed' = printed \o LinePiece(ls, c + 1)
       /\ eliding' = (c + 1 > 1 /\ ls[c + 1] = ls[c + 1 - 1])
       /\ printed' \in Seq(Printed)
  <2>1. /\ printed = Dump(ls, c) /\ printed \in Seq(Printed)
        /\ prevLine = IF c = 0 THEN << >> ELSE ls[c]
        /\ eliding = (c > 1 /\ ls[c] = ls[c - 1])
        /\ offset = 16 * c
    BY <1>1, <1>3 DEF AfterReads, TypeOK
  <2>2. CASE Read16 = prevLine
    <3>1. c # 0 /\ ls[c + 1] = ls[c]
      BY <1>5, <1>6, <2>1, <2>2
    <3>2. c + 1 > 1 /\ ls[c + 1] = ls[c + 1 - 1]
      BY <1>6, <3>1
    <3>3. (c + 1 > 2 /\ ls[c + 1 - 1] = ls[c + 1 - 2]) <=> eliding
      <4>1. c + 1 - 1 = c /\ c + 1 - 2 = c - 1 /\ (c + 1 > 2 <=> c > 1)
        BY <1>6
      <4>. QED  BY <2>1, <4>1, Zenon
    <3>4. printed' = (IF eliding THEN printed ELSE Append(printed, Star)) /\ eliding' = TRUE
      BY <2>2, Zenon DEF Step
    <3>5. Star \in Printed
      BY DEF Star, Printed
    <3>6. CASE eliding
      <4>1. LinePiece(ls, c + 1) = << >>
        <5>1. LinePiece(ls, c + 1) = IF c + 1 > 2 /\ ls[c + 1 - 1] = ls[c + 1 - 2] THEN << >> ELSE << Star >>
          BY <3>2, PieceRepeat
        <5>. QED  BY <3>3, <3>6, <5>1, Zenon
      <4>2. printed' = printed /\ printed \o << >> = printed
        BY <2>1, <3>4, <3>6
      <4>. QED  BY <2>1, <3>2, <3>4, <4>1, <4>2
    <3>7. CASE ~eliding
      <4>1. LinePiece(ls, c + 1) = << Star >>
        <5>1. LinePiece(ls, c + 1) = IF c + 1 > 2 /\ ls[c + 1 - 1] = ls[c + 1 - 2] THEN << >> ELSE << Star >>
          BY <3>2, PieceRepeat
        <5>. QED  BY <3>3, <3>7, <5>1, Zenon
      <4>2. printed' = Append(printed, Star) /\ Append(printed, Star) = printed \o << Star >>
        BY <2>1, <3>4, <3>7
      <4>3. Append(printed, Star) \in Seq(Printed)
        BY <2>1, <3>5
      <4>. QED  BY <3>2, <3>4, <4>1, <4>2, <4>3
    <3>. QED  BY <3>6, <3>7
  <2>3. CASE Read16 # prevLine
    <3>1. c = 0 \/ ls[c + 1] # ls[c]
      BY <1>6, <2>1, <2>3
    <3>2. ~(c + 1 > 1 /\ ls[c + 1] = ls[c + 1 - 1])
      BY <1>6, <3>1
    <3>3. 16 * c = offset
      BY <1>6, <2>1
    <3>4. LinePiece(ls, c + 1) = << Shown(offset, ls[c + 1]) >>
      <4>1. LinePiece(ls, c + 1) = << Shown(16 * c, ls[c + 1]) >>
        BY <1>6, <3>1, PieceNew
      <4>. QED  BY <3>3, <4>1
    <3>. DEFINE r == Shown(offset, ls[c + 1])
    <3>5. /\ printed' = Append(printed, Shown(offset, Read16))
          /\ eliding' = FALSE
      BY <2>3, Zenon DEF Step, Shown
    <3>6. printed' = Append(printed, r)
      BY <1>6, <3>5
    <3>7. r \in Printed
      BY <1>7, <2>1 DEF Printed, Shown
    <3>. HIDE DEF r
    <3>8. Append(printed, r) = printed \o << r >> /\ Append(printed, r) \in Seq(Printed)
      BY <2>1, <3>7, AppendIsConcat, AppendProperties
    <3>. QED  BY <3>2, <3>4, <3>5, <3>6, <3>8 DEF r
  <2>. QED  BY <2>2, <2>3
<1>11. TypeOK'
  <2>1. consumed = 16 * c /\ offset = 16 * c
    BY <1>3 DEF AfterReads
  <2>2. consumed' \in 0..(Len(data') + 15) /\ offset' \in Nat
    BY <1>2, <1>6, <1>9, <2>1
  <2>3. eliding' \in BOOLEAN /\ prevLine' \in Seq(0..255) /\ printed' \in Seq(Printed)
    BY <1>7, <1>9, <1>10
  <2>4. data' \in Payloads /\ done' \in BOOLEAN
    BY <1>1, <1>9 DEF TypeOK
  <2>. QED  BY <2>2, <2>3, <2>4, Zenon DEF TypeOK
<1>12. AfterReads(c + 1)'
  <2>1. Reads(c, data, offset, consumed, printed, prevLine, eliding, done)
    BY <1>3, ReadsDef
  <2>2. Reads(c + 1, data, offset', consumed', printed', prevLine', eliding', done')
    BY <1>5, <1>6, <1>8, <1>9, <1>10, <2>1 DEF Reads
  <2>. QED  BY <1>9, <2>2, ReadsDef
<1>. QED  BY <1>2, <1>6, <1>9, <1>11, <1>12 DEF DumpInv

\* The return of hexdump (ovmf.py:352-353): the empty read comes only
\* after the last line.
LEMMA DumpReturn ==
    ASSUME DumpInv, Return
    PROVE  DumpInv'
<1>. DEFINE N == NLines(data)
<1>1. data \in Seq(0..255) /\ TypeOK
  BY HexdumpAssumption DEF DumpInv, TypeOK
<1>2. Len(Lines(data)) = N /\ N \in Nat
  BY <1>1, LinesFacts
<1>3. PICK c \in 0..N : AfterReads(c)
  BY <1>2 DEF DumpInv
<1>4. ReadAt(data, c) = << >>
  BY <1>3, Read16At DEF AfterReads, Return
<1>5. c = N
  <2>1. c < N => ReadAt(data, c) # << >>
    BY <1>1, ReadLine
  <2>. QED  BY <1>2, <1>4, <2>1
<1>6. /\ done' = TRUE
      /\ UNCHANGED <<data, offset, consumed, prevLine, eliding, printed>>
  BY DEF Return
<1>7. TypeOK'
  BY <1>1, <1>6 DEF TypeOK
<1>8. AfterReads(c)'
  <2>1. Reads(c, data, offset, consumed, printed, prevLine, eliding, done)
    BY <1>3, ReadsDef
  <2>2. Reads(c, data', offset', consumed', printed', prevLine', eliding', done')
    BY <1>2, <1>5, <1>6, <2>1 DEF Reads
  <2>. QED  BY <2>2, ReadsDef
<1>. QED  BY <1>2, <1>6, <1>7, <1>8 DEF DumpInv

\* A step that changes none of the variables keeps the invariant.
LEMMA DumpStutter ==
    ASSUME DumpInv, UNCHANGED vars
    PROVE  DumpInv'
<1>1. PICK c \in 0..Len(Lines(data)) : AfterReads(c)
  BY DEF DumpInv
<1>2. Reads(c, data, offset, consumed, printed, prevLine, eliding, done)
  BY <1>1, ReadsDef
<1>3. AfterReads(c)'
  BY <1>2, ReadsDef, Zenon DEF vars
<1>. QED  BY <1>1, <1>3, Zenon DEF DumpInv, TypeOK, vars

\* DumpInv holds in every reachable state.
LEMMA DumpInvariant == Spec => []DumpInv
<1>1. DumpInv /\ [Next]_vars => DumpInv'
  BY DumpStep, DumpReturn, DumpStutter DEF Next
<1>. QED  BY <1>1, DumpInit, PTL DEF Spec

\* Every variable of hexdump keeps its type: the offset and the file
\* position stay naturals, the position never passes the end of the payload
\* by more than a line, and everything printed is a star or a line of bytes.
THEOREM TypeCorrect == Spec => []TypeOK
  BY DumpInvariant, PTL DEF DumpInv

\* DumpInv gives ElidedDump: when hexdump returns, it has read every line,
\* and what it printed is the dump of all of them.
LEMMA DumpDone == DumpInv => ElidedDump
<1>. SUFFICES ASSUME DumpInv, done PROVE ElidedDump
  BY DEF ElidedDump
<1>. DEFINE ls == Lines(data)
<1>1. PICK c \in 0..Len(ls) : AfterReads(c)
  BY DEF DumpInv
<1>2. c = Len(ls) /\ printed = Dump(ls, c)
  BY <1>1 DEF AfterReads
<1>3. [k \in 1..Len(ls) |-> LinePiece(ls, k)]
      = [k \in 1..Len(ls) |->
           IF k > 1 /\ ls[k] = ls[k - 1]
           THEN IF k > 2 /\ ls[k - 1] = ls[k - 2] THEN << >> ELSE << Star >>
           ELSE << [star |-> FALSE, off |-> 16 * (k - 1), d |-> ls[k]] >>]
  BY DEF LinePiece, Shown
<1>. QED  BY <1>2, <1>3, Zenon DEF ElidedDump, Dump

\* ElidedDump (spec section 4.6) for every payload: when hexdump returns,
\* the lines it printed are the payload's 16-byte lines at their offsets,
\* with each run of repeated lines collapsed into one "*".
THEOREM ElidedCorrect == Spec => []ElidedDump
  BY DumpInvariant, DumpDone, PTL


-----------------------------------------------------------------------------
(* Refinement: the loop implements the one-step hex dump of HexdumpSpec.   *)
(* The abstract output is what hexdump has printed once it has returned,  *)
(* so a read is a stutter and the return is the abstract Render, whose    *)
(* output DumpInv gives.                                                   *)

\* The abstract lines of a payload are the lines the loop reads.
LEMMA ChunksLines ==
    ASSUME NEW bs
    PROVE  Abs!Chunks(bs) = Lines(bs)
  BY DEF Abs!Chunks, Abs!LineEnd, Lines, ReadEnd

\* The abstract piece of a line is the piece the loop prints for it.
LEMMA PieceSame ==
    ASSUME NEW ls, NEW k
    PROVE  Abs!Piece(ls, k) = LinePiece(ls, k)
<1>1. Abs!Star = Star /\ \A o, l : Abs!Shown(o, l) = Shown(o, l)
  BY DEF Abs!Star, Star, Abs!Shown, Shown
<1>. QED  BY <1>1, Zenon DEF Abs!Piece, LinePiece

\* The abstract rendering of a payload is the dump of all its lines.
LEMMA RenderedDump ==
    ASSUME NEW bs
    PROVE  Abs!Rendered(bs) = Dump(Lines(bs), Len(Lines(bs)))
<1>1. Abs!Chunks(bs) = Lines(bs)
  BY ChunksLines
<1>2. [k \in 1..Len(Lines(bs)) |-> Abs!Piece(Lines(bs), k)]
      = [k \in 1..Len(Lines(bs)) |-> LinePiece(Lines(bs), k)]
  BY PieceSame
<1>3. \A s : Abs!FlattenSeq(s) = FlattenSeq(s)
  BY DEF Abs!FlattenSeq, FlattenSeq
<1>. QED  BY <1>1, <1>2, <1>3 DEF Abs!Rendered, Dump

\* The return of hexdump (ovmf.py:352-353) hands over the whole elided
\* dump at once, and every read before it shows the caller nothing: every
\* step of the loop is a step of the abstract hex dump or leaves what it
\* shows unchanged.
THEOREM Refinement == Spec => Abs!SafeSpec
<1>1. Init => Abs!Init
  BY DEF Init, Abs!Init
<1>2. DumpInv /\ [Next]_vars => [Abs!Render]_Abs!vars
  <2>. SUFFICES ASSUME DumpInv, [Next]_vars PROVE [Abs!Render]_Abs!vars
    OBVIOUS
  <2>1. CASE Step
    BY <2>1 DEF Step, Abs!vars
  <2>2. CASE Return
    <3>1. DumpInv'
      BY <2>2, DumpReturn
    <3>2. PICK c \in 0..Len(Lines(data')) : AfterReads(c)'
      BY <3>1 DEF DumpInv
    <3>3. done' = TRUE /\ data' = data /\ ~done
      BY <2>2 DEF Return
    <3>4. printed' = Dump(Lines(data), Len(Lines(data)))
      BY <3>2, <3>3 DEF AfterReads
    <3>5. printed' = Abs!Rendered(data)
      BY <3>4, RenderedDump
    <3>. QED  BY <3>3, <3>5 DEF Abs!Render
  <2>3. CASE UNCHANGED vars
    BY <2>3 DEF vars, Abs!vars
  <2>. QED  BY <2>1, <2>2, <2>3 DEF Next
<1>. QED  BY <1>1, <1>2, DumpInvariant, PTL DEF Spec, Abs!SafeSpec

=============================================================================
