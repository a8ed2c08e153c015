------------------------- MODULE GenKsymsTable_proofs -------------------------
(***************************************************************************)
(* KsymTable for every nm output: the C file gen_ksyms.py writes is the   *)
(* table of nm's text symbols, sorted stably by address, each name offset *)
(* reading its symbol's ASCII name.  The proof adds to the invariant of   *)
(* GenKsyms_proofs what the loops have computed: the symbols parsed from  *)
(* the lines read so far, and then their sorted list.                     *)
(***************************************************************************)
EXTENDS GenKsyms_proofs

\* What the parsing loop keeps of line k of ls.
TPiece(ls, k) ==
    IF IsTextSymbol(ls[k])
    THEN << [addr |-> ls[k].addr, name |-> ls[k].name] >>
    ELSE << >>

\* The symbols parsed from the first n lines of ls.
Parsed(ls, n) == FlattenSeq([k \in 1..n |-> TPiece(ls, k)])

\* What the script has computed at each phase.
TableInv ==
    /\ phase \in {"argv", "nm"} => syms = << >>
    /\ phase = "parse" =>
          idx - 1 <= Len(input.lines) /\ syms = Parsed(input.lines, idx - 1)
    /\ phase = "build" \/ (phase = "done" /\ rc = 0) =>
          syms = SortByAddr(TextSymbols(input.lines))
    /\ phase = "done" /\ rc = 0 =>
          idx = Len(syms) + 1 /\ out = FileOf(addrs, offs, blob)

TInv == IInv /\ TableInv

-----------------------------------------------------------------------------
(* The parsing loop.                                                       *)

\* What one line gives is a list of symbols.
LEMMA TPieceType ==
    ASSUME NEW ls \in Seq(Line), NEW k \in 1..Len(ls)
    PROVE  TPiece(ls, k) \in Seq(Sym)
<1>1. ls[k] \in Line
  BY ElementOfSeq
<1>2. IsTextSymbol(ls[k]) => [addr |-> ls[k].addr, name |-> ls[k].name] \in Sym
  BY <1>1 DEF IsTextSymbol, Line, Sym
<1>. QED  BY <1>2 DEF TPiece

\* Nothing is parsed before the first line.
LEMMA ParsedZero ==
    ASSUME NEW ls
    PROVE  Parsed(ls, 0) = << >>
<1>1. [k \in 1..0 |-> TPiece(ls, k)] = << >>
  OBVIOUS
<1>. QED  BY <1>1 DEF Parsed, FlattenSeq

\* Reading line n + 1 adds what it gives.
LEMMA ParsedStep ==
    ASSUME NEW ls \in Seq(Line), NEW n \in 0..(Len(ls) - 1)
    PROVE  /\ Parsed(ls, n + 1) = Parsed(ls, n) \o TPiece(ls, n + 1)
           /\ Parsed(ls, n) \in Seq(Sym)
<1>. DEFINE P(m) == [k \in 1..m |-> TPiece(ls, k)]
<1>1. n \in Nat
  OBVIOUS
<1>2. P(n) \in Seq(Seq(Sym)) /\ TPiece(ls, n + 1) \in Seq(Sym)
  <2>1. \A k \in 1..n : TPiece(ls, k) \in Seq(Sym)
    BY TPieceType
  <2>2. TPiece(ls, n + 1) \in Seq(Sym)
    BY TPieceType
  <2>. QED  BY <1>1, <2>1, <2>2
<1>3. P(n + 1) = Append(P(n), TPiece(ls, n + 1))
  BY <1>1
<1>. HIDE DEF P
<1>4. FlattenSeq(Append(P(n), TPiece(ls, n + 1))) = FlattenSeq(P(n)) \o TPiece(ls, n + 1)
  BY <1>2, FlattenSeqAppend
<1>5. FlattenSeq(P(n)) \in Seq(Sym)
  BY <1>2, FlattenSeqType
<1>. QED  BY <1>3, <1>4, <1>5 DEF Parsed, P

\* After the last line, the loop has parsed exactly the text symbols.
LEMMA ParsedAll ==
    ASSUME NEW ls \in Seq(Line)
    PROVE  /\ Parsed(ls, Len(ls)) = TextSymbols(ls)
           /\ TextSymbols(ls) \in Seq(Sym)
<1>1. Parsed(ls, Len(ls)) = TextSymbols(ls)
  BY DEF Parsed, TPiece, TextSymbols
<1>2. [k \in 1..Len(ls) |-> TPiece(ls, k)] \in Seq(Seq(Sym))
  BY TPieceType
<1>3. Parsed(ls, Len(ls)) \in Seq(Sym)
  BY <1>2, FlattenSeqType DEF Parsed
<1>. QED  BY <1>1, <1>3

-----------------------------------------------------------------------------
(* TableInv is inductive, given IInv.                                      *)

LEMMA TableInit == Init => TableInv
  BY DEF Init, TableInv

\* The argv check and nm move on with nothing parsed, or die with rc 1.
LEMMA TableArgvNm ==
    ASSUME IInv, TableInv, ArgvCheck \/ RunNm
    PROVE  TableInv'
<1>1. /\ phase \in {"argv", "nm"} /\ idx = 1 /\ syms = << >>
      /\ UNCHANGED <<input, idx, syms, blob, offs, addrs, out>>
  BY DEF IInv, BuildInv, TableInv, ArgvCheck, RunNm
<1>2. \/ phase' = "nm"
      \/ phase' = "parse"
      \/ phase' = "done" /\ rc' = 1
  BY DEF ArgvCheck, RunNm, Die
<1>3. Parsed(input.lines, 0) = << >> /\ Len(input.lines) \in Nat
  BY ParsedZero, GenKsymsAssumption DEF IInv, TypeOK
<1>. QED  BY <1>1, <1>2, <1>3 DEF TableInv

\* A line of nm's output: the code's tests are IsTextSymbol.
LEMMA ParseTest ==
    ASSUME NEW l \in Line
    PROVE  (/\ l.ntok = 3
            /\ l.typ \in {"T", "t", "W", "w"}
            /\ l.addr \in Nat
            /\ ~(Len(l.name) > 0 /\ l.name[1] = 36)) = IsTextSymbol(l)
<1>1. l.name \in Seq(Nat \ {0})
  BY DEF Line
<1>2. (l.name = << >>) = (Len(l.name) = 0) /\ Len(l.name) \in Nat
  BY <1>1
<1>. QED  BY <1>2 DEF IsTextSymbol

\* One line read: syms grows by what the line gives.
LEMMA TableParse ==
    ASSUME IInv, TableInv, ParseLine
    PROVE  TableInv'
<1>. DEFINE ls == input.lines
            l  == ls[idx]
<1>1. /\ phase = "parse" /\ phase' = "parse" /\ idx' = idx + 1
      /\ idx <= Len(ls) /\ idx >= 1 /\ input' = input
  BY DEF ParseLine, IInv, BuildInv
<1>2. ls \in Seq(Line) /\ l \in Line
  BY <1>1, LineAt, GenKsymsAssumption DEF IInv, TypeOK
<1>3. syms = Parsed(ls, idx - 1)
  BY <1>1 DEF TableInv
<1>4. /\ Parsed(ls, idx) = Parsed(ls, idx - 1) \o TPiece(ls, idx)
      /\ Parsed(ls, idx - 1) \in Seq(Sym)
  <2>1. idx - 1 \in 0..(Len(ls) - 1) /\ idx - 1 + 1 = idx
    BY <1>1 DEF IInv, TypeOK
  <2>. QED  BY <1>2, <2>1, ParsedStep
<1>5. syms' = Parsed(ls, idx)
  <2>1. CASE IsTextSymbol(l)
    <3>1. syms' = Append(syms, [addr |-> l.addr, name |-> l.name])
      BY <1>2, <2>1, ParseTest DEF ParseLine
    <3>2. TPiece(ls, idx) = << [addr |-> l.addr, name |-> l.name] >>
      BY <2>1 DEF TPiece
    <3>. QED  BY <1>3, <1>4, <3>1, <3>2, AppendIsConcat
  <2>2. CASE ~IsTextSymbol(l)
    <3>1. syms' = syms
      BY <1>2, <2>2, ParseTest DEF ParseLine
    <3>2. TPiece(ls, idx) = << >>
      BY <2>2 DEF TPiece
    <3>. QED  BY <1>3, <1>4, <3>1, <3>2
  <2>. QED  BY <2>1, <2>2
<1>6. idx' - 1 <= Len(input'.lines)
  BY <1>1 DEF IInv, TypeOK
<1>7. syms' = Parsed(input'.lines, idx' - 1)
  <2>1. idx' - 1 = idx
    BY <1>1 DEF IInv, TypeOK
  <2>. QED  BY <1>1, <1>5, <2>1
<1>. QED  BY <1>1, <1>6, <1>7 DEF TableInv

\* After the last line, the sort leaves syms the sorted text symbols.
LEMMA TableSort ==
    ASSUME IInv, TableInv, SortSyms
    PROVE  TableInv'
<1>. DEFINE ls == input.lines
<1>1. /\ phase = "parse" /\ phase' = "build" /\ idx > Len(ls)
      /\ syms' = SortByAddr(syms) /\ input' = input
  BY DEF SortSyms
<1>2. ls \in Seq(Line)
  BY GenKsymsAssumption DEF IInv, TypeOK
<1>3. idx - 1 = Len(ls)
  BY <1>1 DEF TableInv, IInv, TypeOK
<1>4. syms = TextSymbols(ls)
  BY <1>1, <1>2, <1>3, ParsedAll DEF TableInv
<1>. QED  BY <1>1, <1>4 DEF TableInv

\* Appending a name changes neither syms nor the phase.
LEMMA TableAddName ==
    ASSUME TableInv, AddName
    PROVE  TableInv'
  BY DEF AddName, TableInv

\* The file written is the table built; the loop has covered all of syms.
LEMMA TableWrite ==
    ASSUME IInv, TableInv, WriteFile
    PROVE  TableInv'
<1>1. /\ phase = "build" /\ phase' = "done" /\ idx > Len(syms)
      /\ out' = FileOf(addrs, offs, blob)
      /\ UNCHANGED <<input, rc, idx, syms, blob, offs, addrs>>
  BY DEF WriteFile
<1>2. idx - 1 <= Len(syms) /\ idx \in Nat /\ Len(syms) \in Nat
  BY <1>1 DEF IInv, BuildInv, TypeOK
<1>3. idx' = Len(syms') + 1
  BY <1>1, <1>2
<1>. QED  BY <1>1, <1>3 DEF TableInv

LEMMA TInvNext == TInv /\ [Next]_vars => TInv'
<1>. SUFFICES ASSUME TInv, [Next]_vars PROVE TInv'
  OBVIOUS
<1>1. IInv /\ IInv'
  BY IInvNext DEF TInv
<1>2. TableInv'
  <2>1. CASE ArgvCheck \/ RunNm
    BY <2>1, TableArgvNm DEF TInv
  <2>2. CASE ParseLine
    BY <2>2, TableParse DEF TInv
  <2>3. CASE SortSyms
    BY <2>3, TableSort DEF TInv
  <2>4. CASE AddName
    BY <2>4, TableAddName DEF TInv
  <2>5. CASE WriteFile
    BY <2>5, TableWrite DEF TInv
  <2>6. CASE UNCHANGED vars
    BY <2>6 DEF TInv, TableInv, vars
  <2>. QED  BY <2>1, <2>2, <2>3, <2>4, <2>5, <2>6 DEF Next
<1>. QED  BY <1>1, <1>2 DEF TInv

LEMMA TInvInvariant == Spec => []TInv
<1>1. Init => TInv
  BY IInvInit, TableInit DEF TInv
<1>. QED  BY <1>1, TInvNext, PTL DEF Spec

-----------------------------------------------------------------------------
(* Names hold no NUL, so a reader of __ksym_names stops at the right one.  *)

\* A symbol whose name holds no NUL character.
NulFreeSym == [addr : Nat, name : Seq(Nat \ {0})]

\* The text symbols of nm's output have NUL-free names.
LEMMA TextSymbolsNulFree ==
    ASSUME NEW ls \in Seq(Line)
    PROVE  TextSymbols(ls) \in Seq(NulFreeSym)
<1>1. \A k \in 1..Len(ls) : TPiece(ls, k) \in Seq(NulFreeSym)
  <2>. TAKE k \in 1..Len(ls)
  <2>1. ls[k] \in Line
    BY ElementOfSeq
  <2>2. IsTextSymbol(ls[k]) => [addr |-> ls[k].addr, name |-> ls[k].name] \in NulFreeSym
    BY <2>1 DEF IsTextSymbol, Line, NulFreeSym
  <2>. QED  BY <2>2 DEF TPiece
<1>2. [k \in 1..Len(ls) |-> TPiece(ls, k)] \in Seq(Seq(NulFreeSym))
  BY <1>1
<1>3. Parsed(ls, Len(ls)) \in Seq(NulFreeSym)
  BY <1>2, FlattenSeqType DEF Parsed
<1>. QED  BY <1>3, ParsedAll

\* backslashreplace never writes a NUL for a character that is not NUL.
LEMMA AsciiCharNoNul ==
    ASSUME NEW c \in Nat \ {0}
    PROVE  AsciiChar(c) \in Seq(1..127)
<1>1. CASE c < 128
  <2>1. AsciiChar(c) = << c >>
    BY <1>1 DEF AsciiChar
  <2>. QED  BY <1>1, <2>1
<1>2. CASE 128 <= c /\ c < 256
  <2>1. AsciiChar(c) = << 92, 120 >> \o Hex(c, 2)
    BY <1>2 DEF AsciiChar
  <2>. QED  BY <2>1, HexType
<1>3. CASE 256 <= c /\ c < 65536
  <2>1. AsciiChar(c) = << 92, 117 >> \o Hex(c, 4)
    BY <1>3 DEF AsciiChar
  <2>. QED  BY <2>1, HexType
<1>4. CASE 65536 <= c
  <2>1. AsciiChar(c) = << 92, 85 >> \o Hex(c, 8)
    BY <1>4 DEF AsciiChar
  <2>. QED  BY <2>1, HexType
<1>. QED  BY <1>1, <1>2, <1>3, <1>4

LEMMA EncodeNameNoNul ==
    ASSUME NEW n \in Seq(Nat \ {0})
    PROVE  EncodeName(n) \in Seq(1..127)
<1>1. [k \in 1..Len(n) |-> AsciiChar(n[k])] \in Seq(Seq(1..127))
  BY AsciiCharNoNul
<1>. QED  BY <1>1, FlattenSeqType DEF EncodeName

\* An entry whose name holds no NUL reads back as that name: its NUL is the
\* first one after the offset.
LEMMA NameAtEntry ==
    ASSUME NEW b \in Seq(0..127), NEW o \in Nat, NEW e \in Seq(1..127), Entry(b, o, e)
    PROVE  NameAt(b, o) = e
<1>. DEFINE E    == o + Len(e) + 1
            ends == {x \in (o + 1)..Len(b) : b[x] = 0}
<1>1. E \in ends
  BY DEF Entry
<1>2. \A x \in ends : E <= x
  <2>. SUFFICES ASSUME NEW x \in ends, x < E PROVE FALSE
    OBVIOUS
  <2>1. x - o \in 1..Len(e) /\ x \in 1..Len(b)
    OBVIOUS
  <2>2. SubSeq(b, o + 1, o + Len(e))[x - o] = b[o + 1 + (x - o) - 1]
    BY <2>1
  <2>3. e[x - o] = b[x]
    BY <2>1, <2>2 DEF Entry
  <2>4. e[x - o] \in 1..127
    BY <2>1, ElementOfSeq
  <2>5. b[x] = 0
    BY Zenon
  <2>. QED  BY <2>3, <2>4, <2>5
<1>3. (CHOOSE m \in ends : \A y \in ends : m <= y) = E
  <2>1. \E m \in ends : \A y \in ends : m <= y
    BY <1>1, <1>2
  <2>2. \A m \in ends : (\A y \in ends : m <= y) => m = E
    BY <1>1, <1>2
  <2>. QED  BY <2>1, <2>2
<1>4. ends # {}
  BY <1>1
<1>5. NameAt(b, o) = SubSeq(b, o + 1, E - 1)
  BY <1>3, <1>4, Zenon DEF NameAt
<1>. QED  BY <1>5 DEF Entry

-----------------------------------------------------------------------------
(* The order SortByAddr gives.                                             *)

\* Position k of the sorted list holds the symbol of rank k - 1.
LEMMA PickFacts ==
    ASSUME NEW s \in Seq(Sym), NEW k \in 1..Len(s)
    PROVE  Pick(s, k) \in 1..Len(s) /\ Rank(s, Pick(s, k)) = k - 1
<1>1. \E i \in 1..Len(s) : Rank(s, i) = k - 1
  BY RankOnto
<1>. QED  BY <1>1 DEF Pick

\* The sorted list is in ascending order of address, and symbols at one
\* address keep their order: list.sort is stable.
LEMMA PickOrder ==
    ASSUME NEW s \in Seq(Sym), NEW k \in 1..Len(s), NEW j \in 1..Len(s), k < j
    PROVE  /\ s[Pick(s, k)].addr <= s[Pick(s, j)].addr
           /\ s[Pick(s, k)].addr = s[Pick(s, j)].addr => Pick(s, k) < Pick(s, j)
<1>. DEFINE a == Pick(s, k)
            b == Pick(s, j)
<1>1. a \in 1..Len(s) /\ b \in 1..Len(s) /\ Rank(s, a) = k - 1 /\ Rank(s, b) = j - 1
  BY PickFacts
<1>2. b \notin Before(s, a)
  BY <1>1, RankMonotone
<1>3. a # b
  BY <1>1
<1>4. s[a] \in Sym /\ s[b] \in Sym
  BY <1>1, ElementOfSeq
<1>5. ~(s[b].addr < s[a].addr) /\ ~(s[b].addr = s[a].addr /\ b < a)
  BY <1>1, <1>2 DEF Before
<1>6. s[a].addr \in Nat /\ s[b].addr \in Nat
  BY <1>4 DEF Sym
<1>. QED  BY <1>1, <1>3, <1>5, <1>6

-----------------------------------------------------------------------------
(* KsymTable.                                                              *)

\* TInv gives KsymTable: the file written holds the sorted text symbols.
LEMMA TableDone == TInv => KsymTable
<1>. DEFINE ts == TextSymbols(input.lines)
            n  == Len(ts)
            p  == [k \in 1..n |-> Pick(ts, k)]
<1>. SUFFICES ASSUME TInv, phase = "done", rc = 0
              PROVE  /\ out = FileOf(addrs, offs, blob)
                     /\ n = out.count /\ n = Len(out.offs)
                     /\ IsSorted(out.addrs, LAMBDA a, b : a <= b)
                     /\ \E q \in [1..n -> 1..n] :
                           /\ IsInjective(q)
                           /\ \A k \in 1..n :
                                 /\ out.addrs[k] = ts[q[k]].addr
                                 /\ NameAt(blob, out.offs[k]) = EncodeName(ts[q[k]].name)
                           /\ \A k, j \in 1..n :
                                 k < j /\ out.addrs[k] = out.addrs[j] => q[k] < q[j]
  BY DEF KsymTable
<1>1. input.lines \in Seq(Line) /\ TypeOK /\ BuildInv /\ OffsetsIndexNames
  BY GenKsymsAssumption DEF TInv, IInv, TypeOK
<1>2. ts \in Seq(NulFreeSym) /\ ts \in Seq(Sym) /\ n \in Nat
  BY <1>1, TextSymbolsNulFree, ParsedAll
<1>3. syms = SortByAddr(ts) /\ idx = Len(syms) + 1 /\ out = FileOf(addrs, offs, blob)
  BY DEF TInv, TableInv
<1>4. Len(syms) = n /\ \A k \in 1..n : syms[k] = ts[Pick(ts, k)]
  BY <1>2, <1>3, SortByAddrType DEF SortByAddr, Pick
<1>5. Len(offs) = n /\ Len(addrs) = n
  BY <1>1, <1>3, <1>4 DEF BuildInv, OffsetsIndexNames
<1>6. Indexed(addrs, offs, syms, blob)
  BY <1>1, IndexedDef
<1>7. blob \in Seq(0..127) /\ offs \in Seq(Nat)
  BY <1>1 DEF TypeOK
<1>8. out.count = n /\ Len(out.offs) = n /\ out.addrs = addrs /\ out.offs = offs
  BY <1>3, <1>5 DEF FileOf
<1>9. \A k \in 1..n : Pick(ts, k) \in 1..n /\ Rank(ts, Pick(ts, k)) = k - 1
  BY <1>2, PickFacts
<1>10. \A k \in 1..n : addrs[k] = ts[Pick(ts, k)].addr
  BY <1>4, <1>5, <1>6 DEF Indexed
<1>11. \A k \in 1..n : NameAt(blob, offs[k]) = EncodeName(ts[Pick(ts, k)].name)
  <2>. TAKE k \in 1..n
  <2>1. ts[Pick(ts, k)] \in NulFreeSym
    BY <1>2, <1>9, ElementOfSeq
  <2>2. EncodeName(ts[Pick(ts, k)].name) \in Seq(1..127)
    BY <2>1, EncodeNameNoNul DEF NulFreeSym
  <2>3. Entry(blob, offs[k], EncodeName(ts[Pick(ts, k)].name))
    BY <1>4, <1>5, <1>6 DEF Indexed
  <2>4. offs[k] \in Nat
    BY <1>5, <1>7, ElementOfSeq
  <2>. QED  BY <1>7, <2>2, <2>3, <2>4, NameAtEntry
<1>12. IsSorted(out.addrs, LAMBDA a, b : a <= b)
  <2>1. \A k, j \in 1..n : k < j => addrs[k] <= addrs[j]
    BY <1>2, <1>10, PickOrder
  <2>. QED  BY <1>5, <1>8, <2>1 DEF IsSorted
<1>13. p \in [1..n -> 1..n] /\ IsInjective(p)
  BY <1>9 DEF IsInjective
<1>14. \A k, j \in 1..n : k < j /\ addrs[k] = addrs[j] => p[k] < p[j]
  BY <1>2, <1>10, PickOrder
<1>15. \A k \in 1..n :
          /\ out.addrs[k] = ts[p[k]].addr
          /\ NameAt(blob, out.offs[k]) = EncodeName(ts[p[k]].name)
  BY <1>8, <1>10, <1>11
<1>16. \A k, j \in 1..n : k < j /\ out.addrs[k] = out.addrs[j] => p[k] < p[j]
  BY <1>8, <1>14
<1>. HIDE DEF p
<1>. QED  BY <1>3, <1>8, <1>12, <1>13, <1>15, <1>16, Zenon

\* KsymTable for every nm output: when gen_ksyms.py returns 0, the C file
\* it wrote has one entry per text symbol of nm's output, the addresses in
\* ascending order with the symbols at one address in nm's order (the sort
\* at line 58 is stable), and the name at each entry's offset in
\* __ksym_names is that symbol's name encoded with backslashreplace.
THEOREM SortedTable == Spec => []KsymTable
  BY TInvInvariant, TableDone, PTL

=============================================================================
