---------------------------- MODULE GenKsyms_proofs ----------------------------
(***************************************************************************)
(* Proofs about GenKsyms for every nm output: the script's variables keep *)
(* their types, and while the table is built every offset indexes the     *)
(* encoded name of its symbol in the blob.                                 *)
(*                                                                         *)
(* The encodings are FlattenSeq of per-character pieces (typed by        *)
(* SeqFlattenLemmas).  The stable sort is typed by showing that the ranks *)
(* are a bijection onto 0..Len(s)-1 (pigeonhole on finite sets).          *)
(***************************************************************************)
EXTENDS GenKsyms, SeqFlattenLemmas, FiniteSetTheorems, SequenceTheorems, TLAPS

-----------------------------------------------------------------------------
(* The encodings produce ASCII.                                            *)

\* Hex(v, w) for the widths the script uses is w lowercase hex digits:
\* ASCII, and never NUL.
LEMMA HexType ==
    ASSUME NEW v \in Int, NEW w \in {2, 4, 8}
    PROVE  Hex(v, w) \in Seq(0..127) /\ Len(Hex(v, w)) = w /\ Hex(v, w) \in Seq(1..127)
<1>1. \A k \in 1..w : 16 ^ (w - k) \in Nat \ {0}
  <2> SUFFICES ASSUME NEW k \in 1..w PROVE 16 ^ (w - k) \in Nat \ {0}
    OBVIOUS
  <2>1. w - k \in 0..7
    OBVIOUS
  <2>. QED
    <3>1. CASE w - k = 0
      <4>1. 16 ^ 0 = 1
        OBVIOUS
      <4>. QED  BY <3>1, <4>1
    <3>2. CASE w - k = 1
      <4>1. 16 ^ 1 = 16
        OBVIOUS
      <4>. QED  BY <3>2, <4>1
    <3>3. CASE w - k = 2
      <4>1. 16 ^ 2 = 256
        OBVIOUS
      <4>. QED  BY <3>3, <4>1
    <3>4. CASE w - k = 3
      <4>1. 16 ^ 3 = 4096
        OBVIOUS
      <4>. QED  BY <3>4, <4>1
    <3>5. CASE w - k = 4
      <4>1. 16 ^ 4 = 65536
        OBVIOUS
      <4>. QED  BY <3>5, <4>1
    <3>6. CASE w - k = 5
      <4>1. 16 ^ 5 = 1048576
        OBVIOUS
      <4>. QED  BY <3>6, <4>1
    <3>7. CASE w - k = 6
      <4>1. 16 ^ 6 = 16777216
        OBVIOUS
      <4>. QED  BY <3>7, <4>1
    <3>8. CASE w - k = 7
      <4>1. 16 ^ 7 = 268435456
        OBVIOUS
      <4>. QED  BY <3>8, <4>1
    <3>. QED  BY <2>1, <3>1, <3>2, <3>3, <3>4, <3>5, <3>6, <3>7, <3>8
<1>2. \A k \in 1..w : (v \div 16 ^ (w - k)) % 16 \in 0..15
  BY <1>1
<1>3. \A d \in 0..15 : HexChar(d) \in 1..127
  BY DEF HexChar
<1>4. Hex(v, w) \in Seq(1..127) /\ Len(Hex(v, w)) = w
  BY <1>2, <1>3 DEF Hex
<1>5. Seq(1..127) \subseteq Seq(0..127)
  OBVIOUS
<1>. QED  BY <1>4, <1>5

\* str.encode("ascii", "backslashreplace") of one character is ASCII.
LEMMA AsciiCharType ==
    ASSUME NEW c \in Nat
    PROVE  AsciiChar(c) \in Seq(0..127)
<1>1. CASE c < 128
  <2>1. AsciiChar(c) = << c >>
    BY <1>1 DEF AsciiChar
  <2>2. << c >> \in Seq(0..127)
    BY <1>1
  <2>. QED  BY <2>1, <2>2
<1>2. CASE 128 <= c /\ c < 256
  <2>1. AsciiChar(c) = << 92, 120 >> \o Hex(c, 2)
    BY <1>2 DEF AsciiChar
  <2>. QED  BY <2>1, HexType
<1>3. CASE 256 <= c /\ c < 65536
  <2>1. AsciiChar(c) = << 92, 117 >> \o Hex(c, 4)
    BY <1>3 DEF AsciiChar
  <2>. QED  BY <2>1, HexType
<1>4. CASE 65536 <= c
  <2>1. AsciiChar(c) = << 92, 85 >> \o Hex(c, 8)
    BY <1>4 DEF AsciiChar
  <2>. QED  BY <2>1, HexType
<1>. QED  BY <1>1, <1>2, <1>3, <1>4

\* The encoded name is ASCII.
LEMMA EncodeNameType ==
    ASSUME NEW n \in Seq(Nat)
    PROVE  EncodeName(n) \in Seq(0..127)
<1>1. [k \in 1..Len(n) |-> AsciiChar(n[k])] \in Seq(Seq(0..127))
  BY AsciiCharType
<1>. QED  BY <1>1, FlattenSeqType DEF EncodeName

\* c_escape_bytes writes one of \0, the byte itself or \xNN for each byte.
LEMMA EscapeByteType ==
    ASSUME NEW b \in 0..127
    PROVE  EscapeByte(b) \in Seq(0..127)
<1>1. CASE b = 0
  BY <1>1 DEF EscapeByte
<1>2. CASE b # 0 /\ 32 <= b /\ b <= 126 /\ b \notin {34, 92}
  BY <1>2 DEF EscapeByte
<1>3. CASE b # 0 /\ ~(32 <= b /\ b <= 126 /\ b \notin {34, 92})
  <2>1. EscapeByte(b) = << 92, 120 >> \o Hex(b, 2)
    BY <1>3 DEF EscapeByte
  <2>. QED  BY <2>1, HexType
<1>. QED  BY <1>1, <1>2, <1>3

LEMMA CEscapeType ==
    ASSUME NEW bs \in Seq(0..127)
    PROVE  c_escape_bytes(bs) \in Seq(0..127)
<1>1. [k \in 1..Len(bs) |-> EscapeByte(bs[k])] \in Seq(Seq(0..127))
  <2>1. \A k \in 1..Len(bs) : EscapeByte(bs[k]) \in Seq(0..127)
    <3>1. \A k \in 1..Len(bs) : bs[k] \in 0..127
      BY ElementOfSeq
    <3>. QED  BY <3>1, EscapeByteType
  <2>. QED  BY <2>1
<1>2. FlattenSeq([k \in 1..Len(bs) |-> EscapeByte(bs[k])]) \in Seq(0..127)
  BY <1>1, FlattenSeqType
<1>. QED  BY <1>2 DEF c_escape_bytes

-----------------------------------------------------------------------------
(* The stable sort.  Rank(s, i) counts the symbols that sort before s[i]:  *)
(* lower addresses, and earlier ones at the same address.  These ranks are *)
(* a bijection from 1..Len(s) onto 0..Len(s)-1, so every CHOOSE in         *)
(* SortByAddr has a witness.                                               *)

Before(s, i) == {j \in 1..Len(s) : \/ s[j].addr < s[i].addr
                                   \/ s[j].addr = s[i].addr /\ j < i}

\* The index sets of a sequence and of its ranks have Len(s) elements.
LEMMA IntervalCard ==
    ASSUME NEW n \in Nat
    PROVE  /\ IsFiniteSet(1..n) /\ Cardinality(1..n) = n
           /\ IsFiniteSet(0..n - 1) /\ Cardinality(0..n - 1) = n
<1>1. IsFiniteSet(1..n) /\ Cardinality(1..n) = IF 1 > n THEN 0 ELSE n - 1 + 1
  BY FS_Interval
<1>2. IsFiniteSet(0..n - 1) /\ Cardinality(0..n - 1) = IF 0 > n - 1 THEN 0 ELSE n - 1 - 0 + 1
  BY FS_Interval
<1>. QED  BY <1>1, <1>2

\* Rank is the size of a finite subset of the other indices.
LEMMA RankBound ==
    ASSUME NEW s \in Seq(Sym), NEW i \in 1..Len(s)
    PROVE  /\ IsFiniteSet(Before(s, i))
           /\ Rank(s, i) = Cardinality(Before(s, i))
           /\ Rank(s, i) \in 0..Len(s) - 1
<1>1. s[i] \in Sym
  BY ElementOfSeq
<1>2. Before(s, i) \subseteq (1..Len(s)) \ {i}
  BY <1>1 DEF Before, Sym
<1>3. IsFiniteSet(1..Len(s)) /\ Cardinality(1..Len(s)) = Len(s)
  BY IntervalCard
<1>4. IsFiniteSet((1..Len(s)) \ {i}) /\ Cardinality((1..Len(s)) \ {i}) = Len(s) - 1
  BY <1>3, FS_RemoveElement
<1>5. IsFiniteSet(Before(s, i)) /\ Cardinality(Before(s, i)) <= Len(s) - 1
  BY <1>2, <1>4, FS_Subset
<1>6. Cardinality(Before(s, i)) \in Nat
  BY <1>5, FS_CardinalityType
<1>7. Rank(s, i) = Cardinality(Before(s, i))
  BY DEF Rank, Before
<1>. QED  BY <1>5, <1>6, <1>7

\* A symbol that sorts before another has a smaller rank.
LEMMA RankMonotone ==
    ASSUME NEW s \in Seq(Sym), NEW a \in 1..Len(s), NEW b \in 1..Len(s),
           a \in Before(s, b)
    PROVE  Rank(s, a) < Rank(s, b)
<1>1. s[a] \in Sym /\ s[b] \in Sym
  BY ElementOfSeq
<1>2. Before(s, a) \subseteq Before(s, b)
  <2>. SUFFICES ASSUME NEW j \in Before(s, a) PROVE j \in Before(s, b)
    OBVIOUS
  <2>1. j \in 1..Len(s)
    BY DEF Before
  <2>2. s[j] \in Sym
    BY <2>1, ElementOfSeq
  <2>. QED  BY <1>1, <2>1, <2>2 DEF Before, Sym
<1>3. a \in Before(s, b) \ Before(s, a)
  BY <1>1 DEF Before, Sym
<1>4. /\ IsFiniteSet(Before(s, a)) /\ Rank(s, a) = Cardinality(Before(s, a))
      /\ IsFiniteSet(Before(s, b)) /\ Rank(s, b) = Cardinality(Before(s, b))
      /\ Rank(s, a) \in Nat /\ Rank(s, b) \in Nat
  BY RankBound
<1>5. Cardinality(Before(s, a)) <= Cardinality(Before(s, b))
  /\ (Cardinality(Before(s, b)) = Cardinality(Before(s, a)) => Before(s, b) = Before(s, a))
  BY <1>2, <1>4, FS_Subset
<1>. QED  BY <1>3, <1>4, <1>5

\* Distinct symbols have distinct ranks: the order is total.
LEMMA RankInjective ==
    ASSUME NEW s \in Seq(Sym), NEW a \in 1..Len(s), NEW b \in 1..Len(s), a # b
    PROVE  Rank(s, a) # Rank(s, b)
<1>1. s[a] \in Sym /\ s[b] \in Sym
  BY ElementOfSeq
<1>2. a \in Before(s, b) \/ b \in Before(s, a)
  BY <1>1 DEF Before, Sym
<1>3. Rank(s, a) \in Nat /\ Rank(s, b) \in Nat
  BY RankBound
<1>. QED  BY <1>2, <1>3, RankMonotone

\* Every rank below Len(s) is taken: pigeonhole on 1..Len(s).
LEMMA RankOnto ==
    ASSUME NEW s \in Seq(Sym), NEW k \in 0..Len(s) - 1
    PROVE  \E i \in 1..Len(s) : Rank(s, i) = k
<1>. DEFINE n == Len(s)
            f == [i \in 1..n |-> Rank(s, i)]
<1>. SUFFICES ASSUME \A i \in 1..n : Rank(s, i) # k
              PROVE  FALSE
  OBVIOUS
<1>1. f \in [1..n -> (0..n - 1) \ {k}]
  BY RankBound
<1>2. IsFiniteSet(1..n) /\ Cardinality(1..n) = n
  BY IntervalCard
<1>3. IsFiniteSet(0..n - 1) /\ Cardinality(0..n - 1) = n
  BY IntervalCard
<1>4. IsFiniteSet((0..n - 1) \ {k}) /\ Cardinality((0..n - 1) \ {k}) = n - 1
  BY <1>3, FS_RemoveElement
<1>5. Cardinality((0..n - 1) \ {k}) < Cardinality(1..n)
  BY <1>2, <1>4
<1>. HIDE DEF f
<1>6. \E x, y \in 1..n : x # y /\ f[x] = f[y]
  BY <1>1, <1>2, <1>4, <1>5, FS_PigeonHole
<1>. QED  BY <1>6, RankInjective DEF f

\* The index SortByAddr puts at position k.
Pick(s, k) == CHOOSE i \in 1..Len(s) : Rank(s, i) = k - 1

\* syms.sort keeps a list of symbols a list of symbols of the same length.
LEMMA SortByAddrType ==
    ASSUME NEW s \in Seq(Sym)
    PROVE  /\ SortByAddr(s) \in Seq(Sym)
           /\ Len(SortByAddr(s)) = Len(s)
<1>1. \A k \in 1..Len(s) : Pick(s, k) \in 1..Len(s)
  <2>. TAKE k \in 1..Len(s)
  <2>1. \E i \in 1..Len(s) : Rank(s, i) = k - 1
    BY RankOnto
  <2>. QED  BY <2>1 DEF Pick
<1>2. \A k \in 1..Len(s) : s[Pick(s, k)] \in Sym
  BY <1>1, ElementOfSeq
<1>3. SortByAddr(s) = [k \in 1..Len(s) |-> s[Pick(s, k)]]
  BY DEF SortByAddr, Pick
<1>. QED  BY <1>2, <1>3

-----------------------------------------------------------------------------
(* The blob.  An entry of __ksym_names at offset o is the encoded name e   *)
(* followed by its NUL.                                                    *)

Entry(b, o, e) ==
    /\ o + Len(e) + 1 <= Len(b)
    /\ SubSeq(b, o + 1, o + Len(e)) = e
    /\ b[o + Len(e) + 1] = 0

\* names_blob.extend only appends: the entries already written stay.
LEMMA EntryExtend ==
    ASSUME NEW b \in Seq(0..127), NEW t \in Seq(0..127), NEW o \in Nat,
           NEW e \in Seq(0..127), Entry(b, o, e)
    PROVE  Entry(b \o t, o, e)
<1>1. /\ Len(b \o t) = Len(b) + Len(t)
      /\ \A i \in 1..Len(b) + Len(t) : (b \o t)[i] = IF i <= Len(b) THEN b[i] ELSE t[i - Len(b)]
  BY ConcatProperties
<1>2. o + Len(e) + 1 <= Len(b)
  BY DEF Entry
<1>3. SubSeq(b \o t, o + 1, o + Len(e)) = SubSeq(b, o + 1, o + Len(e))
  BY <1>1, <1>2
<1>4. (b \o t)[o + Len(e) + 1] = b[o + Len(e) + 1]
  BY <1>1, <1>2
<1>. QED  BY <1>1, <1>2, <1>3, <1>4 DEF Entry

\* The name appended with its NUL is an entry at the old length of the blob.
LEMMA EntryNew ==
    ASSUME NEW b \in Seq(0..127), NEW e \in Seq(0..127)
    PROVE  Entry(b \o e \o << 0 >>, Len(b), e)
<1>. DEFINE be == b \o e
<1>1. /\ be \in Seq(0..127)
      /\ Len(be) = Len(b) + Len(e)
      /\ \A i \in 1..Len(b) + Len(e) : be[i] = IF i <= Len(b) THEN b[i] ELSE e[i - Len(b)]
  BY ConcatProperties
<1>2. /\ Len(be \o << 0 >>) = Len(be) + 1
      /\ \A i \in 1..Len(be) + 1 : (be \o << 0 >>)[i] = IF i <= Len(be) THEN be[i] ELSE 0
  <2>1. << 0 >> \in Seq(0..127) /\ Len(<< 0 >>) = 1 /\ << 0 >>[1] = 0
    OBVIOUS
  <2>. QED  BY <1>1, <2>1, ConcatProperties
<1>3. SubSeq(be \o << 0 >>, Len(b) + 1, Len(b) + Len(e)) = e
  BY <1>1, <1>2
<1>. QED  BY <1>1, <1>2, <1>3 DEF Entry

-----------------------------------------------------------------------------
(* The inductive invariant.  OffsetsIndexNames alone is not inductive: an  *)
(* AddName step must know that idx is the next entry to fill (offs has     *)
(* idx - 1 entries) and that nothing was appended before the sort, which   *)
(* reorders syms.                                                          *)

BuildInv ==
    /\ idx >= 1
    /\ phase \in {"argv", "nm"} => idx = 1
    /\ phase \in {"argv", "nm", "parse"} => offs = << >> /\ addrs = << >>
    /\ phase \in {"build", "done"} => Len(offs) = idx - 1 /\ idx - 1 <= Len(syms)

IInv == TypeOK /\ BuildInv /\ OffsetsIndexNames


\* OffsetsIndexNames over explicit arguments, so that it can be primed.
Indexed(a, o, s, b) ==
    /\ Len(a) = Len(o)
    /\ \A k \in 1..Len(o) :
          /\ k <= Len(s)
          /\ a[k] = s[k].addr
          /\ Entry(b, o[k], EncodeName(s[k].name))

LEMMA IndexedDef ==
    /\ OffsetsIndexNames = Indexed(addrs, offs, syms, blob)
    /\ OffsetsIndexNames' = Indexed(addrs', offs', syms', blob')
  BY DEF OffsetsIndexNames, Indexed, Entry

LEMMA IInvInit == Init => IInv
<1>. SUFFICES ASSUME Init PROVE IInv
  OBVIOUS
<1>1. TypeOK
  BY GenKsymsAssumption DEF Init, TypeOK, Phases
<1>2. BuildInv
  BY DEF Init, BuildInv
<1>3. OffsetsIndexNames
  BY DEF Init, OffsetsIndexNames
<1>. QED  BY <1>1, <1>2, <1>3 DEF IInv

\* argv check and nm: only phase and rc change, and idx is still 1.
LEMMA IInvArgvNm ==
    ASSUME IInv, ArgvCheck \/ RunNm
    PROVE  IInv'
<1>1. /\ phase \in {"argv", "nm"} /\ idx = 1 /\ offs = << >> /\ addrs = << >>
      /\ phase' \in {"nm", "parse", "done"} /\ rc' \in {0, 1}
      /\ UNCHANGED <<input, idx, syms, blob, offs, addrs, out>>
  BY DEF IInv, BuildInv, ArgvCheck, RunNm, Die, TypeOK
<1>2. TypeOK'
  BY <1>1 DEF IInv, TypeOK, Phases
<1>3. BuildInv'
  BY <1>1 DEF IInv, TypeOK, BuildInv
<1>4. OffsetsIndexNames'
  BY <1>1 DEF IInv, OffsetsIndexNames
<1>. QED  BY <1>2, <1>3, <1>4 DEF IInv

\* A line of nm's output is a Line: the loop reads input.lines[idx].
LEMMA LineAt ==
    ASSUME TypeOK, idx >= 1, idx <= Len(input.lines)
    PROVE  input.lines[idx] \in Line
<1>1. input.lines \in Seq(Line)
  BY GenKsymsAssumption DEF TypeOK
<1>. QED  BY <1>1, ElementOfSeq DEF TypeOK

\* The parsing loop appends to syms before anything is indexed.
LEMMA IInvParse ==
    ASSUME IInv, ParseLine
    PROVE  IInv'
<1>. DEFINE l == input.lines[idx]
<1>1. l \in Line
  BY LineAt DEF IInv, BuildInv, ParseLine
<1>2. syms' \in Seq(Sym)
  <2>2. CASE /\ l.ntok = 3
             /\ l.typ \in {"T", "t", "W", "w"}
             /\ l.addr \in Nat
             /\ ~(Len(l.name) > 0 /\ l.name[1] = 36)
    <3>1. syms' = Append(syms, [addr |-> l.addr, name |-> l.name])
      BY <2>2 DEF ParseLine
    <3>2. [addr |-> l.addr, name |-> l.name] \in Sym
      BY <2>2, <1>1 DEF Line, Sym
    <3>. QED  BY <3>1, <3>2, AppendProperties DEF IInv, TypeOK
  <2>3. CASE ~(/\ l.ntok = 3
               /\ l.typ \in {"T", "t", "W", "w"}
               /\ l.addr \in Nat
               /\ ~(Len(l.name) > 0 /\ l.name[1] = 36))
    BY <2>3 DEF ParseLine, IInv, TypeOK
  <2>. QED  BY <2>2, <2>3
<1>3. /\ phase = "parse" /\ phase' = "parse" /\ idx' = idx + 1
      /\ offs = << >> /\ addrs = << >>
      /\ UNCHANGED <<input, rc, blob, offs, addrs, out>>
  BY DEF ParseLine, IInv, BuildInv
<1>4. TypeOK'
  BY <1>2, <1>3 DEF IInv, TypeOK
<1>5. BuildInv'
  BY <1>3 DEF IInv, BuildInv, TypeOK
<1>6. OffsetsIndexNames'
  BY <1>3 DEF OffsetsIndexNames
<1>. QED  BY <1>4, <1>5, <1>6 DEF IInv

\* The sort reorders syms while offs and addrs are still empty.
LEMMA IInvSort ==
    ASSUME IInv, SortSyms
    PROVE  IInv'
<1>1. /\ phase = "parse" /\ phase' = "build" /\ idx' = 1
      /\ offs = << >> /\ addrs = << >>
      /\ syms' = SortByAddr(syms)
      /\ UNCHANGED <<input, rc, blob, offs, addrs, out>>
  BY DEF SortSyms, IInv, BuildInv
<1>2. syms' \in Seq(Sym)
  BY <1>1, SortByAddrType DEF IInv, TypeOK
<1>3. TypeOK'
  BY <1>1, <1>2 DEF IInv, TypeOK, Phases
<1>4. BuildInv'
  BY <1>1, <1>2 DEF IInv, BuildInv
<1>5. OffsetsIndexNames'
  BY <1>1 DEF OffsetsIndexNames
<1>. QED  BY <1>3, <1>4, <1>5 DEF IInv

\* Writing the file changes only out and phase.
LEMMA IInvWrite ==
    ASSUME IInv, WriteFile
    PROVE  IInv'
<1>1. /\ phase = "build" /\ phase' = "done"
      /\ out' = FileOf(addrs, offs, blob)
      /\ UNCHANGED <<input, rc, idx, syms, blob, offs, addrs>>
  BY DEF WriteFile
<1>2. c_escape_bytes(blob) \in Seq(0..127)
  BY CEscapeType DEF IInv, TypeOK
<1>3. out' \in [count : Nat, addrs : Seq(Nat), offs : Seq(Nat), names : Seq(0..127)]
  BY <1>1, <1>2 DEF FileOf, IInv, TypeOK
<1>4. TypeOK'
  BY <1>1, <1>3 DEF IInv, TypeOK, Phases
<1>5. BuildInv'
  BY <1>1 DEF IInv, BuildInv
<1>6. OffsetsIndexNames'
  BY <1>1 DEF IInv, OffsetsIndexNames
<1>. QED  BY <1>4, <1>5, <1>6 DEF IInv

\* One iteration of gen_ksyms.py:63-66: the offset recorded is the length
\* of the blob before the name is added, so it indexes the new name, and
\* the older entries lie in the unchanged prefix of the blob.
LEMMA IInvAddName ==
    ASSUME IInv, AddName
    PROVE  IInv'
<1>. DEFINE e == EncodeName(syms[idx].name)
<1>1. /\ TypeOK /\ BuildInv /\ Indexed(addrs, offs, syms, blob)
      /\ phase = "build" /\ idx <= Len(syms) /\ Len(offs) = idx - 1 /\ idx >= 1
  BY IndexedDef DEF IInv, AddName, BuildInv
<1>2. syms[idx] \in Sym
  BY <1>1, ElementOfSeq DEF TypeOK
<1>3. e \in Seq(0..127)
  BY <1>2, EncodeNameType DEF Sym
<1>4. /\ blob \in Seq(0..127) /\ offs \in Seq(Nat) /\ addrs \in Seq(Nat)
      /\ syms \in Seq(Sym) /\ Len(blob) \in Nat
  BY <1>1 DEF TypeOK
<1>5. /\ blob \o e \in Seq(0..127)
      /\ blob' = (blob \o e) \o << 0 >>
      /\ blob' \in Seq(0..127)
  BY <1>3, <1>4, ConcatProperties DEF AddName
<1>6. /\ offs' = Append(offs, Len(blob)) /\ addrs' = Append(addrs, syms[idx].addr)
      /\ offs' \in Seq(Nat) /\ addrs' \in Seq(Nat)
      /\ Len(offs') = idx /\ Len(addrs') = Len(offs')
      /\ \A k \in 1..Len(offs) : offs'[k] = offs[k] /\ addrs'[k] = addrs[k]
      /\ offs'[idx] = Len(blob) /\ addrs'[idx] = syms[idx].addr
  <2>1. offs' = Append(offs, Len(blob)) /\ addrs' = Append(addrs, syms[idx].addr)
    BY DEF AddName
  <2>2. syms[idx].addr \in Nat
    BY <1>2 DEF Sym
  <2>3. Len(addrs) = Len(offs)
    BY <1>1 DEF Indexed
  <2>4. /\ Append(offs, Len(blob)) \in Seq(Nat)
        /\ Len(Append(offs, Len(blob))) = Len(offs) + 1
        /\ \A k \in 1..Len(offs) : Append(offs, Len(blob))[k] = offs[k]
        /\ Append(offs, Len(blob))[Len(offs) + 1] = Len(blob)
    BY <1>4, AppendProperties
  <2>5. /\ Append(addrs, syms[idx].addr) \in Seq(Nat)
        /\ Len(Append(addrs, syms[idx].addr)) = Len(addrs) + 1
        /\ \A k \in 1..Len(addrs) : Append(addrs, syms[idx].addr)[k] = addrs[k]
        /\ Append(addrs, syms[idx].addr)[Len(addrs) + 1] = syms[idx].addr
    BY <1>4, <2>2, AppendProperties
  <2>6. Len(offs) + 1 = idx /\ Len(addrs) + 1 = idx
    BY <1>1, <1>4, <2>3 DEF TypeOK
  <2>. QED  BY <2>1, <2>3, <2>4, <2>5, <2>6
<1>7. UNCHANGED <<input, phase, rc, syms, out>> /\ idx' = idx + 1
  BY DEF AddName
<1>8. TypeOK'
  BY <1>1, <1>5, <1>6, <1>7 DEF TypeOK
<1>9. BuildInv'
  BY <1>1, <1>6, <1>7 DEF BuildInv
<1>10. Indexed(addrs', offs', syms', blob')
  <2>. SUFFICES ASSUME NEW k \in 1..Len(offs')
                PROVE  /\ k <= Len(syms)
                       /\ addrs'[k] = syms[k].addr
                       /\ Entry(blob', offs'[k], EncodeName(syms[k].name))
    BY <1>6, <1>7 DEF Indexed
  <2>1. CASE k \in 1..Len(offs)
    <3>1. /\ k <= Len(syms) /\ addrs[k] = syms[k].addr
          /\ Entry(blob, offs[k], EncodeName(syms[k].name))
      BY <1>1, <2>1 DEF Indexed
    <3>2. EncodeName(syms[k].name) \in Seq(0..127) /\ offs[k] \in Nat
      <4>1. syms[k] \in Sym /\ offs[k] \in Nat
        BY <1>4, <3>1, <2>1, ElementOfSeq
      <4>. QED  BY <4>1, EncodeNameType DEF Sym
    <3>3. Entry(blob \o e, offs[k], EncodeName(syms[k].name))
      BY <1>3, <1>4, <3>1, <3>2, EntryExtend
    <3>4. Entry((blob \o e) \o << 0 >>, offs[k], EncodeName(syms[k].name))
      <4>1. << 0 >> \in Seq(0..127)
        OBVIOUS
      <4>. QED  BY <1>5, <3>2, <3>3, <4>1, EntryExtend
    <3>. QED  BY <1>5, <1>6, <2>1, <3>1, <3>4
  <2>2. CASE k = idx
    <3>1. Entry(blob', Len(blob), e)
      BY <1>3, <1>4, <1>5, EntryNew
    <3>. QED  BY <1>1, <1>6, <2>2, <3>1
  <2>. QED  BY <1>1, <1>6, <2>1, <2>2
<1>. QED  BY <1>8, <1>9, <1>10, IndexedDef DEF IInv

\* IInv is inductive.
LEMMA IInvNext == IInv /\ [Next]_vars => IInv'
<1>. SUFFICES ASSUME IInv, [Next]_vars PROVE IInv'
  OBVIOUS
<1>1. CASE ArgvCheck \/ RunNm
  BY <1>1, IInvArgvNm
<1>2. CASE ParseLine
  BY <1>2, IInvParse
<1>3. CASE SortSyms
  BY <1>3, IInvSort
<1>4. CASE AddName
  BY <1>4, IInvAddName
<1>5. CASE WriteFile
  BY <1>5, IInvWrite
<1>6. CASE UNCHANGED vars
  BY <1>6 DEF vars, IInv, TypeOK, BuildInv, OffsetsIndexNames
<1>. QED  BY <1>1, <1>2, <1>3, <1>4, <1>5, <1>6 DEF Next

-----------------------------------------------------------------------------
(* The theorems.                                                           *)

\* Whatever nm prints, the script's variables keep their types: the parsed
\* symbols, their sorted list, the blob of escaped names, the offsets and
\* the C file gen_ksyms.py writes.
THEOREM TypeCorrect == Spec => []TypeOK
<1>1. IInv => TypeOK
  BY DEF IInv
<1>. QED  BY <1>1, IInvInit, IInvNext, PTL DEF Spec

\* While gen_ksyms.py builds the table (lines 63-66), for every nm output,
\* each name offset recorded so far points at the encoded name of the
\* symbol whose address was recorded with it, followed by its NUL.
THEOREM OffsetsIndexed == Spec => []OffsetsIndexNames
<1>1. IInv => OffsetsIndexNames
  BY DEF IInv
<1>. QED  BY <1>1, IInvInit, IInvNext, PTL DEF Spec

=============================================================================
