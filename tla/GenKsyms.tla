------------------------------ MODULE GenKsyms ------------------------------
(***************************************************************************)
(* src/utils/gen_ksyms.py: the kernel symbol table generator.  It runs     *)
(* nm -n on the kernel ELF, keeps the text symbols, sorts them by address  *)
(* and writes a C file with three arrays: the addresses, the offset of     *)
(* each name in a NUL-separated blob, and the blob as a C string literal.  *)
(*                                                                         *)
(* A line of nm output is abstracted to what the parsing loop looks at:    *)
(* the number of fields split(maxsplit=2) gives (0 for a blank line), the  *)
(* address field (a number, or a field int(_, 16) rejects), the type       *)
(* letter and the name.  Names, the blob and the C text are sequences of   *)
(* character codes, so the escaping is modelled by what it does.           *)
(***************************************************************************)
EXTENDS Integers, SequencesExt

CONSTANTS
    NmOutputs,  \* the outputs nm -n may print, as sequences of lines
    NotHex,     \* an address field int(_, 16) rejects
    NoFile,     \* content of an absent output file
    OldFile     \* content of an output file left by an earlier run

VARIABLES
    input,   \* [argcOk, nmOk, lines]: argv, and nm's exit and output
    phase,   \* the statement the script is at
    rc,      \* exit status
    idx,     \* index of the loop over lines, then over syms
    syms,    \* the list syms of (addr, name) pairs
    blob,    \* names_blob
    offs,    \* name_offs
    addrs,   \* addrs
    out      \* the output file

vars == <<input, phase, rc, idx, syms, blob, offs, addrs, out>>

Phases == {"argv", "nm", "parse", "build", "done"}

\* nm prints a name from an ELF string table, where names end at their
\* NUL: a name holds no NUL character.
Line == [ntok : 0..3, addr : Nat \cup {NotHex}, typ : {"T", "t", "W", "w", "D", "U"},
         name : Seq(Nat \ {0})]

Sym == [addr : Nat, name : Seq(Nat)]

\* nm's output is a sequence of lines; NotHex is a field int(_, 16) rejects.
ASSUME GenKsymsAssumption ==
    /\ NotHex \notin Nat
    /\ OldFile # NoFile
    /\ NmOutputs \subseteq Seq(Line)

-----------------------------------------------------------------------------
(* Character conversions.                                                  *)

HexChar(d) == IF d < 10 THEN 48 + d ELSE 87 + d

\* f"{v:0{w}x}": w lowercase hex digits of v.
Hex(v, w) == [k \in 1..w |-> HexChar((v \div 16 ^ (w - k)) % 16)]

\* An encoding that keeps the characters below 256 as single bytes.
AsciiCharLatin1(c) ==
    CASE c < 256                 -> << c >>
      [] 256 <= c /\ c < 65536    -> << 92, 117 >> \o Hex(c, 4)
      [] OTHER                     -> << 92, 85 >> \o Hex(c, 8)

\* str.encode("ascii", errors="backslashreplace") of one character.
AsciiChar(c) ==
    CASE c < 128                 -> << c >>
      [] 128 <= c /\ c < 256      -> << 92, 120 >> \o Hex(c, 2)
      [] 256 <= c /\ c < 65536    -> << 92, 117 >> \o Hex(c, 4)
      [] OTHER                     -> << 92, 85 >> \o Hex(c, 8)

EncodeName(n) == FlattenSeq([k \in 1..Len(n) |-> AsciiChar(n[k])])

\* c_escape_bytes (gen_ksyms.py:12-22) of one byte.
EscapeByte(b) ==
    CASE b = 0                                     -> << 92, 48 >>
      [] 32 <= b /\ b <= 126 /\ b \notin {34, 92}  -> << b >>
      [] OTHER                                     -> << 92, 120 >> \o Hex(b, 2)

c_escape_bytes(bs) == FlattenSeq([k \in 1..Len(bs) |-> EscapeByte(bs[k])])

\* A sort that puts the symbols at one address in reverse order.
RankReversed(s, i) == Cardinality({j \in 1..Len(s) :
                                      \/ s[j].addr < s[i].addr
                                      \/ s[j].addr = s[i].addr /\ j > i})

SortByAddrReversed(s) ==
    [k \in 1..Len(s) |-> s[CHOOSE i \in 1..Len(s) : RankReversed(s, i) = k - 1]]

\* syms.sort(key=lambda x: x[0]): list.sort is stable, so symbols at one
\* address keep the order nm printed them in.
Rank(s, i) == Cardinality({j \in 1..Len(s) :
                              \/ s[j].addr < s[i].addr
                              \/ s[j].addr = s[i].addr /\ j < i})

SortByAddr(s) == [k \in 1..Len(s) |-> s[CHOOSE i \in 1..Len(s) : Rank(s, i) = k - 1]]

\* The C file the with-block writes (gen_ksyms.py:68-84).
FileOf(as, os, bs) == [count |-> Len(as), addrs |-> as, offs |-> os,
                       names |-> c_escape_bytes(bs)]

-----------------------------------------------------------------------------

TypeOK ==
    /\ input \in [argcOk : BOOLEAN, nmOk : BOOLEAN, lines : NmOutputs]
    /\ phase \in Phases
    /\ rc \in {0, 1}
    /\ idx \in Nat
    /\ syms \in Seq(Sym)
    /\ blob \in Seq(0..127)
    /\ offs \in Seq(Nat)
    /\ addrs \in Seq(Nat)
    /\ out \in {NoFile, OldFile} \cup
               [count : Nat, addrs : Seq(Nat), offs : Seq(Nat), names : Seq(0..127)]

Init ==
    /\ input \in [argcOk : BOOLEAN, nmOk : BOOLEAN, lines : NmOutputs]
    /\ phase = "argv"
    /\ rc = 0
    /\ idx = 1
    /\ syms = << >>
    /\ blob = << >>
    /\ offs = << >>
    /\ addrs = << >>
    /\ out \in {NoFile, OldFile}

\* die(): message to stderr, sys.exit(1).
Die == /\ phase' = "done"
       /\ rc' = 1

\* gen_ksyms.py:26-27.
ArgvCheck ==
    /\ phase = "argv"
    /\ \/ input.argcOk /\ phase' = "nm" /\ UNCHANGED rc
       \/ ~input.argcOk /\ Die
    /\ UNCHANGED <<input, idx, syms, blob, offs, addrs, out>>

\* gen_ksyms.py:32-35: nm -n, or die when it fails.
RunNm ==
    /\ phase = "nm"
    /\ \/ input.nmOk /\ phase' = "parse" /\ UNCHANGED rc
       \/ ~input.nmOk /\ Die
    /\ UNCHANGED <<input, idx, syms, blob, offs, addrs, out>>

\* One iteration of the loop over nm's lines (gen_ksyms.py:38-56): each
\* "continue" leaves syms as it is.  A first field "U" is one int(_, 16)
\* rejects, so the test at line 45 is the address test's NotHex case.
ParseLine ==
    /\ phase = "parse"
    /\ idx <= Len(input.lines)
    /\ LET l == input.lines[idx] IN
       IF /\ l.ntok = 3
          /\ l.typ \in {"T", "t", "W", "w"}
          /\ l.addr \in Nat
          /\ ~(Len(l.name) > 0 /\ l.name[1] = 36)
       THEN syms' = Append(syms, [addr |-> l.addr, name |-> l.name])
       ELSE UNCHANGED syms
    /\ idx' = idx + 1
    /\ UNCHANGED <<input, phase, rc, blob, offs, addrs, out>>

\* gen_ksyms.py:58, after the last line.
SortSyms ==
    /\ phase = "parse"
    /\ idx > Len(input.lines)
    /\ syms' = SortByAddr(syms)
    /\ phase' = "build"
    /\ idx' = 1
    /\ UNCHANGED <<input, rc, blob, offs, addrs, out>>

\* name_offs.append(len(names_blob)) after the extend: each offset is that
\* of the next name.
AddNameLate ==
    /\ phase = "build"
    /\ idx <= Len(syms)
    /\ addrs' = Append(addrs, syms[idx].addr)
    /\ blob' = blob \o EncodeName(syms[idx].name) \o << 0 >>
    /\ offs' = Append(offs, Len(blob'))
    /\ idx' = idx + 1
    /\ UNCHANGED <<input, phase, rc, syms, out>>

\* One iteration of gen_ksyms.py:63-66.
AddName ==
    /\ phase = "build"
    /\ idx <= Len(syms)
    /\ addrs' = Append(addrs, syms[idx].addr)
    /\ offs' = Append(offs, Len(blob))
    /\ blob' = blob \o EncodeName(syms[idx].name) \o << 0 >>
    /\ idx' = idx + 1
    /\ UNCHANGED <<input, phase, rc, syms, out>>

\* gen_ksyms.py:68-86: open(out_c, "w") and the writes, then return 0.
WriteFile ==
    /\ phase = "build"
    /\ idx > Len(syms)
    /\ out' = FileOf(addrs, offs, blob)
    /\ phase' = "done"
    /\ UNCHANGED <<input, rc, idx, syms, blob, offs, addrs>>

Next == ArgvCheck \/ RunNm \/ ParseLine \/ SortSyms \/ AddName \/ WriteFile

\* A straight-line script with loops over finite lists: weak fairness.
Spec == Init /\ [][Next]_vars /\ WF_vars(Next)

-----------------------------------------------------------------------------
(* Properties                                                              *)

\* The name a reader of __ksym_names finds at offset o: the bytes up to the
\* next NUL.
NameAt(bs, o) ==
    LET ends == {e \in (o + 1)..Len(bs) : bs[e] = 0}
        e    == CHOOSE e \in ends : \A f \in ends : e <= f
    IN  IF ends = {} THEN bs ELSE SubSeq(bs, o + 1, e - 1)

\* The symbols of nm's output the table is for: text symbols (T, t, W, w)
\* with a hexadecimal address, whose name does not start with "$".
IsTextSymbol(l) ==
    /\ l.ntok = 3 /\ l.addr \in Nat /\ l.typ \in {"T", "t", "W", "w"}
    /\ (l.name = << >> \/ l.name[1] # 36)

\* The (address, name) pairs of the text symbols of ls, in nm's order:
\* each line gives its pair if it is a text symbol and nothing otherwise.
TextSymbols(ls) ==
    FlattenSeq([k \in 1..Len(ls) |->
                  IF IsTextSymbol(ls[k])
                  THEN << [addr |-> ls[k].addr, name |-> ls[k].name] >>
                  ELSE << >>])

\* When the script returns 0, the file it wrote is a table a kernel can
\* binary-search: one entry per text symbol of nm's output, addresses in
\* ascending order, symbols at one address in nm's order, and the name at
\* each entry's offset in the blob is that symbol's ASCII name.
KsymTable ==
    (phase = "done" /\ rc = 0) =>
        LET ts == TextSymbols(input.lines)
            n  == Len(ts)
        IN  /\ out = FileOf(addrs, offs, blob)
            /\ n = out.count /\ n = Len(out.offs)
            /\ IsSorted(out.addrs, LAMBDA a, b : a <= b)
            /\ \E p \in [1..n -> 1..n] :
                  /\ IsInjective(p)
                  /\ \A k \in 1..n :
                        /\ out.addrs[k] = ts[p[k]].addr
                        /\ NameAt(blob, out.offs[k]) = EncodeName(ts[p[k]].name)
                  /\ \A k, j \in 1..n : k < j /\ out.addrs[k] = out.addrs[j] => p[k] < p[j]

\* While the table is built (gen_ksyms.py:63-66), every offset appended so
\* far points at the encoded name of the symbol with the address appended
\* with it, followed by its NUL, inside the blob.
OffsetsIndexNames ==
    /\ Len(addrs) = Len(offs)
    /\ \A k \in 1..Len(offs) :
          LET e == EncodeName(syms[k].name) IN
          /\ k <= Len(syms)
          /\ addrs[k] = syms[k].addr
          /\ offs[k] + Len(e) + 1 <= Len(blob)
          /\ SubSeq(blob, offs[k] + 1, offs[k] + Len(e)) = e
          /\ blob[offs[k] + Len(e) + 1] = 0
=============================================================================
