-------------------------- MODULE OvmfCompile_proofs --------------------------
(***************************************************************************)
(* Proofs about OvmfCompile for every value of the constants: the type     *)
(* invariant, and that the buffer cmd_compile fills stays well formed (the  *)
(* headers, then the records in order, each on a 4-byte boundary where the *)
(* previous write ended, and the cursor at the end of the last write).     *)
(***************************************************************************)
EXTENDS OvmfCompile, TLAPS

-----------------------------------------------------------------------------
(* Lemmas on the format operators.                                         *)

\* A compiled flag word is an integer.
LEMMA SetBitInt ==
    ASSUME NEW x \in Int, NEW c, NEW v \in Nat
    PROVE  OrIf(x, c, v) \in Int
BY DEF OrIf, SetBit, Bit

LEMMA FlagsWordInt ==
    ASSUME NEW e \in Entries
    PROVE  FlagsWord(e) \in Int
<1> DEFINE f0 == OrIf(e.flags, ~e.volatile, NON_VOLATILE)
           f1 == OrIf(f0, "Boot Access" \in e.set, BOOTSERVICE_ACCESS)
           f2 == OrIf(f1, "Runtime Access" \in e.set, RUNTIME_ACCESS)
           f3 == OrIf(f2, "Hardware Error Record" \in e.set, HARDWARE_ERROR_RECORD)
           f4 == OrIf(f3, "Authenticated Write Access" \in e.set,
                      AUTHENTICATED_WRITE_ACCESS)
           f5 == OrIf(f4, "Time Based Authenticated Write Access" \in e.set,
                      TIME_BASED_AUTHENTICATED_WRITE_ACCESS)
           f6 == OrIf(f5, "Append Write" \in e.set, APPEND_WRITE)
<1>0. e.flags \in Int /\ e.volatile \in BOOLEAN
  BY DEF Entries
<1>1. f0 \in Int  BY <1>0, SetBitInt DEF NON_VOLATILE
<1> HIDE DEF f0
<1>2. f1 \in Int  BY <1>1, SetBitInt DEF BOOTSERVICE_ACCESS
<1> HIDE DEF f1
<1>3. f2 \in Int  BY <1>2, SetBitInt DEF RUNTIME_ACCESS
<1> HIDE DEF f2
<1>4. f3 \in Int  BY <1>3, SetBitInt DEF HARDWARE_ERROR_RECORD
<1> HIDE DEF f3
<1>5. f4 \in Int  BY <1>4, SetBitInt DEF AUTHENTICATED_WRITE_ACCESS
<1> HIDE DEF f4
<1>6. f5 \in Int  BY <1>5, SetBitInt DEF TIME_BASED_AUTHENTICATED_WRITE_ACCESS
<1> HIDE DEF f5
<1>7. f6 \in Int  BY <1>6, SetBitInt DEF APPEND_WRITE
<1>. QED
  BY <1>7 DEF FlagsWord, f0, f1, f2, f3, f4, f5, f6

\* Padding yields a multiple of 4 at or after n, and leaves a multiple of 4
\* where it is.
LEMMA Pad4Facts ==
    ASSUME NEW n \in Nat
    PROVE  /\ Pad4(n) \in Nat
           /\ Pad4(n) % 4 = 0
           /\ n % 4 = 0 => Pad4(n) = n
BY DEF Pad4

\* A document entry that passes the checks of cmd_compile yields a record.
LEMMA DeserializeType ==
    ASSUME NEW it \in Items, it.name # NotMap, it.val # NotMap, EntryOk(it)
    PROVE  deserializeFromDocument(it) \in VarRecord
<1>1. it.val \in Entries /\ it.name \in Seq(Chars)
  BY DEF Items, EntryOk
<1>2. it.val.data \in Payloads
  BY <1>1 DEF Entries, EntryOk
<1>3. LookupVal(it.vendor) \in AllGuids
  BY DEF EntryOk, LookupOk, LookupVal
<1>4. FromDocTime(it.val.ts) \in UefiTimes
  BY DEF FromDocTime, UefiTimes, ZeroTime
<1>5. FlagsWord(it.val) \in Int
  BY <1>1, FlagsWordInt
<1>6. NewState \in 0..255
  BY DEF NewState, VAR_ADDED, VAR_HEADER_VALID_ONLY
<1>7. it.val.mono \in Int /\ it.val.pki \in Int /\ it.val.data.len \in Nat
  BY <1>1, <1>2 DEF Entries, Payloads
<1>8. 2 * Len(it.name) + 2 \in Int
  BY <1>1
<1>. QED
  BY <1>1, <1>2, <1>3, <1>4, <1>5, <1>6, <1>7, <1>8
  DEF deserializeFromDocument, VarRecord, VarMagic

LEMMA BuildType ==
    ASSUME NEW doc \in Docs, DocOk(doc)
    PROVE  Build(doc) \in Seq(VarRecord)
<1>1. doc.vars \in Seq(Items)
  BY DEF Docs, DocOk
<1>2. \A i \in 1..Len(doc.vars) : deserializeFromDocument(doc.vars[i]) \in VarRecord
  BY <1>1, DeserializeType DEF DocOk
<1>. QED
  BY <1>1, <1>2 DEF Build

-----------------------------------------------------------------------------
(* The type invariant.                                                     *)

LEMMA HeaderWritesType == HeaderWrites \in Seq(Writes)
BY DEF HeaderWrites, Writes, FvChunk, StoreChunk, FvHeaderSize,
       DefaultFvHeader, FvPrefixLen, BlockEntryLen

LEMMA FlushedType ==
    ASSUME NEW b \in Seq(Writes), NEW p \in Nat
    PROVE  Flushed(b, p) \in Images
BY DEF Flushed, Images, Writes, FooterChunk, FooterOff, VolumeLen

LEMMA InitTypeOK == Init => TypeOK
<1> SUFFICES ASSUME Init PROVE TypeOK
  OBVIOUS
<1>1. out \in [exists : BOOLEAN, content : {NoFile, UserFile, Empty} \cup Images]
  <2>1. Absent \in [exists : BOOLEAN, content : {NoFile, UserFile, Empty}]
    BY DEF Absent
  <2>2. [exists |-> TRUE, content |-> UserFile] \in [exists : BOOLEAN, content : {NoFile, UserFile, Empty}]
    OBVIOUS
  <2>. QED
    BY <2>1, <2>2 DEF Init
<1>. QED
  BY <1>1 DEF Init, TypeOK, Phases

LEMMA NextTypeOK == TypeOK /\ [Next]_vars => TypeOK'
<1> SUFFICES ASSUME TypeOK, [Next]_vars PROVE TypeOK'
  OBVIOUS
<1>1. CASE CompileCheck
  BY <1>1 DEF CompileCheck, Fail, TypeOK, Phases
<1>2. CASE LoadDocument
  <2>1. args.doc \in Docs
    BY InputAssumption DEF TypeOK, Args
  <2>. QED
    BY <1>2, <2>1, BuildType DEF LoadDocument, Fail, TypeOK, Phases
<1>3. CASE OpenOutput
  BY <1>3, HeaderWritesType DEF OpenOutput, TypeOK, Phases, RecordsStart,
     FvHeaderSize, DefaultFvHeader, FvPrefixLen, BlockEntryLen, StoreHeaderLen
<1>4. CASE WriteVar
  <2>. DEFINE r == vs[idx + 1]
  <2>1. r \in VarRecord
    BY <1>4 DEF WriteVar, TypeOK
  <2>2. CASE SerializeOk(r)
    <3>1. r.nameLen \in Nat /\ r.dataLen \in Nat
      BY <2>1, <2>2 DEF SerializeOk, Fits, VarRecord
    <3>2. RecSize(r) \in Nat
      BY <3>1, Pad4Facts DEF RecSize, VarHeaderLen
    <3>3. Pad4(pos + RecSize(r)) \in Nat
      <4>1. pos + RecSize(r) \in Nat
        BY <3>2 DEF TypeOK
      <4>. QED
        BY <4>1, Pad4Facts
    <3>4. [at |-> pos, c |-> VarChunk(r)] \in Writes
      BY <2>1 DEF TypeOK, Writes, VarChunk
    <3>. QED
      BY <1>4, <2>2, <3>3, <3>4 DEF WriteVar, TypeOK
  <2>3. CASE ~SerializeOk(r)
    BY <1>4, <2>3 DEF WriteVar, Fail, TypeOK, Phases
  <2>. QED
    BY <2>2, <2>3
<1>5. CASE CheckOverflow
  BY <1>5 DEF CheckOverflow, Fail, TypeOK, Phases
<1>6. CASE WriteFooter
  BY <1>6, FlushedType DEF WriteFooter, TypeOK, Phases
<1>7. CASE BlankCheck
  BY <1>7 DEF BlankCheck, Fail, TypeOK, Phases
<1>8. CASE BlankWrite
  <2>1. RecordsStart \in Nat
    BY DEF RecordsStart, FvHeaderSize, DefaultFvHeader, FvPrefixLen,
       BlockEntryLen, StoreHeaderLen
  <2>. QED
    BY <1>8, <2>1, HeaderWritesType, FlushedType DEF BlankWrite, TypeOK, Phases
<1>9. CASE RaceCreate
  BY <1>9 DEF RaceCreate, TypeOK
<1>10. CASE UNCHANGED vars
  BY <1>10 DEF vars, TypeOK
<1>. QED
  BY <1>1, <1>2, <1>3, <1>4, <1>5, <1>6, <1>7, <1>8, <1>9, <1>10 DEF Next, Tool

\* The variables of the compile and generate-blank commands keep their types.
THEOREM TypeCorrect == Spec => []TypeOK
BY InitTypeOK, NextTypeOK, PTL DEF Spec
-----------------------------------------------------------------------------
(* The buffer invariant.  BufferWellFormed is inductive once the types are *)
(* known: a record is appended at pos, and pos is then advanced by the     *)
(* record's padded size, which is a multiple of 4, so the second padding   *)
(* at ovmf.py:488-489 never moves it.                                      *)

LEMMA HeaderLayout ==
    /\ Len(HeaderWrites) = 2
    /\ HeaderWrites[1].at = 0
    /\ HeaderWrites[2].at = 72
    /\ ChunkSize(HeaderWrites[1].c) = 72
    /\ ChunkSize(HeaderWrites[2].c) = 28
    /\ RecordsStart = 100
<1>1. FvHeaderSize(DefaultFvHeader) = 72
  BY DEF FvHeaderSize, DefaultFvHeader, FvPrefixLen, BlockEntryLen
<1>2. ChunkSize(FvChunk) = 72
  BY <1>1 DEF ChunkSize, FvChunk
<1>3. ChunkSize(StoreChunk) = 28
  BY DEF ChunkSize, StoreChunk, StoreHeaderLen
<1>4. RecordsStart = 100
  BY <1>1 DEF RecordsStart, StoreHeaderLen
<1>. QED
  BY <1>1, <1>2, <1>3, <1>4 DEF HeaderWrites

LEMMA VarChunkSize ==
    ASSUME NEW r
    PROVE  ChunkSize(VarChunk(r)) = RecSize(r)
BY DEF ChunkSize, VarChunk

IInv == TypeOK /\ BufferWellFormed

LEMMA InitIInv == Init => IInv
BY InitTypeOK DEF Init, IInv, BufferWellFormed

LEMMA NextIInv == IInv /\ [Next]_vars => IInv'
<1> SUFFICES ASSUME TypeOK, BufferWellFormed, [Next]_vars
             PROVE  BufferWellFormed'
  BY NextTypeOK DEF IInv
<1>1. CASE CompileCheck
  BY <1>1 DEF CompileCheck, Fail, BufferWellFormed
<1>2. CASE LoadDocument
  BY <1>2 DEF LoadDocument, Fail, BufferWellFormed
<1>3. CASE OpenOutput
  <2>1. SubSeq(HeaderWrites, 1, 2) = HeaderWrites
    BY HeaderLayout, HeaderWritesType
  <2>2. \A k \in 2..Len(HeaderWrites) :
            HeaderWrites[k].at = HeaderWrites[k - 1].at + ChunkSize(HeaderWrites[k - 1].c)
    BY HeaderLayout
  <2>. QED
    BY <1>3, <2>1, <2>2, HeaderLayout DEF OpenOutput, BufferWellFormed, TypeOK
<1>4. CASE WriteVar
  <2>. DEFINE r == vs[idx + 1]
  <2>0. phase = "write" /\ idx < Len(vs) /\ UNCHANGED vs
    BY <1>4 DEF WriteVar
  <2>1. CASE SerializeOk(r)
    <3>. DEFINE w == [at |-> pos, c |-> VarChunk(r)]
    <3>1. buf' = Append(buf, w) /\ idx' = idx + 1 /\ pos' = Pad4(pos + RecSize(r))
          /\ phase' = phase
      BY <1>4, <2>1 DEF WriteVar
    <3>2. r \in VarRecord
      BY <2>0 DEF TypeOK
    <3>3. r.nameLen \in Nat /\ r.dataLen \in Nat
      BY <2>1, <3>2 DEF SerializeOk, Fits, VarRecord
    <3>4. RecSize(r) \in Nat /\ RecSize(r) % 4 = 0
      BY <3>3, Pad4Facts DEF RecSize, VarHeaderLen
    <3>5. Len(buf) = idx + 2 /\ pos % 4 = 0 /\ pos \in Nat /\ buf \in Seq(Writes)
          /\ pos = buf[Len(buf)].at + ChunkSize(buf[Len(buf)].c)
      BY <2>0 DEF BufferWellFormed, TypeOK
    <3>6. pos' = pos + RecSize(r) /\ pos' % 4 = 0
      <4>1. (pos + RecSize(r)) % 4 = 0 /\ pos + RecSize(r) \in Nat
        BY <3>4, <3>5
      <4>. QED
        BY <3>1, <4>1, Pad4Facts
    <3>7. Len(buf') = Len(buf) + 1 /\ buf'[Len(buf')] = w
          /\ \A k \in 1..Len(buf) : buf'[k] = buf[k]
      BY <3>1, <3>5
    <3>8. ChunkSize(buf'[Len(buf')].c) = RecSize(r)
      BY <3>7, VarChunkSize
    <3>9. \A k \in 2..Len(buf') : buf'[k].at = buf'[k - 1].at + ChunkSize(buf'[k - 1].c)
      <4>1. SUFFICES ASSUME NEW k \in 2..Len(buf')
                     PROVE  buf'[k].at = buf'[k - 1].at + ChunkSize(buf'[k - 1].c)
        OBVIOUS
      <4>2. CASE k <= Len(buf)
        BY <2>0, <3>5, <3>7, <4>2 DEF BufferWellFormed
      <4>3. CASE k = Len(buf) + 1
        BY <3>5, <3>7, <4>3
      <4>. QED
        BY <3>5, <3>7, <4>2, <4>3
    <3>10. \A k \in 2..Len(buf') : buf'[k].at % 4 = 0
      <4>1. SUFFICES ASSUME NEW k \in 2..Len(buf')
                     PROVE  buf'[k].at % 4 = 0
        OBVIOUS
      <4>2. CASE k <= Len(buf)
        BY <2>0, <3>5, <3>7, <4>2 DEF BufferWellFormed
      <4>3. CASE k = Len(buf) + 1
        BY <3>5, <3>7, <4>3
      <4>. QED
        BY <3>5, <3>7, <4>2, <4>3
    <3>11. \A k \in 1..idx' : buf'[k + 2].c = VarChunk(vs'[k])
      <4>1. SUFFICES ASSUME NEW k \in 1..idx'
                     PROVE  buf'[k + 2].c = VarChunk(vs'[k])
        OBVIOUS
      <4>2. idx \in Nat
        BY DEF TypeOK
      <4>3. CASE k <= idx
        <5>1. buf'[k + 2] = buf[k + 2]
          BY <3>1, <3>5, <3>7, <4>2, <4>3
        <5>. QED
          BY <2>0, <4>2, <4>3, <5>1 DEF BufferWellFormed
      <4>4. CASE k = idx + 1
        BY <2>0, <3>1, <3>5, <3>7, <4>2, <4>4
      <4>5. k <= idx \/ k = idx + 1
        BY <3>1, <4>2
      <4>. QED
        BY <4>3, <4>4, <4>5
    <3>12. SubSeq(buf', 1, 2) = HeaderWrites
      <4>1. SubSeq(buf, 1, 2) = HeaderWrites /\ Len(buf) >= 2
        BY <2>0, <3>5 DEF BufferWellFormed, TypeOK
      <4>2. buf'[1] = buf[1] /\ buf'[2] = buf[2] /\ Len(buf') >= 2
        BY <3>5, <3>7, <4>1
      <4>3. SubSeq(buf', 1, 2) = SubSeq(buf, 1, 2)
        BY <4>2, <3>7, <3>5
      <4>. QED
        BY <4>1, <4>3
    <3>13. Len(buf') = idx' + 2 /\ idx' <= Len(vs')
      BY <2>0, <3>1, <3>5, <3>7 DEF TypeOK
    <3>14. pos' = buf'[Len(buf')].at + ChunkSize(buf'[Len(buf')].c)
      BY <3>5, <3>6, <3>7, <3>8
    <3>. QED
      BY <2>0, <3>1, <3>6, <3>9, <3>10, <3>11, <3>12, <3>13, <3>14
      DEF BufferWellFormed
  <2>2. CASE ~SerializeOk(r)
    BY <1>4, <2>2 DEF WriteVar, Fail, BufferWellFormed
  <2>. QED
    BY <2>1, <2>2
<1>5. CASE CheckOverflow
  BY <1>5 DEF CheckOverflow, Fail, BufferWellFormed
<1>6. CASE WriteFooter
  BY <1>6 DEF WriteFooter, BufferWellFormed
<1>7. CASE BlankCheck
  BY <1>7 DEF BlankCheck, Fail, BufferWellFormed
<1>8. CASE BlankWrite
  BY <1>8 DEF BlankWrite, BufferWellFormed
<1>9. CASE RaceCreate
  BY <1>9 DEF RaceCreate, BufferWellFormed
<1>10. CASE UNCHANGED vars
  BY <1>10 DEF vars, BufferWellFormed
<1>. QED
  BY <1>1, <1>2, <1>3, <1>4, <1>5, <1>6, <1>7, <1>8, <1>9, <1>10 DEF Next, Tool

\* While cmd_compile writes records, its buffer holds the two headers and
\* then the records built so far, in document order, each starting on a
\* 4-byte boundary exactly where the previous write ended, with fm.tell()
\* at the end of the last one.
THEOREM BufferSafe == Spec => []BufferWellFormed
<1>1. Spec => []IInv
  BY InitIInv, NextIInv, PTL DEF Spec
<1>. QED
  BY <1>1, PTL DEF IInv
-----------------------------------------------------------------------------
(* The written headers.  WrittenHeadersMatchDocument speaks of the final   *)
(* state only; HeaderInv carries what it needs through the run: from the  *)
(* load on, vs is the document's records, every record written so far     *)
(* passed serialize's assertions and struct.pack, and the footer comes     *)
(* only after the last record.                                             *)

HeaderInv ==
    /\ phase \in {"write", "footer"} => args.cmd = "compile"
    /\ (phase \in {"open", "write", "footer"} /\ args.cmd = "compile") =>
           DocOk(args.doc) /\ vs = Build(args.doc)
    /\ phase \in {"write", "footer"} => \A k \in 1..idx : SerializeOk(vs[k])
    /\ phase = "footer" => idx = Len(vs)
    /\ WrittenHeadersMatchDocument

HInv == IInv /\ HeaderInv

\* The fields of a record built from a document entry.
LEMMA DeserializeFields ==
    ASSUME NEW it
    PROVE  LET r == deserializeFromDocument(it) IN
           /\ r.name = it.name
           /\ r.flags = FlagsWord(it.val)
           /\ r.monotonicCount = it.val.mono
           /\ r.pubKeyIdx = it.val.pki
BY DEF deserializeFromDocument

\* A record that passes serialize has its name size in UTF-16 bytes and its
\* fields within their widths.
LEMMA SerializedFields ==
    ASSUME NEW r, SerializeOk(r)
    PROVE  /\ r.nameLen = 2 * Units(r.name) + 2
           /\ Fits(r.flags, 32) /\ Fits(r.monotonicCount, 64) /\ Fits(r.pubKeyIdx, 32)
BY DEF SerializeOk

\* The write of the footer (ovmf.py:492-496) leaves, after the two headers,
\* the records of the document, each of which passed serialize.
LEMMA FooterHeaders ==
    ASSUME TypeOK, BufferWellFormed, HeaderInv, WriteFooter
    PROVE  WrittenHeadersMatchDocument'
<1>1. phase = "footer" /\ args' = args
      /\ out' = [exists |-> TRUE, content |-> Flushed(buf, pos)]
  BY DEF WriteFooter
<1>2. /\ args.cmd = "compile"
      /\ DocOk(args.doc) /\ vs = Build(args.doc)
      /\ idx = Len(vs)
      /\ \A k \in 1..idx : SerializeOk(vs[k])
  BY <1>1 DEF HeaderInv
<1>. DEFINE doc == args.doc
            n   == Len(doc.vars)
            fw  == [at |-> FooterOff, c |-> FooterChunk]
            ws  == Append(buf, fw)
<1>3. doc.vars \in Seq(Items)
  <2>1. doc \in Docs
    BY InputAssumption DEF TypeOK, Args
  <2>. QED  BY <1>2, <2>1 DEF DocOk, Docs
<1>4. Len(vs) = n /\ \A i \in 1..n : vs[i] = deserializeFromDocument(doc.vars[i])
  BY <1>2, <1>3 DEF Build
<1>5. Len(buf) = idx + 2 /\ \A k \in 1..idx : buf[k + 2].c = VarChunk(vs[k])
  BY <1>1 DEF BufferWellFormed
<1>7. out'.content.writes = ws
  BY <1>1 DEF Flushed
<1>. HIDE DEF fw
<1>6. buf \in Seq(Writes) /\ idx \in Nat /\ idx = n
  BY <1>2, <1>4 DEF TypeOK
<1>9. Len(ws) = n + 3 /\ \A i \in 1..n : ws[i + 2] = buf[i + 2]
  BY <1>5, <1>6
<1>8. ASSUME NEW i \in 1..n
      PROVE  LET r  == ws[i + 2].c.rec
                 it == doc.vars[i]
             IN  /\ r.name = it.name
                 /\ r.nameLen = 2 * Units(it.name) + 2
                 /\ r.flags = FlagsWord(it.val) /\ Fits(r.flags, 32)
                 /\ r.monotonicCount = it.val.mono /\ Fits(r.monotonicCount, 64)
                 /\ r.pubKeyIdx = it.val.pki /\ Fits(r.pubKeyIdx, 32)
  <2>. DEFINE r == vs[i]
              it == doc.vars[i]
  <2>1. ws[i + 2].c = VarChunk(r)
    BY <1>5, <1>6, <1>9
  <2>2. ws[i + 2].c.rec = r
    BY <2>1 DEF VarChunk
  <2>3. SerializeOk(r)
    BY <1>2, <1>6
  <2>4. r = deserializeFromDocument(it)
    BY <1>4
  <2>5. /\ r.name = it.name
        /\ r.flags = FlagsWord(it.val)
        /\ r.monotonicCount = it.val.mono
        /\ r.pubKeyIdx = it.val.pki
    BY <2>4, DeserializeFields
  <2>6. /\ r.nameLen = 2 * Units(r.name) + 2
        /\ Fits(r.flags, 32) /\ Fits(r.monotonicCount, 64) /\ Fits(r.pubKeyIdx, 32)
    BY <2>3, SerializedFields
  <2>. QED  BY <2>2, <2>5, <2>6
<1>. QED  BY <1>1, <1>7, <1>8, <1>9 DEF WrittenHeadersMatchDocument

LEMMA InitHInv == Init => HInv
BY InitIInv DEF Init, HInv, HeaderInv, WrittenHeadersMatchDocument

\* Every step keeps HeaderInv: only the load sets vs, only a record that
\* passes serialize is counted as written, the footer comes after the last
\* record, and once the command is done nothing it wrote changes.
LEMMA NextHInv == HInv /\ [Next]_vars => HInv'
<1> SUFFICES ASSUME TypeOK, BufferWellFormed, HeaderInv, [Next]_vars
             PROVE  HeaderInv'
  BY NextIInv DEF HInv, IInv
<1>1. CASE CompileCheck
  BY <1>1 DEF CompileCheck, Fail, HeaderInv, WrittenHeadersMatchDocument
<1>2. CASE LoadDocument
  BY <1>2 DEF LoadDocument, Fail, HeaderInv, WrittenHeadersMatchDocument
<1>3. CASE OpenOutput
  BY <1>3 DEF OpenOutput, HeaderInv, WrittenHeadersMatchDocument
<1>4. CASE WriteVar
  <2>. DEFINE r == vs[idx + 1]
  <2>0. phase = "write" /\ idx < Len(vs) /\ UNCHANGED <<args, vs>> /\ idx \in Nat
    BY <1>4 DEF WriteVar, TypeOK
  <2>1. CASE SerializeOk(r)
    <3>1. idx' = idx + 1 /\ phase' = phase
      BY <1>4, <2>1 DEF WriteVar
    <3>2. \A k \in 1..idx' : SerializeOk(vs'[k])
      BY <2>0, <2>1, <3>1 DEF HeaderInv
    <3>. QED  BY <2>0, <3>1, <3>2 DEF HeaderInv, WrittenHeadersMatchDocument
  <2>2. CASE ~SerializeOk(r)
    BY <1>4, <2>2 DEF WriteVar, Fail, HeaderInv, WrittenHeadersMatchDocument
  <2>. QED  BY <2>1, <2>2
<1>5. CASE CheckOverflow
  BY <1>5 DEF CheckOverflow, Fail, HeaderInv, WrittenHeadersMatchDocument
<1>6. CASE WriteFooter
  <2>1. WrittenHeadersMatchDocument'
    BY <1>6, FooterHeaders
  <2>. QED  BY <1>6, <2>1 DEF WriteFooter, HeaderInv
<1>7. CASE BlankCheck
  BY <1>7 DEF BlankCheck, Fail, HeaderInv, WrittenHeadersMatchDocument
<1>8. CASE BlankWrite
  BY <1>8 DEF BlankWrite, HeaderInv, WrittenHeadersMatchDocument
<1>9. CASE RaceCreate
  BY <1>9 DEF RaceCreate, HeaderInv, WrittenHeadersMatchDocument
<1>10. CASE UNCHANGED vars
  BY <1>10 DEF vars, HeaderInv, WrittenHeadersMatchDocument
<1>. QED
  BY <1>1, <1>2, <1>3, <1>4, <1>5, <1>6, <1>7, <1>8, <1>9, <1>10 DEF Next, Tool

\* A compile that returns 0 has written every entry of the document as a
\* record header whose name size is the name's UTF-16 length plus its
\* terminator and whose flags, monotonic count and public key index are the
\* document's, within the widths of their fields: the assertion of
\* serialize (ovmf.py:292) and struct.pack stand between the code-point
\* count of line 285 and the file.
THEOREM HeadersMatch == Spec => []WrittenHeadersMatchDocument
<1>1. Spec => []HInv
  BY InitHInv, NextHInv, PTL DEF Spec
<1>. QED
  BY <1>1, PTL DEF HInv, HeaderInv
=============================================================================
