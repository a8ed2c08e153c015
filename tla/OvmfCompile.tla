----------------------------- MODULE OvmfCompile -----------------------------
(***************************************************************************)
(* The two commands of src/utils/ovmf.py that write an image: compile      *)
(* (cmd_compile, ovmf.py:459-499) and generate-blank (cmd_generate_blank,  *)
(* ovmf.py:501-518), as steps of one sequential process, together with the *)
(* output file they write and another process that may create that file   *)
(* while the command runs.                                                 *)
(*                                                                         *)
(* The in-memory buffer is the sequence of writes made into it (offset and *)
(* chunk); bytes no write covers hold the erase value 0xFF it was filled   *)
(* with.  The output file is its existence and its content: a file some    *)
(* user owns, the empty file left by open(..., "wb"), or an image.         *)
(***************************************************************************)
EXTENDS OvmfFormat

CONSTANTS
    InputDocs,    \* the YAML documents the input file may hold
    UserFile,     \* content of an output file the command did not write
    Empty,        \* content of a file just truncated by open(..., "wb")
    NoFile,       \* content of an absent file
    NoRc          \* exit status not yet returned

ASSUME InputAssumption ==
    /\ InputDocs \subseteq Docs
    /\ UserFile # Empty /\ NoFile # Empty /\ NoFile # UserFile

VARIABLES
    args,    \* command line and input: [cmd, force, inputExists, doc]
    phase,   \* the statement the command is at
    rc,      \* exit status
    out,     \* the output file: [exists, content]
    vs,      \* the records built from the document (ovmf.py:474-481)
    idx,     \* records of vs written so far (loop at ovmf.py:486)
    pos,     \* fm.tell()
    buf      \* writes made into the buffer fm, in order

vars == <<args, phase, rc, out, vs, idx, pos, buf>>

Phases == {"check", "load", "open", "write", "footer", "done"}

Args == [cmd : {"compile", "blank"}, force : BOOLEAN, inputExists : BOOLEAN,
         doc : InputDocs]

Writes == [at : Nat, c : {FvChunk, StoreChunk, FooterChunk} \cup
                        [kind : {"var"}, rec : VarRecord]]

Images == [writes : Seq(Writes), len : Nat]

Absent == [exists |-> FALSE, content |-> NoFile]

\* The buffer right after the two headers are written.
HeaderWrites == << [at |-> 0, c |-> FvChunk],
                   [at |-> FvHeaderSize(DefaultFvHeader), c |-> StoreChunk] >>

\* The image flushed to the output: the footer written at 0x41000 over a
\* buffer that write() past its end has grown to pos.
Flushed(b, p) == [writes |-> Append(b, [at |-> FooterOff, c |-> FooterChunk]),
                  len |-> IF p > VolumeLen THEN p ELSE VolumeLen]

TypeOK ==
    /\ args \in Args
    /\ phase \in Phases
    /\ rc \in {NoRc, 0, 1}
    /\ out \in [exists : BOOLEAN, content : {NoFile, UserFile, Empty} \cup Images]
    /\ vs \in Seq(VarRecord)
    /\ idx \in Nat
    /\ pos \in Nat
    /\ buf \in Seq(Writes)

Init ==
    /\ args \in Args
    /\ phase = "check"
    /\ rc = NoRc
    /\ out \in {Absent, [exists |-> TRUE, content |-> UserFile]}
    /\ vs = << >>
    /\ idx = 0
    /\ pos = 0
    /\ buf = << >>

Fail == /\ phase' = "done"
        /\ rc' = 1

-----------------------------------------------------------------------------
(* cmd_compile                                                             *)

\* ovmf.py:462-467: the input must exist, and the output must not unless
\* --force.
CompileCheck ==
    /\ phase = "check"
    /\ args.cmd = "compile"
    /\ \/ /\ ~args.inputExists \/ (out.exists /\ ~args.force)
          /\ Fail
       \/ /\ args.inputExists /\ (~out.exists \/ args.force)
          /\ phase' = "load"
          /\ UNCHANGED rc
    /\ UNCHANGED <<args, out, vs, idx, pos, buf>>

\* ovmf.py:468-481: load the YAML, check its shape, build every record;
\* any error returns 1 before the output is opened.
LoadDocument ==
    /\ phase = "load"
    /\ \/ /\ DocOk(args.doc)
          /\ vs' = Build(args.doc)
          /\ phase' = "open"
          /\ UNCHANGED rc
       \/ /\ ~DocOk(args.doc)
          /\ Fail
          /\ UNCHANGED vs
    /\ UNCHANGED <<args, out, idx, pos, buf>>

\* ovmf.py:482-485: open(output_file, "wb") truncates or creates the file;
\* the buffer is 528 KiB of 0xFF with both default headers written.
OpenOutput ==
    /\ phase = "open"
    /\ args.cmd = "compile"
    /\ out' = [exists |-> TRUE, content |-> Empty]
    /\ buf' = HeaderWrites
    /\ pos' = RecordsStart
    /\ idx' = 0
    /\ phase' = "write"
    /\ UNCHANGED <<args, rc, vs>>

\* ovmf.py:486-489: serialize the next record (raising when an assertion
\* or struct.pack fails), write it, pad the position to 4.
WriteVar ==
    /\ phase = "write"
    /\ idx < Len(vs)
    /\ LET r == vs[idx + 1] IN
       \/ /\ SerializeOk(r)
          /\ buf' = Append(buf, [at |-> pos, c |-> VarChunk(r)])
          /\ pos' = Pad4(pos + RecSize(r))
          /\ idx' = idx + 1
          /\ UNCHANGED <<phase, rc>>
       \/ /\ ~SerializeOk(r)
          /\ Fail
          /\ UNCHANGED <<buf, pos, idx>>
    /\ UNCHANGED <<args, out, vs>>

\* ovmf.py:490-491: after the loop, more than 0x41000 bytes is an error.
\* The size check left out: the footer is written whatever pos is.
CheckOverflowUnchecked ==
    /\ phase = "write"
    /\ idx = Len(vs)
    /\ phase' = "footer"
    /\ UNCHANGED <<rc, args, out, vs, idx, pos, buf>>

CheckOverflow ==
    /\ phase = "write"
    /\ idx = Len(vs)
    /\ \/ /\ pos > FooterOff
          /\ Fail
       \/ /\ pos <= FooterOff
          /\ phase' = "footer"
          /\ UNCHANGED rc
    /\ UNCHANGED <<args, out, vs, idx, pos, buf>>

\* ovmf.py:492-496: the footer at 0x41000, the whole buffer to the file.
WriteFooter ==
    /\ phase = "footer"
    /\ out' = [exists |-> TRUE, content |-> Flushed(buf, pos)]
    /\ phase' = "done"
    /\ rc' = 0
    /\ UNCHANGED <<args, vs, idx, pos, buf>>

-----------------------------------------------------------------------------
(* cmd_generate_blank                                                      *)

\* ovmf.py:503-505.
BlankCheck ==
    /\ phase = "check"
    /\ args.cmd = "blank"
    /\ \/ /\ out.exists /\ ~args.force
          /\ Fail
       \/ /\ ~out.exists \/ args.force
          /\ phase' = "open"
          /\ UNCHANGED rc
    /\ UNCHANGED <<args, out, vs, idx, pos, buf>>

\* ovmf.py:507-515: open, headers, footer and the whole buffer, in one go.
BlankWrite ==
    /\ phase = "open"
    /\ args.cmd = "blank"
    /\ buf' = HeaderWrites
    /\ pos' = RecordsStart
    /\ out' = [exists |-> TRUE, content |-> Flushed(HeaderWrites, RecordsStart)]
    /\ phase' = "done"
    /\ rc' = 0
    /\ UNCHANGED <<args, vs, idx>>

-----------------------------------------------------------------------------
(* Another process creates the output path while the command runs, in the  *)
(* window between the existence check and open().                          *)

RaceCreate ==
    /\ phase # "done"
    /\ ~out.exists
    /\ out' = [exists |-> TRUE, content |-> UserFile]
    /\ UNCHANGED <<args, phase, rc, vs, idx, pos, buf>>

Tool == \/ CompileCheck \/ LoadDocument
        \/ OpenOutput
        \/ WriteVar \/ CheckOverflow \/ WriteFooter
        \/ BlankCheck \/ BlankWrite

Next == Tool \/ RaceCreate

\* The command is one sequential process that never blocks: weak fairness.
Spec == Init /\ [][Next]_vars /\ WF_vars(Tool)

-----------------------------------------------------------------------------
(* Properties                                                              *)

\* A command that returns 0 has left in the output file exactly the image of
\* the document's entries, in document order, all of them before the footer
\* at 0x41000 (cmd_compile/cmd_generate_blank and their "Too many variables"
\* check).
SuccessImpliesImage ==
    (phase = "done" /\ rc = 0) =>
        LET rs == IF args.cmd = "compile" THEN Build(args.doc) ELSE << >> IN
        /\ out = [exists |-> TRUE, content |-> ExpectedImage(rs)]
        /\ RecordOffsets(RecordsStart, rs)[Len(rs)] <= FooterOff

\* The buffer is well formed while records are written: the headers first,
\* then vs[1..idx] in order, each write starting on a 4-byte boundary where
\* the previous one ended, and pos at the end of the last.  This is what
\* makes the reader's absolute-offset padding (ovmf.py:253-254) agree with
\* the writer's record-relative padding (ovmf.py:301-302).
BufferWellFormed ==
    phase \in {"write", "footer"} =>
        /\ Len(buf) = idx + 2
        /\ idx <= Len(vs)
        /\ SubSeq(buf, 1, 2) = HeaderWrites
        /\ \A k \in 1..idx : buf[k + 2].c = VarChunk(vs[k])
        /\ \A k \in 2..Len(buf) : buf[k].at = buf[k - 1].at + ChunkSize(buf[k - 1].c)
        /\ \A k \in 2..Len(buf) : buf[k].at % 4 = 0
        /\ pos = buf[Len(buf)].at + ChunkSize(buf[Len(buf)].c)
        /\ pos % 4 = 0

\* A compile that returns 0 has written, for each entry of the document in
\* order, a record header a firmware reads back as that entry: the name, a
\* NameSize that is the length of the name in UTF-16 with its two-byte
\* terminator (not twice its code points, ovmf.py:285), and the flags,
\* monotonic count and public key index of the document, unmasked and
\* within the widths of the header's fields (ovmf.py:292-297).
WrittenHeadersMatchDocument ==
    (phase = "done" /\ rc = 0 /\ args.cmd = "compile") =>
        LET ws == out.content.writes
            n  == Len(args.doc.vars)
        IN  /\ Len(ws) = n + 3
            /\ \A i \in 1..n :
                  LET r  == ws[i + 2].c.rec
                      it == args.doc.vars[i]
                  IN  /\ r.name = it.name
                      /\ r.nameLen = 2 * Units(it.name) + 2
                      /\ r.flags = FlagsWord(it.val) /\ Fits(r.flags, 32)
                      /\ r.monotonicCount = it.val.mono /\ Fits(r.monotonicCount, 64)
                      /\ r.pubKeyIdx = it.val.pki /\ Fits(r.pubKeyIdx, 32)

\* When the command has finished, the output file holds what it held before
\* or a complete image, never the truncated file: spec section 7 says
\* compile "never write[s] before the in-memory image is fully assembled".
OutputAtomic == phase = "done" => out.content # Empty

\* A file at the output path that the command did not write is replaced only
\* under --force (the guard at ovmf.py:465 and 503).
NoClobber == [][out.content = UserFile /\ out'.content # UserFile => args.force]_out

=============================================================================
