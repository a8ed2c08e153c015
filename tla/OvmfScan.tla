------------------------------ MODULE OvmfScan ------------------------------
(***************************************************************************)
(* The two commands of src/utils/ovmf.py that read an image: dump          *)
(* (cmd_dump, ovmf.py:379-399) and export (cmd_export, ovmf.py:401-457),   *)
(* as steps of one sequential process: the volume header, the store        *)
(* header, then one step per record until the 0xFFFF sentinel, and for     *)
(* export the document written to a file or to stdout.                     *)
(*                                                                         *)
(* An input image is a sequence of writes (offset and chunk) over 0xFF     *)
(* bytes and a file length, as OvmfFormat lays them out.  A record that    *)
(* runs past the end of the file makes the command fail: either decoding   *)
(* the short name raises, or the next header read is short and             *)
(* struct.unpack raises; what dump prints before that is not modelled.     *)
(***************************************************************************)
EXTENDS OvmfFormat

CONSTANTS
    InputImages,  \* the files the input path may hold
    UserFile,     \* content of an output file the command did not write
    NoFile,       \* content of an absent file
    NoDoc,        \* no document emitted yet
    NoRc          \* exit status not yet returned

ASSUME ScanAssumption ==
    /\ \A img \in InputImages : img.writes[1].c.kind = "fv"
    /\ UserFile # NoFile

VARIABLES
    args,     \* command line and input: [cmd, deleted, force, toFile, inputExists, img]
    phase,    \* the statement the command is at
    rc,       \* exit status
    pos,      \* f.tell() on the input
    shown,    \* records dump has printed
    doc,      \* doc["Variables"] of export, flattened in iteration order
    emitted,  \* the document export has written (to the file or to stdout)
    out       \* export's output file: [exists, content]

vars == <<args, phase, rc, pos, shown, doc, emitted, out>>

Phases == {"check", "fvh", "vsh", "scan", "emit", "done"}

Args == [cmd : {"dump", "export"}, deleted : BOOLEAN, force : BOOLEAN,
         toFile : BOOLEAN, inputExists : BOOLEAN, img : InputImages]

-----------------------------------------------------------------------------
(* Reading the image.                                                      *)

\* FirmwareVolumeHeader.deserialize (ovmf.py:122-138): 56 bytes, the magic
\* and GUID checks, then 8-byte block-map entries up to the first (0, 0).
FvEntries(h) == h.blkInfo \o << <<0, 0>> >>
FvStop(h)    == CHOOSE k \in 1..Len(FvEntries(h)) :
                    /\ FvEntries(h)[k] = <<0, 0>>
                    /\ \A j \in 1..(k - 1) : FvEntries(h)[j] # <<0, 0>>
FvReadLen(h) == FvPrefixLen + BlockEntryLen * FvStop(h)

FvHeaderOk(img) ==
    LET h == img.writes[1].c.hdr IN
    /\ img.len >= FvReadLen(h)
    /\ h.magic = FV_MAGIC
    /\ h.fsGuid = FsGuid

\* The indices of the writes that start at p.
StartsAt(img, p) == {k \in 1..Len(img.writes) : img.writes[k].at = p}

\* VariableStoreHeader.deserialize (ovmf.py:189-200) at p: 28 bytes, the
\* GUID, format 0x5A and state 0xFE.  Bytes read from inside the volume
\* header never carry the store GUID.
StoreHeaderOk(img, p) ==
    /\ p + StoreHeaderLen <= img.len
    /\ \E k \in StartsAt(img, p) :
          LET c == img.writes[k].c IN
          /\ c.kind = "store"
          /\ c.hdr.hdrGuid = StoreGuid
          /\ c.hdr.fmt = 90
          /\ c.hdr.state = 254

\* The magic AuthenticatedVariable.deserialize finds at p: a record's, the
\* footer's first two bytes, 0xFFFF over erased bytes, and over the inside of
\* another write either 0xFFFF or some other value (0 stands for it).
Covered(img, p) ==
    \E k \in 1..Len(img.writes) :
        img.writes[k].at < p /\ p < img.writes[k].at + ChunkSize(img.writes[k].c)

MagicsAt(img, p) ==
    IF StartsAt(img, p) # {}
    THEN LET c == img.writes[CHOOSE k \in StartsAt(img, p) : TRUE].c IN
         {CASE c.kind = "var"    -> c.rec.magic
            [] c.kind = "footer" -> FooterMagic
            [] OTHER             -> 0}
    ELSE IF Covered(img, p) THEN {ErasedMagic, 0} ELSE {ErasedMagic}

RecordAt(img, p) == img.writes[CHOOSE k \in StartsAt(img, p) : TRUE].c.rec

\* Padding read without the "if": an aligned position skips 4 bytes.
ReadAlignAlways(p) == p + (4 - (p % 4))

\* ovmf.py:253-254: the reader pads the absolute position.
ReadAlign(p) == IF p % 4 # 0 THEN p + (4 - (p % 4)) ELSE p

\* decode("utf-16le").rstrip("\0") (ovmf.py:251) of the name and its NUL.
StripNul(n) ==
    LET keep == CHOOSE j \in 0..Len(n) :
                    /\ \A i \in (j + 1)..Len(n) : n[i] = "z"
                    /\ (j = 0 \/ n[j] # "z")
    IN  SubSeq(n, 1, keep)

Decoded(r) == [r EXCEPT !.name = StripNul(r.name)]

\* UEFITime.time (ovmf.py:101-106): None for year 0; otherwise datetime()
\* raises on an invalid date, and timezone() on an offset of 24 h or more
\* unless the field is 2047 (UTC).
TimeOk(t) == t.zero \/ (t.valid /\ (t.tz = 2047 \/ (-1440 < t.tz /\ t.tz < 1440)))

ExportTime(t) == IF t.zero THEN NoTime
                 ELSE [offset |-> IF t.tz = 2047 THEN 0 ELSE t.tz]

-----------------------------------------------------------------------------
(* The entry export writes for a record (ovmf.py:418-443).                 *)

FlagOfName(n) == CASE n = "Boot Access"                           -> BOOTSERVICE_ACCESS
                   [] n = "Runtime Access"                        -> RUNTIME_ACCESS
                   [] n = "Hardware Error Record"                 -> HARDWARE_ERROR_RECORD
                   [] n = "Authenticated Write Access"            -> AUTHENTICATED_WRITE_ACCESS
                   [] n = "Time Based Authenticated Write Access" -> TIME_BASED_AUTHENTICATED_WRITE_ACCESS
                   [] n = "Append Write"                          -> APPEND_WRITE

ExportEntry(r) ==
    [data |-> r.data, mono |-> r.monotonicCount, pki |-> r.pubKeyIdx,
     volatile |-> ~Bit(r.flags, NON_VOLATILE),
     set |-> {n \in FlagNames : Bit(r.flags, FlagOfName(n))},
     flags |-> r.flags - (r.flags % 128),          \* flags & ~sum(VariableFlags)
     ts |-> ExportTime(r.timestamp)]

\* doc["Variables"][v] = {} in place of setdefault: the vendor's earlier
\* names are dropped and it moves to the end.
PutReset(d, v, n, e) ==
    Append(SelectSeq(d, LAMBDA x : x.vendor # v), [vendor |-> v, name |-> n, val |-> e])

\* doc["Variables"].setdefault(v, {})[n] = e on the flattened mapping: a
\* key already there keeps its place and takes the new value; a new name
\* goes after the vendor's last one, a new vendor at the end.
Put(d, v, n, e) ==
    LET it   == [vendor |-> v, name |-> n, val |-> e]
        same == {i \in 1..Len(d) : d[i].vendor = v /\ d[i].name = n}
        ofV  == {i \in 1..Len(d) : d[i].vendor = v}
        last == CHOOSE j \in ofV : \A i \in ofV : i <= j
    IN  IF same # {} THEN [d EXCEPT ![CHOOSE i \in same : TRUE].val = e]
        ELSE IF ofV = {} THEN Append(d, it)
        ELSE SubSeq(d, 1, last) \o << it >> \o SubSeq(d, last + 1, Len(d))

-----------------------------------------------------------------------------

TypeOK ==
    /\ args \in Args
    /\ phase \in Phases
    /\ rc \in {NoRc, 0, 1}
    /\ pos \in Nat
    /\ shown \in Seq(VarRecord)
    /\ doc \in Seq(Items)
    /\ emitted \in {NoDoc} \cup [hasVars : {TRUE}, vars : Seq(Items)]
    /\ out \in [exists : BOOLEAN, content : {NoFile, UserFile} \cup [hasVars : {TRUE}, vars : Seq(Items)]]

Init ==
    /\ args \in Args
    /\ phase = "check"
    /\ rc = NoRc
    /\ pos = 0
    /\ shown = << >>
    /\ doc = << >>
    /\ emitted = NoDoc
    /\ out \in {[exists |-> FALSE, content |-> NoFile],
                [exists |-> TRUE, content |-> UserFile]}

Fail == /\ phase' = "done"
        /\ rc' = 1

\* ovmf.py:380-383 and 402-406: the input must exist.
ScanCheck ==
    /\ phase = "check"
    /\ \/ /\ ~args.inputExists
          /\ Fail
       \/ /\ args.inputExists
          /\ phase' = "fvh"
          /\ UNCHANGED rc
    /\ UNCHANGED <<args, pos, shown, doc, emitted, out>>

\* ovmf.py:386 and 410 (dump prints the header, 387).
ReadFvHeader ==
    /\ phase = "fvh"
    /\ \/ /\ FvHeaderOk(args.img)
          /\ pos' = FvReadLen(args.img.writes[1].c.hdr)
          /\ phase' = "vsh"
          /\ UNCHANGED rc
       \/ /\ ~FvHeaderOk(args.img)
          /\ Fail
          /\ UNCHANGED pos
    /\ UNCHANGED <<args, shown, doc, emitted, out>>

\* ovmf.py:388 and 411.
ReadStoreHeader ==
    /\ phase = "vsh"
    /\ \/ /\ StoreHeaderOk(args.img, pos)
          /\ pos' = pos + StoreHeaderLen
          /\ phase' = "scan"
          /\ UNCHANGED rc
       \/ /\ ~StoreHeaderOk(args.img, pos)
          /\ Fail
          /\ UNCHANGED pos
    /\ UNCHANGED <<args, shown, doc, emitted, out>>

\* What dump does with a decoded record (ovmf.py:394-395): print it unless
\* it is deleted and --deleted is off; print() evaluates timestamp.time.
DumpRecord(r) ==
    \/ /\ IsDeleted(r) /\ ~args.deleted
       /\ UNCHANGED <<phase, rc, shown>>
    \/ /\ ~IsDeleted(r) \/ args.deleted
       /\ TimeOk(r.timestamp)
       /\ shown' = Append(shown, Decoded(r))
       /\ UNCHANGED <<phase, rc>>
    \/ /\ ~IsDeleted(r) \/ args.deleted
       /\ ~TimeOk(r.timestamp)
       /\ Fail
       /\ UNCHANGED shown

\* What export does with a decoded record (ovmf.py:416-444).
ExportRecord(r) ==
    \/ /\ IsDeleted(r)
       /\ UNCHANGED <<phase, rc, doc>>
    \/ /\ ~IsDeleted(r)
       /\ TimeOk(r.timestamp)
       /\ doc' = Put(doc, Resolve(r.vendor), StripNul(r.name), ExportEntry(r))
       /\ UNCHANGED <<phase, rc>>
    \/ /\ ~IsDeleted(r)
       /\ ~TimeOk(r.timestamp)
       /\ Fail
       /\ UNCHANGED doc

\* One AuthenticatedVariable.deserialize (ovmf.py:240-255) and the body of
\* the loop around it (ovmf.py:390-395, 412-444).
ReadVar ==
    /\ phase = "scan"
    /\ LET img == args.img IN
       \/ /\ pos + VarHeaderLen > img.len
          /\ Fail
          /\ UNCHANGED <<pos, shown, doc>>
       \/ /\ pos + VarHeaderLen <= img.len
          /\ \E m \in MagicsAt(img, pos) :
                \/ /\ m = ErasedMagic
                   /\ IF args.cmd = "dump" THEN phase' = "done" /\ rc' = 0
                                           ELSE phase' = "emit" /\ rc' = rc
                   /\ UNCHANGED <<pos, shown, doc>>
                \/ /\ m # ErasedMagic /\ m # VarMagic
                   /\ Fail
                   /\ UNCHANGED <<pos, shown, doc>>
                \/ /\ m = VarMagic
                   /\ LET r == RecordAt(img, pos)
                          end == pos + VarHeaderLen + r.nameLen + r.dataLen IN
                      \/ /\ end > img.len
                         /\ Fail
                         /\ UNCHANGED <<pos, shown, doc>>
                      \/ /\ end <= img.len
                         /\ pos' = ReadAlign(end)
                         /\ IF args.cmd = "dump"
                            THEN DumpRecord(r) /\ UNCHANGED doc
                            ELSE ExportRecord(r) /\ UNCHANGED shown
    /\ UNCHANGED <<args, emitted, out>>

\* ovmf.py:445-454: yaml.dump, then the file (guarded by --force) or stdout.
Emit ==
    /\ phase = "emit"
    /\ LET d == [hasVars |-> TRUE, vars |-> doc] IN
       \/ /\ args.toFile /\ out.exists /\ ~args.force
          /\ Fail
          /\ UNCHANGED <<emitted, out>>
       \/ /\ args.toFile /\ (~out.exists \/ args.force)
          /\ out' = [exists |-> TRUE, content |-> d]
          /\ emitted' = d
          /\ phase' = "done" /\ rc' = 0
       \/ /\ ~args.toFile
          /\ emitted' = d
          /\ phase' = "done" /\ rc' = 0
          /\ UNCHANGED out
    /\ UNCHANGED <<args, pos, shown, doc>>

Next == ScanCheck \/ ReadFvHeader \/ ReadStoreHeader \/ ReadVar \/ Emit

\* One sequential process that never blocks: weak fairness.
Spec == Init /\ [][Next]_vars /\ WF_vars(Next)

-----------------------------------------------------------------------------
(* Properties                                                              *)

\* The records an image laid out by ImageLayout holds, in order.
ImageRecords(img) == [i \in 1..(Len(img.writes) - 3) |-> img.writes[i + 2].c.rec]

ImageOffsets(img) ==
    RecordOffsets(FvHeaderSize(img.writes[1].c.hdr) + StoreHeaderLen, ImageRecords(img))

Live(r)      == ~IsDeleted(r)
Committed(r) == Bit(255 - r.state, VAR_ADDED)
Key(r)       == <<Resolve(r.vendor), StripNul(r.name)>>

\* The document the spec's export promises for the live records ls: one
\* entry per (vendor name, variable name), holding the value of the last
\* record with that key, vendors in order of first appearance and names
\* within a vendor likewise.
ExportOf(d, ls) ==
    LET keys    == {Key(ls[i]) : i \in 1..Len(ls)}
        KeyOf(i) == <<d[i].vendor, d[i].name>>
        FirstV(v) == CHOOSE i \in 1..Len(ls) :
                        Resolve(ls[i].vendor) = v /\ \A j \in 1..(i - 1) : Resolve(ls[j].vendor) # v
        FirstK(k) == CHOOSE i \in 1..Len(ls) :
                        Key(ls[i]) = k /\ \A j \in 1..(i - 1) : Key(ls[j]) # k
        LastK(k)  == CHOOSE i \in 1..Len(ls) :
                        Key(ls[i]) = k /\ \A j \in (i + 1)..Len(ls) : Key(ls[j]) # k
    IN  /\ {KeyOf(i) : i \in 1..Len(d)} = keys
        /\ \A i, j \in 1..Len(d) : i < j =>
              \/ FirstV(d[i].vendor) < FirstV(d[j].vendor)
              \/ d[i].vendor = d[j].vendor /\ FirstK(KeyOf(i)) < FirstK(KeyOf(j))
        /\ \A i \in 1..Len(d) : d[i].val = ExportEntry(ls[LastK(KeyOf(i))])

\* A command that returns 0 has read every record of the image: dump has
\* printed each one that is live or, under --deleted, each one, decoded, in
\* order; export has written the mapping of the live records.
DecodeMatchesImage ==
    (phase = "done" /\ rc = 0) =>
        LET rs == ImageRecords(args.img) IN
        IF args.cmd = "dump"
        THEN LET sel == SelectSeq(rs, LAMBDA r : args.deleted \/ Live(r)) IN
             shown = [i \in 1..Len(sel) |-> Decoded(sel[i])]
        ELSE ExportOf(emitted.vars, SelectSeq(rs, Live))

\* The reader stays in step with the writer's layout: between records,
\* f.tell() is where a record of the image starts, or just past the last
\* one, so the reader's absolute padding (ovmf.py:253-254) and the
\* writer's record-relative padding (ovmf.py:301-302) agree.
ScanInSync ==
    phase = "scan" =>
        pos \in {ImageOffsets(args.img)[k] : k \in 0..Len(ImageRecords(args.img))}

\* An image compile wrote: the reference layout of fresh records, with the
\* timestamps UEFITime(t) builds, that passed serialize() and the 0x41000
\* check.
IsCompiledImage(img) ==
    LET rs == ImageRecords(img) IN
    /\ img = ExpectedImage(rs)
    /\ \A i \in 1..Len(rs) :
          /\ rs[i].state = NewState
          /\ rs[i].timestamp \in {FromDocTime(NoTime), FromDocTime([offset |-> 0])}
          /\ SerializeOk(rs[i])
    /\ RecordOffsets(RecordsStart, rs)[Len(rs)] <= FooterOff

\* Spec section 8: decode(encode(x)) == x.  Dumping an image compile wrote
\* succeeds and shows the records compile wrote.
EncodeDecode ==
    (phase = "done" /\ args.cmd = "dump" /\ args.inputExists
        /\ IsCompiledImage(args.img)) =>
        rc = 0 /\ shown = ImageRecords(args.img)

\* The document export writes is one compile accepts (spec section 4.1:
\* lookup by name falls back to parsing only when the name is not in the
\* registry), so export then compile round-trips.
ExportedDocCompiles ==
    (phase = "done" /\ rc = 0 /\ args.cmd = "export") => DocOk(emitted)

\* Every value export writes is that of a record the firmware committed
\* (VAR_ADDED set), never of one whose header alone was written before a
\* crash (VAR_HEADER_VALID_ONLY).
ExportsCommitted ==
    (phase = "done" /\ rc = 0 /\ args.cmd = "export") =>
        \A i \in 1..Len(emitted.vars) :
            \E r \in {ImageRecords(args.img)[k] : k \in 1..Len(ImageRecords(args.img))} :
                /\ Committed(r) /\ Live(r)
                /\ Key(r) = <<emitted.vars[i].vendor, emitted.vars[i].name>>
                /\ emitted.vars[i].val = ExportEntry(r)
=============================================================================
