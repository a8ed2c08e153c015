----------------------------- MODULE OvmfFormat -----------------------------
(***************************************************************************)
(* The on-disk format of an OVMF_VARS image, as src/utils/ovmf.py writes   *)
(* and reads it: fixed constants, the default headers, the state-byte and  *)
(* flag bit algebra, the UUID registry, and the construction of a variable *)
(* record from a YAML document entry (deserializeFromDocument) together    *)
(* with the checks serialize() makes before it packs a record.             *)
(*                                                                         *)
(* Data is abstracted to what the properties distinguish: a GUID is a      *)
(* model value, a name is a sequence of characters that are either in the  *)
(* Basic Multilingual Plane ("b", one UTF-16 unit), outside it ("s", a     *)
(* surrogate pair) or NUL ("z"); a data blob is its length and an opaque   *)
(* content tag.  All lengths and offsets are kept exact.                   *)
(***************************************************************************)
EXTENDS Integers, Sequences, FiniteSets

CONSTANTS
    Guids,        \* vendor GUIDs that occur in documents and images
    FsGuid,       \* gEfiSystemNvDataFvGuid        (ovmf.py:52)
    StoreGuid,    \* gEfiAuthenticatedVariableGuid (ovmf.py:53)
    Registered,   \* GUIDs the UUIDRegistry table names (ovmf.py:52-67)
    PayloadIds,   \* opaque contents of data blobs
    NotMap,       \* a YAML value that is not a mapping
    IntKey,       \* a YAML mapping key that is not a string
    BadData,      \* a "Data" value that has no len() (an int, None)
    BadTime,      \* a "Timestamp" value that is not a datetime
    NoTime,       \* no "Timestamp" key
    Malformed     \* a vendor key that is neither a symbol nor a GUID string

AllGuids == Guids \cup {FsGuid, StoreGuid}

ASSUME GuidAssumption ==
    /\ FsGuid # StoreGuid
    /\ Registered \subseteq AllGuids
    /\ {FsGuid, StoreGuid} \subseteq Registered

ASSUME SentinelAssumption ==
    /\ BadData \notin [len : Nat, id : PayloadIds]
    /\ BadTime # NoTime

-----------------------------------------------------------------------------
(* Fixed constants of the layout (ovmf.py:14, 126, 155-163, 192, 212,      *)
(* 244, 247-249, 483, 490-493).                                            *)

FV_MAGIC        == 1213613663     \* 0x4856465F
FvPrefixLen     == 56             \* struct "<16s16sQIIHHHBB"
BlockEntryLen   == 8              \* struct "<II"
StoreHeaderLen  == 28             \* struct "<16sIBBHI"
VarHeaderLen    == 60             \* struct "<HBBIQ16sIII16s"
VarMagic        == 21930          \* 0x55AA
ErasedMagic     == 65535          \* 0xFFFF
VolumeLen       == 540672         \* 528 * 1024
StoreLen        == 262072
FooterOff       == 266240         \* 0x41000
FooterLen       == 32
FooterMagic     == 10539          \* first two footer bytes 2b 29, read as "<H"

-----------------------------------------------------------------------------
(* Bit algebra on Python ints without Bitwise: v is a power of two; floor *)
(* division and the non-negative modulus give two's-complement bits, as   *)
(* Python's | does on negative ints too.                                   *)

Bit(x, v)     == (x \div v) % 2 = 1
SetBit(x, v)  == IF Bit(x, v) THEN x ELSE x + v
OrIf(x, c, v) == IF c THEN SetBit(x, v) ELSE x

\* VariableState (ovmf.py:16-20); x ^ 0xFF on a byte is 255 - x.
VAR_ADDED                 == 64
VAR_HEADER_VALID_ONLY     == 255 - 127
VAR_DELETED               == 255 - 253
VAR_IN_DELETED_TRANSITION == 255 - 254

\* NewState computed with Python's ~ instead of ^ 0xFF (a negative int).
NewStateComplement == -(VAR_ADDED + VAR_HEADER_VALID_ONLY) - 1

\* The state byte of a fresh record: (VAR_ADDED | VAR_HEADER_VALID_ONLY) ^ 0xFF.
NewState == 255 - (VAR_ADDED + VAR_HEADER_VALID_ONLY)

\* AuthenticatedVariable.isDeleted (ovmf.py:305-307).
IsDeleted(r) == Bit(255 - r.state, VAR_DELETED)

\* VariableFlags (ovmf.py:22-29).
NON_VOLATILE                          == 1
BOOTSERVICE_ACCESS                    == 2
RUNTIME_ACCESS                        == 4
HARDWARE_ERROR_RECORD                 == 8
AUTHENTICATED_WRITE_ACCESS            == 16
TIME_BASED_AUTHENTICATED_WRITE_ACCESS == 32
APPEND_WRITE                          == 64

\* The document keys of the named flags (ovmf.py:265-276).
FlagNames == {"Boot Access", "Runtime Access", "Hardware Error Record",
              "Authenticated Write Access",
              "Time Based Authenticated Write Access", "Append Write"}

-----------------------------------------------------------------------------
(* UUIDRegistry (ovmf.py:31-48).  A vendor key of a document is the        *)
(* symbolic name of a registered GUID, the string form of a GUID, or       *)
(* neither.                                                                *)

Sym(g)     == [sym |-> g]
GuidStr(g) == [str |-> g]
VendorIds  == {Sym(g) : g \in Registered} \cup {GuidStr(g) : g \in AllGuids} \cup {Malformed}

\* export writing the UUID itself instead of resolve()'s name or string.
ResolveRaw(g) == g

Resolve(g) == IF g \in Registered THEN Sym(g) ELSE GuidStr(g)

\* lookup() passes uuid.UUID(name) as the default of dict.get, so it is
\* evaluated, and raises, before the table is consulted: only a GUID string
\* is accepted.
LookupOk(n)  == \E g \in AllGuids : n = GuidStr(g)
LookupVal(n) == CHOOSE g \in AllGuids : n = GuidStr(g)

-----------------------------------------------------------------------------
(* Values.                                                                 *)

Chars     == {"b", "s", "z"}
Units(n)  == Len(n) + Cardinality({i \in 1..Len(n) : n[i] = "s"})
Payloads  == [len : Nat, id : PayloadIds]

\* A UEFITime (ovmf.py:69-99): whether year is 0, whether the calendar
\* fields form a valid date, and the timezone field.
UefiTimes == [zero : BOOLEAN, valid : BOOLEAN, tz : Int]
ZeroTime  == [zero |-> TRUE, valid |-> FALSE, tz |-> 0]

\* UEFITime(t) (ovmf.py:70-85): a datetime keeps its fields and drops its
\* offset (timezone = 0); None gives the all-zero time.
FromDocTime(t) == IF t = NoTime THEN ZeroTime
                  ELSE [zero |-> FALSE, valid |-> TRUE, tz |-> 0]

\* An AuthenticatedVariable (ovmf.py:225-238).
VarRecord == [magic : Int, state : 0..255, reserved1 : Int, flags : Int,
              monotonicCount : Int, timestamp : UefiTimes, pubKeyIdx : Int,
              nameLen : Int, dataLen : Int, vendor : AllGuids,
              name : Seq(Chars), data : Payloads]

\* The attributes of one variable in the YAML document: "Data", "Flags",
\* "Volatile", the named boolean flags that are true, "Monotonic Count",
\* "Public Key Index" and "Timestamp" (an offset in minutes, or a sentinel).
Entries == [data : Payloads \cup {BadData}, flags : Int, volatile : BOOLEAN,
            set : SUBSET FlagNames, mono : Int, pki : Int,
            ts : [offset : Int] \cup {BadTime, NoTime}]

\* The document: a mapping without "Variables", or Variables as NotMap, or
\* the two-level mapping flattened in its iteration order into items
\* (vendor key, variable key, value); a vendor whose value is not a mapping
\* contributes an item with name NotMap.
Items == [vendor : VendorIds, name : Seq(Chars) \cup {IntKey, NotMap},
          val : Entries \cup {NotMap}]
Docs  == {NotMap} \cup [hasVars : BOOLEAN, vars : Seq(Items) \cup {NotMap}]

-----------------------------------------------------------------------------
(* Compiling a document entry (ovmf.py:257-288).                           *)

\* The flag word: "Flags" or 0, then one |= per true attribute, in order.
FlagsWord(e) ==
    LET f0 == OrIf(e.flags, ~e.volatile, NON_VOLATILE)
        f1 == OrIf(f0, "Boot Access" \in e.set, BOOTSERVICE_ACCESS)
        f2 == OrIf(f1, "Runtime Access" \in e.set, RUNTIME_ACCESS)
        f3 == OrIf(f2, "Hardware Error Record" \in e.set, HARDWARE_ERROR_RECORD)
        f4 == OrIf(f3, "Authenticated Write Access" \in e.set,
                   AUTHENTICATED_WRITE_ACCESS)
        f5 == OrIf(f4, "Time Based Authenticated Write Access" \in e.set,
                   TIME_BASED_AUTHENTICATED_WRITE_ACCESS)
    IN  OrIf(f5, "Append Write" \in e.set, APPEND_WRITE)

\* deserializeFromDocument raises (before any output is opened) when the
\* timestamp is not a datetime, the data has no len(), the name has no
\* len(), or the vendor key is not a GUID string.
EntryOk(it) == /\ it.val.ts # BadTime
               /\ it.val.data # BadData
               /\ it.name # IntKey
               /\ LookupOk(it.vendor)

deserializeFromDocument(it) ==
    [magic |-> VarMagic, state |-> NewState, reserved1 |-> 0,
     flags |-> FlagsWord(it.val), monotonicCount |-> it.val.mono,
     timestamp |-> FromDocTime(it.val.ts), pubKeyIdx |-> it.val.pki,
     nameLen |-> 2 * Len(it.name) + 2, dataLen |-> it.val.data.len,
     vendor |-> LookupVal(it.vendor), name |-> it.name, data |-> it.val.data]

\* cmd_compile's checks of the document shape (ovmf.py:471-479) and of
\* every entry.
DocOk(doc) ==
    /\ doc # NotMap
    /\ doc.hasVars
    /\ doc.vars # NotMap
    /\ \A i \in 1..Len(doc.vars) :
          /\ doc.vars[i].name # NotMap
          /\ doc.vars[i].val # NotMap
          /\ EntryOk(doc.vars[i])

Build(doc) == [i \in 1..Len(doc.vars) |-> deserializeFromDocument(doc.vars[i])]

-----------------------------------------------------------------------------
(* serialize (ovmf.py:290-303).                                            *)

\* x is in 0..2^w-1 for w a multiple of 16, without forming 2^w.
Shr16(x, n) == LET f[i \in 0..n] == IF i = 0 THEN x ELSE f[i - 1] \div 65536 IN f[n]
Fits(x, w)  == x >= 0 /\ Shr16(x, w \div 16) = 0

\* serialize without its first assertion: a name size computed from code
\* points is written as it is.
SerializeOkUnasserted(r) == /\ r.dataLen = r.data.len
                            /\ Fits(r.flags, 32)
                            /\ Fits(r.monotonicCount, 64)
                            /\ Fits(r.pubKeyIdx, 32)
                            /\ Fits(r.nameLen, 32)
                            /\ Fits(r.dataLen, 32)

\* The two assertions and the ranges struct.pack accepts.
SerializeOk(r) == /\ r.nameLen = 2 * Units(r.name) + 2
                  /\ r.dataLen = r.data.len
                  /\ Fits(r.flags, 32)
                  /\ Fits(r.monotonicCount, 64)
                  /\ Fits(r.pubKeyIdx, 32)
                  /\ Fits(r.nameLen, 32)
                  /\ Fits(r.dataLen, 32)

\* Padding without the outer "% 4": an aligned length gains 4 bytes.
Pad4Always(n) == n + (4 - (n % 4))

\* n followed by the bytes of erase value 0xFF that bring it to a multiple
\* of 4.
Pad4(n) == n + ((4 - (n % 4)) % 4)

\* Length of the serialized record, padding included.
RecSize(r) == Pad4(VarHeaderLen + r.nameLen + r.dataLen)

-----------------------------------------------------------------------------
(* Headers (ovmf.py:150-164, 208-216); the 16-byte reset vector is zeros   *)
(* and is left out.                                                        *)

DefaultFvHeader ==
    [fsGuid |-> FsGuid, fvLen |-> VolumeLen, magic |-> FV_MAGIC,
     flags |-> 327423, hdrLen |-> 72, checksum |-> 47279, extHdrOff |-> 0,
     reserved |-> 0, rev |-> 2, blkInfo |-> << <<132, 4096>> >>]

FvHeaderSize(h) == FvPrefixLen + BlockEntryLen * (Len(h.blkInfo) + 1)

DefaultStoreHeader ==
    [hdrGuid |-> StoreGuid, len |-> StoreLen, fmt |-> 90, state |-> 254,
     reserved1 |-> 0, reserved2 |-> 0]

\* A region of the image written by one write(): a header, a record or the
\* fixed footer blob; the rest of the image is erase value 0xFF.
FvChunk      == [kind |-> "fv", hdr |-> DefaultFvHeader]
StoreChunk   == [kind |-> "store", hdr |-> DefaultStoreHeader]
VarChunk(r)  == [kind |-> "var", rec |-> r]
FooterChunk  == [kind |-> "footer"]

ChunkSize(c) == CASE c.kind = "fv"     -> FvHeaderSize(c.hdr)
                  [] c.kind = "store"  -> StoreHeaderLen
                  [] c.kind = "var"    -> RecSize(c.rec)
                  [] c.kind = "footer" -> FooterLen

\* Where the first record starts: after both default headers.
RecordsStart == FvHeaderSize(DefaultFvHeader) + StoreHeaderLen

-----------------------------------------------------------------------------
(* The reference layout of an image (spec section 6): the volume header at *)
(* 0, the store header after it, the records one after another from there, *)
(* each padded to 4 bytes, and the footer at 0x41000; n bytes long.        *)

RecordOffsets(start, rs) ==
    LET off[i \in 0..Len(rs)] ==
            IF i = 0 THEN start ELSE off[i - 1] + RecSize(rs[i])
    IN  off

ImageLayout(h, sh, rs, n) ==
    LET off == RecordOffsets(FvHeaderSize(h) + StoreHeaderLen, rs) IN
    [writes |-> << [at |-> 0, c |-> [kind |-> "fv", hdr |-> h]],
                   [at |-> FvHeaderSize(h), c |-> [kind |-> "store", hdr |-> sh]] >>
                \o [i \in 1..Len(rs) |-> [at |-> off[i - 1], c |-> VarChunk(rs[i])]]
                \o << [at |-> FooterOff, c |-> FooterChunk] >>,
     len |-> n]

\* The image compile must produce for records rs.
ExpectedImage(rs) == ImageLayout(DefaultFvHeader, DefaultStoreHeader, rs, VolumeLen)
=============================================================================
