# TLA+ models of the OVMF variable-store tool

This directory holds TLA+ models of `src/utils/ovmf.py`. That script reads and writes
OVMF_VARS images, the non-volatile UEFI variable store of a virtual machine. The
directory also covers the two small helper scripts of `src/utils/`. It holds:

- the modules and the TLC configurations that model-check them;
- TLAPS proofs of the main invariants.

`PROJECT.json` lists the components, runs, mutants, source map, findings, hazards and
theorems in machine-readable form.

## The system

`ovmf.py` is a single-threaded command-line program with four subcommands. `main`
(lines 520-548) dispatches to them.

| command | function | what it does |
|---|---|---|
| `dump` | `cmd_dump`, 379-399 | Decodes the volume header, the store header, then records until the `0xFFFF` sentinel. It prints each one, skipping deleted records unless `--deleted` is given. |
| `export` | `cmd_export`, 401-457 | Decodes in the same way. It keeps non-deleted records in a two-level mapping (vendor name, then variable name) and writes YAML to stdout, or to a file guarded by `--force`. |
| `compile` | `cmd_compile`, 459-499 | Loads a YAML document and checks its shape. It builds one `AuthenticatedVariable` per entry, then opens the output. Next it fills a 528 KiB buffer with `0xFF` and writes into it the default volume header (72 bytes) and store header (28 bytes). Then come the records in document order, each padded to 4 bytes, then the overflow check against `0x41000`, and the fixed footer at `0x41000`. Finally it writes the buffer out. |
| `generate-blank` | `cmd_generate_blank`, 501-518 | Writes the same image with no records. |

These commands use the following codecs:

- `UUIDRegistry` (31-48): a fixed GUID/name table. `resolve` maps a GUID to a name, or to its string form. `lookup` maps a name to a GUID, or parses the name as a GUID.
- `UEFITime` (69-106).
- `FirmwareVolumeHeader` (108-178).
- `VariableStoreHeader` (180-223).
- `AuthenticatedVariable` (225-341): its `deserialize`, `deserializeFromDocument`, `serialize` and `isDeleted`.

The on-disk state byte is stored inverted (`x ^ 0xFF`). A fresh record has state
`0x3F`.

Nothing in the program runs concurrently. The behaviours that tests hardly reach are
these:

- the order of the file operations against failures that come later;
- another process touching the output path between the `--force` check and `open()`;
- arithmetic at the layout's boundaries: the padding, the `0x41000` bound, the store
  length and the `struct.pack` ranges;
- what the scan makes of images that compile produced.

`add_module_headers.py` prepends a licence header to `.c` and `.h` files that lack one.
`gen_ksyms.py` turns `nm` output into a C symbol table. The spec treats both as glue
outside the codec.

## Modules

### OvmfFormat

`OvmfFormat` holds the layout constants, the record and document types, and the
compile-side codec as pure operators.

The data is abstracted as follows:

- **GUIDs** are model values. `Registered` is the part of them the registry table names.
  `FsGuid` and `StoreGuid` are the two header GUIDs.
- **A vendor key** of a document is `Sym(g)` (a registered name), `GuidStr(g)` (the
  string form) or `Malformed`.
- **A name** is a sequence over `{"b", "s", "z"}`: a character in the BMP, a character
  outside it (two UTF-16 units), and NUL.
- **Data** is a length and an opaque id.
- **A timestamp** keeps only what the code distinguishes: zero or not, a valid date or
  not, and the timezone field.

The operators, and the code each one follows:

- `FlagsWord` is the chain of `|=` at lines 262-276. Python's `|` is computed with `\div`
  and `%` (`SetBit`), so a negative `Flags` value behaves as it does in Python up to
  3.10, where `int | IntFlag` is a plain integer and `struct.pack` then rejects it.
  From 3.11 on, `IntFlag` maps a negative result into the flags' bits (`-1 | X`
  gives 127), so such a document compiles. The model follows 3.10. The `Flags: -1`
  document of `MC_OvmfCompile` fails late only there. The astral-name and
  past-the-footer documents fail late on every version.
- `EntryOk` and `deserializeFromDocument` follow lines 257-288. `LookupOk` models
  `lookup()` as written: the default argument `uuid.UUID(name)` is evaluated first, so
  only a GUID string is accepted.
- `SerializeOk` is the two assertions of `serialize` plus the ranges `struct.pack`
  accepts. `Fits` checks them without forming `2^64`, which TLC cannot represent.
- `Pad4` and `RecSize` give the padded record length.
- `ChunkSize` gives the size of each kind of write.

### OvmfCompile

`OvmfCompile` models `cmd_compile` and `cmd_generate_blank` as one sequential process.
Its variables are:

- `args`: the subcommand, `--force`, whether the input exists, and the document;
- `phase`: the statement the command is at;
- `rc`: the exit status;
- `out`: whether the output file exists, and its content (`UserFile`, the `Empty` file
  `open(..., "wb")` leaves, or an image);
- `vs`: the records built;
- `idx`: the loop index;
- `pos`: `fm.tell()`;
- `buf`: the writes made into the in-memory buffer, as offset and chunk.

The actions follow the code:

| action | lines |
|---|---|
| `CompileCheck` | 460-467 |
| `LoadDocument` | 468-481 |
| `OpenOutput` | 482-485 |
| `WriteVar` | 486-489 |
| `CheckOverflow` | 490-491 |
| `WriteFooter` | 492-496 |
| `BlankCheck` | 501-505 |
| `BlankWrite` | 506-518 |

Every `return 1` and every exception caught at 497-499 is the `Fail` step. It ends the
command with status 1 and leaves the file as it is at that point.

`RaceCreate` is the environment: another process creates the output path while the
command runs.

### MC_OvmfCompile

`MC_OvmfCompile` gives the constants: two vendor GUIDs, of which one is registered, the
two header GUIDs, and two payload ids. The documents fall into three groups:

- **Good documents:**
  - the empty one;
  - one with two records whose sizes are aligned and unaligned (a name with a NUL, data
    of odd length);
  - one whose single record ends exactly at `0x41000`.
- **Documents rejected before `open()`**, one per check at 471-479 and per exception of
  `deserializeFromDocument`. A symbolic vendor name is among them.
- **Documents that fail after `open()`:**
  - a second record with a name outside the BMP (the assertion at 292);
  - a negative `Flags` value (`struct.pack`);
  - a record that ends 4 bytes past `0x41000` (the overflow check).

With `args` ranging over both commands, `--force`, the input existing or not, and the
output existing or not, every branch of every action happens.

### OvmfScan

`OvmfScan` models `cmd_dump` and `cmd_export` as one sequential process that reads an
input image. The image is a sequence of writes and a file length, laid out as
`ImageLayout` in `OvmfFormat` lays them out.

Its variables are:

- `args`: the subcommand, `--deleted`, `--force`, whether there is an output file,
  whether the input exists, and the image;
- `phase` and `rc`;
- `pos`: `f.tell()`;
- `shown`: the records dump printed;
- `doc`: export's `doc["Variables"]`, flattened in iteration order;
- `emitted`: the document written;
- `out`: the output file.

The actions follow the code:

| action | lines |
|---|---|
| `ScanCheck` | 379-383 and 402-406 |
| `ReadFvHeader` | 122-138: the magic, the GUID, and the block map up to the first `(0, 0)` |
| `ReadStoreHeader` | 189-200 |
| `ReadVar` | One `AuthenticatedVariable.deserialize` (240-255) with the loop body of dump (390-395) or export (412-444). See below. |
| `Emit` | 445-454 |

`ReadVar` covers these outcomes:

- a short header read;
- the sentinel;
- a bad magic: the footer, or the inside of another record;
- a record cut by the end of the file;
- a record, with the deleted filter, the timestamp conversion that may raise, and
  `Put`, the `setdefault`-then-assign update of the mapping.

A record cut by the end of the file is one failing step. In the code, decoding the
odd-length name raises, or the next 60-byte read comes up short. Either way the command
fails, and only dump's printed text differs.

### MC_OvmfScan

`MC_OvmfScan` gives nine images:

- the blank image;
- a compiled image with three records, two of one vendor and one of a registered
  vendor;
- a compiled image whose record ends at `0x41000`;
- an image the firmware has updated: a deleted copy, a committed copy and a header-only
  copy of one variable, plus a record with an astral name and a UTC timestamp;
- an image with a timezone of 3000 minutes;
- the compiled image cut at the end of its first record, and inside it;
- a bad volume magic;
- a block map with an early `(0, 0)` entry.

### Hexdump and MC_Hexdump

`Hexdump` models `hexdump` (ovmf.py:343-377), as `AuthenticatedVariable.print` calls it
on a record's data. The variables are the locals of the loop: `offset`, `consumed`,
`prev_line`, `eliding` and the lines printed so far. `Step` is one iteration that reads
up to 16 bytes and either prints a line, prints `*` for the first repeat of a line, or
prints nothing. `Return` is the empty read that ends the loop. A printed line is its
offset and its bytes; the hex and ASCII columns are formatting and are left out.
`MC_Hexdump` uses payloads of up to five blocks built from two kinds of full 16-byte
line and one 5-byte tail, so runs of repeats, runs that end with the tail and repeats
after a different line all occur.

`HexdumpSpec` is what the helper promises (spec section 4.6), in one step: `Render`
shows the elided rendering of the payload, and nothing is shown before it. `Hexdump`
instantiates it as `Abs`, mapping the shown output to `printed` once `done` holds and to
`<< >>` before then, because `dump` only looks at the output after `hexdump` returns.

### GenKsyms, CStringLiteral and MC_GenKsyms

`GenKsyms` models `gen_ksyms.py` as a straight-line state machine: `ArgvCheck`,
`RunNm`, `ParseLine` (one iteration of the line loop, with every `continue`),
`SortSyms` (the stable `syms.sort`), `AddName` (one iteration of the blob loop) and
`WriteFile`. A line of `nm` output is abstracted to its field count, its address (or a
field `int(_, 16)` rejects), its type letter and its name. Names and the blob are
sequences of character codes, so `encode("ascii", "backslashreplace")` (`AsciiChar`)
and `c_escape_bytes` are modelled byte by byte. A name holds no NUL, because `nm` prints
names from an ELF string table, where a NUL ends the name. `TextSymbols`, the text
symbols the parse loop should keep, is written as a `FlattenSeq` of one piece per line.
The ASSUME `TextSymbolsIsFilter` in `MC_GenKsyms` has TLC check it against the
`SelectSeq` filter on every output of the run.

`CStringLiteral` is the reference: what a C compiler makes of the characters of a
string literal (octal escapes of up to three digits, greedy hex escapes, values above
255 rejected). It is recursive and is used only by `MC_GenKsyms`. The four `nm`
outputs of `MC_GenKsyms` hold an empty output, equal addresses, skipped lines (data,
undefined, `$` names, blank lines), a Latin-1 and a BMP name, and names starting with a
digit or a double quote.

### AddModuleHeaders and MC_AddModuleHeaders

`AddModuleHeaders` models `add_module_headers.py` run several times over one tree,
each time with options the environment chooses (`--check` or `--apply`, a root, the
extensions and extra excludes). `Start` is `main` up to the loop, `Visit` one file
that `rglob` yields in any order (with `_should_exclude`, `iter_source_files`,
`_looks_like_has_header` and `add_header_to_file`), and `Finish` the report and exit
status. A file's content is abstracted to what the script reads and writes: the header
markers in its first 4096 characters, whether it is longer, valid UTF-8 or starts with
a BOM, and the headers prepended to it. `MC_AddModuleHeaders` has eight files: sources
at several depths, a vendored `kernel/ext` file, a `boot` file, a `.C` file, an empty
file, a file that already has a header and a non-UTF-8 file. There are two roots and
at most two runs.

## Runs

| run | cfg | expect | what it shows |
|---|---|---|---|
| `compile_ok` | `OvmfCompile.cfg` | pass | See below. |
| `compile_atomic` | `OvmfCompileAtomic.cfg` | violation | `OutputAtomic` fails. After `open()`, the serialization of a record with a name outside the BMP fails, and the old file is left empty. Spec section 7 says compile never writes before the image is fully assembled. |
| `compile_clobber` | `OvmfCompileClobber.cfg` | violation | `NoClobber` fails. `generate-blank` without `--force` finds no file, another process creates one, and `open()` truncates it. |
| `scan_ok` | `OvmfScan.cfg` | pass | See below. |
| `scan_encode_decode` | `OvmfScanEncodeDecode.cfg` | violation | `EncodeDecode` (spec section 8: `decode(encode(x)) == x`) fails. Compile accepts a record ending exactly at `0x41000`. Dump then reads the footer magic `0x292B` and fails. |
| `scan_recompile` | `OvmfScanRecompile.cfg` | violation | `ExportedDocCompiles` fails. Export writes a registered vendor by its symbolic name, and `lookup()` (line 48) raises on it because its default argument is evaluated first. So export then compile never works for registered vendors. |
| `scan_committed` | `OvmfScanCommitted.cfg` | violation | `ExportsCommitted` fails. After a crash in the middle of an update, export takes the header-only copy's value over the committed one, because it tests only the deleted bit (line 416). |
| `ksyms_ok` | `GenKsyms.cfg` | pass | See below. |
| `ksyms_literal` | `GenKsymsLiteral.cfg` | violation | `NamesLiteralDecodes` fails. `c_escape_bytes` writes a NUL separator as `\0`. When the next name starts with an octal digit, the compiler reads both as one escape, so `__ksym_names` no longer matches the offsets. A `"` before a hex digit gives an out-of-range `\x` escape. |
| `headers_ok` | `AddModuleHeaders.cfg` | pass | See below. |
| `headers_vendored` | `AddModuleHeadersVendored.cfg` | violation | `VendoredUntouched` fails. The excludes are matched against the path relative to `--root`. With `--root kernel`, the usage the docstring gives, `kernel/ext/...` becomes `ext/...`, which no exclude matches, so the vendored code gets the header. |
| `hexdump_ok` | `Hexdump.cfg` | pass | `TypeOK` and `ElidedDump`: when `hexdump` returns it has printed each 16-byte line at its offset, with every run of repeated lines collapsed into one `*`. `HexdumpRefines`: the loop implements `HexdumpSpec` under `Abs`, fairness included. It covers 1363 distinct states. |

`compile_ok` checks four properties:

- `TypeOK`.
- `SuccessImpliesImage`: exit status 0 means the file holds exactly the reference image
  (headers, records at their reference offsets, footer, 528 KiB), and the records end
  before `0x41000`.
- `BufferWellFormed`: during the loop, the buffer holds the headers, then `vs[1..idx]`,
  contiguous and 4-aligned, with `pos` at the end.
- `WrittenHeadersMatchDocument`: exit status 0 after compile means every record
  header written carries its entry's name, a `NameSize` equal to the name's UTF-16
  length plus the two-byte terminator, and the entry's flags, monotonic count and
  public key index, each within its field's width. `SuccessImpliesImage` cannot say
  this, because its reference image is built by the same `Build`. This property
  states the sizes and ranges against the document itself. It is what the
  assertion at line 292 and `struct.pack` protect: `nameLen` is computed from code
  points at line 285, so an astral character would otherwise give a wrong header.

It covers 676 distinct states.

The bounds are enough for the following reasons:

- The record sizes are chosen to hit each boundary: aligned and unaligned lengths, a
  record ending exactly at the footer, and one ending 4 bytes past it.
- Two records in one document are enough to exercise the padding between records.
- A bigger document only repeats the `WriteVar` step.

`scan_ok` checks three properties:

- `TypeOK`.
- `DecodeMatchesImage`: a dump that returns 0 printed every live record (every record
  under `--deleted`), decoded, in order. An export that returns 0 wrote the mapping
  that `ExportOf` defines in closed form: one entry per key, the last live copy's
  value, and vendors and names in order of first appearance.
- `ScanInSync`: between records, the reader is at a record start of the layout.

It covers 2250 distinct states.

`ksyms_ok` checks `TypeOK`, `KsymTable` and `OffsetsIndexNames` over 134 distinct
states. `KsymTable` says that when the script returns 0 the file is a table a kernel
can binary-search: one entry per text symbol of `nm`'s output, addresses ascending,
symbols at one address in `nm`'s order, and each offset pointing at the symbol's ASCII
name. `OffsetsIndexNames` says this holds for every prefix while the loop builds it.

`headers_ok` checks `TypeOK`, `StampedOnce` and `CheckAfterApplyClean` over 37280
distinct states. `StampedOnce` says no file ever gets two headers, whatever the runs'
options. `CheckAfterApplyClean` says that `--check` right after `--apply` with the same
options returns 0, the workflow the docstring describes.

Each property of the passing runs has a mutant, listed in `PROJECT.json`, that TLC catches:

| mutant | what it changes |
|---|---|
| `NewStateComplement` | `~` in place of `^ 0xFF` |
| `CheckOverflowUnchecked` | the overflow check dropped |
| `Pad4Always` | the outer `% 4` of the padding dropped |
| `SerializeOkUnasserted` | `serialize` without its `nameLen` assertion |
| `ResolveRaw` | export writing the UUID object instead of the resolved name |
| `PutReset` | `doc["Variables"][v] = {}` in place of `setdefault` |
| `ReadAlignAlways` | the reader's padding without its `if` |
| `AsciiCharLatin1` | Latin-1 characters kept as single bytes |
| `SortByAddrReversed` | an unstable sort that reverses equal addresses |
| `AddNameLate` | the offset appended after the name instead of before it |
| `FinishCount` | the exit status counting the files instead of flagging them |
| `StampAppended` | the header written after the text |
| `WritesUnderCheck` | `write_text` under `--check` instead of `--apply` |
| `StepUnguarded` | the loop without `if not d: break` |
| `StepSticky` | `eliding` not reset by a printed line |
| `ReturnAfterLine` | the loop's end tested on `prev_line` instead of the read |

### Fairness

`Spec` assumes weak fairness of `Tool`, the disjunction of the command's steps. The
command is one thread that never waits on anything the model leaves out, so an enabled
step is eventually taken. The same holds for the single-threaded `Hexdump` and
`GenKsyms`, whose specifications assume weak fairness of `Next`. `AddModuleHeaders`
assumes none: the environment need not run the script again. `RaceCreate` gets no fairness, because the other process
need not act. The command really stops, so deadlock checking is off. No property of
`compile_ok` is a liveness property: the compile and generate-blank paths are straight-line
code with one `for` loop over a finite list, so their ending says nothing about the code.
The fairness of `Hexdump` is what `HexdumpRefines` needs to show that the loop returns.

## Proofs

`OvmfCompile_proofs` proves three theorems with TLAPS, for every value of the constants.

**`TypeCorrect`: `Spec => []TypeOK`.** It rests on these lemmas:

- `FlagsWordInt`: the flag word is an integer;
- `Pad4Facts`: `Pad4(n)` is a natural number that is a multiple of 4, and equals `n`
  when `n` is aligned;
- `DeserializeType`: every built record is in `VarRecord`, including the state byte in
  0..255;
- the types of `HeaderWrites` and `Flushed`.

**`BufferSafe`: `Spec => []BufferWellFormed`.** `BufferWellFormed` alone is not
inductive. Its step through `WriteVar` needs the types of `pos`, `buf` and `vs`, so the
inductive invariant is `IInv == TypeOK /\ BufferWellFormed`.

- `InitIInv` and `NextIInv` prove it, with one case per action.
- The `WriteVar` case is the heart of the proof. The new record is appended at `pos`.
  `RecSize` is a multiple of 4 (`Pad4Facts`), so the loop's second padding at 488-489
  leaves `pos + RecSize(r)` unchanged. Contiguity, alignment and `pos` at the end are
  therefore preserved.
- `HeaderLayout` gives the 72- and 28-byte header sizes and the start offset 100.

**`HeadersMatch`: `Spec => []WrittenHeadersMatchDocument`.** The property speaks only of
the final state. The strengthening `HeaderInv` carries three facts through the run:

- from the load on, `vs` is `Build` of the document, which `DocOk` accepted;
- every record written so far passed `SerializeOk`;
- the footer comes only after the last record.

`FooterHeaders` then reads each record of the flushed image back through
`BufferWellFormed`. `DeserializeFields` gives the name and field values the entry
put there. `SerializedFields` gives the UTF-16 name size and the field widths that
serialize checked.

The following stay with TLC:

- `SuccessImpliesImage`, whose reference offsets are a recursive function over the
  document;
- the three violations.

`AddModuleHeaders_proofs` proves three theorems for every tree, set of options and
number of runs.

- **`TypeCorrect`: `Spec => []TypeOK`.**
- **`HeaderOnce`: `Spec => []StampedOnce`.** `StampedOnce` is not inductive: a
  file with one header could in principle be stamped again. The strengthening
  `StampInv` says every file is either untouched or is a text with the markers
  `_looks_like_has_header` recognises and exactly one more header than at the start.
  `IInv == TypeOK /\ StampInv` is inductive. The `Visit` case rests on the lemma
  `StampText`: `Stamp` returns a text with all three markers and one more header. So a
  file is stamped only while it is untouched, and afterwards it is always recognised.
  `Start` and `Finish` do not touch the files.
- **`CheckClean`: `Spec => []CheckAfterApplyClean`.** The strengthening `CleanInv`
  says four things. During an `--apply` walk, every visited source file is settled
  (stamped or empty). During a `--check` walk, only unsettled files are reported.
  Every returned `--apply` run leaves its selection clean for good. No run can undo a
  settled file. `SameSelection` shows that the `--check` run with the same options
  selects the same files.

`GenKsyms_proofs` proves two theorems for every `nm` output allowed by
`GenKsymsAssumption` (the lines are well formed, and `NotHex` is not an address).

- **`TypeCorrect`: `Spec => []TypeOK`.** Its hard part is `SortSyms`. The stable sort
  is defined by ranks. `RankInjective` and `RankOnto`, from the pigeonhole facts of
  `FiniteSetTheorems`, show that the ranks are a bijection onto `1..Len(syms)`, so
  `SortByAddr` returns a sequence of symbols. The encoding lemmas (`HexType`,
  `AsciiCharType`, `EncodeNameType`, `CEscapeType`) give the blob its type.
- **`OffsetsIndexed`: `Spec => []OffsetsIndexNames`.** The inductive invariant is
  `IInv == TypeOK /\ BuildInv /\ OffsetsIndexNames`. `BuildInv` ties the phase to
  the lengths: nothing is recorded before the build, and during it
  `Len(offs) = idx - 1 <= Len(syms)`. The `AddName` step appends the escaped name
  and its NUL to the blob. `EntryExtend` shows that the earlier entries still read
  the same bytes, and `EntryNew` shows that the new offset reads the new name.

`Hexdump_proofs` proves three theorems for every set of payloads of bytes
(`HexdumpAssumption`).

- **`TypeCorrect`: `Spec => []TypeOK`.**
- **`ElidedCorrect`: `Spec => []ElidedDump`.** `ElidedDump` speaks only of the
  final state, so it is not inductive. The inductive invariant `DumpInv` says that
  for some count `c` of lines read, `consumed = offset = 16*c` and `printed` is the
  dump of the first `c` lines. It also says that `prev_line` is line `c`, that
  `eliding` holds exactly when line `c` repeats line `c-1`, and that `done` implies
  every line was read.
  - `ReadLine` shows that the read after `c` lines is line `c+1`, or empty after
    the last line.
  - `DumpAppend` shows that one more line adds exactly its piece: a printed line, a
    `*`, or nothing.
  - `DumpStep` checks this against both branches of the loop body.
  - `DumpReturn` shows that the empty read comes only after the last line.
- **`Refinement`: `Spec => Abs!SafeSpec`.** A read leaves `done` false and `data`
  unchanged, so it is a stutter of `HexdumpSpec`. The return is `Render`: by
  `DumpInv`, `printed` is then the dump of all lines, and `RenderedDump` shows that
  this is `HexdumpSpec`'s `Rendered`. The abstract lines and pieces are the loop's
  (`ChunksLines`, `PieceSame`). The fairness part of `HexdumpRefines` stays with TLC.

`GenKsymsTable_proofs` extends `GenKsyms_proofs` and proves
**`SortedTable`: `Spec => []KsymTable`** for every `nm` output allowed by
`GenKsymsAssumption`. The inductive invariant is `TInv == IInv /\ TableInv`.
`TableInv` says four things. No symbol is kept before the parse. During the parse,
`syms` holds `Parsed(lines, idx - 1)`, the text symbols of the lines read so far. From
the sort on, `syms` is `SortByAddr(TextSymbols(lines))`. When the script returns 0, the
blob loop is over and the file is `FileOf(addrs, offs, blob)`. The proof rests on these
lemmas:

- `ParsedStep` and `ParsedAll`: each parsed line adds its piece (`FlattenSeqAppend`),
  and after the last line the parse holds `TextSymbols`.
- `PickFacts` and `PickOrder`: the rank sort puts addresses in ascending order and
  keeps symbols at one address in `nm`'s order.
- `TextSymbolsNulFree`, `EncodeNameNoNul` and `NameAtEntry`: an encoded name has no
  NUL, so an offset of `OffsetsIndexNames` reads back exactly that name.
- `TableDone`: `TInv` gives `KsymTable`, with the sort's permutation as the witness.

`SeqFlattenLemmas` holds the sequence facts these proofs share. `FlattenSeq` is a
recursive function of the community modules. The provers cannot instantiate the
library's induction rules. So `FlatFix` characterises it by its fixed-point equation,
and `FlattenSeqAppend` (`FlattenSeq(Append(s, x)) = FlattenSeq(s) \o x`) is proved
from that equation by a least-counterexample argument over `Nat`. All the
`FlattenSeq` properties are stated one element at a time, so an invariant that
grows with each step reaches them through this lemma alone.

Two definitions are written so the provers can reason about them. TLC results are
the same either way.

- The guards of `AsciiChar` in `GenKsyms` are disjoint. A CASE with overlapping
  guards is nondeterministic in TLA+, and the provers' encoding rejects it.
- `ReadEnd` in `Hexdump` names the `min` that `f.read(16)` applies at the end of
  the payload.

These stay with TLC:

- liveness (the fairness half of `HexdumpRefines`, under the fairness above):
  the provers cannot reason about `ENABLED` or fairness;
- the equality of `TextSymbols` with the `SelectSeq` filter, which TLC checks as
  `TextSymbolsIsFilter` on the run's outputs;
- `NamesLiteralDecodes`, which compares against the recursive reference
  `CStringLiteral`; a module reaching a `RECURSIVE` operator cannot carry theorems;
- the `OvmfScan` properties, whose reference record offsets are a recursive
  operator;
- `SuccessImpliesImage`, for the same reason;
- every violation run.

## Not modelled

- `main` is modelled only by the subcommands it dispatches to; argparse is not.
- `print` formatting, the hex and ASCII columns of `hexdump`, YAML serialization and
  `nm` itself are libraries or output layout.
- In `add_module_headers.py`, symbolic links, directories named like sources, and
  read or write errors of files are not modelled. The script has no handler for them.

The next steps are these:

1. A proof of `ScanInSync` for every image laid out by `ImageLayout`.
2. A round trip of names that end in NUL (line 251) and of the UTC timezone, which
   compile turns into 0.
