---------------------------- MODULE MC_OvmfScan -----------------------------
(* A small instance of OvmfScan: images compile writes, an image the       *)
(* firmware has updated (a deleted, a committed and a header-only copy of *)
(* one variable), images cut short, with a bad header, with a bad          *)
(* timestamp, and one whose last record ends exactly at 0x41000.           *)
EXTENDS OvmfScan

CONSTANTS g1, g2, fs, st, p1, p2

MCGuids      == {g1, g2}
MCRegistered == {fs, st, g1}
MCPayloadIds == {p1, p2}

Small  == [len |-> 4, id |-> p1]
Small2 == [len |-> 4, id |-> p2]
Odd    == [len |-> 1, id |-> p2]
\* One record named "b" after 100 bytes of headers ends at 164 + len.
AtFooter == [len |-> 266076, id |-> p1]

\* A record compile builds from a document entry.
Compiled(v, n, d, f) ==
    deserializeFromDocument(
        [vendor |-> GuidStr(v), name |-> n,
         val |-> [data |-> d, flags |-> f, volatile |-> FALSE,
                  set |-> {"Boot Access", "Runtime Access"}, mono |-> 0,
                  pki |-> 0, ts |-> NoTime]])

\* A record as the firmware writes it, in state st (the stored byte).
Fw(v, n, d, s, t) ==
    [magic |-> VarMagic, state |-> s, reserved1 |-> 0, flags |-> 7,
     monotonicCount |-> 0, timestamp |-> t, pubKeyIdx |-> 0,
     nameLen |-> 2 * Units(n) + 2, dataLen |-> d.len, vendor |-> v,
     name |-> n, data |-> d]

\* Stored state bytes: added, deleted, header only.
Added == 63
Deleted == 61
HeaderOnly == 127

Utc    == [zero |-> FALSE, valid |-> TRUE, tz |-> 2047]
BadTz  == [zero |-> FALSE, valid |-> TRUE, tz |-> 3000]

CompiledRecs == << Compiled(g2, <<"b">>, Small, 0),
                   Compiled(g2, <<"z", "b">>, Odd, 256),
                   Compiled(g1, <<"b">>, Small, 0) >>

Plain(rs) == ImageLayout(DefaultFvHeader, DefaultStoreHeader, rs, VolumeLen)

MCInputImages ==
    { ExpectedImage(<< >>),
      ExpectedImage(CompiledRecs),
      ExpectedImage(<< Compiled(g2, <<"b">>, AtFooter, 0) >>),
      \* A variable updated twice, the second update cut by a crash.
      Plain(<< Fw(g2, <<"b">>, Small, Deleted, ZeroTime),
               Fw(g2, <<"s">>, Small, Added, Utc),
               Fw(g2, <<"b">>, Odd, Added, ZeroTime),
               Fw(g2, <<"b">>, Small2, HeaderOnly, ZeroTime) >>),
      Plain(<< Fw(g2, <<"b">>, Small, Added, BadTz) >>),
      \* Cut at the end of the first record, and inside it.
      [ExpectedImage(CompiledRecs) EXCEPT !.len = 168],
      [ExpectedImage(CompiledRecs) EXCEPT !.len = 166],
      ImageLayout([DefaultFvHeader EXCEPT !.magic = 0], DefaultStoreHeader, << >>, VolumeLen),
      \* A (0, 0) entry ends the block map before the store header.
      ImageLayout([DefaultFvHeader EXCEPT !.blkInfo = << <<0, 0>>, <<132, 4096>> >>],
                  DefaultStoreHeader, << >>, VolumeLen) }
=============================================================================
