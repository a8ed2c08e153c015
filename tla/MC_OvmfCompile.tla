--------------------------- MODULE MC_OvmfCompile ---------------------------
(* A small instance of OvmfCompile: two vendor GUIDs, one of them in the   *)
(* registry, and documents chosen so that every branch of cmd_compile is  *)
(* taken, including records that end exactly at 0x41000, past the store   *)
(* and past 0x41000.                                                       *)
EXTENDS OvmfCompile

CONSTANTS g1, g2, fs, st, p1, p2

MCGuids      == {g1, g2}
MCRegistered == {fs, st, g1}
MCPayloadIds == {p1, p2}

\* An entry with the given data and extra "Flags", the rest left at default.
Ent(d, f) == [data |-> d, flags |-> f, volatile |-> FALSE,
              set |-> {"Boot Access", "Runtime Access"}, mono |-> 0, pki |-> 0,
              ts |-> NoTime]

Item(v, n, e) == [vendor |-> v, name |-> n, val |-> e]

Small == [len |-> 4, id |-> p1]
Odd   == [len |-> 1, id |-> p2]
\* One record named "b" (60 + 4 bytes of header and name) after 100 bytes
\* of headers ends at 164 + len.
AtFooter   == [len |-> 266076, id |-> p1]   \* ends exactly at 0x41000
PastFooter == [len |-> 266080, id |-> p1]   \* ends 4 bytes past 0x41000

Doc(items) == [hasVars |-> TRUE, vars |-> items]

\* Documents that compile.
GoodDocs ==
    { Doc(<< >>),
      Doc(<< Item(GuidStr(g2), <<"b">>, Ent(Small, 0)),
             Item(GuidStr(g2), <<"z", "b">>, Ent(Odd, 256)) >>),
      Doc(<< Item(GuidStr(g1), <<"b">>, Ent(AtFooter, 0)) >>) }

\* Documents that cmd_compile rejects before it opens the output.
RejectedDocs ==
    { NotMap,
      [hasVars |-> FALSE, vars |-> << >>],
      Doc(NotMap),
      Doc(<< Item(GuidStr(g2), NotMap, NotMap) >>),
      Doc(<< Item(GuidStr(g2), <<"b">>, NotMap) >>),
      Doc(<< Item(Sym(g1), <<"b">>, Ent(Small, 0)) >>),
      Doc(<< Item(Malformed, <<"b">>, Ent(Small, 0)) >>),
      Doc(<< Item(GuidStr(g2), IntKey, Ent(Small, 0)) >>),
      Doc(<< Item(GuidStr(g2), <<"b">>, Ent(BadData, 0)) >>) }

\* Documents that cmd_compile rejects after it has opened the output.
LateFailDocs ==
    { Doc(<< Item(GuidStr(g2), <<"b">>, Ent(Small, 0)),
             Item(GuidStr(g2), <<"s">>, Ent(Small, 0)) >>),
      Doc(<< Item(GuidStr(g2), <<"b">>, Ent(Small, -1)) >>),
      Doc(<< Item(GuidStr(g1), <<"b">>, Ent(PastFooter, 0)) >>) }

MCInputDocs == GoodDocs \cup RejectedDocs \cup LateFailDocs
=============================================================================
