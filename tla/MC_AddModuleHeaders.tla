------------------------- MODULE MC_AddModuleHeaders -------------------------
(* A small tree: sources with and without the header, vendored and build  *)
(* directories, a file longer than 4096 characters with a BOM, a .C file  *)
(* that is not UTF-8, an empty header and a file that is not a source.    *)
EXTENDS AddModuleHeaders

Plain(large, utf8, bom, ms) ==
    [marks |-> ms, large |-> large, utf8 |-> utf8, bom |-> bom, hdrs |-> << >>, lossy |-> FALSE]

MCFiles == {<<"kernel", "main.c">>, <<"kernel", "ext", "lib.c">>, <<"kernel", "x.h">>,
            <<"kernel", "y.C">>, <<"build", "gen.c">>, <<"boot", "big.c">>,
            <<"boot", "empty.h">>, <<"boot", "notes.txt">>}

MCInitialContent ==
    [p \in MCFiles |->
        CASE Last(p) = "main.c"  -> Plain(FALSE, TRUE, FALSE, {})
          [] Last(p) = "lib.c"   -> Plain(FALSE, TRUE, FALSE, {"project"})
          [] Last(p) = "x.h"     -> Plain(FALSE, TRUE, FALSE, {"module", "project"})
          [] Last(p) = "y.C"     -> Plain(FALSE, FALSE, FALSE, {})
          [] Last(p) = "gen.c"   -> Plain(FALSE, TRUE, FALSE, {})
          [] Last(p) = "big.c"   -> Plain(TRUE, TRUE, TRUE, {})
          [] Last(p) = "empty.h" -> Empty
          [] OTHER               -> Plain(FALSE, TRUE, FALSE, {})]

MCSuffixOf == [n \in {"main.c", "lib.c", "x.h", "y.C", "gen.c", "big.c", "empty.h", "notes.txt"} |->
                  CASE n = "x.h" \/ n = "empty.h" -> ".h"
                    [] n = "y.C"                  -> ".C"
                    [] n = "notes.txt"            -> ".txt"
                    [] OTHER                      -> ".c"]

MCLowerOf == [x \in {".c", ".C", ".h", ".txt"} |-> IF x = ".C" THEN ".c" ELSE x]

\* "." and the docstring's "--root kernel" (add_module_headers.py:13).
MCRoots == {<< >>, <<"kernel">>}

\* args.ext or [".c", ".h"] (add_module_headers.py:134), and a user's ".C".
MCExtChoices == {{".c", ".h"}, {".C"}}

MCExtraExcludes == {{}, {<<"boot">>}}

=============================================================================
