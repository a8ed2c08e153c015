--------------------------- MODULE AddModuleHeaders --------------------------
(***************************************************************************)
(* src/utils/add_module_headers.py: prepends the project's licence header  *)
(* to the .c and .h files under --root that do not appear to have one,    *)
(* skipping generated and vendored directories.  --check lists them and    *)
(* returns 1 if there are any; --apply rewrites them and returns 0.        *)
(*                                                                         *)
(* The environment runs the script several times over one tree, with       *)
(* options of its choice, so that what one run writes is what the next     *)
(* reads.  A path is a sequence of components relative to the repository   *)
(* root, the working directory of the script.  A file's content is         *)
(* abstracted to what the script looks at and what it writes: which of     *)
(* the three header markers appear in its first 4096 characters, whether   *)
(* it is longer than that, whether it is valid UTF-8 and starts with a     *)
(* BOM, the headers prepended to it, and its original body.                *)
(***************************************************************************)
EXTENDS Integers, SequencesExt

CONSTANTS
    Files,           \* the files of the tree, as paths
    InitialContent,  \* the content of each file before the first run
    SuffixOf,        \* Path.suffix of each file name
    LowerOf,         \* str.lower of each suffix
    Roots,           \* the --root values the environment passes
    ExtChoices,      \* the extension tuples it passes (exts of main)
    ExtraExcludes,   \* the sets of --exclude values it passes
    Empty,           \* the content of an empty file
    MaxRuns          \* how many times the script is run

Marks == {"module", "project", "license"}

\* The content of a file that is not empty.
Text == [marks : SUBSET Marks, large : BOOLEAN, utf8 : BOOLEAN, bom : BOOLEAN,
         hdrs : Seq(STRING), lossy : BOOLEAN]

Content == {Empty} \cup Text

ASSUME AddModuleHeadersAssumption ==
    /\ Files \subseteq Seq(STRING) \ {<< >>}
    /\ Empty \notin Text
    /\ InitialContent \in [Files -> Content]
    /\ MaxRuns \in Nat

VARIABLES
    fs,      \* the content of every file
    opts,    \* the options of the current or last run: [mode, root, exts, excl]
    phase,   \* "idle" between runs, "walk" during the loop over files
    todo,    \* the files rglob has yet to yield
    changed, \* the files the current run reported
    hist     \* the runs that have returned: [opts, rc, changed]

vars == <<fs, opts, phase, todo, changed, hist>>

Options == [mode : {"check", "apply"}, root : Roots, exts : ExtChoices, excl : ExtraExcludes]

\* DEFAULT_EXCLUDES (add_module_headers.py:45-59).
DEFAULT_EXCLUDES == {<<".git">>, <<"build">>, <<"release">>, <<"sysroot">>,
                     <<"third_party">>, <<"vendor">>, <<"utils", "kconfiglib">>,
                     <<"kernel", "ext">>, <<"kernel", "include", "ext">>}

-----------------------------------------------------------------------------

\* _should_exclude (add_module_headers.py:62-74): rel is the path relative
\* to the root; an exclude matches it whole, as a leading run of
\* components, or (when it is one component) as any one of its parts.
ShouldExclude(p, root, excludes) ==
    LET rel == SubSeq(p, Len(root) + 1, Len(p)) IN
    \E ex \in excludes :
        \/ rel = ex
        \/ IsPrefix(ex, rel) /\ Len(ex) < Len(rel)
        \/ Len(ex) = 1 /\ \E i \in 1..Len(rel) : rel[i] = ex[1]

\* iter_source_files (add_module_headers.py:86-94) for one path rglob yields.
IsSource(p, o) ==
    /\ LowerOf[SuffixOf[Last(p)]] \in o.exts
    /\ ~ShouldExclude(p, o.root, DEFAULT_EXCLUDES \cup o.excl)

\* _looks_like_has_header (add_module_headers.py:77-83).
LooksLikeHasHeader(c) ==
    \/ {"module", "project"} \subseteq c.marks
    \/ "license" \in c.marks

\* The header written after the text instead of before it: past the first
\* 4096 characters of a long file.
StampAppended(c, name) ==
    [marks |-> IF c.large THEN c.marks ELSE Marks, large |-> c.large, utf8 |-> TRUE,
     bom |-> c.bom, hdrs |-> Append(c.hdrs, name), lossy |-> c.lossy \/ ~c.utf8]

\* The header and a blank line in front of text.lstrip("\ufeff"), written
\* as UTF-8 (add_module_headers.py:106-109): the header's markers lie in
\* the first 4096 characters, and a body that was not valid UTF-8 comes
\* back with U+FFFD where its bad bytes were.
Stamp(c, name) ==
    [marks |-> Marks, large |-> c.large, utf8 |-> TRUE, bom |-> FALSE,
     hdrs |-> << name >> \o c.hdrs, lossy |-> c.lossy \/ ~c.utf8]

\* add_header_to_file with path.write_text under --check instead of --apply.
WritesUnderCheck(o, c) == o.mode = "check"

\* The "if apply:" of add_header_to_file (add_module_headers.py:108).
Writes(o, c) == o.mode = "apply"

-----------------------------------------------------------------------------

TypeOK ==
    /\ fs \in [Files -> Content]
    /\ opts \in Options
    /\ phase \in {"idle", "walk"}
    /\ todo \subseteq Files
    /\ changed \subseteq Files
    /\ hist \in Seq([opts : Options, rc : {0, 1}, changed : SUBSET Files])

Init ==
    /\ fs = InitialContent
    /\ opts \in Options
    /\ phase = "idle"
    /\ todo = {}
    /\ changed = {}
    /\ hist = << >>

\* main (add_module_headers.py:113-137) up to the loop: the files under
\* the root are what root.rglob("*") will yield, in an order of its own.
Start ==
    /\ phase = "idle"
    /\ Len(hist) < MaxRuns
    /\ \E o \in Options :
          /\ opts' = o
          /\ todo' = {p \in Files : IsPrefix(o.root, p) /\ Len(p) > Len(o.root)}
    /\ phase' = "walk"
    /\ changed' = {}
    /\ UNCHANGED <<fs, hist>>

\* One iteration of the loop at add_module_headers.py:138-140, with
\* add_header_to_file (add_module_headers.py:97-110).
Visit ==
    /\ phase = "walk"
    /\ \E p \in todo :
          LET c == fs[p] IN
          /\ todo' = todo \ {p}
          /\ IF IsSource(p, opts) /\ c # Empty /\ ~LooksLikeHasHeader(c)
             THEN /\ changed' = changed \cup {p}
                  /\ fs' = IF Writes(opts, c) THEN [fs EXCEPT ![p] = Stamp(c, Last(p))] ELSE fs
             ELSE UNCHANGED <<changed, fs>>
    /\ UNCHANGED <<opts, phase, hist>>

\* An exit status that counts the files instead of flagging them.
FinishCount ==
    /\ phase = "walk"
    /\ todo = {}
    /\ hist' = Append(hist, [opts |-> opts, changed |-> changed,
                             rc |-> IF opts.mode = "check" THEN Cardinality(changed) ELSE 0])
    /\ phase' = "idle"
    /\ UNCHANGED <<fs, opts, todo, changed>>

\* add_module_headers.py:142-147: print the list, then the exit status.
Finish ==
    /\ phase = "walk"
    /\ todo = {}
    /\ hist' = Append(hist, [opts |-> opts, changed |-> changed,
                             rc |-> IF opts.mode = "check" /\ changed # {} THEN 1 ELSE 0])
    /\ phase' = "idle"
    /\ UNCHANGED <<fs, opts, todo, changed>>

Next == Start \/ Visit \/ Finish

Spec == Init /\ [][Next]_vars

-----------------------------------------------------------------------------
(* Properties                                                              *)

\* However the script is run, with whatever roots and excludes, a file
\* never receives the header twice: what --apply writes is recognised by
\* _looks_like_has_header on every later run.
StampedOnce ==
    \A p \in Files : fs[p] # Empty => Len(fs[p].hdrs) <= Len(InitialContent[p].hdrs) + 1

\* The docstring's workflow (add_module_headers.py:10-13): --check run right
\* after an --apply with the same root and excludes finds nothing missing
\* and returns 0.
CheckAfterApplyClean ==
    \A i \in 1..(Len(hist) - 1) :
        (hist[i].opts.mode = "apply" /\ hist[i + 1].opts = [hist[i].opts EXCEPT !.mode = "check"])
            => hist[i + 1].rc = 0

\* The vendored and generated directories DEFAULT_EXCLUDES names
\* (add_module_headers.py:45-59), relative to the repository root, are
\* never modified, whichever --root the script is given.
VendoredUntouched ==
    \A p \in Files : ShouldExclude(p, << >>, DEFAULT_EXCLUDES) => fs[p] = InitialContent[p]

=============================================================================
