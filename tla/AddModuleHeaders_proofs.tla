------------------------ MODULE AddModuleHeaders_proofs ------------------------
(***************************************************************************)
(* Proofs about AddModuleHeaders for every tree, every initial content and *)
(* every sequence of runs: the variables keep their types, and no file is  *)
(* given the header twice.                                                 *)
(***************************************************************************)
EXTENDS AddModuleHeaders, SequenceTheorems, TLAPS

USE AddModuleHeadersAssumption

\* A file is either as it was before the first run, or it has been stamped
\* exactly once and now carries the header's markers.
StampInv ==
    \A p \in Files :
        \/ fs[p] = InitialContent[p]
        \/ /\ fs[p] # Empty
           /\ LooksLikeHasHeader(fs[p])
           /\ Len(fs[p].hdrs) = Len(InitialContent[p].hdrs) + 1

IInv == TypeOK /\ StampInv

\* The name add_header_to_file puts in the header is a string.
LEMMA LastIsString ==
    ASSUME NEW p \in Files
    PROVE  Last(p) \in STRING
BY DEF Last

\* Stamping a text gives a text that carries the header's markers and one
\* more header.
LEMMA StampText ==
    ASSUME NEW c \in Text, NEW n \in STRING
    PROVE  /\ Stamp(c, n) \in Text
           /\ LooksLikeHasHeader(Stamp(c, n))
           /\ Len(Stamp(c, n).hdrs) = Len(c.hdrs) + 1
<1>1. Stamp(c, n) \in Text
  BY DEF Stamp, Text, Marks
<1>2. Stamp(c, n).hdrs = << n >> \o c.hdrs /\ Stamp(c, n).marks = Marks
  BY DEF Stamp
<1>3. c.hdrs \in Seq(STRING)
  BY DEF Text
<1>. QED  BY <1>1, <1>2, <1>3 DEF LooksLikeHasHeader, Marks


LEMMA InitIInv == Init => IInv
<1> SUFFICES ASSUME Init PROVE IInv
  OBVIOUS
<1>1. TypeOK
  BY DEF Init, TypeOK
<1>2. StampInv
  BY DEF Init, StampInv
<1>. QED  BY <1>1, <1>2 DEF IInv

LEMMA StartIInv == IInv /\ Start => IInv'
<1> SUFFICES ASSUME IInv, Start PROVE IInv'
  OBVIOUS
<1>1. TypeOK'
  BY DEF IInv, TypeOK, Start
<1>2. StampInv'
  BY DEF IInv, StampInv, Start
<1>. QED  BY <1>1, <1>2 DEF IInv

LEMMA FinishIInv == IInv /\ Finish => IInv'
<1> SUFFICES ASSUME IInv, Finish PROVE IInv'
  OBVIOUS
<1>1. TypeOK'
  <2>1. [opts |-> opts, changed |-> changed,
         rc |-> IF opts.mode = "check" /\ changed # {} THEN 1 ELSE 0]
           \in [opts : Options, rc : {0, 1}, changed : SUBSET Files]
    BY DEF IInv, TypeOK
  <2>. QED  BY <2>1 DEF IInv, TypeOK, Finish
<1>2. StampInv'
  BY DEF IInv, StampInv, Finish
<1>. QED  BY <1>1, <1>2 DEF IInv

LEMMA VisitIInv == IInv /\ Visit => IInv'
<1> SUFFICES ASSUME IInv, Visit PROVE IInv'
  OBVIOUS
<1>0. TypeOK /\ StampInv
  BY DEF IInv
<1>1. PICK p \in todo :
        LET c == fs[p] IN
        /\ todo' = todo \ {p}
        /\ IF IsSource(p, opts) /\ c # Empty /\ ~LooksLikeHasHeader(c)
           THEN /\ changed' = changed \cup {p}
                /\ fs' = IF Writes(opts, c) THEN [fs EXCEPT ![p] = Stamp(c, Last(p))] ELSE fs
           ELSE UNCHANGED <<changed, fs>>
  BY DEF Visit
<1>2. p \in Files
  BY <1>0 DEF TypeOK
<1>3. UNCHANGED <<opts, phase, hist>>
  BY DEF Visit
<1>4. CASE IsSource(p, opts) /\ fs[p] # Empty /\ ~LooksLikeHasHeader(fs[p]) /\ Writes(opts, fs[p])
  <2>1. fs' = [fs EXCEPT ![p] = Stamp(fs[p], Last(p))] /\ changed' = changed \cup {p}
    BY <1>1, <1>4
  <2>2. fs[p] = InitialContent[p]
    BY <1>0, <1>2, <1>4 DEF StampInv
  <2>3. fs[p] \in Text
    BY <1>0, <1>2, <1>4 DEF TypeOK, Content
  <2>4. Last(p) \in STRING
    BY <1>2, LastIsString
  <2>5. /\ Stamp(fs[p], Last(p)) \in Text
        /\ LooksLikeHasHeader(Stamp(fs[p], Last(p)))
        /\ Len(Stamp(fs[p], Last(p)).hdrs) = Len(fs[p].hdrs) + 1
    BY <2>3, <2>4, StampText
  <2>6. Stamp(fs[p], Last(p)) # Empty
    BY <2>5
  <2>7. TypeOK'
    BY <1>0, <1>1, <1>2, <1>3, <2>1, <2>5 DEF TypeOK, Content
  <2>8. StampInv'
    BY <1>0, <1>2, <2>1, <2>2, <2>5, <2>6 DEF StampInv
  <2>. QED  BY <2>7, <2>8 DEF IInv
<1>5. CASE IsSource(p, opts) /\ fs[p] # Empty /\ ~LooksLikeHasHeader(fs[p]) /\ ~Writes(opts, fs[p])
  <2>1. fs' = fs /\ changed' = changed \cup {p}
    BY <1>1, <1>5
  <2>. QED  BY <1>0, <1>1, <1>2, <1>3, <2>1 DEF IInv, TypeOK, StampInv
<1>6. CASE ~(IsSource(p, opts) /\ fs[p] # Empty /\ ~LooksLikeHasHeader(fs[p]))
  <2>1. fs' = fs /\ changed' = changed
    BY <1>1, <1>6
  <2>. QED  BY <1>0, <1>1, <1>2, <1>3, <2>1 DEF IInv, TypeOK, StampInv
<1>. QED  BY <1>4, <1>5, <1>6

LEMMA NextIInv == IInv /\ [Next]_vars => IInv'
<1> SUFFICES ASSUME IInv, [Next]_vars PROVE IInv'
  OBVIOUS
<1>1. CASE Start       BY <1>1, StartIInv
<1>2. CASE Visit       BY <1>2, VisitIInv
<1>3. CASE Finish      BY <1>3, FinishIInv
<1>4. CASE UNCHANGED vars
  BY <1>4 DEF IInv, TypeOK, StampInv, vars
<1>. QED  BY <1>1, <1>2, <1>3, <1>4 DEF Next

\* The variables of the header stamping keep their types in every run.
THEOREM TypeCorrect == Spec => []TypeOK
BY InitIInv, NextIInv, PTL DEF Spec, IInv

\* StampedOnce: whatever roots, extensions and excludes the runs are given,
\* add_header_to_file never prepends the header to a file that a previous
\* run stamped, since Stamp puts the markers _looks_like_has_header looks
\* for at the start of the file.
THEOREM HeaderOnce == Spec => []StampedOnce
<1>1. IInv => StampedOnce
  <2> SUFFICES ASSUME IInv, NEW p \in Files, fs[p] # Empty
               PROVE  Len(fs[p].hdrs) <= Len(InitialContent[p].hdrs) + 1
    BY DEF StampedOnce
  <2>1. fs[p] \in Text
    BY DEF IInv, TypeOK, Content
  <2>2. CASE fs[p] = InitialContent[p]
    BY <2>1, <2>2 DEF Text
  <2>3. CASE Len(fs[p].hdrs) = Len(InitialContent[p].hdrs) + 1
    BY <2>1, <2>3 DEF Text
  <2>. QED  BY <2>2, <2>3 DEF IInv, StampInv
<1>. QED  BY <1>1, InitIInv, NextIInv, PTL DEF Spec

-----------------------------------------------------------------------------
(* --check after --apply                                                   *)

\* The files root.rglob("*") yields for a run with options o.
UnderRoot(o) == {p \in Files : IsPrefix(o.root, p) /\ Len(p) > Len(o.root)}

\* A file of the tree f that add_header_to_file leaves alone: empty, or
\* already looking stamped.
Settled(f, p) == f[p] = Empty \/ LooksLikeHasHeader(f[p])

\* Every source file the options o select is settled in the tree f.
Clean(f, o) == \A p \in UnderRoot(o) : IsSource(p, o) => Settled(f, p)

\* The strengthening of CheckAfterApplyClean: an --apply run settles each
\* file it has visited, a returned --apply run leaves its selection clean
\* for good, and a --check run reports only files that are not settled.
CleanInv ==
    /\ todo \subseteq UnderRoot(opts)
    /\ phase = "walk" /\ opts.mode = "apply" =>
          \A p \in UnderRoot(opts) \ todo : IsSource(p, opts) => Settled(fs, p)
    /\ phase = "walk" /\ opts.mode = "check" =>
          \A p \in changed : p \in UnderRoot(opts) /\ IsSource(p, opts) /\ ~Settled(fs, p)
    /\ \A i \in 1..Len(hist) : hist[i].opts.mode = "apply" => Clean(fs, hist[i].opts)
    /\ CheckAfterApplyClean

\* The --check run that follows an --apply run differs from it only in its
\* mode, so it walks the same files and selects the same sources.
LEMMA SameSelection ==
    ASSUME NEW o \in Options, NEW p \in Files
    PROVE  LET o2 == [o EXCEPT !.mode = "check"] IN
           /\ IsSource(p, o2) = IsSource(p, o)
           /\ UnderRoot(o2) = UnderRoot(o)
<1> DEFINE o2 == [o EXCEPT !.mode = "check"]
<1>1. o2.root = o.root /\ o2.exts = o.exts /\ o2.excl = o.excl
  BY DEF Options
<1>2. IsSource(p, o2) = IsSource(p, o)
  BY <1>1, Zenon DEF IsSource
<1>3. UnderRoot(o2) = UnderRoot(o)
  BY <1>1, Zenon DEF UnderRoot
<1>. QED  BY <1>2, <1>3

\* Each returned run is recorded with options the script accepts.
LEMMA HistEntry ==
    ASSUME TypeOK, NEW i \in 1..Len(hist)
    PROVE  hist[i].opts \in Options
<1>1. hist[i] \in [opts : Options, rc : {0, 1}, changed : SUBSET Files]
  BY ElementOfSeq DEF TypeOK
<1>. QED  BY <1>1

LEMMA CleanInit == Init => CleanInv
<1> SUFFICES ASSUME Init PROVE CleanInv
  OBVIOUS
<1>1. todo \subseteq UnderRoot(opts) /\ phase = "idle" /\ hist = << >>
  BY DEF Init
<1>. QED  BY <1>1 DEF CleanInv, CheckAfterApplyClean

\* A Visit either leaves the tree alone or stamps one file, so a settled
\* file stays settled and a clean selection stays clean.
LEMMA VisitSettles ==
    ASSUME TypeOK, Visit
    PROVE  /\ \A q \in Files : Settled(fs, q) => Settled(fs', q)
           /\ \A o \in Options : Clean(fs, o) => Clean(fs', o)
<1>1. SUFFICES ASSUME NEW q \in Files, Settled(fs, q) PROVE Settled(fs', q)
  BY DEF Clean, UnderRoot
<1>2. PICK p \in todo :
        LET c == fs[p] IN
        /\ todo' = todo \ {p}
        /\ IF IsSource(p, opts) /\ c # Empty /\ ~LooksLikeHasHeader(c)
           THEN /\ changed' = changed \cup {p}
                /\ fs' = IF Writes(opts, c) THEN [fs EXCEPT ![p] = Stamp(c, Last(p))] ELSE fs
           ELSE UNCHANGED <<changed, fs>>
  BY DEF Visit
<1>3. p \in Files
  BY DEF TypeOK
<1>4. CASE fs' = fs
  BY <1>1, <1>4
<1>5. CASE fs' = [fs EXCEPT ![p] = Stamp(fs[p], Last(p))] /\ fs[p] # Empty
  <2>1. fs[p] \in Text
    BY <1>3, <1>5 DEF TypeOK, Content
  <2>2. LooksLikeHasHeader(Stamp(fs[p], Last(p)))
    BY <1>3, <2>1, LastIsString, StampText
  <2>3. CASE q = p
    BY <1>3, <1>5, <2>2, <2>3 DEF Settled, TypeOK
  <2>4. CASE q # p
    BY <1>1, <1>5, <2>4 DEF Settled, TypeOK
  <2>. QED  BY <2>3, <2>4
<1>. QED  BY <1>2, <1>4, <1>5

LEMMA CleanStart == TypeOK /\ CleanInv /\ Start => CleanInv'
<1> SUFFICES ASSUME TypeOK, CleanInv, Start PROVE CleanInv'
  OBVIOUS
<1>1. PICK o \in Options : opts' = o /\ todo' = UnderRoot(o)
  BY DEF Start, UnderRoot
<1>2. UNCHANGED <<fs, hist>> /\ changed' = {}
  BY DEF Start
<1>. QED  BY <1>1, <1>2 DEF CleanInv, CheckAfterApplyClean

LEMMA CleanVisit == TypeOK /\ CleanInv /\ Visit => CleanInv'
<1> SUFFICES ASSUME TypeOK, CleanInv, Visit PROVE CleanInv'
  OBVIOUS
<1>1. PICK p \in todo :
        LET c == fs[p] IN
        /\ todo' = todo \ {p}
        /\ IF IsSource(p, opts) /\ c # Empty /\ ~LooksLikeHasHeader(c)
           THEN /\ changed' = changed \cup {p}
                /\ fs' = IF Writes(opts, c) THEN [fs EXCEPT ![p] = Stamp(c, Last(p))] ELSE fs
           ELSE UNCHANGED <<changed, fs>>
  BY DEF Visit
<1>2. UNCHANGED <<opts, phase, hist>>
  BY DEF Visit
<1>3. /\ \A q \in Files : Settled(fs, q) => Settled(fs', q)
      /\ \A o \in Options : Clean(fs, o) => Clean(fs', o)
  BY VisitSettles
<1>4. p \in Files /\ p \in UnderRoot(opts)
  BY DEF TypeOK, CleanInv
<1>5. todo' \subseteq UnderRoot(opts')
  BY <1>1, <1>2 DEF CleanInv
<1>6. \A i \in 1..Len(hist') : hist'[i].opts.mode = "apply" => Clean(fs', hist'[i].opts)
  <2> SUFFICES ASSUME NEW i \in 1..Len(hist), hist[i].opts.mode = "apply"
               PROVE  Clean(fs', hist[i].opts)
    BY <1>2
  <2>1. hist[i].opts \in Options
    BY HistEntry
  <2>2. Clean(fs, hist[i].opts)
    BY DEF CleanInv
  <2>. QED  BY <1>3, <2>1, <2>2
<1>7. phase' = "walk" /\ opts'.mode = "apply" =>
          \A q \in UnderRoot(opts') \ todo' : IsSource(q, opts') => Settled(fs', q)
  <2> SUFFICES ASSUME phase = "walk", opts.mode = "apply",
                      NEW q \in UnderRoot(opts) \ todo', IsSource(q, opts)
               PROVE  Settled(fs', q)
    BY <1>2
  <2>1. q \in Files
    BY DEF UnderRoot
  <2>2. CASE q = p
    <3>1. CASE IsSource(p, opts) /\ fs[p] # Empty /\ ~LooksLikeHasHeader(fs[p])
      <4>1. fs' = [fs EXCEPT ![p] = Stamp(fs[p], Last(p))]
        BY <1>1, <3>1 DEF Writes
      <4>2. fs[p] \in Text
        BY <1>4, <3>1 DEF TypeOK, Content
      <4>3. LooksLikeHasHeader(Stamp(fs[p], Last(p)))
        BY <1>4, <4>2, LastIsString, StampText
      <4>. QED  BY <2>2, <1>4, <4>1, <4>3 DEF Settled, TypeOK
    <3>2. CASE ~(IsSource(p, opts) /\ fs[p] # Empty /\ ~LooksLikeHasHeader(fs[p]))
      <4>1. Settled(fs, p)
        BY <2>2, <3>2 DEF Settled
      <4>. QED  BY <4>1, <1>3, <1>4, <2>2
    <3>. QED  BY <3>1, <3>2
  <2>3. CASE q # p
    <3>1. q \in UnderRoot(opts) \ todo
      BY <1>1, <2>3
    <3>2. Settled(fs, q)
      BY <3>1 DEF CleanInv
    <3>. QED  BY <3>2, <2>1, <1>3
  <2>. QED  BY <2>2, <2>3
<1>8. phase' = "walk" /\ opts'.mode = "check" =>
          \A q \in changed' : q \in UnderRoot(opts') /\ IsSource(q, opts') /\ ~Settled(fs', q)
  <2> SUFFICES ASSUME opts.mode = "check", phase = "walk", NEW q \in changed'
               PROVE  q \in UnderRoot(opts) /\ IsSource(q, opts) /\ ~Settled(fs', q)
    BY <1>2
  <2>1. fs' = fs
    BY <1>1 DEF Writes
  <2>2. CASE q \in changed
    BY <2>1, <2>2 DEF CleanInv
  <2>3. CASE q \notin changed
    <3>1. q = p /\ IsSource(p, opts) /\ fs[p] # Empty /\ ~LooksLikeHasHeader(fs[p])
      BY <1>1, <2>3
    <3>. QED  BY <3>1, <1>4, <2>1 DEF Settled
  <2>. QED  BY <2>2, <2>3
<1>9. CheckAfterApplyClean'
  BY <1>2 DEF CleanInv, CheckAfterApplyClean
<1>. QED  BY <1>5, <1>6, <1>7, <1>8, <1>9 DEF CleanInv


LEMMA CleanFinish == TypeOK /\ CleanInv /\ Finish => CleanInv'
<1> SUFFICES ASSUME TypeOK, CleanInv, Finish PROVE CleanInv'
  OBVIOUS
<1> DEFINE e == [opts |-> opts, changed |-> changed,
                 rc |-> IF opts.mode = "check" /\ changed # {} THEN 1 ELSE 0]
<1>1. hist' = Append(hist, e) /\ phase = "walk" /\ phase' = "idle" /\ todo = {}
  BY DEF Finish
<1>2. UNCHANGED <<fs, opts, todo, changed>>
  BY DEF Finish
<1>3. hist \in Seq([opts : Options, rc : {0, 1}, changed : SUBSET Files]) /\ opts \in Options
  BY DEF TypeOK
<1>4. opts.mode = "apply" => Clean(fs, opts)
  BY <1>1 DEF CleanInv, Clean
<1>5. \A i \in 1..Len(hist') : hist'[i].opts.mode = "apply" => Clean(fs', hist'[i].opts)
  <2> SUFFICES ASSUME NEW i \in 1..Len(hist'), hist'[i].opts.mode = "apply"
               PROVE  Clean(fs, hist'[i].opts)
    BY <1>2
  <2>1. CASE i \in 1..Len(hist)
    <3>1. hist'[i] = hist[i]
      BY <1>1, <1>3, <2>1
    <3>. QED  BY <2>1, <3>1 DEF CleanInv
  <2>2. CASE i = Len(hist) + 1
    <3>1. hist'[i] = e
      BY <1>1, <1>3, <2>2
    <3>. QED  BY <1>4, <3>1
  <2>. QED  BY <1>1, <1>3, <2>1, <2>2
\* The heart of the theorem: a --check run right after an --apply run with
\* the same options found nothing to report.
<1>6. ASSUME Len(hist) > 0, hist[Len(hist)].opts.mode = "apply",
             opts = [hist[Len(hist)].opts EXCEPT !.mode = "check"]
      PROVE  e.rc = 0
  <2> DEFINE h == hist[Len(hist)].opts
  <2>1. h \in Options
    BY <1>6, HistEntry
  <2>2. Clean(fs, h)
    BY <1>3, <1>6 DEF CleanInv
  <2>3. opts.mode = "check"
    BY <1>6, <2>1 DEF Options
  <2>4. SUFFICES ASSUME NEW q \in changed PROVE FALSE
    BY <2>3
  <2>5. q \in UnderRoot(opts) /\ IsSource(q, opts) /\ ~Settled(fs, q)
    BY <1>1, <2>3 DEF CleanInv
  <2>6. q \in Files
    BY DEF TypeOK
  <2>7. q \in UnderRoot(h) /\ IsSource(q, h)
    BY <2>1, <2>5, <2>6, <1>6, SameSelection
  <2>. QED  BY <2>2, <2>5, <2>7 DEF Clean
<1>7. CheckAfterApplyClean'
  <2> SUFFICES ASSUME NEW i \in 1..(Len(hist') - 1),
                      hist'[i].opts.mode = "apply",
                      hist'[i + 1].opts = [hist'[i].opts EXCEPT !.mode = "check"]
               PROVE  hist'[i + 1].rc = 0
    BY DEF CheckAfterApplyClean
  <2>1. CASE i < Len(hist)
    <3>1. hist'[i] = hist[i] /\ hist'[i + 1] = hist[i + 1]
      BY <1>1, <1>3, <2>1
    <3>2. i \in 1..(Len(hist) - 1)
      BY <1>3, <2>1
    <3>3. /\ hist[i].opts.mode = "apply"
          /\ hist[i + 1].opts = [hist[i].opts EXCEPT !.mode = "check"]
      BY <3>1
    <3>4. CheckAfterApplyClean
      BY DEF CleanInv
    <3>5. hist[i + 1].rc = 0
      BY <3>2, <3>3, <3>4, Zenon DEF CheckAfterApplyClean
    <3>. QED  BY <3>1, <3>5
  <2>2. CASE i = Len(hist)
    <3>1. hist'[i] = hist[Len(hist)] /\ hist'[i + 1] = e /\ Len(hist) > 0
      BY <1>1, <1>3, <2>2
    <3>. QED  BY <3>1, <1>6
  <2>. QED  BY <1>1, <1>3, <2>1, <2>2
<1>8. todo' \subseteq UnderRoot(opts')
  BY <1>1, <1>2
<1>. QED  BY <1>1, <1>2, <1>5, <1>7, <1>8 DEF CleanInv

LEMMA CleanNext == TypeOK /\ CleanInv /\ [Next]_vars => CleanInv'
<1> SUFFICES ASSUME TypeOK, CleanInv, [Next]_vars PROVE CleanInv'
  OBVIOUS
<1>1. CASE Start    BY <1>1, CleanStart
<1>2. CASE Visit    BY <1>2, CleanVisit
<1>3. CASE Finish   BY <1>3, CleanFinish
<1>4. CASE UNCHANGED vars
  BY <1>4 DEF vars, CleanInv, CheckAfterApplyClean, Clean, Settled, UnderRoot
<1>. QED  BY <1>1, <1>2, <1>3, <1>4 DEF Next

\* CheckAfterApplyClean: the workflow of the script's docstring holds for
\* every tree and every sequence of runs.  When an --apply run returns,
\* every .c/.h file it selected carries the header or is empty; no later
\* run can take a header away; so the --check run that follows with the
\* same root, extensions and excludes reports nothing and exits 0.
THEOREM CheckClean == Spec => []CheckAfterApplyClean
<1>1. CleanInv => CheckAfterApplyClean
  BY DEF CleanInv
<1>. QED  BY <1>1, TypeCorrect, CleanInit, CleanNext, PTL DEF Spec

=============================================================================
