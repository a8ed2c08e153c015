-------------------------- MODULE SeqFlattenLemmas --------------------------
(***************************************************************************)
(* Facts about FlattenSeq (SequencesExt), which the models use for every  *)
(* output built piece by piece: the names blob and C literal of           *)
(* gen_ksyms.py, the lines hexdump prints.  FlattenSeq is defined through *)
(* a local recursive function; the facts are reached by least-            *)
(* counterexample arguments over the naturals (WFMin on                   *)
(* NatLessThanWellFounded) in place of an induction rule.                 *)
(***************************************************************************)
EXTENDS SequencesExt, WellFoundedInduction, SequenceTheorems, TLAPS

\* Every nonempty set of naturals has a least element.
LEMMA LeastNat ==
    ASSUME NEW S \in SUBSET Nat, S # {}
    PROVE  \E m \in S : \A y \in S : m <= y
<1>1. \E m \in S : \A y \in S : ~(<<y, m>> \in OpToRel(<, Nat))
  BY NatLessThanWellFounded, WFMin
<1>2. \A y, m \in Nat : y < m => <<y, m>> \in OpToRel(<, Nat)
  BY Zenon DEF OpToRel
<1>3. PICK m \in S : \A y \in S : ~(<<y, m>> \in OpToRel(<, Nat))
  BY <1>1
<1>4. \A y \in S : ~(y < m)
  BY <1>2, <1>3, Zenon
<1>. QED  BY <1>4

\* The equation that defines FlattenSeq's local function flatten.
FlatRhs(seqs, f) == [i \in 1..Len(seqs) |-> IF i = 1 THEN seqs[i] ELSE f[i - 1] \o seqs[i]]

\* A function on 1..n that satisfies that equation up to n.
FlatPrefix(seqs, T, n) ==
    \E g \in [1..n -> Seq(T)] :
        \A i \in 1..n : g[i] = IF i = 1 THEN seqs[i] ELSE g[i - 1] \o seqs[i]

\* The equation has a solution up to every n: extend the one up to n - 1.
LEMMA FlatPrefixExists ==
    ASSUME NEW T, NEW seqs \in Seq(Seq(T))
    PROVE  \A n \in 0..Len(seqs) : FlatPrefix(seqs, T, n)
<1> DEFINE L == Len(seqs)
           Bad == {n \in 0..L : ~FlatPrefix(seqs, T, n)}
<1> SUFFICES ASSUME Bad # {} PROVE FALSE
  BY Zenon
<1>1. Bad \in SUBSET Nat
  <2>1. 0..L \subseteq Nat
    OBVIOUS
  <2>. QED  BY <2>1, Zenon
<1>2. PICK m \in Bad : \A y \in Bad : m <= y
  BY <1>1, LeastNat
<1>3. m \in 0..L /\ ~FlatPrefix(seqs, T, m)
  BY <1>2, Zenon
<1>4. FlatPrefix(seqs, T, 0)
  <2>1. [i \in 1..0 |-> seqs] \in [1..0 -> Seq(T)] /\ 1..0 = {}
    OBVIOUS
  <2>. QED  BY <2>1, Zenon DEF FlatPrefix
<1>5. m # 0 /\ m - 1 \in 0..L
  BY <1>3, <1>4
<1>6. m - 1 \notin Bad
  BY <1>2, <1>5
<1>7. FlatPrefix(seqs, T, m - 1)
  BY <1>5, <1>6, Zenon
<1>8. PICK g \in [1..(m - 1) -> Seq(T)] :
        \A i \in 1..(m - 1) : g[i] = IF i = 1 THEN seqs[i] ELSE g[i - 1] \o seqs[i]
  BY <1>7 DEF FlatPrefix
<1> DEFINE g2 == [i \in 1..m |-> IF i < m THEN g[i]
                                 ELSE IF m = 1 THEN seqs[1] ELSE g[m - 1] \o seqs[m]]
<1>9. g2 \in [1..m -> Seq(T)]
  BY <1>3, <1>5, <1>8
<1>10. \A i \in 1..m : g2[i] = IF i = 1 THEN seqs[i] ELSE g2[i - 1] \o seqs[i]
  <2> SUFFICES ASSUME NEW i \in 1..m
               PROVE  g2[i] = IF i = 1 THEN seqs[i] ELSE g2[i - 1] \o seqs[i]
    OBVIOUS
  <2>1. CASE i < m
    <3>1. i \in 1..(m - 1) /\ g2[i] = g[i]
      BY <2>1
    <3>2. g[i] = IF i = 1 THEN seqs[i] ELSE g[i - 1] \o seqs[i]
      BY <3>1, <1>8
    <3>3. i # 1 => g2[i - 1] = g[i - 1]
      BY <2>1
    <3>. QED  BY <3>1, <3>2, <3>3
  <2>2. CASE i = m /\ m = 1
    BY <2>2
  <2>3. CASE i = m /\ m # 1
    <3>0. ~(i < m) /\ m # 1
      BY <2>3
    <3>1. g2[i] = g[m - 1] \o seqs[m]
      BY <3>0, <2>3, Zenon
    <3>2. i - 1 \in 1..m /\ i - 1 < m
      BY <2>3, <1>5
    <3>3. g2[i - 1] = g[i - 1]
      BY <3>2
    <3>. QED  BY <2>3, <3>1, <3>3
  <2>. QED  BY <2>1, <2>2, <2>3
<1>. QED  BY <1>3, <1>9, <1>10, Zenon DEF FlatPrefix

\* FlattenSeq of sequences over T is a sequence over T.
LEMMA FlattenSeqType ==
    ASSUME NEW T, NEW seqs \in Seq(Seq(T))
    PROVE  FlattenSeq(seqs) \in Seq(T)
<1>1. CASE Len(seqs) = 0
  BY <1>1 DEF FlattenSeq
<1>2. CASE Len(seqs) # 0
  <2> DEFINE L == Len(seqs)
             F == CHOOSE f : f = FlatRhs(seqs, f)
  <2>0. L \in Nat \ {0}
    BY <1>2
  <2>1. FlattenSeq(seqs) = F[L]
    BY <1>2, Zenon DEF FlattenSeq, FlatRhs
  <2>2. \E f : f = FlatRhs(seqs, f)
    <3>1. FlatPrefix(seqs, T, L)
      BY <2>0, FlatPrefixExists
    <3>2. PICK g \in [1..L -> Seq(T)] :
            \A i \in 1..L : g[i] = IF i = 1 THEN seqs[i] ELSE g[i - 1] \o seqs[i]
      BY <3>1 DEF FlatPrefix
    <3>3. g = FlatRhs(seqs, g)
      BY <3>2 DEF FlatRhs
    <3>. QED  BY <3>3
  <2>3. F = FlatRhs(seqs, F)
    BY <2>2
  <2> HIDE DEF F
  <2>4. \A i \in 1..L : F[i] \in Seq(T)
    <3> DEFINE Bad == {i \in 1..L : F[i] \notin Seq(T)}
    <3> SUFFICES ASSUME Bad # {} PROVE FALSE
      OBVIOUS
    <3>0. Bad \in SUBSET Nat
      <4>1. 1..L \subseteq Nat
        OBVIOUS
      <4>. QED  BY <4>1
    <3>1. PICK m \in Bad : \A y \in Bad : m <= y
      BY <3>0, LeastNat
    <3>2. m \in 1..L /\ F[m] \notin Seq(T)
      BY <3>1
    <3>3. F[m] = IF m = 1 THEN seqs[m] ELSE F[m - 1] \o seqs[m]
      BY <3>2, <2>3 DEF FlatRhs
    <3>4. CASE m = 1
      BY <3>2, <3>3, <3>4
    <3>5. CASE m # 1
      <4>1. m - 1 \in 1..L /\ m - 1 \notin Bad
        BY <3>1, <3>2, <3>5
      <4>2. F[m - 1] \in Seq(T)
        BY <4>1
      <4>3. seqs[m] \in Seq(T)
        BY <3>2
      <4>4. F[m] = F[m - 1] \o seqs[m]
        BY <3>3, <3>5
      <4>. QED  BY <4>2, <4>3, <4>4, <3>2
    <3>. QED  BY <3>4, <3>5
  <2>. QED  BY <2>0, <2>1, <2>4
<1>. QED  BY <1>1, <1>2

\* The function FlattenSeq takes the last value of.
Flat(seqs) == CHOOSE f : f = FlatRhs(seqs, f)

\* For a nonempty list, Flat solves the equation and FlattenSeq is its last
\* value.
LEMMA FlatFix ==
    ASSUME NEW T, NEW seqs \in Seq(Seq(T)), Len(seqs) # 0
    PROVE  /\ Flat(seqs) = FlatRhs(seqs, Flat(seqs))
           /\ FlattenSeq(seqs) = Flat(seqs)[Len(seqs)]
<1>1. FlattenSeq(seqs) = Flat(seqs)[Len(seqs)]
  BY Zenon DEF FlattenSeq, FlatRhs, Flat
<1>2. \E f : f = FlatRhs(seqs, f)
  <2>1. FlatPrefix(seqs, T, Len(seqs))
    BY FlatPrefixExists
  <2>2. PICK g \in [1..Len(seqs) -> Seq(T)] :
          \A i \in 1..Len(seqs) : g[i] = IF i = 1 THEN seqs[i] ELSE g[i - 1] \o seqs[i]
    BY <2>1 DEF FlatPrefix
  <2>3. g = FlatRhs(seqs, g)
    BY <2>2 DEF FlatRhs
  <2>. QED  BY <2>3
<1>. QED  BY <1>1, <1>2 DEF Flat

\* Flattening a list with one more piece appends that piece: what a loop
\* that writes one piece per iteration has written.
LEMMA FlattenSeqAppend ==
    ASSUME NEW T, NEW seqs \in Seq(Seq(T)), NEW x \in Seq(T)
    PROVE  FlattenSeq(Append(seqs, x)) = FlattenSeq(seqs) \o x
<1>. DEFINE s2 == Append(seqs, x)
            L  == Len(seqs)
            G  == Flat(s2)
<1>1. /\ s2 \in Seq(Seq(T)) /\ Len(s2) = L + 1
      /\ \A i \in 1..L : s2[i] = seqs[i]
      /\ s2[L + 1] = x
  BY AppendProperties
<1>2. G = FlatRhs(s2, G) /\ FlattenSeq(s2) = G[L + 1]
  <2>1. Len(s2) # 0 /\ Len(s2) = L + 1
    BY <1>1
  <2>. QED  BY <1>1, <2>1, FlatFix, Zenon
<1>. HIDE DEF G, s2
<1>3. G[L + 1] = IF L + 1 = 1 THEN x ELSE G[L] \o x
  <2>1. G[L + 1] = FlatRhs(s2, G)[L + 1]
    BY <1>2, Zenon
  <2>2. L + 1 \in 1..Len(s2)
    BY <1>1
  <2>3. FlatRhs(s2, G)[L + 1] = IF L + 1 = 1 THEN s2[L + 1] ELSE G[L + 1 - 1] \o s2[L + 1]
    BY <2>2 DEF FlatRhs
  <2>. QED  BY <1>1, <2>1, <2>3
<1>4. CASE L = 0
  <2>1. seqs = << >> /\ FlattenSeq(seqs) = << >>
    BY <1>4 DEF FlattenSeq
  <2>2. << >> \o x = x
    OBVIOUS
  <2>. QED  BY <1>2, <1>3, <1>4, <2>1, <2>2 DEF s2
<1>5. CASE L # 0
  <2>. DEFINE F == Flat(seqs)
  <2>1. F = FlatRhs(seqs, F) /\ FlattenSeq(seqs) = F[L]
    BY <1>5, FlatFix
  <2>. HIDE DEF F, G
  <2>2. \A i \in 1..L : G[i] = F[i]
    <3>. DEFINE Bad == {i \in 1..L : G[i] # F[i]}
    <3>. SUFFICES ASSUME Bad # {} PROVE FALSE
      OBVIOUS
    <3>0. Bad \in SUBSET Nat
      <4>1. 1..L \subseteq Nat
        OBVIOUS
      <4>. QED  BY <4>1
    <3>1. PICK m \in Bad : \A y \in Bad : m <= y
      BY <3>0, LeastNat
    <3>2. m \in 1..L /\ G[m] # F[m]
      BY <3>1
    <3>3. /\ G[m] = IF m = 1 THEN s2[m] ELSE G[m - 1] \o s2[m]
          /\ F[m] = IF m = 1 THEN seqs[m] ELSE F[m - 1] \o seqs[m]
      <4>1. G[m] = FlatRhs(s2, G)[m] /\ F[m] = FlatRhs(seqs, F)[m]
        BY <1>2, <2>1, Zenon
      <4>2. m \in 1..Len(s2) /\ m \in 1..Len(seqs)
        BY <1>1, <3>2
      <4>3. /\ FlatRhs(s2, G)[m] = IF m = 1 THEN s2[m] ELSE G[m - 1] \o s2[m]
            /\ FlatRhs(seqs, F)[m] = IF m = 1 THEN seqs[m] ELSE F[m - 1] \o seqs[m]
        BY <4>2 DEF FlatRhs
      <4>. QED  BY <4>1, <4>3
    <3>4. m # 1 => G[m - 1] = F[m - 1]
      <4>1. m # 1 => m - 1 \in 1..L /\ m - 1 \notin Bad
        BY <3>1, <3>2
      <4>. QED  BY <4>1
    <3>. QED  BY <1>1, <3>2, <3>3, <3>4
  <2>3. G[L] = F[L]
    BY <1>5, <2>2
  <2>. QED  BY <1>2, <1>3, <1>5, <2>1, <2>3 DEF s2
<1>. QED  BY <1>4, <1>5

=============================================================================
