-------------------------- MODULE ChunkParserProofs --------------------------
(***************************************************************************)
(* Proofs about ChunkParser, for documents of any length and any lines.    *)
(***************************************************************************)
EXTENDS ChunkParser, PositionsProofs, SequenceTheorems, WellFoundedInduction,
        TLAPS

(***************************************************************************)
(* Induction, for a set: one that holds 0 and the successor of each of its *)
(* members is the set of the naturals.                                     *)
(***************************************************************************)
LEMMA Induction ==
  ASSUME NEW T \in SUBSET Nat, 0 \in T, \A n \in T : n + 1 \in T
  PROVE  T = Nat
<1> DEFINE less == {p \in Nat \X Nat : p[1] < p[2]}
<1>1. IsWellFoundedOn(less, Nat)
  <2>1. less = OpToRel(<, Nat)
    BY DEF OpToRel
  <2> QED
    BY <2>1, NatLessThanWellFounded
<1>2. CASE Nat \ T # {}
  <2> DEFINE rest == Nat \ T
  <2>1. PICK m \in rest : \A y \in rest : <<y, m>> \notin less
    <3> HIDE DEF less
    <3> QED
      BY <1>1, <1>2, WFMin
  <2>2. m \in Nat /\ m # 0 /\ m - 1 \in Nat /\ m - 1 < m
    OBVIOUS
  <2>3. m - 1 \in T
    BY <2>1, <2>2
  <2>4. m - 1 + 1 = m
    BY <2>2
  <2> QED
    BY <2>1, <2>3, <2>4
<1> QED
  BY <1>2

(***************************************************************************)
(* The same from n down to 1, where a member may rest on all above it.     *)
(***************************************************************************)
LEMMA InductionFromTheEnd ==
  ASSUME NEW n \in Nat, NEW T \in SUBSET (1..n),
         \A i \in 1..n : i + 1 .. n \subseteq T => i \in T
  PROVE  T = 1..n
<1> DEFINE U == {m \in Nat : n + 1 - m .. n \cap 1..n \subseteq T}
<1>1. 0 \in U
  OBVIOUS
<1>2. \A m \in U : m + 1 \in U
  <2> SUFFICES ASSUME NEW m \in U, NEW i \in n + 1 - (m + 1) .. n, i \in 1..n
      PROVE  i \in T
    OBVIOUS
  <2>1. i + 1 .. n \subseteq n + 1 - m .. n \cap 1..n
    OBVIOUS
  <2> QED
    BY <2>1
<1>3. U = Nat
  <2>1. U \in SUBSET Nat
    OBVIOUS
  <2> HIDE DEF U
  <2> QED
    BY <1>1, <1>2, <2>1, Induction
<1>4. n + 1 - n .. n \cap 1..n \subseteq T
  <2>1. n \in U
    BY <1>3
  <2> QED
    BY <2>1
<1>5. n + 1 - n = 1
  OBVIOUS
<1> QED
  BY <1>4, <1>5

(***************************************************************************)
(* Min and Max are what their names say.                                   *)
(***************************************************************************)
LEMMA Smallest ==
  ASSUME NEW S \in SUBSET Nat, S # {}
  PROVE  Min(S) \in S /\ \A i \in S : Min(S) <= i
<1> DEFINE T == {n \in Nat : \A i \in S : n <= i}
<1>1. 0 \in T
  OBVIOUS
<1>2. \E m \in S : m \in T
  <2> SUFFICES ASSUME \A m \in S : m \notin T PROVE FALSE
    OBVIOUS
  <2>1. \A n \in T : n + 1 \in T
    <3> SUFFICES ASSUME NEW n \in T, NEW i \in S PROVE n + 1 <= i
      OBVIOUS
    <3>1. n # i /\ n <= i /\ n \in Nat /\ i \in Nat
      OBVIOUS
    <3> QED
      BY <3>1
  <2>2. T = Nat
    <3> HIDE DEF T
    <3>1. T \in SUBSET Nat
      BY DEF T
    <3> QED
      BY <1>1, <2>1, <3>1, Induction
  <2>3. PICK i \in S : TRUE
    OBVIOUS
  <2>4. i + 1 \in T
    BY <2>2
  <2> QED
    BY <2>4
<1>3. \E m \in S : \A i \in S : m <= i
  BY <1>2
<1> QED
  BY <1>3 DEF Min

LEMMA Largest ==
  ASSUME NEW n \in Nat, NEW S \in SUBSET (1..n), S # {}
  PROVE  Max(S) \in S /\ \A i \in S : i <= Max(S)
<1> DEFINE R == {n - i : i \in S}
<1>1. R \in SUBSET Nat /\ R # {}
  <2>1. \A i \in S : n - i \in Nat
    OBVIOUS
  <2>2. PICK i \in S : TRUE
    OBVIOUS
  <2>3. n - i \in R
    OBVIOUS
  <2> QED
    BY <2>1, <2>3
<1>2. PICK m \in S : n - m = Min(R)
  <2> HIDE DEF R
  <2>1. Min(R) \in R
    BY <1>1, Smallest
  <2> QED
    BY <2>1 DEF R
<1>3. \A i \in S : n - m <= n - i
  <2>1. \A k \in R : Min(R) <= k
    <3> HIDE DEF R
    <3> QED
      BY <1>1, Smallest
  <2> QED
    BY <1>2, <2>1
<1>4. \E k \in S : \A i \in S : k >= i
  <2>1. \A i \in S : m >= i
    BY <1>3
  <2> QED
    BY <2>1
<1>5. Max(S) \in S /\ \A i \in S : Max(S) >= i
  BY <1>4 DEF Max
<1> QED
  BY <1>5

----------------------------------------------------------------------------
(***************************************************************************)
(* A match at line i ends at that line or at a later one.                  *)
(***************************************************************************)
LEMMA MatchEnds ==
  ASSUME NEW lines, Len(lines) \in Nat, NEW i \in 1..Len(lines)
  PROVE  LastLine(lines, i) \in SUBSET (i..Len(lines))
<1> DEFINE filled == {j \in i + 1 .. Len(lines) : lines[j] # Text(Blank)}
<1>1. CASE lines[i].value # Blank
  BY <1>1 DEF LastLine
<1>2. CASE lines[i].value = Blank
  <2>1. LastLine(lines, i) = IF filled = {} THEN {} ELSE {Min(filled)}
    BY <1>2 DEF LastLine
  <2>2. filled \in SUBSET Nat /\ filled \in SUBSET (i..Len(lines))
    OBVIOUS
  <2> HIDE DEF filled
  <2>3. filled # {} => Min(filled) \in filled
    BY <2>2, Smallest
  <2> QED
    BY <2>1, <2>2, <2>3
<1> QED
  BY <1>1, <1>2

(***************************************************************************)
(* The search for headings is well defined: it goes on behind every match. *)
(***************************************************************************)
Matches(lines, mark, i) == lines[i].mark = mark /\ LastLine(lines, i) # {}
End(lines, i) == CHOOSE k \in LastLine(lines, i) : TRUE
Heading(lines, i) ==
  [start |-> i, end |-> End(lines, i), name |-> Captured(lines, i)]
SearchAt(lines, mark, later, i) ==
  IF i > Len(lines) THEN <<>>
  ELSE IF Matches(lines, mark, i)
  THEN <<Heading(lines, i)>> \o later[End(lines, i) + 1]
  ELSE later[i + 1]

LEMMA EndIsBehind ==
  ASSUME NEW lines, NEW mark, Len(lines) \in Nat, NEW i \in 1..Len(lines),
         Matches(lines, mark, i)
  PROVE  End(lines, i) \in i..Len(lines)
<1>1. End(lines, i) \in LastLine(lines, i)
  BY DEF Matches, End
<1> QED
  BY <1>1, MatchEnds

LEMMA SearchLooksAhead ==
  ASSUME NEW lines, NEW mark, Len(lines) \in Nat,
         NEW i \in 1..Len(lines) + 1, NEW f, NEW g,
         \A k \in i + 1 .. Len(lines) + 1 : f[k] = g[k]
  PROVE  SearchAt(lines, mark, f, i) = SearchAt(lines, mark, g, i)
<1>1. CASE i > Len(lines)
  BY <1>1 DEF SearchAt
<1>2. CASE i \in 1..Len(lines) /\ Matches(lines, mark, i)
  <2>1. End(lines, i) + 1 \in i + 1 .. Len(lines) + 1
    BY <1>2, EndIsBehind
  <2>2. f[End(lines, i) + 1] = g[End(lines, i) + 1]
    BY <2>1
  <2> QED
    BY <1>2, <2>2 DEF SearchAt
<1>3. CASE i \in 1..Len(lines) /\ ~ Matches(lines, mark, i)
  <2>1. f[i + 1] = g[i + 1]
    BY <1>3
  <2> QED
    BY <1>3, <2>1 DEF SearchAt
<1> QED
  BY <1>1, <1>2, <1>3

LEMMA SearchIsDefined ==
  ASSUME NEW lines, NEW mark, Len(lines) \in Nat
  PROVE  \A i \in 1..Len(lines) + 1 :
           HeadingsFrom(lines, mark)[i]
             = SearchAt(lines, mark, HeadingsFrom(lines, mark), i)
<1> DEFINE L == Len(lines)
           S(f, i) == SearchAt(lines, mark, f, i)
           Done(n, f) == f = [i \in L + 2 - n .. L + 1 |-> S(f, i)]
           T == {n \in Nat : n <= L + 1 => \E f : Done(n, f)}
<1>1. 0 \in T
  <2> DEFINE f == [i \in L + 2 .. L + 1 |-> 0]
  <2>1. L + 2 .. L + 1 = {} /\ L + 2 - 0 = L + 2
    OBVIOUS
  <2>2. f = [i \in L + 2 .. L + 1 |-> S(f, i)]
    BY <2>1
  <2>3. Done(0, f)
    BY <2>1, <2>2
  <2> QED
    BY <2>3
<1>2. \A n \in T : n + 1 \in T
  <2> SUFFICES ASSUME NEW n \in Nat, n + 1 <= L + 1, n <= L + 1 => \E f : Done(n, f)
      PROVE  \E f : Done(n + 1, f)
    BY DEF T
  <2> DEFINE at == L + 1 - n
  <2>1. PICK g : Done(n, g)
    OBVIOUS
  <2>2. at \in 1..L + 1 /\ L + 2 - n = at + 1 /\ L + 2 - (n + 1) = at
    OBVIOUS
  <2> DEFINE f == [i \in at .. L + 1 |-> IF i = at THEN S(g, at) ELSE g[i]]
  <2> HIDE DEF at
  <2>3. g = [i \in at + 1 .. L + 1 |-> S(g, i)]
    BY <2>1, <2>2
  <2> HIDE DEF S
  <2>4. \A i \in at + 1 .. L + 1 : f[i] = g[i]
    BY <2>2
  <2>5. ASSUME NEW i \in at .. L + 1 PROVE f[i] = S(f, i)
    <3>1. f[i] = S(g, i)
      <4>1. CASE i = at
        BY <4>1
      <4>2. CASE i # at
        <5>1. i \in at + 1 .. L + 1 /\ f[i] = g[i]
          BY <2>2, <4>2
        <5> HIDE DEF f
        <5>2. g[i] = S(g, i)
          BY <2>3, <5>1
        <5> QED
          BY <5>1, <5>2
      <4> QED
        BY <4>1, <4>2
    <3>2. \A k \in i + 1 .. L + 1 : f[k] = g[k]
      BY <2>2, <2>4
    <3>3. i \in 1..Len(lines) + 1
      BY <2>2
    <3> HIDE DEF f
    <3>4. S(f, i) = S(g, i)
      BY <3>2, <3>3, SearchLooksAhead DEF S
    <3> QED
      BY <3>1, <3>4
  <2>6. f = [i \in at .. L + 1 |-> S(f, i)]
    BY <2>5
  <2>7. Done(n + 1, f)
    BY <2>2, <2>6
  <2> QED
    BY <2>7
<1>3. T = Nat
  <2>1. T \in SUBSET Nat
    OBVIOUS
  <2> HIDE DEF T
  <2> QED
    BY <1>1, <1>2, <2>1, Induction
<1>4. \E f : f = [i \in 1..L + 1 |-> S(f, i)]
  <2>1. L + 1 \in T
    BY <1>3
  <2>2. L + 2 - (L + 1) = 1
    OBVIOUS
  <2> QED
    BY <2>1, <2>2
<1>5. HeadingsFrom(lines, mark) = CHOOSE f : f = [i \in 1..L + 1 |-> S(f, i)]
  BY DEF HeadingsFrom, SearchAt, Matches, End, Heading
<1> HIDE DEF S
<1>6. HeadingsFrom(lines, mark)
        = [i \in 1..L + 1 |-> S(HeadingsFrom(lines, mark), i)]
  BY <1>4, <1>5
<1> QED
  BY <1>6 DEF S

----------------------------------------------------------------------------
(***************************************************************************)
(* Headings stand one behind the other.                                    *)
(***************************************************************************)
HeadingsBehind(lines, mark, i) ==
  {Heading(lines, k) : k \in {j \in i..Len(lines) : Matches(lines, mark, j)}}
InOrder(headings) ==
  \A n, m \in 1..Len(headings) : n < m => headings[n].end < headings[m].start

LEMMA MatchesAreInOrder ==
  ASSUME NEW lines, NEW mark, Len(lines) \in Nat
  PROVE  \A i \in 1..Len(lines) + 1 :
           /\ HeadingsFrom(lines, mark)[i] \in Seq(HeadingsBehind(lines, mark, i))
           /\ InOrder(HeadingsFrom(lines, mark)[i])
<1> DEFINE L == Len(lines)
           from == HeadingsFrom(lines, mark)
           H(i) == HeadingsBehind(lines, mark, i)
           T == {i \in 1..L + 1 : from[i] \in Seq(H(i)) /\ InOrder(from[i])}
<1>1. ASSUME NEW i \in 1..L + 1, i + 1 .. L + 1 \subseteq T PROVE i \in T
  <2> HIDE DEF from
  <2>0. from[i] = SearchAt(lines, mark, from, i)
    BY SearchIsDefined DEF from
  <2>1. CASE i > L
    <3>1. from[i] = <<>>
      BY <2>0, <2>1 DEF SearchAt
    <3>2. <<>> \in Seq(H(i)) /\ InOrder(<<>>)
      BY EmptySeq DEF InOrder
    <3> QED
      BY <3>1, <3>2
  <2>2. CASE i <= L /\ Matches(lines, mark, i)
    <3> DEFINE e == End(lines, i)
               rest == from[e + 1]
               x == Heading(lines, i)
    <3>1. from[i] = <<x>> \o rest
      BY <2>0, <2>2 DEF SearchAt
    <3>2. e \in i..L
      BY <2>2, EndIsBehind
    <3>3. rest \in Seq(H(e + 1)) /\ InOrder(rest)
      <4>1. e + 1 \in i + 1 .. L + 1
        BY <3>2
      <4>2. e + 1 \in T
        BY <1>1, <4>1
      <4> QED
        BY <4>2
    <3> HIDE DEF e, rest
    <3>4. x \in H(i) /\ x.end = e
      <4>1. i \in {j \in i..Len(lines) : Matches(lines, mark, j)}
        BY <2>2
      <4> QED
        BY <4>1 DEF HeadingsBehind, Heading, e
    <3>5. H(e + 1) \subseteq H(i) /\ \A h \in H(e + 1) : e < h.start
      BY <3>2 DEF HeadingsBehind, Heading
    <3> HIDE DEF x, H
    <3>6. /\ <<x>> \in Seq(H(i)) /\ rest \in Seq(H(i))
          /\ Len(<<x>>) = 1 /\ Len(rest) \in Nat
          /\ \A n \in 1..Len(rest) : rest[n] \in H(e + 1)
      BY <3>3, <3>4, <3>5, ElementOfSeq, LenProperties
    <3>7. /\ <<x>> \o rest \in Seq(H(i)) /\ Len(<<x>> \o rest) = 1 + Len(rest)
          /\ (<<x>> \o rest)[1] = x
          /\ \A n \in 2..1 + Len(rest) : (<<x>> \o rest)[n] = rest[n - 1]
      BY <3>6, ConcatProperties
    <3>8. InOrder(<<x>> \o rest)
      <4> SUFFICES ASSUME NEW n \in 1..1 + Len(rest), NEW m \in 1..1 + Len(rest),
                          n < m
          PROVE  (<<x>> \o rest)[n].end < (<<x>> \o rest)[m].start
        BY <3>7 DEF InOrder
      <4>1. m \in 2..1 + Len(rest) /\ m - 1 \in 1..Len(rest)
        BY <3>6
      <4>2. CASE n = 1
        BY <3>4, <3>5, <3>6, <3>7, <4>1, <4>2
      <4>3. CASE n # 1
        <5>1. n \in 2..1 + Len(rest) /\ n - 1 \in 1..Len(rest) /\ n - 1 < m - 1
          BY <3>6, <4>3
        <5> QED
          BY <3>3, <3>7, <4>1, <5>1 DEF InOrder
      <4> QED
        BY <4>2, <4>3
    <3> QED
      BY <3>1, <3>7, <3>8
  <2>3. CASE i <= L /\ ~ Matches(lines, mark, i)
    <3>1. from[i] = from[i + 1]
      BY <2>0, <2>3 DEF SearchAt
    <3>2. i + 1 \in T
      BY <1>1, <2>3
    <3>3. H(i + 1) \subseteq H(i)
      BY DEF HeadingsBehind
    <3> QED
      BY <3>1, <3>2, <3>3
  <2> QED
    BY <2>1, <2>2, <2>3
<1>2. T = 1..L + 1
  <2>1. T \in SUBSET (1..L + 1) /\ L + 1 \in Nat
    OBVIOUS
  <2> HIDE DEF T
  <2> QED
    BY <1>1, <2>1, InductionFromTheEnd
<1> QED
  BY <1>2

LEMMA HeadingsAreInOrder ==
  ASSUME NEW lines, NEW mark, Len(lines) \in Nat
  PROVE  /\ Headings(lines, mark) \in Seq(HeadingsBehind(lines, mark, 1))
         /\ InOrder(Headings(lines, mark))
<1>1. 1 \in 1..Len(lines) + 1
  OBVIOUS
<1> QED
  BY <1>1, MatchesAreInOrder DEF Headings

----------------------------------------------------------------------------
(***************************************************************************)
(* FlattenSeq puts its sequences one behind the other: every position of   *)
(* the result is a place of its own in one of them.                        *)
(***************************************************************************)
Places(seqs) == {p \in (1..Len(seqs)) \X Nat : p[2] \in 1..Len(seqs[p[1]])}
IsCopied(s, seqs, at) ==
  /\ at \in Injection(1..Len(s), Places(seqs))
  /\ \A i \in 1..Len(s) : s[i] = seqs[at[i][1]][at[i][2]]

FlatAt(seqs, before, i) == IF i = 1 THEN seqs[i] ELSE before[i - 1] \o seqs[i]
Flat(seqs) == CHOOSE f : f = [i \in 1..Len(seqs) |-> FlatAt(seqs, f, i)]

LEMMA FlatIsDefined ==
  ASSUME NEW seqs, Len(seqs) \in Nat
  PROVE  \A i \in 1..Len(seqs) : Flat(seqs)[i] = FlatAt(seqs, Flat(seqs), i)
<1> DEFINE Done(n, f) == f = [i \in 1..n |-> FlatAt(seqs, f, i)]
           T == {n \in Nat : \E f : Done(n, f)}
<1>1. 0 \in T
  <2> DEFINE f == [i \in 1..0 |-> 0]
  <2>1. 1..0 = {}
    OBVIOUS
  <2>2. f = [i \in 1..0 |-> FlatAt(seqs, f, i)]
    BY <2>1
  <2> QED
    BY <2>2
<1>2. \A n \in T : n + 1 \in T
  <2> SUFFICES ASSUME NEW n \in Nat, \E f : Done(n, f) PROVE \E f : Done(n + 1, f)
    BY DEF T
  <2>1. PICK g : Done(n, g)
    OBVIOUS
  <2> DEFINE f == [i \in 1..n + 1 |->
                     IF i = n + 1 THEN FlatAt(seqs, g, i) ELSE g[i]]
  <2>2. \A i \in 1..n : f[i] = g[i] /\ i \in 1..n + 1
    OBVIOUS
  <2>3. ASSUME NEW i \in 1..n + 1 PROVE f[i] = FlatAt(seqs, f, i)
    <3>1. f[i] = FlatAt(seqs, g, i)
      <4>1. CASE i = n + 1
        BY <4>1
      <4>2. CASE i # n + 1
        <5>1. i \in 1..n /\ f[i] = g[i]
          BY <4>2
        <5> HIDE DEF f
        <5>2. g[i] = FlatAt(seqs, g, i)
          BY <2>1, <5>1
        <5> QED
          BY <5>1, <5>2
      <4> QED
        BY <4>1, <4>2
    <3>2. i # 1 => i - 1 \in 1..n
      OBVIOUS
    <3> HIDE DEF f
    <3>3. i # 1 => f[i - 1] = g[i - 1]
      BY <2>2, <3>2
    <3> QED
      BY <3>1, <3>3 DEF FlatAt
  <2>4. f = [i \in 1..n + 1 |-> FlatAt(seqs, f, i)]
    BY <2>3
  <2> QED
    BY <2>4
<1>3. T = Nat
  <2>1. T \in SUBSET Nat
    OBVIOUS
  <2> HIDE DEF T
  <2> QED
    BY <1>1, <1>2, <2>1, Induction
<1>4. \E f : f = [i \in 1..Len(seqs) |-> FlatAt(seqs, f, i)]
  <2>1. Len(seqs) \in T
    BY <1>3
  <2> QED
    BY <2>1
<1>5. Flat(seqs) = [i \in 1..Len(seqs) |-> FlatAt(seqs, Flat(seqs), i)]
  BY <1>4 DEF Flat
<1> QED
  BY <1>5

LEMMA FlattenCopies ==
  ASSUME NEW S, NEW seqs, Len(seqs) \in Nat, DOMAIN seqs = 1..Len(seqs),
         \A n \in 1..Len(seqs) : seqs[n] \in Seq(S)
  PROVE  /\ FlattenSeq(seqs) \in Seq(S)
         /\ \E at : IsCopied(FlattenSeq(seqs), seqs, at)
<1> DEFINE f == Flat(seqs)
           Copied(n) == /\ f[n] \in Seq(S)
                        /\ \E at : /\ IsCopied(f[n], seqs, at)
                                   /\ \A i \in 1..Len(f[n]) : at[i][1] <= n
           T == {m \in Nat : \A n \in 1..m : n <= Len(seqs) => Copied(n)}
<1>1. 0 \in T
  OBVIOUS
<1>2. ASSUME 1 <= Len(seqs) PROVE Copied(1)
  <2>1. f[1] = seqs[1] /\ 1 \in 1..Len(seqs)
    BY <1>2, FlatIsDefined DEF FlatAt
  <2> HIDE DEF f
  <2>2. f[1] \in Seq(S) /\ Len(f[1]) \in Nat
    BY <2>1, LenProperties
  <2> DEFINE at == [i \in 1..Len(f[1]) |-> <<1, i>>]
  <2>3. \A i \in 1..Len(f[1]) : <<1, i>> \in Places(seqs)
    BY <2>1, <2>2 DEF Places
  <2>4. at \in Injection(1..Len(f[1]), Places(seqs))
    <3>1. \A i, j \in 1..Len(f[1]) : at[i] = at[j] => i = j
      OBVIOUS
    <3>2. at \in [1..Len(f[1]) -> Places(seqs)]
      BY <2>3
    <3> QED
      BY <3>1, <3>2 DEF Injection, IsInjective
  <2>5. \A i \in 1..Len(f[1]) : at[i][1] = 1 /\ f[1][i] = seqs[at[i][1]][at[i][2]]
    <3> SUFFICES ASSUME NEW i \in 1..Len(f[1])
        PROVE  at[i][1] = 1 /\ f[1][i] = seqs[at[i][1]][at[i][2]]
      OBVIOUS
    <3>1. at[i] = <<1, i>>
      OBVIOUS
    <3> HIDE DEF at
    <3>2. at[i][1] = 1 /\ at[i][2] = i
      BY <3>1
    <3> QED
      BY <2>1, <3>2, Zenon
  <2> HIDE DEF at
  <2>6. IsCopied(f[1], seqs, at) /\ \A i \in 1..Len(f[1]) : at[i][1] <= 1
    BY <2>4, <2>5 DEF IsCopied
  <2> QED
    BY <2>2, <2>6
<1>3. ASSUME NEW n \in Nat, n >= 1, n + 1 <= Len(seqs), Copied(n)
      PROVE  Copied(n + 1)
  <2>1. f[n + 1] = f[n] \o seqs[n + 1]
    <3>1. n + 1 \in 1..Len(seqs) /\ n + 1 # 1 /\ (n + 1) - 1 = n
      BY <1>3
    <3>2. f[n + 1] = FlatAt(seqs, f, n + 1)
      BY <3>1, FlatIsDefined
    <3> HIDE DEF f
    <3>3. ASSUME NEW i, i # 1 PROVE FlatAt(seqs, f, i) = f[i - 1] \o seqs[i]
      BY <3>3, Zenon DEF FlatAt
    <3>4. FlatAt(seqs, f, n + 1) = f[(n + 1) - 1] \o seqs[n + 1]
      BY <3>1, <3>3, Zenon
    <3> QED
      BY <3>1, <3>2, <3>4, Zenon
  <2> HIDE DEF f
  <2>2. PICK at : /\ IsCopied(f[n], seqs, at)
                  /\ \A i \in 1..Len(f[n]) : at[i][1] <= n
    BY <1>3
  <2> DEFINE s == f[n]
             t == seqs[n + 1]
             a == Len(s)
             b == Len(t)
             u == s \o t
             to == [i \in 1..a + b |-> IF i <= a THEN at[i] ELSE <<n + 1, i - a>>]
  <2>3. s \in Seq(S) /\ t \in Seq(S) /\ a \in Nat /\ b \in Nat /\ n + 1 \in 1..Len(seqs)
    <3>1. n + 1 \in 1..Len(seqs)
      BY <1>3
    <3> QED
      BY <1>3, <3>1, LenProperties
  <2>4. /\ u \in Seq(S) /\ Len(u) = a + b
        /\ \A i \in 1..a + b : u[i] = IF i <= a THEN s[i] ELSE t[i - a]
    <3> HIDE DEF s, t
    <3> QED
      BY <2>3, ConcatProperties
  <2>5. f[n + 1] = u
    BY <2>1
  <2>6. /\ at \in [1..a -> Places(seqs)]
        /\ \A i, j \in 1..a : at[i] = at[j] => i = j
        /\ \A i \in 1..a : s[i] = seqs[at[i][1]][at[i][2]] /\ at[i][1] <= n
    BY <2>2, Zenon DEF IsCopied, Injection, IsInjective
  <2> HIDE DEF s, t, a, b, u
  <2>7. \A i \in 1..a + b : i > a => <<n + 1, i - a>> \in Places(seqs)
    <3> SUFFICES ASSUME NEW i \in 1..a + b, i > a PROVE <<n + 1, i - a>> \in Places(seqs)
      OBVIOUS
    <3>1. i - a \in 1..b /\ i - a \in Nat
      BY <2>3
    <3>2. b = Len(seqs[n + 1])
      BY DEF b, t
    <3> QED
      BY <2>3, <3>1, <3>2 DEF Places
  <2>8. to \in [1..a + b -> Places(seqs)]
    <3>1. \A i \in 1..a + b : to[i] \in Places(seqs)
      <4> SUFFICES ASSUME NEW i \in 1..a + b PROVE to[i] \in Places(seqs)
        OBVIOUS
      <4>1. i <= a => i \in 1..a
        BY <2>3
      <4> QED
        BY <2>3, <2>6, <2>7, <4>1
    <3> QED
      BY <3>1
  <2>9. \A i \in 1..a + b :
          /\ i <= a => i \in 1..a /\ to[i] = at[i] /\ to[i][1] <= n
          /\ i > a => to[i] = <<n + 1, i - a>> /\ to[i][1] = n + 1 /\ to[i][2] = i - a
    BY <2>3, <2>6
  <2>10. \A i \in 1..a + b : to[i][1] <= n + 1
    <3> HIDE DEF to
    <3> SUFFICES ASSUME NEW i \in 1..a + b PROVE to[i][1] <= n + 1
      OBVIOUS
    <3>1. to[i] \in Places(seqs)
      BY <2>8
    <3>2. to[i][1] \in 1..Len(seqs)
      BY <3>1 DEF Places
    <3>3. to[i][1] <= n \/ to[i][1] = n + 1
      BY <2>3, <2>9
    <3> QED
      BY <1>3, <3>2, <3>3
  <2>11. \A i \in 1..a + b : u[i] = seqs[to[i][1]][to[i][2]]
    <3> SUFFICES ASSUME NEW i \in 1..a + b
        PROVE u[i] = seqs[to[i][1]][to[i][2]]
      OBVIOUS
    <3> HIDE DEF to
    <3>0. u[i] = IF i <= a THEN s[i] ELSE t[i - a]
      BY <2>4
    <3>1. CASE i <= a
      <4>1. i \in 1..a /\ to[i] = at[i]
        BY <2>9, <3>1
      <4>2. u[i] = s[i] /\ s[i] = seqs[at[i][1]][at[i][2]]
        BY <2>6, <3>0, <3>1, <4>1
      <4> QED
        BY <4>1, <4>2, Zenon
    <3>2. CASE i > a
      <4>1. t = seqs[n + 1]
        BY DEF t
      <4>2. to[i][1] = n + 1 /\ to[i][2] = i - a
        BY <2>9, <3>2
      <4>3. ~(i <= a)
        BY <2>3, <3>2
      <4>4. u[i] = t[i - a]
        BY <3>0, <4>3
      <4> QED
        BY <4>1, <4>2, <4>4, Zenon
    <3>3. i <= a \/ i > a
      BY <2>3
    <3> QED
      BY <3>1, <3>2, <3>3
  <2>12. \A i, j \in 1..a + b : to[i] = to[j] => i = j
    <3> SUFFICES ASSUME NEW i \in 1..a + b, NEW j \in 1..a + b, to[i] = to[j]
        PROVE i = j
      OBVIOUS
    <3> HIDE DEF to
    <3>1. to[i][1] = to[j][1] /\ to[i][2] = to[j][2]
      OBVIOUS
    <3>2. CASE i <= a /\ j <= a
      BY <2>6, <2>9, <3>2
    <3>3. CASE i > a /\ j > a
      <4>1. i - a = j - a
        BY <2>9, <3>1, <3>3
      <4> QED
        BY <2>3, <4>1
    <3>4. CASE i <= a /\ j > a
      BY <1>3, <2>9, <3>1, <3>4
    <3>5. CASE i > a /\ j <= a
      BY <1>3, <2>9, <3>1, <3>5
    <3> QED
      BY <2>3, <3>2, <3>3, <3>4, <3>5
  <2> HIDE DEF to
  <2>13. IsCopied(u, seqs, to) /\ \A i \in 1..Len(u) : to[i][1] <= n + 1
    <3>1. to \in Injection(1..a + b, Places(seqs))
      BY <2>8, <2>12, Zenon DEF Injection, IsInjective
    <3> QED
      BY <2>4, <2>10, <2>11, <3>1 DEF IsCopied
  <2> QED
    BY <2>4, <2>5, <2>13
<1>4. \A m \in T : m + 1 \in T
  <2> HIDE DEF Copied
  <2> SUFFICES ASSUME NEW m \in T PROVE m + 1 \in T
    OBVIOUS
  <2>0. m \in Nat /\ \A n \in 1..m : n <= Len(seqs) => Copied(n)
    OBVIOUS
  <2> SUFFICES ASSUME NEW n \in 1..m + 1, n <= Len(seqs) PROVE Copied(n)
    BY <2>0
  <2> HIDE DEF T
  <2>1. CASE n <= m
    BY <2>0, <2>1
  <2>2. CASE n = 1
    BY <1>2, <2>2
  <2>3. CASE n = m + 1 /\ n # 1
    <3>1. m \in 1..m /\ m <= Len(seqs) /\ m >= 1
      BY <2>0, <2>3
    <3>2. Copied(m)
      BY <2>0, <3>1
    <3> QED
      BY <1>3, <2>0, <2>3, <3>1, <3>2
  <2> QED
    BY <2>0, <2>1, <2>2, <2>3
<1>5. T = Nat
  <2>1. T \in SUBSET Nat
    OBVIOUS
  <2> HIDE DEF T
  <2> QED
    BY <1>1, <1>4, <2>1, Induction
<1>6. CASE Len(seqs) # 0
  <2>1. FlattenSeq(seqs) = f[Len(seqs)]
    BY <1>6 DEF FlattenSeq, Flat, FlatAt
  <2>2. Len(seqs) \in T /\ Len(seqs) \in 1..Len(seqs)
    BY <1>5, <1>6
  <2>3. Copied(Len(seqs))
    BY <2>2
  <2> QED
    BY <2>1, <2>3
<1>7. CASE Len(seqs) = 0
  <2>1. FlattenSeq(seqs) = seqs
    BY <1>7 DEF FlattenSeq
  <2>2. seqs \in Seq(S)
    BY <1>7
  <2>3. 1..Len(seqs) = {}
    BY <1>7
  <2> DEFINE at == [i \in 1..Len(seqs) |-> i]
  <2>4. IsCopied(seqs, seqs, at)
    BY <2>3 DEF IsCopied, Injection, IsInjective
  <2> QED
    BY <2>1, <2>2, <2>4
<1> QED
  BY <1>6, <1>7

----------------------------------------------------------------------------
(***************************************************************************)
(* What stands between two headings, stripped, is a stretch of the lines.  *)
(***************************************************************************)
IsList(t) == /\ Len(t) \in Nat /\ DOMAIN t = 1..Len(t)
             /\ t = [k \in 1..Len(t) |-> t[k]]
Stretch(t, s, P, o) == \A k \in 1..Len(t) : o + k \in P /\ t[k] = s[o + k]

LEMMA SubSeqIsAStretch ==
  ASSUME NEW s, NEW lo \in Int, NEW hi \in Int
  PROVE  /\ IsList(SubSeq(s, lo, hi))
         /\ Len(SubSeq(s, lo, hi)) = IF lo <= hi THEN hi - lo + 1 ELSE 0
         /\ Stretch(SubSeq(s, lo, hi), s, lo..hi, lo - 1)
<1> DEFINE S == {s[i] : i \in lo..hi}
           t == SubSeq(s, lo, hi)
<1>1. \A i \in lo..hi : s[i] \in S
  OBVIOUS
<1> HIDE DEF S
<1>2. /\ t \in Seq(S) /\ Len(t) = IF lo <= hi THEN hi - lo + 1 ELSE 0
      /\ \A i \in 1..hi - lo + 1 : t[i] = s[lo + i - 1]
  BY <1>1, SubSeqProperties
<1> HIDE DEF t
<1>3. IsList(t)
  BY <1>2, LenProperties DEF IsList
<1>4. ASSUME NEW k \in 1..Len(t) PROVE lo - 1 + k \in lo..hi /\ t[k] = s[lo - 1 + k]
  <2>1. k \in 1..hi - lo + 1 /\ lo - 1 + k = lo + k - 1 /\ lo - 1 + k \in lo..hi
    BY <1>2
  <2> QED
    BY <1>2, <2>1
<1> QED
  BY <1>2, <1>3, <1>4 DEF Stretch, t

LEMMA StripIsAStretch ==
  ASSUME NEW t, IsList(t)
  PROVE  IsList(Strip(t)) /\ \E o \in Int : Stretch(Strip(t), t, 1..Len(t), o)
<1> DEFINE filled == {i \in DOMAIN t : t[i] # Text(Blank)}
           a == Min(filled)
           b == Max(filled)
<1>1. Len(t) \in Nat /\ filled \in SUBSET (1..Len(t)) /\ filled \in SUBSET Nat
  BY DEF IsList
<1>2. Strip(t) = IF filled = {} THEN <<>> ELSE SubSeq(t, a, b)
  BY DEF Strip
<1> HIDE DEF filled
<1>3. CASE filled = {}
  <2>1. Strip(t) = <<>>
    BY <1>2, <1>3
  <2>2. IsList(<<>>) /\ Stretch(<<>>, t, 1..Len(t), 0)
    BY DEF IsList, Stretch
  <2> QED
    BY <2>1, <2>2
<1>4. CASE filled # {}
  <2>1. a \in 1..Len(t) /\ b \in 1..Len(t)
    BY <1>1, <1>4, Smallest, Largest
  <2>2. Strip(t) = SubSeq(t, a, b)
    BY <1>2, <1>4
  <2> HIDE DEF a, b
  <2>3. IsList(Strip(t)) /\ Stretch(Strip(t), t, a..b, a - 1)
    BY <2>1, <2>2, SubSeqIsAStretch
  <2>4. a..b \subseteq 1..Len(t) /\ a - 1 \in Int
    BY <1>1, <2>1
  <2>5. Stretch(Strip(t), t, 1..Len(t), a - 1)
    BY <2>3, <2>4 DEF Stretch
  <2> QED
    BY <2>3, <2>4, <2>5
<1> QED
  BY <1>3, <1>4

LEMMA StretchOfAStretch ==
  ASSUME NEW t, NEW s, NEW r, NEW P, NEW Q \in SUBSET Int,
         NEW o \in Int, NEW u \in Int,
         Stretch(t, s, 1..Len(s), o), Stretch(s, r, Q, u), Len(t) \in Nat
  PROVE  Stretch(t, r, Q, u + o)
<1> SUFFICES ASSUME NEW k \in 1..Len(t)
             PROVE  (u + o) + k \in Q /\ t[k] = r[(u + o) + k]
  BY DEF Stretch
<1>1. o + k \in 1..Len(s) /\ t[k] = s[o + k]
  BY DEF Stretch
<1>2. u + (o + k) \in Q /\ s[o + k] = r[u + (o + k)]
  BY <1>1 DEF Stretch
<1>3. u + (o + k) = (u + o) + k
  OBVIOUS
<1> QED
  BY <1>1, <1>2, <1>3

(***************************************************************************)
(* The lines that belong to heading number n of some headings, and that    *)
(* the bodies are taken from there.                                        *)
(***************************************************************************)
Between(lines, headings, n) ==
  headings[n].end + 1 .. (IF n < Len(headings) THEN headings[n + 1].start - 1
                                               ELSE Len(lines))

LEMMA HeadingFields ==
  ASSUME NEW lines, NEW mark, Len(lines) \in Nat, NEW n \in DOMAIN Headings(lines, mark)
  PROVE  LET h == Headings(lines, mark)
         IN  /\ Len(h) \in Nat /\ n \in 1..Len(h) /\ DOMAIN h = 1..Len(h)
             /\ h[n].start \in 1..Len(lines) /\ h[n].end \in h[n].start..Len(lines)
<1> DEFINE h == Headings(lines, mark)
<1>1. h \in Seq(HeadingsBehind(lines, mark, 1))
  BY HeadingsAreInOrder
<1> HIDE DEF h
<1>2. Len(h) \in Nat /\ n \in 1..Len(h) /\ DOMAIN h = 1..Len(h)
  BY <1>1, LenProperties DEF h
<1>3. h[n] \in HeadingsBehind(lines, mark, 1)
  BY <1>1, <1>2, ElementOfSeq
<1>4. PICK k \in 1..Len(lines) : Matches(lines, mark, k) /\ h[n] = Heading(lines, k)
  BY <1>3 DEF HeadingsBehind
<1>5. h[n].start = k /\ h[n].end = End(lines, k)
  BY <1>4 DEF Heading
<1> QED
  BY <1>2, <1>4, <1>5, EndIsBehind DEF h

LEMMA BodiesLieBetween ==
  ASSUME NEW lines, NEW mark, Len(lines) \in Nat, NEW n \in DOMAIN Headings(lines, mark)
  PROVE  LET h == Headings(lines, mark)
             body == BodyOf(lines, h, n)
         IN  /\ IsList(body)
             /\ Between(lines, h, n) \in SUBSET (1..Len(lines))
             /\ \E o \in Int : Stretch(body, lines, Between(lines, h, n), o)
<1> DEFINE h == Headings(lines, mark)
           body == BodyOf(lines, h, n)
           lo == h[n].end + 1
           hi == IF n < Len(h) THEN h[n + 1].start - 1 ELSE Len(lines)
           t == SubSeq(lines, lo, hi)
<1>1. /\ Len(h) \in Nat /\ n \in 1..Len(h) /\ DOMAIN h = 1..Len(h)
      /\ lo \in 1..Len(lines) + 1
  BY HeadingFields
<1>2. hi \in Int /\ hi <= Len(lines)
  <2>1. CASE n < Len(h)
    <3>1. n + 1 \in DOMAIN h
      BY <1>1, <2>1
    <3>2. h[n + 1].start \in 1..Len(lines)
      BY <3>1, HeadingFields
    <3> QED
      BY <2>1, <3>2
  <2>2. CASE ~(n < Len(h))
    BY <2>2
  <2> QED
    BY <2>1, <2>2
<1>3. body = Strip(t)
  BY DEF BodyOf
<1>4. Between(lines, h, n) = lo..hi
  BY DEF Between
<1> HIDE DEF h, body, lo, hi
<1>5. IsList(t) /\ Stretch(t, lines, lo..hi, lo - 1)
  BY <1>1, <1>2, SubSeqIsAStretch
<1> HIDE DEF t
<1>6. PICK o \in Int : Stretch(Strip(t), t, 1..Len(t), o)
  BY <1>5, StripIsAStretch
<1>7. IsList(body)
  BY <1>3, <1>5, StripIsAStretch
<1>8. Stretch(body, lines, lo..hi, (lo - 1) + o)
  <2>1. Len(body) \in Nat /\ lo..hi \in SUBSET Int /\ lo - 1 \in Int
    BY <1>1, <1>7 DEF IsList
  <2> QED
    BY <1>3, <1>5, <1>6, <2>1, StretchOfAStretch
<1>9. lo..hi \in SUBSET (1..Len(lines)) /\ (lo - 1) + o \in Int
  BY <1>1, <1>2
<1> QED
  BY <1>4, <1>7, <1>8, <1>9 DEF h, body

LEMMA BodiesAreApart ==
  ASSUME NEW lines, NEW mark, Len(lines) \in Nat,
         NEW n \in DOMAIN Headings(lines, mark), NEW m \in DOMAIN Headings(lines, mark),
         n # m
  PROVE  Between(lines, Headings(lines, mark), n)
           \cap Between(lines, Headings(lines, mark), m) = {}
<1> DEFINE h == Headings(lines, mark)
<1>1. ASSUME NEW i \in DOMAIN h, NEW j \in DOMAIN h, i < j,
             NEW x \in Between(lines, h, i), NEW y \in Between(lines, h, j)
      PROVE  x < y
  <2>1. /\ Len(h) \in Nat /\ i \in 1..Len(h) /\ j \in 1..Len(h)
        /\ h[j].start \in 1..Len(lines) /\ h[j].end \in h[j].start..Len(lines)
    BY HeadingFields
  <2>2. i + 1 \in DOMAIN h /\ i < Len(h) /\ i + 1 <= j
    BY <1>1, <2>1, HeadingFields
  <2>3. h[i + 1].start \in 1..Len(lines) /\ h[i + 1].end \in h[i + 1].start..Len(lines)
    BY <2>2, HeadingFields
  <2>4. h[i + 1].start <= h[j].start
    <3>1. CASE i + 1 = j
      BY <2>1, <3>1
    <3>2. CASE i + 1 # j
      <4>1. i + 1 \in 1..Len(h) /\ i + 1 < j
        BY <2>1, <2>2, <3>2
      <4>2. h[i + 1].end < h[j].start
        BY <2>1, <4>1, HeadingsAreInOrder DEF InOrder
      <4> QED
        BY <2>1, <2>3, <4>2
    <3> QED
      BY <3>1, <3>2
  <2> HIDE DEF h
  <2>5. x <= h[i + 1].start - 1 /\ x \in Int
    BY <2>2, <2>3 DEF Between
  <2>6. y >= h[j].end + 1 /\ y \in Int
    BY <2>1 DEF Between
  <2> QED
    BY <2>1, <2>3, <2>4, <2>5, <2>6
<1>2. \A x \in Between(lines, h, n) : x \in Int
  BY BodiesLieBetween
<1>3. n \in Nat /\ m \in Nat
  BY HeadingFields
<1> HIDE DEF h
<1>4. ASSUME NEW x \in Between(lines, h, n), x \in Between(lines, h, m) PROVE FALSE
  <2>1. n < m \/ m < n
    BY <1>3
  <2>2. x < x
    BY <1>1, <1>4, <2>1 DEF h
  <2> QED
    BY <1>2, <2>2
<1> QED
  BY <1>4 DEF h

----------------------------------------------------------------------------
(***************************************************************************)
(* The bodies of chunks are drawn from a set P of lines of the document,   *)
(* no line for two places in them.                                         *)
(***************************************************************************)
IsDrawn(parts, s, P, at) ==
  /\ at \in Injection(Places(parts), P)
  /\ \A p \in Places(parts) : parts[p[1]][p[2]] = s[at[p]]
Bodies(chunks) == [n \in 1..Len(chunks) |-> chunks[n].body]
LastNamed(headings, s) ==
  Max({n \in DOMAIN headings : headings[n].name = Text(s)})

LEMMA SectionsAreBodies ==
  ASSUME NEW doc, Len(doc) \in Nat, NEW s \in ToSet(SectionOrder)
  PROVE  LET h == Headings(doc, "h2")
         IN  /\ s \in DOMAIN Sections(doc) <=>
                  \E n \in DOMAIN h : h[n].name = Text(s)
             /\ s \in DOMAIN Sections(doc) =>
                  /\ LastNamed(h, s) \in DOMAIN h
                  /\ h[LastNamed(h, s)].name = Text(s)
                  /\ \A n \in DOMAIN h : h[n].name = Text(s) => n <= LastNamed(h, s)
                  /\ Sections(doc)[s] = BodyOf(doc, h, LastNamed(h, s))
<1> DEFINE h == Headings(doc, "h2")
           named == {n \in DOMAIN h : h[n].name = Text(s)}
<1>1. s \in DOMAIN Sections(doc) <=> \E n \in DOMAIN h : h[n].name = Text(s)
  BY DEF Sections
<1>2. s \in DOMAIN Sections(doc) => Sections(doc)[s] = BodyOf(doc, h, LastNamed(h, s))
  BY DEF Sections, LastNamed
<1>3. LastNamed(h, s) = Max(named)
  BY DEF LastNamed
<1>4. Len(h) \in Nat /\ DOMAIN h = 1..Len(h)
  BY HeadingsAreInOrder, LenProperties
<1>5. named # {} => Max(named) \in named /\ \A n \in named : n <= Max(named)
  <2>1. named \in SUBSET (1..Len(h))
    BY <1>4
  <2> HIDE DEF named, h
  <2> QED
    BY <1>4, <2>1, Largest
<1>6. s \in DOMAIN Sections(doc) => named # {}
  BY <1>1
<1> QED
  BY <1>1, <1>2, <1>3, <1>5, <1>6

LEMMA SectionIsDrawn ==
  ASSUME NEW doc, Len(doc) \in Nat, NEW s \in ToSet(SectionOrder),
         s \in DOMAIN Sections(doc)
  PROVE  LET h == Headings(doc, "h2")
             C == SectionChunks(doc, s)
         IN  /\ IsList(C) /\ \A j \in 1..Len(C) : IsList(C[j].body)
             /\ \E at : IsDrawn(Bodies(C), doc, Between(doc, h, LastNamed(h, s)), at)
<1> DEFINE h == Headings(doc, "h2")
           n == LastNamed(h, s)
           P == Between(doc, h, n)
           section == Sections(doc)[s]
           C == SectionChunks(doc, s)
<1>1. n \in DOMAIN h /\ section = BodyOf(doc, h, n)
  BY SectionsAreBodies
<1>2. IsList(section) /\ P \in SUBSET Int
  BY <1>1, BodiesLieBetween
<1>3. PICK u \in Int : Stretch(section, doc, P, u)
  BY <1>1, BodiesLieBetween
<1>4. CASE s \in DOMAIN WholeSections
  <2> DEFINE c == Chunk(WholeSections[s], Text(s), section, Text(Blank),
                        Text(Blank), Text(Blank))
  <2>1. C = <<c>>
    BY <1>4 DEF SectionChunks
  <2>2. c.body = section
    BY DEF Chunk
  <2> HIDE DEF c, section, P
  <2>3. IsList(C) /\ Len(C) = 1 /\ C[1] = c
    BY <2>1 DEF IsList
  <2> HIDE DEF C
  <2>4. Bodies(C) = <<section>>
    BY <2>2, <2>3 DEF Bodies
  <2>5. \A j \in 1..Len(C) : IsList(C[j].body)
    BY <1>2, <2>2, <2>3
  <2> DEFINE at == [p \in Places(Bodies(C)) |-> u + p[2]]
  <2>6. Places(Bodies(C)) = {p \in (1..1) \X Nat : p[2] \in 1..Len(section)}
    BY <2>4 DEF Places
  <2>7. \A p \in Places(Bodies(C)) :
          p = <<1, p[2]>> /\ p[2] \in 1..Len(section) /\ p[2] \in Nat
    BY <2>6
  <2>8. ASSUME NEW p \in Places(Bodies(C))
        PROVE  at[p] \in P /\ Bodies(C)[p[1]][p[2]] = doc[at[p]]
    <3>1. u + p[2] \in P /\ section[p[2]] = doc[u + p[2]]
      BY <1>3, <2>7 DEF Stretch
    <3>2. p[1] = 1 /\ Bodies(C)[1] = section
      BY <2>4, <2>7
    <3> QED
      BY <3>1, <3>2
  <2>9. ASSUME NEW p \in Places(Bodies(C)), NEW q \in Places(Bodies(C)), at[p] = at[q]
        PROVE  p = q
    <3>1. p[2] \in Nat /\ q[2] \in Nat /\ u + p[2] = u + q[2]
      BY <2>7, <2>9
    <3>2. p[2] = q[2]
      BY <3>1
    <3> QED
      BY <2>7, <3>2
  <2>10. at \in Injection(Places(Bodies(C)), P)
    <3>1. at \in [Places(Bodies(C)) -> P]
      BY <2>8
    <3> QED
      BY <2>9, <3>1 DEF Injection, IsInjective
  <2>11. IsDrawn(Bodies(C), doc, P, at)
    BY <2>8, <2>10 DEF IsDrawn
  <2> QED
    BY <2>3, <2>5, <2>11 DEF C, P
<1>5. CASE s \notin DOMAIN WholeSections
  <2> DEFINE h3 == Headings(section, "h3")
             blocks == SplitH3Blocks(section)
             Offset(j) == CHOOSE o \in Int :
                            Stretch(C[j].body, section, Between(section, h3, j), o)
  <2>1. C = [j \in DOMAIN blocks |-> BlockChunk(SplitSections[s], blocks[j])]
    BY <1>5 DEF SectionChunks
  <2>2. /\ DOMAIN blocks = DOMAIN h3
        /\ \A j \in DOMAIN h3 : blocks[j].body = BodyOf(section, h3, j)
    BY DEF SplitH3Blocks
  <2>3. \A j \in DOMAIN h3 : C[j].body = BodyOf(section, h3, j)
    <3> HIDE DEF blocks, C
    <3> QED
      BY <2>1, <2>2 DEF BlockChunk, Chunk
  <2>4. Len(h3) \in Nat /\ DOMAIN h3 = 1..Len(h3)
    BY <1>2, HeadingsAreInOrder, LenProperties DEF IsList
  <2>5. IsList(C) /\ Len(C) = Len(h3)
    <3> HIDE DEF C, h3, blocks
    <3> QED
      BY <2>1, <2>2, <2>4 DEF IsList
  <2> HIDE DEF C, section
  <2>6. ASSUME NEW j \in 1..Len(C)
        PROVE  /\ IsList(C[j].body) /\ Offset(j) \in Int
               /\ Stretch(C[j].body, section, Between(section, h3, j), Offset(j))
               /\ Between(section, h3, j) \in SUBSET (1..Len(section))
    <3>1. /\ IsList(C[j].body)
          /\ Between(section, h3, j) \in SUBSET (1..Len(section))
          /\ \E o \in Int : Stretch(C[j].body, section, Between(section, h3, j), o)
      <4>1. Len(section) \in Nat /\ j \in DOMAIN h3
        BY <1>2, <2>4, <2>5 DEF IsList
      <4> QED
        BY <2>3, <4>1, BodiesLieBetween
    <3> QED
      BY <3>1
  <2> HIDE DEF Offset
  <2> DEFINE places == Places(Bodies(C))
             at == [p \in places |-> u + (Offset(p[1]) + p[2])]
  <2>7. ASSUME NEW p \in places
        PROVE  /\ p[1] \in 1..Len(C) /\ p[2] \in 1..Len(C[p[1]].body)
               /\ p = <<p[1], p[2]>> /\ Bodies(C)[p[1]] = C[p[1]].body
    <3>1. Len(Bodies(C)) = Len(C)
      BY <2>5 DEF Bodies, IsList
    <3>2. p \in (1..Len(C)) \X Nat /\ p[2] \in 1..Len(Bodies(C)[p[1]])
      BY <3>1 DEF Places
    <3>3. p[1] \in 1..Len(C) /\ p = <<p[1], p[2]>>
      BY <3>2
    <3>4. Bodies(C)[p[1]] = C[p[1]].body
      BY <3>3 DEF Bodies
    <3> QED
      BY <3>2, <3>3, <3>4
  <2> HIDE DEF places
  <2>8. ASSUME NEW p \in places
        PROVE  /\ Offset(p[1]) + p[2] \in Between(section, h3, p[1])
               /\ Offset(p[1]) + p[2] \in 1..Len(section)
               /\ C[p[1]].body[p[2]] = section[Offset(p[1]) + p[2]]
    BY <2>6, <2>7 DEF Stretch
  <2>9. ASSUME NEW p \in places
        PROVE  at[p] \in P /\ Bodies(C)[p[1]][p[2]] = doc[at[p]]
    <3> DEFINE x == Offset(p[1]) + p[2]
    <3>1. x \in 1..Len(section) /\ C[p[1]].body[p[2]] = section[x] /\ at[p] = u + x
      BY <2>8
    <3> HIDE DEF x, at
    <3>2. u + x \in P /\ section[x] = doc[u + x]
      BY <1>3, <3>1 DEF Stretch
    <3> QED
      BY <2>7, <3>1, <3>2
  <2>10. ASSUME NEW p \in places, NEW q \in places, at[p] = at[q]
         PROVE  p = q
    <3>1. Offset(p[1]) + p[2] = Offset(q[1]) + q[2]
      <4> DEFINE x == Offset(p[1]) + p[2]
                 y == Offset(q[1]) + q[2]
      <4>1. u + x = u + y
        BY <2>10
      <4>2. x \in 1..Len(section) /\ y \in 1..Len(section)
        BY <2>8
      <4>3. x \in Int /\ y \in Int
        BY <4>2
      <4> HIDE DEF x, y
      <4>4. x = y
        BY <4>1, <4>3
      <4> QED
        BY <4>4 DEF x, y
    <3>2. p[1] = q[1]
      <4>1. CASE p[1] # q[1]
        <5>1. Between(section, h3, p[1]) \cap Between(section, h3, q[1]) = {}
          BY <1>2, <2>4, <2>5, <2>7, <4>1, BodiesAreApart DEF IsList
        <5> QED
          BY <2>8, <3>1, <5>1
      <4> QED
        BY <4>1
    <3>3. p[2] = q[2]
      <4>1. Offset(p[1]) \in Int /\ p[2] \in Int /\ q[2] \in Int
        <5>1. Len(C[p[1]].body) \in Nat /\ Len(C[q[1]].body) \in Nat
          BY <2>6, <2>7 DEF IsList
        <5> QED
          BY <2>6, <2>7, <5>1
      <4> QED
        BY <3>1, <3>2, <4>1
    <3> QED
      BY <2>7, <3>2, <3>3
  <2>11. at \in Injection(places, P)
    <3>1. at \in [places -> P]
      BY <2>9
    <3> QED
      BY <2>10, <3>1 DEF Injection, IsInjective
  <2>12. IsDrawn(Bodies(C), doc, P, at)
    BY <2>9, <2>11 DEF IsDrawn, places
  <2> QED
    BY <2>5, <2>6, <2>12 DEF C
<1> QED
  BY <1>4, <1>5

----------------------------------------------------------------------------
(***************************************************************************)
(* The bodies of all chunks of a document are drawn from its lines: within *)
(* a section by SectionIsDrawn, and two sections lie apart.                *)
(***************************************************************************)
LEMMA ChunksAreDrawn ==
  ASSUME NEW doc, Len(doc) \in Nat
  PROVE  LET chunks == ParseProfileChunks(doc)
         IN  /\ IsList(chunks) /\ \A c \in 1..Len(chunks) : IsList(chunks[c].body)
             /\ \E at : IsDrawn(Bodies(chunks), doc, 1..Len(doc), at)
<1> DEFINE seqs == [i \in DOMAIN SectionOrder |-> SectionChunks(doc, SectionOrder[i])]
           h == Headings(doc, "h2")
           Row(i) == Between(doc, h, LastNamed(h, SectionOrder[i]))
           Present(i) == SectionOrder[i] \in DOMAIN Sections(doc)
           chunks == ParseProfileChunks(doc)
           S == UNION {{SectionChunks(doc, SectionOrder[i])[j] :
                           j \in 1..Len(SectionChunks(doc, SectionOrder[i]))} : i \in 1..6}
           B(i) == Bodies(SectionChunks(doc, SectionOrder[i]))
           At(i) == CHOOSE at : IsDrawn(B(i), doc, Row(i), at)
<1>1. /\ DOMAIN SectionOrder = 1..6 /\ \A i \in 1..6 : SectionOrder[i] \in ToSet(SectionOrder)
      /\ \A i, j \in 1..6 : SectionOrder[i] = SectionOrder[j] => i = j
  BY DEF SectionOrder, ToSet
<1>2. ASSUME NEW i \in 1..6
      PROVE  /\ IsList(SectionChunks(doc, SectionOrder[i]))
             /\ ~Present(i) => SectionChunks(doc, SectionOrder[i]) = <<>>
             /\ Present(i) => IsDrawn(B(i), doc, Row(i), At(i))
             /\ \A j \in 1..Len(SectionChunks(doc, SectionOrder[i])) :
                  Present(i) /\ IsList(SectionChunks(doc, SectionOrder[i])[j].body)
  <2>1. CASE Present(i)
    BY <1>1, <2>1, SectionIsDrawn
  <2>2. CASE ~Present(i)
    <3>1. SectionChunks(doc, SectionOrder[i]) = <<>>
      BY <2>2 DEF SectionChunks
    <3> QED
      BY <2>2, <3>1 DEF IsList
  <2> QED
    BY <2>1, <2>2
<1>3. ASSUME NEW i \in 1..6, Present(i)
      PROVE  LastNamed(h, SectionOrder[i]) \in DOMAIN h
             /\ h[LastNamed(h, SectionOrder[i])].name = Text(SectionOrder[i])
             /\ Row(i) \in SUBSET (1..Len(doc))
  BY <1>1, <1>3, SectionsAreBodies, BodiesLieBetween
<1>4. ASSUME NEW i \in 1..6, NEW j \in 1..6, i # j, Present(i), Present(j)
      PROVE  Row(i) \cap Row(j) = {}
  <2>1. Text(SectionOrder[i]) # Text(SectionOrder[j])
    BY <1>1, <1>4 DEF Text
  <2>2. LastNamed(h, SectionOrder[i]) # LastNamed(h, SectionOrder[j])
    BY <1>3, <1>4, <2>1
  <2> QED
    BY <1>3, <1>4, <2>2, BodiesAreApart
<1> HIDE DEF h, Row, Present, At
<1>5. /\ Len(seqs) = 6 /\ DOMAIN seqs = 1..6
      /\ \A i \in 1..6 : seqs[i] = SectionChunks(doc, SectionOrder[i])
  BY <1>1
<1>6. \A i \in 1..6 : seqs[i] \in Seq(S)
  <2> SUFFICES ASSUME NEW i \in 1..6 PROVE SectionChunks(doc, SectionOrder[i]) \in Seq(S)
    BY <1>5
  <2> DEFINE C == SectionChunks(doc, SectionOrder[i])
  <2>1. \A j \in 1..Len(C) : C[j] \in S
    OBVIOUS
  <2>2. IsList(C)
    BY <1>2
  <2> HIDE DEF C, S
  <2>3. [j \in 1..Len(C) |-> C[j]] \in Seq(S)
    BY <2>1, <2>2 DEF IsList
  <2> QED
    BY <2>2, <2>3 DEF C, IsList
<1>7. chunks = FlattenSeq(seqs)
  BY DEF ParseProfileChunks
<1> HIDE DEF seqs, S, chunks
<1>8. chunks \in Seq(S) /\ \E of : IsCopied(chunks, seqs, of)
  <2>1. Len(seqs) \in Nat /\ DOMAIN seqs = 1..Len(seqs)
        /\ \A i \in 1..Len(seqs) : seqs[i] \in Seq(S)
    BY <1>5, <1>6
  <2> QED
    BY <1>7, <2>1, FlattenCopies
<1>9. PICK of : IsCopied(chunks, seqs, of)
  BY <1>8
<1>10. IsList(chunks)
  BY <1>8, LenProperties DEF IsList
<1>11. ASSUME NEW c \in 1..Len(chunks)
       PROVE  /\ of[c][1] \in 1..6 /\ Present(of[c][1])
              /\ of[c][2] \in 1..Len(seqs[of[c][1]])
              /\ of[c] = <<of[c][1], of[c][2]>>
              /\ chunks[c] = seqs[of[c][1]][of[c][2]]
              /\ IsList(chunks[c].body)
              /\ B(of[c][1])[of[c][2]] = chunks[c].body
  <2>1. of[c] \in Places(seqs) /\ chunks[c] = seqs[of[c][1]][of[c][2]]
    BY <1>9 DEF IsCopied, Injection
  <2>2. /\ of[c][1] \in 1..6 /\ of[c][2] \in 1..Len(seqs[of[c][1]])
        /\ of[c] = <<of[c][1], of[c][2]>>
    BY <1>5, <2>1 DEF Places
  <2>3. Present(of[c][1]) /\ IsList(chunks[c].body)
    BY <1>2, <1>5, <2>1, <2>2
  <2>4. B(of[c][1])[of[c][2]] = chunks[c].body
    BY <1>5, <2>1, <2>2 DEF Bodies
  <2> QED
    BY <2>1, <2>2, <2>3, <2>4
<1> DEFINE places == Places(Bodies(chunks))
           Of(p) == of[p[1]]
           Inner(p) == <<Of(p)[2], p[2]>>
           at == [p \in places |-> At(Of(p)[1])[Inner(p)]]
<1>12. ASSUME NEW p \in places
       PROVE  /\ p[1] \in 1..Len(chunks) /\ p[2] \in 1..Len(chunks[p[1]].body)
              /\ p[2] \in Nat /\ p = <<p[1], p[2]>>
              /\ Bodies(chunks)[p[1]] = chunks[p[1]].body
  <2>1. Len(Bodies(chunks)) = Len(chunks)
    BY <1>10 DEF Bodies, IsList
  <2>2. p \in (1..Len(chunks)) \X Nat /\ p[2] \in 1..Len(Bodies(chunks)[p[1]])
    BY <2>1 DEF Places
  <2>3. p[1] \in 1..Len(chunks) /\ p = <<p[1], p[2]>> /\ p[2] \in Nat
    BY <2>2
  <2>4. Bodies(chunks)[p[1]] = chunks[p[1]].body
    BY <2>3 DEF Bodies
  <2> QED
    BY <2>2, <2>3, <2>4
<1> HIDE DEF places
<1>13. ASSUME NEW p \in places
       PROVE  /\ Of(p)[1] \in 1..6 /\ Present(Of(p)[1])
              /\ Inner(p) \in Places(B(Of(p)[1]))
              /\ B(Of(p)[1])[Inner(p)[1]][Inner(p)[2]] = chunks[p[1]].body[p[2]]
  <2> DEFINE i == Of(p)[1]
             j == Of(p)[2]
             C == SectionChunks(doc, SectionOrder[i])
  <2>1. /\ i \in 1..6 /\ Present(i) /\ j \in 1..Len(C) /\ B(i)[j] = chunks[p[1]].body
        /\ p[2] \in 1..Len(B(i)[j]) /\ p[2] \in Nat
    BY <1>5, <1>11, <1>12
  <2>2. Inner(p) = <<j, p[2]>>
    OBVIOUS
  <2>3. Len(B(i)) = Len(C) /\ Len(C) \in Nat
    <3> HIDE DEF i, C
    <3>1. IsList(C)
      BY <1>2, <2>1 DEF C
    <3> QED
      BY <3>1 DEF Bodies, IsList, C
  <2> HIDE DEF i, j, B, Inner, C
  <2>4. Inner(p) \in Places(B(i)) /\ Inner(p)[1] = j /\ Inner(p)[2] = p[2]
    BY <2>1, <2>2, <2>3 DEF Places
  <2> QED
    BY <2>1, <2>4 DEF i
<1>14. ASSUME NEW p \in places
       PROVE  /\ at[p] \in Row(Of(p)[1]) /\ at[p] \in 1..Len(doc)
              /\ Bodies(chunks)[p[1]][p[2]] = doc[at[p]]
  <2> DEFINE i == Of(p)[1]
             q == Inner(p)
  <2>1. at[p] = At(i)[q]
    OBVIOUS
  <2>2. /\ i \in 1..6 /\ Present(i) /\ q \in Places(B(i))
        /\ B(i)[q[1]][q[2]] = chunks[p[1]].body[p[2]]
    BY <1>13
  <2> HIDE DEF i, q, at, B
  <2>3. IsDrawn(B(i), doc, Row(i), At(i))
    BY <1>2, <2>2 DEF B
  <2>4. At(i)[q] \in Row(i) /\ B(i)[q[1]][q[2]] = doc[At(i)[q]]
    BY <2>2, <2>3 DEF IsDrawn, Injection
  <2>5. at[p] \in 1..Len(doc)
    BY <1>3, <2>1, <2>2, <2>4
  <2> QED
    BY <1>12, <2>1, <2>2, <2>4, <2>5 DEF i
<1>15. ASSUME NEW p \in places, NEW q \in places, at[p] = at[q] PROVE p = q
  <2>1. Of(p)[1] = Of(q)[1]
    <3> HIDE DEF at, Of
    <3>1. CASE Of(p)[1] # Of(q)[1]
      BY <1>4, <1>13, <1>14, <1>15, <3>1
    <3> QED
      BY <3>1
  <2>2. Inner(p) = Inner(q)
    <3> DEFINE i == Of(p)[1]
    <3>1. At(i)[Inner(p)] = At(i)[Inner(q)]
      BY <1>15, <2>1
    <3>2. Inner(p) \in Places(B(i)) /\ Inner(q) \in Places(B(i)) /\ Present(i) /\ i \in 1..6
      BY <1>13, <2>1
    <3> HIDE DEF i, B, Inner, Of
    <3>3. IsDrawn(B(i), doc, Row(i), At(i))
      BY <1>2, <3>2 DEF B
    <3> QED
      BY <3>1, <3>2, <3>3 DEF IsDrawn, Injection, IsInjective
  <2>3. Of(p)[2] = Of(q)[2] /\ p[2] = q[2]
    BY <2>2
  <2>4. of[p[1]] = of[q[1]] /\ p[1] \in 1..Len(chunks) /\ q[1] \in 1..Len(chunks)
    BY <1>11, <1>12, <2>1, <2>3
  <2>5. p[1] = q[1]
    BY <1>9, <2>4 DEF IsCopied, Injection, IsInjective
  <2> QED
    BY <1>12, <2>3, <2>5
<1>16. at \in Injection(places, 1..Len(doc))
  <2>1. at \in [places -> 1..Len(doc)]
    BY <1>14
  <2> QED
    BY <1>15, <2>1 DEF Injection, IsInjective
<1>17. IsDrawn(Bodies(chunks), doc, 1..Len(doc), at)
  BY <1>14, <1>16 DEF IsDrawn, places
<1> QED
  BY <1>10, <1>11, <1>17 DEF chunks

(***************************************************************************)
(* Each line indexed is a line of the document of its own.                 *)
(***************************************************************************)
LEMMA LinesIndexedOnce ==
  ASSUME NEW doc \in Seq(Line), NEW l
  PROVE  LET chunks == ParseProfileChunks(doc)
             indexed == FlattenSeq([n \in DOMAIN chunks |-> chunks[n].body])
         IN  Occurrences(indexed, l) <= Occurrences(doc, l)
<1> DEFINE chunks == ParseProfileChunks(doc)
           parts == Bodies(chunks)
           indexed == FlattenSeq(parts)
           S == UNION {{parts[n][k] : k \in 1..Len(parts[n])} : n \in 1..Len(parts)}
<1>0. Len(doc) \in Nat /\ DOMAIN doc = 1..Len(doc)
  BY LenProperties
<1>1. IsList(chunks) /\ \A c \in 1..Len(chunks) : IsList(chunks[c].body)
  BY <1>0, ChunksAreDrawn
<1>2. PICK at : IsDrawn(parts, doc, 1..Len(doc), at)
  BY <1>0, ChunksAreDrawn
<1>3. [n \in DOMAIN chunks |-> chunks[n].body] = parts
  <2> HIDE DEF chunks
  <2> QED
    BY <1>1 DEF Bodies, IsList
<1> HIDE DEF chunks
<1>4. Len(parts) \in Nat /\ DOMAIN parts = 1..Len(parts)
      /\ \A n \in 1..Len(parts) : IsList(parts[n])
  BY <1>1 DEF Bodies, IsList
<1> HIDE DEF parts
<1>5. \A n \in 1..Len(parts) : parts[n] \in Seq(S)
  <2> SUFFICES ASSUME NEW n \in 1..Len(parts) PROVE parts[n] \in Seq(S)
    OBVIOUS
  <2> DEFINE t == parts[n]
  <2>1. \A k \in 1..Len(t) : t[k] \in S
    OBVIOUS
  <2>2. IsList(t)
    BY <1>4
  <2> HIDE DEF t, S
  <2>3. [k \in 1..Len(t) |-> t[k]] \in Seq(S)
    BY <2>1, <2>2 DEF IsList
  <2> QED
    BY <2>2, <2>3 DEF t, IsList
<1> HIDE DEF S
<1>6. indexed \in Seq(S) /\ \E to : IsCopied(indexed, parts, to)
  BY <1>4, <1>5, FlattenCopies
<1>7. PICK to : IsCopied(indexed, parts, to)
  BY <1>6
<1> HIDE DEF indexed
<1>8. DOMAIN indexed = 1..Len(indexed)
  BY <1>6, LenProperties
<1> DEFINE A == {i \in DOMAIN indexed : indexed[i] = l}
           D == {i \in DOMAIN doc : doc[i] = l}
           f == [i \in A |-> at[to[i]]]
<1>9. ASSUME NEW i \in A PROVE to[i] \in Places(parts) /\ f[i] \in D
  <2>1. to[i] \in Places(parts) /\ indexed[i] = parts[to[i][1]][to[i][2]]
    BY <1>7, <1>8 DEF IsCopied, Injection
  <2>2. at[to[i]] \in 1..Len(doc) /\ parts[to[i][1]][to[i][2]] = doc[at[to[i]]]
    BY <1>2, <2>1 DEF IsDrawn, Injection
  <2> QED
    BY <1>0, <2>1, <2>2
<1>10. ASSUME NEW i \in A, NEW j \in A, f[i] = f[j] PROVE i = j
  <2>1. to[i] = to[j]
    BY <1>2, <1>9, <1>10 DEF IsDrawn, Injection, IsInjective
  <2> QED
    BY <1>7, <1>8, <2>1 DEF IsCopied, Injection, IsInjective
<1>11. f \in Injection(A, D)
  <2>1. f \in [A -> D]
    BY <1>9
  <2> QED
    BY <1>10, <2>1 DEF Injection, IsInjective
<1>12. IsFiniteSet(D)
  <2>1. D \in SUBSET (1..Len(doc))
    BY <1>0
  <2>2. IsFiniteSet(1..Len(doc))
    BY <1>0, FS_Interval
  <2> HIDE DEF D
  <2> QED
    BY <2>1, <2>2, FS_Subset
<1> HIDE DEF A, D, f
<1>13. Cardinality(A) <= Cardinality(D)
  BY <1>11, <1>12, FS_Injection
<1>14. Occurrences(indexed, l) <= Occurrences(doc, l)
  BY <1>13 DEF Occurrences, A, D
<1> QED
  BY <1>3, <1>14 DEF indexed, chunks

(***************************************************************************)
(* No line of a document, of any length and however bare or repeated its   *)
(* headings, is put into two chunks by parse_profile_chunks.               *)
(***************************************************************************)
THEOREM NothingIndexedTwice == ParserSpec => []NoLineTwice
<1> DEFINE IInv == document \in Seq(Line)
<1>1. ParserInit => IInv
  BY EmptySeq DEF ParserInit
<1>2. IInv /\ [ParserNext]_document => IInv'
  BY AppendProperties DEF ParserNext, WriteLine
<1>3. IInv => NoLineTwice
  BY LinesIndexedOnce DEF NoLineTwice
<1> QED
  BY <1>1, <1>2, <1>3, PTL DEF ParserSpec

----------------------------------------------------------------------------
(***************************************************************************)
(* A line at the end leaves the headings as they are, or adds one.         *)
(***************************************************************************)
\* Behind the last match nothing is found.
LEMMA NoMatchNoHeading ==
  ASSUME NEW lines, NEW mark, Len(lines) \in Nat, NEW k \in 1..Len(lines) + 1,
         \A j \in k..Len(lines) : ~ Matches(lines, mark, j)
  PROVE  HeadingsFrom(lines, mark)[k] = <<>>
<1> DEFINE L == Len(lines)
           from == HeadingsFrom(lines, mark)
           T == {i \in 1..L + 1 : i >= k => from[i] = <<>>}
<1>1. ASSUME NEW i \in 1..L + 1, i + 1 .. L + 1 \subseteq T PROVE i \in T
  <2> SUFFICES ASSUME i >= k PROVE from[i] = <<>>
    OBVIOUS
  <2>1. from[i] = SearchAt(lines, mark, from, i)
    BY SearchIsDefined
  <2>2. CASE i > L
    BY <2>1, <2>2 DEF SearchAt
  <2>3. CASE i <= L
    <3>1. i + 1 \in T /\ i + 1 >= k
      BY <1>1, <2>3
    <3>2. ~ Matches(lines, mark, i)
      BY <2>3
    <3> QED
      BY <2>1, <2>3, <3>1, <3>2 DEF SearchAt
  <2> QED
    BY <2>2, <2>3
<1>2. T = 1..L + 1
  <2>1. T \in SUBSET (1..L + 1) /\ L + 1 \in Nat
    OBVIOUS
  <2> HIDE DEF T
  <2> QED
    BY <1>1, <2>1, InductionFromTheEnd
<1>3. k \in T /\ k >= k
  BY <1>2
<1> QED
  BY <1>3

\* A match ends where it did, or takes the new line as its name.
LEMMA MatchStays ==
  ASSUME NEW doc, Len(doc) \in Nat, NEW d, Len(d) = Len(doc) + 1,
         \A i \in 1..Len(doc) : d[i] = doc[i],
         NEW i \in 1..Len(doc)
  PROVE  \/ LastLine(d, i) = LastLine(doc, i)
         \/ /\ LastLine(doc, i) = {} /\ LastLine(d, i) = {Len(doc) + 1}
            /\ \A j \in i + 1 .. Len(doc) : doc[j] = Text(Blank)
<1> DEFINE L == Len(doc)
           old == {j \in i + 1 .. L : doc[j] # Text(Blank)}
           new == {j \in i + 1 .. L + 1 : d[j] # Text(Blank)}
<1>0. L \in Nat
  OBVIOUS
<1>1. CASE doc[i].value # Blank
  BY <1>1 DEF LastLine
<1>2. CASE doc[i].value = Blank
  <2>1. /\ LastLine(doc, i) = IF old = {} THEN {} ELSE {Min(old)}
        /\ LastLine(d, i) = IF new = {} THEN {} ELSE {Min(new)}
    BY <1>2 DEF LastLine
  <2>2. old \subseteq new /\ new \subseteq old \cup {L + 1}
    OBVIOUS
  <2>3. old \in SUBSET Nat /\ new \in SUBSET Nat /\ \A j \in old : j < L + 1
    OBVIOUS
  <2>4. old = {} => \A j \in i + 1 .. L : doc[j] = Text(Blank)
    OBVIOUS
  <2> HIDE DEF old, new
  <2>5. CASE old # {}
    <3>1. Min(old) \in old /\ Min(new) \in new
          /\ (\A j \in old : Min(old) <= j) /\ (\A j \in new : Min(new) <= j)
      BY <2>2, <2>3, <2>5, Smallest
    <3> DEFINE a == Min(old)
               b == Min(new)
    <3> HIDE DEF a, b
    <3>2. a \in Nat /\ b \in Nat /\ b <= a /\ a < L + 1
      BY <2>2, <2>3, <3>1 DEF a, b
    <3>3. b \in old
      BY <1>0, <2>2, <3>1, <3>2 DEF b
    <3>4. a <= b
      BY <3>1, <3>3 DEF a
    <3>5. Min(old) = Min(new)
      BY <3>2, <3>4 DEF a, b
    <3> QED
      BY <2>1, <2>2, <2>5, <3>5
  <2>6. CASE old = {} /\ new # {}
    <3>1. Min(new) = L + 1
      BY <2>2, <2>3, <2>6, Smallest
    <3> QED
      BY <2>1, <2>4, <2>6, <3>1
  <2>7. CASE old = {} /\ new = {}
    BY <2>1, <2>7
  <2> QED
    BY <2>5, <2>6, <2>7
<1> QED
  BY <1>1, <1>2

\* The search, step by step.
LEMMA SearchSteps ==
  ASSUME NEW lines, NEW mark, Len(lines) \in Nat
  PROVE  LET from == HeadingsFrom(lines, mark)
         IN  /\ from[Len(lines) + 1] = <<>>
             /\ \A i \in 1..Len(lines) :
                  /\ Matches(lines, mark, i) =>
                       from[i] = <<Heading(lines, i)>> \o from[End(lines, i) + 1]
                  /\ ~ Matches(lines, mark, i) => from[i] = from[i + 1]
<1> DEFINE from == HeadingsFrom(lines, mark)
<1>1. \A i \in 1..Len(lines) + 1 : from[i] = SearchAt(lines, mark, from, i)
  BY SearchIsDefined
<1> HIDE DEF from
<1>2. from[Len(lines) + 1] = <<>>
  <2>1. Len(lines) + 1 \in 1..Len(lines) + 1 /\ Len(lines) + 1 > Len(lines)
    OBVIOUS
  <2> QED
    BY <1>1, <2>1 DEF SearchAt
<1>3. ASSUME NEW i \in 1..Len(lines)
      PROVE  from[i] = IF Matches(lines, mark, i)
                       THEN <<Heading(lines, i)>> \o from[End(lines, i) + 1]
                       ELSE from[i + 1]
  <2>1. i \in 1..Len(lines) + 1 /\ ~(i > Len(lines))
    OBVIOUS
  <2> QED
    BY <1>1, <2>1 DEF SearchAt
<1> QED
  BY <1>2, <1>3 DEF from

OneMore(old, new) == new = old \/ \E x : new = old \o <<x>>

LEMMA OneMoreHeading ==
  ASSUME NEW doc, IsList(doc), NEW d, Len(d) = Len(doc) + 1,
         \A i \in 1..Len(doc) : d[i] = doc[i],
         NEW mark, mark # "text"
  PROVE  OneMore(Headings(doc, mark), Headings(d, mark))
<1> USE DEF OneMore
<1> DEFINE L == Len(doc)
           old == HeadingsFrom(doc, mark)
           new == HeadingsFrom(d, mark)
           T == {i \in 1..L + 1 : OneMore(old[i], new[i])}
<1>0. /\ L \in Nat /\ Len(d) \in Nat /\ Len(doc) = L /\ Len(d) = L + 1
      /\ \A i \in 1..L : d[i] = doc[i]
  BY DEF IsList
<1>1. /\ \A i \in 1..L :
           /\ Matches(doc, mark, i) =>
                old[i] = <<Heading(doc, i)>> \o old[End(doc, i) + 1]
           /\ ~ Matches(doc, mark, i) => old[i] = old[i + 1]
      /\ \A i \in 1..L + 1 :
           /\ Matches(d, mark, i) =>
                new[i] = <<Heading(d, i)>> \o new[End(d, i) + 1]
           /\ ~ Matches(d, mark, i) => new[i] = new[i + 1]
  <2>1. 1..Len(d) = 1..L + 1
    BY <1>0
  <2> QED
    <3>1. \A i \in 1..Len(doc) :
             /\ Matches(doc, mark, i) =>
                  old[i] = <<Heading(doc, i)>> \o old[End(doc, i) + 1]
             /\ ~ Matches(doc, mark, i) => old[i] = old[i + 1]
      BY <1>0, SearchSteps
    <3>2. \A i \in 1..Len(d) :
             /\ Matches(d, mark, i) =>
                  new[i] = <<Heading(d, i)>> \o new[End(d, i) + 1]
             /\ ~ Matches(d, mark, i) => new[i] = new[i + 1]
      BY <1>0, SearchSteps
    <3> QED
      BY <2>1, <3>1, <3>2
<1>2. old[L + 1] = <<>> /\ new[(L + 1) + 1] = <<>>
  BY <1>0, SearchSteps
<1>listed. \A i \in 1..L + 1 : old[i] \in Seq(HeadingsBehind(doc, mark, i))
  BY <1>0, MatchesAreInOrder
<1> HIDE DEF old, new, L
<1>3. ASSUME NEW i \in 1..L + 1, i + 1 .. L + 1 \subseteq T PROVE i \in T
  <2>1. CASE i = L + 1
    <3>1. CASE Matches(d, mark, i)
      <4>1. End(d, i) = L + 1
        <5>1. i \in 1..Len(d)
          BY <1>0, <2>1
        <5>2. End(d, i) \in i..Len(d)
          BY <1>0, <3>1, <5>1, EndIsBehind
        <5> QED
          BY <1>0, <2>1, <5>2
      <4>2. new[i] = <<Heading(d, i)>> \o <<>>
        <5>1. new[i] = <<Heading(d, i)>> \o new[End(d, i) + 1]
          BY <1>1, <3>1
        <5> QED
          BY <1>2, <4>1, <5>1
      <4>3. new[i] = old[i] \o <<Heading(d, i)>>
        BY <1>2, <2>1, <4>2
      <4> QED
        BY <4>3
    <3>2. CASE ~ Matches(d, mark, i)
      <4>1. new[i] = new[(L + 1) + 1]
        BY <1>0, <1>1, <2>1, <3>2
      <4> QED
        BY <1>2, <2>1, <4>1
    <3> QED
      BY <3>1, <3>2
  <2>2. CASE i \in 1..L /\ LastLine(d, i) = LastLine(doc, i)
    <3>1. d[i] = doc[i] /\ (Matches(d, mark, i) <=> Matches(doc, mark, i))
      BY <1>0, <2>2 DEF Matches
    <3>2. CASE Matches(doc, mark, i)
      <4> DEFINE e == End(doc, i)
                 x == Heading(doc, i)
      <4>1. e \in i..L /\ e + 1 \in i + 1 .. L + 1
        <5>1. i \in 1..Len(doc)
          BY <1>0, <2>2
        <5>2. e \in i..Len(doc)
          BY <1>0, <3>2, <5>1, EndIsBehind
        <5> QED
          BY <1>0, <2>2, <5>2
      <4>2. End(d, i) = e
        BY <2>2 DEF End
      <4>3. Captured(d, i) = Captured(doc, i)
        <5>1. LastLine(doc, i) \in SUBSET (i..L)
          <6>1. i \in 1..Len(doc)
            BY <1>0, <2>2
          <6> QED
            BY <1>0, <6>1, MatchEnds
        <5>2. (CHOOSE j \in LastLine(doc, i) : TRUE) \in 1..L
          BY <1>0, <2>2, <3>2, <5>1 DEF Matches
        <5> QED
          BY <1>0, <2>2, <3>1, <5>2 DEF Captured
      <4>4. Heading(d, i) = x
        BY <4>2, <4>3 DEF Heading
      <4> HIDE DEF e, x
      <4>5. old[i] = <<x>> \o old[e + 1]
        BY <1>1, <2>2, <3>2 DEF e, x
      <4>6. new[i] = <<x>> \o new[e + 1]
        BY <1>0, <1>1, <2>2, <3>1, <3>2, <4>2, <4>4
      <4>7. e + 1 \in T
        BY <1>3, <4>1
      <4>8. CASE new[e + 1] = old[e + 1]
        BY <4>5, <4>6, <4>8
      <4>9. ASSUME NEW y, new[e + 1] = old[e + 1] \o <<y>>
            PROVE  new[i] = old[i] \o <<y>>
        <5> DEFINE S == HeadingsBehind(doc, mark, e + 1) \cup {x, y}
                   rest == old[e + 1]
        <5>1. rest \in Seq(HeadingsBehind(doc, mark, e + 1))
          BY <1>0, <1>listed, <4>1
        <5> HIDE DEF rest
        <5>2. rest \in Seq(S) /\ <<x>> \in Seq(S) /\ <<y>> \in Seq(S)
          BY <5>1
        <5> HIDE DEF S
        <5>3. <<x>> \o (rest \o <<y>>) = (<<x>> \o rest) \o <<y>>
          BY <5>2, ConcatAssociative
        <5> QED
          BY <4>5, <4>6, <4>9, <5>3 DEF rest
      <4> QED
        BY <4>7, <4>8, <4>9
    <3>3. CASE ~ Matches(doc, mark, i)
      <4>1. old[i] = old[i + 1] /\ new[i] = new[i + 1]
        BY <1>0, <1>1, <2>2, <3>1, <3>3
      <4>2. i + 1 \in T
        <5>1. i + 1 \in i + 1 .. L + 1
          BY <1>0, <2>2
        <5> QED
          BY <1>3, <5>1
      <4> QED
        BY <4>1, <4>2
    <3> QED
      BY <3>2, <3>3
  <2>3. CASE /\ i \in 1..L
             /\ LastLine(doc, i) = {} /\ LastLine(d, i) = {L + 1}
             /\ \A j \in i + 1 .. L : doc[j] = Text(Blank)
    <3>1. ~ Matches(doc, mark, i) /\ \A j \in i + 1 .. L : ~ Matches(doc, mark, j)
      BY <2>3 DEF Matches, Text
    <3>2. old[i + 1] = <<>>
      <4>1. i + 1 \in 1..L + 1
        BY <1>0, <2>3
      <4> QED
        BY <1>0, <3>1, <4>1, NoMatchNoHeading DEF old, L
    <3>3. old[i] = <<>>
      BY <1>1, <2>3, <3>1, <3>2
    <3>4. CASE Matches(d, mark, i)
      <4>1. End(d, i) = L + 1
        BY <2>3 DEF End
      <4>2. new[i] = <<Heading(d, i)>> \o <<>>
        BY <1>0, <1>1, <1>2, <2>3, <3>4, <4>1
      <4>3. new[i] = old[i] \o <<Heading(d, i)>>
        BY <3>3, <4>2
      <4> QED
        BY <4>3
    <3>5. CASE ~ Matches(d, mark, i)
      <4>1. new[i] = new[i + 1]
        BY <1>0, <1>1, <2>3, <3>5
      <4>2. i + 1 \in T
        <5>1. i + 1 \in i + 1 .. L + 1
          BY <1>0, <2>3
        <5> QED
          BY <1>3, <5>1
      <4> QED
        BY <3>2, <3>3, <4>1, <4>2
    <3> QED
      BY <3>4, <3>5
  <2> QED
    <3>1. i = L + 1 \/ i \in 1..L
      BY <1>0
    <3>2. i \in 1..L =>
            \/ LastLine(d, i) = LastLine(doc, i)
            \/ /\ LastLine(doc, i) = {} /\ LastLine(d, i) = {L + 1}
               /\ \A j \in i + 1 .. L : doc[j] = Text(Blank)
      BY <1>0, MatchStays DEF L
    <3> QED
      BY <2>1, <2>2, <2>3, <3>1, <3>2
<1>4. T = 1..L + 1
  <2> DEFINE n == L + 1
  <2>1. n \in Nat /\ T \in SUBSET (1..n)
    BY <1>0
  <2>2. \A i \in 1..n : i + 1 .. n \subseteq T => i \in T
    BY <1>3
  <2> HIDE DEF T, n
  <2>3. T = 1..n
    BY <2>1, <2>2, InductionFromTheEnd
  <2> QED
    BY <2>3 DEF n
<1>5. 1 \in T
  <2> HIDE DEF T
  <2> QED
    BY <1>0, <1>4
<1> QED
  BY <1>5 DEF Headings, old, new

----------------------------------------------------------------------------
(***************************************************************************)
(* Lists that agree on a stretch have the same stretch.                    *)
(***************************************************************************)
LEMMA SameSubSeq ==
  ASSUME NEW s, NEW t, NEW lo \in Int, NEW hi \in Int,
         \A i \in lo..hi : s[i] = t[i]
  PROVE  SubSeq(s, lo, hi) = SubSeq(t, lo, hi)
<1> DEFINE u == SubSeq(s, lo, hi)
           v == SubSeq(t, lo, hi)
<1>1. /\ IsList(u) /\ Stretch(u, s, lo..hi, lo - 1)
      /\ IsList(v) /\ Stretch(v, t, lo..hi, lo - 1)
      /\ Len(u) = Len(v)
  BY SubSeqIsAStretch
<1> HIDE DEF u, v
<1>2. \A k \in 1..Len(u) : u[k] = v[k]
  BY <1>1 DEF Stretch
<1>3. u = [k \in 1..Len(u) |-> u[k]] /\ v = [k \in 1..Len(u) |-> v[k]]
  BY <1>1 DEF IsList
<1>4. u = v
  BY <1>2, <1>3
<1> QED
  BY <1>4 DEF u, v

(***************************************************************************)
(* A line at the end changes no section but the last one before it and the *)
(* last one with it.                                                       *)
(***************************************************************************)
LEMMA OtherSectionsStay ==
  ASSUME NEW doc, IsList(doc), NEW d, Len(d) = Len(doc) + 1,
         \A i \in 1..Len(doc) : d[i] = doc[i],
         NEW s \in ToSet(SectionOrder),
         Text(s) \notin LastSection(doc), Text(s) \notin LastSection(d)
  PROVE  SectionChunks(d, s) = SectionChunks(doc, s)
<1> DEFINE h == Headings(doc, "h2")
           g == Headings(d, "h2")
           n == LastNamed(h, s)
<1>1. /\ Len(doc) \in Nat /\ Len(d) \in Nat
      /\ Len(h) \in Nat /\ DOMAIN h = 1..Len(h) /\ h \in Seq(HeadingsBehind(doc, "h2", 1))
      /\ Len(g) \in Nat /\ DOMAIN g = 1..Len(g)
  <2>1. Len(doc) \in Nat /\ Len(d) \in Nat
    BY DEF IsList
  <2> QED
    BY <2>1, HeadingsAreInOrder, LenProperties
<1>2. /\ h # <<>> => h[Len(h)].name # Text(s)
      /\ g # <<>> => g[Len(g)].name # Text(s)
  BY DEF LastSection, Last
<1>3. g = h \/ \E x : g = h \o <<x>>
  <2> DEFINE mark == "h2"
  <2>1. mark # "text"
    OBVIOUS
  <2> HIDE DEF mark
  <2>2. OneMore(Headings(doc, mark), Headings(d, mark))
    BY <2>1, OneMoreHeading
  <2> QED
    BY <2>2 DEF mark, OneMore
<1> HIDE DEF h, g
<1>4. /\ Len(h) <= Len(g) /\ \A i \in 1..Len(h) : g[i] = h[i]
      /\ \A i \in 1..Len(g) : g[i].name = Text(s) => i \in 1..Len(h)
  <2>1. CASE g = h
    BY <1>1, <2>1
  <2>2. ASSUME NEW x, g = h \o <<x>> PROVE
          /\ Len(h) <= Len(g) /\ \A i \in 1..Len(h) : g[i] = h[i]
          /\ \A i \in 1..Len(g) : g[i].name = Text(s) => i \in 1..Len(h)
    <3> DEFINE S == HeadingsBehind(doc, "h2", 1) \cup {x}
    <3>1. h \in Seq(S) /\ <<x>> \in Seq(S)
      BY <1>1
    <3> HIDE DEF S
    <3>2. /\ Len(g) = Len(h) + 1
          /\ \A i \in 1..Len(h) + 1 :
               g[i] = IF i <= Len(h) THEN h[i] ELSE <<x>>[i - Len(h)]
      BY <1>1, <2>2, <3>1, ConcatProperties
    <3>3. g # <<>>
      BY <1>1, <3>2
    <3>4. g[Len(h) + 1].name # Text(s)
      BY <1>2, <3>2, <3>3
    <3> QED
      BY <1>1, <3>2, <3>4
  <2> QED
    BY <1>3, <2>1, <2>2
<1>5. {i \in DOMAIN g : g[i].name = Text(s)} = {i \in DOMAIN h : h[i].name = Text(s)}
  <2>1. ASSUME NEW i \in 1..Len(g), g[i].name = Text(s)
        PROVE  i \in 1..Len(h) /\ h[i].name = Text(s)
    BY <1>4, <2>1
  <2>2. ASSUME NEW i \in 1..Len(h), h[i].name = Text(s)
        PROVE  i \in 1..Len(g) /\ g[i].name = Text(s)
    BY <1>1, <1>4, <2>2
  <2> QED
    BY <1>1, <2>1, <2>2
<1>6. LastNamed(g, s) = n
  BY <1>5 DEF LastNamed
<1>7. s \in DOMAIN Sections(d) <=> s \in DOMAIN Sections(doc)
  <2>1. s \in DOMAIN Sections(d) <=> \E i \in DOMAIN g : g[i].name = Text(s)
    BY <1>1, SectionsAreBodies DEF g
  <2>2. s \in DOMAIN Sections(doc) <=> \E i \in DOMAIN h : h[i].name = Text(s)
    BY <1>1, SectionsAreBodies DEF h
  <2> QED
    BY <1>5, <2>1, <2>2
<1>8. ASSUME s \in DOMAIN Sections(doc)
      PROVE  Sections(d)[s] = Sections(doc)[s]
  <2>1. /\ n \in DOMAIN h /\ h[n].name = Text(s)
        /\ Sections(doc)[s] = BodyOf(doc, h, n)
    BY <1>1, <1>8, SectionsAreBodies DEF h
  <2>2. Sections(d)[s] = BodyOf(d, g, n)
    BY <1>1, <1>6, <1>7, <1>8, SectionsAreBodies DEF g
  <2>3. n \in 1..Len(h) /\ n < Len(h) /\ n + 1 \in 1..Len(h)
    <3> HIDE DEF n
    <3>1. n \in 1..Len(h) /\ h # <<>>
      BY <1>1, <2>1
    <3>2. n # Len(h)
      BY <1>2, <2>1, <3>1
    <3> DEFINE m == Len(h)
    <3>3. m \in Nat
      BY <1>1
    <3>4. n \in 1..m /\ n # m
      BY <3>1, <3>2
    <3> HIDE DEF m
    <3>5. n < m /\ n + 1 \in 1..m
      BY <3>3, <3>4
    <3> QED
      BY <3>1, <3>5 DEF m
  <2>4. h[n].end \in 1..Len(doc) /\ h[n + 1].start \in 1..Len(doc)
    <3>1. h[n].start \in 1..Len(doc) /\ h[n].end \in h[n].start..Len(doc)
      BY <1>1, <2>1, HeadingFields DEF h
    <3>2. h[n + 1].start \in 1..Len(doc)
      BY <1>1, <2>3, HeadingFields DEF h
    <3> QED
      BY <3>1, <3>2
  <2> HIDE DEF n
  <2> DEFINE lo == h[n].end + 1
             hi == h[n + 1].start - 1
  <2>5. n < Len(g) /\ g[n].end = h[n].end /\ g[n + 1].start = h[n + 1].start
    BY <1>1, <1>4, <2>3
  <2>6. BodyOf(doc, h, n) = Strip(SubSeq(doc, lo, hi))
    BY <2>3 DEF BodyOf
  <2>7. BodyOf(d, g, n) = Strip(SubSeq(d, lo, hi))
    BY <2>5 DEF BodyOf
  <2>8. SubSeq(d, lo, hi) = SubSeq(doc, lo, hi)
    <3>1. lo \in Int /\ hi \in Int /\ \A i \in lo..hi : d[i] = doc[i]
      <4>1. \A i \in lo..hi : i \in 1..Len(doc)
        BY <1>1, <2>4
      <4> QED
        BY <1>1, <2>4, <4>1
    <3> HIDE DEF lo, hi
    <3> QED
      BY <3>1, SameSubSeq
  <2> QED
    BY <2>1, <2>2, <2>6, <2>7, <2>8
<1> QED
  BY <1>7, <1>8 DEF SectionChunks

(***************************************************************************)
(* A line written at the end of a document of any length changes the       *)
(* chunks of the last section only: nothing above it is parsed differently *)
(* because of it.                                                          *)
(***************************************************************************)
THEOREM EarlierSectionsStay == ParserSpec => OnlyTheLastSectionChanges
<1> DEFINE IInv == document \in Seq(Line)
<1>1. ParserInit => IInv
  BY EmptySeq DEF ParserInit
<1>2. IInv /\ [ParserNext]_document => IInv'
  BY AppendProperties DEF ParserNext, WriteLine
<1>3. IInv /\ [ParserNext]_document =>
        [\A s \in ToSet(SectionOrder) :
           Text(s) \in LastSection(document) \cup LastSection(document')
           \/ SectionChunks(document', s) = SectionChunks(document, s)]_document
  <2> SUFFICES ASSUME IInv, NEW l \in Line, document' = Append(document, l),
                      NEW s \in ToSet(SectionOrder),
                      Text(s) \notin LastSection(document),
                      Text(s) \notin LastSection(document')
      PROVE  SectionChunks(document', s) = SectionChunks(document, s)
    BY DEF ParserNext, WriteLine
  <2>1. IsList(document)
    BY LenProperties DEF IsList
  <2>2. /\ Len(document') = Len(document) + 1
        /\ \A i \in 1..Len(document) : document'[i] = document[i]
    BY AppendProperties
  <2> QED
    BY <2>1, <2>2, OtherSectionsStay
<1> QED
  BY <1>1, <1>2, <1>3, PTL DEF ParserSpec, OnlyTheLastSectionChanges

----------------------------------------------------------------------------
(***************************************************************************)
(* Where every mark of a kind has a value behind it, the headings are the  *)
(* lines with that mark, all of them and in order.                         *)
(***************************************************************************)
Valued(lines, mark) ==
  \A i \in 1..Len(lines) : lines[i].mark = mark => lines[i].value # Blank
Marked(lines, mark) == {i \in 1..Len(lines) : lines[i].mark = mark}
Starts(headings) == [n \in 1..Len(headings) |-> headings[n].start]

\* A marked line with a value is a match by itself.
LEMMA ValuedMatches ==
  ASSUME NEW lines, NEW mark, Valued(lines, mark), NEW i \in 1..Len(lines)
  PROVE  /\ Matches(lines, mark, i) <=> lines[i].mark = mark
         /\ lines[i].mark = mark =>
              /\ LastLine(lines, i) = {i} /\ End(lines, i) = i
              /\ Captured(lines, i) = Text(lines[i].value)
<1>1. lines[i].mark = mark => lines[i].value # Blank
  BY DEF Valued
<1>2. CASE lines[i].mark = mark
  <2>1. LastLine(lines, i) = {i}
    BY <1>1, <1>2 DEF LastLine
  <2>2. Captured(lines, i) = Text(lines[i].value)
    BY <1>1, <1>2 DEF Captured
  <2> QED
    BY <1>2, <2>1, <2>2 DEF Matches, End
<1>3. CASE lines[i].mark # mark
  BY <1>3 DEF Matches
<1> QED
  BY <1>2, <1>3

\* The search misses no such line.
LEMMA MarkedAreFound ==
  ASSUME NEW lines, NEW mark, Len(lines) \in Nat, Valued(lines, mark)
  PROVE  \A k \in Marked(lines, mark) :
           \E n \in 1..Len(Headings(lines, mark)) :
             Headings(lines, mark)[n].start = k
<1> DEFINE L == Len(lines)
           from == HeadingsFrom(lines, mark)
           Finds(i) == \A k \in i..L : lines[k].mark = mark =>
                         \E n \in 1..Len(from[i]) : from[i][n].start = k
           T == {i \in 1..L + 1 : Finds(i)}
<1>0. L \in Nat
  OBVIOUS
<1>1. \A i \in 1..L + 1 : from[i] \in Seq(HeadingsBehind(lines, mark, i))
  BY MatchesAreInOrder
<1>2. \A i \in 1..L :
        /\ Matches(lines, mark, i) =>
             from[i] = <<Heading(lines, i)>> \o from[End(lines, i) + 1]
        /\ ~ Matches(lines, mark, i) => from[i] = from[i + 1]
  BY SearchSteps
<1>3. \A i \in 1..L : /\ Matches(lines, mark, i) <=> lines[i].mark = mark
                      /\ lines[i].mark = mark => End(lines, i) = i
  BY ValuedMatches
<1> HIDE DEF from, L
<1>4. ASSUME NEW i \in 1..L + 1, i + 1 .. L + 1 \subseteq T PROVE i \in T
  <2>1. CASE i = L + 1
    <3>1. i..L = {}
      BY <1>0, <2>1
    <3> QED
      BY <3>1
  <2>2. CASE i # L + 1
    <3>0. i \in 1..L /\ i + 1 \in i + 1 .. L + 1
      BY <1>0, <2>2
    <3>1. Finds(i + 1)
      BY <1>4, <3>0
    <3>2. CASE lines[i].mark # mark
      <4>1. from[i] = from[i + 1]
        BY <1>2, <1>3, <3>0, <3>2
      <4>2. ASSUME NEW k \in i..L, lines[k].mark = mark PROVE k \in i + 1 .. L
        BY <1>0, <3>2, <4>2
      <4> QED
        BY <3>1, <4>1, <4>2
    <3>3. CASE lines[i].mark = mark
      <4> DEFINE x == Heading(lines, i)
                 rest == from[i + 1]
      <4>1. from[i] = <<x>> \o rest
        BY <1>2, <1>3, <3>0, <3>3
      <4>2. rest \in Seq(HeadingsBehind(lines, mark, i + 1)) /\ i + 1 \in 1..L + 1
        BY <1>0, <1>1, <3>0
      <4>3. x.start = i
        BY DEF Heading
      <4> DEFINE H == HeadingsBehind(lines, mark, i + 1) \cup {x}
      <4>4. <<x>> \in Seq(H) /\ rest \in Seq(H)
        <5>1. x \in H /\ \A h \in HeadingsBehind(lines, mark, i + 1) : h \in H
          OBVIOUS
        <5> HIDE DEF H, x, rest
        <5>2. rest \in Seq(H)
          <6>1. /\ Len(rest) \in Nat /\ rest = [n \in 1..Len(rest) |-> rest[n]]
                /\ \A n \in 1..Len(rest) : rest[n] \in H
            BY <4>2, <5>1, ElementOfSeq, LenProperties
          <6> QED
            BY <6>1, IsASeq
        <5> QED
          BY <5>1, <5>2
      <4> HIDE DEF x, rest, H
      <4>5. /\ Len(from[i]) = 1 + Len(rest) /\ Len(rest) \in Nat /\ from[i][1] = x
            /\ \A n \in 2..1 + Len(rest) : from[i][n] = rest[n - 1]
        <5>1. Len(<<x>>) = 1 /\ <<x>>[1] = x /\ Len(rest) \in Nat
          BY <4>4, LenProperties
        <5> QED
          BY <4>1, <4>4, <5>1, ConcatProperties
      <4>6. ASSUME NEW k \in i..L, lines[k].mark = mark
            PROVE  \E n \in 1..Len(from[i]) : from[i][n].start = k
        <5>1. CASE k = i
          BY <4>3, <4>5, <5>1
        <5>2. CASE k # i
          <6>1. k \in i + 1 .. L
            BY <1>0, <5>2
          <6>2. PICK n \in 1..Len(rest) : rest[n].start = k
            BY <3>1, <4>6, <6>1 DEF rest
          <6>3. n + 1 \in 2..1 + Len(rest) /\ n + 1 \in 1..Len(from[i])
                /\ (n + 1) - 1 = n
            BY <4>5
          <6>4. from[i][n + 1] = rest[n]
            BY <4>5, <6>3
          <6> QED
            BY <6>2, <6>3, <6>4
        <5> QED
          BY <5>1, <5>2
      <4> QED
        BY <4>6
    <3> QED
      BY <3>2, <3>3
  <2> QED
    BY <2>1, <2>2
<1>5. T = 1..L + 1
  <2>1. T \in SUBSET (1..L + 1) /\ L + 1 \in Nat
    BY <1>0
  <2> HIDE DEF T
  <2> QED
    BY <1>0, <1>4, <2>1, InductionFromTheEnd
<1>6. Finds(1)
  <2>1. 1 \in 1..L + 1
    BY <1>0
  <2> QED
    BY <1>5, <2>1
<1> QED
  BY <1>6 DEF Headings, Marked, from, L

\* So the headings are the marked lines, as a list, named by their values.
LEMMA HeadingsAreMarked ==
  ASSUME NEW lines, NEW mark, Len(lines) \in Nat, Valued(lines, mark)
  PROVE  LET h == Headings(lines, mark)
         IN  /\ Len(h) \in Nat /\ DOMAIN h = 1..Len(h)
             /\ Lists(Starts(h), Len(h), Marked(lines, mark))
             /\ \A n \in 1..Len(h) :
                  /\ h[n].start \in Marked(lines, mark) /\ h[n].end = h[n].start
                  /\ h[n].name = Text(lines[h[n].start].value)
<1> DEFINE h == Headings(lines, mark)
<1>1. h \in Seq(HeadingsBehind(lines, mark, 1)) /\ InOrder(h)
  BY HeadingsAreInOrder
<1>2. \A k \in Marked(lines, mark) : \E n \in 1..Len(h) : h[n].start = k
  BY MarkedAreFound
<1> HIDE DEF h
<1>3. Len(h) \in Nat /\ DOMAIN h = 1..Len(h)
  BY <1>1, LenProperties
<1>4. ASSUME NEW n \in 1..Len(h)
      PROVE  /\ h[n].start \in Marked(lines, mark) /\ h[n].end = h[n].start
             /\ h[n].name = Text(lines[h[n].start].value)
  <2>1. h[n] \in HeadingsBehind(lines, mark, 1)
    BY <1>1, ElementOfSeq
  <2>2. PICK k \in 1..Len(lines) : Matches(lines, mark, k) /\ h[n] = Heading(lines, k)
    BY <2>1 DEF HeadingsBehind
  <2>3. /\ lines[k].mark = mark /\ End(lines, k) = k
        /\ Captured(lines, k) = Text(lines[k].value)
    BY <2>2, ValuedMatches
  <2>4. /\ h[n].start = k /\ h[n].end = End(lines, k)
        /\ h[n].name = Captured(lines, k)
    BY <2>2 DEF Heading
  <2> QED
    BY <2>3, <2>4 DEF Marked
<1>5. Starts(h) \in [1..Len(h) -> Marked(lines, mark)]
  BY <1>4 DEF Starts
<1>6. \A n, m \in 1..Len(h) : n < m => Starts(h)[n] < Starts(h)[m]
  BY <1>1, <1>4 DEF Starts, InOrder
<1>7. \A k \in Marked(lines, mark) : \E n \in 1..Len(h) : Starts(h)[n] = k
  BY <1>2 DEF Starts
<1> QED
  BY <1>3, <1>4, <1>5, <1>6, <1>7 DEF Lists, h

----------------------------------------------------------------------------
(***************************************************************************)
(* A body has all the filled lines between its heading and the next.       *)
(***************************************************************************)
LEMMA StripKeepsFilled ==
  ASSUME NEW t, IsList(t)
  PROVE  \E o \in Int :
           /\ Stretch(Strip(t), t, 1..Len(t), o)
           /\ \A i \in 1..Len(t) : t[i] # Text(Blank) => i - o \in 1..Len(Strip(t))
<1> DEFINE filled == {i \in DOMAIN t : t[i] # Text(Blank)}
           a == Min(filled)
           b == Max(filled)
<1>1. /\ Len(t) \in Nat /\ filled \in SUBSET (1..Len(t)) /\ filled \in SUBSET Nat
      /\ \A i \in 1..Len(t) : t[i] # Text(Blank) => i \in filled
  BY DEF IsList
<1>2. Strip(t) = IF filled = {} THEN <<>> ELSE SubSeq(t, a, b)
  BY DEF Strip
<1> HIDE DEF filled
<1>3. CASE filled = {}
  <2>1. Strip(t) = <<>>
    BY <1>2, <1>3
  <2>2. Stretch(<<>>, t, 1..Len(t), 0) /\ 0 \in Int
    BY DEF Stretch
  <2>3. \A i \in 1..Len(t) : t[i] = Text(Blank)
    BY <1>1, <1>3
  <2> QED
    BY <2>1, <2>2, <2>3
<1>4. CASE filled # {}
  <2>1. /\ a \in 1..Len(t) /\ b \in 1..Len(t)
        /\ \A i \in filled : a <= i /\ i <= b
    BY <1>1, <1>4, Smallest, Largest
  <2>2. Strip(t) = SubSeq(t, a, b)
    BY <1>2, <1>4
  <2> HIDE DEF a, b
  <2>3. /\ Stretch(Strip(t), t, a..b, a - 1)
        /\ Len(Strip(t)) = IF a <= b THEN b - a + 1 ELSE 0
    BY <2>1, <2>2, SubSeqIsAStretch
  <2>4. a..b \subseteq 1..Len(t) /\ a - 1 \in Int
    BY <1>1, <2>1
  <2>5. Stretch(Strip(t), t, 1..Len(t), a - 1)
    BY <2>3, <2>4 DEF Stretch
  <2>6. ASSUME NEW i \in 1..Len(t), t[i] # Text(Blank)
        PROVE  i - (a - 1) \in 1..Len(Strip(t))
    <3>1. a <= i /\ i <= b
      BY <1>1, <2>1, <2>6
    <3> QED
      BY <2>1, <2>3, <3>1
  <2> QED
    BY <2>4, <2>5, <2>6
<1> QED
  BY <1>3, <1>4

\* The same of a body and the lines between its heading and the next.
LEMMA BodyKeepsFilled ==
  ASSUME NEW lines, NEW mark, Len(lines) \in Nat, NEW n \in DOMAIN Headings(lines, mark)
  PROVE  LET P == Between(lines, Headings(lines, mark), n)
             body == BodyOf(lines, Headings(lines, mark), n)
         IN  \E o \in Int :
               /\ Stretch(body, lines, P, o)
               /\ \A i \in P : lines[i] # Text(Blank) => i - o \in 1..Len(body)
<1> DEFINE h == Headings(lines, mark)
           body == BodyOf(lines, h, n)
           lo == h[n].end + 1
           hi == IF n < Len(h) THEN h[n + 1].start - 1 ELSE Len(lines)
           t == SubSeq(lines, lo, hi)
<1>1. /\ Len(h) \in Nat /\ n \in 1..Len(h) /\ DOMAIN h = 1..Len(h)
      /\ lo \in 1..Len(lines) + 1
  BY HeadingFields
<1>2. hi \in Int /\ hi <= Len(lines)
  <2>1. CASE n < Len(h)
    <3>1. n + 1 \in DOMAIN h
      BY <1>1, <2>1
    <3>2. h[n + 1].start \in 1..Len(lines)
      BY <3>1, HeadingFields
    <3> QED
      BY <2>1, <3>2
  <2>2. CASE ~(n < Len(h))
    BY <2>2
  <2> QED
    BY <2>1, <2>2
<1>3. body = Strip(t)
  BY DEF BodyOf
<1>4. Between(lines, h, n) = lo..hi
  BY DEF Between
<1>5. IsList(body)
  BY BodiesLieBetween
<1> HIDE DEF h, body, lo, hi
<1>6. /\ IsList(t) /\ Stretch(t, lines, lo..hi, lo - 1)
      /\ Len(t) = IF lo <= hi THEN hi - lo + 1 ELSE 0
  BY <1>1, <1>2, SubSeqIsAStretch
<1> HIDE DEF t
<1>7. PICK o \in Int :
        /\ Stretch(Strip(t), t, 1..Len(t), o)
        /\ \A i \in 1..Len(t) : t[i] # Text(Blank) => i - o \in 1..Len(Strip(t))
  BY <1>6, StripKeepsFilled
<1>8. Stretch(body, lines, lo..hi, (lo - 1) + o)
  <2>1. Len(body) \in Nat /\ lo..hi \in SUBSET Int /\ lo - 1 \in Int
    BY <1>1, <1>5 DEF IsList
  <2> QED
    BY <1>3, <1>6, <1>7, <2>1, StretchOfAStretch
<1>9. ASSUME NEW i \in lo..hi, lines[i] # Text(Blank)
      PROVE  i - ((lo - 1) + o) \in 1..Len(body)
  <2> DEFINE k == i - (lo - 1)
  <2>1. k \in 1..Len(t) /\ (lo - 1) + k = i /\ k - o = i - ((lo - 1) + o)
    BY <1>1, <1>2, <1>6
  <2> HIDE DEF k
  <2>2. t[k] = lines[i]
    BY <1>6, <2>1 DEF Stretch
  <2>3. k - o \in 1..Len(Strip(t))
    BY <1>7, <1>9, <2>1, <2>2
  <2> QED
    BY <1>3, <2>1, <2>3
<1>10. (lo - 1) + o \in Int
  BY <1>1
<1> QED
  BY <1>4, <1>8, <1>9, <1>10 DEF h, body

FilledAt(lines, P) == {i \in P : lines[i] # Text(Blank)}

\* What is filled of a stretch that keeps the filled lines.
LEMMA FilledOfAStretch ==
  ASSUME NEW body, IsList(body), NEW lines, NEW P \in SUBSET Nat, NEW o \in Int,
         Stretch(body, lines, P, o),
         \A i \in P : lines[i] # Text(Blank) => i - o \in 1..Len(body)
  PROVE  Filled(body) = Picked(lines, FilledAt(lines, P))
<1> DEFINE S == FilledAt(body, 1..Len(body))
           R == FilledAt(lines, P)
<1>1. Len(body) \in Nat /\ DOMAIN body = 1..Len(body)
  BY DEF IsList
<1>2. S \in SUBSET (1..Len(body)) /\ S \in SUBSET Nat /\ R \in SUBSET Nat
  <2>1. S \in SUBSET (1..Len(body)) /\ S \in SUBSET Nat
    BY <1>1 DEF FilledAt
  <2>2. R \in SUBSET Nat
    BY DEF FilledAt
  <2> QED
    BY <2>1, <2>2
<1>3. IsFiniteSet(S)
  <2>1. IsFiniteSet(1..Len(body))
    BY <1>1, FS_Interval
  <2> HIDE DEF S
  <2> QED
    BY <1>2, <2>1, FS_Subset
<1>4. ASSUME NEW i \in S PROVE o + i \in R /\ body[i] = lines[o + i]
  <2>1. i \in 1..Len(body) /\ body[i] # Text(Blank)
    BY DEF FilledAt
  <2>2. o + i \in P /\ body[i] = lines[o + i]
    BY <2>1 DEF Stretch
  <2> QED
    BY <2>1, <2>2 DEF FilledAt
<1>5. ASSUME NEW r \in R PROVE r - o \in S
  <2>1. r \in P /\ lines[r] # Text(Blank) /\ r \in Nat
    BY DEF FilledAt
  <2>2. r - o \in 1..Len(body) /\ o + (r - o) = r
    BY <2>1
  <2>3. body[r - o] = lines[o + (r - o)]
    BY <2>2 DEF Stretch
  <2> QED
    BY <2>1, <2>2, <2>3 DEF FilledAt
<1>6. Filled(body) = Picked(body, S)
  BY <1>1 DEF Filled, FilledAt
<1> HIDE DEF S, R
<1>7. Picked(body, S) = Picked(lines, R)
  <2>1. /\ \A i \in S : o + i \in R
        /\ \A r \in R : r - o \in S
        /\ \A i \in S : body[i] = lines[o + i]
    BY <1>4, <1>5
  <2> QED
    <3> DEFINE Q(t, s) == \A i \in S : t[i] = s[o + i]
    <3>1. \A t, s : Q(t, s) => Picked(t, S) = Picked(s, R)
      BY <1>2, <1>3, <2>1, PickedShift
    <3> QED
      BY <2>1, <3>1
<1> QED
  BY <1>6, <1>7 DEF R

(***************************************************************************)
(* Nearest is what its name says, and a line stands between a heading and  *)
(* the next if and only if that heading is the nearest above it.           *)
(***************************************************************************)
IsNearest(lines, i, marks, g) ==
  /\ g \in 0 .. i - 1
  /\ g = 0 \/ lines[g].mark \in marks
  /\ \A j \in g + 1 .. i - 1 : lines[j].mark \notin marks

\* Nearest is the one line that is nearest.
LEMMA NearestIs ==
  ASSUME NEW lines, NEW marks, NEW i \in Nat \ {0}
  PROVE  /\ IsNearest(lines, i, marks, Nearest(lines, i, marks))
         /\ \A g : IsNearest(lines, i, marks, g) => Nearest(lines, i, marks) = g
<1> DEFINE A == {j \in 1 .. i - 1 : lines[j].mark \in marks}
           S == {0} \cup A
<1>1. ASSUME NEW g, IsNearest(lines, i, marks, g) PROVE Nearest(lines, i, marks) = g
  <2>1. g \in S /\ g \in Int
    BY <1>1 DEF IsNearest
  <2>2. \A j \in S : g >= j /\ j \in Int
    <3> SUFFICES ASSUME NEW j \in S PROVE g >= j /\ j \in Int
      OBVIOUS
    <3>1. CASE j = 0
      BY <1>1, <3>1 DEF IsNearest
    <3>2. CASE j \in A
      <4>1. j \in 1..i - 1 /\ j \notin g + 1 .. i - 1
        BY <1>1, <3>2 DEF IsNearest
      <4> QED
        BY <2>1, <4>1
    <3> QED
      BY <3>1, <3>2
  <2> HIDE DEF S
  <2>3. Max(S) \in S /\ \A j \in S : Max(S) >= j
    BY <2>1, <2>2 DEF Max
  <2>4. Max(S) >= g /\ g >= Max(S) /\ Max(S) \in Int
    BY <2>1, <2>2, <2>3
  <2> QED
    BY <2>1, <2>4 DEF Nearest, S
<1>2. \E g : IsNearest(lines, i, marks, g)
  <2>1. CASE A = {}
    <3>1. IsNearest(lines, i, marks, 0)
      BY <2>1 DEF IsNearest
    <3> QED
      BY <3>1
  <2>2. CASE A # {}
    <3>1. i - 1 \in Nat /\ A \in SUBSET (1..i - 1)
      OBVIOUS
    <3> DEFINE g == Max(A)
    <3>2. g \in A /\ \A j \in A : j <= g
      <4> HIDE DEF A
      <4> QED
        BY <2>2, <3>1, Largest
    <3> HIDE DEF g
    <3>3. IsNearest(lines, i, marks, g)
      BY <3>2 DEF IsNearest
    <3> QED
      BY <3>3
  <2> QED
    BY <2>1, <2>2
<1> QED
  BY <1>1, <1>2

\* A line is between a heading and the next iff that heading is nearest.
LEMMA NearestIsBetween ==
  ASSUME NEW lines, NEW mark, Len(lines) \in Nat, Valued(lines, mark),
         NEW n \in 1..Len(Headings(lines, mark)), NEW i \in 1..Len(lines)
  PROVE  LET h == Headings(lines, mark)
         IN  i \in Between(lines, h, n) <=>
               /\ lines[i].mark # mark
               /\ IsNearest(lines, i, {mark}, h[n].start)
<1> DEFINE h == Headings(lines, mark)
           start == Starts(h)
<1>1. /\ Len(h) \in Nat /\ Lists(start, Len(h), Marked(lines, mark))
      /\ \A m \in 1..Len(h) : /\ h[m].start \in Marked(lines, mark)
                              /\ h[m].end = h[m].start
  BY HeadingsAreMarked
<1>2. \A m \in 1..Len(h) :
        /\ start[m] = h[m].start /\ start[m] \in 1..Len(lines)
        /\ lines[start[m]].mark = mark
  BY <1>1 DEF Starts, Marked
<1>3. /\ \A m, k \in 1..Len(h) : m < k => start[m] < start[k]
      /\ \A j \in 1..Len(lines) : lines[j].mark = mark =>
           \E m \in 1..Len(h) : start[m] = j
  BY <1>1 DEF Lists, Marked
<1>4. Between(lines, h, n)
        = start[n] + 1 .. (IF n < Len(h) THEN h[n + 1].start - 1 ELSE Len(lines))
  BY <1>1, <1>2 DEF Between
<1>5. n \in 1..Len(h)
  OBVIOUS
<1> HIDE DEF h, start
<1>6. n < Len(h) => /\ n + 1 \in 1..Len(h) /\ h[n + 1].start = start[n + 1]
                    /\ start[n] < start[n + 1]
  <2> SUFFICES ASSUME n < Len(h)
               PROVE  /\ n + 1 \in 1..Len(h) /\ h[n + 1].start = start[n + 1]
                      /\ start[n] < start[n + 1]
    OBVIOUS
  <2>1. n + 1 \in 1..Len(h) /\ n < n + 1
    BY <1>1, <1>5
  <2> QED
    BY <1>2, <1>3, <1>5, <2>1
<1>7. ASSUME i \in Between(lines, h, n)
      PROVE  lines[i].mark # mark /\ IsNearest(lines, i, {mark}, start[n])
  <2>1. start[n] < i /\ (n < Len(h) => i < start[n + 1])
    BY <1>2, <1>4, <1>5, <1>6, <1>7
  <2>2. ASSUME NEW j \in start[n] + 1 .. i, lines[j].mark = mark PROVE FALSE
    <3>1. j \in 1..Len(lines)
      BY <1>2, <1>5, <2>1
    <3>2. PICK m \in 1..Len(h) : start[m] = j
      BY <1>3, <2>2, <3>1
    <3>3. ~(m <= n)
      <4>1. CASE m = n
        BY <1>2, <1>5, <3>2, <4>1
      <4>2. CASE m < n
        <5>1. start[m] < start[n]
          BY <1>3, <1>5, <4>2
        <5> QED
          BY <1>2, <1>5, <3>2, <5>1
      <4> QED
        BY <1>1, <1>5, <4>1, <4>2
    <3>4. n < Len(h) /\ n + 1 <= m
      BY <1>1, <1>5, <3>3
    <3>5. start[n + 1] <= start[m]
      <4>1. CASE m = n + 1
        BY <1>2, <4>1
      <4>2. CASE n + 1 < m
        <5>1. start[n + 1] < start[m]
          BY <1>3, <1>6, <3>4, <4>2
        <5> QED
          BY <1>2, <1>6, <3>4, <5>1
      <4> QED
        BY <1>1, <1>5, <3>4, <4>1, <4>2
    <3> QED
      BY <1>2, <1>6, <2>1, <3>2, <3>4, <3>5
  <2>3. i \in start[n] + 1 .. i /\ start[n] \in 0..i - 1
    BY <1>2, <1>5, <2>1
  <2>4. \A j \in start[n] + 1 .. i - 1 : lines[j].mark # mark
    BY <2>2
  <2> QED
    BY <1>2, <1>5, <2>2, <2>3, <2>4 DEF IsNearest
<1>8. ASSUME lines[i].mark # mark, IsNearest(lines, i, {mark}, start[n])
      PROVE  i \in Between(lines, h, n)
  <2>1. start[n] \in 0..i - 1 /\ \A j \in start[n] + 1 .. i - 1 : lines[j].mark # mark
    BY <1>8 DEF IsNearest
  <2>2. ASSUME n < Len(h), start[n + 1] <= i PROVE FALSE
    <3>1. lines[start[n + 1]].mark = mark /\ start[n + 1] \in 1..Len(lines)
      BY <1>2, <1>6, <2>2
    <3>2. start[n + 1] \in start[n] + 1 .. i - 1
      BY <1>2, <1>5, <1>6, <1>8, <2>2, <3>1
    <3> QED
      BY <2>1, <3>1, <3>2
  <2>3. n < Len(h) => i < start[n + 1]
    BY <1>2, <1>6, <2>2
  <2> QED
    BY <1>2, <1>4, <1>5, <1>6, <2>1, <2>3
<1>9. start[n] = h[n].start
  BY <1>2, <1>5
<1> QED
  BY <1>7, <1>8, <1>9 DEF h

----------------------------------------------------------------------------
(***************************************************************************)
(* A name in front of a body moves every line of it by one.                *)
(***************************************************************************)
LEMMA NameInFront ==
  ASSUME NEW body, IsList(body), NEW name
  PROVE  LET text == <<name>> \o body
         IN  /\ Len(text) = 1 + Len(body) /\ DOMAIN text = 1 .. 1 + Len(body)
             /\ text[1] = name
             /\ \A k \in 1..Len(body) : text[1 + k] = body[k]
<1> DEFINE S == {body[k] : k \in 1..Len(body)} \cup {name}
           text == <<name>> \o body
<1>1. body \in Seq(S)
  <2>1. \A k \in 1..Len(body) : body[k] \in S
    OBVIOUS
  <2> HIDE DEF S
  <2>2. [k \in 1..Len(body) |-> body[k]] \in Seq(S)
    BY <2>1 DEF IsList
  <2> QED
    BY <2>2 DEF IsList
<1>2. <<name>> \in Seq(S) /\ Len(<<name>>) = 1 /\ <<name>>[1] = name
  OBVIOUS
<1> HIDE DEF S
<1>3. /\ text \in Seq(S) /\ Len(text) = 1 + Len(body)
      /\ \A i \in 1 .. 1 + Len(body) :
           text[i] = IF i <= 1 THEN <<name>>[i] ELSE body[i - 1]
  BY <1>1, <1>2, ConcatProperties
<1>4. Len(body) \in Nat
  BY DEF IsList
<1> HIDE DEF text
<1>5. DOMAIN text = 1 .. 1 + Len(body)
  BY <1>3, LenProperties
<1>6. text[1] = name
  BY <1>2, <1>3, <1>4
<1>7. ASSUME NEW k \in 1..Len(body) PROVE text[1 + k] = body[k]
  <2>1. 1 + k \in 1 .. 1 + Len(body) /\ ~(1 + k <= 1) /\ (1 + k) - 1 = k
    BY <1>4
  <2> QED
    BY <1>3, <2>1
<1> QED
  BY <1>3, <1>5, <1>6, <1>7 DEF text

(***************************************************************************)
(* A value with something behind every field it mentions: a match at one   *)
(* of its mentions ends on its own line, and reads what the mention says.  *)
(***************************************************************************)
Complete(v) == /\ v \in Value
               /\ \A k \in DOMAIN Mentions[v] : Mentions[v][k].rest # Blank

LEMMA ReadingSays ==
  ASSUME NEW block, NEW i \in DOMAIN block, NEW field, Complete(block[i].value)
  PROVE  /\ MatchesOn(block, i, field) = Saying(block[i], field)
         /\ \A k \in Saying(block[i], field) :
              Reading(block, i, k, field) = Says(block[i], k, field)
         /\ Saying(block[i], field) \in SUBSET Nat
<1> DEFINE v == block[i].value
<1>1. ASSUME NEW k \in DOMAIN Mentions[v]
      PROVE  Reading(block, i, k, field) = Says(block[i], k, field)
  <2> DEFINE mention == Mentions[v][k]
             cut == [block EXCEPT ![i] = Text(mention.rest)]
  <2>1. mention.rest # Blank
    BY DEF Complete
  <2> HIDE DEF mention
  <2>2. cut[i] = Text(mention.rest) /\ cut[i].value = mention.rest
    BY DEF Text
  <2>3. LastLine(cut, i) = {i} /\ Captured(cut, i) = Text(mention.rest)
    <3> HIDE DEF cut
    <3> QED
      BY <2>1, <2>2 DEF LastLine, Captured
  <2>4. Behind(block, i, mention) = Text(mention.rest)
    <3>1. Behind(block, i, mention) = IF LastLine(cut, i) = {} THEN Text(Blank)
                                                             ELSE Captured(cut, i)
      BY DEF Behind
    <3> HIDE DEF cut
    <3> QED
      BY <2>3, <3>1
  <2> QED
    BY <2>4 DEF Reading, Says, mention
<1>2. DOMAIN Mentions[v] \in SUBSET Nat
  <2> DEFINE Mention == [field : {"stack", "depth", "period"}, rest : Value]
  <2>1. Mentions[v] \in Seq(Mention)
    BY MentionsAssumption DEF Complete
  <2> HIDE DEF Mention, v
  <2>2. Len(Mentions[v]) \in Nat /\ DOMAIN Mentions[v] = 1..Len(Mentions[v])
    BY <2>1, LenProperties
  <2> QED
    BY <2>2
<1> QED
  BY <1>1, <1>2 DEF MatchesOn, Saying

(***************************************************************************)
(* What a field is taken to be is what is first said of it in the name and *)
(* the filled lines of the body.                                           *)
(***************************************************************************)
LEMMA FirstFound ==
  ASSUME NEW body, IsList(body), \A k \in 1..Len(body) : Complete(body[k].value),
         NEW v, Complete(v), NEW field
  PROVE  Field(<<Text(v)>> \o body, field) = FirstSaid(<<Text(v)>> \o Filled(body), field)
<1> DEFINE name == Text(v)
           text == <<name>> \o body
           F == FilledAt(body, 1..Len(body))
           n == Cardinality(F)
           a == Ascending(F)
           fl == Filled(body)
           own == <<name>> \o fl
           found == {i \in DOMAIN text : MatchesOn(text, i, field) # {}}
           rows == {j \in DOMAIN own : Saying(own[j], field) # {}}
<1>0. name.value = v
  BY DEF Text
<1> HIDE DEF name
<1>1. /\ Len(text) = 1 + Len(body) /\ DOMAIN text = 1 .. 1 + Len(body) /\ text[1] = name
      /\ \A k \in 1..Len(body) : text[1 + k] = body[k]
  BY NameInFront
<1> HIDE DEF text
<1>3. Len(body) \in Nat /\ DOMAIN body = 1..Len(body)
  BY DEF IsList
<1>4. F \in SUBSET (1..Len(body)) /\ F \in SUBSET Nat /\ IsFiniteSet(F)
  <2>1. F \in SUBSET (1..Len(body)) /\ F \in SUBSET Nat
    BY <1>3 DEF FilledAt
  <2>2. IsFiniteSet(1..Len(body))
    BY <1>3, FS_Interval
  <2> HIDE DEF F
  <2> QED
    BY <2>1, <2>2, FS_Subset
<1>5. \A k \in 1..Len(body) : body[k] # Text(Blank) => k \in F
  BY DEF FilledAt
<1>6. fl = Picked(body, F)
  BY <1>3 DEF Filled, FilledAt
<1> HIDE DEF F, fl
<1>7. Lists(a, n, F)
  BY <1>4, AscendingIsAList
<1> HIDE DEF a, n
<1>8. fl = [j \in 1..n |-> body[a[j]]]
  <2>1. Picked(body, F) = [j \in 1..n |-> body[a[j]]]
    BY <1>4, <1>7, PickedByAList
  <2> QED
    BY <1>6, <2>1
<1>9. /\ n \in Nat /\ \A j \in 1..n : a[j] \in F /\ a[j] \in 1..Len(body)
      /\ \A j, k \in 1..n : j < k => a[j] < a[k]
      /\ \A i \in F : \E j \in 1..n : a[j] = i
  BY <1>4, <1>7 DEF Lists
<1>10. /\ DOMAIN own = 1 .. 1 + n /\ own[1] = name
       /\ \A j \in 1..n : own[1 + j] = body[a[j]]
  <2>1. Len(fl) = n
    BY <1>8, <1>9
  <2>2. IsList(fl)
    BY <1>8, <1>9, <2>1 DEF IsList
  <2>3. \A j \in 1..n : fl[j] = body[a[j]]
    BY <1>8
  <2>4. /\ DOMAIN own = 1 .. 1 + Len(fl) /\ own[1] = name
        /\ \A j \in 1..Len(fl) : own[1 + j] = fl[j]
    BY <2>2, NameInFront
  <2> HIDE DEF own
  <2> QED
    BY <2>1, <2>3, <2>4
<1> HIDE DEF own

\* Line j of own is line g[j] of the block, and no other line says anything.
<1> DEFINE g == [j \in 1 .. 1 + n |-> IF j = 1 THEN 1 ELSE 1 + a[j - 1]]
<1>11. \A j \in 1 .. 1 + n : /\ g[j] \in 1 .. 1 + Len(body) /\ text[g[j]] = own[j]
  <2> SUFFICES ASSUME NEW j \in 1 .. 1 + n
      PROVE g[j] \in 1 .. 1 + Len(body) /\ text[g[j]] = own[j]
    OBVIOUS
  <2>1. CASE j = 1
    BY <1>1, <1>3, <1>10, <2>1
  <2>2. CASE j # 1
    <3>1. j - 1 \in 1..n /\ 1 + (j - 1) = j /\ g[j] = 1 + a[j - 1]
      BY <1>9, <2>2
    <3>2. a[j - 1] \in 1..Len(body) /\ own[j] = body[a[j - 1]]
      <4>1. own[1 + (j - 1)] = body[a[j - 1]]
        BY <1>10, <3>1
      <4> QED
        BY <1>9, <3>1, <4>1
    <3> HIDE DEF g
    <3> QED
      BY <1>1, <1>3, <3>1, <3>2
  <2> QED
    BY <2>1, <2>2
<1>12. \A j, k \in 1 .. 1 + n : j < k => g[j] < g[k]
  <2> SUFFICES ASSUME NEW j \in 1 .. 1 + n, NEW k \in 1 .. 1 + n, j < k
      PROVE g[j] < g[k]
    OBVIOUS
  <2>1. k # 1 /\ k - 1 \in 1..n /\ g[k] = 1 + a[k - 1] /\ a[k - 1] \in 1..Len(body)
    BY <1>9
  <2>2. CASE j = 1
    BY <1>3, <2>1, <2>2
  <2>3. CASE j # 1
    <3>1. j - 1 \in 1..n /\ j - 1 < k - 1 /\ g[j] = 1 + a[j - 1]
          /\ a[j - 1] \in 1..Len(body)
      BY <1>9, <2>3
    <3>2. a[j - 1] < a[k - 1]
      BY <1>9, <2>1, <3>1
    <3> HIDE DEF g
    <3> QED
      BY <1>3, <2>1, <3>1, <3>2
  <2> QED
    BY <2>2, <2>3
<1>13. \A i \in 1 .. 1 + Len(body) : text[i] # Text(Blank) \/ i = 1
                                       => \E j \in 1 .. 1 + n : g[j] = i
  <2> SUFFICES ASSUME NEW i \in 1 .. 1 + Len(body), text[i] # Text(Blank) \/ i = 1
      PROVE \E j \in 1 .. 1 + n : g[j] = i
    OBVIOUS
  <2>1. CASE i = 1
    BY <1>9, <2>1
  <2>2. CASE i # 1
    <3>1. i - 1 \in 1..Len(body) /\ 1 + (i - 1) = i
      BY <1>3, <2>2
    <3>2. i - 1 \in F
      <4>1. text[1 + (i - 1)] = body[i - 1]
        BY <1>1, <3>1
      <4> QED
        BY <1>5, <2>2, <3>1, <4>1
    <3>3. PICK j \in 1..n : a[j] = i - 1
      BY <1>9, <3>2
    <3>4. j + 1 \in 1 .. 1 + n /\ j + 1 # 1 /\ (j + 1) - 1 = j
      BY <1>9
    <3>5. g[j + 1] = 1 + a[j]
      BY <3>4
    <3> QED
      BY <3>1, <3>3, <3>4, <3>5
  <2> QED
    BY <2>1, <2>2
<1> HIDE DEF g
<1>14. \A i \in 1 .. 1 + Len(body) : Complete(text[i].value)
  <2> SUFFICES ASSUME NEW i \in 1 .. 1 + Len(body) PROVE Complete(text[i].value)
    OBVIOUS
  <2>1. CASE i = 1
    BY <1>0, <1>1, <2>1
  <2>2. CASE i # 1
    <3>1. i - 1 \in 1..Len(body) /\ 1 + (i - 1) = i
      BY <1>3, <2>2
    <3>2. text[i] = body[i - 1]
      BY <1>1, <3>1
    <3> QED
      BY <3>1, <3>2
  <2> QED
    BY <2>1, <2>2
<1>15. ASSUME NEW i \in 1 .. 1 + Len(body)
       PROVE  /\ MatchesOn(text, i, field) = Saying(text[i], field)
              /\ \A k \in Saying(text[i], field) :
                   Reading(text, i, k, field) = Says(text[i], k, field)
              /\ Saying(text[i], field) \in SUBSET Nat
  BY <1>1, <1>14, ReadingSays
<1>16. Saying(Text(Blank), field) = {}
  <2>1. Text(Blank).value = Blank /\ DOMAIN Mentions[Blank] = {}
    <3>1. DOMAIN <<>> = {}
      OBVIOUS
    <3> QED
      BY <3>1, MentionsAssumption DEF Text
  <2> QED
    BY <2>1 DEF Saying
<1>17. \A i : i \in found <=> i \in 1 .. 1 + Len(body) /\ Saying(text[i], field) # {}
  BY <1>1, <1>15
<1>18. \A j : j \in rows <=> j \in 1 .. 1 + n /\ g[j] \in found
  <2>1. \A j : j \in rows <=> j \in 1 .. 1 + n /\ Saying(own[j], field) # {}
    BY <1>10
  <2> HIDE DEF found, rows
  <2> QED
    BY <1>11, <1>17, <2>1
<1>19. \A i \in found : \E j \in rows : g[j] = i
  <2> SUFFICES ASSUME NEW i \in found PROVE \E j \in rows : g[j] = i
    OBVIOUS
  <2> HIDE DEF found, rows
  <2>1. i \in 1 .. 1 + Len(body) /\ text[i] # Text(Blank)
    BY <1>16, <1>17
  <2>2. PICK j \in 1 .. 1 + n : g[j] = i
    BY <1>13, <2>1
  <2> QED
    BY <1>18, <2>2
<1>20. Field(text, field) = IF found = {} THEN Text(Blank)
                           ELSE Reading(text, Min(found), Min(MatchesOn(text, Min(found), field)), field)
  BY DEF Field
<1>21. FirstSaid(own, field) = IF rows = {} THEN Text(Blank)
                              ELSE Says(own[Min(rows)], Min(Saying(own[Min(rows)], field)), field)
  BY DEF FirstSaid
<1> HIDE DEF found, rows
<1>22. rows \in SUBSET Nat /\ found \in SUBSET Nat
  BY <1>3, <1>9, <1>17, <1>18
<1>23. ASSUME found = {} PROVE Field(text, field) = FirstSaid(own, field)
  <2>1. rows = {}
    BY <1>18, <1>23
  <2> QED
    BY <1>20, <1>21, <1>23, <2>1
<1>24. ASSUME found # {} PROVE Field(text, field) = FirstSaid(own, field)
  <2> DEFINE m == Min(rows)
             f == Min(found)
             M == Saying(own[m], field)
  <2>1. rows # {}
    BY <1>19, <1>24
  <2>2. m \in rows /\ \A j \in rows : m <= j
    BY <1>22, <2>1, Smallest
  <2>3. f \in found /\ \A i \in found : f <= i
    BY <1>22, <1>24, Smallest
  <2>4. Field(text, field) = Reading(text, f, Min(MatchesOn(text, f, field)), field)
    BY <1>20, <1>24
  <2>5. FirstSaid(own, field) = Says(own[m], Min(M), field)
    BY <1>21, <2>1
  <2> HIDE DEF m, f, M
  <2>6. PICK j \in rows : g[j] = f
    BY <1>19, <2>3
  <2>7. j = m
    <3>1. g[m] \in found /\ j \in 1 .. 1 + n /\ m \in 1 .. 1 + n
      BY <1>18, <2>2
    <3>2. g[j] <= g[m] /\ m <= j /\ g[j] \in Nat /\ g[m] \in Nat
      BY <1>3, <1>11, <2>2, <2>3, <2>6, <3>1
    <3>3. m < j => g[m] < g[j]
      BY <1>12, <3>1
    <3> QED
      BY <1>9, <3>1, <3>2, <3>3
  <2>8. f \in 1 .. 1 + Len(body) /\ text[f] = own[m] /\ Saying(text[f], field) # {}
    BY <1>11, <1>17, <1>18, <2>3, <2>6, <2>7
  <2>9. /\ MatchesOn(text, f, field) = M /\ M # {} /\ M \in SUBSET Nat
        /\ \A k \in M : Reading(text, f, k, field) = Says(own[m], k, field)
    <3>1. /\ MatchesOn(text, f, field) = Saying(text[f], field)
          /\ \A k \in Saying(text[f], field) :
               Reading(text, f, k, field) = Says(text[f], k, field)
          /\ Saying(text[f], field) \in SUBSET Nat
      BY <1>15, <2>8
    <3> QED
      BY <2>8, <3>1 DEF M
  <2>10. Min(M) \in M
    BY <2>9, Smallest
  <2> QED
    BY <2>4, <2>5, <2>9, <2>10
<1>25. Field(text, field) = FirstSaid(own, field)
  BY <1>23, <1>24
<1> QED
  BY <1>25 DEF text, own, fl, name

----------------------------------------------------------------------------
(***************************************************************************)
(* In a profile that keeps to the schema every section is named by at most *)
(* one line, and it is what stands between that line and the next section. *)
(***************************************************************************)
SectionLines(doc, s) == {h \in DOMAIN doc : doc[h] = [mark |-> "h2", value |-> s]}

\* What keeping to the schema says of single lines.
LEMMA SchemaFacts ==
  ASSUME NEW doc \in Seq(Line), KeepsSchema(doc)
  PROVE  /\ IsList(doc)
         /\ \A i \in 1..Len(doc) :
              /\ doc[i] \in Line /\ doc[i] = [mark |-> doc[i].mark, value |-> doc[i].value]
              /\ doc[i].mark # "text" => doc[i].value # Blank
              /\ Complete(doc[i].value)
         /\ \A i, j \in 1..Len(doc) :
              doc[i].mark = "h2" /\ doc[i] = doc[j] => i = j
         /\ \A mark : mark # "text" => Valued(doc, mark)
<1>1. Len(doc) \in Nat /\ DOMAIN doc = 1..Len(doc) /\ doc \in [1..Len(doc) -> Line]
  BY LenProperties
<1>2. IsList(doc)
  BY <1>1 DEF IsList
<1>3. \A i \in 1..Len(doc) : doc[i] \in Line
  BY <1>1
<1>4. \A i \in 1..Len(doc) : doc[i] = [mark |-> doc[i].mark, value |-> doc[i].value]
  BY <1>3, LineAssumption
<1>5. \A i \in 1..Len(doc) : doc[i].mark # "text" => doc[i].value # Blank
  BY <1>1 DEF KeepsSchema
<1>6. \A i, j \in 1..Len(doc) : doc[i].mark = "h2" /\ doc[i] = doc[j] => i = j
  BY <1>1 DEF KeepsSchema
<1>7. \A mark : mark # "text" => Valued(doc, mark)
  BY <1>5 DEF Valued
<1>8. \A i \in 1..Len(doc) : Complete(doc[i].value)
  <2>1. \A i \in 1..Len(doc) : doc[i].value \in Value
    BY <1>3, LineAssumption
  <2>2. \A i \in 1..Len(doc) : \A k \in DOMAIN Mentions[doc[i].value] :
          Mentions[doc[i].value][k].rest # Blank
    BY <1>1 DEF KeepsSchema
  <2> QED
    BY <2>1, <2>2 DEF Complete
<1> QED
  BY <1>2, <1>3, <1>4, <1>5, <1>6, <1>7, <1>8

\* The section with the name s, if there is one.
LEMMA TheSection ==
  ASSUME NEW doc \in Seq(Line), KeepsSchema(doc), NEW s \in ToSet(SectionOrder)
  PROVE  LET h == Headings(doc, "h2")
             n == LastNamed(h, s)
         IN  /\ s \in DOMAIN Sections(doc) <=> \E g : g \in SectionLines(doc, s)
             /\ s \in DOMAIN Sections(doc) =>
                  /\ n \in 1..Len(h) /\ DOMAIN h = 1..Len(h)
                  /\ Sections(doc)[s] = BodyOf(doc, h, n)
                  /\ h[n].start \in 1..Len(doc)
                  /\ doc[h[n].start].mark = "h2" /\ doc[h[n].start].value = s
                  /\ \A g : g \in SectionLines(doc, s) <=> g = h[n].start
<1> DEFINE h == Headings(doc, "h2")
           n == LastNamed(h, s)
<1>1. /\ IsList(doc) /\ Valued(doc, "h2") /\ Len(doc) \in Nat /\ DOMAIN doc = 1..Len(doc)
      /\ \A i \in 1..Len(doc) : doc[i] = [mark |-> doc[i].mark, value |-> doc[i].value]
      /\ \A i, j \in 1..Len(doc) : doc[i].mark = "h2" /\ doc[i] = doc[j] => i = j
  <2>1. /\ IsList(doc) /\ \A mark : mark # "text" => Valued(doc, mark)
        /\ \A i \in 1..Len(doc) : doc[i] = [mark |-> doc[i].mark, value |-> doc[i].value]
        /\ \A i, j \in 1..Len(doc) : doc[i].mark = "h2" /\ doc[i] = doc[j] => i = j
    BY SchemaFacts
  <2>2. Valued(doc, "h2")
    BY <2>1
  <2> QED
    BY <2>1, <2>2 DEF IsList
<1>2. /\ Len(h) \in Nat /\ DOMAIN h = 1..Len(h)
      /\ Lists(Starts(h), Len(h), Marked(doc, "h2"))
      /\ \A m \in 1..Len(h) :
           /\ h[m].start \in Marked(doc, "h2")
           /\ h[m].name = Text(doc[h[m].start].value)
  BY <1>1, HeadingsAreMarked
<1>3. /\ s \in DOMAIN Sections(doc) <=> \E m \in DOMAIN h : h[m].name = Text(s)
      /\ s \in DOMAIN Sections(doc) =>
           /\ n \in DOMAIN h /\ h[n].name = Text(s)
           /\ Sections(doc)[s] = BodyOf(doc, h, n)
  BY <1>1, SectionsAreBodies
<1> HIDE DEF h
<1>4. \A m \in 1..Len(h) :
        /\ h[m].start \in 1..Len(doc) /\ doc[h[m].start].mark = "h2"
        /\ h[m].name = Text(s) <=> doc[h[m].start].value = s
  <2>1. \A v, w : Text(v) = Text(w) <=> v = w
    BY DEF Text
  <2> SUFFICES ASSUME NEW m \in 1..Len(h)
      PROVE  /\ h[m].start \in 1..Len(doc) /\ doc[h[m].start].mark = "h2"
             /\ h[m].name = Text(s) <=> doc[h[m].start].value = s
    OBVIOUS
  <2> DEFINE g == h[m].start
  <2>2. g \in Marked(doc, "h2") /\ h[m].name = Text(doc[g].value)
    BY <1>2
  <2> HIDE DEF g
  <2>3. g \in 1..Len(doc) /\ doc[g].mark = "h2"
    BY <2>2 DEF Marked
  <2> QED
    BY <2>1, <2>2, <2>3 DEF g
<1>5. \A m \in 1..Len(h) : h[m].name = Text(s) => h[m].start \in SectionLines(doc, s)
  <2> SUFFICES ASSUME NEW m \in 1..Len(h), h[m].name = Text(s)
      PROVE  h[m].start \in SectionLines(doc, s)
    OBVIOUS
  <2> DEFINE g == h[m].start
  <2>1. g \in 1..Len(doc) /\ doc[g].mark = "h2" /\ doc[g].value = s
    BY <1>4
  <2> HIDE DEF g
  <2>2. doc[g] = [mark |-> "h2", value |-> s]
    BY <1>1, <2>1
  <2>3. g \in SectionLines(doc, s)
    BY <1>1, <2>1, <2>2 DEF SectionLines
  <2> QED
    BY <2>3 DEF g
<1>6. \A g \in SectionLines(doc, s) :
        /\ g \in 1..Len(doc) /\ doc[g].mark = "h2" /\ doc[g].value = s
        /\ \E m \in 1..Len(h) : h[m].start = g /\ h[m].name = Text(s)
  <2> SUFFICES ASSUME NEW g \in SectionLines(doc, s)
      PROVE  /\ g \in 1..Len(doc) /\ doc[g].mark = "h2" /\ doc[g].value = s
             /\ \E m \in 1..Len(h) : h[m].start = g /\ h[m].name = Text(s)
    OBVIOUS
  <2>1. g \in 1..Len(doc) /\ doc[g].mark = "h2" /\ doc[g].value = s
    BY <1>1 DEF SectionLines
  <2>2. PICK m \in 1..Len(h) : Starts(h)[m] = g
    BY <1>2, <2>1 DEF Lists, Marked
  <2>3. h[m].start = g
    BY <2>2 DEF Starts
  <2> QED
    BY <1>4, <2>1, <2>3
<1>7. s \in DOMAIN Sections(doc) <=> \E g : g \in SectionLines(doc, s)
  BY <1>2, <1>3, <1>5, <1>6
<1>8. ASSUME s \in DOMAIN Sections(doc)
      PROVE  /\ n \in 1..Len(h) /\ Sections(doc)[s] = BodyOf(doc, h, n)
             /\ h[n].start \in 1..Len(doc)
             /\ doc[h[n].start].mark = "h2" /\ doc[h[n].start].value = s
             /\ \A g : g \in SectionLines(doc, s) <=> g = h[n].start
  <2>1. n \in 1..Len(h) /\ h[n].name = Text(s) /\ Sections(doc)[s] = BodyOf(doc, h, n)
    BY <1>2, <1>3, <1>8
  <2> HIDE DEF n
  <2> DEFINE k == h[n].start
  <2>2. /\ k \in 1..Len(doc) /\ doc[k].mark = "h2" /\ doc[k].value = s
        /\ k \in SectionLines(doc, s)
    BY <1>4, <1>5, <2>1
  <2> HIDE DEF k
  <2>3. ASSUME NEW g \in SectionLines(doc, s) PROVE g = k
    <3>1. g \in 1..Len(doc) /\ doc[g].mark = "h2" /\ doc[g].value = s
      BY <1>6
    <3>2. doc[g] = doc[k]
      BY <1>1, <2>2, <3>1
    <3> QED
      BY <1>1, <2>2, <3>1, <3>2
  <2> QED
    BY <2>1, <2>2, <2>3 DEF k
<1> QED
  BY <1>2, <1>7, <1>8 DEF h

(***************************************************************************)
(* The filled lines under a heading.                                       *)
(***************************************************************************)
LEMMA LinesUnderAre ==
  ASSUME NEW doc, IsList(doc), NEW g, NEW P \in SUBSET (1..Len(doc)),
         \A i \in 1..Len(doc) :
           i \in P <=> /\ doc[i].mark \notin {doc[g].mark, "h2"}
                       /\ IsNearest(doc, i, {doc[g].mark, "h2"}, g)
  PROVE  LinesUnder(doc, g) = Picked(doc, FilledAt(doc, P))
<1> DEFINE marks == {doc[g].mark, "h2"}
           R == {i \in DOMAIN doc : /\ doc[i] # Text(Blank)
                                    /\ doc[i].mark \notin marks
                                    /\ Nearest(doc, i, marks) = g}
<1>1. DOMAIN doc = 1..Len(doc) /\ \A i \in 1..Len(doc) : i \in Nat \ {0}
  BY DEF IsList
<1>2. \A i \in 1..Len(doc) :
        i \in P <=> doc[i].mark \notin marks /\ IsNearest(doc, i, marks, g)
  OBVIOUS
<1> HIDE DEF marks
<1>3. \A i \in 1..Len(doc) : Nearest(doc, i, marks) = g <=> IsNearest(doc, i, marks, g)
  BY <1>1, NearestIs
<1>4. \A i : i \in R <=> i \in P /\ doc[i] # Text(Blank)
  BY <1>1, <1>2, <1>3
<1>5. R = FilledAt(doc, P)
  BY <1>4 DEF FilledAt
<1>6. LinesUnder(doc, g) = Picked(doc, R)
  BY DEF LinesUnder, marks
<1> QED
  BY <1>5, <1>6

----------------------------------------------------------------------------
(***************************************************************************)
(* What is expected of a section, row by row.                              *)
(***************************************************************************)
Shown(c) == [name |-> c.name, lines |-> Filled(c.body), tags |-> c.stack_tags,
             depth |-> c.depth_level, period |-> c.period]
Blocks(doc, s) == {h \in DOMAIN doc : /\ doc[h].mark = "h3"
                                      /\ Nearest(doc, h, {"h2"}) \in SectionLines(doc, s)}
Rows(doc, s) ==
  IF s \in DOMAIN SplitSections THEN Blocks(doc, s) ELSE SectionLines(doc, s)
ExpectedRow(doc, s, h) ==
  LET name == Text(doc[h].value)
      own == LinesUnder(doc, h)
      all == <<name>> \o own
      none == Text(Blank)
  IN  [name |-> name, lines |-> own,
       tags |-> IF s \in DOMAIN SplitSections THEN FirstSaid(all, "stack") ELSE none,
       depth |-> IF s = "skills" THEN FirstSaid(all, "depth") ELSE none,
       period |-> IF s = "experience" THEN FirstSaid(all, "period") ELSE none]

\* What is expected, from any list of the rows.
LEMMA ExpectedByAList ==
  ASSUME NEW doc, NEW s, Rows(doc, s) \in SUBSET Nat,
         NEW m, NEW e, Lists(e, m, Rows(doc, s))
  PROVE  Expected(doc, s) = [n \in 1..m |-> ExpectedRow(doc, s, e[n])]
<1> DEFINE rows == Ascending(Rows(doc, s))
<1>1. rows = e
  BY AscendingIsTheList
<1>2. DOMAIN e = 1..m
  BY DEF Lists
<1>3. Expected(doc, s) = [n \in DOMAIN rows |-> ExpectedRow(doc, s, rows[n])]
  BY DEF Expected, ExpectedRow, Rows, Blocks, SectionLines
<1> HIDE DEF rows
<1> QED
  BY <1>1, <1>2, <1>3

\* The six sections: whole or split, each with a type of its own.
LEMMA KindsOfSections ==
  /\ DOMAIN WholeSections = {"identity", "achievements", "certifications"}
  /\ DOMAIN SplitSections = {"skills", "projects", "experience"}
  /\ ToSet(SectionOrder) = DOMAIN WholeSections \cup DOMAIN SplitSections
  /\ \A s \in DOMAIN WholeSections : s \notin DOMAIN SplitSections
  /\ \A s \in DOMAIN SplitSections :
       /\ SplitSections[s] = "skill" <=> s = "skills"
       /\ SplitSections[s] = "experience" <=> s = "experience"
  /\ \A s, t \in ToSet(SectionOrder) : TypeOf(s) = TypeOf(t) => s = t
<1>1. DOMAIN WholeSections = {"identity", "achievements", "certifications"}
  BY DEF WholeSections
<1>2. DOMAIN SplitSections = {"skills", "projects", "experience"}
  BY DEF SplitSections
<1>3. ToSet(SectionOrder) = {"identity", "achievements", "certifications",
                             "skills", "projects", "experience"}
  <2>1. \A i \in 1..6 : i = 1 \/ i = 2 \/ i = 3 \/ i = 4 \/ i = 5 \/ i = 6
    OBVIOUS
  <2> QED
    BY <2>1 DEF ToSet, SectionOrder
<1>4. \A s \in DOMAIN SplitSections :
        /\ SplitSections[s] = "skill" <=> s = "skills"
        /\ SplitSections[s] = "experience" <=> s = "experience"
  BY DEF SplitSections
<1>5. /\ TypeOf("identity") = "identity" /\ TypeOf("achievements") = "achievement"
      /\ TypeOf("certifications") = "certification"
  BY DEF TypeOf, WholeSections
<1>6. /\ TypeOf("skills") = "skill" /\ TypeOf("projects") = "project"
      /\ TypeOf("experience") = "experience"
  BY DEF TypeOf, WholeSections, SplitSections
<1>7. \A s, t \in ToSet(SectionOrder) : TypeOf(s) = TypeOf(t) => s = t
  BY <1>3, <1>5, <1>6
<1>8. ToSet(SectionOrder) = DOMAIN WholeSections \cup DOMAIN SplitSections
  BY <1>1, <1>2, <1>3
<1>9. \A s \in DOMAIN WholeSections : s \notin DOMAIN SplitSections
  BY <1>1, <1>2
<1> QED
  BY <1>1, <1>2, <1>4, <1>7, <1>8, <1>9

(***************************************************************************)
(* A section that is not written has no chunk, and one that is a single    *)
(* chunk has all its lines in it.                                          *)
(***************************************************************************)
LEMMA AbsentSectionAsWritten ==
  ASSUME NEW doc \in Seq(Line), KeepsSchema(doc), NEW s \in ToSet(SectionOrder),
         s \notin DOMAIN Sections(doc)
  PROVE  LET C == SectionChunks(doc, s)
         IN  C = <<>> /\ Expected(doc, s) = [n \in 1..Len(C) |-> Shown(C[n])]
<1> DEFINE C == SectionChunks(doc, s)
           R == Rows(doc, s)
<1>1. C = <<>>
  BY DEF SectionChunks
<1>2. \A g : g \notin SectionLines(doc, s)
  BY TheSection
<1>3. \A g : g \notin R
  BY <1>2 DEF Rows, Blocks
<1> HIDE DEF C, R
<1> DEFINE e == [j \in 1..0 |-> 0]
<1>4. 1..0 = {}
  OBVIOUS
<1>5. Lists(e, 0, R) /\ R \in SUBSET Nat
  BY <1>3, <1>4 DEF Lists
<1> HIDE DEF e
<1>6. Expected(doc, s) = [n \in 1..0 |-> ExpectedRow(doc, s, e[n])]
  BY <1>5, ExpectedByAList DEF R
<1>7. Len(C) = 0
  BY <1>1
<1>8. [n \in 1..0 |-> ExpectedRow(doc, s, e[n])] = [n \in 1..0 |-> Shown(C[n])]
  BY <1>4
<1> QED
  BY <1>1, <1>6, <1>7, <1>8 DEF C

\* A section that is one chunk has all its lines in it.
LEMMA WholeSectionAsWritten ==
  ASSUME NEW doc \in Seq(Line), KeepsSchema(doc), NEW s \in DOMAIN WholeSections,
         s \in DOMAIN Sections(doc)
  PROVE  LET C == SectionChunks(doc, s)
         IN  Expected(doc, s) = [n \in 1..Len(C) |-> Shown(C[n])]
<1> DEFINE C == SectionChunks(doc, s)
           h == Headings(doc, "h2")
           n == LastNamed(h, s)
           g == h[n].start
           P == Between(doc, h, n)
           body == Sections(doc)[s]
<1>0. s \in ToSet(SectionOrder) /\ s \notin DOMAIN SplitSections
      /\ s # "skills" /\ s # "experience"
  BY KindsOfSections
<1>1. /\ IsList(doc) /\ Valued(doc, "h2") /\ Len(doc) \in Nat
  <2>1. IsList(doc) /\ \A mark : mark # "text" => Valued(doc, mark)
    BY SchemaFacts
  <2>2. Valued(doc, "h2")
    BY <2>1
  <2> QED
    BY <2>1, <2>2 DEF IsList
<1>2. /\ n \in 1..Len(h) /\ n \in DOMAIN h /\ body = BodyOf(doc, h, n)
      /\ g \in 1..Len(doc) /\ doc[g].mark = "h2" /\ doc[g].value = s
      /\ \A k : k \in SectionLines(doc, s) <=> k = g
  BY <1>0, TheSection
<1>3. LinesUnder(doc, g) = Picked(doc, FilledAt(doc, P))
  <2>1. P \in SUBSET (1..Len(doc))
    BY <1>1, <1>2, BodiesLieBetween
  <2>2. \A i \in 1..Len(doc) :
          i \in P <=> doc[i].mark # "h2" /\ IsNearest(doc, i, {"h2"}, g)
    BY <1>1, <1>2, NearestIsBetween
  <2> HIDE DEF P, g
  <2>3. {doc[g].mark, "h2"} = {"h2"}
    BY <1>2
  <2>4. \A i \in 1..Len(doc) :
          i \in P <=> /\ doc[i].mark \notin {doc[g].mark, "h2"}
                      /\ IsNearest(doc, i, {doc[g].mark, "h2"}, g)
    BY <2>2, <2>3
  <2> QED
    BY <1>1, <2>1, <2>4, LinesUnderAre
<1>4. Filled(body) = Picked(doc, FilledAt(doc, P))
  <2>1. IsList(body) /\ P \in SUBSET Nat
    <3>1. IsList(body) /\ P \in SUBSET (1..Len(doc))
      BY <1>1, <1>2, BodiesLieBetween
    <3> HIDE DEF P, body
    <3> QED
      BY <1>1, <3>1
  <2>2. PICK o \in Int :
          /\ Stretch(body, doc, P, o)
          /\ \A i \in P : doc[i] # Text(Blank) => i - o \in 1..Len(body)
    BY <1>1, <1>2, BodyKeepsFilled
  <2> HIDE DEF P, body
  <2> QED
    BY <2>1, <2>2, FilledOfAStretch
<1> HIDE DEF g, P, body
<1>5. C = <<Chunk(WholeSections[s], Text(s), body, Text(Blank),
                  Text(Blank), Text(Blank))>>
  BY DEF SectionChunks, body
<1> HIDE DEF C
<1>6. Len(C) = 1 /\ Shown(C[1]) = ExpectedRow(doc, s, g)
  <2> DEFINE c == Chunk(WholeSections[s], Text(s), body, Text(Blank),
                        Text(Blank), Text(Blank))
  <2>1. /\ c.name = Text(s) /\ c.body = body /\ c.stack_tags = Text(Blank)
        /\ c.depth_level = Text(Blank) /\ c.period = Text(Blank)
    BY DEF Chunk
  <2>2. C = <<c>>
    BY <1>5
  <2> HIDE DEF c
  <2>3. Len(C) = 1 /\ C[1] = c
    BY <2>2
  <2>4. ExpectedRow(doc, s, g) =
          [name |-> Text(s), lines |-> Filled(body), tags |-> Text(Blank),
           depth |-> Text(Blank), period |-> Text(Blank)]
    BY <1>0, <1>2, <1>3, <1>4 DEF ExpectedRow
  <2>5. Shown(c) = [name |-> Text(s), lines |-> Filled(body), tags |-> Text(Blank),
                    depth |-> Text(Blank), period |-> Text(Blank)]
    BY <2>1 DEF Shown
  <2> QED
    BY <2>3, <2>4, <2>5
<1> DEFINE e == [j \in 1..1 |-> g]
<1>7. Lists(e, 1, Rows(doc, s)) /\ Rows(doc, s) \in SUBSET Nat
  <2> DEFINE R == Rows(doc, s)
  <2>1. \A k : k \in R <=> k = g
    BY <1>0, <1>2 DEF Rows
  <2> HIDE DEF R
  <2>2. e \in [1..1 -> R] /\ \A i \in R : \E j \in 1..1 : e[j] = i
    BY <2>1
  <2>3. R \in SUBSET Nat
    BY <1>2, <2>1
  <2> QED
    BY <2>2, <2>3 DEF Lists, R
<1>8. Expected(doc, s) = [k \in 1..1 |-> ExpectedRow(doc, s, e[k])]
  <2> HIDE DEF e
  <2>1. \A m, a : Lists(a, m, Rows(doc, s)) =>
          Expected(doc, s) = [k \in 1..m |-> ExpectedRow(doc, s, a[k])]
    BY <1>7, ExpectedByAList
  <2> QED
    BY <1>7, <2>1
<1>9. [k \in 1..1 |-> ExpectedRow(doc, s, e[k])] = [k \in 1..1 |-> Shown(C[k])]
  BY <1>6
<1> QED
  BY <1>6, <1>8, <1>9 DEF C

----------------------------------------------------------------------------
(***************************************************************************)
(* In a section b, which stands at o in doc between the heading at t and   *)
(* the next, the body of a block is what stands under its heading in doc.  *)
(***************************************************************************)
LEMMA NearestInASection ==
  ASSUME NEW doc, IsList(doc), NEW t, NEW P \in SUBSET (1..Len(doc)),
         \A i \in 1..Len(doc) :
           i \in P <=> doc[i].mark # "h2" /\ IsNearest(doc, i, {"h2"}, t),
         NEW b, IsList(b), NEW o \in Int, Stretch(b, doc, P, o),
         \A i \in P : doc[i] # Text(Blank) => i - o \in 1..Len(b),
         NEW start \in 1..Len(b), b[start].mark = "h3"
  PROVE  /\ \A i \in 1..Len(b) :
              b[i].mark # "h3" /\ IsNearest(b, i, {"h3"}, start) =>
                /\ o + i \in P /\ doc[o + i] = b[i]
                /\ doc[o + i].mark \notin {"h3", "h2"}
                /\ IsNearest(doc, o + i, {"h3", "h2"}, o + start)
         /\ \A r \in 1..Len(doc) :
              /\ doc[r] # Text(Blank) /\ doc[r].mark \notin {"h3", "h2"}
              /\ IsNearest(doc, r, {"h3", "h2"}, o + start)
              => /\ r - o \in 1..Len(b) /\ b[r - o] = doc[r]
                 /\ IsNearest(b, r - o, {"h3"}, start)
<1>1. Len(doc) \in Nat /\ Len(b) \in Nat
  BY DEF IsList
<1>2. \A k \in 1..Len(b) : /\ o + k \in P /\ o + k \in 1..Len(doc)
                           /\ b[k] = doc[o + k] /\ doc[o + k].mark # "h2"
  BY DEF Stretch
<1>3. ASSUME NEW i \in 1..Len(b), b[i].mark # "h3", IsNearest(b, i, {"h3"}, start)
      PROVE  /\ o + i \in P /\ doc[o + i] = b[i]
             /\ doc[o + i].mark \notin {"h3", "h2"}
             /\ IsNearest(doc, o + i, {"h3", "h2"}, o + start)
  <2>1. /\ start \in 0..i - 1
        /\ \A k \in start + 1 .. i - 1 : b[k].mark # "h3"
    BY <1>3 DEF IsNearest
  <2>2. o + start \in 0 .. (o + i) - 1
    BY <1>1, <1>2, <2>1
  <2>3. doc[o + start].mark \in {"h3", "h2"}
    BY <1>2
  <2>4. ASSUME NEW k \in (o + start) + 1 .. (o + i) - 1
        PROVE  doc[k].mark \notin {"h3", "h2"}
    <3>1. k - o \in start + 1 .. i - 1 /\ k - o \in 1..Len(b) /\ o + (k - o) = k
      BY <1>1, <2>1
    <3>2. b[k - o].mark # "h3" /\ b[k - o] = doc[k] /\ doc[k].mark # "h2"
      BY <1>2, <2>1, <3>1
    <3> QED
      BY <3>2
  <2>5. IsNearest(doc, o + i, {"h3", "h2"}, o + start)
    BY <2>2, <2>3, <2>4 DEF IsNearest
  <2> QED
    BY <1>2, <1>3, <2>5
<1>4. ASSUME NEW r \in 1..Len(doc), doc[r] # Text(Blank),
             doc[r].mark \notin {"h3", "h2"},
             IsNearest(doc, r, {"h3", "h2"}, o + start)
      PROVE  /\ r - o \in 1..Len(b) /\ b[r - o] = doc[r]
             /\ IsNearest(b, r - o, {"h3"}, start)
  <2> DEFINE g == o + start
  <2>1. /\ g \in 0..r - 1
        /\ \A k \in g + 1 .. r - 1 : doc[k].mark \notin {"h3", "h2"}
    BY <1>4 DEF IsNearest
  <2>2. g \in P /\ g \in 1..Len(doc) /\ doc[g].mark = "h3"
    BY <1>2
  <2>3. g = o + start /\ g \in Int
    BY <1>1
  <2> HIDE DEF g
  <2>4. /\ t \in 0..g - 1 /\ (t = 0 \/ doc[t].mark \in {"h2"})
        /\ \A k \in t + 1 .. g - 1 : doc[k].mark # "h2"
    BY <2>2 DEF IsNearest
  <2>5. IsNearest(doc, r, {"h2"}, t)
    <3>1. t \in 0..r - 1
      BY <2>1, <2>2, <2>4
    <3>2. ASSUME NEW k \in t + 1 .. r - 1 PROVE doc[k].mark \notin {"h2"}
      <4>1. k \in t + 1 .. g - 1 \/ k = g \/ k \in g + 1 .. r - 1
        BY <2>1, <2>2, <2>4
      <4>2. k \in g + 1 .. r - 1 => doc[k].mark # "h2"
        BY <2>1
      <4> QED
        BY <2>2, <2>4, <4>1, <4>2
    <3> QED
      BY <2>4, <3>1, <3>2 DEF IsNearest
  <2>6. r \in P /\ r - o \in 1..Len(b)
    BY <1>4, <2>5
  <2>7. o + (r - o) = r /\ b[r - o] = doc[r]
    <3>1. o + (r - o) = r
      OBVIOUS
    <3> QED
      BY <1>2, <2>6, <3>1
  <2>8. start \in 0 .. (r - o) - 1
    BY <2>1, <2>3, <2>6
  <2>9. ASSUME NEW k \in start + 1 .. (r - o) - 1 PROVE b[k].mark \notin {"h3"}
    <3>1. k \in 1..Len(b) /\ o + k \in g + 1 .. r - 1
      BY <1>1, <2>3, <2>6
    <3>2. b[k] = doc[o + k] /\ doc[o + k].mark # "h3"
      BY <1>2, <2>1, <3>1
    <3> QED
      BY <3>2
  <2>10. IsNearest(b, r - o, {"h3"}, start)
    BY <2>8, <2>9 DEF IsNearest
  <2> QED
    BY <2>6, <2>7, <2>10
<1> QED
  BY <1>3, <1>4

\* The filled lines of a block are those under its heading in doc.
LEMMA BlockIsUnderItsHeading ==
  ASSUME NEW doc, IsList(doc), NEW t, NEW P \in SUBSET (1..Len(doc)),
         \A i \in 1..Len(doc) :
           i \in P <=> doc[i].mark # "h2" /\ IsNearest(doc, i, {"h2"}, t),
         NEW b, IsList(b), Valued(b, "h3"), NEW o \in Int, Stretch(b, doc, P, o),
         \A i \in P : doc[i] # Text(Blank) => i - o \in 1..Len(b),
         NEW j \in 1..Len(Headings(b, "h3"))
  PROVE  Filled(BodyOf(b, Headings(b, "h3"), j))
           = LinesUnder(doc, o + Headings(b, "h3")[j].start)
<1> DEFINE hh == Headings(b, "h3")
           start == hh[j].start
           g == o + start
           Q == Between(b, hh, j)
           body == BodyOf(b, hh, j)
           marks == {"h3", "h2"}
           P2 == {i \in 1..Len(doc) : doc[i].mark \notin marks /\ IsNearest(doc, i, marks, g)}
           S == FilledAt(b, Q)
           R == FilledAt(doc, P2)
<1>1. Len(doc) \in Nat /\ Len(b) \in Nat
  BY DEF IsList
<1>2. /\ DOMAIN hh = 1..Len(hh) /\ start \in Marked(b, "h3")
  BY <1>1, HeadingsAreMarked
<1>3. start \in 1..Len(b) /\ b[start].mark = "h3"
  BY <1>2 DEF Marked
<1>4. Q \in SUBSET (1..Len(b)) /\ IsList(body)
  BY <1>1, <1>2, BodiesLieBetween
<1>5. \A i \in 1..Len(b) : i \in Q <=> b[i].mark # "h3" /\ IsNearest(b, i, {"h3"}, start)
  BY <1>1, NearestIsBetween
<1>6. PICK u \in Int :
        /\ Stretch(body, b, Q, u)
        /\ \A i \in Q : b[i] # Text(Blank) => i - u \in 1..Len(body)
  BY <1>1, <1>2, BodyKeepsFilled
<1> HIDE DEF start, Q, body
<1>7. Filled(body) = Picked(b, S)
  <2>1. Q \in SUBSET Nat
    BY <1>1, <1>4
  <2> QED
    BY <1>4, <1>6, <2>1, FilledOfAStretch
<1>8. doc[g].mark = "h3"
  BY <1>3 DEF Stretch
<1>9. /\ \A i \in 1..Len(b) :
           b[i].mark # "h3" /\ IsNearest(b, i, {"h3"}, start) =>
             /\ o + i \in P /\ doc[o + i] = b[i]
             /\ doc[o + i].mark \notin marks /\ IsNearest(doc, o + i, marks, g)
      /\ \A r \in 1..Len(doc) :
           /\ doc[r] # Text(Blank) /\ doc[r].mark \notin marks
           /\ IsNearest(doc, r, marks, g)
           => /\ r - o \in 1..Len(b) /\ b[r - o] = doc[r]
              /\ IsNearest(b, r - o, {"h3"}, start)
  BY <1>3, NearestInASection
<1>10. marks = {doc[g].mark, "h2"} /\ "h3" \in marks
  BY <1>8
<1> HIDE DEF g, marks
<1>11. LinesUnder(doc, g) = Picked(doc, R)
  <2>1. /\ P2 \in SUBSET (1..Len(doc))
        /\ \A i \in 1..Len(doc) : i \in P2 <=> /\ doc[i].mark \notin {doc[g].mark, "h2"}
                                              /\ IsNearest(doc, i, {doc[g].mark, "h2"}, g)
    BY <1>10
  <2> HIDE DEF P2
  <2> QED
    BY <2>1, LinesUnderAre
<1>12. /\ \A i : i \in S <=> i \in Q /\ b[i] # Text(Blank)
       /\ \A r : r \in R <=> /\ r \in 1..Len(doc) /\ doc[r] # Text(Blank)
                             /\ doc[r].mark \notin marks /\ IsNearest(doc, r, marks, g)
  BY DEF FilledAt
<1> HIDE DEF S, R
<1>13. \A i \in S : o + i \in R /\ b[i] = doc[o + i]
  <2> SUFFICES ASSUME NEW i \in S PROVE o + i \in R /\ b[i] = doc[o + i]
    OBVIOUS
  <2>1. /\ i \in 1..Len(b) /\ b[i] # Text(Blank) /\ b[i].mark # "h3"
        /\ IsNearest(b, i, {"h3"}, start)
    BY <1>4, <1>5, <1>12
  <2>2. /\ o + i \in 1..Len(doc) /\ doc[o + i] = b[i]
        /\ doc[o + i].mark \notin marks /\ IsNearest(doc, o + i, marks, g)
    BY <1>9, <2>1
  <2> QED
    BY <1>12, <2>1, <2>2
<1>14. \A r \in R : r - o \in S
  <2> SUFFICES ASSUME NEW r \in R PROVE r - o \in S
    OBVIOUS
  <2>1. /\ r \in 1..Len(doc) /\ doc[r] # Text(Blank)
        /\ doc[r].mark \notin marks /\ IsNearest(doc, r, marks, g)
    BY <1>12
  <2>2. /\ r - o \in 1..Len(b) /\ b[r - o] = doc[r]
        /\ IsNearest(b, r - o, {"h3"}, start)
    BY <1>9, <2>1
  <2>3. r - o \in Q
    BY <1>5, <1>10, <2>1, <2>2
  <2> QED
    BY <1>12, <2>1, <2>2, <2>3
<1>15. S \in SUBSET Nat /\ IsFiniteSet(S) /\ R \in SUBSET Nat
  <2>1. S \in SUBSET (1..Len(b)) /\ R \in SUBSET (1..Len(doc))
    BY <1>4, <1>12
  <2>2. IsFiniteSet(1..Len(b))
    BY <1>1, FS_Interval
  <2>3. IsFiniteSet(S)
    BY <2>1, <2>2, FS_Subset
  <2> QED
    BY <1>1, <2>1, <2>3
<1>16. Picked(b, S) = Picked(doc, R)
  <2> DEFINE Same(x, y) == \A i \in S : x[i] = y[o + i]
  <2>1. \A i \in S : o + i \in R
    BY <1>13
  <2>2. Same(b, doc)
    BY <1>13
  <2>3. \A x, y : Same(x, y) => Picked(x, S) = Picked(y, R)
    BY <1>14, <1>15, <2>1, PickedShift
  <2> QED
    BY <2>2, <2>3
<1> QED
  BY <1>7, <1>11, <1>16 DEF body, g, start

\* A block's chunk shows its filled lines and what they state.
LEMMA BlockAsWritten ==
  ASSUME NEW type, NEW v, Complete(v), NEW body, IsList(body),
         \A k \in 1..Len(body) : Complete(body[k].value)
  PROVE  LET own == Filled(body)
             all == <<Text(v)>> \o own
             c == BlockChunk(type, [name |-> Text(v), body |-> body])
         IN  Shown(c) = [name |-> Text(v), lines |-> own,
                         tags |-> FirstSaid(all, "stack"),
                         depth |-> IF type = "skill" THEN FirstSaid(all, "depth") ELSE Text(Blank),
                         period |-> IF type = "experience" THEN FirstSaid(all, "period") ELSE Text(Blank)]
<1> DEFINE own == Filled(body)
           all == <<Text(v)>> \o own
           text == <<Text(v)>> \o body
           block == [name |-> Text(v), body |-> body]
           c == BlockChunk(type, block)
<1>1. \A field : Field(text, field) = FirstSaid(all, field)
  BY FirstFound
<1>2. /\ ExtractStackTags(text) = FirstSaid(all, "stack")
      /\ ExtractDepth(text) = FirstSaid(all, "depth")
      /\ ExtractPeriod(text) = FirstSaid(all, "period")
  <2> HIDE DEF text, all
  <2> QED
    BY <1>1 DEF ExtractStackTags, ExtractDepth, ExtractPeriod
<1>3. block.name = Text(v) /\ block.body = body /\ text = <<block.name>> \o block.body
  OBVIOUS
<1> HIDE DEF own, all, text, block
<1>4. /\ c.name = Text(v) /\ c.body = body /\ c.stack_tags = ExtractStackTags(text)
      /\ c.depth_level = IF type = "skill" THEN ExtractDepth(text) ELSE Text(Blank)
      /\ c.period = IF type = "experience" THEN ExtractPeriod(text) ELSE Text(Blank)
  BY <1>3 DEF BlockChunk, Chunk
<1> HIDE DEF c
<1>5. Shown(c) = [name |-> Text(v), lines |-> Filled(body),
                  tags |-> FirstSaid(all, "stack"),
                  depth |-> IF type = "skill" THEN FirstSaid(all, "depth") ELSE Text(Blank),
                  period |-> IF type = "experience" THEN FirstSaid(all, "period") ELSE Text(Blank)]
  BY <1>2, <1>4 DEF Shown
<1> QED
  BY <1>5 DEF c, own, all, block

(***************************************************************************)
(* The chunks of a split section are its blocks.                           *)
(***************************************************************************)
LEMMA SplitSectionAsWritten ==
  ASSUME NEW doc \in Seq(Line), KeepsSchema(doc), NEW s \in DOMAIN SplitSections,
         s \in DOMAIN Sections(doc)
  PROVE  LET C == SectionChunks(doc, s)
         IN  Expected(doc, s) = [n \in 1..Len(C) |-> Shown(C[n])]
<1> DEFINE C == SectionChunks(doc, s)
           h == Headings(doc, "h2")
           n == LastNamed(h, s)
           t == h[n].start
           P == Between(doc, h, n)
           b == Sections(doc)[s]
           hh == Headings(b, "h3")
           Body(j) == BodyOf(b, hh, j)
           type == SplitSections[s]
<1>0. /\ s \in ToSet(SectionOrder) /\ s \notin DOMAIN WholeSections
      /\ type = "skill" <=> s = "skills"
      /\ type = "experience" <=> s = "experience"
  BY KindsOfSections
<1>1. /\ IsList(doc) /\ Len(doc) \in Nat /\ DOMAIN doc = 1..Len(doc) /\ Valued(doc, "h2")
      /\ \A i \in 1..Len(doc) :
           /\ Complete(doc[i].value)
           /\ doc[i].mark # "text" => doc[i].value # Blank
  <2>1. /\ IsList(doc) /\ \A mark : mark # "text" => Valued(doc, mark)
        /\ \A i \in 1..Len(doc) :
             /\ Complete(doc[i].value)
             /\ doc[i].mark # "text" => doc[i].value # Blank
    BY SchemaFacts
  <2>2. Valued(doc, "h2")
    BY <2>1
  <2> QED
    BY <2>1, <2>2 DEF IsList
<1>2. /\ n \in 1..Len(h) /\ n \in DOMAIN h /\ b = BodyOf(doc, h, n)
      /\ t \in 1..Len(doc)
      /\ \A k : k \in SectionLines(doc, s) <=> k = t
  BY <1>0, TheSection
<1>3. /\ IsList(b) /\ P \in SUBSET (1..Len(doc))
      /\ \A i \in 1..Len(doc) : i \in P <=> doc[i].mark # "h2" /\ IsNearest(doc, i, {"h2"}, t)
  <2>1. IsList(b) /\ P \in SUBSET (1..Len(doc))
    BY <1>1, <1>2, BodiesLieBetween
  <2>2. \A i \in 1..Len(doc) :
          i \in P <=> doc[i].mark # "h2" /\ IsNearest(doc, i, {"h2"}, t)
    BY <1>1, <1>2, NearestIsBetween
  <2> QED
    BY <2>1, <2>2
<1>4. PICK o \in Int :
        /\ Stretch(b, doc, P, o)
        /\ \A i \in P : doc[i] # Text(Blank) => i - o \in 1..Len(b)
  BY <1>1, <1>2, BodyKeepsFilled
<1> HIDE DEF h, n, t, P, b
<1>5. Len(b) \in Nat /\ \A k \in 1..Len(b) : o + k \in P /\ o + k \in 1..Len(doc) /\ b[k] = doc[o + k]
  BY <1>3, <1>4 DEF IsList, Stretch
<1>6. \A k \in 1..Len(b) : Complete(b[k].value) /\ (b[k].mark # "text" => b[k].value # Blank)
  BY <1>1, <1>5
<1>7. Valued(b, "h3")
  BY <1>6 DEF Valued
<1>8. /\ Len(hh) \in Nat /\ DOMAIN hh = 1..Len(hh)
      /\ Lists(Starts(hh), Len(hh), Marked(b, "h3"))
      /\ \A j \in 1..Len(hh) : /\ hh[j].start \in Marked(b, "h3")
                               /\ hh[j].name = Text(b[hh[j].start].value)
  BY <1>5, <1>7, HeadingsAreMarked
<1>9. \A j \in 1..Len(hh) : Filled(Body(j)) = LinesUnder(doc, o + hh[j].start)
  <2> SUFFICES ASSUME NEW j \in 1..Len(hh)
      PROVE  Filled(Body(j)) = LinesUnder(doc, o + hh[j].start)
    OBVIOUS
  <2> QED
    BY <1>1, <1>3, <1>4, <1>7, BlockIsUnderItsHeading
<1>10. ASSUME NEW j \in 1..Len(hh)
       PROVE  /\ IsList(Body(j))
              /\ \A k \in 1..Len(Body(j)) : Complete(Body(j)[k].value)
  <2> DEFINE bb == Body(j)
             Q == Between(b, hh, j)
  <2>1. IsList(bb) /\ Q \in SUBSET (1..Len(b)) /\ \E u \in Int : Stretch(bb, b, Q, u)
    BY <1>5, <1>8, BodiesLieBetween
  <2> HIDE DEF bb, Q
  <2>2. \A k \in 1..Len(bb) : \E i \in 1..Len(b) : bb[k] = b[i]
    BY <2>1 DEF Stretch
  <2>3. \A k \in 1..Len(bb) : Complete(bb[k].value)
    BY <1>6, <2>2
  <2> QED
    BY <2>1, <2>3 DEF bb
<1>11. C = [j \in 1..Len(hh) |-> BlockChunk(type, [name |-> hh[j].name, body |-> Body(j)])]
  <2> DEFINE blocks == [j \in DOMAIN hh |-> [name |-> hh[j].name, body |-> Body(j)]]
  <2>1. SplitH3Blocks(b) = blocks
    BY DEF SplitH3Blocks
  <2>2. C = [j \in DOMAIN blocks |-> BlockChunk(type, blocks[j])]
    BY <1>0, <2>1 DEF SectionChunks, b
  <2> HIDE DEF C
  <2>3. DOMAIN blocks = 1..Len(hh)
    BY <1>8
  <2>4. \A j \in 1..Len(hh) : blocks[j] = [name |-> hh[j].name, body |-> Body(j)]
    BY <1>8
  <2> HIDE DEF blocks, Body, type
  <2> QED
    BY <2>2, <2>3, <2>4
<1> HIDE DEF C, hh, Body
<1>12. Len(C) = Len(hh)
  BY <1>8, <1>11
<1> DEFINE e == [j \in 1..Len(hh) |-> o + Starts(hh)[j]]
<1>13. Rows(doc, s) \in SUBSET Nat /\ Lists(e, Len(hh), Rows(doc, s))
  <2> DEFINE R == Rows(doc, s)
             S == Marked(b, "h3")
  <2>1. \A k : k \in R <=> k \in 1..Len(doc) /\ doc[k].mark = "h3"
                             /\ Nearest(doc, k, {"h2"}) = t
    BY <1>1, <1>2 DEF Rows, Blocks
  <2>2. \A k \in 1..Len(doc) : Nearest(doc, k, {"h2"}) = t <=> IsNearest(doc, k, {"h2"}, t)
    BY <1>1, NearestIs
  <2>3. \A k : k \in R <=> k \in P /\ doc[k].mark = "h3"
    BY <1>3, <2>1, <2>2
  <2>4. \A i : i \in S <=> i \in 1..Len(b) /\ b[i].mark = "h3"
    BY DEF Marked
  <2> HIDE DEF R, S
  <2>nat. \A k \in P : k \in Nat
    <3>1. \A k \in 1..Len(doc) : k \in Nat
      BY <1>1
    <3> QED
      BY <1>3, <3>1
  <2>5. \A i \in S : o + i \in R
    BY <1>5, <2>3, <2>4
  <2>6. \A r \in R : r - o \in S
    <3> SUFFICES ASSUME NEW r \in R PROVE r - o \in S
      OBVIOUS
    <3>1. r \in P /\ doc[r].mark = "h3" /\ doc[r] # Text(Blank) /\ r \in Nat
      <4>1. r \in P /\ doc[r].mark = "h3"
        BY <2>3
      <4>2. r \in Nat
        BY <2>nat, <4>1
      <4>3. doc[r] # Text(Blank)
        BY <4>1 DEF Text
      <4> QED
        BY <4>1, <4>2, <4>3
    <3>2. r - o \in 1..Len(b) /\ o + (r - o) = r
      BY <1>4, <3>1
    <3>3. b[r - o] = doc[r]
      BY <1>5, <3>2
    <3> QED
      BY <2>4, <3>1, <3>2, <3>3
  <2>7. S \in SUBSET Nat /\ R \in SUBSET Nat /\ R \in SUBSET Int
    <3>1. \A i \in S : i \in Nat
      BY <2>4
    <3>2. \A r \in R : r \in Nat
      BY <2>nat, <2>3
    <3>3. \A r \in R : r \in Int
      BY <3>2
    <3> QED
      BY <3>1, <3>2, <3>3
  <2>8. Lists(e, Len(hh), R)
    <3>1. Lists(Starts(hh), Len(hh), S)
      BY <1>8 DEF S
    <3> QED
      BY <2>5, <2>6, <2>7, <3>1, ListsShift
  <2> QED
    BY <2>7, <2>8 DEF R
<1>14. ASSUME NEW j \in 1..Len(hh) PROVE ExpectedRow(doc, s, e[j]) = Shown(C[j])
  <2> DEFINE start == hh[j].start
             bb == Body(j)
             own == Filled(bb)
             v == b[start].value
             all == <<Text(v)>> \o own
             none == Text(Blank)
  <2>1. /\ e[j] = o + start /\ start \in 1..Len(b) /\ doc[o + start] = b[start]
        /\ hh[j].name = Text(v)
    BY <1>5, <1>8 DEF Starts, Marked
  <2>2. own = LinesUnder(doc, e[j])
    BY <1>9, <2>1
  <2>3. C[j] = BlockChunk(type, [name |-> Text(v), body |-> bb])
    BY <1>11, <2>1
  <2>4. Complete(v)
    BY <1>6, <2>1
  <2>5. Shown(C[j]) =
          [name |-> Text(v), lines |-> own, tags |-> FirstSaid(all, "stack"),
           depth |-> IF type = "skill" THEN FirstSaid(all, "depth") ELSE none,
           period |-> IF type = "experience" THEN FirstSaid(all, "period") ELSE none]
    <3> HIDE DEF v, bb, type, start
    <3> QED
      BY <1>10, <2>3, <2>4, BlockAsWritten DEF bb
  <2>6. Text(doc[e[j]].value) = Text(v)
    BY <2>1
  <2>7. all = <<Text(doc[e[j]].value)>> \o LinesUnder(doc, e[j])
    BY <2>2, <2>6
  <2> HIDE DEF e, own, v, type, all
  <2>8. ExpectedRow(doc, s, e[j]) =
          [name |-> Text(v), lines |-> own, tags |-> FirstSaid(all, "stack"),
           depth |-> IF s = "skills" THEN FirstSaid(all, "depth") ELSE none,
           period |-> IF s = "experience" THEN FirstSaid(all, "period") ELSE none]
    BY <2>2, <2>6, <2>7 DEF ExpectedRow
  <2>9. /\ s = "skills" <=> type = "skill"
        /\ s = "experience" <=> type = "experience"
    BY <1>0 DEF type
  <2> QED
    BY <2>5, <2>8, <2>9
<1> HIDE DEF e
<1>15. Expected(doc, s) = [j \in 1..Len(hh) |-> ExpectedRow(doc, s, e[j])]
  BY <1>13, ExpectedByAList
<1> QED
  BY <1>12, <1>14, <1>15 DEF C

----------------------------------------------------------------------------
(***************************************************************************)
(* Flattened, every sequence stands in one piece behind the offset off[p], *)
(* and nothing else stands there.                                          *)
(***************************************************************************)
LaidOut(F, seqs, off, n) ==
  /\ \A p \in 1..n : off[p] \in Nat
  /\ \A p \in 1..n : \A k \in 1..Len(seqs[p]) :
       off[p] + k \in 1..Len(F) /\ F[off[p] + k] = seqs[p][k]
  /\ \A i \in 1..Len(F) : \E p \in 1..n : i - off[p] \in 1..Len(seqs[p])

\* One more sequence behind those laid out.
LEMMA LaidOutBehind ==
  ASSUME NEW S, NEW s \in Seq(S), NEW seqs, NEW off, NEW n \in Nat,
         seqs[n + 1] \in Seq(S), LaidOut(s, seqs, off, n), off[n + 1] = Len(s)
  PROVE  LaidOut(s \o seqs[n + 1], seqs, off, n + 1)
<1> DEFINE t == seqs[n + 1]
           u == s \o t
           a == Len(s)
           b == Len(t)
<1>1. /\ Len(u) = a + b /\ a \in Nat /\ b \in Nat
      /\ \A i \in 1..a + b : u[i] = IF i <= a THEN s[i] ELSE t[i - a]
  BY ConcatProperties, LenProperties
<1>2. /\ \A p \in 1..n : off[p] \in Nat
      /\ \A p \in 1..n : \A k \in 1..Len(seqs[p]) :
           off[p] + k \in 1..a /\ s[off[p] + k] = seqs[p][k]
      /\ \A i \in 1..a : \E p \in 1..n : i - off[p] \in 1..Len(seqs[p])
  BY DEF LaidOut
<1>3. t = seqs[n + 1] /\ off[n + 1] = a
  OBVIOUS
<1> HIDE DEF t, u, a, b
<1>4. b = Len(seqs[n + 1])
  BY DEF b, t
<1>5. \A p \in 1..n + 1 : off[p] \in Nat
  <2>1. \A p \in 1..n + 1 : p \in 1..n \/ p = n + 1
    OBVIOUS
  <2> QED
    BY <1>1, <1>2, <1>3, <2>1
<1>6. ASSUME NEW p \in 1..n + 1, NEW k \in 1..Len(seqs[p])
      PROVE  off[p] + k \in 1..Len(u) /\ u[off[p] + k] = seqs[p][k]
  <2>1. CASE p \in 1..n
    <3>1. off[p] + k \in 1..a /\ s[off[p] + k] = seqs[p][k]
      BY <1>2, <2>1
    <3>2. off[p] + k \in 1..a + b /\ off[p] + k <= a
      BY <1>1, <3>1
    <3> QED
      BY <1>1, <3>1, <3>2
  <2>2. CASE p = n + 1
    <3>1. k \in 1..b /\ off[p] = a /\ seqs[p] = t
      BY <1>3, <1>4, <2>2
    <3>2. a + k \in 1..a + b /\ ~(a + k <= a) /\ (a + k) - a = k
      BY <1>1, <3>1
    <3>3. u[a + k] = t[k]
      BY <1>1, <3>2
    <3> QED
      BY <1>1, <3>1, <3>2, <3>3
  <2> QED
    BY <2>1, <2>2
<1>7. ASSUME NEW i \in 1..Len(u)
      PROVE  \E p \in 1..n + 1 : i - off[p] \in 1..Len(seqs[p])
  <2>1. CASE i <= a
    <3>1. i \in 1..a /\ 1..n \in SUBSET (1..n + 1)
      BY <1>1, <2>1
    <3> QED
      BY <1>2, <3>1
  <2>2. CASE ~(i <= a)
    <3>1. i - off[n + 1] \in 1..Len(seqs[n + 1]) /\ n + 1 \in 1..n + 1
      BY <1>1, <1>3, <1>4, <2>2
    <3> QED
      BY <3>1
  <2> QED
    BY <2>1, <2>2
<1> QED
  BY <1>5, <1>6, <1>7 DEF LaidOut, u, t

\* FlattenSeq lays out all of its sequences.
LEMMA FlattenLaysOut ==
  ASSUME NEW S, NEW seqs, Len(seqs) \in Nat \ {0},
         \A n \in 1..Len(seqs) : seqs[n] \in Seq(S)
  PROVE  /\ FlattenSeq(seqs) \in Seq(S)
         /\ \E off : LaidOut(FlattenSeq(seqs), seqs, off, Len(seqs))
<1> DEFINE f == Flat(seqs)
           L == Len(seqs)
           off == [p \in 1..L |-> IF p = 1 THEN 0 ELSE Len(f[p - 1])]
           Laid(n) == f[n] \in Seq(S) /\ LaidOut(f[n], seqs, off, n)
           T == {m \in Nat : m + 1 <= L => Laid(m + 1)}
<1>0. /\ L \in Nat \ {0} /\ \A n \in 1..L : seqs[n] \in Seq(S)
      /\ \A p \in 1..L : f[p] = FlatAt(seqs, f, p)
  BY FlatIsDefined
<1>1. Laid(1)
  <2>1. 1 \in 1..L /\ f[1] = seqs[1] /\ off[1] = 0
    BY <1>0 DEF FlatAt
  <2>2. f[1] \in Seq(S) /\ Len(seqs[1]) \in Nat
    BY <1>0, <2>1, LenProperties
  <2> HIDE DEF f, off, L
  <2>3. \A p \in 1..1 : p = 1
    OBVIOUS
  <2>4. LaidOut(f[1], seqs, off, 1)
    <3>1. \A k \in 1..Len(seqs[1]) : 0 + k \in 1..Len(seqs[1]) /\ 0 + k = k
      BY <2>2
    <3>2. \A i \in 1..Len(seqs[1]) : i - 0 \in 1..Len(seqs[1]) /\ 1 \in 1..1
      BY <2>2
    <3> QED
      BY <2>1, <2>3, <3>1, <3>2 DEF LaidOut
  <2> QED
    BY <2>2, <2>4
<1>2. ASSUME NEW n \in Nat, n >= 1, n + 1 <= L, Laid(n) PROVE Laid(n + 1)
  <2>1. n + 1 \in 1..L /\ n + 1 # 1 /\ (n + 1) - 1 = n
    BY <1>0, <1>2
  <2>2. f[n + 1] = f[n] \o seqs[n + 1]
    <3>1. f[n + 1] = FlatAt(seqs, f, n + 1)
      BY <1>0, <2>1
    <3> HIDE DEF f
    <3>2. ASSUME NEW i, i # 1 PROVE FlatAt(seqs, f, i) = f[i - 1] \o seqs[i]
      BY <3>2, Zenon DEF FlatAt
    <3>3. FlatAt(seqs, f, n + 1) = f[(n + 1) - 1] \o seqs[n + 1]
      BY <2>1, <3>2, Zenon
    <3> QED
      BY <2>1, <3>1, <3>3, Zenon
  <2>3. off[n + 1] = Len(f[n])
    <3> HIDE DEF f, L
    <3>1. off[n + 1] = Len(f[(n + 1) - 1])
      BY <2>1
    <3> QED
      BY <2>1, <3>1
  <2>4. f[n] \in Seq(S) /\ LaidOut(f[n], seqs, off, n) /\ seqs[n + 1] \in Seq(S)
    BY <1>0, <1>2, <2>1
  <2> HIDE DEF f, off, L
  <2>5. LaidOut(f[n] \o seqs[n + 1], seqs, off, n + 1)
    BY <2>3, <2>4, LaidOutBehind
  <2>6. f[n] \o seqs[n + 1] \in Seq(S)
    BY <2>4, ConcatProperties
  <2> QED
    BY <2>2, <2>5, <2>6
<1> HIDE DEF Laid
<1>3. T = Nat
  <2>1. 0 \in T
    BY <1>1
  <2>2. \A m \in T : m + 1 \in T
    <3> SUFFICES ASSUME NEW m \in T, (m + 1) + 1 <= L PROVE Laid((m + 1) + 1)
      OBVIOUS
    <3>1. m \in Nat /\ m + 1 \in Nat /\ m + 1 >= 1 /\ m + 1 <= L /\ Laid(m + 1)
      BY <1>0
    <3> QED
      BY <1>2, <3>1
  <2>3. T \in SUBSET Nat
    OBVIOUS
  <2> HIDE DEF T
  <2> QED
    BY <2>1, <2>2, <2>3, Induction
<1>4. Laid(L)
  <2>1. L - 1 \in Nat /\ (L - 1) + 1 = L
    BY <1>0
  <2>2. L - 1 \in T
    BY <1>3, <2>1
  <2> QED
    BY <1>0, <2>1, <2>2
<1>5. FlattenSeq(seqs) = f[L]
  BY <1>0 DEF FlattenSeq, Flat, FlatAt
<1>6. f[L] \in Seq(S) /\ LaidOut(f[L], seqs, off, L)
  BY <1>4 DEF Laid
<1> HIDE DEF off, f
<1> QED
  BY <1>5, <1>6

(***************************************************************************)
(* The chunks of one type are those of one section, in order.              *)
(***************************************************************************)
LEMMA SectionIsAList ==
  ASSUME NEW doc, Len(doc) \in Nat, NEW s \in ToSet(SectionOrder)
  PROVE  LET C == SectionChunks(doc, s)
         IN  IsList(C) /\ \A j \in 1..Len(C) : C[j].type = TypeOf(s)
<1> DEFINE C == SectionChunks(doc, s)
<1>1. CASE s \notin DOMAIN Sections(doc)
  <2>1. C = <<>>
    BY <1>1 DEF SectionChunks
  <2> QED
    BY <2>1 DEF IsList
<1>2. CASE s \in DOMAIN Sections(doc)
  <2>1. IsList(C)
    BY <1>2, SectionIsDrawn
  <2>2. CASE s \in DOMAIN WholeSections
    <3> DEFINE c == Chunk(WholeSections[s], Text(s), Sections(doc)[s], Text(Blank),
                          Text(Blank), Text(Blank))
    <3>1. C = <<c>>
      BY <1>2, <2>2 DEF SectionChunks
    <3>2. c.type = TypeOf(s)
      BY <2>2 DEF Chunk, TypeOf
    <3> HIDE DEF C, c
    <3>3. Len(C) = 1 /\ C[1] = c
      BY <3>1
    <3> QED
      BY <2>1, <3>2, <3>3 DEF C
  <2>3. CASE s \notin DOMAIN WholeSections
    <3> DEFINE blocks == SplitH3Blocks(Sections(doc)[s])
    <3>1. C = [n \in DOMAIN blocks |-> BlockChunk(SplitSections[s], blocks[n])]
      BY <1>2, <2>3 DEF SectionChunks
    <3>2. DOMAIN C = 1..Len(C)
      BY <2>1 DEF IsList
    <3> HIDE DEF C, blocks
    <3>3. \A j \in 1..Len(C) : C[j] = BlockChunk(SplitSections[s], blocks[j])
      BY <3>1, <3>2
    <3>4. \A block : BlockChunk(SplitSections[s], block).type = SplitSections[s]
      BY DEF BlockChunk, Chunk
    <3>5. TypeOf(s) = SplitSections[s]
      BY <2>3 DEF TypeOf
    <3> QED
      BY <2>1, <3>3, <3>4, <3>5 DEF C
  <2> QED
    BY <2>2, <2>3
<1> QED
  BY <1>1, <1>2

\* The chunks of the document: section behind section.
LEMMA ChunksAreLaidOut ==
  ASSUME NEW doc, Len(doc) \in Nat
  PROVE  LET all == ParseProfileChunks(doc)
             seqs == [p \in 1..6 |-> SectionChunks(doc, SectionOrder[p])]
         IN  /\ Len(all) \in Nat /\ DOMAIN all = 1..Len(all)
             /\ \E off : LaidOut(all, seqs, off, 6)
<1> DEFINE all == ParseProfileChunks(doc)
           seqs == [p \in 1..6 |-> SectionChunks(doc, SectionOrder[p])]
           S == UNION {{SectionChunks(doc, SectionOrder[p])[j] :
                           j \in 1..Len(SectionChunks(doc, SectionOrder[p]))} : p \in 1..6}
<1>1. DOMAIN SectionOrder = 1..6 /\ \A p \in 1..6 : SectionOrder[p] \in ToSet(SectionOrder)
  BY DEF SectionOrder, ToSet
<1>2. \A p \in 1..6 : seqs[p] \in Seq(S)
  <2> SUFFICES ASSUME NEW p \in 1..6 PROVE SectionChunks(doc, SectionOrder[p]) \in Seq(S)
    OBVIOUS
  <2> DEFINE C == SectionChunks(doc, SectionOrder[p])
  <2>1. \A j \in 1..Len(C) : C[j] \in S
    OBVIOUS
  <2>2. IsList(C)
    BY <1>1, SectionIsAList
  <2> HIDE DEF C, S
  <2>3. [j \in 1..Len(C) |-> C[j]] \in Seq(S)
    BY <2>1, <2>2 DEF IsList
  <2> QED
    BY <2>2, <2>3 DEF C, IsList
<1>3. all = FlattenSeq(seqs)
  BY <1>1 DEF ParseProfileChunks
<1>4. Len(seqs) = 6
  OBVIOUS
<1> HIDE DEF all, seqs, S
<1>5. /\ FlattenSeq(seqs) \in Seq(S)
      /\ \E off : LaidOut(FlattenSeq(seqs), seqs, off, Len(seqs))
  <2>1. Len(seqs) \in Nat \ {0} /\ \A n \in 1..Len(seqs) : seqs[n] \in Seq(S)
    BY <1>2, <1>4
  <2> QED
    BY <2>1, FlattenLaysOut
<1>6. Len(all) \in Nat /\ DOMAIN all = 1..Len(all)
  BY <1>3, <1>5, LenProperties
<1> QED
  BY <1>3, <1>4, <1>5, <1>6 DEF all, seqs

\* Picked by their type, they are the chunks of the section again.
LEMMA FoundIsShown ==
  ASSUME NEW doc, Len(doc) \in Nat, NEW s \in ToSet(SectionOrder)
  PROVE  LET C == SectionChunks(doc, s)
         IN  Found(doc, s) = [n \in 1..Len(C) |-> Shown(C[n])]
<1> DEFINE all == ParseProfileChunks(doc)
           seqs == [q \in 1..6 |-> SectionChunks(doc, SectionOrder[q])]
           C == SectionChunks(doc, s)
           m == Len(C)
           R == {n \in DOMAIN all : all[n].type = TypeOf(s)}
<1>1. PICK p \in 1..6 : SectionOrder[p] = s
  BY DEF SectionOrder, ToSet
<1>2. \A q \in 1..6 : SectionOrder[q] \in ToSet(SectionOrder) /\ (SectionOrder[q] = s => q = p)
  BY <1>1 DEF SectionOrder, ToSet
<1>3. Len(all) \in Nat /\ DOMAIN all = 1..Len(all) /\ \E off : LaidOut(all, seqs, off, 6)
  BY ChunksAreLaidOut
<1>4. PICK off : LaidOut(all, seqs, off, 6)
  BY <1>3
<1>5. \A q \in 1..6 : \A k \in 1..Len(seqs[q]) : seqs[q][k].type = TypeOf(SectionOrder[q])
  <2> SUFFICES ASSUME NEW q \in 1..6,
                      NEW k \in 1..Len(SectionChunks(doc, SectionOrder[q]))
      PROVE  SectionChunks(doc, SectionOrder[q])[k].type = TypeOf(SectionOrder[q])
    OBVIOUS
  <2> QED
    BY <1>2, SectionIsAList
<1>6. IsList(C) /\ m \in Nat
  BY SectionIsAList DEF IsList
<1>7. seqs[p] = C
  BY <1>1
<1> HIDE DEF all, seqs, C
<1>8. /\ \A q \in 1..6 : off[q] \in Nat
      /\ \A q \in 1..6 : \A k \in 1..Len(seqs[q]) :
           off[q] + k \in 1..Len(all) /\ all[off[q] + k] = seqs[q][k]
      /\ \A i \in 1..Len(all) : \E q \in 1..6 : i - off[q] \in 1..Len(seqs[q])
  BY <1>4 DEF LaidOut
<1> DEFINE o == off[p]
           e == [j \in 1..m |-> o + j]
<1>9. o \in Nat /\ \A k \in 1..m : /\ o + k \in 1..Len(all) /\ all[o + k] = C[k]
                                   /\ C[k].type = TypeOf(s)
  BY <1>1, <1>5, <1>7, <1>8
<1> HIDE DEF o
<1>10. \A r : r \in R <=> \E k \in 1..m : r = o + k
  <2>1. ASSUME NEW r \in R PROVE \E k \in 1..m : r = o + k
    <3>1. r \in 1..Len(all) /\ all[r].type = TypeOf(s)
      BY <1>3
    <3>2. PICK q \in 1..6 : r - off[q] \in 1..Len(seqs[q])
      BY <1>8, <3>1
    <3>3. off[q] + (r - off[q]) = r
      BY <1>8, <3>1
    <3>4. all[r] = seqs[q][r - off[q]]
      BY <1>8, <3>2, <3>3
    <3>5. TypeOf(SectionOrder[q]) = TypeOf(s)
      BY <1>5, <3>1, <3>2, <3>4
    <3>6. SectionOrder[q] = s
      BY <1>2, <3>5, KindsOfSections
    <3>7. q = p
      BY <1>2, <3>6
    <3>8. r - o \in 1..m /\ r = o + (r - o)
      BY <1>7, <3>2, <3>3, <3>7 DEF o
    <3> QED
      BY <3>8
  <2>2. ASSUME NEW k \in 1..m PROVE o + k \in R
    BY <1>3, <1>9
  <2> HIDE DEF R
  <2> QED
    BY <2>1, <2>2
<1> HIDE DEF R
<1>11. R \in SUBSET Nat /\ Lists(e, m, R)
  <2>1. \A k \in 1..m : o + k \in Nat
    BY <1>6, <1>9
  <2>2. R \in SUBSET Nat
    BY <1>10, <2>1
  <2>3. e \in [1..m -> R]
    BY <1>10
  <2>4. \A j, k \in 1..m : j < k => e[j] < e[k]
    BY <1>6, <1>9
  <2>5. \A i \in R : \E j \in 1..m : e[j] = i
    BY <1>10
  <2> QED
    BY <1>6, <2>2, <2>3, <2>4, <2>5 DEF Lists
<1> DEFINE chunks == Picked(all, R)
<1>12. chunks = [j \in 1..m |-> C[j]]
  <2>1. chunks = [j \in 1..m |-> all[e[j]]]
    <3> HIDE DEF e, m
    <3> QED
      BY <1>11, PickedByAList
  <2>2. \A j \in 1..m : all[e[j]] = C[j]
    BY <1>9
  <2> QED
    BY <2>1, <2>2
<1>13. Found(doc, s) = [n \in DOMAIN chunks |-> Shown(chunks[n])]
  BY DEF Found, Shown, all, R
<1> HIDE DEF chunks, m
<1>14. DOMAIN chunks = 1..m /\ \A n \in 1..m : chunks[n] = C[n]
  BY <1>12
<1>15. Found(doc, s) = [n \in 1..m |-> Shown(C[n])]
  BY <1>13, <1>14
<1> QED
  BY <1>15 DEF m, C

----------------------------------------------------------------------------
(***************************************************************************)
(* The chunks of a profile that keeps to the schema are its sections and   *)
(* blocks, as written.                                                     *)
(***************************************************************************)
LEMMA SectionAsWritten ==
  ASSUME NEW doc \in Seq(Line), KeepsSchema(doc), NEW s \in ToSet(SectionOrder)
  PROVE  LET C == SectionChunks(doc, s)
         IN  Expected(doc, s) = [n \in 1..Len(C) |-> Shown(C[n])]
<1>1. CASE s \notin DOMAIN Sections(doc)
  BY <1>1, AbsentSectionAsWritten
<1>2. CASE s \in DOMAIN Sections(doc) /\ s \in DOMAIN WholeSections
  BY <1>2, WholeSectionAsWritten
<1>3. CASE s \in DOMAIN Sections(doc) /\ s \in DOMAIN SplitSections
  BY <1>3, SplitSectionAsWritten
<1> QED
  BY <1>1, <1>2, <1>3, KindsOfSections

\* Each row expected is a chunk of the document.
LEMMA RowIsAChunk ==
  ASSUME NEW doc \in Seq(Line), KeepsSchema(doc), NEW s \in ToSet(SectionOrder),
         NEW g \in Rows(doc, s)
  PROVE  LET all == ParseProfileChunks(doc)
         IN  \E c \in DOMAIN all :
               /\ all[c].name = Text(doc[g].value) /\ IsList(all[c].body)
               /\ Filled(all[c].body) = LinesUnder(doc, g)
<1> DEFINE all == ParseProfileChunks(doc)
           seqs == [q \in 1..6 |-> SectionChunks(doc, SectionOrder[q])]
           C == SectionChunks(doc, s)
           R == Rows(doc, s)
           m == Cardinality(R)
           e == Ascending(R)
<1>1. IsList(doc)
  BY SchemaFacts
<1>2. Len(doc) \in Nat /\ DOMAIN doc = 1..Len(doc)
  BY <1>1 DEF IsList
<1>3. R \in SUBSET Nat /\ IsFiniteSet(R)
  <2>1. R \in SUBSET (1..Len(doc))
    BY <1>2 DEF Rows, Blocks, SectionLines
  <2>2. IsFiniteSet(1..Len(doc)) /\ 1..Len(doc) \in SUBSET Nat
    BY <1>2, FS_Interval
  <2> HIDE DEF R
  <2> QED
    BY <2>1, <2>2, FS_Subset
<1>4. g \in R
  OBVIOUS
<1> HIDE DEF R
<1>5. Lists(e, m, R)
  BY <1>3, AscendingIsAList
<1> HIDE DEF e, m
<1>6. PICK n \in 1..m : e[n] = g
  BY <1>4, <1>5 DEF Lists
<1>7. Expected(doc, s) = [k \in 1..m |-> ExpectedRow(doc, s, e[k])]
  BY <1>3, <1>5, ExpectedByAList DEF R
<1>8. Expected(doc, s) = [k \in 1..Len(C) |-> Shown(C[k])]
  BY SectionAsWritten
<1>9. PICK p \in 1..6 : SectionOrder[p] = s
  BY DEF SectionOrder, ToSet
<1>10. seqs[p] = C
  BY <1>9
<1>11. DOMAIN all = 1..Len(all) /\ \E off : LaidOut(all, seqs, off, 6)
  BY <1>2, ChunksAreLaidOut
<1>12. \A c \in 1..Len(all) : IsList(all[c].body)
  BY <1>2, ChunksAreDrawn
<1> HIDE DEF all, seqs, C
<1>13. n \in 1..Len(C) /\ ExpectedRow(doc, s, g) = Shown(C[n])
  <2>1. n \in DOMAIN Expected(doc, s) /\ Expected(doc, s)[n] = ExpectedRow(doc, s, g)
    BY <1>6, <1>7
  <2> HIDE DEF Shown, ExpectedRow
  <2> QED
    BY <1>8, <2>1
<1>14. C[n].name = Text(doc[g].value) /\ Filled(C[n].body) = LinesUnder(doc, g)
  <2>1. /\ ExpectedRow(doc, s, g).name = Text(doc[g].value)
        /\ ExpectedRow(doc, s, g).lines = LinesUnder(doc, g)
    BY DEF ExpectedRow
  <2>2. Shown(C[n]).name = C[n].name /\ Shown(C[n]).lines = Filled(C[n].body)
    BY DEF Shown
  <2> QED
    BY <1>13, <2>1, <2>2
<1>15. PICK off : LaidOut(all, seqs, off, 6)
  BY <1>11
<1>16. off[p] + n \in 1..Len(all) /\ all[off[p] + n] = C[n]
  BY <1>10, <1>13, <1>15 DEF LaidOut
<1> QED
  BY <1>11, <1>12, <1>14, <1>16 DEF all

(***************************************************************************)
(* A line under a heading is a line of its chunk.                          *)
(***************************************************************************)
LEMMA LineUnderItsHeading ==
  ASSUME NEW doc, IsList(doc), NEW g, NEW i \in 1..Len(doc), doc[i] # Text(Blank),
         doc[i].mark \notin {doc[g].mark, "h2"},
         IsNearest(doc, i, {doc[g].mark, "h2"}, g),
         NEW body, IsList(body), Filled(body) = LinesUnder(doc, g)
  PROVE  doc[i] \in ToSet(body)
<1> DEFINE marks == {doc[g].mark, "h2"}
           S == {k \in DOMAIN doc : /\ doc[k] # Text(Blank)
                                    /\ doc[k].mark \notin marks
                                    /\ Nearest(doc, k, marks) = g}
           F == {k \in DOMAIN body : body[k] # Text(Blank)}
<1>1. /\ Len(doc) \in Nat /\ DOMAIN doc = 1..Len(doc)
      /\ Len(body) \in Nat /\ DOMAIN body = 1..Len(body)
  BY DEF IsList
<1>2. LinesUnder(doc, g) = Picked(doc, S) /\ Filled(body) = Picked(body, F)
  BY DEF LinesUnder, Filled
<1>3. i \in S
  <2>1. doc[i].mark \notin marks /\ IsNearest(doc, i, marks, g)
    OBVIOUS
  <2> HIDE DEF marks
  <2>2. i \in Nat \ {0}
    BY <1>1
  <2>3. Nearest(doc, i, marks) = g
    BY <2>1, <2>2, NearestIs
  <2> QED
    BY <1>1, <2>1, <2>3
<1>4. S \in SUBSET (1..Len(doc)) /\ F \in SUBSET (1..Len(body))
  BY <1>1
<1> HIDE DEF S
<1>5. S \in SUBSET Nat /\ IsFiniteSet(S)
  <2>1. IsFiniteSet(1..Len(doc)) /\ 1..Len(doc) \in SUBSET Nat
    BY <1>1, FS_Interval
  <2> QED
    BY <1>4, <2>1, FS_Subset
<1>6. F \in SUBSET Nat /\ IsFiniteSet(F)
  <2> HIDE DEF F
  <2>1. IsFiniteSet(1..Len(body)) /\ 1..Len(body) \in SUBSET Nat
    BY <1>1, FS_Interval
  <2> QED
    BY <1>4, <2>1, FS_Subset
<1>7. PICK k \in DOMAIN Picked(doc, S) : Picked(doc, S)[k] = doc[i]
  BY <1>3, <1>5, PickedIsAt
<1>8. k \in DOMAIN Picked(body, F) /\ Picked(body, F)[k] = doc[i]
  BY <1>2, <1>7
<1>9. PICK j \in F : Picked(body, F)[k] = body[j]
  <2> HIDE DEF F
  <2> QED
    BY <1>6, <1>8, PickedIsAt
<1> QED
  BY <1>8, <1>9 DEF ToSet

----------------------------------------------------------------------------
(***************************************************************************)
(* No line that stands under the heading of a section is left out.         *)
(***************************************************************************)
LEMMA NoLineIsLost ==
  ASSUME NEW doc \in Seq(Line), KeepsSchema(doc), NEW i \in 1..Len(doc),
         doc[i] # Text(Blank), doc[i].mark # "h2",
         NEW t \in 1..Len(doc), IsNearest(doc, i, {"h2"}, t),
         doc[t].value \in ToSet(SectionOrder)
  PROVE  LET chunks == ParseProfileChunks(doc)
         IN  \E n \in DOMAIN chunks :
               \/ doc[i] \in ToSet(chunks[n].body)
               \/ doc[i].mark = "h3" /\ chunks[n].name = Text(doc[i].value)
<1> DEFINE all == ParseProfileChunks(doc)
           s == doc[t].value
           Is(n) == \/ doc[i] \in ToSet(all[n].body)
                    \/ doc[i].mark = "h3" /\ all[n].name = Text(doc[i].value)
<1>0. /\ IsList(doc) /\ Len(doc) \in Nat /\ DOMAIN doc = 1..Len(doc)
      /\ \A k \in 1..Len(doc) : doc[k] = [mark |-> doc[k].mark, value |-> doc[k].value]
  BY SchemaFacts DEF IsList
<1>1. /\ t \in 0..i - 1 /\ t # 0 /\ doc[t].mark = "h2" /\ i \in Nat \ {0}
      /\ \A k \in t + 1 .. i - 1 : doc[k].mark # "h2"
  BY <1>0 DEF IsNearest
<1>2. t \in SectionLines(doc, s)
  <2>1. doc[t] = [mark |-> "h2", value |-> s]
    BY <1>0, <1>1
  <2> HIDE DEF s
  <2> QED
    BY <1>0, <2>1 DEF SectionLines
<1>3. \A g \in Rows(doc, s) :
        \E n \in DOMAIN all : /\ all[n].name = Text(doc[g].value) /\ IsList(all[n].body)
                              /\ Filled(all[n].body) = LinesUnder(doc, g)
  BY RowIsAChunk
<1> HIDE DEF all
<1>4. ASSUME NEW g \in Rows(doc, s), doc[i].mark \notin {doc[g].mark, "h2"},
             IsNearest(doc, i, {doc[g].mark, "h2"}, g)
      PROVE  \E n \in DOMAIN all : Is(n)
  <2>1. PICK n \in DOMAIN all : /\ IsList(all[n].body)
                                /\ Filled(all[n].body) = LinesUnder(doc, g)
    BY <1>3
  <2> DEFINE body == all[n].body
  <2>2. doc[i] \in ToSet(body)
    <3>1. IsList(body) /\ Filled(body) = LinesUnder(doc, g)
      BY <2>1
    <3> HIDE DEF body
    <3> QED
      BY <1>0, <1>4, <3>1, LineUnderItsHeading
  <2> QED
    BY <2>2
<1>5. CASE s \notin DOMAIN SplitSections
  <2>1. t \in Rows(doc, s)
    BY <1>2, <1>5 DEF Rows
  <2>2. {doc[t].mark, "h2"} = {"h2"}
    BY <1>1
  <2>3. doc[i].mark \notin {doc[t].mark, "h2"} /\ IsNearest(doc, i, {doc[t].mark, "h2"}, t)
    BY <2>2
  <2>4. \E n \in DOMAIN all : Is(n)
    <3> HIDE DEF Is, s
    <3> QED
      BY <1>4, <2>1, <2>3
  <2> QED
    BY <2>4 DEF all
<1>6. ASSUME s \in DOMAIN SplitSections, NEW g \in 1..Len(doc), doc[g].mark = "h3",
             IsNearest(doc, g, {"h2"}, t)
      PROVE  g \in Rows(doc, s)
  <2>1. g \in Nat \ {0}
    BY <1>0
  <2> DEFINE marks == {"h2"}
  <2>2. Nearest(doc, g, {"h2"}) = t
    <3>1. IsNearest(doc, g, marks, t)
      BY <1>6
    <3> HIDE DEF marks
    <3>2. Nearest(doc, g, marks) = t
      BY <2>1, <3>1, NearestIs
    <3> QED
      BY <3>2 DEF marks
  <2> HIDE DEF s
  <2> QED
    BY <1>0, <1>2, <1>6, <2>2 DEF Rows, Blocks
<1>7. CASE s \in DOMAIN SplitSections /\ doc[i].mark = "h3"
  <2>1. i \in Rows(doc, s)
    BY <1>6, <1>7
  <2> QED
    BY <1>3, <1>7, <2>1 DEF all
<1>8. CASE s \in DOMAIN SplitSections /\ doc[i].mark # "h3"
  <2> DEFINE marks == {"h2", "h3"}
             g == Nearest(doc, i, marks)
  <2>1. IsNearest(doc, i, marks, g)
    <3> HIDE DEF marks
    <3> QED
      BY <1>1, NearestIs
  <2>2. g # 0 /\ doc[g].mark = "h2" => doc[g].value \notin DOMAIN SplitSections
    BY <1>0, <1>8 DEF KeepsSchema
  <2> HIDE DEF g
  <2>3. /\ g \in 0..i - 1 /\ (g = 0 \/ doc[g].mark \in marks)
        /\ \A k \in g + 1 .. i - 1 : doc[k].mark \notin marks
    BY <2>1 DEF IsNearest
  <2>4. t <= g /\ g \in Nat
    <3>1. ~(t \in g + 1 .. i - 1)
      BY <1>1, <2>3
    <3> QED
      BY <1>1, <2>3, <3>1
  <2>5. g \in 1..Len(doc) /\ doc[g].mark \in marks
    BY <1>0, <1>1, <2>3, <2>4
  <2>6. doc[g].mark # "h2"
    <3>1. CASE g = t
      BY <1>8, <2>2, <1>1, <3>1
    <3>2. CASE g # t
      <4>1. g \in t + 1 .. i - 1
        BY <1>1, <2>3, <2>4, <3>2
      <4> QED
        BY <1>1, <4>1
    <3> QED
      BY <3>1, <3>2
  <2>7. doc[g].mark = "h3" /\ marks = {doc[g].mark, "h2"}
    BY <2>5, <2>6
  <2>8. IsNearest(doc, g, {"h2"}, t)
    <3>1. t # g
      BY <1>1, <2>7
    <3>2. t \in 0..g - 1
      BY <1>1, <2>4, <3>1
    <3>3. \A k \in t + 1 .. g - 1 : doc[k].mark \notin {"h2"}
      <4>1. \A k \in t + 1 .. g - 1 : k \in t + 1 .. i - 1
        BY <1>1, <2>3
      <4> QED
        BY <1>1, <4>1
    <3> QED
      BY <1>1, <3>2, <3>3 DEF IsNearest
  <2>9. g \in Rows(doc, s)
    BY <1>6, <1>8, <2>5, <2>7, <2>8
  <2>10. doc[i].mark \notin {doc[g].mark, "h2"} /\ IsNearest(doc, i, {doc[g].mark, "h2"}, g)
    BY <1>8, <2>1, <2>7
  <2>11. \E n \in DOMAIN all : Is(n)
    <3> HIDE DEF Is, s, marks
    <3> QED
      BY <1>4, <2>9, <2>10
  <2> QED
    BY <2>11 DEF all
<1> QED
  BY <1>5, <1>7, <1>8 DEF all

\* Together: the property of every list of lines that keeps to the schema.
LEMMA SchemaKeptParsedAsWritten ==
  ASSUME NEW doc \in Seq(Line), KeepsSchema(doc)
  PROVE  /\ \A s \in ToSet(SectionOrder) : Found(doc, s) = Expected(doc, s)
         /\ NothingLost(doc)
<1>1. IsList(doc)
  BY SchemaFacts
<1>2. Len(doc) \in Nat /\ DOMAIN doc = 1..Len(doc)
  BY <1>1 DEF IsList
<1>3. ASSUME NEW s \in ToSet(SectionOrder) PROVE Found(doc, s) = Expected(doc, s)
  <2> DEFINE C == SectionChunks(doc, s)
  <2>1. Found(doc, s) = [n \in 1..Len(C) |-> Shown(C[n])]
    BY <1>2, FoundIsShown
  <2>2. Expected(doc, s) = [n \in 1..Len(C) |-> Shown(C[n])]
    BY SectionAsWritten
  <2> QED
    BY <2>1, <2>2
<1>4. NothingLost(doc)
  <2> DEFINE marks == {"h2"}
             chunks == ParseProfileChunks(doc)
  <2> SUFFICES ASSUME NEW i \in DOMAIN doc,
                      doc[i] # Text(Blank), doc[i].mark # "h2",
                      Nearest(doc, i, marks) # 0,
                      doc[Nearest(doc, i, marks)].value \in ToSet(SectionOrder)
      PROVE  \E n \in DOMAIN chunks :
               \/ doc[i] \in ToSet(chunks[n].body)
               \/ doc[i].mark = "h3" /\ chunks[n].name = Text(doc[i].value)
    BY DEF NothingLost
  <2> DEFINE t == Nearest(doc, i, marks)
  <2>1. i \in 1..Len(doc) /\ i \in Nat \ {0}
    BY <1>2
  <2>2. IsNearest(doc, i, marks, t)
    <3> HIDE DEF marks
    <3> QED
      BY <2>1, NearestIs
  <2>3. t # 0 /\ doc[t].value \in ToSet(SectionOrder)
    OBVIOUS
  <2> HIDE DEF t, chunks
  <2>4. t \in 1..Len(doc)
    BY <1>2, <2>1, <2>2, <2>3 DEF IsNearest
  <2> QED
    BY <2>1, <2>2, <2>3, <2>4, NoLineIsLost DEF chunks
<1> QED
  BY <1>3, <1>4

(***************************************************************************)
(* A profile of any length that keeps to the schema is indexed completely: *)
(* the chunks of each section are, in order, its blocks with all their     *)
(* lines and with the tags, depth and period these state, and no line of a *)
(* section is left out.                                                    *)
(***************************************************************************)
THEOREM ProfilesParsedAsWritten == ParserSpec => []ParsedAsWritten
<1> DEFINE IInv == document \in Seq(Line)
<1>1. ParserInit => IInv
  BY EmptySeq DEF ParserInit
<1>2. IInv /\ [ParserNext]_document => IInv'
  BY AppendProperties DEF ParserNext, WriteLine
<1>3. IInv => ParsedAsWritten
  BY SchemaKeptParsedAsWritten DEF ParsedAsWritten
<1> QED
  BY <1>1, <1>2, <1>3, PTL DEF ParserSpec

=============================================================================
