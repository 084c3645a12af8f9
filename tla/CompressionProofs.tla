------------------------- MODULE CompressionProofs -------------------------
(***************************************************************************)
(* Proofs about Compression, for any messages, engines, turns to keep and *)
(* conversations of any length.                                            *)
(***************************************************************************)
EXTENDS Compression, PositionsProofs, FiniteSetTheorems, SequenceTheorems,
        TLAPS

(***************************************************************************)
(* The positions of the human messages, in order.                          *)
(***************************************************************************)
Turns(conversation) ==
  {i \in DOMAIN conversation : conversation[i].role = "human"}

LEMMA TurnsCounted ==
  ASSUME NEW conversation \in Seq(Message)
  PROVE  /\ Turns(conversation) \in SUBSET (1..Len(conversation))
         /\ IsFiniteSet(Turns(conversation))
         /\ HumanCount(conversation) = Cardinality(Turns(conversation))
         /\ HumanCount(conversation) \in Nat
         /\ TurnBoundaries(conversation) = Ascending(Turns(conversation))
<1> DEFINE T == Turns(conversation)
<1>1. Len(conversation) \in Nat /\ DOMAIN conversation = 1..Len(conversation)
  BY LenProperties
<1>2. T \in SUBSET (1..Len(conversation))
  BY <1>1 DEF Turns
<1>3. T \in SUBSET Nat /\ IsFiniteSet(T)
  <2> HIDE DEF T
  <2>1. IsFiniteSet(1..Len(conversation))
    BY <1>1, FS_Interval
  <2>2. IsFiniteSet(T)
    BY <1>2, <2>1, FS_Subset
  <2> QED
    BY <1>1, <1>2, <2>2
<1>4. TurnBoundaries(conversation) = Ascending(T)
  BY DEF TurnBoundaries, Turns
<1> HIDE DEF T
<1>5. Ascending(T) \in [1..Cardinality(T) -> T] /\ Cardinality(T) \in Nat
  BY <1>3, AscendingLists
<1>6. Ascending(T) \in Seq(T) /\ Len(Ascending(T)) = Cardinality(T)
  BY <1>5
<1> QED
  BY <1>2, <1>3, <1>4, <1>5, <1>6 DEF HumanCount, T

(***************************************************************************)
(* Of the turns of a conversation cut at turn number n, the tail holds the *)
(* n-th and all that follow.                                               *)
(***************************************************************************)
LEMMA TailHolds ==
  ASSUME NEW c \in Seq(Message), NEW n \in 1..HumanCount(c),
         NEW at, at = TurnBoundaries(c)[n],
         NEW tail, tail = SubSeq(c, at, Len(c))
  PROVE  /\ at \in Turns(c)
         /\ tail \in Seq(Message) /\ Head(tail) = c[at]
         /\ HumanCount(tail) = HumanCount(c) - n + 1
<1> DEFINE T == Turns(c)
           a == Ascending(T)
           N == Cardinality(T)
<1>1. /\ T \in SUBSET (1..Len(c)) /\ IsFiniteSet(T) /\ Len(c) \in Nat
      /\ HumanCount(c) = N /\ N \in Nat /\ TurnBoundaries(c) = a
  BY TurnsCounted, LenProperties
<1>2. /\ a \in [1..N -> T]
      /\ \A i \in T : Rank(T, i) \in 1..N /\ a[Rank(T, i)] = i
      /\ \A j, k \in 1..N : j < k => a[j] < a[k]
  BY <1>1, AscendingLists
<1> HIDE DEF a, N
<1>3. n \in 1..N /\ at = a[n]
  BY <1>1
<1>4. at \in T /\ at \in 1..Len(c)
  BY <1>1, <1>2, <1>3
<1>5. /\ tail \in Seq(Message) /\ Len(tail) = Len(c) - at + 1
      /\ \A i \in 1..Len(c) - at + 1 : tail[i] = c[at + i - 1]
  <2>1. \A i \in at..Len(c) : c[i] \in Message
    BY <1>4, ElementOfSeq
  <2> QED
    BY <1>1, <1>4, <2>1, SubSeqProperties
<1>6. Head(tail) = c[at]
  BY <1>1, <1>4, HeadTailOfSubSeq
<1>7. HumanCount(tail) = N - n + 1
  <2> DEFINE U == Turns(tail)
             f == [j \in n..N |-> a[j] - at + 1]
  <2>1. /\ U \in SUBSET (1..Len(tail)) /\ IsFiniteSet(U)
        /\ HumanCount(tail) = Cardinality(U)
    BY <1>5, TurnsCounted
  <2>2. \A i \in 1..Len(tail) : i \in U <=> at + i - 1 \in T
    <3>1. DOMAIN tail = 1..Len(tail)
      BY <1>5, LenProperties
    <3>2. DOMAIN c = 1..Len(c)
      BY LenProperties
    <3>3. \A i \in 1..Len(tail) : at + i - 1 \in 1..Len(c)
      BY <1>1, <1>4, <1>5
    <3> QED
      BY <1>5, <3>1, <3>2, <3>3 DEF Turns
  <2>3. \A j \in n..N : a[j] \in T /\ a[j] >= at /\ a[j] \in 1..Len(c)
    <3> SUFFICES ASSUME NEW j \in n..N PROVE a[j] \in T /\ a[j] >= at /\ a[j] \in 1..Len(c)
      OBVIOUS
    <3>1. j \in 1..N /\ (j = n \/ n < j)
      BY <1>1, <1>3
    <3>2. a[j] \in T /\ a[j] \in 1..Len(c)
      BY <1>1, <1>2, <3>1
    <3>3. n < j => a[n] < a[j]
      BY <1>2, <1>3, <3>1
    <3> QED
      BY <1>3, <1>4, <3>1, <3>2, <3>3
  <2>4. \A j \in n..N : f[j] \in U
    <3> SUFFICES ASSUME NEW j \in n..N PROVE f[j] \in U
      OBVIOUS
    <3>1. f[j] = a[j] - at + 1
      OBVIOUS
    <3>2. f[j] \in 1..Len(tail) /\ at + f[j] - 1 = a[j]
      BY <1>1, <1>4, <1>5, <2>3, <3>1
    <3> HIDE DEF f, U
    <3> QED
      BY <2>2, <2>3, <3>2
  <2>5. \A i \in U : \E j \in n..N : f[j] = i
    <3> SUFFICES ASSUME NEW i \in U PROVE \E j \in n..N : f[j] = i
      OBVIOUS
    <3>1. i \in 1..Len(tail) /\ at + i - 1 \in T /\ at + i - 1 >= at
      BY <1>1, <1>4, <2>1, <2>2
    <3>2. PICK j \in 1..N : a[j] = at + i - 1
      BY <1>2, <3>1
    <3>3. j >= n
      <4>1. j < n => a[j] < a[n]
        BY <1>2, <1>3, <3>2
      <4> QED
        BY <1>1, <1>3, <1>4, <3>1, <3>2, <4>1
    <3>4. j \in n..N /\ f[j] = i
      BY <1>1, <1>4, <3>1, <3>2, <3>3
    <3> QED
      BY <3>4
  <2>6. \A j, k \in n..N : f[j] = f[k] => j = k
    <3> SUFFICES ASSUME NEW j \in n..N, NEW k \in n..N, f[j] = f[k] PROVE j = k
      OBVIOUS
    <3>1. a[j] = a[k] /\ j \in 1..N /\ k \in 1..N
      BY <1>1, <1>3, <1>4, <2>3
    <3>2. a[j] \in Nat /\ (j < k => a[j] < a[k]) /\ (k < j => a[k] < a[j])
      BY <1>1, <1>2, <3>1
    <3> QED
      BY <1>1, <3>1, <3>2
  <2> HIDE DEF f, U
  <2>7. f \in Surjection(n..N, U) /\ f \in Injection(n..N, U)
    <3>1. f \in [n..N -> U]
      BY <2>4 DEF f
    <3> QED
      BY <2>5, <2>6, <3>1, Zenon DEF Injection, Surjection, IsInjective
  <2>8. IsFiniteSet(n..N) /\ Cardinality(n..N) = N - n + 1
    BY <1>1, <1>3, FS_Interval
  <2>9. Cardinality(U) = Cardinality(n..N)
    BY <2>7, <2>8, FS_Surjection
  <2> QED
    BY <2>1, <2>8, <2>9
<1> QED
  BY <1>1, <1>4, <1>5, <1>6, <1>7

(***************************************************************************)
(* Where a conversation is cut: nowhere when it has no more turns than are *)
(* kept, and otherwise at one of its turns.                                *)
(***************************************************************************)
LEMMA CutAtATurn ==
  ASSUME NEW c \in Seq(Message), NEW k \in Nat
  PROVE  LET cut == ExtractTail(c, k)
         IN  /\ cut.to_compress \o cut.tail = c
             /\ HumanCount(c) <= k => cut.to_compress = <<>>
             /\ HumanCount(c) > k /\ k > 0 =>
                  HumanCount(cut.tail) = k /\ Head(cut.tail).role = "human"
<1> DEFINE cut == ExtractTail(c, k)
           turns == TurnBoundaries(c)
           n == IF k = 0 THEN 1 ELSE Len(turns) - k + 1
           at == turns[n]
           tail == SubSeq(c, at, Len(c))
<1>1. HumanCount(c) \in Nat /\ HumanCount(c) = Len(turns) /\ Len(c) \in Nat
  BY TurnsCounted, LenProperties DEF HumanCount
<1>2. CASE HumanCount(c) <= k
  <2>1. cut = [to_compress |-> <<>>, tail |-> c]
    BY <1>1, <1>2 DEF ExtractTail
  <2>2. <<>> \o c = c
    BY ConcatEmptySeq
  <2>3. ~(HumanCount(c) > k)
    BY <1>1, <1>2
  <2> QED
    BY <2>1, <2>2, <2>3
<1>3. CASE ~ (HumanCount(c) <= k)
  <2>1. cut = [to_compress |-> SubSeq(c, 1, at - 1), tail |-> tail]
    BY <1>1, <1>3 DEF ExtractTail
  <2>2. n \in 1..HumanCount(c)
        /\ (k > 0 => HumanCount(c) - n + 1 = k)
    BY <1>1, <1>3
  <2> HIDE DEF n
  <2>3. /\ at \in Turns(c) /\ Head(tail) = c[at]
        /\ HumanCount(tail) = HumanCount(c) - n + 1
    <3>1. at = TurnBoundaries(c)[n] /\ tail = SubSeq(c, at, Len(c))
      OBVIOUS
    <3> HIDE DEF at, tail
    <3> QED
      BY <2>2, <3>1, TailHolds
  <2>4. at \in 1..Len(c) /\ c[at].role = "human"
    BY <2>3, TurnsCounted DEF Turns
  <2>5. SubSeq(c, 1, at - 1) \o tail = c
    <3> HIDE DEF at
    <3>1. 1 \in 1..Len(c) + 1 /\ at - 1 \in 1 - 1 .. Len(c) /\ Len(c) \in at - 1 .. Len(c)
          /\ at - 1 + 1 = at
      BY <1>1, <2>4
    <3>2. SubSeq(c, 1, at - 1) \o SubSeq(c, at - 1 + 1, Len(c)) = SubSeq(c, 1, Len(c))
      BY <3>1, ConcatAdjacentSubSeq
    <3> QED
      BY <3>1, <3>2, SubSeqFull
  <2> HIDE DEF cut, at, tail
  <2>6. cut.to_compress = SubSeq(c, 1, at - 1) /\ cut.tail = tail
    BY <2>1
  <2> QED
    BY <1>3, <2>2, <2>3, <2>4, <2>5, <2>6 DEF cut
<1> QED
  BY <1>2, <1>3

(***************************************************************************)
(* Whatever the conversation and however many turns an engine keeps, the   *)
(* cut loses no message; and if it keeps any, none is split: the tail of   *)
(* _extract_tail is the shortest end of the conversation that holds them.  *)
(***************************************************************************)
THEOREM CutKeepsTheLastTurns == CompressionSpec => []TailIsTheLastTurns
<1> DEFINE IInv == messages \in Seq(Message)
<1>1. CompressionInit => IInv
  BY EmptySeq DEF CompressionInit
<1>2. IInv /\ [CompressionNext]_messages => IInv'
  BY AppendProperties DEF CompressionNext, AddMessage
<1>3. IInv => TailIsTheLastTurns
  <2> SUFFICES ASSUME IInv, NEW e \in DOMAIN TailTurns
      PROVE  LET cut == ExtractTail(messages, TailTurns[e])
                 kept == TailTurns[e]
             IN  /\ cut.to_compress \o cut.tail = messages
                 /\ HumanCount(messages) <= kept => cut.to_compress = <<>>
                 /\ HumanCount(messages) > kept /\ kept > 0 =>
                      HumanCount(cut.tail) = kept /\ Head(cut.tail).role = "human"
    BY DEF TailIsTheLastTurns
  <2>1. TailTurns[e] \in Nat
    BY EngineAssumption
  <2> QED
    BY <2>1, CutAtATurn
<1> QED
  BY <1>1, <1>2, <1>3, PTL DEF CompressionSpec

============================================================================
