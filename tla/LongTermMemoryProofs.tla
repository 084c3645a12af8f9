------------------------ MODULE LongTermMemoryProofs ------------------------
(***************************************************************************)
(* Proofs about LongTermMemory, for any users, facts and calls, however    *)
(* the calls overlap and whether or not the store raises.                  *)
(***************************************************************************)
EXTENDS LongTermMemory, PositionsProofs, FiniteSetTheorems, SequenceTheorems,
        TLAPS

\* The facts of a list, and a list without duplicates.
Elems(s) == {s[i] : i \in DOMAIN s}
Distinct(s) == \A i, j \in DOMAIN s : s[i] = s[j] => i = j

\* What a call that has begun was given.
Started(c) ==
  /\ pc[c] = "new" => user[c] = None
  /\ pc[c] # "new" => /\ user[c] \in User
                      /\ op[c] \in WithFact => fact[c] \in Fact
  /\ pc[c] = "read" => op[c] \in WithFact \cup {"get_memories"}
  /\ pc[c] = "write" => op[c] \in WithFact
  /\ pc[c] = "erase" => op[c] = "clear_memories"

\* What a call at its write knows: the list it read was told about its user,
\* and differs from the item by no more than the changes it missed.
Knows(c) ==
  pc[c] = "write" =>
    /\ Elems(read[c]) \subseteq Told(user[c])
    /\ Distinct(read[c])
    /\ op[c] = "remember_fact" => fact[c] \notin Elems(read[c])
    /\ Elems(read[c]) \ SetOf(items[user[c]]) \subseteq missed[c]
    /\ SetOf(items[user[c]]) \ Elems(read[c]) \subseteq missed[c]

ItemOK(u) ==
  /\ SetOf(items[u]) \subseteq Told(u)
  /\ Distinct(FactsOf(items[u]))

Inv ==
  /\ MemoryTypeOK
  /\ \A c \in Call : Started(c) /\ Knows(c)
  /\ \A u \in User : ItemOK(u)

----------------------------------------------------------------------------
(***************************************************************************)
(* Lists.  Facts about Append, Len and the removal of a fact.              *)
(***************************************************************************)
LEMMA ElemsOfItem ==
  ASSUME NEW item \in {None} \cup Seq(Fact)
  PROVE  /\ FactsOf(item) \in Seq(Fact)
         /\ SetOf(item) = Elems(FactsOf(item))
         /\ SetOf(item) \subseteq Fact
         /\ item \in Seq(Fact) => FactsOf(item) = item
  BY NoneAssumption, EmptySeq DEF FactsOf, SetOf, Elems

LEMMA AppendElems ==
  ASSUME NEW s \in Seq(Fact), NEW f \in Fact
  PROVE  /\ Append(s, f) \in Seq(Fact)
         /\ Elems(Append(s, f)) = Elems(s) \cup {f}
         /\ Distinct(s) /\ f \notin Elems(s) => Distinct(Append(s, f))
<1> DEFINE t == Append(s, f)
<1>1. /\ t \in Seq(Fact) /\ Len(t) = Len(s) + 1 /\ Len(s) \in Nat
      /\ t[Len(s) + 1] = f /\ \A i \in 1..Len(s) : t[i] = s[i]
  BY AppendProperties, LenProperties
<1>2. DOMAIN s = 1..Len(s) /\ DOMAIN t = 1..(Len(s) + 1)
  BY <1>1
<1>3. \A i \in 1..(Len(s) + 1) : i \in 1..Len(s) \/ i = Len(s) + 1
  BY <1>1
<1>4. Len(s) + 1 \in 1..(Len(s) + 1) /\ 1..Len(s) \subseteq 1..(Len(s) + 1)
  BY <1>1
<1>5. Elems(t) = Elems(s) \cup {f}
  BY <1>1, <1>2, <1>3, <1>4, Zenon DEF Elems
<1>6. Distinct(s) /\ f \notin Elems(s) => Distinct(t)
  BY <1>1, <1>2, <1>3, Zenon DEF Elems, Distinct
<1> QED
  BY <1>1, <1>5, <1>6

LEMMA DistinctCount ==
  ASSUME NEW s \in Seq(Fact), Distinct(s)
  PROVE  Len(s) = Cardinality(Elems(s))
<1>1. Len(s) \in Nat /\ DOMAIN s = 1..Len(s)
  BY LenProperties
<1>2. s \in Surjection(1..Len(s), Elems(s)) /\ s \in Injection(1..Len(s), Elems(s))
  BY <1>1 DEF Surjection, Injection, IsInjective, Elems, Distinct
<1>3. IsFiniteSet(1..Len(s)) /\ Cardinality(1..Len(s)) = Len(s)
  BY <1>1, FS_Interval
<1> QED
  BY <1>2, <1>3, FS_Surjection

LEMMA WithoutElems ==
  ASSUME NEW s \in Seq(Fact), NEW f
  PROVE  /\ Without(s, f) \in Seq(Fact)
         /\ Elems(Without(s, f)) = Elems(s) \ {f}
         /\ Distinct(s) => Distinct(Without(s, f))
<1> DEFINE K == Kept(s, f)
           n == Cardinality(K)
           at == Ascending(K)
           t == Without(s, f)
<1>1. Len(s) \in Nat /\ DOMAIN s = 1..Len(s) /\ \A i \in 1..Len(s) : s[i] \in Fact
  BY LenProperties, ElementOfSeq
<1>2. IsFiniteSet(1..Len(s))
  BY <1>1, FS_Interval
<1>3. K \in SUBSET (1..Len(s))
  BY <1>1 DEF Kept
<1>4. K \in SUBSET Nat /\ IsFiniteSet(K)
  BY <1>2, <1>3, FS_Subset
<1> HIDE DEF K
<1>5. /\ n \in Nat /\ at \in [1..n -> K]
      /\ \A i \in K : \E j \in 1..n : at[j] = i
      /\ \A i, j \in 1..n : at[i] = at[j] => i = j
  BY <1>4, AscendingLists
<1> HIDE DEF at, n
<1>6. t = [j \in 1..n |-> s[at[j]]]
  BY <1>5 DEF Without, Picked, at, K
<1>7. t \in Seq(Fact) /\ DOMAIN t = 1..n
  <2>1. \A j \in 1..n : s[at[j]] \in Fact
    BY <1>1, <1>3, <1>5
  <2> QED
    BY <1>5, <1>6, <2>1, IsASeq
<1>8. \A j \in 1..n : t[j] = s[at[j]]
  BY <1>6
<1>9. K = {i \in DOMAIN s : s[i] # f}
  BY DEF K, Kept
<1> HIDE DEF t
<1>10. Elems(t) \subseteq Elems(s) \ {f}
  BY <1>5, <1>7, <1>8, <1>9 DEF Elems
<1>11. Elems(s) \ {f} \subseteq Elems(t)
  <2> SUFFICES ASSUME NEW i \in DOMAIN s, s[i] # f
               PROVE  \E j \in DOMAIN t : t[j] = s[i]
    BY DEF Elems
  <2>1. PICK j \in 1..n : at[j] = i
    BY <1>5, <1>9
  <2> QED
    BY <1>7, <1>8, <2>1
<1>12. Distinct(s) => Distinct(t)
  <2> SUFFICES ASSUME Distinct(s), NEW i \in 1..n, NEW j \in 1..n, t[i] = t[j]
               PROVE  i = j
    BY <1>7 DEF Distinct
  <2>1. at[i] \in DOMAIN s /\ at[j] \in DOMAIN s /\ s[at[i]] = s[at[j]]
    BY <1>5, <1>8, <1>9
  <2>2. at[i] = at[j]
    BY <2>1 DEF Distinct
  <2> QED
    BY <1>5, <2>2
<1> QED
  BY <1>7, <1>10, <1>11, <1>12 DEF t

----------------------------------------------------------------------------
(***************************************************************************)
(* The invariant.                                                          *)
(***************************************************************************)
LEMMA InitInv == MemoryInit => Inv
  BY NoneAssumption, EmptySeq
  DEF MemoryInit, Inv, MemoryTypeOK, Started, Knows, ItemOK, SetOf, FactsOf,
      Distinct, Told, WithFact, WithoutFact, Ended

\* The list a call writes back, and what it has more or less than it read.
LEMMA ComputedList ==
  ASSUME Inv, NEW c \in Call, pc[c] = "write"
  PROVE  /\ user[c] \in User /\ fact[c] \in Fact /\ op[c] \in WithFact
         /\ Computed(c) \in Seq(Fact)
         /\ Elems(Computed(c)) = IF op[c] = "remember_fact"
                                 THEN Elems(read[c]) \cup {fact[c]}
                                 ELSE Elems(read[c]) \ {fact[c]}
         /\ Elems(Computed(c)) \subseteq Told(user[c])
         /\ Distinct(Computed(c))
<1>1. user[c] \in User /\ fact[c] \in Fact /\ op[c] \in WithFact /\ read[c] \in Seq(Fact)
  BY DEF Inv, MemoryTypeOK, Started
<1>2. /\ Elems(read[c]) \subseteq Told(user[c]) /\ Distinct(read[c])
      /\ op[c] = "remember_fact" => fact[c] \notin Elems(read[c])
  BY DEF Inv, Knows
<1>3. CASE op[c] = "remember_fact"
  <2>1. fact[c] \in Told(user[c])
    BY <1>3 DEF Told
  <2> QED
    BY <1>1, <1>2, <1>3, <2>1, AppendElems DEF Computed
<1>4. CASE op[c] # "remember_fact"
  BY <1>1, <1>2, <1>4, WithoutElems DEF Computed
<1> QED
  BY <1>3, <1>4

(***************************************************************************)
(* A step that leaves what the calls were given and read, moves one call   *)
(* and replaces the item of its user, or nothing.                          *)
(***************************************************************************)
LEMMA ReplaceKeeps ==
  ASSUME Inv, NEW c \in Call, pc[c] \notin {"new"}, pc'[c] \in Ended,
         NEW item \in {None} \cup Seq(Fact),
         SetOf(item) \subseteq Told(user[c]), Distinct(FactsOf(item)),
         Replace(c, item),
         pc' = [pc EXCEPT ![c] = pc'[c]],
         UNCHANGED <<op, user, fact, read>>,
         reply' \in [Call -> Seq(Fact)], failed' \in [Call -> BOOLEAN]
  PROVE  Inv'
<1> USE DEF Ended
<1>1. user[c] \in User /\ items \in [User -> {None} \cup Seq(Fact)]
      /\ missed \in [Call -> SUBSET Fact]
  BY DEF Inv, MemoryTypeOK, Started
<1>2. /\ items' = [items EXCEPT ![user[c]] = item]
      /\ \A u \in User : Told(u)' = Told(u)
  BY DEF Replace, Told
<1>3. SetOf(items[user[c]]) \subseteq Fact /\ SetOf(item) \subseteq Fact
  BY <1>1, ElemsOfItem
<1>4. MemoryTypeOK'
  <2>1. missed' \in [Call -> SUBSET Fact]
    BY <1>1, <1>3 DEF Replace, Changed
  <2> QED
    BY <1>1, <1>2, <2>1 DEF Inv, MemoryTypeOK
<1>5. \A u \in User : ItemOK(u)'
  BY <1>1, <1>2 DEF Inv, ItemOK, SetOf, FactsOf, Distinct
<1>6. ASSUME NEW d \in Call
      PROVE  Started(d)' /\ Knows(d)'
  <2>1. Started(d)'
    BY DEF Inv, Started, MemoryTypeOK
  <2>2. CASE pc'[d] # "write"
    BY <2>1, <2>2 DEF Knows
  <2>3. CASE pc'[d] = "write"
    <3>1. d # c /\ pc[d] = "write" /\ user[d] \in User
      BY <2>3 DEF Inv, MemoryTypeOK, Started
    <3>2. Knows(d)
      BY DEF Inv
    <3>3. CASE user[d] # user[c]
      <4>1. missed'[d] = missed[d] /\ items'[user[d]] = items[user[d]]
        BY <1>1, <1>2, <3>1, <3>3 DEF Replace
      <4>2. SetOf(items'[user[d]]) = SetOf(items[user[d]])
        BY <4>1
      <4> QED
        BY <1>2, <2>1, <3>1, <3>2, <4>1, <4>2 DEF Knows, Distinct, Elems
    <3>4. CASE user[d] = user[c]
      <4>1. /\ missed'[d] = missed[d] \cup Changed(items[user[c]], item)
            /\ items'[user[d]] = item
        BY <1>1, <1>2, <3>1, <3>4 DEF Replace
      <4>2. /\ SetOf(items'[user[d]]) = SetOf(item)
            /\ SetOf(items[user[d]]) = SetOf(items[user[c]])
        BY <3>4, <4>1
      <4> QED
        BY <1>2, <2>1, <3>1, <3>2, <4>1, <4>2 DEF Knows, Changed, Distinct, Elems
    <3> QED
      BY <3>3, <3>4
  <2> QED
    BY <2>1, <2>2, <2>3
<1> QED
  BY <1>4, <1>5, <1>6 DEF Inv

LEMMA BeginKeeps ==
  ASSUME Inv, NEW c \in Call, NEW o \in WithFact \cup WithoutFact, NEW u \in User,
         NEW f \in Fact \cup {None}, Begin(c, o, u, f)
  PROVE  Inv'
<1> USE DEF Begin
<1>1. /\ FirstStep(o) \in {"read", "erase", "raised"}
      /\ FirstStep(o) = "read" => o \in WithFact \cup {"get_memories"}
      /\ FirstStep(o) = "erase" => o = "clear_memories"
  BY DEF FirstStep, WithFact, WithoutFact
<1>2. MemoryTypeOK'
  BY <1>1 DEF Inv, MemoryTypeOK, Ended
<1>3. \A v \in User : Told(v) \subseteq Told(v)'
  BY NoneAssumption DEF Inv, MemoryTypeOK, Started, Told
<1>4. \A v \in User : ItemOK(v)'
  BY <1>3 DEF Inv, ItemOK, SetOf, FactsOf, Distinct
<1>5. ASSUME NEW d \in Call
      PROVE  Started(d)' /\ Knows(d)'
  <2>1. CASE d = c
    <3>1. pc'[d] = FirstStep(o) /\ user'[d] = u /\ op'[d] = o /\ fact'[d] = f
      BY <2>1 DEF Inv, MemoryTypeOK
    <3> QED
      BY <1>1, <3>1 DEF Started, Knows
  <2>2. CASE d # c
    <3>1. /\ pc'[d] = pc[d] /\ user'[d] = user[d] /\ op'[d] = op[d]
          /\ fact'[d] = fact[d] /\ read'[d] = read[d] /\ missed'[d] = missed[d]
          /\ items' = items
      BY <2>2 DEF Inv, MemoryTypeOK
    <3>2. Started(d) /\ Knows(d) /\ (pc[d] = "write" => user[d] \in User)
      BY DEF Inv, Started
    <3>3. Started(d)'
      BY <3>1, <3>2 DEF Started
    <3>4. SetOf(items'[user'[d]]) = SetOf(items[user[d]])
      BY <3>1
    <3>5. pc[d] = "write" => Told(user[d]) \subseteq Told(user[d])'
      BY <1>3, <3>2
    <3> QED
      BY <3>1, <3>2, <3>3, <3>4, <3>5 DEF Knows, Distinct, Elems
  <2> QED
    BY <2>1, <2>2
<1> QED
  BY <1>2, <1>4, <1>5 DEF Inv

\* What a call answers is a list of facts.
LEMMA AnswerList ==
  ASSUME Inv, NEW c \in Call, pc[c] \in {"read", "write", "erase"},
         UNCHANGED <<op, fact>>, read'[c] \in Seq(Fact)
  PROVE  Answer(c) \in Seq(Fact)
<1>1. op[c] = "remember_fact" => fact[c] \in Fact
  BY DEF Inv, Started, WithFact
<1> QED
  BY <1>1, EmptySeq DEF Answer

LEMMA ReadItemKeeps ==
  ASSUME Inv, NEW c \in Call, ReadItem(c)
  PROVE  Inv'
<1> USE DEF ReadItem
<1>1. /\ user[c] \in User /\ items[user[c]] \in {None} \cup Seq(Fact)
      /\ op[c] \in WithFact \cup {"get_memories"}
  BY DEF Inv, MemoryTypeOK, Started
<1>2. /\ read'[c] = FactsOf(items[user[c]]) /\ read'[c] \in Seq(Fact)
      /\ \A d \in Call \ {c} : read'[d] = read[d]
  BY <1>1, ElemsOfItem DEF Inv, MemoryTypeOK
<1>3. SetOf(items[user[c]]) = Elems(read'[c])
  BY <1>1, <1>2, ElemsOfItem
<1>4. /\ pc'[c] \in {"returned", "write"} /\ \A d \in Call \ {c} : pc'[d] = pc[d]
      /\ pc' \in [Call -> {"new", "read", "write", "erase"} \cup Ended]
      /\ pc'[c] = "write" => ~NothingToWrite(c)
  BY DEF Return, Inv, MemoryTypeOK, Ended
<1>5. reply' \in [Call -> Seq(Fact)]
  BY <1>2, AnswerList DEF Return, Inv, MemoryTypeOK
<1>6. MemoryTypeOK'
  BY <1>2, <1>4, <1>5 DEF Inv, MemoryTypeOK
<1>7. \A u \in User : Told(u)' = Told(u)
  BY DEF Told
<1>8. \A u \in User : ItemOK(u)'
  BY <1>7 DEF Inv, ItemOK, SetOf, FactsOf, Distinct
<1>9. ASSUME NEW d \in Call
      PROVE  Started(d)' /\ Knows(d)'
  <2>1. CASE d = c
    <3>1. ItemOK(user[c])
      BY <1>1 DEF Inv
    <3>2. pc'[c] = "write" => /\ op[c] \in WithFact
                              /\ op[c] = "remember_fact" => fact[c] \notin SetOf(items[user[c]])
      BY <1>1, <1>4 DEF NothingToWrite
    <3>3. Started(c)'
      BY <1>1, <1>4, <3>2 DEF Inv, Started
    <3>4. SetOf(items'[user'[c]]) = Elems(read'[c])
      BY <1>3
    <3>5. Distinct(read'[c]) /\ Elems(read'[c]) \subseteq Told(user[c])'
      BY <1>1, <1>2, <1>3, <1>7, <3>1 DEF ItemOK
    <3> QED
      BY <1>3, <2>1, <3>2, <3>3, <3>4, <3>5 DEF Knows, Distinct, Elems
  <2>2. CASE d # c
    <3>1. pc'[d] = pc[d] /\ read'[d] = read[d] /\ Started(d) /\ Knows(d)
      BY <1>2, <1>4, <2>2 DEF Inv
    <3> QED
      BY <1>7, <3>1 DEF Started, Knows, SetOf, FactsOf, Distinct, Elems
  <2> QED
    BY <2>1, <2>2
<1> QED
  BY <1>6, <1>8, <1>9 DEF Inv

\* A return changes the place and the reply of the call.
LEMMA ReturnMoves ==
  ASSUME Inv, NEW c \in Call, pc[c] \in {"read", "write", "erase"}, Return(c),
         UNCHANGED <<op, fact, read>>
  PROVE  /\ pc' = [pc EXCEPT ![c] = pc'[c]] /\ pc'[c] \in Ended
         /\ reply' \in [Call -> Seq(Fact)]
<1>1. read'[c] \in Seq(Fact)
  BY DEF Inv, MemoryTypeOK
<1> QED
  BY <1>1, AnswerList DEF Return, Inv, MemoryTypeOK, Ended

LEMMA WriteItemKeeps ==
  ASSUME Inv, NEW c \in Call, WriteItem(c)
  PROVE  Inv'
<1>1. pc[c] = "write" /\ Replace(c, Computed(c)) /\ Return(c)
      /\ UNCHANGED <<op, user, fact, read>> /\ failed' \in [Call -> BOOLEAN]
  BY DEF WriteItem, Inv, MemoryTypeOK
<1>2. /\ Computed(c) \in Seq(Fact) /\ Distinct(FactsOf(Computed(c)))
      /\ SetOf(Computed(c)) \subseteq Told(user[c])
  BY <1>1, ComputedList, ElemsOfItem
<1> QED
  BY <1>1, <1>2, ReturnMoves, ReplaceKeeps

LEMMA NoItem == SetOf(None) = {} /\ Distinct(FactsOf(None))
  BY DEF SetOf, FactsOf, Distinct

LEMMA EraseItemKeeps ==
  ASSUME Inv, NEW c \in Call, EraseItem(c)
  PROVE  Inv'
<1>1. pc[c] = "erase" /\ Replace(c, None) /\ Return(c)
      /\ UNCHANGED <<op, user, fact, read>> /\ failed' \in [Call -> BOOLEAN]
  BY DEF EraseItem, Inv, MemoryTypeOK
<1> QED
  BY <1>1, NoItem, ReturnMoves, ReplaceKeeps

\* Calls that end without a write, or a step that changes nothing.
LEMMA EndKeeps ==
  ASSUME Inv,
         \A d \in Call : pc'[d] = pc[d] \/ (pc[d] # "new" /\ pc'[d] \in Ended),
         pc' \in [Call -> {"new", "read", "write", "erase"} \cup Ended],
         UNCHANGED <<items, op, user, fact, read, missed>>,
         reply' \in [Call -> Seq(Fact)], failed' \in [Call -> BOOLEAN]
  PROVE  Inv'
<1>1. MemoryTypeOK'
  BY DEF Inv, MemoryTypeOK
<1>2. \A u \in User : Told(u)' = Told(u)
  BY DEF Told
<1>3. \A u \in User : ItemOK(u)'
  BY <1>2 DEF Inv, ItemOK, SetOf, FactsOf, Distinct
<1>4. ASSUME NEW d \in Call
      PROVE  Started(d)' /\ Knows(d)'
  <2>1. Started(d) /\ Knows(d)
    BY DEF Inv
  <2>2. Started(d)'
    BY <2>1 DEF Ended, Started
  <2>3. CASE pc'[d] = pc[d]
    <3>1. SetOf(items'[user'[d]]) = SetOf(items[user[d]])
      OBVIOUS
    <3>2. pc[d] = "write" => Told(user[d])' = Told(user[d])
      BY <1>2, <2>1 DEF Started
    <3> QED
      BY <2>1, <2>2, <2>3, <3>1, <3>2 DEF Knows, Distinct, Elems
  <2>4. CASE pc'[d] \in Ended
    BY <2>2, <2>4 DEF Ended, Knows
  <2> QED
    BY <2>2, <2>3, <2>4
<1> QED
  BY <1>1, <1>3, <1>4 DEF Inv

LEMMA StoreRaisesKeeps ==
  ASSUME Inv, NEW c \in Call, StoreRaises(c)
  PROVE  Inv'
<1>1. /\ pc[c] \in {"read", "write", "erase"} /\ Return(c)
      /\ UNCHANGED <<op, user, fact, read>> /\ failed' \in [Call -> BOOLEAN]
  BY DEF StoreRaises, Inv, MemoryTypeOK
<1>2. /\ pc' = [pc EXCEPT ![c] = pc'[c]] /\ pc'[c] \in Ended
      /\ reply' \in [Call -> Seq(Fact)]
  BY <1>1, ReturnMoves
<1>3. CASE UNCHANGED <<items, missed>>
  <2>1. /\ \A d \in Call : pc'[d] = pc[d] \/ (pc[d] # "new" /\ pc'[d] \in Ended)
        /\ pc' \in [Call -> {"new", "read", "write", "erase"} \cup Ended]
    BY <1>1, <1>2 DEF Inv, MemoryTypeOK
  <2> QED
    BY <1>1, <1>2, <1>3, <2>1, EndKeeps
<1>4. CASE pc[c] = "write" /\ Replace(c, Computed(c))
  <2>1. /\ Computed(c) \in Seq(Fact) /\ Distinct(FactsOf(Computed(c)))
        /\ SetOf(Computed(c)) \subseteq Told(user[c])
    BY <1>4, ComputedList, ElemsOfItem
  <2> QED
    BY <1>1, <1>2, <1>4, <2>1, ReplaceKeeps
<1>5. CASE pc[c] = "erase" /\ Replace(c, None)
  BY <1>1, <1>2, <1>5, NoItem, ReplaceKeeps
<1> QED
  BY <1>3, <1>4, <1>5 DEF StoreRaises

LEMMA AbortKeeps ==
  ASSUME Inv, NEW c \in Call, Abort(c)
  PROVE  Inv'
<1>1. /\ \A d \in Call : pc'[d] = pc[d] \/ (pc[d] # "new" /\ pc'[d] \in Ended)
      /\ pc' \in [Call -> {"new", "read", "write", "erase"} \cup Ended]
      /\ UNCHANGED <<items, op, user, fact, read, missed>>
      /\ reply' \in [Call -> Seq(Fact)] /\ failed' \in [Call -> BOOLEAN]
  BY DEF Abort, Inv, MemoryTypeOK, Ended
<1> QED
  BY <1>1, EndKeeps

LEMMA StutterKeeps == Inv /\ UNCHANGED memoryVars => Inv'
<1> SUFFICES ASSUME Inv, UNCHANGED memoryVars PROVE Inv'
  OBVIOUS
<1>1. /\ pc' = pc /\ UNCHANGED <<items, op, user, fact, read, missed>>
      /\ reply' \in [Call -> Seq(Fact)] /\ failed' \in [Call -> BOOLEAN]
      /\ pc' \in [Call -> {"new", "read", "write", "erase"} \cup Ended]
  BY DEF memoryVars, Inv, MemoryTypeOK
<1> QED
  BY <1>1, EndKeeps

LEMMA NextInv == Inv /\ [MemoryNext]_memoryVars => Inv'
<1> SUFFICES ASSUME Inv, [MemoryNext]_memoryVars PROVE Inv'
  OBVIOUS
<1>1. ASSUME NEW c \in Call, NEW o \in WithFact \cup WithoutFact, NEW u \in User,
             NEW f \in Fact \cup {None}, Begin(c, o, u, f)
      PROVE  Inv'
  BY <1>1, BeginKeeps
<1>2. ASSUME NEW c \in Call, CallStep(c)
      PROVE  Inv'
  BY <1>2, ReadItemKeeps, WriteItemKeeps, EraseItemKeeps DEF CallStep
<1>3. ASSUME NEW c \in Call, StoreRaises(c) \/ Abort(c)
      PROVE  Inv'
  BY <1>3, StoreRaisesKeeps, AbortKeeps
<1>4. CASE UNCHANGED memoryVars
  BY <1>4, StutterKeeps
<1> QED
  BY <1>1, <1>2, <1>3, <1>4 DEF MemoryNext

----------------------------------------------------------------------------
(***************************************************************************)
(* What a step of one call may do to the items and to the answers.         *)
(***************************************************************************)
\* Only a call that writes leaves its write with a change of the item.
LEMMA OwnWrite ==
  ASSUME Inv, MemoryNext, NEW c \in Call, Writes(c)
  PROVE  items' = [items EXCEPT ![user[c]] = Computed(c)]
<1>1. ASSUME NEW d \in Call, d # c
      PROVE  /\ ~ReadItem(d) /\ ~WriteItem(d) /\ ~EraseItem(d)
             /\ ~StoreRaises(d) /\ ~Abort(d)
             /\ \A o, u, f : ~Begin(d, o, u, f)
  BY <1>1 DEF Writes, Inv, MemoryTypeOK, ReadItem, WriteItem, EraseItem, StoreRaises,
              Abort, Begin, Return
<1>2. /\ \A o, u, f : ~Begin(c, o, u, f)
      /\ ~ReadItem(c) /\ ~EraseItem(c) /\ ~Abort(c)
  BY DEF Writes, Begin, ReadItem, EraseItem, Abort
<1>3. WriteItem(c) \/ StoreRaises(c)
  BY <1>1, <1>2 DEF MemoryNext, CallStep
<1> QED
  BY <1>3 DEF Writes, WriteItem, StoreRaises, Replace

LEMMA StaleWritesStep ==
  ASSUME Inv, MemoryNext, NEW c \in Call, Writes(c)
  PROVE  /\ SetOf(items'[user[c]]) \ Exact(c) \subseteq missed[c]
         /\ Exact(c) \ SetOf(items'[user[c]]) \subseteq missed[c]
<1>1. pc[c] = "write"
  BY DEF Writes
<1>2. /\ user[c] \in User /\ Computed(c) \in Seq(Fact)
      /\ Elems(Computed(c)) = IF op[c] = "remember_fact"
                              THEN Elems(read[c]) \cup {fact[c]}
                              ELSE Elems(read[c]) \ {fact[c]}
  BY <1>1, ComputedList
<1>3. SetOf(items'[user[c]]) = Elems(Computed(c))
  <2>1. items'[user[c]] = Computed(c)
    BY <1>2, OwnWrite DEF Inv, MemoryTypeOK
  <2> QED
    BY <1>2, <2>1, ElemsOfItem
<1>4. /\ Elems(read[c]) \ SetOf(items[user[c]]) \subseteq missed[c]
      /\ SetOf(items[user[c]]) \ Elems(read[c]) \subseteq missed[c]
  BY <1>1 DEF Inv, Knows
<1> QED
  BY <1>2, <1>3, <1>4 DEF Exact

LEMMA AnswersStep ==
  ASSUME Inv, MemoryNext, NEW c \in Call, Answers(c)
  PROVE  /\ op[c] = "remember_fact" =>
              reply'[c] = <<fact[c]>> /\ fact[c] \in SetOf(items'[user[c]])
         /\ op[c] = "get_memories" => reply'[c] = FactsOf(items'[user[c]])
<1> USE DEF Answers
<1>1. ASSUME NEW d \in Call, d # c
      PROVE  /\ ~ReadItem(d) /\ ~WriteItem(d) /\ ~EraseItem(d)
             /\ ~StoreRaises(d) /\ ~Abort(d)
             /\ \A o, u, f : ~Begin(d, o, u, f)
  BY <1>1 DEF Inv, MemoryTypeOK, ReadItem, WriteItem, EraseItem, StoreRaises,
              Abort, Begin, Return
<1>2. ~StoreRaises(c) /\ ~Abort(c)
  BY DEF Inv, MemoryTypeOK, StoreRaises, Abort
<1>3. \A o \in WithFact \cup WithoutFact : \A u, f : ~Begin(c, o, u, f)
  BY DEF Inv, MemoryTypeOK, Begin, FirstStep, WithFact, WithoutFact
<1>4. ReadItem(c) \/ WriteItem(c) \/ EraseItem(c)
  BY <1>1, <1>2, <1>3 DEF MemoryNext, CallStep
<1>5. ASSUME Return(c), UNCHANGED <<op, fact>>
      PROVE  /\ op[c] = "remember_fact" => reply'[c] = <<fact[c]>>
             /\ op[c] = "get_memories" => reply'[c] = read'[c]
  BY <1>5 DEF Return, Answer, Inv, MemoryTypeOK
<1>6. CASE ReadItem(c)
  <2>1. op[c] # "delete_memory" => Return(c) /\ NothingToWrite(c)
    BY <1>6 DEF ReadItem, Inv, MemoryTypeOK
  <2>2. read'[c] = FactsOf(items'[user[c]]) /\ items' = items
    BY <1>6 DEF ReadItem, Inv, MemoryTypeOK
  <2> QED
    BY <1>5, <1>6, <2>1, <2>2 DEF ReadItem, NothingToWrite
<1>7. CASE WriteItem(c)
  <2>1. pc[c] = "write" /\ op[c] \in WithFact /\ user[c] \in User
    BY <1>7 DEF WriteItem, Inv, Started
  <2>2. items'[user[c]] = Computed(c)
    BY <1>7, <2>1 DEF WriteItem, Replace, Inv, MemoryTypeOK
  <2>3. op[c] = "remember_fact" => fact[c] \in SetOf(items'[user[c]])
    BY <2>1, <2>2, ComputedList, ElemsOfItem
  <2> QED
    BY <1>5, <1>7, <2>1, <2>3 DEF WriteItem, WithFact
<1>8. CASE EraseItem(c)
  BY <1>8 DEF EraseItem, Inv, Started, MemoryTypeOK
<1> QED
  BY <1>4, <1>6, <1>7, <1>8

----------------------------------------------------------------------------
\* The inductive invariant holds.
THEOREM Invariant == MemorySpec => []Inv
<1> QED
  BY InitInv, NextInv, PTL DEF MemorySpec

\* The store's items are lists of facts, and every call is somewhere.
THEOREM TypeCorrect == MemorySpec => []MemoryTypeOK
<1>1. Inv => MemoryTypeOK
  BY DEF Inv
<1> QED
  BY <1>1, Invariant, PTL

\* save_memory ignores duplicates, however calls overlap.
THEOREM NoDuplicates == MemorySpec => []NoDuplicateFacts
<1>1. Inv => NoDuplicateFacts
  <2> SUFFICES ASSUME Inv, NEW u \in User
               PROVE  Len(FactsOf(items[u])) = Cardinality(SetOf(items[u]))
    BY DEF NoDuplicateFacts
  <2>1. items[u] \in {None} \cup Seq(Fact) /\ Distinct(FactsOf(items[u]))
    BY DEF Inv, MemoryTypeOK, ItemOK
  <2> QED
    BY <2>1, ElemsOfItem, DistinctCount
<1> QED
  BY <1>1, Invariant, PTL

\* What is remembered about a user was told about this user.
THEOREM OnlyTold == MemorySpec => []OnlyToldFacts
<1>1. Inv => OnlyToldFacts
  BY DEF Inv, ItemOK, OnlyToldFacts
<1> QED
  BY <1>1, Invariant, PTL

\* A stale write undoes at most the changes made between its read and itself.
THEOREM StaleWrites == MemorySpec => StaleWritesUndoOnlyTheirRivals
<1>1. Inv /\ [MemoryNext]_memoryVars =>
        [\A c \in Call : Writes(c) =>
           /\ SetOf(items'[user[c]]) \ Exact(c) \subseteq missed[c]
           /\ Exact(c) \ SetOf(items'[user[c]]) \subseteq missed[c]]_memoryVars
  BY StaleWritesStep
<1> QED
  BY <1>1, Invariant, PTL DEF MemorySpec, StaleWritesUndoOnlyTheirRivals

\* An answer is true when it is given, unless the store raised.
THEOREM TrueAnswers == MemorySpec => AnswersAreTrue
<1>1. Inv /\ [MemoryNext]_memoryVars =>
        [\A c \in Call : Answers(c) =>
           /\ op[c] = "remember_fact" =>
                reply'[c] = <<fact[c]>> /\ fact[c] \in SetOf(items'[user[c]])
           /\ op[c] = "get_memories" => reply'[c] = FactsOf(items'[user[c]])]_memoryVars
  BY AnswersStep
<1> QED
  BY <1>1, Invariant, PTL DEF MemorySpec, AnswersAreTrue
=============================================================================
