--------------------------- MODULE LongTermMemory ---------------------------
(***************************************************************************)
(* The facts remembered about a user: get_memories, save_memory,           *)
(* delete_memory and clear_memories of agents/shared/memory/store.py over  *)
(* one item of the PostgreSQL store per user, and the tools of             *)
(* agents/shared/tools/memory_tool.py that an agent calls.                 *)
(*                                                                         *)
(* A call is a process; each of its steps ends at an await on the store.   *)
(* Calls of a user overlap: an agent's tool calls of one turn run          *)
(* concurrently, and a user may have several conversations.                *)
(***************************************************************************)
EXTENDS Integers, Sequences, Positions

CONSTANTS User, Fact, Call,
          None,          \* no item, no fact
          StoreMayFail   \* commands on the store may raise

ASSUME NoneAssumption == None \notin Fact \cup User \cup Seq(Fact)
ASSUME StoreMayFailAssumption == StoreMayFail \in BOOLEAN

VARIABLES
  items,    \* the facts in each user's item, or None when there is no item
  pc,       \* where each call is
  op,       \* what it was called for
  user,     \* for whom
  fact,     \* with which fact
  read,     \* the facts it read
  reply,    \* what it returned
  missed,   \* history: the facts of the user others changed since its read
  failed    \* history: the store raised in it

callVars == <<pc, op, user, fact, read, reply, missed, failed>>
memoryVars == <<items, pc, op, user, fact, read, reply, missed, failed>>

\* The functions of store.py, save_memory as its tool remember_fact calls it,
\* and the tool that reads.
WithFact == {"remember_fact", "delete_memory"}
WithoutFact == {"get_memories", "clear_memories", "get_long_term_memories"}
Ended == {"returned", "raised", "aborted"}

FactsOf(item) == IF item = None THEN <<>> ELSE item
SetOf(item) == {FactsOf(item)[i] : i \in DOMAIN FactsOf(item)}
\* The list comprehension of delete_memory: the facts that are not f.
Kept(facts, f) == {i \in DOMAIN facts : facts[i] # f}
Without(facts, f) == Picked(facts, Kept(facts, f))

MemoryTypeOK ==
  /\ items \in [User -> {None} \cup Seq(Fact)]
  /\ pc \in [Call -> {"new", "read", "write", "erase"} \cup Ended]
  /\ op \in [Call -> WithFact \cup WithoutFact \cup {None}]
  /\ user \in [Call -> User \cup {None}]
  /\ fact \in [Call -> Fact \cup {None}]
  /\ read \in [Call -> Seq(Fact)]
  /\ reply \in [Call -> Seq(Fact)]
  /\ missed \in [Call -> SUBSET Fact]
  /\ failed \in [Call -> BOOLEAN]

MemoryInit ==
  /\ items = [u \in User |-> None]
  /\ pc = [c \in Call |-> "new"]
  /\ op = [c \in Call |-> None]
  /\ user = [c \in Call |-> None]
  /\ fact = [c \in Call |-> None]
  /\ read = [c \in Call |-> <<>>]
  /\ reply = [c \in Call |-> <<>>]
  /\ missed = [c \in Call |-> {}]
  /\ failed = [c \in Call |-> FALSE]

(***************************************************************************)
(* A call begins.  The tool get_long_term_memories calls get_memories with *)
(* the keyword useR_id, which it does not have: the call raises before any *)
(* command.                                                                *)
(***************************************************************************)
FirstStep(o) == CASE o = "clear_memories" -> "erase"
                  [] o = "get_long_term_memories" -> "raised"
                  [] OTHER -> "read"
Begin(c, o, u, f) ==
  /\ pc[c] = "new"
  /\ o \in WithFact <=> f \in Fact
  /\ pc' = [pc EXCEPT ![c] = FirstStep(o)]
  /\ op' = [op EXCEPT ![c] = o]
  /\ user' = [user EXCEPT ![c] = u]
  /\ fact' = [fact EXCEPT ![c] = f]
  /\ UNCHANGED <<items, read, reply, missed, failed>>

(***************************************************************************)
(* The reply of a function: get_memories returns the facts, the others     *)
(* nothing.  remember_fact answers "Remembered: ..." with the fact         *)
(* whenever save_memory returns, and save_memory raises nothing.           *)
(***************************************************************************)
\* Mutant: the value of an item that is not there is returned.
AnswerItem(c) == CASE op[c] = "get_memories" -> items[user[c]]
                   [] op[c] = "remember_fact" -> <<fact[c]>>
                   [] OTHER -> <<>>
Answer(c) == CASE op[c] = "get_memories" -> read'[c]
               [] op[c] = "remember_fact" -> <<fact[c]>>
               [] OTHER -> <<>>
Return(c) ==
  /\ pc' = [pc EXCEPT ![c] = "returned"]
  /\ reply' = [reply EXCEPT ![c] = Answer(c)]

\* Mutant: no test whether the fact is there.
NothingToWriteUntested(c) ==
  \/ op[c] = "get_memories"
  \/ op[c] = "delete_memory" /\ items[user[c]] = None
\* Mutant: nothing is saved beside what is there.
NothingToWriteOnce(c) ==
  \/ op[c] = "get_memories"
  \/ op[c] = "remember_fact" /\ items[user[c]] # None
  \/ op[c] = "delete_memory" /\ items[user[c]] = None
\* aget returns, and the call goes on up to its next await.
NothingToWrite(c) ==
  \/ op[c] = "get_memories"
  \/ op[c] = "remember_fact" /\ fact[c] \in SetOf(items[user[c]])
  \/ op[c] = "delete_memory" /\ items[user[c]] = None
ReadItem(c) ==
  /\ pc[c] = "read"
  /\ read' = [read EXCEPT ![c] = FactsOf(items[user[c]])]
  /\ IF NothingToWrite(c) THEN Return(c)
     ELSE pc' = [pc EXCEPT ![c] = "write"] /\ UNCHANGED reply
  /\ UNCHANGED <<items, op, user, fact, missed, failed>>

(***************************************************************************)
(* An item is replaced: aput with the whole list computed from the read,   *)
(* or adelete.  Nothing is compared with the item as it is now.            *)
(***************************************************************************)
\* Mutant: a deletion leaves nothing.
ComputedEmpty(c) == IF op[c] = "remember_fact" THEN Append(read[c], fact[c])
                                               ELSE <<>>
Computed(c) == IF op[c] = "remember_fact" THEN Append(read[c], fact[c])
                                  ELSE Without(read[c], fact[c])
Changed(old, new) == (SetOf(old) \ SetOf(new)) \cup (SetOf(new) \ SetOf(old))
\* Mutant: the namespace is the same for all users.
ReplaceForAll(c, item) ==
  /\ items' = [u \in User |-> item]
  /\ UNCHANGED missed
Replace(c, item) ==
  /\ items' = [items EXCEPT ![user[c]] = item]
  /\ missed' = [d \in Call |-> IF pc[d] = "write" /\ d # c /\ user[d] = user[c]
                               THEN missed[d] \cup Changed(items[user[c]], item)
                               ELSE missed[d]]
WriteItem(c) ==
  /\ pc[c] = "write"
  /\ Replace(c, Computed(c))
  /\ Return(c)
  /\ UNCHANGED <<op, user, fact, read, failed>>
EraseItem(c) ==
  /\ pc[c] = "erase"
  /\ Replace(c, None)
  /\ Return(c)
  /\ UNCHANGED <<op, user, fact, read, failed>>

(***************************************************************************)
(* The store raises: the functions log a warning and return, get_memories  *)
(* with nothing.  A write that raises may have been applied.               *)
(***************************************************************************)
StoreRaises(c) ==
  /\ StoreMayFail
  /\ pc[c] \in {"read", "write", "erase"}
  /\ \/ UNCHANGED <<items, missed>>
     \/ pc[c] = "write" /\ Replace(c, Computed(c))
     \/ pc[c] = "erase" /\ Replace(c, None)
  /\ failed' = [failed EXCEPT ![c] = TRUE]
  /\ UNCHANGED <<op, user, fact, read>>
  /\ Return(c)

\* The worker dies, or the agent's run is cancelled.
Abort(c) ==
  /\ StoreMayFail
  /\ pc[c] \in {"read", "write", "erase"}
  /\ pc' = [pc EXCEPT ![c] = "aborted"]
  /\ UNCHANGED <<items, op, user, fact, read, reply, missed, failed>>

CallStep(c) == ReadItem(c) \/ WriteItem(c) \/ EraseItem(c)
MemoryNext ==
  \E c \in Call :
    \/ \E o \in WithFact \cup WithoutFact, u \in User, f \in Fact \cup {None} :
         Begin(c, o, u, f)
    \/ CallStep(c)
    \/ StoreRaises(c)
    \/ Abort(c)

MemorySpec == MemoryInit /\ [][MemoryNext]_memoryVars

----------------------------------------------------------------------------
(***************************************************************************)
(* save_memory ignores duplicates: however calls overlap, no fact is twice *)
(* in a user's list.                                                       *)
(***************************************************************************)
NoDuplicateFacts ==
  \A u \in User : Len(FactsOf(items[u])) = Cardinality(SetOf(items[u]))

(***************************************************************************)
(* What is remembered about a user was told about this user: no call, not  *)
(* even one that writes back an old list, brings in another user's facts.  *)
(***************************************************************************)
Told(u) == {fact[c] : c \in {d \in Call : user[d] = u /\ op[d] = "remember_fact"}}
OnlyToldFacts == \A u \in User : SetOf(items[u]) \subseteq Told(u)

(***************************************************************************)
(* The damage of overlapping calls is bounded: a write that puts back a    *)
(* stale list adds or removes its own fact, and undoes at most changes     *)
(* that other calls made between its read and its write.  A call with no   *)
(* such change in between has exactly its effect on the list as it is.     *)
(***************************************************************************)
Exact(c) == IF op[c] = "remember_fact" THEN SetOf(items[user[c]]) \cup {fact[c]}
                                       ELSE SetOf(items[user[c]]) \ {fact[c]}
Writes(c) == pc[c] = "write" /\ pc'[c] # "write" /\ items'[user[c]] # items[user[c]]
StaleWritesUndoOnlyTheirRivals ==
  [][\A c \in Call : Writes(c) =>
       /\ SetOf(items'[user[c]]) \ Exact(c) \subseteq missed[c]
       /\ Exact(c) \ SetOf(items'[user[c]]) \subseteq missed[c]]_memoryVars

(***************************************************************************)
(* An answer is true when it is given, unless the store raised: after      *)
(* "Remembered" the fact is stored, also when the call wrote nothing, and  *)
(* what get_memories returns is what is stored.                            *)
(***************************************************************************)
Answers(c) == pc[c] # "returned" /\ pc'[c] = "returned" /\ ~failed'[c]
AnswersAreTrue ==
  [][\A c \in Call : Answers(c) =>
       /\ op[c] = "remember_fact" =>
            reply'[c] = <<fact[c]>> /\ fact[c] \in SetOf(items'[user[c]])
       /\ op[c] = "get_memories" => reply'[c] = FactsOf(items'[user[c]])]_memoryVars
============================================================================
