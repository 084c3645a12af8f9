------------------------------ MODULE MCAgents ------------------------------
(***************************************************************************)
(* Instances for TLC of three parts the agents use.  They share no state,  *)
(* so that a behaviour moves one of them while the others stay initial:    *)
(* the states add up and do not multiply.                                  *)
(***************************************************************************)
EXTENDS LongTermMemory, ChunkParser, Compression

(***************************************************************************)
(* The lines of a profile: headings, bare ones among them; fields on lines *)
(* of their own, in a heading and in a sentence; a depth that is none in   *)
(* front of one with more behind its digit.                                *)
(***************************************************************************)
NoValue == "-"
Once(field, rest) == <<[field |-> field, rest |-> rest]>>
ProfileMentions ==
  "Stack: a" :> Once("stack", "a") @@ "Stack:" :> Once("stack", NoValue)
  @@ "Full Stack: 3" :> Once("stack", "3")
  @@ "Period: a" :> Once("period", "a")
  @@ "Depth:" :> Once("depth", NoValue)
  @@ "Depth: b, Depth: 4/5" :> Once("depth", "b, Depth: 4/5") \o Once("depth", "4/5")
  @@ "b, Depth: 4/5" :> Once("depth", "4/5")
  @@ [v \in {NoValue, "identity", "skills", "experience", "a", "3", "4/5"} |-> <<>>]
ProfileDigits == [v \in DOMAIN ProfileMentions |->
                    IF v = "3" THEN "3" ELSE IF v = "4/5" THEN "4" ELSE NoValue]
ProfileLines ==
  {[mark |-> "h2", value |-> v] : v \in {"identity", "skills", "experience", NoValue}}
  \cup {[mark |-> "h3", value |-> v] : v \in {"a", "Full Stack: 3", NoValue}}
  \cup {Text(v) : v \in {"Stack: a", "Stack:", "Period: a", "Depth:",
                         "Depth: b, Depth: 4/5", "3", "skills", NoValue}}

\* Messages of two answers; engines that keep no, one or two turns.
ChatMessages ==
  {[role |-> r, text |-> "x"] : r \in {"human", "ai", "tool"}}
  \cup {[role |-> "ai", text |-> "y"]}
EngineTails == [prep |-> 2, job |-> 1, none |-> 0]

agentVars == <<memoryVars, document, messages>>
NoCalls == \A c \in Call : pc[c] = "new"

Init == MemoryInit /\ ParserInit /\ CompressionInit
Remember == /\ MemoryNext
            /\ document = <<>> /\ messages = <<>>
            /\ UNCHANGED <<document, messages>>
Parse == /\ ParserNext
         /\ NoCalls /\ messages = <<>>
         /\ UNCHANGED <<memoryVars, messages>>
Converse == /\ CompressionNext
            /\ NoCalls /\ document = <<>>
            /\ UNCHANGED <<memoryVars, document>>
Next == Remember \/ Parse \/ Converse

Spec == Init /\ [][Next]_agentVars

=============================================================================
