---------------------------- MODULE Compression ----------------------------
(***************************************************************************)
(* _extract_tail of agents/shared/memory/compression.py: where a           *)
(* conversation is cut into what a briefing replaces and the last turns,   *)
(* which are kept.  A message is its role and its text.  The variable      *)
(* messages is the conversation, message after message.                    *)
(***************************************************************************)
EXTENDS Integers, Sequences, SequencesExt, Positions

CONSTANTS Message,      \* the messages of conversations
          TailTurns,    \* the number of turns each engine keeps
          MaxMessages   \* bound on the length of the conversation

ASSUME MessageAssumption ==
  \A m \in Message : m.role \in {"human", "ai", "tool"}
ASSUME EngineAssumption == \A e \in DOMAIN TailTurns : TailTurns[e] \in Nat
ASSUME MaxMessagesAssumption == MaxMessages \in Nat

VARIABLE messages

(***************************************************************************)
(* The conversation cut in what is compressed and the tail that is kept.   *)
(* The code indexes the positions of the human messages from the end:      *)
(* [-tail_turns], which for 0 is the first position.                       *)
(***************************************************************************)
TurnBoundaries(conversation) ==
  Ascending({i \in DOMAIN conversation : conversation[i].role = "human"})
\* Mutant: one turn too many is kept.
ExtractTailOneMore(conversation, tail_turns) ==
  LET turns == TurnBoundaries(conversation)
      at == turns[Len(turns) - tail_turns]
  IN  IF Len(turns) <= tail_turns
      THEN [to_compress |-> <<>>, tail |-> conversation]
      ELSE [to_compress |-> SubSeq(conversation, 1, at - 1),
            tail |-> SubSeq(conversation, at, Len(conversation))]
ExtractTail(conversation, tail_turns) ==
  LET turns == TurnBoundaries(conversation)
      at == turns[IF tail_turns = 0 THEN 1 ELSE Len(turns) - tail_turns + 1]
  IN  IF Len(turns) <= tail_turns
      THEN [to_compress |-> <<>>, tail |-> conversation]
      ELSE [to_compress |-> SubSeq(conversation, 1, at - 1),
            tail |-> SubSeq(conversation, at, Len(conversation))]

----------------------------------------------------------------------------
CompressionInit == messages = <<>>
AddMessage(m) ==
  /\ Len(messages) < MaxMessages
  /\ messages' = Append(messages, m)
CompressionNext == \E m \in Message : AddMessage(m)
CompressionSpec == CompressionInit /\ [][CompressionNext]_messages

----------------------------------------------------------------------------
HumanCount(conversation) == Len(TurnBoundaries(conversation))

(***************************************************************************)
(* The cut loses no message and splits no turn: the tail is the shortest   *)
(* end of the conversation that holds the turns to keep, or all of it, and *)
(* it starts with a human message, so that no answer and no tool result is *)
(* kept without its question.  For an engine that keeps no turn only the   *)
(* first is claimed: the index -0 takes its first turn for the boundary.   *)
(***************************************************************************)
TailIsTheLastTurns ==
  \A e \in DOMAIN TailTurns :
    LET cut == ExtractTail(messages, TailTurns[e])
        kept == TailTurns[e]
    IN  /\ cut.to_compress \o cut.tail = messages
        /\ HumanCount(messages) <= kept => cut.to_compress = <<>>
        /\ HumanCount(messages) > kept /\ kept > 0 =>
             HumanCount(cut.tail) = kept /\ Head(cut.tail).role = "human"
============================================================================
