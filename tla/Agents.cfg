\* Concurrent memory calls, any short profile, any short conversation.
SPECIFICATION Spec
CONSTANTS
  User = {u1, u2}
  Fact = {f1, f2}
  Call = {k1, k2, k3}
  None = None
  StoreMayFail = TRUE
  Blank <- NoValue
  Line <- ProfileLines
  Mentions <- ProfileMentions
  LeadingDigit <- ProfileDigits
  MaxLines = 4
  Message <- ChatMessages
  TailTurns <- EngineTails
  MaxMessages = 6
INVARIANTS MemoryTypeOK NoDuplicateFacts OnlyToldFacts
INVARIANTS ParsedAsWritten NoLineTwice TailIsTheLastTurns
PROPERTIES StaleWritesUndoOnlyTheirRivals AnswersAreTrue OnlyTheLastSectionChanges
\* Calls are finite, profiles and conversations are bounded.
CHECK_DEADLOCK FALSE
