---------------------------- MODULE ChunkParser ----------------------------
(***************************************************************************)
(* parse_profile_chunks of vector/chunks.py: the sections and blocks of a  *)
(* normalised profile, the chunks they become, and the tags, depth and     *)
(* period read from them.                                                  *)
(*                                                                         *)
(* A line is a mark and a value: "## v" (h2), "### v" (h3) or the text v.  *)
(* Heading names are taken up to case, as the code compares them           *)
(* lower-cased.  The value Blank stands for nothing on the line after the  *)
(* mark; a text line with that value is an empty line.  A value may        *)
(* mention fields anywhere in it, in any case: "Stack:", "Depth:" or       *)
(* "Period:", each with the rest of the line behind it.  So the line       *)
(* "Stack: redis" is a text, as is a sentence or a name with "stack:" in   *)
(* it.  The variable document is the profile as the language model writes  *)
(* it, line after line.                                                    *)
(***************************************************************************)
EXTENDS Integers, Sequences, FiniteSets, SequencesExt, FiniteSetsExt, Positions

CONSTANTS Line,        \* the lines a profile is written with
          Blank,       \* the value of a bare mark and of an empty line
          Mentions,    \* by value, the fields it mentions, from left to right
          LeadingDigit, \* by value, the digit it starts with, or Blank
          MaxLines     \* bound on the length of the document

Value == DOMAIN Mentions
Digits == {"0", "1", "2", "3", "4", "5", "6", "7", "8", "9"}

ASSUME LineAssumption == Line \subseteq [mark : {"h2", "h3", "text"}, value : Value]
ASSUME MentionsAssumption ==
  /\ Mentions \in [Value -> Seq([field : {"stack", "depth", "period"}, rest : Value])]
  /\ Blank \in Value /\ Mentions[Blank] = <<>>
ASSUME LeadingDigitAssumption ==
  LeadingDigit \in [Value -> Digits \cup {Blank}] /\ LeadingDigit[Blank] = Blank
ASSUME MaxLinesAssumption == MaxLines \in Nat

VARIABLE document

Text(v) == [mark |-> "text", value |-> v]
Strip(lines) ==
  LET filled == {i \in DOMAIN lines : lines[i] # Text(Blank)}
  IN  IF filled = {} THEN <<>> ELSE SubSeq(lines, Min(filled), Max(filled))

(***************************************************************************)
(* The matches of "^##\s+(.+)$": \s+ runs over line ends, so a bare mark   *)
(* takes the next line that is not empty, whatever it is, as its name, and *)
(* the search goes on behind that line.                                    *)
(***************************************************************************)
LastLine(lines, i) ==          \* the line on which a match at line i ends
  IF lines[i].value # Blank THEN {i}
  ELSE LET filled == {j \in i + 1 .. Len(lines) : lines[j] # Text(Blank)}
       IN  IF filled = {} THEN {} ELSE {Min(filled)}
Captured(lines, i) ==          \* what (.+) matches there
  IF lines[i].value # Blank THEN Text(lines[i].value)
  ELSE lines[CHOOSE j \in LastLine(lines, i) : TRUE]

HeadingsFrom(lines, mark) ==   \* the matches from line i on
  LET from[i \in 1 .. Len(lines) + 1] ==
        IF i > Len(lines) THEN <<>>
        ELSE IF lines[i].mark = mark /\ LastLine(lines, i) # {}
        THEN LET j == CHOOSE k \in LastLine(lines, i) : TRUE
             IN  <<[start |-> i, end |-> j, name |-> Captured(lines, i)]>>
                   \o from[j + 1]
        ELSE from[i + 1]
  IN  from
Headings(lines, mark) == HeadingsFrom(lines, mark)[1]

\* Mutant: the first line behind a heading is taken for a part of it.
BodyOfWithoutFirst(lines, headings, n) ==
  Strip(SubSeq(lines, headings[n].end + 2,
               IF n < Len(headings) THEN headings[n + 1].start - 1
                                    ELSE Len(lines)))
\* Mutant: a body runs on to the end.
BodyOfToTheEnd(lines, headings, n) ==
  Strip(SubSeq(lines, headings[n].end + 1, Len(lines)))
\* Mutant: an off-by-one in the test for the last heading.
BodyOfOffByOne(lines, headings, n) ==
  Strip(SubSeq(lines, headings[n].end + 1,
               IF n < Len(headings) - 1 THEN headings[n + 1].start - 1
                                        ELSE Len(lines)))

\* What stands between heading number n and the next one.
BodyOf(lines, headings, n) ==
  Strip(SubSeq(lines, headings[n].end + 1,
               IF n < Len(headings) THEN headings[n + 1].start - 1
                                    ELSE Len(lines)))

(***************************************************************************)
(* The first match of "Stack:\s*(.+)" and the like in the text of a block, *)
(* its name in front: the pattern is not anchored, so any line may mention *)
(* the field at any place.  Again \s* runs over line ends: a mention with  *)
(* nothing behind it takes the next line that is not empty.  The group of  *)
(* "Depth:\s*(\d)" takes one digit, and without one the search goes on.   *)
(***************************************************************************)
Group(field, l) ==
  IF field # "depth" THEN l
  ELSE IF l.mark = "text" THEN Text(LeadingDigit[l.value]) ELSE Text(Blank)
Behind(block, i, mention) ==
  LET cut == [block EXCEPT ![i] = Text(mention.rest)]
  IN  IF LastLine(cut, i) = {} THEN Text(Blank) ELSE Captured(cut, i)
Reading(block, i, k, field) ==  \* at mention k of line i, if it matches
  LET mention == Mentions[block[i].value][k]
  IN  IF mention.field = field THEN Group(field, Behind(block, i, mention))
                               ELSE Text(Blank)
MatchesOn(block, i, field) ==
  {k \in DOMAIN Mentions[block[i].value] : Reading(block, i, k, field) # Text(Blank)}
Field(block, field) ==
  LET found == {i \in DOMAIN block : MatchesOn(block, i, field) # {}}
      i == Min(found)
  IN  IF found = {} THEN Text(Blank)
      ELSE Reading(block, i, Min(MatchesOn(block, i, field)), field)
ExtractStackTags(block) == Field(block, "stack")
ExtractPeriod(block)    == Field(block, "period")
ExtractDepth(block)     == Field(block, "depth")

----------------------------------------------------------------------------
\* The sections in which a whole section is one chunk, and those in which
\* every ### block is one, with the type of their chunks.
WholeSections == [identity |-> "identity", achievements |-> "achievement",
                  certifications |-> "certification"]
SplitSections == [skills |-> "skill", projects |-> "project",
                  experience |-> "experience"]
SectionOrder == <<"identity", "skills", "projects", "experience",
                  "achievements", "certifications">>

\* The sections by name: the last one wins when a heading is repeated.
Sections(doc) ==
  LET headings == Headings(doc, "h2")
      last(s) == Max({n \in DOMAIN headings : headings[n].name = Text(s)})
  IN  [s \in {t \in ToSet(SectionOrder) :
                \E n \in DOMAIN headings : headings[n].name = Text(t)}
         |-> BodyOf(doc, headings, last(s))]

SplitH3Blocks(section) ==
  LET headings == Headings(section, "h3")
  IN  [n \in DOMAIN headings |-> [name |-> headings[n].name,
                                  body |-> BodyOf(section, headings, n)]]

Chunk(type, name, body, tags, depth, period) ==
  [type |-> type, name |-> name, body |-> body,
   stack_tags |-> tags, depth_level |-> depth, period |-> period]

BlockChunk(type, block) ==
  LET text == <<block.name>> \o block.body
      none == Text(Blank)
  IN  Chunk(type, block.name, block.body, ExtractStackTags(text),
            IF type = "skill" THEN ExtractDepth(text) ELSE none,
            IF type = "experience" THEN ExtractPeriod(text) ELSE none)

SectionChunks(doc, s) ==
  LET sections == Sections(doc)
  IN  IF s \notin DOMAIN sections THEN <<>>
      ELSE IF s \in DOMAIN WholeSections
      THEN <<Chunk(WholeSections[s], Text(s), sections[s], Text(Blank),
                   Text(Blank), Text(Blank))>>
      ELSE LET blocks == SplitH3Blocks(sections[s])
           IN  [n \in DOMAIN blocks |-> BlockChunk(SplitSections[s], blocks[n])]

ParseProfileChunks(doc) ==
  FlattenSeq([n \in DOMAIN SectionOrder |-> SectionChunks(doc, SectionOrder[n])])

----------------------------------------------------------------------------
ParserInit == document = <<>>
WriteLine(l) ==
  /\ Len(document) < MaxLines
  /\ document' = Append(document, l)
ParserNext == \E l \in Line : WriteLine(l)
ParserSpec == ParserInit /\ [][ParserNext]_document

----------------------------------------------------------------------------
(***************************************************************************)
(* The reference: a profile that keeps to the schema of the normalisation  *)
(* prompt has a name behind every mark and something behind every field it *)
(* mentions, no section twice and, in a split section, nothing in front of *)
(* the first block.  Every line then belongs to the nearest heading above  *)
(* it, and a block states of a field what the first mention of it says, in *)
(* its heading or under it.                                                *)
(***************************************************************************)
Nearest(doc, i, marks) ==      \* the last line before i with such a mark
  Max({0} \cup {j \in 1 .. i - 1 : doc[j].mark \in marks})
LinesUnder(doc, h) ==
  LET marks == {doc[h].mark, "h2"}
  IN  Picked(doc, {i \in DOMAIN doc : /\ doc[i] # Text(Blank)
                                      /\ doc[i].mark \notin marks
                                      /\ Nearest(doc, i, marks) = h})

KeepsSchema(doc) ==
  /\ \A i \in DOMAIN doc : doc[i].mark # "text" => doc[i].value # Blank
  /\ \A i \in DOMAIN doc : \A k \in DOMAIN Mentions[doc[i].value] :
       Mentions[doc[i].value][k].rest # Blank
  /\ \A i, j \in DOMAIN doc :
       doc[i].mark = "h2" /\ doc[i] = doc[j] => i = j
  /\ \A i \in DOMAIN doc :
       \/ doc[i].mark \in {"h2", "h3"}
       \/ doc[i] = Text(Blank)
       \/ LET h == Nearest(doc, i, {"h2", "h3"})
          IN  h # 0 /\ doc[h].mark = "h2" => doc[h].value \notin DOMAIN SplitSections

Says(l, k, field) ==            \* what mention k on line l says of the field
  LET mention == Mentions[l.value][k]
  IN  IF mention.field = field THEN Group(field, Text(mention.rest)) ELSE Text(Blank)
Saying(l, field) == {k \in DOMAIN Mentions[l.value] : Says(l, k, field) # Text(Blank)}
FirstSaid(lines, field) ==
  LET rows == {i \in DOMAIN lines : Saying(lines[i], field) # {}}
      l == lines[Min(rows)]
  IN  IF rows = {} THEN Text(Blank) ELSE Says(l, Min(Saying(l, field)), field)

Expected(doc, s) ==
  LET section == {h \in DOMAIN doc : doc[h] = [mark |-> "h2", value |-> s]}
      blocks == {h \in DOMAIN doc : /\ doc[h].mark = "h3"
                                    /\ Nearest(doc, h, {"h2"}) \in section}
      rows == Ascending(IF s \in DOMAIN SplitSections THEN blocks ELSE section)
      none == Text(Blank)
  IN  [n \in DOMAIN rows |->
         LET name == Text(doc[rows[n]].value)
             own == LinesUnder(doc, rows[n])
             all == <<name>> \o own
         IN  [name |-> name, lines |-> own,
              tags |-> IF s \in DOMAIN SplitSections THEN FirstSaid(all, "stack") ELSE none,
              depth |-> IF s = "skills" THEN FirstSaid(all, "depth") ELSE none,
              period |-> IF s = "experience" THEN FirstSaid(all, "period") ELSE none]]

TypeOf(s) == IF s \in DOMAIN WholeSections THEN WholeSections[s]
                                           ELSE SplitSections[s]
Filled(lines) == Picked(lines, {i \in DOMAIN lines : lines[i] # Text(Blank)})
Found(doc, s) ==
  LET all == ParseProfileChunks(doc)
      chunks == Picked(all, {n \in DOMAIN all : all[n].type = TypeOf(s)})
  IN  [n \in DOMAIN chunks |->
         [name |-> chunks[n].name, lines |-> Filled(chunks[n].body),
          tags |-> chunks[n].stack_tags, depth |-> chunks[n].depth_level,
          period |-> chunks[n].period]]

\* What a section's heading stands over is the text or the name of a chunk.
NothingLost(doc) ==
  LET chunks == ParseProfileChunks(doc)
  IN  \A i \in DOMAIN doc :
        LET h == Nearest(doc, i, {"h2"})
        IN  /\ doc[i] # Text(Blank) /\ doc[i].mark # "h2"
            /\ h # 0 /\ doc[h].value \in ToSet(SectionOrder)
            => \E n \in DOMAIN chunks :
                 \/ doc[i] \in ToSet(chunks[n].body)
                 \/ doc[i].mark = "h3" /\ chunks[n].name = Text(doc[i].value)

(***************************************************************************)
(* A profile that keeps to the schema is indexed completely: the chunks of *)
(* each section are, in order, its blocks with all their lines, and with   *)
(* the tags, depth and period first said of each in its own name and lines *)
(* and in no other block's; and no line of a section is left out.          *)
(***************************************************************************)
ParsedAsWritten ==
  KeepsSchema(document) =>
    /\ \A s \in ToSet(SectionOrder) : Found(document, s) = Expected(document, s)
    /\ NothingLost(document)

(***************************************************************************)
(* Whatever the language model writes - bare headings, repeated sections,  *)
(* text in front of a block - no line is put into two chunks.              *)
(***************************************************************************)
Occurrences(lines, l) == Cardinality({i \in DOMAIN lines : lines[i] = l})
NoLineTwice ==
  LET chunks == ParseProfileChunks(document)
      indexed == FlattenSeq([n \in DOMAIN chunks |-> chunks[n].body])
  IN  \A l \in ToSet(indexed) \ {Text(Blank)} :
        Occurrences(indexed, l) <= Occurrences(document, l)

(***************************************************************************)
(* A line written at the end of any profile changes the chunks of the last *)
(* section only: nothing above it is parsed differently because of it.     *)
(***************************************************************************)
LastSection(doc) ==
  LET headings == Headings(doc, "h2")
  IN  IF headings = <<>> THEN {} ELSE {Last(headings).name}
OnlyTheLastSectionChanges ==
  [][\A s \in ToSet(SectionOrder) :
       Text(s) \in LastSection(document) \cup LastSection(document')
       \/ SectionChunks(document', s) = SectionChunks(document, s)]_document

============================================================================
