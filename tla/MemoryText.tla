----------------------------- MODULE MemoryText -----------------------------
(***************************************************************************)
(* The texts of dsh-memory (plugins/memory/pure.ts): how a checkpoint      *)
(* summary is cut into segments at harvest, and how nested echoes of the   *)
(* injected block are taken out again when it is rendered.                 *)
(*                                                                         *)
(* A text is a sequence of lines; a line is one of the forms the code      *)
(* tells apart.  Width gives a line's characters, the newline that joins   *)
(* two lines is one more.  The overheads are the code's 40 and 64, scaled. *)
(***************************************************************************)
EXTENDS Lists

CONSTANTS Width,          \* Width[l]: characters of a line
          HeaderOverhead, \* CONT_HEADER_OVERHEAD
          ContWidth,      \* characters of " (cont. i/N)"
          MarkerRoom,     \* room a truncation reserves for its marker
          MarkerWidth     \* characters of the marker

ASSUME WidthAssumption ==
  /\ \A l \in DOMAIN Width : Width[l] \in Nat
  /\ {HeaderOverhead, ContWidth, MarkerRoom, MarkerWidth} \subseteq Nat
  /\ ContWidth < HeaderOverhead /\ MarkerWidth < MarkerRoom

Blank      == ""
Fence      == "fence"
None       == "(none)"
Echo       == "## Project Memory"
Guidance   == "Knowledge from previous sessions"
Open       == "<project-memory>"
Close      == "</project-memory>"
Critical   == "## Critical Context"
Headings   == {Critical, "## Next Steps", "## Other", Echo}
Persistent == {Critical}
Volatile   == {"## Next Steps"}
Bullets    == {"- item"}
NoHeading  == ""

\* Lines with blanks behind them, and what replace(/\s+$/, '') leaves of a line.
Padded == {" ", "fence ", "more "}

stripped(line) ==
  CASE line = " " -> Blank [] line = "fence " -> Fence [] line = "more " -> "more" [] OTHER -> line

isFence(line) == stripped(line) = Fence
isBlank(line) == stripped(line) = Blank

Positions(lines, Test(_)) == {i \in DOMAIN lines : Test(lines[i])}

Chars(lines) == Total([i \in DOMAIN lines |-> Width[lines[i]]]) + Len(lines) - 1

\* Also String.trim, where no line is padded.
trimBlock(lines) ==
  LET solid == {i \in DOMAIN lines : ~isBlank(lines[i])}
  IN  IF solid = {} THEN <<>> ELSE SubSeq(lines, Min(solid), Max(solid))

\* The lines, or units, in blocks: a new one at the first and at each of starts.
Blocks(lines, starts) ==
  FoldLeftDomain(LAMBDA blocks, i :
    IF blocks = <<>> \/ i \in starts THEN Append(blocks, <<lines[i]>>)
    ELSE [blocks EXCEPT ![Len(blocks)] = Append(@, lines[i])], <<>>, lines)

Solid(blocks) == Picked(blocks, Positions(blocks, LAMBDA block : trimBlock(block) # <<>>))

-----------------------------------------------------------------------------
(* Harvest: sections, blocks, chunks.                                      *)

splitSummarySections(raw) ==
  Blocks(raw, Positions(raw, LAMBDA l : l \in Headings))

HeadingOf(section) == IF section[1] \in Headings THEN section[1] ELSE NoHeading
Body(section) == IF HeadingOf(section) = NoHeading THEN section ELSE Tail(section)

keptSections(raw) ==
  LET sections == splitSummarySections(raw)
      known    == \E i \in DOMAIN sections : HeadingOf(sections[i]) \in Persistent \cup Volatile
      Kept(s)  == \/ HeadingOf(s) = NoHeading
                  \/ /\ HeadingOf(s) \notin Volatile
                     /\ trimBlock(Body(s)) \notin {<<>>, <<None>>}
  IN  [known |-> known, sections |-> IF known THEN Picked(sections, Positions(sections, Kept)) ELSE sections]

\* A unit of a chunk: lines kept together, or cut down to a prefix of them and
\* a marker, so that it is cap characters at most where the marker has room.
Unit(lines) == [lines |-> lines, size |-> Chars(lines), cut |-> FALSE]

hardTruncateText(lines, cap) ==
  LET kept == IF cap > MarkerRoom THEN cap - MarkerRoom ELSE 0
  IN  [lines |-> lines, cut |-> TRUE,
       size |-> MarkerWidth + (IF kept > 0 THEN kept + 1 ELSE 0)]

headerAllowance(heading) == IF heading = NoHeading THEN 0 ELSE Width[heading] + HeaderOverhead

FitUnit(lines, cap, heading) ==
  LET room == cap - headerAllowance(heading)
  IN  IF Chars(lines) <= cap THEN Unit(lines)
      ELSE hardTruncateText(lines, IF room > 1 THEN room ELSE 1)

splitBulletBlocks(lines) ==
  LET blocks == Solid(Blocks(lines, Positions(lines, LAMBDA l : l \in Bullets)))
  IN  [i \in DOMAIN blocks |-> trimBlock(blocks[i])]

FencesUpTo(lines, i) == Cardinality({j \in 1..i : isFence(lines[j])})

\* Mutant of splitAtFences: a piece ends at every fence line.
splitAtEveryFence(lines) ==
  Solid(Blocks(lines, {i + 1 : i \in Positions(lines, isFence)}))

\* A piece ends at each closing fence line.
splitAtFences(lines) ==
  Solid(Blocks(lines, {i + 1 : i \in {j \in Positions(lines, isFence) : FencesUpTo(lines, j) % 2 = 0}}))

splitParagraphs(lines) ==
  LET blanks == Positions(lines, isBlank)
  IN  Solid(Blocks(lines, blanks \cup {i + 1 : i \in blanks}))

expandUnits(blocks, cap, heading) ==
  FlattenSeq([i \in DOMAIN blocks |->
    IF Chars(blocks[i]) <= cap THEN <<Unit(blocks[i])>>
    ELSE LET pieces == splitAtFences(blocks[i])
         IN  [j \in DOMAIN pieces |-> FitUnit(pieces[j], cap, heading)]])

ChunkChars(chunk) == Total([i \in DOMAIN chunk |-> chunk[i].size]) + Len(chunk) - 1

\* Greedy, in order; a chunk takes a unit if header and units fit the cap.
packChunks(units, cap, heading) ==
  LET begin[i \in DOMAIN units] ==   \* where the chunk of unit i begins
        IF i = 1 \/ ChunkChars(SubSeq(units, begin[i - 1], i)) + headerAllowance(heading) > cap
        THEN i ELSE begin[i - 1]
      chunks == Blocks(units, {i \in DOMAIN units : begin[i] = i})
  IN  [i \in DOMAIN chunks |-> [heading |-> heading, of |-> Len(chunks), chunk |-> chunks[i]]]

WholeSegment(section) ==
  [heading |-> HeadingOf(section), of |-> 1, chunk |-> <<Unit(Body(trimBlock(section)))>>]

segmentSection(section, cap) ==
  LET heading  == HeadingOf(section)
      body     == Body(section)
      bulleted == \E i \in DOMAIN body : body[i] \in Bullets
      blocks   == splitParagraphs(body)
      units    == IF bulleted THEN expandUnits(splitBulletBlocks(body), cap, heading)
                  ELSE [i \in DOMAIN blocks |-> FitUnit(blocks[i], cap, heading)]
  IN  CASE trimBlock(section) = <<>> -> <<>>
        [] trimBlock(section) # <<>> /\ Chars(trimBlock(section)) <= cap -> <<WholeSegment(section)>>
        [] OTHER -> packChunks(units, cap, heading)

\* A segment's place in the result is its segment_index.
segmentSummary(raw, cap) ==
  LET kept == keptSections(trimBlock(raw))
  IN  CASE trimBlock(raw) = <<>> -> <<>>
        [] trimBlock(raw) # <<>> /\ ~kept.known ->
             <<[heading |-> NoHeading, of |-> 1, chunk |-> <<Unit(trimBlock(raw))>>]>>
        [] OTHER -> FlattenSeq([i \in DOMAIN kept.sections |-> segmentSection(kept.sections[i], cap)])

-----------------------------------------------------------------------------
(* Render: echoes and blank lines.                                         *)

\* The line begins inside a fence.
FencedAt(lines, i) == FencesUpTo(lines, i - 1) % 2 = 1

First(S, otherwise) == IF S = {} THEN otherwise ELSE Min(S)

\* The lines of the echo whose heading is line i; none when it is only prose.
EchoSpan(lines, i) ==
  LET fences == Positions(lines, isFence)
      opener == IF \E k \in fences : k < i THEN Max({k \in fences : k < i}) ELSE 0
      only   == opener # 0 /\ \A k \in (opener + 1)..(i - 1) : isBlank(lines[k])
      open   == {k \in DOMAIN lines : k > i /\ lines[k] = Open}
      close  == {k \in DOMAIN lines : open # {} /\ k > Min(open) /\ lines[k] = Close}
  IN  CASE ~(lines[i] = Echo /\ i < Len(lines) /\ lines[i + 1] = Guidance) -> {}
        [] OTHER ->
             IF FencedAt(lines, i)
             THEN (IF only THEN opener ELSE i)..First({k \in fences : k > i}, Len(lines))
             ELSE IF close = {} THEN {} ELSE i..Min(close)

\* Mutant of stripFirstEcho: the opener of an echo's fence stays.
stripAfterOpener(lines) ==
  LET headings == {i \in DOMAIN lines : EchoSpan(lines, i) # {}}
  IN  IF headings = {} THEN lines
      ELSE SubSeq(lines, 1, Min(headings) - 1)
           \o SubSeq(lines, Max(EchoSpan(lines, Min(headings))) + 1, Len(lines))

stripFirstEcho(lines) ==
  LET headings == {i \in DOMAIN lines : EchoSpan(lines, i) # {}}
      span     == EchoSpan(lines, Min(headings))
  IN  IF headings = {} THEN lines
      ELSE SubSeq(lines, 1, Min(span) - 1) \o SubSeq(lines, Max(span) + 1, Len(lines))

\* String.trim, by lines; none of the forms begins with blanks.
trim(lines) ==
  LET block == trimBlock(lines)
  IN  [i \in DOMAIN block |-> IF i = Len(block) THEN stripped(block[i]) ELSE block[i]]

\* To a fixpoint: every pass takes at least two lines.
stripNestedMemoryEcho(lines) ==
  LET strip[n \in 0..Len(lines)] == IF n = 0 THEN lines ELSE stripFirstEcho(strip[n - 1])
      result == strip[Len(lines) \div 2]
  IN  IF result = lines THEN lines ELSE trim(result)

\* The lines without the blanks behind them, but as they are inside a fence.
Unpadded(lines) ==
  [i \in DOMAIN lines |-> IF FencedAt(lines, i) THEN lines[i] ELSE stripped(lines[i])]

\* Outside fences a run of blank lines becomes one.
Collapsed(lines) ==
  Picked(lines, {i \in DOMAIN lines : ~(/\ isBlank(lines[i]) /\ ~FencedAt(lines, i)
                                       /\ i > 1 /\ isBlank(lines[i - 1]))})

normalizeBlockWhitespace(lines) == Collapsed(Unpadded(lines))
=============================================================================
