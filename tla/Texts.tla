------------------------------- MODULE Texts -------------------------------
(***************************************************************************)
(* Every small summary, block text, conversation and reference entry: an   *)
(* input grows line by line, or message by message, or is an entry or a    *)
(* draft of one, and the invariants say what the functions of MemoryText,  *)
(* BtwText and ReferenceEntry make of it.                                  *)
(***************************************************************************)
EXTENDS MemoryText, BtwText

Entry == INSTANCE ReferenceEntry

CONSTANTS SummaryLines, BlockLines,  \* the lines of a summary; of a block
          MessageLines,              \* the lines messages are projected to
          Caps,                      \* entry caps
          Bytes,                     \* snapshot budgets
          Rows, Drafts,              \* reference entries as stored, as typed
          MaxSummary, MaxBlock, MaxMessages   \* bounds

\* Every line has a width, and a summary's no blanks behind it; caps are numbers.
ASSUME SegmentAssumption ==
  /\ SummaryLines \cup BlockLines \cup Headings \cup {"more", Guidance, Open, Close} \subseteq DOMAIN Width
  /\ SummaryLines \cap Padded = {} /\ Caps \subseteq Nat

\* A message's line is the widths of its characters; budgets are numbers.
ASSUME SnapshotAssumption == MessageLines \subseteq Seq(Nat) /\ Bytes \subseteq Nat

\* Texts of a form a person can write; a stored one has no blanks around it, or is absent.
Written == Entry!Text(STRING, STRING \ {"absent"})
Stored  == Entry!Text({"none"}, STRING)

ASSUME FormAssumption ==
  /\ Rows \subseteq [path: Stored, repository: Stored, branch: Stored, refresh: STRING,
                      description: Stored, autoInclude: {"absent", "true", "false"}, hidden: BOOLEAN]
  /\ Drafts \subseteq [alias: STRING, kind: {"local", "git"}, path: Written, repository: Written,
                        branch: Written, description: Written, autoInclude: BOOLEAN,
                        alwaysRefresh: BOOLEAN]

VARIABLES lines, messages,
          form        \* <<"row", an entry>>, <<"draft", a draft>> or <<>>

Init == lines = <<>> /\ messages = <<>> /\ form = <<>>

AddLine(alphabet, bound) ==
  /\ messages = <<>> /\ form = <<>> /\ Len(lines) < bound /\ ToSet(lines) \subseteq alphabet
  /\ \E line \in alphabet : lines' = Append(lines, line)
  /\ UNCHANGED <<messages, form>>

AddMessage ==
  /\ lines = <<>> /\ form = <<>> /\ Len(messages) < MaxMessages
  /\ \E line \in MessageLines : messages' = Append(messages, line)
  /\ UNCHANGED <<lines, form>>

ChooseForm ==
  /\ lines = <<>> /\ messages = <<>> /\ form = <<>>
  /\ form' \in ({"row"} \X Rows) \cup ({"draft"} \X Drafts)
  /\ UNCHANGED <<lines, messages>>

Next ==
  \/ AddLine(SummaryLines, MaxSummary) \/ AddLine(BlockLines, MaxBlock)
  \/ AddMessage \/ ChooseForm

Spec == Init /\ [][Next]_<<lines, messages, form>>

-----------------------------------------------------------------------------
NonBlank(text) == Picked(text, Positions(text, LAMBDA l : ~isBlank(l)))

\* Each line with the section it belongs to.
Under(heading, text) == [i \in DOMAIN NonBlank(text) |-> <<heading, NonBlank(text)[i]>>]

SegmentChars(segment) ==
  ChunkChars(segment.chunk) +
    (IF segment.heading = NoHeading THEN 0
     ELSE Width[segment.heading] + 1 + (IF segment.of > 1 THEN ContWidth ELSE 0))

UnitsOf(segments) == FlattenSeq([i \in DOMAIN segments |-> segments[i].chunk])

LinesOf(chunk) == FlattenSeq([j \in DOMAIN chunk |-> chunk[j].lines])

Shown(segment) == Under(segment.heading, LinesOf(segment.chunk))

\* Harvest loses nothing but what it says it truncates: the lines of the kept
\* sections are in the segments, in order and under their headings, and only a
\* unit over the cap is truncated.  A truncated unit counts here with all its lines;
\* what is stored of it is the beginning, and a marker that says so.
SegmentsKeepAll ==
  LET kept == keptSections(trimBlock(lines))
  IN  kept.known => \A cap \in Caps :
        LET segments == segmentSummary(lines, cap)
            units    == UnitsOf(segments)
        IN  /\ FlattenSeq([i \in DOMAIN segments |-> Shown(segments[i])])
               = FlattenSeq([i \in DOMAIN kept.sections |->
                   Under(HeadingOf(kept.sections[i]), Body(kept.sections[i]))])
            /\ \A i \in DOMAIN units : units[i].cut => Chars(units[i].lines) > cap

\* A segment, with the header it gets, fits the entry cap; alone a unit that
\* needs no truncation may exceed it, by its header, and a truncated one where
\* the cap leaves its marker no room.  A summary without a known heading stays
\* one segment of any length.
SegmentsFit ==
  keptSections(trimBlock(lines)).known =>
    \A cap \in Caps : \A i \in DOMAIN segmentSummary(lines, cap) :
      LET segment == segmentSummary(lines, cap)[i]
          most    == IF cap > MarkerWidth THEN cap ELSE MarkerWidth
      IN  SegmentChars(segment) <=
            IF Len(segment.chunk) = 1 THEN most + headerAllowance(segment.heading) ELSE cap

\* The fences of a section match, and no bullet or blank line inside one divides it.
WellFenced(text) ==
  /\ FencesUpTo(text, Len(text)) % 2 = 0
  /\ \A i \in DOMAIN text : ~(FencedAt(text, i) /\ (isBlank(text[i]) \/ text[i] \in Bullets))

\* No segment begins or ends inside a code fence, unless the section's fences
\* do not match, or a bullet or a blank line inside a fence divides it.
FencesStayWhole ==
  LET kept == keptSections(trimBlock(lines))
  IN  (kept.known /\ \A i \in DOMAIN kept.sections : WellFenced(kept.sections[i])) =>
        \A cap \in Caps : \A i \in DOMAIN UnitsOf(segmentSummary(lines, cap)) :
          LET unit == UnitsOf(segmentSummary(lines, cap))[i] IN
            unit.cut \/ FencesUpTo(unit.lines, Len(unit.lines)) % 2 = 0

\* What harvest stores of a summary.
SegmentsSound == SegmentsKeepAll /\ SegmentsFit /\ FencesStayWhole

BlockOf(text) == <<Echo, Guidance, Open>> \o text \o <<Close>>

\* The text a segment is stored with; a split section's header is numbered.
StoredText(segment) ==
  (CASE segment.heading = NoHeading -> <<>>
     [] segment.heading # NoHeading /\ segment.of > 1 -> <<"## (cont. i/N)">>
     [] OTHER -> <<segment.heading>>) \o LinesOf(segment.chunk)

\* A memory block quoted in a text that is stored in one piece (a note, a segment)
\* is not shown again: up to the next fence it is taken out of the prose around,
\* or, where it is quoted without one, up to its first closing tag.
QuotesVanish ==
  (\A l \in ToSet(lines) : ~isFence(l)) =>
    /\ stripNestedMemoryEcho(<<"more", Fence>> \o BlockOf(lines) \o <<Fence, "more">>) = <<"more", "more">>
    /\ stripNestedMemoryEcho(<<Fence>> \o BlockOf(lines) \o <<Fence>>) = <<>>
    /\ Close \notin ToSet(lines) =>
         stripNestedMemoryEcho(<<"more">> \o BlockOf(lines) \o <<"more">>) = <<"more", "more">>

\* A summary that quotes a block behind a section of its own.
Quoting(text) == <<Critical, "more">> \o BlockOf(text)

\* From harvest to the next block: where the quoted block has no heading, fence
\* or closing tag inside and fits the entry cap, it is a segment of its own, of
\* which nothing is shown.  One with a heading inside is stored in pieces, one over
\* the cap under numbered headers, and what is stored so is not recognised.
HarvestedQuotesVanish ==
  (\A l \in ToSet(lines) : ~isFence(l) /\ l \notin Headings \cup {Close}) =>
    \A cap \in Caps : Chars(BlockOf(lines)) <= cap =>
      \A i \in DOMAIN segmentSummary(Quoting(lines), cap) :
        LET segment == segmentSummary(Quoting(lines), cap)[i] IN
          segment.heading = Echo => stripNestedMemoryEcho(StoredText(segment)) = <<>>

\* What is left of a text if only blank lines and trailing blanks outside fences
\* do not count, each line with where it is.
Content(text) ==
  LET place(i) == IF FencedAt(text, i) THEN "fenced" ELSE "prose"
  IN  Picked([i \in DOMAIN text |-> <<place(i), Unpadded(text)[i]>>],
             {i \in DOMAIN text : FencedAt(text, i) \/ ~isBlank(text[i])})

\* Normalizing a block changes nothing but runs of blank lines and trailing
\* blanks outside fences, and normalizing it again nothing at all.
BlockNormal ==
  LET text == normalizeBlockWhitespace(lines)
  IN  /\ Content(text) = Content(lines)
      /\ normalizeBlockWhitespace(text) = text

\* What a block is made of.
BlockSound == QuotesVanish /\ HarvestedQuotesVanish /\ BlockNormal

\* A snapshot never exceeds its budget, though separators, partial lines and
\* wide characters all count.
SnapshotFits == \A b \in Bytes : selectSnapshotSegments(messages, b).bytes <= b

\* No message is kept whole at both ends of a snapshot, nor whole at one and in
\* part at the other.  In part at both ends it can be kept, the same part then.
EndsDisjoint ==
  \A b \in Bytes :
    LET s == selectSnapshotSegments(messages, b) IN
      \A p \in ToSet(s.head), q \in ToSet(s.tail) :
        p.line = q.line => Whole(messages, p.line) \notin {p, q}

\* The messages of which a snapshot shows nothing.
Unshown(s) ==
  {i \in DOMAIN messages : \A piece \in ToSet(s.head) \cup ToSet(s.tail) : piece.line # i}

\* The count of omitted messages is that of the messages not shown, or one less,
\* the latter only if the head ends with a whole message, or has none: then the
\* message behind it is skipped uncounted.
OmissionsCounted ==
  \A b \in Bytes :
    LET s == selectSnapshotSegments(messages, b)
        unshown == Cardinality(Unshown(s))
    IN  \/ s.omittedMessages = unshown
        \/ /\ s.omittedMessages = unshown - 1
           /\ s.head # <<>> => s.head[Len(s.head)] = Whole(messages, s.head[Len(s.head)].line)

\* What /btw carries of another session.
SnapshotSound == SnapshotFits /\ EndsDisjoint /\ OmissionsCounted

\* What the settings page accepts of a draft, the host accepts and serves to it
\* unchanged, and editing it again shows what was typed, short of blanks and of
\* the other kind's fields.
DraftSurvives ==
  (form # <<>> /\ form[1] = "draft" /\ ~Entry!draftErrors(form[2], FALSE)) =>
    LET d == form[2]
        e == Entry!entryOf(d)
        again == Entry!openEdit(d.alias, Entry!normalizeTable(e))
    IN  /\ ~Entry!Rejected(d.alias, e)
        /\ Entry!normalizeTable(e) # Entry!Dropped
        /\ Entry!entryOf(again) = e
        /\ again.kind = d.kind /\ again.description = Entry!trim(d.description)

\* Opening a row the host accepts, as the form or an older version wrote it, with no
\* blanks around its texts, and saving it as it is changes nothing the plugin sees.
EditKeepsEntry ==
  (form # <<>> /\ form[1] = "row" /\ ~Entry!Rejected("good", form[2])) =>
    LET entry == Entry!normalizeTable(form[2])
        draft == Entry!openEdit("good", entry)
    IN  /\ ~Entry!draftErrors(draft, FALSE)
        /\ Entry!normalizeTable(Entry!entryOf(draft)) = entry
        /\ form[2].autoInclude # "absent" => entry.autoInclude = (form[2].autoInclude = "true")

\* The settings form neither loses nor changes an entry.
FormRoundTrip == DraftSurvives /\ EditKeepsEntry

-----------------------------------------------------------------------------
(* What a comment says and the code does not do; a run refutes it.         *)

\* "Per-entry refresh wins": the policy of a git entry that names one is that one.
OverrideWins ==
  (form # <<>> /\ form[1] = "row" /\ form[2].refresh # "absent" /\ form[2].repository # Entry!Absent
     /\ ~Entry!Rejected("good", form[2])) =>
    \A default \in {"always", "missing-only"} :
      Entry!RefreshOf(Entry!normalizeTable(form[2]), default) = form[2].refresh
=============================================================================
