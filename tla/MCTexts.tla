------------------------------ MODULE MCTexts ------------------------------
(* Instances of Texts for TLC.  A line is one or two characters wide; under  *)
(* cap 9 two bullets share a chunk and four lines make a block too long.     *)
EXTENDS Texts

MCWidth == [l \in {Blank, Fence, None, Echo, Guidance, Open, Close, "- item", "more"} \cup Headings \cup Padded |->
              CASE l = Blank -> 0 [] l \in {Fence, None, " "} -> 1 [] OTHER -> 2]

MCSummary  == {"## Critical Context", "## Next Steps", "- item", "more", Fence, Blank, None}
MCBlock    == {Echo, Guidance, Open, Close, Fence, Blank, "more"} \cup Padded
\* Characters of one and of three bytes; a line begins with its role.
MCMessages == {<<1>>, <<1, 1>>, <<1, 3>>, <<1, 3, 1>>}

Plain(forms) == Entry!Text({"none"}, forms)
Typed(forms) == Entry!Text({"none", "lead", "trail"}, forms)
Optional(texts) == texts \cup {Entry!Absent}

\* Blanks around what is stored are trimmed when it is edited: stored texts have none.
MCRows ==
  [path: Optional(Plain({"empty", "relative", "absolute", "home"})),
   repository: Optional(Plain({"empty", "file", "url"})),
   branch: Optional(Plain({"empty", "bad", "name"})),
   refresh: {"absent", "always", "missing-only"}, description: Optional(Plain({"empty", "words"})),
   autoInclude: {"absent", "true", "false"}, hidden: BOOLEAN]

MCDrafts ==
  [alias: {"bad", "good"}, kind: {"local", "git"}, path: Plain({"relative"}) \cup Typed({"home"}),
   repository: Plain({"empty"}) \cup Typed({"file", "url"}),
   branch: Plain({"empty", "bad"}) \cup Typed({"name"}),
   description: Plain({"empty"}) \cup Entry!Text({"lead"}, {"words"}),
   autoInclude: BOOLEAN, alwaysRefresh: BOOLEAN]
=============================================================================
