--------------------------- MODULE ReferenceEntry ---------------------------
(***************************************************************************)
(* The shapes a reference entry takes (plugins/reference): as it stands in *)
(* the table, normalized, as a draft of the settings page and as a spec to *)
(* materialize.  A text is its form and where it has surrounding blanks.   *)
(***************************************************************************)
EXTENDS Naturals, FiniteSets

Text(blanks, forms) == [blank: blanks, form: forms]
Empty  == [blank |-> "none", form |-> "empty"]
Absent == [blank |-> "none", form |-> "absent"]

trim(text) == [text EXCEPT !.blank = "none"]
IsEmpty(text) == text = Empty

-----------------------------------------------------------------------------
(* What a stored entry may be.                                             *)

aliasValidationError(alias) == alias \notin {"good", "other"}

referencePathError(path) == path.blank = "lead" \/ path.form \notin {"absolute", "home"}

isFileRepository(repository) == repository.blank # "lead" /\ repository.form = "file"

branchValidationError(branch) == branch.blank # "none" \/ branch.form # "name"

\* Exactly one of path and repository; an empty branch is the default branch.
entryShapeError(e) ==
  \/ (e.path # Absent) = (e.repository # Absent)
  \/ /\ e.repository # Absent
     /\ \/ IsEmpty(e.repository) \/ isFileRepository(e.repository)
        \/ e.branch \notin {Absent, Empty} /\ branchValidationError(e.branch)

\* validateReferenceTable, of one row.
Rejected(alias, e) ==
  \/ aliasValidationError(alias) \/ entryShapeError(e)
  \/ e.path # Absent /\ referencePathError(e.path)

-----------------------------------------------------------------------------
(* Normalized.                                                             *)

Dropped == [dropped |-> TRUE]
NotEmpty(text) == IF IsEmpty(text) THEN Absent ELSE text

\* normalizeTable, of one row: an explicit autoInclude beats the legacy hidden, empty
\* fields become absent, a row of neither form is dropped.
normalizeTable(e) ==
  LET auto == IF e.autoInclude # "absent" THEN e.autoInclude = "true" ELSE ~e.hidden IN
  IF e.path # Absent
  THEN [path |-> e.path, repository |-> Absent, branch |-> Absent, refresh |-> "absent",
        description |-> NotEmpty(e.description), autoInclude |-> auto]
  ELSE IF e.repository = Absent \/ IsEmpty(e.repository) \/ isFileRepository(e.repository) THEN Dropped
  ELSE [path |-> Absent, repository |-> e.repository, branch |-> NotEmpty(e.branch),
        refresh |-> IF e.refresh = "always" THEN "always" ELSE "absent",
        description |-> NotEmpty(e.description), autoInclude |-> auto]

\* gitSpecsOf: the policy of a normalized git entry.
RefreshOf(entry, defaultRefresh) == IF entry.refresh = "absent" THEN defaultRefresh ELSE entry.refresh

-----------------------------------------------------------------------------
(* Drafts.                                                                 *)

\* What the shape rule gets of a git draft.
DraftShape(d) ==
  [path |-> Absent, repository |-> trim(d.repository), branch |-> NotEmpty(trim(d.branch))]

draftErrors(d, alreadyTaken) ==
  \/ aliasValidationError(d.alias) \/ alreadyTaken
  \/ IF d.kind = "local" THEN referencePathError(d.path) ELSE entryShapeError(DraftShape(d))

\* The stored entry; hidden is no longer written.
entryOf(d) ==
  LET git == d.kind = "git" IN
  [path |-> IF git THEN Absent ELSE trim(d.path),
   repository |-> IF git THEN trim(d.repository) ELSE Absent,
   branch |-> IF git THEN NotEmpty(trim(d.branch)) ELSE Absent,
   refresh |-> IF git /\ d.alwaysRefresh THEN "always" ELSE "absent",
   description |-> NotEmpty(trim(d.description)),
   autoInclude |-> IF d.autoInclude THEN "true" ELSE "false", hidden |-> FALSE]

OrEmpty(text) == IF text = Absent THEN Empty ELSE text

\* Mutant of openEdit: the refresh override is not filled in.
openEditPlain(alias, entry) ==
  [alias |-> alias, kind |-> IF entry.repository # Absent THEN "git" ELSE "local",
   path |-> OrEmpty(entry.path), repository |-> OrEmpty(entry.repository), branch |-> OrEmpty(entry.branch),
   description |-> OrEmpty(entry.description),
   autoInclude |-> entry.autoInclude, alwaysRefresh |-> FALSE]

\* The draft a row's Edit opens with.
openEdit(alias, entry) ==
  [alias |-> alias, kind |-> IF entry.repository # Absent THEN "git" ELSE "local",
   path |-> OrEmpty(entry.path), repository |-> OrEmpty(entry.repository), branch |-> OrEmpty(entry.branch),
   description |-> OrEmpty(entry.description),
   autoInclude |-> entry.autoInclude, alwaysRefresh |-> entry.refresh = "always"]
=============================================================================
