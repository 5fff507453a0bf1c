---------------------------- MODULE MCReferences ----------------------------
(* Instances of References for TLC: pins on both branches, an entry without  *)
(* one that is always refreshed, and a local entry.                          *)
EXTENDS References

MCEntries ==
  {[kind |-> "git", branch |-> b, refresh |-> "missing-only"] : b \in Branches} \cup
    {[kind |-> "git", branch |-> NoBranch, refresh |-> "always"],
     [kind |-> "local", branch |-> NoBranch, refresh |-> "missing-only"]}

MCTables == {[a \in Aliases |-> Missing]}
=============================================================================
