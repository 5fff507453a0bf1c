---------------------------- MODULE RelayLedger -----------------------------
(***************************************************************************)
(* What dsh-session-messenger promises of its relays: a relay is asked     *)
(* once, then answered by one message or closed without an answer, and     *)
(* nothing happens to it afterwards.                                       *)
(***************************************************************************)
VARIABLES asked,    \* relays delivered
          answers,  \* which reply answers which relay
          closed    \* relays that will get no reply

ledger == <<asked, answers, closed>>

Answered == {x.relay : x \in answers}
Owed     == asked \ (Answered \cup closed)

Init == asked = {} /\ answers = {} /\ closed = {}

Ask(r) ==
  /\ r \notin asked
  /\ asked' = asked \cup {r}
  /\ UNCHANGED <<answers, closed>>

Answer(x) ==
  /\ x.relay \in Owed
  /\ answers' = answers \cup {x}
  /\ UNCHANGED <<asked, closed>>

Close(R) ==
  /\ R # {} /\ R \subseteq Owed
  /\ closed' = closed \cup R
  /\ UNCHANGED <<asked, answers>>

Next ==
  \/ \E r \in asked' \ asked : Ask(r)
  \/ \E x \in answers' \ answers : Answer(x)
  \/ \E R \in SUBSET Owed : Close(R)

Spec == Init /\ [][Next]_ledger
=============================================================================
