------------------------------ MODULE BtwText ------------------------------
(***************************************************************************)
(* The snapshot of another session that /btw carries (plugins/btw/pure.ts):*)
(* its head and its tail, within a budget of UTF-8 bytes.                  *)
(*                                                                         *)
(* A message's line is the sequence of the byte widths of its characters.  *)
(* What is kept of a conversation is a sequence of [line, from, to], the   *)
(* characters from..to of one of its lines.                                *)
(***************************************************************************)
EXTENDS Lists

utf8Length(chars) == Total(chars)

\* Bytes of the first n lines, each with its newline.
BytesBefore(lines, n) == Total([i \in 1..n |-> utf8Length(lines[i]) + 1])

\* How many of a line's characters fit.
sliceByBytes(line, maxBytes) ==
  Max({0} \cup {n \in DOMAIN line : utf8Length(SubSeq(line, 1, n)) <= maxBytes})

\* What is taken once whole lines are consumed: characters of the next one.
Taken(lines, budget, consumed, used) ==
  [consumed |-> consumed,
   partial  |-> IF consumed = Len(lines) \/ used >= budget THEN 0
                ELSE sliceByBytes(lines[consumed + 1], budget - used)]

\* Mutant of takeBefore: the newline of a kept line is free.
takeFreely(lines, budget) ==
  LET consumed == Max({n \in 0..Len(lines) : BytesBefore(lines, n) - n <= budget})
  IN  Taken(lines, budget, consumed, BytesBefore(lines, consumed) - consumed)

\* Whole lines while they fit, then characters of the next one.
takeBefore(lines, budget) ==
  LET consumed == Max({n \in 0..Len(lines) : BytesBefore(lines, n) <= budget})
  IN  Taken(lines, budget, consumed, BytesBefore(lines, consumed))

\* Bytes of kept pieces, joined by newlines.
Rendered(lines, pieces) ==
  Total([i \in DOMAIN pieces |->
           utf8Length(SubSeq(lines[pieces[i].line], pieces[i].from, pieces[i].to)) + 1])
    - (IF pieces = <<>> THEN 0 ELSE 1)

Whole(lines, i) == [line |-> i, from |-> 1, to |-> Len(lines[i])]

\* The partial piece of the boundary line; none if no character fits.
Partial(line, chars) == IF chars = 0 THEN <<>> ELSE <<[line |-> line, from |-> 1, to |-> chars]>>

\* What takeBefore took from the front is the head, what it took from the
\* reversed conversation the tail; the messages strictly between are omitted.
Segments(lines, head, tail) ==
  LET n == Len(lines) IN
    [head |-> [i \in 1..head.consumed |-> Whole(lines, i)] \o Partial(head.consumed + 1, head.partial),
     tail |-> Partial(n - tail.consumed, tail.partial)
              \o [i \in 1..tail.consumed |-> Whole(lines, n - tail.consumed + i)],
     omitted |-> (n - tail.consumed - (IF tail.partial = 0 THEN 0 ELSE 1))
                 - (head.consumed + (IF head.partial = 0 /\ head.consumed = n THEN 0 ELSE 1))]

\* The head gets half of the budget, rounded up, and the tail the other half.
BothEnds(lines, maxBytes) ==
  Segments(lines, takeBefore(lines, (maxBytes + 1) \div 2), takeBefore(Reverse(lines), maxBytes \div 2))

Everything(lines) == [i \in DOMAIN lines |-> Whole(lines, i)]

\* The statistics of a snapshot of total bytes; omittedMessages is at least 0.
Counted(ends, total, bytes) ==
  [head |-> ends.head, tail |-> ends.tail, bytes |-> bytes, omittedBytes |-> total - bytes,
   omittedMessages |-> IF ends.omitted > 0 THEN ends.omitted ELSE 0]

Truncated(lines, ends) ==
  Counted(ends, Rendered(lines, Everything(lines)),
          Rendered(lines, ends.head) + Rendered(lines, ends.tail))

selectSnapshotSegments(lines, maxBytes) ==
  LET total == Rendered(lines, Everything(lines)) IN
    IF total <= maxBytes
    THEN Counted([head |-> Everything(lines), tail |-> <<>>, omitted |-> 0], total, total)
    ELSE Truncated(lines, BothEnds(lines, maxBytes))
=============================================================================
