----------------------------- MODULE OutputLines ----------------------------
(***************************************************************************)
(* What becomes of the bytes a subprocess writes: the line observer that   *)
(* feeds the output parser (lineObserver of cli/tui/parser.go) and the     *)
(* tail of the raw log that the dashboard streams (cli/tui/tail.go).  The  *)
(* operating system cuts the output into writes where it likes.  A byte is *)
(* "x" (any character of a line), "n" (newline) or "r" (carriage return);  *)
(* the observer treats "r" as part of a line.  A line is kept as what the  *)
(* readers tell apart: its length and whether it was cut.                  *)
(***************************************************************************)
EXTENDS Naturals, Sequences, SequencesExt

CONSTANTS ChunkLimit,   \* bytes in one write
          StreamLimit,  \* bytes a process writes
          LineLimit,    \* observedLineLimit, and logTailByteLimit
          TailLimit,    \* logTailLineLimit
          NoLine        \* an unused slot of the ring

ASSUME LinesAssumption == /\ {ChunkLimit, LineLimit, TailLimit} \subseteq Nat \ {0}
                          /\ StreamLimit \in Nat

VARIABLES stream,    \* the bytes written so far
          cuts,      \* a write ended between an "r" and the "n" after it
          observer,  \* buffer length, drop flag and the lines observed
          tail,      \* the ring: lines, start, count; the partial line
          committed, \* every line the tail committed, oldest first
          published, \* the tail as the screen has it
          ended      \* the process is over and the observer closed

lVars == <<stream, cuts, observer, tail, committed, published, ended>>

Bytes == {"x", "n", "r"}
Chunks == UNION {[1..n -> Bytes] : n \in 1..ChunkLimit}

Line(length, truncated) == [length |-> length, truncated |-> truncated]
EmptyTail == [lines |-> [n \in 0..TailLimit-1 |-> NoLine], start |-> 0, count |-> 0,
              partial |-> Line(0, FALSE)]

LinesInit ==
    /\ stream = <<>> /\ cuts = FALSE /\ ended = FALSE /\ committed = <<>>
    /\ observer = [buffer |-> 0, drop |-> FALSE, lines |-> <<>>]
    /\ tail = EmptyTail /\ published = EmptyTail

----------------------------------------------------------------------------
(* The parts of a write between separators, the last one unterminated.     *)
Parts(data, separators) ==
    LET ends == {n \in 1..Len(data) : data[n] \in separators}
        previous(n) == LET before == {m \in ends : m < n}
                       IN  IF before = {} THEN 0 ELSE CHOOSE m \in before : \A k \in before : k <= m
        last == previous(Len(data) + 1)
    IN  [complete |-> [k \in 1..Len(SetToSortSeq(ends, <)) |->
                         LET n == SetToSortSeq(ends, <)[k]
                         IN  [length |-> n - previous(n) - 1,
                              \* the "n" of an "rn" ends no line of its own
                              joined |-> n > 1 /\ data[n] = "n" /\ data[n-1] = "r"]],
         rest |-> Len(data) - last]

----------------------------------------------------------------------------
(* lineObserver.                                                            *)

MutantBuffered(o, length) ==
    IF o.drop \/ o.buffer + length > LineLimit
    THEN [o EXCEPT !.buffer = 0]
    ELSE [o EXCEPT !.buffer = @ + length]

Buffered(o, length) ==
    IF o.drop \/ o.buffer + length > LineLimit
    THEN [o EXCEPT !.buffer = 0, !.drop = TRUE]
    ELSE [o EXCEPT !.buffer = @ + length]

flush(o) ==
    [buffer |-> 0, drop |-> FALSE,
     lines |-> IF o.drop \/ o.buffer = 0 THEN o.lines ELSE Append(o.lines, o.buffer)]

ObserverWrite(o, data) ==
    LET parts == Parts(data, {"n"})
        step[k \in 0..Len(parts.complete)] ==
          IF k = 0 THEN o ELSE flush(Buffered(step[k-1], parts.complete[k].length))
    IN  IF parts.rest = 0 THEN step[Len(parts.complete)]
        ELSE Buffered(step[Len(parts.complete)], parts.rest)

----------------------------------------------------------------------------
(* logTail.                                                                 *)

(* A full partial line counts as cut even when nothing more comes.          *)
appendPartial(p, length) ==
    IF p.length = LineLimit \/ p.length + length > LineLimit
    THEN Line(LineLimit, TRUE)
    ELSE Line(p.length + length, p.truncated)

commitPartial(t) ==
    LET full == t.count = TailLimit
    IN  [lines   |-> [t.lines EXCEPT ![IF full THEN t.start
                                       ELSE (t.start + t.count) % TailLimit] = t.partial],
         start   |-> IF full THEN (t.start + 1) % TailLimit ELSE t.start,
         count   |-> IF full THEN t.count ELSE t.count + 1,
         partial |-> Line(0, FALSE)]

(* What one write appends: the lines it ends and its rest.  A newline right *)
(* after a carriage return is swallowed, but only within one write.         *)
Ended(data) == SelectSeq(Parts(data, {"n", "r"}).complete, LAMBDA p : ~p.joined)

TailWrite(t, data) ==
    LET lines == Ended(data)
        rest == Parts(data, {"n", "r"}).rest
        step[k \in 0..Len(lines)] ==
          IF k = 0 THEN t
          ELSE commitPartial([step[k-1] EXCEPT !.partial = appendPartial(@, lines[k].length)])
    IN  IF rest = 0 THEN step[Len(lines)]
        ELSE [step[Len(lines)] EXCEPT !.partial = appendPartial(@, rest)]

(* The lines the write committed, for the reader's history.                 *)
CommittedBy(t, data) ==
    LET lines == Ended(data)
    IN  [k \in 1..Len(lines) |->
           appendPartial(IF k = 1 THEN t.partial ELSE Line(0, FALSE), lines[k].length)]

----------------------------------------------------------------------------
(* streamWriter.Write: the log (file and tail), then the observer.          *)
streamWrite(data) ==
    /\ ~ended /\ Len(stream) + Len(data) <= StreamLimit
    /\ stream' = stream \o data
    /\ cuts' = (cuts \/ (stream # <<>> /\ Last(stream) = "r" /\ data[1] = "n"))
    /\ tail' = TailWrite(tail, data)
    /\ committed' = committed \o CommittedBy(tail, data)
    /\ observer' = ObserverWrite(observer, data)
    /\ UNCHANGED <<published, ended>>

(* The process ends: an unterminated last line counts.                      *)
observerClose ==
    /\ ~ended /\ ended' = TRUE
    /\ observer' = IF observer.drop THEN [observer EXCEPT !.buffer = 0] ELSE flush(observer)
    /\ UNCHANGED <<stream, cuts, tail, committed, published>>

publishTail ==
    /\ published # tail /\ published' = tail
    /\ UNCHANGED <<stream, cuts, observer, tail, committed, ended>>

LinesNext == \/ \E data \in Chunks : streamWrite(data)
             \/ observerClose \/ publishTail

----------------------------------------------------------------------------
(* The types; the ring's start and count stay in range.                     *)
LinesTypeOK ==
    /\ observer.buffer \in 0..LineLimit /\ observer.drop \in BOOLEAN
    /\ tail.start \in 0..TailLimit-1 /\ tail.count \in 0..TailLimit
    /\ tail.partial.length \in 0..LineLimit
    /\ Len(committed) >= tail.count

(* The lines of the stream, however it was written: split at newlines, the  *)
(* empty and the oversize ones left out.                                    *)
WholeLines(data) ==
    LET parts == Parts(data, {"n"})
        all == [k \in 1..Len(parts.complete) |-> parts.complete[k].length]
                 \o IF ended THEN <<parts.rest>> ELSE <<>>
    IN  SelectSeq(all, LAMBDA n : n \in 1..LineLimit)

(* How the output is cut into writes changes nothing.  The observer passes  *)
(* exactly the whole lines on, and no part of an oversize line passes for a *)
(* line.  The ring holds the latest lines of the tail in order, also after  *)
(* it wrapped around; they are the same for every cut, unless a write ended *)
(* between a carriage return and its newline, and each one that lost bytes  *)
(* is marked (one of exactly the limit may be marked as well).              *)
OutputIndependentOfWrites ==
    LET whole == CommittedBy(EmptyTail, stream)
    IN  /\ observer.lines = WholeLines(stream)
        /\ [k \in 1..tail.count |-> tail.lines[(tail.start + k - 1) % TailLimit]]
             = SubSeq(committed, Len(committed) - tail.count + 1, Len(committed))
        /\ ~cuts => /\ Len(committed) = Len(whole)
                    /\ \A k \in 1..Len(whole) :
                         /\ committed[k].length = whole[k].length
                         /\ whole[k].truncated => committed[k].truncated

=============================================================================
