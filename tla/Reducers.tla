------------------------------- MODULE Reducers -------------------------------
(***************************************************************************)
(* How captured output is shortened before it is shown (ash-ops            *)
(* reducer.rs): runs of one line, repeated blocks of lines, and the gaps   *)
(* between the diagnostics of a failed command.                            *)
(*                                                                         *)
(* A text is a sequence of lines [word, bytes, ends]; only the last one    *)
(* may lack its newline.  A marker is a line too, for the next reducer     *)
(* reads it as one: its word is <<"times", n>>, <<"times", n, k>> or       *)
(* <<"omitted", n>>.                                                       *)
(***************************************************************************)
EXTENDS Integers, FiniteSets, Sequences, SequencesExt

CONSTANTS ParallelLines,     \* PARALLEL_LINE_THRESHOLD
          PartitionLines,    \* PARTITION_LINES
          MaxBlockLines,     \* MAX_BLOCK_LINES
          ContextBefore,     \* ERROR_CONTEXT_BEFORE
          ContextAfter,      \* ERROR_CONTEXT_AFTER
          EdgeLines,         \* ERROR_EDGE_LINES
          Anchors,           \* the words of lines that hold a diagnostic term
          Alike              \* pairs {v, w} of words with the same fingerprint

Least(m, n) == IF m < n THEN m ELSE n
Bytes(lines) == FoldLeft(LAMBDA n, line : n + line.bytes, 0, lines)
SpanLen(lines, start, n) == Bytes(SubSeq(lines, start, start + n - 1))
DecimalDigits(n) == 1 + Cardinality({k \in 1 .. 8 : n >= 10 ^ k})

RunMarker(n) == [word |-> <<"times", n>>, bytes |-> 2 + DecimalDigits(n) + 1, ends |-> TRUE]
BlockMarker(n, k) ==
    [word |-> <<"times", n, k>>, bytes |-> 2 + DecimalDigits(n) + DecimalDigits(k) + 2, ends |-> TRUE]
OmissionMarker(n) == [word |-> <<"omitted", n>>, bytes |-> 3 + DecimalDigits(n) + 1, ends |-> TRUE]

-----------------------------------------------------------------------------
(* Runs of one line, found partition by partition                          *)

LocalRuns(lines, first, last) ==
    LET Step(runs, i) ==
          IF runs # <<>> /\ lines[Last(runs).line] = lines[i] THEN [runs EXCEPT ![Len(runs)].count = @ + 1]
          ELSE Append(runs, [line |-> i, count |-> 1])
    IN FoldLeft(Step, <<>>, [k \in 1 .. last - first + 1 |-> first + k - 1])

MergeRuns(lines, partitions) ==
    LET Step(merged, run) ==
          IF merged # <<>> /\ lines[Last(merged).line] = lines[run.line]
          THEN [merged EXCEPT ![Len(merged)].count = @ + run.count]
          ELSE Append(merged, run)
    IN FoldLeft(Step, <<>>, FlattenSeq(partitions))

EncodeRuns(lines, runs) ==
    LET Encoded(line, count) ==
          IF count > 1 /\ line.ends /\ RunMarker(count).bytes < line.bytes * (count - 1)
          THEN <<line, RunMarker(count)>>
          ELSE [k \in 1 .. count |-> line]
    IN FlattenSeq([i \in DOMAIN runs |-> Encoded(lines[runs[i].line], runs[i].count)])

Runs(lines) ==
    LET size == IF Len(lines) >= ParallelLines THEN PartitionLines ELSE Len(lines)
        parts == (Len(lines) + size - 1) \div size
    IN MergeRuns(lines, [p \in 1 .. parts |-> LocalRuns(lines, (p - 1) * size + 1, Least(p * size, Len(lines)))])

CollapseLines(lines) == IF Len(lines) < 2 THEN lines ELSE EncodeRuns(lines, Runs(lines))

-----------------------------------------------------------------------------
(* Repeated blocks.  Candidates are found by fingerprints, which may agree *)
(* on different lines, and compared line by line before one is used.       *)

CompleteLines(lines) == Cardinality({i \in DOMAIN lines : lines[i].ends})

RangesEqual(lines, left, right, n) ==
    \A i \in 0 .. n - 1 : \/ lines[left + i] = lines[right + i]
                          \/ {lines[left + i].word, lines[right + i].word} \in Alike

NoCandidate == [k |-> 0, n |-> 0, savings |-> 0]

BlockCandidate(lines, start, k, n) ==
    LET omitted == SpanLen(lines, start + k, k * (n - 1))
    IN IF n < 2 \/ start + k * n - 1 > CompleteLines(lines) THEN NoCandidate
       ELSE IF BlockMarker(n, k).bytes >= omitted THEN NoCandidate
       ELSE [k |-> k, n |-> n, savings |-> omitted - BlockMarker(n, k).bytes]

PreferredCandidate(current, candidate) ==
    IF /\ candidate # NoCandidate
       /\ \/ current = NoCandidate
          \/ candidate.savings > current.savings
          \/ /\ candidate.savings = current.savings
             /\ candidate.k < current.k \/ (candidate.k = current.k /\ candidate.n > current.n)
    THEN candidate ELSE current

BlockSizes(lines, start) ==
    LET most == Least(MaxBlockLines, (CompleteLines(lines) - start + 1) \div 2)
    IN [i \in 1 .. IF most < 2 THEN 0 ELSE most - 1 |-> i + 1]

\* The longest prefix at start that the fingerprints find again k lines on, by bisection.
RECURSIVE LongestPrefix(_, _, _, _, _)
LongestPrefix(lines, start, k, low, high) ==
    LET middle == low + (high - low + 1) \div 2
    IN IF low >= high THEN low
       ELSE IF RangesEqual(lines, start, start + k, middle) THEN LongestPrefix(lines, start, k, middle, high)
       ELSE LongestPrefix(lines, start, k, low, middle - 1)

BestHashedCandidate(lines, start) ==
    LET Repeated(k) == 1 + LongestPrefix(lines, start, k, k, CompleteLines(lines) - start + 1 - k) \div k
        Step(best, k) ==
          IF RangesEqual(lines, start, start + k, k)
          THEN PreferredCandidate(best, BlockCandidate(lines, start, k, Repeated(k))) ELSE best
    IN FoldLeft(Step, NoCandidate, BlockSizes(lines, start))

Block(lines, start, k, i) == SubSeq(lines, start + i * k, start + (i + 1) * k - 1)

CandidateIsExact(lines, start, c) == \A i \in 1 .. c.n - 1 : Block(lines, start, c.k, i) = Block(lines, start, c.k, 0)

RECURSIVE Repetitions(_, _, _, _)
Repetitions(lines, start, k, n) ==
    IF /\ start + (n + 1) * k - 1 <= CompleteLines(lines)
       /\ Block(lines, start, k, n) = Block(lines, start, k, 0)
    THEN Repetitions(lines, start, k, n + 1) ELSE n

BestExactCandidate(lines, start) ==
    LET Step(best, k) == PreferredCandidate(best, BlockCandidate(lines, start, k, Repetitions(lines, start, k, 1)))
    IN FoldLeft(Step, NoCandidate, BlockSizes(lines, start))

\* Mutant: a candidate of the fingerprints is used as it is.
VerifiedTrusted(lines, start, c) == c

Verified(lines, start, c) ==
    IF c = NoCandidate \/ CandidateIsExact(lines, start, c) THEN c ELSE BestExactCandidate(lines, start)

RECURSIVE BlocksFrom(_, _)
BlocksFrom(lines, index) ==
    IF index > Len(lines) THEN <<>>
    ELSE IF index > CompleteLines(lines) THEN <<lines[index]>> \o BlocksFrom(lines, index + 1)
    ELSE LET c == Verified(lines, index, BestHashedCandidate(lines, index))
         IN IF c = NoCandidate THEN <<lines[index]>> \o BlocksFrom(lines, index + 1)
            ELSE Append(Block(lines, index, c.k, 0), BlockMarker(c.n, c.k)) \o BlocksFrom(lines, index + c.k * c.n)

CollapseBlocks(lines) == IF CompleteLines(lines) < 4 THEN lines ELSE BlocksFrom(lines, 1)

-----------------------------------------------------------------------------
(* The surroundings of diagnostics                                         *)

IsAnchor(line) == line.word \in Anchors

Retained(lines) ==
    LET n == Len(lines)
        anchors == {i \in 1 .. n : IsAnchor(lines[i])}
    IN {i \in 1 .. n : \/ i <= EdgeLines \/ i > n - EdgeLines
                       \/ \E a \in anchors : a - ContextBefore <= i /\ i <= a + ContextAfter}

RECURSIVE FocusFrom(_, _, _)
FocusFrom(lines, retained, i) ==
    LET ends == {j \in i .. Len(lines) : \A m \in i .. j : m \notin retained}
        n == Cardinality(ends)
    IN IF i > Len(lines) THEN <<>>
       ELSE IF i \in retained THEN <<lines[i]>> \o FocusFrom(lines, retained, i + 1)
       ELSE (IF OmissionMarker(n).bytes < SpanLen(lines, i, n) THEN <<OmissionMarker(n)>>
             ELSE SubSeq(lines, i, i + n - 1)) \o FocusFrom(lines, retained, i + n)

FocusErrors(lines) ==
    IF \A i \in DOMAIN lines : ~IsAnchor(lines[i]) THEN lines ELSE FocusFrom(lines, Retained(lines), 1)

\* exec.rs project: the reducers in the order they are applied.
Reduce(lines, focus) ==
    LET repeated == CollapseBlocks(CollapseLines(lines))
    IN IF focus THEN FocusErrors(repeated) ELSE repeated

-----------------------------------------------------------------------------
(* Properties                                                              *)

Ending(s, k) == SubSeq(s, Len(s) - k + 1, Len(s))
Again(s, n) == FlattenSeq([i \in 1 .. n |-> s])
\* What a reader of the markers writes out again.
Expand(lines, width) ==
    LET Step(out, line) ==
          IF line.word[1] = "times" /\ Len(line.word) = width
          THEN out \o Again(Ending(out, IF width = 3 THEN line.word[3] ELSE 1), line.word[2] - 1)
          ELSE Append(out, line)
    IN FoldLeft(Step, <<>>, lines)

\* Collapsing repetitions loses nothing: the markers, read back, give the text again, whatever
\* fingerprints collide and however the lines were partitioned; the result is shorter than
\* the text exactly when something was collapsed, and no two runs that stand side by side hold
\* the same line.
RepeatsLossless(lines) ==
    LET runs == CollapseLines(lines)
        blocks == CollapseBlocks(runs)
        found == Runs(lines)
    IN /\ Expand(Expand(blocks, 3), 2) = lines
       /\ Bytes(runs) <= Bytes(lines) /\ Bytes(blocks) <= Bytes(runs)
       /\ (Bytes(blocks) = Bytes(lines)) <=> (blocks = lines)
       /\ Len(lines) >= 2 => \A i \in 1 .. Len(found) - 1 : lines[found[i].line] # lines[found[i + 1].line]

\* At every line the block that is collapsed is the one that saves most, the shorter block
\* and then the larger number of repetitions among equals.
BlocksBest(lines) ==
    LET Candidates(start) ==
          {BlockCandidate(lines, start, k, n) : k \in 2 .. MaxBlockLines, n \in 2 .. Len(lines)}
        Exact(start) == {c \in Candidates(start) \ {NoCandidate} : CandidateIsExact(lines, start, c)}
        Best(start) == CHOOSE c \in Exact(start) : \A d \in Exact(start) : PreferredCandidate(c, d) = c
        Used(start) == Verified(lines, start, BestHashedCandidate(lines, start))
    IN \A start \in 1 .. CompleteLines(lines) :
          Used(start) = IF Exact(start) = {} THEN NoCandidate ELSE Best(start)

\* Focusing on diagnostics keeps the lines around each of them and at both ends as they are
\* and in order; everything else is there too or counted by a marker at its place, and the
\* text never grows.
FocusKeeps(lines) ==
    LET out == FocusErrors(lines)
        Step(r, line) ==
          IF line.word[1] = "omitted"
          THEN [r EXCEPT !.at = @ + line.word[2],
                         !.ok = @ /\ \A i \in r.at .. r.at + line.word[2] - 1 : i \notin Retained(lines)]
          ELSE [at |-> r.at + 1, ok |-> r.ok /\ r.at <= Len(lines) /\ lines[r.at] = line]
        read == FoldLeft(Step, [at |-> 1, ok |-> TRUE], out)
    IN /\ read.ok /\ read.at = Len(lines) + 1
       /\ Bytes(out) <= Bytes(lines)
       /\ (\E i \in DOMAIN lines : IsAnchor(lines[i])) \/ out = lines
===============================================================================
