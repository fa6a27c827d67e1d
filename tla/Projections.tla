----------------------------- MODULE Projections -----------------------------
(***************************************************************************)
(* What an answer shows of a result: the largest prefix of rows or bytes   *)
(* that fits (ash-ops projection.rs, reference.rs), the bytes a patch      *)
(* leaves (patch.rs), a snapshot and its difference from an earlier one    *)
(* (snapshot.rs), and the two ends of captured output (exec.rs).           *)
(*                                                                         *)
(* Bytes are one-character strings: "x" begins a character of two bytes,   *)
(* "y" one of three, and "~" continues either.                             *)
(***************************************************************************)
EXTENDS SemanticServices

CONSTANTS HeaderWidth,     \* what an answer needs beside its rows or bytes
          MarkWidth,       \* what it needs more when it is not complete
          MaxPatchFile,    \* MAX_PATCH_FILE_BYTES
          SampleLimit,     \* DEFAULT_CAPTURE_MEMORY_BYTES
          CutWidth,        \* the length of "\n...\n"
          LeastCut         \* the smallest limit that leaves two ends

Smaller(m, n) == IF m < n THEN m ELSE n
Less(m, n) == IF m > n THEN m - n ELSE 0
Total(widths) == FoldLeft(LAMBDA a, b : a + b, 0, widths)

-----------------------------------------------------------------------------
(* The largest prefix of rows.  widths are the encoded rows.               *)

RowsSize(widths, n) ==
    HeaderWidth + Total(SubSeq(widths, 1, n)) + (IF n < Len(widths) THEN MarkWidth ELSE 0)

RECURSIVE BisectRows(_, _, _, _)
BisectRows(widths, limit, low, high) ==
    LET middle == low + (high - low + 1) \div 2
    IN IF low >= high THEN low
       ELSE IF RowsSize(widths, middle) <= limit THEN BisectRows(widths, limit, middle, high)
       ELSE BisectRows(widths, limit, low, middle - 1)

LargestPrefix(widths, records, limit) ==
    LET n == BisectRows(widths, limit, 0, Smaller(Len(widths), records))
    IN IF RowsSize(widths, n) > limit THEN Refused("OutputBudget") ELSE Gave(n)

-----------------------------------------------------------------------------
(* Characters                                                              *)

Width(c) == CASE c = "x" -> 2 [] c = "y" -> 3 [] c = "~" -> 0 [] OTHER -> 1
CompleteAt(b, i) == /\ Width(b[i]) > 0 /\ i + Width(b[i]) - 1 <= Len(b)
                    /\ \A j \in i + 1 .. i + Width(b[i]) - 1 : b[j] = "~"
\* A character that the bytes end in the middle of (error_len() is None).
BrokenOff(b, i) == /\ i <= Len(b) /\ Width(b[i]) > 0 /\ i + Width(b[i]) - 1 > Len(b)
                   /\ \A j \in i + 1 .. Len(b) : b[j] = "~"
RECURSIVE ValidFrom(_, _)
ValidFrom(b, i) == IF i <= Len(b) /\ CompleteAt(b, i) THEN ValidFrom(b, i + Width(b[i])) ELSE i - 1
ValidUpTo(b) == ValidFrom(b, 1)
Utf8(b) == ValidUpTo(b) = Len(b)

\* A newline takes two bytes when it is written, a byte outside text two digits.
SliceSize(bytes, n, text) ==
    HeaderWidth + (IF n < Len(bytes) THEN MarkWidth ELSE 0)
    + (IF text THEN n + Cardinality({i \in 1 .. n : bytes[i] = "\n"}) ELSE 2 * n)

ProjectionBoundary(bytes, n, text) ==
    IF text THEN CHOOSE k \in 0 .. Smaller(n, Len(bytes)) :
                    /\ Utf8(SubSeq(bytes, 1, k))
                    /\ \A j \in k + 1 .. Smaller(n, Len(bytes)) : ~Utf8(SubSeq(bytes, 1, j))
    ELSE Smaller(n, Len(bytes))

RECURSIVE BisectSlice(_, _, _, _, _)
BisectSlice(bytes, text, limit, low, high) ==
    LET middle == low + (high - low + 1) \div 2
    IN IF low >= high THEN low
       ELSE IF SliceSize(bytes, ProjectionBoundary(bytes, middle, text), text) <= limit
            THEN BisectSlice(bytes, text, limit, middle, high)
       ELSE BisectSlice(bytes, text, limit, low, middle - 1)

SliceResponse(bytes, limit) ==
    LET text == Utf8(bytes)
        ceiling == Smaller(IF text THEN limit ELSE limit \div 2, Len(bytes))
        n == ProjectionBoundary(bytes, BisectSlice(bytes, text, limit, 0, ceiling), text)
    IN IF SliceSize(bytes, n, text) > limit THEN Refused("OutputBudget") ELSE Gave(n)

\* project_ason: some columns of some rows, by the names of the columns.
ProjectTable(columns, rows, selected, offset, length) ==
    LET Position(name) == CHOOSE i \in DOMAIN columns : columns[i] = name
        start == Smaller(offset, Len(rows))
        end == Smaller(start + length, Len(rows))
    IN IF ~(ToSet(selected) \subseteq ToSet(columns)) THEN Refused("InvalidArgument")
       ELSE Gave([k \in 1 .. end - start |-> [s \in DOMAIN selected |-> rows[start + k][Position(selected[s])]]])

-----------------------------------------------------------------------------
(* Patches.  An edit is [offset, delete, insert]; offsets count from 0.    *)

\* PatchArgs::validate, for the edits of one file.
EditsValid(edits) ==
    /\ edits # <<>>
    /\ \A k \in 1 .. Len(edits) - 1 : /\ edits[k + 1].offset > edits[k].offset
                                      /\ edits[k + 1].offset >= edits[k].offset + edits[k].delete

\* build_tasks: the size of the result, from the size observed before the file is read.
ResultSize(edits, observed) ==
    LET deleted == Total([k \in DOMAIN edits |-> edits[k].delete])
        inserted == Total([k \in DOMAIN edits |-> Len(edits[k].insert)])
        size == observed - deleted + inserted
    IN IF \E k \in DOMAIN edits : edits[k].offset + edits[k].delete > observed THEN Refused("InvalidArgument")
       ELSE IF size > MaxPatchFile THEN Refused("WorkLimit") ELSE Gave(size)

Splice(original, edits) ==
    LET Step(r, edit) == [cursor |-> edit.offset + edit.delete,
                          bytes |-> r.bytes \o SubSeq(original, r.cursor + 1, edit.offset) \o edit.insert]
        r == FoldLeft(Step, [cursor |-> 0, bytes |-> <<>>], edits)
    IN r.bytes \o SubSeq(original, r.cursor + 1, Len(original))

\* prepare_file: the file may have shrunk since its size was observed, or hold other bytes.
PrepareFile(original, expected, edits, observed) ==
    LET size == ResultSize(edits, observed)
        inside == \A k \in DOMAIN edits : edits[k].offset + edits[k].delete <= Len(original)
    IN IF ~size.ok THEN size
       ELSE IF Len(original) > observed THEN Refused("TooLarge")
       ELSE IF original # expected THEN Refused("Conflict")
       ELSE IF ~inside \/ Len(Splice(original, edits)) # size.val THEN Refused("InvalidArgument")
       ELSE Gave(Splice(original, edits))

-----------------------------------------------------------------------------
(* Snapshots.  A scope is [paths, depth, hidden]; an entry is a path with  *)
(* a kind, a size and a digest.                                            *)

Logical(path) == IF path = <<>> THEN <<".">> ELSE Tail(Key(path))
LogicalLess(p, q) == NativeLess(Logical(p), Logical(q))

ScopeCovers(scope, path) ==
    \E root \in ToSet(scope.paths) : IsPrefix(root, path) /\ Len(path) - Len(root) <= scope.depth

\* identify_entry.  contents gives the bytes of the files of a tree.
IdentifyEntry(fs, contents, path) ==
    IF IsDirectory(fs, path) THEN [path |-> path, kind |-> "directory", size |-> 0, digest |-> <<>>]
    ELSE [path |-> path, kind |-> "file", size |-> Len(contents[path]), digest |-> <<contents[path]>>]

CaptureEntries(fs, contents, scope) ==
    LET options == [depth |-> scope.depth, hidden |-> scope.hidden, entries |-> MaxListEntries]
        walks == {Walk(fs, root, options) : root \in ToSet(scope.paths)}
        paths == Ordered(UNION {ToSet(w.val) : w \in walks}, LogicalLess)
    IN IF \E w \in walks : ~w.ok THEN Refused("EntryLimit")
       ELSE IF Total([i \in DOMAIN scope.paths |-> Len(Walk(fs, scope.paths[i], options).val)]) > MaxListEntries
            THEN Refused("WorkLimit")
       ELSE IF \E i \in DOMAIN paths : ~ScopeCovers(scope, paths[i]) THEN Refused("InvalidSnapshot")
       ELSE Gave([i \in DOMAIN paths |-> IdentifyEntry(fs, contents, paths[i])])

\* decode_manifest: what a retained manifest must satisfy to be a baseline.
ManifestValid(scope, entries) ==
    /\ scope.paths # <<>>
    /\ \A i \in 1 .. Len(scope.paths) - 1 : LogicalLess(scope.paths[i], scope.paths[i + 1])
    /\ \A i \in DOMAIN entries :
          /\ ScopeCovers(scope, entries[i].path)
          /\ i > 1 => LogicalLess(entries[i - 1].path, entries[i].path)
          /\ entries[i].kind = "file" => entries[i].digest # <<>>
          /\ entries[i].kind = "directory" => entries[i].digest = <<>> /\ entries[i].size = 0

RECURSIVE Delta(_, _)
Delta(before, after) ==
    LET Change(kind, entry) == <<[kind |-> kind, entry |-> entry]>>
        Modified == IF Head(before) # Head(after) THEN Change("modified", Head(after)) ELSE <<>>
    IN IF before = <<>> /\ after = <<>> THEN <<>>
       ELSE IF after = <<>> THEN Change("removed", Head(before)) \o Delta(Tail(before), after)
       ELSE IF before = <<>> THEN Change("added", Head(after)) \o Delta(before, Tail(after))
       ELSE IF LogicalLess(Head(before).path, Head(after).path)
            THEN Change("removed", Head(before)) \o Delta(Tail(before), after)
       ELSE IF LogicalLess(Head(after).path, Head(before).path)
            THEN Change("added", Head(after)) \o Delta(before, Tail(after))
       ELSE Modified \o Delta(Tail(before), Tail(after))

-----------------------------------------------------------------------------
(* Captured output.  A stream is observed chunk by chunk; when it is too   *)
(* long for memory only its two ends are at hand.                          *)

Fresh == [valid |-> TRUE, pending |-> <<>>, normalized |-> FALSE, cr |-> FALSE]

Validate(t, bytes) ==
    LET upTo == ValidUpTo(bytes)
        rest == SubSeq(bytes, upTo + 1, Len(bytes))
    IN IF rest = <<>> THEN [t EXCEPT !.pending = <<>>]
       ELSE IF BrokenOff(bytes, upTo + 1) /\ Len(rest) <= 3 THEN [t EXCEPT !.pending = rest]
       ELSE [t EXCEPT !.pending = <<>>, !.valid = FALSE]

HasCrLf(b) == \E i \in 1 .. Len(b) - 1 : b[i] = "\r" /\ b[i + 1] = "\n"

Observe(t, chunk) ==
    IF chunk = <<>> THEN t
    ELSE LET u == [t EXCEPT !.normalized = @ \/ (t.cr /\ chunk[1] = "\n") \/ HasCrLf(chunk), !.cr = Last(chunk) = "\r"]
         IN IF u.valid THEN Validate(u, t.pending \o chunk) ELSE u

IsText(t) == t.valid /\ t.pending = <<>>

\* replace("\r\n", "\n")
Normalize(b) ==
    LET kept == Ascending({i \in DOMAIN b : ~(b[i] = "\r" /\ i < Len(b) /\ b[i + 1] = "\n")})
    IN [k \in DOMAIN kept |-> b[kept[k]]]
NormalizeHead(b, next, normalized) ==
    LET text == IF normalized THEN Normalize(b) ELSE b
    IN IF normalized /\ text # <<>> /\ Last(text) = "\r" /\ next = "\n" THEN Append(Front(text), "\n") ELSE text

CompleteHead(b) == SubSeq(b, 1, ProjectionBoundary(b, Len(b), TRUE))
CompleteTail(b) ==
    LET starts == {s \in 1 .. Smaller(Len(b), 4) : Utf8(SubSeq(b, s, Len(b)))}
    IN IF starts = {} THEN <<>> ELSE SubSeq(b, CHOOSE s \in starts : \A r \in starts : s <= r, Len(b))

Nothing == [what |-> "nothing", head |-> <<>>, tail |-> <<>>]
WholeOf(text) == IF text = <<>> THEN Nothing ELSE [what |-> "whole", head |-> text, tail |-> <<>>]
Shown(text, reduced, normalized) == [text |-> text, reduced |-> reduced, normalized |-> normalized]

\* The two ends that fit the limit.
EndsOf(head, tail, limit) ==
    LET content == limit - CutWidth
        headEnd == FloorBoundary(head, content \div 2)
        tailStart == CeilBoundary(tail, Less(Len(tail), content - headEnd))
    IN [what |-> "ends", head |-> SubSeq(head, 1, headEnd), tail |-> SubSeq(tail, tailStart + 1, Len(tail))]

\* project, behind the reducers: the whole text, its ends, or nothing.
ProjectComplete(bytes, limit) ==
    LET normalized == HasCrLf(bytes)
        text == Normalize(bytes)
    IN IF ~Utf8(bytes) THEN Shown(Nothing, bytes # <<>>, FALSE)
       ELSE IF Len(text) <= limit THEN Shown(WholeOf(text), FALSE, normalized)
       ELSE IF limit < LeastCut THEN Shown(Nothing, TRUE, normalized)
       ELSE Shown(EndsOf(text, text, limit), TRUE, normalized)

ProjectSampled(head, next, tail, limit, t) ==
    IF ~IsText(t) THEN Shown(Nothing, TRUE, FALSE)
    ELSE IF limit < LeastCut THEN Shown(Nothing, TRUE, t.normalized)
    ELSE Shown(EndsOf(NormalizeHead(CompleteHead(head), next, t.normalized),
                      IF t.normalized THEN Normalize(CompleteTail(tail)) ELSE CompleteTail(tail), limit),
               TRUE, t.normalized)

\* CaptureSample, once a stream has outgrown the memory for it.
Sampled(bytes) == Len(bytes) > SampleLimit
HeadOf(bytes) == SubSeq(bytes, 1, SampleLimit \div 2)
TailOf(bytes) == SubSeq(bytes, Len(bytes) - (SampleLimit - SampleLimit \div 2) + 1, Len(bytes))

ProjectCapture(bytes, chunks, limit) ==
    IF Sampled(bytes)
    THEN ProjectSampled(HeadOf(bytes), bytes[SampleLimit \div 2 + 1], TailOf(bytes), limit, FoldLeft(Observe, Fresh, chunks))
    ELSE ProjectComplete(bytes, limit)

\* build_response: whether the stream itself is kept beside what is shown.
Kept(p, bytes) == p.reduced \/ p.normalized \/ (p.text = Nothing /\ bytes # <<>>)

-----------------------------------------------------------------------------
(* Properties                                                              *)

\* The bisection finds the largest number of rows whose answer is within the limit, and is
\* refused only when not even the empty answer is; and the longest prefix of a slice that
\* fits and ends between characters, so that slices that start where the last one stopped
\* give the bytes again.
PrefixLargest(widths, records, limit) ==
    LET fitting == {n \in 0 .. Smaller(Len(widths), records) : RowsSize(widths, n) <= limit}
        r == LargestPrefix(widths, records, limit)
    IN IF fitting = {} THEN ~r.ok ELSE r.ok /\ r.val \in fitting /\ \A n \in fitting : n <= r.val

SliceLongest(bytes, limit) ==
    LET text == Utf8(bytes)
        fitting == {n \in 0 .. Len(bytes) : SliceSize(bytes, n, text) <= limit /\ (text => Utf8(SubSeq(bytes, 1, n)))}
        r == SliceResponse(bytes, limit)
    IN IF fitting = {} THEN ~r.ok
       ELSE /\ r.ok /\ r.val \in fitting /\ \A n \in fitting : n <= r.val
            /\ text => Utf8(SubSeq(bytes, r.val + 1, Len(bytes)))

\* Consecutive windows of a table give the selected columns of every row once.
TableWindows(columns, rows, selected, length) ==
    LET Window(k) == ProjectTable(columns, rows, selected, k * length, length)
        whole == ProjectTable(columns, rows, selected, 0, Len(rows))
    IN IF ~whole.ok THEN \A k \in 0 .. Len(rows) : ~Window(k).ok
       ELSE /\ FlattenSeq([k \in 1 .. Len(rows) |-> Window(k - 1).val]) = whole.val
            /\ \A i \in DOMAIN rows, s \in DOMAIN selected, c \in DOMAIN columns :
                  columns[c] = selected[s] => whole.val[i][s] = rows[i][c]

\* A patch that is prepared replaces exactly the bytes its edits name and leaves every other
\* byte in its place, though the size it was planned with was observed before the file was
\* read; it has the size the plan was admitted with, and other contents are a conflict.
PatchExact(original, expected, edits, observed) ==
    LET r == PrepareFile(original, expected, edits, observed)
        Touched(i) == \E k \in DOMAIN edits : edits[k].offset < i /\ i <= edits[k].offset + edits[k].delete
        Inserted(i) == FlattenSeq([k \in DOMAIN edits |-> IF edits[k].offset = i THEN edits[k].insert ELSE <<>>])
        Around(i) == Inserted(i) \o (IF i = Len(original) \/ Touched(i + 1) THEN <<>> ELSE <<original[i + 1]>>)
    IN EditsValid(edits) =>
          /\ r.ok => /\ r.val = FlattenSeq([i \in 1 .. Len(original) + 1 |-> Around(i - 1)])
                     /\ Len(r.val) <= MaxPatchFile
                     /\ original = expected
          /\ (/\ original = expected /\ Len(original) = observed
              /\ \A k \in DOMAIN edits : edits[k].offset + edits[k].delete <= observed
              /\ Len(original) + Total([k \in DOMAIN edits |-> Len(edits[k].insert) - edits[k].delete]) <= MaxPatchFile) => r.ok

\* What a capture retains is accepted as the baseline of a later request with the same scope,
\* for every choice of roots, overlapping ones too: a walk never leaves the scope it is
\* stored with.
SnapshotUsable(fs, contents, scope) ==
    LET r == CaptureEntries(fs, contents, scope)
    IN IF r.ok THEN ManifestValid(scope, r.val) ELSE r.why \in {"EntryLimit", "WorkLimit"}

\* The difference of two snapshots names every path whose entry appeared, changed or went
\* away, once, in path order, and no other.
DeltaExact(before, after) ==
    LET PathsIn(entries) == {entries[i].path : i \in DOMAIN entries}
        Of(entries, path) == CHOOSE e \in ToSet(entries) : e.path = path
        changed == {p \in PathsIn(before) \union PathsIn(after) :
                       ~(p \in PathsIn(before) /\ p \in PathsIn(after) /\ Of(before, p) = Of(after, p))}
        Expected(p) == IF p \notin PathsIn(after) THEN [kind |-> "removed", entry |-> Of(before, p)]
                       ELSE [kind |-> IF p \in PathsIn(before) THEN "modified" ELSE "added", entry |-> Of(after, p)]
        order == Ordered(changed, LogicalLess)
    IN Delta(before, after) = [i \in DOMAIN order |-> Expected(order[i])]

\* However a stream is cut into chunks, it counts as text exactly when it is, and as having
\* carriage returns exactly when it has.
StreamTextExact(bytes, chunks) ==
    LET t == FoldLeft(Observe, Fresh, chunks)
    IN IsText(t) = Utf8(bytes) /\ t.normalized = HasCrLf(bytes)

\* What is shown of captured output is the beginning and the end of its text, on character
\* boundaries and within the limit, also when only samples of both ends are in memory; and
\* output that is not shown byte for byte is kept.
CaptureShown(bytes, chunks, limit) ==
    LET p == ProjectCapture(bytes, chunks, limit)
        text == Normalize(bytes)
    IN /\ p.text.what = "ends" => /\ IsPrefix(p.text.head, text) /\ IsSuffix(p.text.tail, text)
                                  /\ Utf8(p.text.head) /\ Utf8(p.text.tail)
                                  /\ Len(p.text.head) + Len(p.text.tail) + CutWidth <= limit
       /\ p.text.what = "whole" => p.text.head = text /\ Len(text) <= limit
       /\ p.text.what # "nothing" => Utf8(bytes)
       /\ ~Kept(p, bytes) => p.text = WholeOf(bytes)
===============================================================================
