--------------------------- MODULE SemanticServices ---------------------------
(***************************************************************************)
(* Read, list and search as both frontends share them (ash-ops             *)
(* semantic.rs), and the line and match selections of retained results     *)
(* (ash-ops reference.rs).  A tree is the directory function of ShellWords,*)
(* bytes are one-character strings: "~" continues a multi-byte character   *)
(* and "^" stands for a byte that is not UTF-8.                            *)
(***************************************************************************)
EXTENDS ShellWords

CONSTANTS MaxListEntries,     \* SemanticLimits.max_list_entries
          MaxFileMatches,     \* max_matches_per_file
          MaxSearchMatches,   \* max_search_matches
          MaxProjectedLine    \* MAX_PROJECTED_LINE_BYTES

Refused(why) == [ok |-> FALSE, why |-> why]
Gave(val) == [ok |-> TRUE, val |-> val]
Valid(bytes) == \A i \in DOMAIN bytes : bytes[i] # "^"

\* split_inclusive('\n'): the lines with their terminators.
Lines(bytes) ==
    LET ends == {i \in DOMAIN bytes : bytes[i] = "\n" \/ i = Len(bytes)}
        order == Ascending(ends)
    IN [n \in DOMAIN order |-> SubSeq(bytes, IF n = 1 THEN 1 ELSE order[n - 1] + 1, order[n])]
Without(line, u) == IF line # <<>> /\ Last(line) = u THEN Front(line) ELSE line

-----------------------------------------------------------------------------
(* Ranges.  offset counts bytes from 0 or lines from 1.                    *)

SelectBytes(bytes, offset, length) ==
    LET start == IF offset < Len(bytes) THEN offset ELSE Len(bytes)
        end == IF start + length < Len(bytes) THEN start + length ELSE Len(bytes)
    IN [bytes |-> SubSeq(bytes, start + 1, end), offset |-> start, length |-> end - start]

\* Mutant: a line starts behind every newline, also behind the last one.
LineStartsPastEnd(bytes) == Ascending({0} \union {i \in DOMAIN bytes : bytes[i] = "\n"})

LineStarts(bytes) == Ascending({0} \union {i \in 1 .. Len(bytes) - 1 : bytes[i] = "\n"})

SelectLines(bytes, offset, length) ==
    LET starts == LineStarts(bytes)
        from == IF offset = 0 THEN 0 ELSE offset - 1
        to == IF from + length < Len(starts) THEN from + length ELSE Len(starts)
        end == IF to < Len(starts) THEN starts[to + 1] ELSE Len(bytes)
    IN IF bytes = <<>> \/ from >= Len(starts) THEN [bytes |-> <<>>, offset |-> offset, length |-> 0]
       ELSE [bytes |-> SubSeq(bytes, starts[from + 1] + 1, end), offset |-> from + 1, length |-> to - from]

\* reference.rs: one pass over the lines, counting the selected ones.
ReferenceLines(bytes, offset, length) ==
    LET lines == Lines(bytes)
        target == IF offset = 0 THEN 0 ELSE offset - 1
        Step(r, k) ==
            IF r.done THEN r
            ELSE LET n == IF k - 1 >= target /\ r.selected < length THEN r.selected + 1 ELSE r.selected
                 IN [start |-> IF k - 1 = target THEN r.cursor ELSE r.start, selected |-> n,
                     cursor |-> r.cursor + Len(lines[k]), done |-> n = length]
        r == FoldLeft(Step, [start |-> -1, selected |-> 0, cursor |-> 0, done |-> FALSE], [k \in DOMAIN lines |-> k])
    IN IF r.start = -1 THEN <<>> ELSE SubSeq(bytes, r.start + 1, r.cursor)

-----------------------------------------------------------------------------
(* Walking and listing.  An entry's sort key is its path as text.          *)

Key(path) == FlattenSeq([i \in DOMAIN path |-> <<"/">> \o path[i]])
KeyLess(p, q) == NativeLess(Key(p), Key(q))
Hidden(name) == name # <<>> /\ name[1] = "."

RECURSIVE WalkInner(_, _, _, _, _)
WalkInner(fs, path, depth, options, out) ==
    LET Step(r, child) == IF r.ok THEN WalkInner(fs, child, depth + 1, options, r.val) ELSE r
        children == Ordered({Append(path, name) : name \in fs[path]}, KeyLess)
    IN IF depth > 0 /\ Hidden(Last(path)) /\ ~options.hidden THEN Gave(out)
       ELSE IF Len(out) >= options.entries THEN Refused("EntryLimit")
       ELSE IF ~IsDirectory(fs, path) \/ depth >= options.depth THEN Gave(Append(out, path))
       ELSE FoldLeft(Step, Gave(Append(out, path)), children)
Walk(fs, root, options) ==
    LET Sorted(r) == IF r.ok THEN Gave(Ordered(ToSet(r.val), KeyLess)) ELSE r
    IN IF options.entries = 0 THEN Refused("EntryLimit") ELSE Sorted(WalkInner(fs, root, 0, options, <<>>))

FinishList(entries) == Ordered(entries, KeyLess)

Selected(fs, filter, path) ==
    CASE filter = "all" -> TRUE
      [] filter = "files" -> ~IsDirectory(fs, path)
      [] filter = "directories" -> IsDirectory(fs, path)

\* list and list_serial: the roots one after the other, in the order they were asked for.
List(fs, roots, depth, hidden, filter) ==
    LET options == [depth |-> depth, hidden |-> hidden, entries |-> MaxListEntries]
        Extended(r, batch) == IF ~batch.ok THEN batch
                              ELSE IF Len(r.val) + Len(batch.val) > MaxListEntries THEN Refused("WorkLimit")
                              ELSE Gave(r.val \o batch.val)
        Step(r, root) == IF r.ok THEN Extended(r, Walk(fs, root, options)) ELSE r
        Keep(e) == Selected(fs, filter, e)
        Finished(r) == IF r.ok THEN Gave(FinishList({e \in ToSet(r.val) : Keep(e)})) ELSE r
    IN IF \E i \in DOMAIN roots : ~Exists(fs, roots[i]) THEN Refused("NotFound")
       ELSE Finished(FoldLeft(Step, Gave(<<>>), roots))

-----------------------------------------------------------------------------
(* Search: where a line first contains the query, 0 when nowhere.          *)

Occurrences(query, line) ==
    {i \in 1 .. Len(line) - Len(query) + 1 : SubSeq(line, i, i + Len(query) - 1) = query}
Find(query, line) ==
    LET found == Occurrences(query, line) IN IF found = {} THEN 0 ELSE CHOOSE i \in found : \A j \in found : i <= j

ScanFile(path, bytes, query) ==
    LET Scan(raw) ==
          LET Line(n) == Without(raw[n], "\r")
              hits == Ascending({n \in DOMAIN raw : Find(query, Line(n)) # 0})
          IN [matches |-> [k \in DOMAIN hits |-> [path |-> path, line |-> hits[k], column |-> Find(query, Line(hits[k])),
                                                  text |-> Line(hits[k])]],
              normalized |-> \E n \in DOMAIN raw : Line(n) # raw[n], binary |-> FALSE,
              overflowed |-> Len(hits) > MaxFileMatches]
        Terminated(lines) == [n \in DOMAIN lines |-> Without(lines[n], "\n")]
    IN IF ~Valid(bytes) THEN [matches |-> <<>>, normalized |-> FALSE, binary |-> TRUE, overflowed |-> FALSE]
       ELSE Scan(Terminated(Lines(bytes)))


MergeMatches(r, file) ==
    IF ~r.ok THEN r
    ELSE IF file.overflowed \/ Len(r.matches) + Len(file.matches) > MaxSearchMatches THEN Refused("WorkLimit")
    ELSE [r EXCEPT !.matches = @ \o file.matches, !.normalized = @ \/ file.normalized, !.partial = @ \/ file.binary]

MatchLess(m, n) == \/ KeyLess(m.path, n.path)
                   \/ m.path = n.path /\ (m.line < n.line \/ (m.line = n.line /\ m.column < n.column))
\* search and search_serial over files, a function from paths to bytes.
Search(fs, files, roots, query, hidden, entries) ==
    LET options == [depth |-> 64, hidden |-> hidden, entries |-> entries]
        walks == {Walk(fs, roots[i], options) : i \in DOMAIN roots}
        Merge(r, p) == MergeMatches(r, ScanFile(p, files[p], query))
        Found(paths) == FoldLeft(Merge, [ok |-> TRUE, matches |-> <<>>, normalized |-> FALSE, partial |-> FALSE],
                                 Ordered(paths, KeyLess))
        Finished(r) == IF r.ok THEN [r EXCEPT !.matches = Ordered(ToSet(@), MatchLess)] ELSE r
    IN IF \E i \in DOMAIN roots : ~Exists(fs, roots[i]) THEN Refused("NotFound")
       ELSE IF \E w \in walks : ~w.ok THEN Refused("EntryLimit")
       ELSE Finished(Found({p \in UNION {ToSet(w.val) : w \in walks} : ~IsDirectory(fs, p)}))

-----------------------------------------------------------------------------
(* Searching a retained result: every occurrence inside the asked range,   *)
(* each with a window of its line.  Offsets count from 0.                  *)

Boundary(text, i) == i = 0 \/ i >= Len(text) \/ text[i + 1] # "~"
FloorBoundary(text, i) == LET at == IF i < Len(text) THEN i ELSE Len(text)
                          IN CHOOSE j \in 0 .. at : Boundary(text, j) /\ \A k \in j + 1 .. at : ~Boundary(text, k)
CeilBoundary(text, i) == LET at == IF i < Len(text) THEN i ELSE Len(text)
                         IN CHOOSE j \in at .. Len(text) : Boundary(text, j) /\ \A k \in at .. j - 1 : ~Boundary(text, k)

WindowEnd(line, start, end, target) == IF end - start > target THEN FloorBoundary(line, start + target) ELSE end

\* project_line: the window and how many dots stand before and behind it.
ProjectLine(line, first, last) ==
    LET target == MaxProjectedLine - 6
        before == target \div 2
        start == FloorBoundary(line, IF first > before THEN first - before ELSE 0)
        reach == IF last + (target - before) < Len(line) THEN last + (target - before) ELSE Len(line)
        end == WindowEnd(line, start, CeilBoundary(line, reach), target)
    IN IF Len(line) <= MaxProjectedLine THEN [start |-> 0, end |-> Len(line), dots |-> 0]
       ELSE [start |-> start, end |-> end,
             dots |-> (IF start # 0 THEN 3 ELSE 0) + (IF end # Len(line) THEN 3 ELSE 0)]

\* match_indices: occurrences that do not overlap, leftmost first.
RECURSIVE MatchIndices(_, _, _)
MatchIndices(query, line, from) ==
    LET later == {i \in Occurrences(query, line) : i >= from}
        first == CHOOSE i \in later : \A j \in later : i <= j
    IN IF later = {} THEN <<>> ELSE <<first - 1>> \o MatchIndices(query, line, first + Len(query))

InRange(first, last, from, to) == first >= from /\ first < to /\ last <= to

SearchBytes(bytes, offset, length, query) ==
    LET range == SelectBytes(bytes, offset, length)
        from == CeilBoundary(bytes, range.offset)
        to == FloorBoundary(bytes, range.offset + range.length)
        lines == Lines(bytes)
        Start(n) == Len(FlattenSeq(SubSeq(lines, 1, n - 1)))
        Body(n) == Without(Without(lines[n], "\n"), "\r")
        At(n, start) ==
            LET In(i) == InRange(start + i, start + i + Len(query), from, to)
                kept == SelectSeq(MatchIndices(query, Body(n), 1), In)
            IN IF start >= to THEN <<>>
               ELSE [k \in DOMAIN kept |-> [offset |-> start + kept[k], line |-> n, column |-> kept[k] + 1]]
    IN IF ~Valid(bytes) THEN Refused("WrongFileType")
       ELSE Gave(FlattenSeq([n \in DOMAIN lines |-> At(n, Start(n))]))

-----------------------------------------------------------------------------
(* Properties                                                              *)

\* Reading a file window by window, the next window starting where the answer says the last
\* one ended, returns every byte once and in order, for bytes and for lines; the number of
\* lines an answer announces is the number it holds, and a retained result is cut into the
\* same lines as a file.
RangesPartition(bytes, length) ==
    LET RECURSIVE Windows(_, _)
        Windows(lines, at) ==
            LET w == IF lines THEN SelectLines(bytes, at, length) ELSE SelectBytes(bytes, at, length)
            IN IF w.length = 0 THEN <<>> ELSE w.bytes \o Windows(lines, w.offset + w.length)
    IN /\ Windows(FALSE, 0) = bytes
       /\ Windows(TRUE, 1) = bytes
       /\ \A offset \in 1 .. Len(bytes) + 2 : \A w \in {SelectLines(bytes, offset, length)} :
             w.length = Len(Lines(w.bytes)) /\ w.bytes = ReferenceLines(bytes, offset, length)

\* A listing holds every entry at most depth levels below one of the roots and behind no
\* hidden name, once, in key order, whatever the order and the overlap of the roots; it is
\* refused exactly when one walk, or the walks together, meet more entries than the bound.
ListAgrees(fs, roots, depth, hidden, filter) ==
    LET all == DOMAIN fs \union UNION {{Append(d, name) : name \in fs[d]} : d \in DOMAIN fs}
        Under(root) == {p \in all : /\ IsPrefix(root, p) /\ Len(p) - Len(root) <= depth
                                    /\ hidden \/ \A i \in Len(root) + 1 .. Len(p) : ~Hidden(p[i])}
        Count(n, root) == n + Cardinality(Under(root))
        met == FoldLeft(Count, 0, roots)
        r == List(fs, roots, depth, hidden, filter)
    IN IF met > MaxListEntries THEN ~r.ok
       ELSE r.ok /\ r.val = Ordered({p \in UNION {Under(roots[i]) : i \in DOMAIN roots} : Selected(fs, filter, p)}, KeyLess)

\* A search answers with the matching lines of every file below the roots in path and line
\* order, or not at all: it never hands out more matches than the bound and never a part of
\* the matches of the files it could read.
SearchAgrees(fs, files, roots, query) ==
    LET r == Search(fs, files, roots, query, TRUE, 100)
        below == {p \in DOMAIN files : \E i \in DOMAIN roots : IsPrefix(roots[i], p)}
        hits == UNION {{<<p, n>> : n \in {n \in DOMAIN Lines(files[p]) :
                                            Occurrences(query, Without(Without(Lines(files[p])[n], "\n"), "\r")) # {}}} :
                       p \in {p \in below : Valid(files[p])}}
        Before(g, h) == KeyLess(g[1], h[1]) \/ (g[1] = h[1] /\ g[2] < h[2])
        within == /\ Cardinality(hits) <= MaxSearchMatches
                  /\ \A p \in below : Cardinality({h \in hits : h[1] = p}) <= MaxFileMatches
    IN IF ~within THEN ~r.ok
       ELSE /\ r.ok /\ r.partial = (\E p \in below : ~Valid(files[p]))
            /\ [k \in DOMAIN r.matches |-> <<r.matches[k].path, r.matches[k].line>>]
                  = Ordered(hits, Before)

\* The projected window of a long line is within the line limit with its dots, begins and
\* ends between characters, and shows where the match begins.
WindowFits(line, first, last) ==
    LET w == ProjectLine(line, first, last)
    IN /\ w.end - w.start + w.dots <= MaxProjectedLine
       /\ Boundary(line, w.start) /\ Boundary(line, w.end)
       /\ w.start <= first /\ (first < w.end \/ first = last)

\* Searching a retained result range by range, with ranges at least as long as the query
\* overlapping by one unit less than it, finds every occurrence a search of the whole result
\* finds.
RangedSearchComplete(bytes, query, length) ==
    LET whole == SearchBytes(bytes, 0, Len(bytes), query)
        step == length - (Len(query) - 1)
        ranged == {SearchBytes(bytes, k * step, length, query) : k \in 0 .. Len(bytes) \div step}
    IN whole.ok => ToSet(whole.val) = UNION {ToSet(r.val) : r \in ranged}
=============================================================================
