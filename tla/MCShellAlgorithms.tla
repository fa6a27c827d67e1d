------------------------- MODULE MCShellAlgorithms -------------------------
(***************************************************************************)
(* The pure parts of the program over bounded inputs: the parser of the    *)
(* human shell, word and pathname expansion, the arguments and streams of  *)
(* portable commands, the lowering of pipelines, the read, list and search *)
(* services, and what answers show of results.  Every state is one input.  *)
(***************************************************************************)
EXTENDS ShellSyntax, ShellPortable, Projections

CONSTANTS ParallelLines, PartitionLines, MaxBlockLines, ContextBefore, ContextAfter, EdgeLines

Plan == INSTANCE PipelinePlan
Reducer == INSTANCE Reducers WITH Anchors <- {<<"q">>}, Alike <- {{<<"p">>, <<"r">>}}

VARIABLE input

Strings(chars, n) == UNION {[1 .. k -> chars] : k \in 0 .. n}

-----------------------------------------------------------------------------
(* Source texts, and trees to be written out and parsed again              *)

Opened == <<"$", "(">>
Texts ==
    Strings({"a", " ", "|", "&", ";", "\n", "#"}, 4)
    \union Strings({"a", " ", "<", ">", "1", "2", "&"}, 4)
    \union Strings({"a", "$", "{", "}", "?", "\"", "1", "("}, 4)
    \union {Opened \o w : w \in Strings({"a", " ", "'", "\"", "\\", "#", "\n", ")", "$", "("}, 4)}
    \union {Opened \o <<"a">> \o w \o <<")">> : w \in Strings({"a", " ", "'", "\"", "\\", "#", "\n", "$", "("}, 3)}
    \union {Opened \o <<"a", " ">> \o Opened \o w \o <<")", ")">> : w \in Strings({"a", " ", "'", "\"", "\\", "$", "(", ")"}, 3)}

Lit(c, quote) == [kind |-> "lit", val |-> <<c>>, quote |-> quote]
Param(name, quote) == [kind |-> "param", name |-> <<name>>, quote |-> quote]
Simple(words, redirections) == [words |-> words, redirections |-> redirections]
Listed1(commands, condition) == [commands |-> commands, condition |-> condition]
Sub(quote) == [kind |-> "sub", quote |-> quote,
               script |-> <<Listed1(<<Simple(<<<<Param("x", "double")>>>>, <<>>)>>, "always")>>]
Words == {<<Lit("a", "none")>>, <<Lit("a", "single"), Lit("b", "double")>>, <<Param("x", "none")>>,
          <<[kind |-> "esc", val |-> <<" ">>, quote |-> "none"]>>, <<Lit("a", "none"), Param("?", "double")>>,
          <<Sub("none")>>, <<Sub("double"), Lit("a", "none")>>}
File(fd, mode, path) == [fd |-> fd, to |-> "file", mode |-> mode, path |-> <<path>>]
RedirectionLists ==
    {<<>>, <<[fd |-> "2", to |-> "1"]>>, <<File("1", "Write", Lit("a", "double"))>>,
     <<File("0", "Read", Lit("a", "none")), File("2", "Append", Sub("none"))>>}
SimpleCommands == {Simple(<<w>>, r) : w \in Words, r \in RedirectionLists} \union {Simple(<<w, v>>, <<>>) : w \in Words, v \in Words}
Bare == {Simple(<<w>>, <<>>) : w \in {<<Lit("a", "none")>>, <<Sub("none")>>}}
Conditions == {"always", "and", "or"}
Trees ==
    {<<Listed1(<<c>>, "always")>> : c \in SimpleCommands}
    \union {<<Listed1(<<c>>, "always"), Listed1(<<d>>, o)>> : c \in Bare, d \in SimpleCommands, o \in Conditions}
    \union {<<Listed1(<<c, d>>, "always"), Listed1(<<e>>, o), Listed1(<<e>>, q)>> :
               c \in Bare, d \in Bare, e \in Bare, o \in Conditions, q \in Conditions}

-----------------------------------------------------------------------------
(* Words with the values of their expansions, patterns, and a small tree   *)

Parts == {[kind |-> "lit", val |-> v, quote |-> q] : v \in {<<"a">>, <<"*">>}, q \in {"none", "single"}}
         \union {[kind |-> "lit", val |-> <<>>, quote |-> "double"], [kind |-> "esc", val |-> <<"*">>, quote |-> "none"],
                 [kind |-> "param", quote |-> "none"], [kind |-> "sub", quote |-> "double"]}
Fields == {[of |-> "fields", parts |-> p, values |-> v] :
              p \in UNION {[1 .. k -> Parts] : k \in 1 .. 3}, v \in [1 .. 3 -> {<<>>, <<"a", " ">>, <<" ", "b">>}]}
Patterns == {[of |-> "match", units |-> p, name |-> n] :
                p \in Strings({"a", "*", "?", "[", "]", "-", "!", "."}, 3), n \in Strings({"a", "b", "."}, 2)}
Globs == {[of |-> "glob", field |-> Field(u, [i \in DOMAIN u |-> TRUE])] : u \in Strings({"a", "*", "/", "b", ".", "?"}, 4)}

A == <<"a">>
B == <<"b">>
HiddenB == <<".", "b">>
FileTree == (<<>> :> {A, B, HiddenB, <<"a", "b">>}) @@ (<<A>> :> {A, B}) @@ (<<HiddenB>> :> {A}) @@ (<<A, B>> :> {A})

-----------------------------------------------------------------------------
(* Arguments and streams                                                   *)

Cut(b, ends) == [k \in DOMAIN ends |-> SubSeq(b, IF k = 1 THEN 1 ELSE ends[k - 1] + 1, ends[k])]
Chunkings(b) == {Cut(b, Ascending(c \union {Len(b)})) : c \in SUBSET (1 .. Len(b) - 1)}
Streams == {<<>>} \union UNION {Chunkings(b) : b \in Strings({"a", "b", "\n", "\r", "^"}, 4) \ {<<>>}}
Arguments ==
    {[of |-> "grep", chunks |-> c, o |-> [query |-> <<"a">>, number |-> n]] : c \in Streams, n \in BOOLEAN}
    \union {[of |-> "copy", chunks |-> c] : c \in UNION {Chunkings([i \in 1 .. n |-> "a"]) : n \in 1 .. MaxRead + 2}}
    \union {[of |-> "path", units |-> p] : p \in Strings({"a", "b", ".", "/"}, 5)}
    \union {[of |-> "options", letters |-> l, operands |-> p] :
               l \in Strings({"E", "F", "i", "n", "z"}, 3), p \in Strings({<<"a">>, <<"-", "n">>, <<"-">>}, 2)}

-----------------------------------------------------------------------------
(* Pipelines, and graphs of processes                                      *)

Redirection == {[fd |-> "in", path |-> "f", mode |-> "Read"], [fd |-> "out", path |-> "g", mode |-> "Write"],
                [fd |-> "err", path |-> "h", mode |-> "Append"], [fd |-> "err", from |-> "out"], [fd |-> "out", from |-> "err"]}
Stages(k) == LET lists == Strings(Redirection, k)
             IN [kind : {"native"}, reads : {TRUE}, redirs : lists] \union [kind : {"stateful"}, reads : {FALSE}, redirs : lists]
                \union [kind : {"portable"}, reads : BOOLEAN, redirs : lists]
Pipelines == [1 .. 1 -> Stages(2)] \union [1 .. 2 -> Stages(1)] \union [1 .. 3 -> {s \in Stages(1) : s.redirs # <<>> => s.redirs[1].fd # "in"}]
Ends == {Plan!Null, Plan!Pipe(1), Plan!Pipe(2)}
Specs == [in : Ends, out : Ends, err : {Plan!Null, Plan!Pipe(1)}]
Declared == Strings({Plan!Reader(1), Plan!Writer(1), Plan!Reader(2), Plan!Writer(2)}, 1)
PlanInputs ==
    {[of |-> "plan", stages |-> p] : p \in Pipelines}
    \union {[of |-> "graph", specs |-> p, closed |-> c, kept |-> k] : p \in Strings(Specs, 2), c \in Declared, k \in Declared}
    \union {[of |-> "graph", specs |-> p, closed |-> <<>>, kept |-> <<>>] : p \in [1 .. 3 -> {s \in Specs : s.err = Plan!Null}]}

-----------------------------------------------------------------------------
(* Bytes, trees and files for the read, list and search services           *)

\* "x~" is one character of two bytes.
WellFormed(b) ==
    \A i \in DOMAIN b : (b[i] = "~" => i > 1 /\ b[i - 1] = "x") /\ (b[i] = "x" => i < Len(b) /\ b[i + 1] = "~")
HiddenA == <<".", "a">>
Dotted == <<"a", ".">>
Tree == (<<>> :> {A, HiddenA, Dotted}) @@ (<<A>> :> {A, B, HiddenA}) @@ (<<HiddenA>> :> {A}) @@ (<<A, B>> :> {A, HiddenA})
Roots == UNION {[1 .. k -> {<<>>, <<A>>, <<HiddenA>>, <<A, B>>, <<A, HiddenA>>, <<Dotted>>}] : k \in 1 .. 2}
Contents == {<<>>, <<"a">>, <<"b", "\n", "a">>, <<"a", "\n", "a", "\r", "\n">>, <<"^">>}
FileSets == {(<<Dotted>> :> x) @@ (<<A, HiddenA>> :> y) @@ (<<HiddenA, A>> :> z)
             @@ [p \in {<<A, A>>, <<A, B, A>>, <<A, B, HiddenA>>} |-> <<"b">>] : x \in Contents, y \in Contents, z \in Contents}
LongLines == {[i \in 1 .. l |-> IF i \in c THEN "~" ELSE "a"] : l \in {10, 13}, c \in SUBSET {2, 4, 6, 8, 11}}
Services ==
    {[of |-> "range", bytes |-> b, length |-> n] : b \in Strings({"a", "\n", "\r"}, 5), n \in 1 .. 3}
    \union {[of |-> "list", roots |-> r, depth |-> d, hidden |-> h, filter |-> f] :
               r \in Roots, d \in 0 .. 3, h \in BOOLEAN, f \in {"all", "files", "directories"}}
    \union {[of |-> "search", roots |-> r, files |-> f] :
               r \in {<<<<>>>>, <<<<A>>, <<HiddenA>>>>, <<<<Dotted>>, <<A, B>>, <<A>>>>}, f \in FileSets}
    \union {[of |-> "ranged", bytes |-> b, query |-> q, length |-> n] :
               b \in {w \in Strings({"a", "x", "~", "\n"}, 5) : WellFormed(w)}, q \in {<<"a">>, <<"a", "a">>, <<"x", "~">>}, n \in 2 .. 4}
    \union UNION {{[of |-> "window", line |-> l, first |-> f, last |-> g] :
                      f \in {k \in 0 .. Len(l) : Boundary(l, k)}, g \in {k \in 0 .. Len(l) : Boundary(l, k)}} : l \in LongLines}

-----------------------------------------------------------------------------
(* Results, and what is shown of them                                      *)

PrefixInputs ==
    {[of |-> "prefix", widths |-> w, records |-> r, limit |-> l] : w \in Strings({2, 3, 5}, 4), r \in 0 .. 4, l \in {2, 3, 6, 9, 11}}
    \union {[of |-> "slice", bytes |-> b, limit |-> l] : b \in Strings({"a", "\n", "x", "y", "~"}, 4), l \in 2 .. 9}
    \union {[of |-> "table", rows |-> [i \in 1 .. n |-> <<i, 10 + i>>], selected |-> s, length |-> l] :
               n \in 0 .. 3, s \in Strings({"p", "k", "z"}, 2) \ {<<>>}, l \in 1 .. 3}

Edits == [offset : 0 .. 3, delete : 0 .. 2, insert : {<<>>, <<"p", "q">>}]
Originals == {SubSeq(<<"a", "b", "c">>, 1, n) : n \in 0 .. 3}
Patches == UNION {{[of |-> "patch", original |-> b, expected |-> e, edits |-> d, observed |-> n] :
                      e \in {b, <<"a">>}, n \in {Len(b), Len(b) + 1},
                      d \in {d \in Strings(Edits, 2) : EditsValid(d)}} : b \in Originals}

Stored == [p \in {<<A, A>>, <<A, B, A>>, <<A, B, HiddenA>>, <<Dotted>>, <<A, HiddenA>>, <<HiddenA, A>>} |-> <<"b">>]
Scopes == {[paths |-> Ordered(r, LogicalLess), depth |-> d, hidden |-> h] :
              r \in SUBSET {<<>>, <<A>>, <<HiddenA>>, <<A, B>>, <<A, HiddenA>>, <<Dotted>>} \ {{}}, d \in 0 .. 2, h \in BOOLEAN}
Entry(path, k) == [path |-> path, kind |-> IF k = 3 THEN "directory" ELSE "file", size |-> k % 3, digest |-> IF k = 3 THEN <<>> ELSE <<k>>]
Manifests == {LET present == Ordered({p \in DOMAIN m : m[p] # 0}, LogicalLess)
              IN [i \in DOMAIN present |-> Entry(present[i], m[present[i]])] : m \in [{<<A>>, <<A, B>>, <<Dotted>>} -> 0 .. 3]}
Snapshots == {[of |-> "snapshot", scope |-> s] : s \in Scopes}
             \union {[of |-> "delta", before |-> b, after |-> a] : b \in Manifests, a \in Manifests}

Characters(set, n) == {FlattenSeq(c) : c \in Strings(set, n)}
Some5 == {<<"a">>, <<"\r">>, <<"\n">>, <<"x", "~">>, <<"y", "~", "~">>}
Pieces(b, n) == [k \in 1 .. (Len(b) + n - 1) \div n |-> SubSeq(b, (k - 1) * n + 1, Smaller(k * n, Len(b)))]
Captured == Characters(Some5, 4) \union {<<"a", "a">> \o b : b \in Characters(Some5 \ {<<"a">>}, 5)}
Captures ==
    UNION {{[of |-> "stream", bytes |-> b, chunks |-> c] : c \in Chunkings(b)} : b \in Strings({"a", "\r", "\n", "x", "y", "~"}, 4) \ {<<>>}}
    \union {[of |-> "capture", bytes |-> b, chunks |-> Pieces(b, 3), limit |-> l] : b \in Captured, l \in {2, 7, 8, 10}}

Terminated(word, n) == [word |-> <<word>>, bytes |-> n, ends |-> TRUE]
Printed == {Terminated("p", 2), Terminated("q", 5), Terminated("r", 4)}
Outputs == {[of |-> "output", lines |-> l] : l \in Strings(Printed, 6)}
           \union {[of |-> "output", lines |-> Append(l, [word |-> <<"p">>, bytes |-> 1, ends |-> FALSE])] : l \in Strings(Printed, 5)}

-----------------------------------------------------------------------------
Inputs == [texts |-> {[of |-> "text", s |-> s] : s \in Texts}, trees |-> {[of |-> "tree", s |-> t] : t \in Trees},
           fields |-> Fields, patterns |-> Patterns, globs |-> Globs, arguments |-> Arguments, plans |-> PlanInputs,
           services |-> Services, prefixes |-> PrefixInputs, patches |-> Patches, snapshots |-> Snapshots,
           captures |-> Captures, outputs |-> Outputs]

Init == \E kind \in DOMAIN Inputs : input = [of |-> "kind", kind |-> kind]
Choose == input.of = "kind" /\ input' \in Inputs[input.kind]
Spec == Init /\ [][Choose]_input

\* A tree that is written out is parsed back, the end of a substitution found by
\* scanning ahead is the one its parser stops at, and the spans of words and parts
\* are where these stand in the outermost source, nest and follow each other,
\* through every level of substitution (parser.rs Parser::parse,
\* find_command_substitution_end, syntax.rs).
ParserAgrees ==
    /\ input.of = "tree" => ParsesGrammar(input.s)
    /\ input.of = "text" => ScannerRespectsQuotes(input.s) /\ SpansLocate(input.s) /\ SpansNest(input.s)

\* Splitting gives the fields that quoting and unquoted blanks mark (expand.rs);
\* the component matcher has the meaning of a pattern, components are located
\* where they stand, and pathname expansion gives all and only the matching
\* paths unless it reports a limit (glob.rs).
WordsAgree ==
    /\ input.of = "fields" => FieldsAgree(input.parts, input.values)
    /\ input.of = "match" => MatcherAgrees(input.units, input.name)
    /\ input.of = "path" => ComponentsLocated(input.units)
    /\ input.of = "glob" => ExpansionAgrees(input.field, FileTree, <<>>)

\* grep and cat over a stream, however it is cut into chunks, give what they give
\* over the whole input; the operand of a mutation stays the one named, and
\* the options of grep mean the same in any order (execution.rs).
PortableAgrees ==
    /\ input.of = "grep" => StreamGrepAgrees(input.o, input.chunks)
    /\ input.of = "copy" => CopyExact(input.chunks)
    /\ input.of = "path" => LogicalNamesOperand(FileTree, <<A>>, input.units)
    /\ input.of = "options" => OptionsOrderFree(input.letters, input.operands)

\* The check of a graph accepts exactly the graphs whose pipes have one reading
\* and one writing side; every pipeline is lowered to a graph it accepts, with
\* redirections in effect from left to right and files opened in source order
\* (process.rs validate_process_graph_with_parent_pipe_ends, execution.rs
\* execute_pipeline).
PlansAgree ==
    /\ input.of = "graph" => Plan!GraphCheckAgrees(input.specs, input.closed, input.kept)
    /\ input.of = "plan" =>
          /\ Plan!LoweringAccepted(input.stages) /\ Plan!OpensInSourceOrder(input.stages)
          /\ \A i \in DOMAIN input.stages : Plan!RedirectionsOrdered(input.stages[i], i, Len(input.stages))

\* Consecutive line ranges of a file or a retained result give it back without
\* loss or overlap, a search through consecutive ranges finds what one search
\* finds, a shortened line keeps its match on character boundaries, and a slice
\* or a table shows the longest prefix that fits (semantic.rs select_lines,
\* reference.rs search_bytes, project_line, slice_response, project_ason,
\* projection.rs largest_prefix).
RangesAgree ==
    /\ input.of = "range" => RangesPartition(input.bytes, input.length)
    /\ input.of = "ranged" => RangedSearchComplete(input.bytes, input.query, input.length)
    /\ input.of = "window" /\ input.first <= input.last => WindowFits(input.line, input.first, input.last)
    /\ input.of = "prefix" => PrefixLargest(input.widths, input.records, input.limit)
    /\ input.of = "slice" => SliceLongest(input.bytes, input.limit)
    /\ input.of = "table" => TableWindows(<<"p", "k">>, input.rows, input.selected, input.length)


\* What is shown of captured output is its beginning and its end within the limit,
\* or the whole with repetitions counted and only lines far from a diagnostic left
\* out; output that is not shown byte for byte is kept (exec.rs project,
\* project_sampled, StreamText, reducer.rs).
OutputAgrees ==
    /\ input.of = "stream" => StreamTextExact(input.bytes, input.chunks)
    /\ input.of = "capture" => CaptureShown(input.bytes, input.chunks, input.limit)
    /\ input.of = "output" => /\ Reducer!RepeatsLossless(input.lines) /\ Reducer!BlocksBest(input.lines)
                              /\ Reducer!FocusKeeps(Reducer!Reduce(input.lines, FALSE))
=============================================================================
