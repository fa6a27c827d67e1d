------------------------------ MODULE ShellWords ------------------------------
(***************************************************************************)
(* Word expansion of the human shell: parameter and substitution values    *)
(* split into fields (expand.rs), then pathname patterns matched against   *)
(* directories (glob.rs).  A value is a sequence of units, one-character   *)
(* strings; an expanded field keeps, per unit, whether the unit may act as *)
(* a pattern operator.                                                     *)
(***************************************************************************)
EXTENDS Integers, Sequences, FiniteSets, SequencesExt, Ordering

CONSTANTS MaxPatternUnits,   \* MAX_PATHNAME_PATTERN_UNITS
          MaxEntries,        \* MAX_PATHNAME_EXPANSION_ENTRIES
          MaxMatches         \* MAX_PATHNAME_EXPANSION_MATCHES

Separator == {" ", "\t", "\n"}
Field(val, act) == [val |-> val, act |-> act]
EmptyBuilder == [fields |-> <<>>, val |-> <<>>, act |-> <<>>, present |-> FALSE]

Extend(b, units, active) ==
    IF units = <<>> THEN b
    ELSE [b EXCEPT !.val = @ \o units, !.act = @ \o [i \in DOMAIN units |-> active], !.present = TRUE]
MarkPresent(b) == [b EXCEPT !.present = TRUE]
FinishField(b) ==
    IF b.present THEN [EmptyBuilder EXCEPT !.fields = Append(b.fields, Field(b.val, b.act))] ELSE b

AppendSplit(b, value) ==
    LET Unit(c, u) == IF u \in Separator THEN FinishField(c) ELSE Extend(c, <<u>>, TRUE)
    IN FoldLeft(Unit, b, value)

\* One part of a word; value is what a parameter or a substitution stands for.
ExpandPart(b, part, value) ==
    CASE part.kind = "lit" -> LET c == Extend(b, part.val, part.quote = "none")
                              IN IF part.val = <<>> /\ part.quote # "none" THEN MarkPresent(c) ELSE c
      [] part.kind = "esc" -> Extend(b, part.val, FALSE)
      [] part.kind \in {"param", "sub"} ->
            IF part.quote = "none" THEN AppendSplit(b, value) ELSE MarkPresent(Extend(b, value, FALSE))

\* The fields of a word whose i-th part has the value values[i].
ExpandWord(parts, values) ==
    LET b[i \in 0 .. Len(parts)] == IF i = 0 THEN EmptyBuilder ELSE ExpandPart(b[i - 1], parts[i], values[i])
    IN FinishField(b[Len(parts)]).fields

-----------------------------------------------------------------------------
(* Patterns                                                                *)

\* The order of the units as code units.
UnitOrder == <<"!", "*", "-", ".", "/", "?", "[", "]", "^", "a", "b", "c", "t", "x">>
Code(u) == CHOOSE i \in DOMAIN UnitOrder : UnitOrder[i] = u
Introducer == {"*", "?", "["}

Invalid == [ok |-> FALSE, kind |-> "InvalidPattern"]

RECURSIVE ClassRanges(_, _, _, _)
ClassRanges(units, act, i, closing) ==
    IF i >= closing THEN <<>>
    ELSE IF i + 2 < closing /\ act[i + 1] /\ units[i + 1] = "-"
    THEN <<<<units[i], units[i + 2]>>>> \o ClassRanges(units, act, i + 3, closing)
    ELSE <<<<units[i], units[i]>>>> \o ClassRanges(units, act, i + 1, closing)

\* The class opened at position o: its token and the position after it.
CompileClass(units, act, o) ==
    LET negated == o + 1 <= Len(units) /\ act[o + 1] /\ units[o + 1] \in {"!", "^"}
        content == IF negated THEN o + 2 ELSE o + 1
        closings == {i \in content .. Len(units) : act[i] /\ units[i] = "]"}
        closing == CHOOSE i \in closings : \A j \in closings : i <= j
        ranges == ClassRanges(units, act, content, closing)
    IN IF closings = {} \/ closing = content
          \/ \E r \in {ranges[i] : i \in DOMAIN ranges} : Code(r[1]) > Code(r[2])
       THEN Invalid
       ELSE [ok |-> TRUE, token |-> [t |-> "class", negated |-> negated, ranges |-> ranges], next |-> closing + 1]

RECURSIVE CompileFrom(_, _, _, _, _)
CompileFrom(units, act, i, tokens, has) ==
    LET u == units[i]
        class == CompileClass(units, act, i)
        starred == tokens # <<>> /\ tokens[Len(tokens)].t = "seq"
    IN IF i > Len(units) THEN [ok |-> TRUE, has |-> has, tokens |-> tokens]
       ELSE CASE act[i] /\ u = "*" -> CompileFrom(units, act, i + 1, IF starred THEN tokens ELSE Append(tokens, [t |-> "seq"]), TRUE)
              [] act[i] /\ u = "?" -> CompileFrom(units, act, i + 1, Append(tokens, [t |-> "one"]), TRUE)
              [] act[i] /\ u = "[" -> IF class.ok THEN CompileFrom(units, act, class.next, Append(tokens, class.token), TRUE)
                                      ELSE Invalid
              [] OTHER -> CompileFrom(units, act, i + 1, Append(tokens, [t |-> "lit", unit |-> u]), has)
CompileComponent(units, act) == CompileFrom(units, act, 1, <<>>, FALSE)

TokenMatches(token, u) ==
    CASE token.t = "lit" -> token.unit = u
      [] token.t = "one" -> TRUE
      [] token.t = "class" -> (\E i \in DOMAIN token.ranges : Code(token.ranges[i][1]) <= Code(u) /\ Code(u) <= Code(token.ranges[i][2]))
                                # token.negated

\* The lengths of the prefixes of name that the tokens read so far match.
MatchStep(states, token, name) ==
    IF token.t = "seq" THEN {j \in 0 .. Len(name) : \E i \in states : i <= j}
    ELSE {i + 1 : i \in {i \in states : i < Len(name) /\ TokenMatches(token, name[i + 1])}}

HiddenFrom(tokens, name) ==
    name # <<>> /\ name[1] = "." /\ ~(tokens # <<>> /\ tokens[1] = [t |-> "lit", unit |-> "."])

MatchesComponent(tokens, name) ==
    LET Step(states, token) == MatchStep(states, token, name)
    IN ~HiddenFrom(tokens, name) /\ Len(name) \in FoldLeft(Step, {0}, tokens)

-----------------------------------------------------------------------------
(* Paths.  Components are what Path::components yields: empty components   *)
(* and inner "." are dropped, a leading "/", "." or ".." is kept.          *)

\* The half-open ranges, from 1, between the separators.
Segments(units) ==
    {<<a, b>> \in (1 .. Len(units)) \X (2 .. Len(units) + 1) :
        /\ a < b
        /\ \A i \in a .. b - 1 : units[i] # "/"
        /\ a = 1 \/ units[a - 1] = "/"
        /\ b = Len(units) + 1 \/ units[b] = "/"}
StartsBefore(r, q) == r[1] < q[1]
Piece(units, r) == SubSeq(units, r[1], r[2] - 1)
Components(units) ==
    LET kept == {r \in Segments(units) : Piece(units, r) # <<".">> \/ r[1] = 1}
        Kind(piece) == CASE piece = <<".">> -> "cur" [] piece = <<".", ".">> -> "parent" [] OTHER -> "normal"
        Component(piece) == [kind |-> Kind(piece), val |-> piece]
        Normal(ranges) == [i \in DOMAIN ranges |-> Component(Piece(units, ranges[i]))]
    IN (IF units # <<>> /\ units[1] = "/" THEN <<[kind |-> "root", val |-> <<"/">>]>> ELSE <<>>)
       \o Normal(Ordered(kept, StartsBefore))

\* Mutant: the search starts at the beginning of the path.
LocateFirst(units, cursor, component) ==
    LET n == Len(component.val)
        starts == {i \in 1 .. Len(units) - n + 1 : SubSeq(units, i, i + n - 1) = component.val}
        start == CHOOSE i \in starts : \A j \in starts : i <= j
    IN <<start, start + n>>

\* find_subslice and locate_component: where a component lies at or after cursor.
Locate(units, cursor, component) ==
    LET n == Len(component.val)
        starts == IF component.kind = "root" THEN {i \in cursor .. Len(units) : units[i] = "/"}
                  ELSE {i \in cursor .. Len(units) - n + 1 : SubSeq(units, i, i + n - 1) = component.val}
        start == CHOOSE i \in starts : \A j \in starts : i <= j
    IN <<start, start + n>>

RECURSIVE CompilePathFrom(_, _, _, _)
CompilePathFrom(field, components, cursor, compiled) ==
    LET c == Head(components)
        r == Locate(field.val, cursor, c)
        p == CompileComponent(c.val, SubSeq(field.act, r[1], r[2] - 1))
    IN IF components = <<>> THEN [ok |-> TRUE, path |-> compiled]
       ELSE IF c.kind = "normal" /\ ~p.ok THEN p
       ELSE CompilePathFrom(field, Tail(components), r[2],
                            Append(compiled, [kind |-> c.kind, val |-> c.val, from |-> r[1],
                                              has |-> c.kind = "normal" /\ p.has,
                                              tokens |-> IF c.kind = "normal" THEN p.tokens ELSE <<>>]))

(* A directory tree is a function from directories, sequences of names     *)
(* from the root, to the names in them; a name that is no directory is a   *)
(* file.  ".." goes to the parent.                                         *)
Exists(fs, path) == path \in DOMAIN fs \/ (path # <<>> /\ Front(path) \in DOMAIN fs /\ Last(path) \in fs[Front(path)])
IsDirectory(fs, path) == path \in DOMAIN fs
Push(fs, path, c) == CASE c.kind = "root" -> <<>> [] c.kind = "cur" -> path
                   [] c.kind = "parent" /\ path \in DOMAIN fs -> IF path = <<>> THEN path ELSE Front(path)
                   [] OTHER -> Append(path, c.val)
\* PathBuf::push on the argument, which is text.
PushText(argument, val) ==
    IF argument = <<>> THEN val ELSE IF Last(argument) = "/" THEN argument \o val ELSE argument \o <<"/">> \o val

\* compare_native: code units, lexicographically.
NativeLess(p, q) ==
    \/ \E i \in DOMAIN p \intersect DOMAIN q : SubSeq(p, 1, i - 1) = SubSeq(q, 1, i - 1) /\ Code(p[i]) < Code(q[i])
    \/ Len(p) < Len(q) /\ SubSeq(q, 1, Len(p)) = p

\* The entries of the candidates' directories, as candidates.
Listed(fs, candidates) ==
    {[lookup |-> Append(d.lookup, name), argument |-> PushText(d.argument, name)] :
        <<d, name>> \in UNION {{d} \X fs[d.lookup] : d \in {d \in candidates : IsDirectory(fs, d.lookup)}}}

Charged(counter, by, limit) == [ok |-> counter + by <= limit, value |-> counter + by]

\* One component: a plain name is pushed, a pattern reads the directories.
WalkComponent(fs, r, c) ==
    LET listed == Listed(fs, r.candidates)
        matched == {e \in listed : MatchesComponent(c.tokens, Last(e.lookup))}
        entries == Charged(r.budget.entries, Cardinality(listed), MaxEntries)
        matches == Charged(r.budget.matches, Cardinality(matched), MaxMatches)
    IN IF ~c.has THEN [r EXCEPT !.candidates = {[lookup |-> Push(fs, d.lookup, c), argument |-> PushText(d.argument, c.val)] : d \in @}]
       ELSE IF ~entries.ok \/ ~matches.ok THEN [ok |-> FALSE, kind |-> "ResourceLimit"]
       ELSE [r EXCEPT !.candidates = matched, !.budget.entries = entries.value, !.budget.matches = matches.value]

\* The pathnames a field stands for, in native order; a field without an active pattern
\* stands for itself.
ExpandPathname(field, fs, cwd, budget) ==
    LET active == \E i \in DOMAIN field.val : field.act[i] /\ field.val[i] \in Introducer
        units == budget.units + Len(field.val)
        start == [ok |-> TRUE, budget |-> [budget EXCEPT !.units = units],
                  candidates |-> {[lookup |-> cwd, argument |-> <<>>]}]
        Step(r, c) == IF r.ok THEN WalkComponent(fs, r, c) ELSE r
        Kept(d) == IF Last(field.val) = "/" THEN IsDirectory(fs, d.lookup) ELSE Exists(fs, d.lookup)
        Itself(b) == [ok |-> TRUE, fields |-> <<field.val>>, budget |-> b]
        Matched(names, after) ==
            IF names = {} THEN [ok |-> FALSE, kind |-> "NoMatches"]
            ELSE [ok |-> TRUE, fields |-> Ordered(names, NativeLess), budget |-> after]
        Walked(r) == IF r.ok THEN Matched({d.argument : d \in {d \in r.candidates : Kept(d)}}, r.budget) ELSE r
        Compiled(r) ==
            IF ~r.ok THEN r
            ELSE IF \E i \in DOMAIN r.path : r.path[i].has THEN Walked(FoldLeft(Step, start, r.path))
            ELSE Itself([budget EXCEPT !.units = units])
    IN IF ~active THEN Itself(budget)
       ELSE IF units > MaxPatternUnits THEN [ok |-> FALSE, kind |-> "ResourceLimit"]
       ELSE Compiled(CompilePathFrom(field, Components(field.val), 1, <<>>))

-----------------------------------------------------------------------------
(* Properties                                                              *)

\* Word expansion equals its declarative reading: mark every unit that an unquoted expansion
\* contributed and that is a separator; the fields are what lies between the marks, and a
\* field exists when it has a unit or a quoted part, even an empty one.
WordItems(parts, values) ==
    LET Units(v, kind) == [i \in DOMAIN v |-> [is |-> kind, u |-> v[i]]]
        Split(v) == [i \in DOMAIN v |-> [is |-> IF v[i] \in Separator THEN "break" ELSE "active", u |-> v[i]]]
        Items(i) == LET part == parts[i]
                        v == IF part.kind \in {"lit", "esc"} THEN part.val ELSE values[i]
                        quoted == <<[is |-> "empty", u |-> ""]>> \o Units(v, "plain")
                    IN CASE part.quote # "none" -> quoted
                         [] part.kind = "esc" -> Units(v, "plain")
                         [] part.kind = "lit" -> Units(v, "active")
                         [] part.kind \in {"param", "sub"} -> Split(v)
    IN FlattenSeq([i \in DOMAIN parts |-> Items(i)])
FieldsAgree(parts, values) ==
    LET items == <<[is |-> "break", u |-> ""]>> \o WordItems(parts, values) \o <<[is |-> "break", u |-> ""]>>
        breaks == {i \in DOMAIN items : items[i].is = "break"}
        runs == {r \in breaks \X breaks : r[1] + 1 < r[2] /\ \A i \in r[1] + 1 .. r[2] - 1 : i \notin breaks}
        order == Ordered(runs, StartsBefore)
        Full(item) == item.is # "empty"
        Read(r) == LET run == SelectSeq(SubSeq(items, r[1] + 1, r[2] - 1), Full)
                   IN Field([i \in DOMAIN run |-> run[i].u], [i \in DOMAIN run |-> run[i].is = "active"])
    IN ExpandWord(parts, values) = [i \in DOMAIN order |-> Read(order[i])]

\* The matcher of a component, which keeps the set of matched prefix lengths, agrees with
\* the meaning of a pattern: the name is cut into consecutive pieces, one per token, a star
\* takes any piece and every other token one unit it allows; no wildcard or class reads a
\* leading dot.
MatcherAgrees(units, name) ==
    LET p == CompileComponent(units, [i \in DOMAIN units |-> TRUE])
        cuts == {f \in [0 .. Len(p.tokens) -> 0 .. Len(name)] :
                    /\ f[0] = 0 /\ f[Len(p.tokens)] = Len(name)
                    /\ \A i \in DOMAIN p.tokens :
                          IF p.tokens[i].t = "seq" THEN f[i - 1] <= f[i]
                          ELSE f[i] = f[i - 1] + 1 /\ TokenMatches(p.tokens[i], name[f[i]])}
        dotted == name # <<>> /\ name[1] = "." /\ (units = <<>> \/ units[1] # ".")
    IN p.ok => (MatchesComponent(p.tokens, name) <=> cuts # {} /\ ~dotted)

\* Searching for a component's text from the end of the one before always finds that
\* component and never an earlier stretch of the path, so every unit keeps its own
\* active flag when patterns are compiled.
ComponentsLocated(units) ==
    LET path == CompilePathFrom(Field(units, [i \in DOMAIN units |-> FALSE]), Components(units), 1, <<>>).path
        kept == Ordered({r \in Segments(units) : Piece(units, r) # <<".">> \/ r[1] = 1}, StartsBefore)
        root == IF units # <<>> /\ units[1] = "/" THEN 1 ELSE 0
    IN \A i \in DOMAIN kept : path[i + root].from = kept[i][1]

\* Pathname expansion yields exactly the paths of the tree whose components match, each once
\* and in native order, and it stops with ResourceLimit exactly when more entries are read, or more names match on the
\* way, than the limits allow.
PathReaches(fs, cwd, path, tokensAt) ==
    \A i \in DOMAIN path : IF tokensAt[i].has THEN MatchesComponent(tokensAt[i].tokens, path[i]) ELSE path[i] = tokensAt[i].val
ExpansionAgrees(field, fs, cwd) ==
    LET Names == UNION {fs[d] : d \in DOMAIN fs}
        Agree(r, path) ==
          LET n == Len(path)
              Reached(k) == {q \in [1 .. k -> Names] : Exists(fs, cwd \o q) /\ PathReaches(fs, cwd, q, path)}
              final == {q \in Reached(n) : Last(field.val) = "/" => IsDirectory(fs, cwd \o q)}
              Read(k) == {d \in Reached(k - 1) : IsDirectory(fs, cwd \o d)}
              Met(k) == IF path[k].has THEN {<<d, e>> \in Read(k) \X Names : e \in fs[cwd \o d]} ELSE {}
              Matched(k) == {m \in Met(k) : MatchesComponent(path[k].tokens, m[2])}
              Total(Count(_)) == FoldLeft(LAMBDA sum, k : sum + Cardinality(Count(k)), 0, [k \in 1 .. n |-> k])
          IN IF Total(Met) > MaxEntries \/ Total(Matched) > MaxMatches THEN ~r.ok /\ r.kind = "ResourceLimit"
             ELSE IF final = {} THEN ~r.ok /\ r.kind = "NoMatches"
             ELSE r.ok /\ r.fields = Ordered({FoldLeft(PushText, <<>>, q) : q \in final}, NativeLess)
        Patterned(path) == (\A i \in DOMAIN path : path[i].kind = "normal") /\ (\E i \in DOMAIN path : path[i].has)
    IN \A path \in {CompilePathFrom(field, Components(field.val), 1, <<>>).path} :
          Patterned(path) => Agree(ExpandPathname(field, fs, cwd, [units |-> 0, entries |-> 0, matches |-> 0]), path)
=============================================================================
