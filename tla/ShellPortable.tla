---------------------------- MODULE ShellPortable ----------------------------
(***************************************************************************)
(* The portable commands of the human shell (ash-shell execution.rs): how  *)
(* their arguments are read, what they print from the tree, and cat and    *)
(* grep over a stream that arrives in chunks.  Arguments and contents are  *)
(* sequences of one-character strings.                                     *)
(***************************************************************************)
EXTENDS SemanticServices

CONSTANTS MaxRead,       \* MAX_READ_FILE_BYTES
          MaxSearchFile  \* MAX_SEARCH_FILE_BYTES

Dash == <<"-">>
DashDash == <<"-", "-">>
IsOption(argument) == Len(argument) > 1 /\ argument[1] = "-"
IsLong(argument) == IsOption(argument) /\ argument[2] = "-"
Letters(argument) == {argument[i] : i \in 2 .. Len(argument)}
Wrong == [ok |-> FALSE]

ParseEcho(args) ==
    CASE args # <<>> /\ args[1] = <<"-", "n">> -> [ok |-> TRUE, words |-> Tail(args), newline |-> FALSE]
      [] args # <<>> /\ args[1] = DashDash -> [ok |-> TRUE, words |-> Tail(args), newline |-> TRUE]
      [] args # <<>> /\ IsOption(args[1]) /\ args[1] \notin {<<"-", "n">>, DashDash} -> Wrong
      [] OTHER -> [ok |-> TRUE, words |-> args, newline |-> TRUE]
Echo(args) ==
    LET Spaced(words) == FlattenSeq([i \in DOMAIN words |-> IF i > 1 THEN <<" ">> \o words[i] ELSE words[i]])
        Printed(p) == IF p.ok THEN [status |-> 0, out |-> Spaced(p.words) \o (IF p.newline THEN <<"\n">> ELSE <<>>)]
                      ELSE [status |-> 2, out |-> <<>>]
    IN Printed(ParseEcho(args))

\* Options until "--", then operands: Take answers the option's effect or Wrong.
Scan(args, start, Take(_, _)) ==
    LET Step(r, a) ==
          CASE ~r.ok -> r
            [] r.ok /\ ~r.ended /\ a = DashDash -> [r EXCEPT !.ended = TRUE]
            [] r.ok /\ ~r.ended /\ a # DashDash /\ IsOption(a) -> Take(r, a)
            [] OTHER -> [r EXCEPT !.operands = Append(@, a)]
    IN FoldLeft(Step, start, args)

\* The long names are single letters here, "--a" for --all, "--d" for --directory.
LsOption(r, a) ==
    IF IsLong(a)
    THEN CASE a = <<"-", "-", "a">> -> [r EXCEPT !.hidden = TRUE]
           [] a = <<"-", "-", "d">> -> [r EXCEPT !.directory = TRUE]
           [] OTHER -> Wrong
    ELSE IF ~(Letters(a) \subseteq {"a", "d", "1"}) THEN Wrong
    ELSE [r EXCEPT !.hidden = @ \/ "a" \in Letters(a), !.directory = @ \/ "d" \in Letters(a)]
ParseLs(args) ==
    LET One(r) == IF r.ok /\ Len(r.operands) > 1 THEN Wrong ELSE r
    IN One(Scan(args, [ok |-> TRUE, ended |-> FALSE, hidden |-> FALSE, directory |-> FALSE, operands |-> <<>>], LsOption))

ParseCat(args, stdin) ==
    LET ended == args # <<>> /\ args[1] = DashDash
        target == IF ended THEN args[2] ELSE args[1]
    IN IF Len(args) # (IF ended THEN 2 ELSE 1) THEN Wrong
       ELSE IF ~ended /\ (IsOption(target) \/ (target = Dash /\ ~stdin)) THEN Wrong
       ELSE [ok |-> TRUE, path |-> target]

SelectPattern(r, kind) == IF r.ok /\ r.pattern \in {"none", kind} THEN [r EXCEPT !.pattern = kind] ELSE Wrong
GrepLetter(r, letter) ==
    CASE ~r.ok -> r
      [] r.ok /\ letter = "E" -> SelectPattern(r, "regex")
      [] r.ok /\ letter = "F" -> SelectPattern(r, "literal")
      [] r.ok /\ letter = "i" -> [r EXCEPT !.fold = TRUE]
      [] r.ok /\ letter = "n" -> [r EXCEPT !.number = TRUE]
      [] OTHER -> Wrong
\* "--E" stands for --extended-regexp, "--F" for --fixed-strings and so on.
GrepOption(r, a) ==
    IF IsLong(a) THEN IF Len(a) = 3 THEN GrepLetter(r, a[3]) ELSE Wrong
    ELSE FoldLeft(GrepLetter, r, Tail(a))
ParseGrep(args, stdin) ==
    LET Checked(r) ==
          IF ~r.ok \/ Len(r.operands) # 2 \/ (r.operands[2] = Dash /\ ~stdin) THEN Wrong
          ELSE [ok |-> TRUE, query |-> r.operands[1], path |-> r.operands[2],
                pattern |-> IF r.pattern = "none" THEN "regex" ELSE r.pattern, fold |-> r.fold, number |-> r.number]
    IN Checked(Scan(args, [ok |-> TRUE, ended |-> FALSE, pattern |-> "none", fold |-> FALSE, number |-> FALSE,
                           operands |-> <<>>], GrepOption))

ParseMutation(command, args) ==
    LET Checked(r) == IF r.ok /\ (\A i \in DOMAIN r.operands : r.operands[i] # <<>>)
                            /\ Len(r.operands) = (IF command \in {"cp", "mv"} THEN 2 ELSE 1)
                      THEN r ELSE Wrong
        Option(r, a) == Wrong
    IN Checked(Scan(args, [ok |-> TRUE, ended |-> FALSE, operands |-> <<>>], Option))

-----------------------------------------------------------------------------
(* The paths of a mutation are relative to the transaction root.           *)

\* Path::strip_prefix compares whole components.
StripPrefix(root, components) ==
    LET names == [i \in DOMAIN components |-> components[i].val]
    IN [ok |-> IsPrefix(<<<<"/">>>> \o root, names), rest |-> SubSeq(components, Len(root) + 2, Len(components))]

LogicalPath(root, operand) ==
    LET Normal(c) == c.kind = "normal"
        Portable(name) == "\\" \notin ToSet(name) /\ ":" \notin ToSet(name)
        Named(names) == IF names # <<>> /\ \A i \in DOMAIN names : Portable(names[i].val)
                        THEN [ok |-> TRUE, path |-> [i \in DOMAIN names |-> names[i].val]] ELSE Wrong
        Checked(relative) ==
            IF ~relative.ok \/ \E i \in DOMAIN relative.rest : relative.rest[i].kind \in {"parent", "root"} THEN Wrong
            ELSE Named(SelectSeq(relative.rest, Normal))
        Relative(components) == IF operand # <<>> /\ operand[1] = "/" THEN StripPrefix(root, components)
                                ELSE [ok |-> TRUE, rest |-> components]
    IN Checked(Relative(Components(operand)))

-----------------------------------------------------------------------------
(* Direct commands.  Native is the native path of an argument.             *)

Native(fs, cwd, path) ==
    LET Step(at, c) == Push(fs, at, c) IN FoldLeft(Step, cwd, Components(path))

Ls(fs, cwd, args) ==
    LET Names(paths) == FlattenSeq([i \in DOMAIN paths |-> Append(Last(paths[i]), "\n")])
        Listing(o, target, at, listed) ==
            LET Inside(p) == p # at
            IN IF target = <<>> \/ ~Exists(fs, at) \/ ~listed.ok THEN [status |-> 1, out |-> <<>>]
               ELSE IF o.directory \/ ~IsDirectory(fs, at) THEN [status |-> 0, out |-> Append(target, "\n")]
               ELSE [status |-> 0, out |-> Names(SelectSeq(listed.val, Inside))]
        Located(o, target, at) == Listing(o, target, at, List(fs, <<at>>, IF o.directory THEN 0 ELSE 1, o.hidden, "all"))
        Targeted(o, target) == Located(o, target, Native(fs, cwd, target))
        Parsed(o) == IF o.ok THEN Targeted(o, IF o.operands = <<>> THEN <<".">> ELSE o.operands[1])
                     ELSE [status |-> 2, out |-> <<>>]
    IN Parsed(ParseLs(args))

Numbered(o, n, line) == (IF o.number THEN <<ToString(n), ":">> ELSE <<>>) \o Append(line, "\n")
\* grep of one file, used bytes being captured already; a regular expression is its text.
Grep(o, bytes, used) ==
    LET scan == ScanFile(<<>>, bytes, o.query)
        out == FlattenSeq([k \in DOMAIN scan.matches |-> Numbered(o, scan.matches[k].line, scan.matches[k].text)])
    IN IF Len(bytes) > MaxSearchFile \/ scan.binary \/ scan.overflowed THEN [status |-> 1, out |-> <<>>, failed |-> TRUE]
       ELSE IF scan.matches = <<>> THEN [status |-> 1, out |-> <<>>, failed |-> FALSE]
       ELSE IF Len(out) > MaxRead - used THEN [status |-> 1, out |-> <<>>, failed |-> TRUE]
       ELSE [status |-> 0, out |-> out, failed |-> FALSE]

-----------------------------------------------------------------------------
(* Pipeline stages read chunks.                                            *)

ReadSize(left, chunk) == IF left < Len(chunk) THEN left ELSE Len(chunk)

\* copy_portable_pipeline_stream: a read takes at most what the limit leaves, one byte more
\* to notice the end.
RECURSIVE CopyFrom(_, _)
CopyFrom(chunks, out) ==
    LET left == MaxRead - Len(out)
        first == Head(chunks)
        take == ReadSize(left, first)
    IN IF chunks = <<>> THEN [status |-> 0, out |-> out]
       ELSE IF left = 0 THEN [status |-> 1, out |-> out]
       ELSE CopyFrom(IF take = Len(first) THEN Tail(chunks) ELSE <<SubSeq(first, take + 1, Len(first))>> \o Tail(chunks),
                     out \o SubSeq(first, 1, take))
Copy(chunks) == CopyFrom(chunks, <<>>)

\* Mutant: a line starts anew with every chunk.
HoldForgetful(line, taken) == taken

Hold(line, taken) == line \o taken

\* grep_portable_pipeline_stream: r holds the unfinished line, the line number, the bytes
\* read and what was written.
StreamLine(o, r) ==
    LET body == Without(Without(r.line, "\n"), "\r")
        out == Numbered(o, r.number + 1, body)
        next == [r EXCEPT !.line = <<>>, !.number = @ + 1]
    IN IF ~Valid(body) THEN [r EXCEPT !.failed = TRUE]
       ELSE IF Find(o.query, body) = 0 THEN next
       ELSE IF Len(r.out) + Len(out) > MaxRead THEN [r EXCEPT !.failed = TRUE, !.matched = TRUE]
       ELSE [next EXCEPT !.out = @ \o out, !.matched = TRUE]
RECURSIVE StreamFrom(_, _, _)
StreamFrom(o, chunks, r) ==
    LET first == Head(chunks)
        newlines == {i \in DOMAIN first : first[i] = "\n"}
        take == IF newlines = {} THEN Len(first) ELSE CHOOSE i \in newlines : \A j \in newlines : i <= j
        rest == IF take = Len(first) THEN Tail(chunks) ELSE <<SubSeq(first, take + 1, Len(first))>> \o Tail(chunks)
        held == [r EXCEPT !.input = @ + take, !.line = Hold(@, SubSeq(first, 1, take))]
    IN IF r.failed THEN r
       ELSE IF chunks = <<>> THEN IF r.line = <<>> THEN r ELSE StreamFrom(o, <<>>, StreamLine(o, r))
       ELSE IF held.input > MaxSearchFile THEN [r EXCEPT !.failed = TRUE]
       ELSE StreamFrom(o, rest, IF newlines = {} THEN held ELSE StreamLine(o, held))
GrepStream(o, chunks) ==
    LET r == StreamFrom(o, chunks, [line |-> <<>>, number |-> 0, input |-> 0, out |-> <<>>, matched |-> FALSE, failed |-> FALSE])
    IN [status |-> IF r.matched /\ ~r.failed THEN 0 ELSE 1, out |-> r.out, failed |-> r.failed]

-----------------------------------------------------------------------------
(* Properties                                                              *)

\* A pipeline's grep gives what grep of the same bytes in a file gives, however the bytes are
\* cut into chunks: the same status and, unless it fails, the same output; a failing stream
\* has written the beginning of it.  Only the number of matching lines is not limited in a
\* stream.
StreamGrepAgrees(o, chunks) ==
    LET bytes == FlattenSeq(chunks)
        direct == Grep(o, bytes, 0)
        stream == GrepStream(o, chunks)
        limited == ScanFile(<<>>, bytes, o.query).overflowed
    IN ~limited => /\ stream.status = direct.status /\ stream.failed = direct.failed
                   /\ ~direct.failed => stream.out = direct.out

\* A pipeline's cat passes on the bytes it reads, in order, up to the read limit, and fails
\* exactly when there are more, however they are cut into chunks.
CopyExact(chunks) ==
    LET bytes == FlattenSeq(chunks)
    IN /\ Copy(chunks).out = SubSeq(bytes, 1, IF Len(bytes) < MaxRead THEN Len(bytes) ELSE MaxRead)
       /\ Copy(chunks).status = 0 <=> Len(bytes) <= MaxRead

\* The logical path of a mutation, joined to the transaction root, is the file the operand
\* names from that directory; operands outside the root are refused.
LogicalNamesOperand(fs, root, operand) ==
    LET l == LogicalPath(root, operand)
    IN l.ok => root \o l.path = Native(fs, root, operand)

\* Options of grep may be written together or apart, short or long, and in any order before
\* "--": the commands read the same, and -E with -F is refused in each of them.
OptionsOrderFree(letters, operands) ==
    LET Apart(s) == [i \in DOMAIN s |-> <<"-", s[i]>>]
        Long(s) == [i \in DOMAIN s |-> <<"-", "-", s[i]>>]
        together == ParseGrep(<<Dash \o letters, DashDash>> \o operands, TRUE)
    IN letters # <<>> =>
          /\ ToSet(letters) \intersect {"E", "F"} = {"E", "F"} => ~together.ok
          /\ \A s \in {Apart(letters), Long(letters), Reverse(Apart(letters))} :
                /\ ParseGrep(s \o <<DashDash>> \o operands, TRUE) = together
                /\ \A i \in DOMAIN s : Len(operands) = 2 =>
                      ParseGrep(SubSeq(s, 1, i) \o <<<<"q">>>> \o SubSeq(s, i + 1, Len(s)) \o <<DashDash, operands[2]>>, TRUE)
                         = ParseGrep(s \o <<DashDash, <<"q">>, operands[2]>>, TRUE)
=============================================================================
