----------------------------- MODULE ShellSyntax -----------------------------
(***************************************************************************)
(* The parser of the human shell (ash-shell parser.rs and syntax.rs):      *)
(* recursive descent over a source text, a sequence of one-character       *)
(* strings standing for the character classes the parser tells apart.      *)
(* Positions and spans are offsets from 0, a span is half open.  Every     *)
(* parsing operator answers Parsed (where it stopped, what it read) or     *)
(* Error (the diagnostic).                                                 *)
(***************************************************************************)
EXTENDS Integers, Sequences, FiniteSets

CONSTANTS MaxDepth,         \* MAX_COMMAND_SUBSTITUTION_DEPTH
          DebugAssertions   \* whether debug_assert! evaluates its arguments

At(s, p) == IF p < Len(s) THEN s[p + 1] ELSE ""
Text(s, a, b) == SubSeq(s, a + 1, b)
Parsed(p, v) == [ok |-> TRUE, pos |-> p, val |-> v]
Error(code, a, b) == [ok |-> FALSE, code |-> code, span |-> <<a, b>>]
\* The `?` of the code: go on with a result, pass an error through.
Then(r, Next(_)) == IF r.ok THEN Next(r) ELSE r
Here(s, p, code) == Error(code, p, IF p < Len(s) THEN p + 1 ELSE p)

Horizontal == {" ", "\t", "\r"}
Digit == {"0", "1", "2", "5", "6"}
DigitValue == [d \in Digit |-> CASE d = "0" -> 0 [] d = "1" -> 1 [] d = "2" -> 2 [] d = "5" -> 5 [] d = "6" -> 6]
IdentifierStart == {"a", "b", "x", "_"}
IdentifierContinue == IdentifierStart \union Digit
UnsupportedSpecial == Digit \union {"#", "@", "*", "-", "!", "$"}
ReservedOperator == {"&", "(", ")"}   \* and the backquote, of the same class

StartsConditional(s, p) == At(s, p) \in {"&", "|"} /\ At(s, p + 1) = At(s, p)
StartsSubstitution(s, p) == At(s, p) = "$" /\ At(s, p + 1) = "("

SkipWhile(s, p, chars) ==
    CHOOSE q \in p .. Len(s) : /\ \A i \in p .. q - 1 : At(s, i) \in chars
                               /\ At(s, q) \notin chars
SkipComment(s, p) ==
    CHOOSE q \in p .. Len(s) : /\ \A i \in p .. q - 1 : At(s, i) # "\n"
                               /\ At(s, q) \in {"", "\n"}

RECURSIVE SkipCommandLayout(_, _)
SkipCommandLayout(s, p) ==
    LET h == SkipWhile(s, p, Horizontal)
        c == SkipComment(s, h)
    IN CASE At(s, h) = "\n" -> SkipCommandLayout(s, h + 1)
         [] At(s, h) = "#"  -> SkipCommandLayout(s, IF At(s, c) = "\n" THEN c + 1 ELSE c)
         [] OTHER           -> h

RECURSIVE SkipConditionalLayout(_, _)
SkipConditionalLayout(s, p) ==
    LET h == SkipWhile(s, p, Horizontal)
        c == IF At(s, h) = "#" THEN SkipComment(s, h) ELSE h
    IN IF At(s, c) = "\n" THEN SkipConditionalLayout(s, c + 1) ELSE SkipWhile(s, c, Horizontal)

-----------------------------------------------------------------------------
(* Parameters: p stands on "$".  The "$" is stepped over inside a debug    *)
(* assertion, so a build without them looks at the "$" itself.  <<>> is    *)
(* the answer None: the "$" is a literal.                                  *)

ParseParameter(s, p, quote) ==
    LET q    == IF DebugAssertions THEN p + 1 ELSE p
        c    == At(s, q)
        name == IF c = "{" THEN q + 1 ELSE q
        last == SkipWhile(s, name, IdentifierContinue)
        Found(from, to, end) == Parsed(end, <<[kind |-> "param", name |-> Text(s, from, to),
                                               quote |-> quote, span |-> <<p, end>>]>>)
    IN CASE c = "?" -> Found(q, q + 1, q + 1)
         [] c = "{" /\ (At(s, name) = "" \/ (At(s, name) \in IdentifierStart /\ At(s, last) = "")) ->
                Error("UnterminatedParameterExpansion", p, Len(s))
         [] c = "{" /\ At(s, name) # "" /\ At(s, name) \notin IdentifierStart ->
                Error("InvalidParameterExpansion", p, name + 1)
         [] c = "{" /\ At(s, name) \in IdentifierStart /\ At(s, last) = "}" -> Found(name, last, last + 1)
         [] c = "{" /\ At(s, name) \in IdentifierStart /\ At(s, last) \notin {"", "}"} ->
                Error("InvalidParameterExpansion", p, last + 1)
         [] c \in IdentifierStart -> Found(q, last, last)
         [] c \in UnsupportedSpecial -> Error("UnsupportedSyntax", p, q + 1)
         [] OTHER -> Parsed(q, <<>>)

-----------------------------------------------------------------------------
(* Where a substitution ends: one frame per open "$(", innermost last.     *)

NewFrame == [quote |-> "none", comment |-> FALSE, boundary |-> TRUE]
CommentBoundary == Horizontal \union {"\n", ";", "|", "&"}

\* One character that neither opens nor closes a substitution, outside quotes.
ScanUnquoted(f, c) ==
    CASE c = "'"  -> [f EXCEPT !.quote = "single", !.boundary = FALSE]
      [] c = "\"" -> [f EXCEPT !.quote = "double", !.boundary = FALSE]
      [] c = "#" /\ f.boundary -> [f EXCEPT !.comment = TRUE]
      [] OTHER    -> [f EXCEPT !.boundary = c \in CommentBoundary]

RECURSIVE ScanFrom(_, _, _, _, _)
ScanFrom(s, opening, p, frames, depth) ==
    LET n == Len(frames)
        f == frames[n]
        c == At(s, p)
        On(q, g) == ScanFrom(s, opening, q, [frames EXCEPT ![n] = g], depth)
        Escape == IF p + 1 < Len(s) THEN p + 2 ELSE p + 1
        Nested == IF depth + n >= MaxDepth
                  THEN Error("CommandSubstitutionDepthExceeded", p, p + 2)
                  ELSE ScanFrom(s, opening, p + 2, Append(frames, NewFrame), depth)
    IN CASE p >= Len(s) -> Error("UnterminatedCommandSubstitution", opening, opening + 2)
         [] p < Len(s) /\ f.comment -> On(p + 1, IF c = "\n" THEN NewFrame ELSE f)
         [] p < Len(s) /\ ~f.comment /\ f.quote = "single" ->
                On(p + 1, IF c = "'" THEN [f EXCEPT !.quote = "none"] ELSE f)
         [] p < Len(s) /\ ~f.comment /\ f.quote # "single" ->
                CASE c = "\\" -> On(Escape, IF f.quote = "none" THEN [f EXCEPT !.boundary = FALSE] ELSE f)
                  [] StartsSubstitution(s, p) -> Nested
                  [] f.quote = "double" /\ c = "\"" -> On(p + 1, [f EXCEPT !.quote = "none"])
                  [] f.quote = "none" /\ c = ")" ->
                         IF n = 1 THEN Parsed(p, <<>>)
                         ELSE ScanFrom(s, opening, p + 1,
                                       [SubSeq(frames, 1, n - 1) EXCEPT ![n - 1].boundary = FALSE], depth)
                  [] OTHER -> On(p + 1, IF f.quote = "none" THEN ScanUnquoted(f, c) ELSE f)

FindSubstitutionEnd(s, p, depth) == ScanFrom(s, p, p + 2, <<NewFrame>>, depth)

RECURSIVE ParseScript(_, _)

Shifted(e, by) == [e EXCEPT !.span = <<@[1] + by, @[2] + by>>]

\* p stands on "$(".  The closing parenthesis is stepped over inside a debug assertion.
ParseSubstitution(s, p, quote, depth) ==
    LET next(end) == IF DebugAssertions THEN end + 1 ELSE end
        Body(end, script) ==
            IF ~script.ok THEN Shifted(script, p + 2)
            ELSE IF script.val.pipelines = <<>> THEN Error("UnexpectedSeparator", p, p + 2)
            ELSE Parsed(next(end), <<[kind |-> "sub", script |-> script.val, quote |-> quote,
                                      body |-> <<p + 2, end>>, span |-> <<p, next(end)>>]>>)
    IN CASE At(s, p + 2) = "(" -> Error("InvalidParameterExpansion", p, p + 3)
         [] At(s, p + 2) # "(" /\ depth >= MaxDepth -> Error("CommandSubstitutionDepthExceeded", p, p + 2)
         [] OTHER -> Then(FindSubstitutionEnd(s, p, depth),
                          LAMBDA r : Body(r.pos, ParseScript(Text(s, p + 2, r.pos), depth + 1)))

\* What a "$" introduces; no part when it is a literal.
ParseExpansion(s, p, quote, depth) ==
    IF StartsSubstitution(s, p) THEN ParseSubstitution(s, p, quote, depth) ELSE ParseParameter(s, p, quote)

-----------------------------------------------------------------------------
(* Words                                                                   *)

Literal(value, quote, a, b) == [kind |-> "lit", val |-> value, quote |-> quote, span |-> <<a, b>>]

\* push_unquoted: the text read since from, if any, becomes a part.
PushUnquoted(parts, text, from, p) ==
    IF text = <<>> THEN parts ELSE Append(parts, Literal(text, "none", from, p))

ParseSingleQuoted(s, p) ==
    LET close == {q \in p + 1 .. Len(s) - 1 : At(s, q) = "'"}
        q == CHOOSE q \in close : \A r \in close : q <= r
    IN IF close = {} THEN Error("UnterminatedSingleQuote", p, Len(s))
       ELSE Parsed(q + 1, Literal(Text(s, p + 1, q), "single", p, q + 1))

\* What an escape contributes inside double quotes.
DoubleEscape(c) == CASE c \in {"\"", "\\", "$"} -> <<c>> [] c = "\n" -> <<>> [] OTHER -> <<"\\", c>>

RECURSIVE DoubleFrom(_, _, _, _, _, _, _)
DoubleFrom(s, opening, p, depth, parts, value, from) ==
    LET c == At(s, p)
        before == IF value = <<>> THEN parts ELSE Append(parts, Literal(value, "double", from, p))
    IN CASE c = "" -> Error("UnterminatedDoubleQuote", opening, Len(s))
         [] c = "\"" -> Parsed(p + 1, IF value # <<>> \/ parts = <<>>
                                      THEN Append(parts, Literal(value, "double", from, p + 1)) ELSE parts)
         [] c = "$" -> Then(ParseExpansion(s, p, "double", depth), LAMBDA e :
                           IF e.val = <<>> THEN DoubleFrom(s, opening, e.pos, depth, parts, Append(value, "$"), from)
                           ELSE DoubleFrom(s, opening, e.pos, depth, before \o e.val, <<>>, e.pos))
         [] c = "\\" -> IF At(s, p + 1) = "" THEN Error("TrailingEscape", p, Len(s))
                        ELSE DoubleFrom(s, opening, p + 2, depth, parts, value \o DoubleEscape(At(s, p + 1)), from)
         [] OTHER -> DoubleFrom(s, opening, p + 1, depth, parts, Append(value, c), from)

WordEnd(s, p) == \/ At(s, p) \in Horizontal \union {"", "\n", ";", "|", "<", ">"}
                 \/ StartsConditional(s, p)

RECURSIVE WordFrom(_, _, _, _, _, _, _)
WordFrom(s, start, p, depth, parts, text, from) ==
    LET c == At(s, p)
        done == PushUnquoted(parts, text, from, p)
        On(next, more) == WordFrom(s, start, next, depth, done \o more, <<>>, next)
    IN IF WordEnd(s, p) THEN Parsed(p, [parts |-> done, span |-> <<start, p>>])
       ELSE CASE c \in ReservedOperator -> Here(s, p, "UnsupportedSyntax")
              [] c = "'"  -> Then(ParseSingleQuoted(s, p), LAMBDA q : On(q.pos, <<q.val>>))
              [] c = "\"" -> Then(DoubleFrom(s, p, p + 1, depth, <<>>, <<>>, p), LAMBDA d : On(d.pos, d.val))
              [] c = "$"  -> Then(ParseExpansion(s, p, "none", depth), LAMBDA e :
                                 IF e.val = <<>> THEN WordFrom(s, start, e.pos, depth, done, <<"$">>, p)
                                 ELSE On(e.pos, e.val))
              [] c = "\\" -> CASE At(s, p + 1) = ""   -> Error("TrailingEscape", p, Len(s))
                               [] At(s, p + 1) = "\n" -> On(p + 2, <<>>)
                               [] OTHER -> On(p + 2, <<[kind |-> "esc", val |-> <<At(s, p + 1)>>,
                                                        quote |-> "none", span |-> <<p, p + 2>>]>>)
              [] OTHER -> WordFrom(s, start, p + 1, depth, parts, Append(text, c), IF text = <<>> THEN p ELSE from)

ParseWord(s, p, depth) == WordFrom(s, p, p, depth, <<>>, <<>>, p)

-----------------------------------------------------------------------------
(* Redirections: an optional descriptor, an operator, a file or a          *)
(* descriptor.                                                             *)

StartsRedirection(s, p) == At(s, SkipWhile(s, p, Digit)) \in {"<", ">"}

Number[ds \in Seq(Digit)] ==
    IF ds = <<>> THEN 0 ELSE 10 * Number[SubSeq(ds, 1, Len(ds) - 1)] + DigitValue[ds[Len(ds)]]

ParseFile(s, start, p, depth, fd, mode) ==
    LET h == SkipWhile(s, p, Horizontal)
    IN IF \/ At(s, h) \in {"", "\n", ";", "|", "<", ">"}
          \/ StartsConditional(s, h)
          \/ h > p /\ At(s, h) = "#"
       THEN Error("UnexpectedSeparator", start, p)
       ELSE Then(ParseWord(s, h, depth), LAMBDA w :
                Parsed(w.pos, [fd |-> fd, to |-> "file", path |-> w.val, mode |-> mode, span |-> <<start, w.pos>>]))

ParseDuplicate(s, start, p, fd) ==
    LET source == At(s, p)
        end == IF source = "" THEN p ELSE p + 1
    IN IF \/ source \notin {"1", "2"}
          \/ At(s, end) \notin Horizontal \union {"", "\n", ";", "|", "&", "<", ">"}
       THEN Error("InvalidRedirection", start, end)
       ELSE Parsed(end, [fd |-> fd, to |-> source, span |-> <<start, end>>])

ParseRedirection(s, p, depth) ==
    LET o  == SkipWhile(s, p, Digit)
        fd == Number[Text(s, p, o)]
        append == At(s, o + 1) = ">"
        q  == IF append THEN o + 2 ELSE o + 1
        out == IF o = p \/ fd = 1 THEN "1" ELSE "2"
    IN CASE o > p /\ fd > 255 -> Error("InvalidRedirection", p, o)
         [] fd <= 255 /\ At(s, o) = "<" ->
              CASE At(s, o + 1) = "<" -> Error("UnsupportedSyntax", p, o + 2)
                [] At(s, o + 1) # "<" /\ fd # 0 -> Error("InvalidRedirection", p, o + 1)
                [] OTHER -> ParseFile(s, p, o + 1, depth, "0", "Read")
         [] fd <= 255 /\ At(s, o) = ">" ->
              CASE o > p /\ fd \notin {1, 2} -> Error("InvalidRedirection", p, q)
                [] (o = p \/ fd \in {1, 2}) /\ At(s, q) = "&" ->
                     IF append THEN Error("InvalidRedirection", p, q + 1)
                     ELSE ParseDuplicate(s, p, q + 1, out)
                [] OTHER -> ParseFile(s, p, q, depth, out, IF append THEN "Append" ELSE "Write")

-----------------------------------------------------------------------------
(* Commands, pipelines, conditional lists                                  *)

RECURSIVE CommandFrom(_, _, _, _, _, _)
CommandFrom(s, p, depth, words, redirections, end) ==
    LET h == SkipWhile(s, p, Horizontal)
        c == At(s, h)
    IN CASE \/ c \in {"", "\n", ";", "|"}
            \/ StartsConditional(s, h)
            \/ c = "#" /\ h > p -> Parsed(h, [words |-> words, redirections |-> redirections, end |-> end])
         [] OTHER ->
              IF StartsRedirection(s, h)
              THEN Then(ParseRedirection(s, h, depth), LAMBDA r :
                       CommandFrom(s, r.pos, depth, words, Append(redirections, r.val), r.val.span[2]))
              ELSE Then(ParseWord(s, h, depth), LAMBDA w :
                       CommandFrom(s, w.pos, depth, Append(words, w.val), redirections, w.val.span[2]))

RECURSIVE PipelineFrom(_, _, _, _, _, _)
PipelineFrom(s, start, p, depth, commands, pipes) ==
    LET After(c, all, next) ==
            CASE At(s, c.pos) = "#" -> Parsed(SkipComment(s, c.pos), [commands |-> all, pipes |-> pipes, span |-> <<start, c.val.end>>])
              [] At(s, c.pos) \in {"", "\n", ";"} \/ StartsConditional(s, c.pos) ->
                    Parsed(c.pos, [commands |-> all, pipes |-> pipes, span |-> <<start, c.val.end>>])
              [] OTHER ->
                    IF At(s, next) \in {"", "\n", ";", "|", "#"} \/ StartsConditional(s, next)
                    THEN Error("UnexpectedSeparator", c.pos, c.pos + 1)
                    ELSE PipelineFrom(s, start, next, depth, all, Append(pipes, <<c.pos, c.pos + 1>>))
    IN IF At(s, p) = "|" THEN Here(s, p, "UnexpectedSeparator")
       ELSE Then(CommandFrom(s, p, depth, <<>>, <<>>, p), LAMBDA c :
                IF c.val.words = <<>> THEN Here(s, c.pos, "UnexpectedSeparator")
                ELSE After(c, Append(commands, [words |-> c.val.words, redirections |-> c.val.redirections,
                                                span |-> <<p, c.val.end>>]),
                           SkipWhile(s, c.pos + 1, Horizontal)))


\* The condition of the pipeline after a newline or a semicolon.
ResetCondition(operator) == "always"

RECURSIVE ScriptFrom(_, _, _, _, _)
ScriptFrom(s, p, depth, pipelines, condition) ==
    LET After(all, h) ==
            LET next == SkipConditionalLayout(s, h + 2)
            IN CASE StartsConditional(s, h) ->
                       IF At(s, next) \in {"", ";", "|"} \/ StartsConditional(s, next)
                       THEN Error("UnexpectedSeparator", h, h + 2)
                       ELSE ScriptFrom(s, next, depth, all, IF At(s, h) = "&" THEN "and" ELSE "or")
                 [] At(s, h) = "" -> Parsed(h, [source |-> s, pipelines |-> all])
                 [] OTHER -> ScriptFrom(s, SkipCommandLayout(s, h + 1), depth, all, ResetCondition(condition))
    IN CASE p >= Len(s) -> Parsed(p, [source |-> s, pipelines |-> pipelines])
         [] p < Len(s) /\ StartsConditional(s, p) -> Error("UnexpectedSeparator", p, p + 2)
         [] p < Len(s) /\ At(s, p) = ";" -> Here(s, p, "UnexpectedSeparator")
         [] OTHER ->
              Then(PipelineFrom(s, p, p, depth, <<>>, <<>>), LAMBDA l :
                  After(Append(pipelines, [commands |-> l.val.commands, pipes |-> l.val.pipes,
                                           span |-> l.val.span, condition |-> condition]),
                        SkipWhile(s, l.pos, Horizontal)))

ParseScript(s, depth) == ScriptFrom(s, SkipCommandLayout(s, 0), depth, <<>>, "always")
Parse(s) == ParseScript(s, 0)

-----------------------------------------------------------------------------
(* shifted_for_execution: a substitution's script carries offsets into its *)
(* own body and is moved to the place of the body before it runs.          *)

Move(span, by) == <<span[1] + by, span[2] + by>>

ShiftPart(part, by) ==
    IF part.kind = "sub" THEN [part EXCEPT !.span = Move(@, by), !.body = Move(@, by)]
    ELSE [part EXCEPT !.span = Move(@, by)]
ShiftWord(w, by) == [parts |-> [i \in DOMAIN w.parts |-> ShiftPart(w.parts[i], by)], span |-> Move(w.span, by)]
ShiftRedirection(r, by) ==
    IF r.to = "file" THEN [r EXCEPT !.span = Move(@, by), !.path = ShiftWord(@, by)]
    ELSE [r EXCEPT !.span = Move(@, by)]
ShiftCommand(c, by) ==
    [words |-> [i \in DOMAIN c.words |-> ShiftWord(c.words[i], by)],
     redirections |-> [i \in DOMAIN c.redirections |-> ShiftRedirection(c.redirections[i], by)],
     span |-> Move(c.span, by)]
ShiftPipeline(l, by) ==
    [l EXCEPT !.commands = [i \in DOMAIN @ |-> ShiftCommand(@[i], by)],
              !.pipes = [i \in DOMAIN @ |-> Move(@[i], by)], !.span = Move(@, by)]
ShiftedForExecution(script, by) ==
    [script EXCEPT !.pipelines = [i \in DOMAIN @ |-> ShiftPipeline(@[i], by)]]

Elements(seq) == {seq[i] : i \in DOMAIN seq}
Commands(script) == UNION {Elements(l.commands) : l \in Elements(script.pipelines)}
WordsOf(c) == Elements(c.words) \union {r.path : r \in {r \in Elements(c.redirections) : r.to = "file"}}
Substitutions(c) == {part \in UNION {Elements(w.parts) : w \in WordsOf(c)} : part.kind = "sub"}

\* The scripts a source runs: the script itself and, moved to their places, the nested ones.
RECURSIVE Executed(_)
Executed(script) ==
    {script} \union UNION {Executed(ShiftedForExecution(part.script, part.body[1])) :
                           part \in UNION {Substitutions(c) : c \in Commands(script)}}

-----------------------------------------------------------------------------
(* Properties of one source text                                           *)

\* Every word of every script that runs, however deeply nested, carries a span of the
\* submitted source, and the text there parses to exactly that word: diagnostics of a
\* command substitution point into the text the user wrote.
WordLocated(s, w) ==
    \E again \in {ParseWord(Text(s, w.span[1], w.span[2]), 0, 0)} :
        again.ok /\ ShiftWord(again.val, w.span[1]) = w
SpansLocate(s) ==
    \A r \in {Parse(s)} :
       r.ok => \A script \in Executed(r.val) : \A c \in Commands(script) : \A w \in WordsOf(c) : WordLocated(s, w)

\* SourceSpan::new panics on a span that ends before it starts: spans of accepted words,
\* commands and pipelines, and of every diagnostic, lie in the source; parts lie in their
\* word, words in their command and commands in their pipeline, in source order.
InOrder(spans, outer) ==
    /\ \A i \in DOMAIN spans : outer[1] <= spans[i][1] /\ spans[i][1] <= spans[i][2] /\ spans[i][2] <= outer[2]
    /\ \A i \in DOMAIN spans : i + 1 \in DOMAIN spans => spans[i][2] <= spans[i + 1][1]
SpansOf(seq) == [i \in DOMAIN seq |-> seq[i].span]
SpansNest(s) ==
    \A r \in {Parse(s)} :
       IF ~r.ok THEN InOrder(<<r.span>>, <<0, Len(s)>>)
       ELSE /\ InOrder(SpansOf(r.val.pipelines), <<0, Len(s)>>)
            /\ \A l \in Elements(r.val.pipelines) :
                  /\ InOrder(SpansOf(l.commands), l.span)
                  /\ \A i \in DOMAIN l.pipes : InOrder(<<l.commands[i].span, l.pipes[i], l.commands[i + 1].span>>, l.span)
                  /\ \A c \in Elements(l.commands) : /\ InOrder(SpansOf(c.words), c.span)
                                                     /\ InOrder(SpansOf(c.redirections), c.span)
                                                     /\ \A w \in WordsOf(c) : InOrder(SpansOf(w.parts), w.span)

\* find_command_substitution_end and the parser agree on quotes, escapes, comments and
\* nesting: the body the scanner cuts out never ends inside a quote, an escape or a nested
\* substitution, so the nested parser never reports one as unterminated.
ScannerRespectsQuotes(s) ==
    StartsSubstitution(s, 0) =>
        \A end \in {FindSubstitutionEnd(s, 0, 0)} : end.ok =>
            \A body \in {ParseScript(Text(s, 2, end.pos), 1)} :
                ~body.ok => body.code \notin {"UnterminatedSingleQuote", "UnterminatedDoubleQuote",
                                              "TrailingEscape", "UnterminatedCommandSubstitution"}

-----------------------------------------------------------------------------
(* The grammar the parser accepts, written from the other side: the text   *)
(* of a syntax tree without spans.                                         *)

RECURSIVE RenderScript(_)
RenderPart(part) ==
    LET bare == CASE part.kind = "lit" -> part.val
                  [] part.kind = "esc" -> <<"\\">> \o part.val
                  [] part.kind = "param" -> IF part.name = <<"?">> THEN <<"$", "?">> ELSE <<"$", "{">> \o part.name \o <<"}">>
                  [] part.kind = "sub" -> <<"$", "(">> \o RenderScript(part.script) \o <<")">>
    IN CASE part.quote = "none" -> bare
         [] part.quote = "single" -> <<"'">> \o bare \o <<"'">>
         [] part.quote = "double" -> <<"\"">> \o bare \o <<"\"">>
Join(texts, separator) ==
    LET f[i \in 0 .. Len(texts)] == IF i = 0 THEN <<>>
                                   ELSE f[i - 1] \o (IF i = 1 THEN <<>> ELSE separator) \o texts[i]
    IN f[Len(texts)]
RenderWord(w) == Join([i \in DOMAIN w |-> RenderPart(w[i])], <<>>)
RenderRedirection(r) ==
    <<r.fd>> \o (CASE r.to # "file" -> <<">", "&", r.to>>
                   [] r.to = "file" /\ r.mode = "Read" -> <<"<">> \o RenderWord(r.path)
                   [] r.to = "file" /\ r.mode = "Write" -> <<">", " ">> \o RenderWord(r.path)
                   [] r.to = "file" /\ r.mode = "Append" -> <<">", ">">> \o RenderWord(r.path))
RenderCommand(c) ==
    Join([i \in DOMAIN c.words |-> RenderWord(c.words[i])]
         \o [i \in DOMAIN c.redirections |-> RenderRedirection(c.redirections[i])], <<" ">>)
RenderPipeline(l) == Join([i \in DOMAIN l.commands |-> RenderCommand(l.commands[i])], <<"|">>)
RenderScript(pipelines) ==
    LET operator(i) == CASE i = 1 -> <<>> [] pipelines[i].condition = "and" -> <<"&", "&">>
                         [] pipelines[i].condition = "or" -> <<" ", "|", "|", "\n">>
                         [] OTHER -> <<";", " ">>
    IN Join([i \in DOMAIN pipelines |-> operator(i) \o RenderPipeline(pipelines[i])], <<>>)

RECURSIVE StripScript(_)
StripPart(part) ==
    CASE part.kind = "param" -> [kind |-> "param", name |-> part.name, quote |-> part.quote]
      [] part.kind = "sub" -> [kind |-> "sub", script |-> StripScript(part.script), quote |-> part.quote]
      [] OTHER -> [kind |-> part.kind, val |-> part.val, quote |-> part.quote]
StripWord(w) == [i \in DOMAIN w.parts |-> StripPart(w.parts[i])]
StripRedirection(r) == IF r.to = "file" THEN [fd |-> r.fd, to |-> "file", mode |-> r.mode, path |-> StripWord(r.path)]
                       ELSE [fd |-> r.fd, to |-> r.to]
StripCommand(c) == [words |-> [i \in DOMAIN c.words |-> StripWord(c.words[i])],
                    redirections |-> [i \in DOMAIN c.redirections |-> StripRedirection(c.redirections[i])]]
StripScript(script) ==
    [i \in DOMAIN script.pipelines |->
        [commands |-> [j \in DOMAIN script.pipelines[i].commands |-> StripCommand(script.pipelines[i].commands[j])],
         condition |-> script.pipelines[i].condition]]

\* The documented subset is accepted and read as written: conditional lists of pipelines of
\* commands of quoted, escaped, parameter and substitution words, with file and descriptor
\* redirections, parse back to the tree whose text they are.
ParsesGrammar(pipelines) ==
    \E r \in {Parse(RenderScript(pipelines))} : r.ok /\ StripScript(r.val) = pipelines
=============================================================================
