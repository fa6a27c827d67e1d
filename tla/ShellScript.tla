----------------------------- MODULE ShellScript -----------------------------
(***************************************************************************)
(* The script interpreter of the human shell (ash-shell execution.rs       *)
(* execute_source and everything below it, resolver.rs, state.rs) and the  *)
(* session around it (ash-cli shell_command.rs).  A source is parsed by    *)
(* ShellSyntax, its words are expanded by ShellWords, portable commands    *)
(* read their arguments as in ShellPortable, pipelines are lowered by      *)
(* PipelinePlan and handed to a runner that keeps the promise of           *)
(* CommandRunner.  Command names are single units; one diagnostic renders  *)
(* to one unit; a file is only known to exist, so reading it yields any of *)
(* the texts Outputs.                                                      *)
(***************************************************************************)
EXTENDS ShellSyntax, ShellPortable

CONSTANTS
    Sources,      \* the texts that may be submitted
    Profiles,     \* those that may stand in a profile
    Outputs,      \* what a command may print on its standard output
    MaxErr,       \* bounds the standard error of one command
    CaptureLimit, \* MAX_READ_FILE_BYTES as the capture limit of a source
    MaxStages,    \* MAX_NATIVE_PIPELINE_STAGES
    Directories, Executables, InitialFiles, InitialEnvironment, WindowsHost,
    MaxLines      \* bounds the lines of an interactive session

Plan == INSTANCE PipelinePlan
Runner == INSTANCE CommandRunner
          WITH Width <- MaxStages, MaxOutput <- CaptureLimit, stages <- 1, limit <- 0, live <- {}, answer <- 0

VARIABLES stack,    \* the scripts being executed, the innermost last
          files,    \* the regular files
          shell,    \* the ShellState between sources
          session   \* where ash is: the profile, its input, an interactive line, or over

vars == <<stack, files, shell, session>>

-----------------------------------------------------------------------------
(* State and statuses                                                      *)

Status(code, kind) == [code |-> code, kind |-> kind]
Success == Status(0, "Exited")
NewState == [cwd |-> <<>>, variables |-> [n \in {} |-> <<>>], environment |-> InitialEnvironment,
             pipefail |-> FALSE, last |-> Success]
Insert(f, name, value) == [n \in DOMAIN f \union {name} |-> IF n = name THEN value ELSE f[n]]
Erase(f, name) == [n \in DOMAIN f \ {name} |-> f[n]]
Get(f, name) == IF name \in DOMAIN f THEN f[name] ELSE <<>>

\* The directories with what they hold.
Tree(existing) ==
    [d \in Directories |-> {Last(p) : p \in {p \in existing \union Directories : p # <<>> /\ Front(p) = d}}]
Absolute(path) == path # <<>> /\ path[1] = "/"
PathOf(st, path) == Native(Tree(files), IF Absolute(path) THEN <<>> ELSE st.cwd, path)

-----------------------------------------------------------------------------
(* Resolution of a command name                                            *)

Implemented == {<<"cd">>, <<"export">>, <<"unset">>, <<"set">>, <<"exit">>}
StatefulBuiltins == Implemented \union {<<"alias">>, <<"jobs">>, <<"fg">>, <<"bg">>}
Mutations == {<<"cp">>, <<"mv">>, <<"rm">>, <<"touch">>}
Portables == {<<"pwd">>, <<"echo">>, <<"ls">>, <<"cat">>, <<"grep">>} \union Mutations

\* The pieces of PATH, an empty one included.
SplitPaths(value) ==
    LET cuts == Ascending({0, Len(value) + 1} \union {i \in DOMAIN value : value[i] = ":"})
    IN [k \in 1 .. Len(cuts) - 1 |-> SubSeq(value, cuts[k] + 1, cuts[k + 1] - 1)]
\* PathCommandLookup: whether a native command is found.
Found(st, command) ==
    LET paths == SplitPaths(st.environment[<<"PATH">>])
        Executable(path) == path \in Executables \intersect files
        In(directory) == IF directory = <<>> THEN st.cwd ELSE PathOf(st, directory)
    IN IF Absolute(command) \/ Len(Components(command)) > 1 THEN Executable(PathOf(st, command))
       ELSE /\ <<"PATH">> \in DOMAIN st.environment
            /\ \E k \in DOMAIN paths : Executable(Append(In(paths[k]), command))

NotFound == [kind |-> "error", code |-> 127]
Unavailable == [kind |-> "error", code |-> 126]
Resolve(st, name) ==
    LET Lookup(command) == IF Found(st, command) THEN [kind |-> "native"] ELSE NotFound
    IN CASE name = <<>> -> NotFound
         [] name \in StatefulBuiltins -> [kind |-> IF name \in Implemented THEN "stateful" ELSE "unimplemented"]
         [] name \in Portables -> [kind |-> "portable"]
         [] name # <<>> /\ name[1] = "native:" -> IF Len(name) = 1 THEN NotFound ELSE Lookup(Tail(name))
         [] name # <<>> /\ name[1] = "linux:" ->
                IF Len(name) = 1 THEN NotFound
                ELSE IF WindowsHost /\ Found(st, <<"wsl.exe">>) THEN [kind |-> "wsl"] ELSE Unavailable
         [] OTHER -> Lookup(name)

-----------------------------------------------------------------------------
(* Stateful builtins: what their arguments mean, and what they do.         *)

Operands(args) == IF args # <<>> /\ args[1] = DashDash THEN Tail(args) ELSE args
Identifier(name) == name # <<>> /\ name[1] \in IdentifierStart /\ \A i \in DOMAIN name : name[i] \in IdentifierContinue
SingleArgument(args) ==
    LET Checked(operands) == IF Len(operands) # 1 \/ (operands = args /\ IsOption(args[1])) THEN Wrong
                             ELSE [ok |-> TRUE, val |-> operands[1]]
    IN Checked(Operands(args))
\* split_once('=').
ParseExport(args) ==
    LET Cut(text, at) == IF ~Identifier(SubSeq(text, 1, at - 1)) THEN Wrong
                         ELSE [ok |-> TRUE, name |-> SubSeq(text, 1, at - 1), value |-> SubSeq(text, at + 1, Len(text))]
        Equals(text) == {i \in DOMAIN text : text[i] = "="}
        Checked(single) == IF ~single.ok \/ Equals(single.val) = {} THEN Wrong ELSE Cut(single.val, Min(Equals(single.val)))
    IN Checked(SingleArgument(args))
ParseUnset(args) ==
    LET Checked(single) == IF single.ok /\ Identifier(single.val) THEN [ok |-> TRUE, name |-> single.val] ELSE Wrong
    IN Checked(SingleArgument(args))
ParsePipefail(args) ==
    IF Len(args) = 2 /\ args[1] \in {<<"-o">>, <<"+o">>} /\ args[2] = <<"pipefail">>
    THEN [ok |-> TRUE, on |-> args[1] = <<"-o">>] ELSE Wrong
ParseExit(st, args) ==
    LET Digits(text) == text # <<>> /\ \A i \in DOMAIN text : text[i] \in Digit
        Code8(n) == IF n <= 255 THEN [ok |-> TRUE, code |-> n] ELSE Wrong
        Checked(operands) ==
            CASE operands = <<>> -> [ok |-> TRUE, code |-> st.last.code]
              [] Len(operands) = 1 /\ Digits(operands[1]) -> Code8(Number[operands[1]])
              [] OTHER -> Wrong
    IN Checked(Operands(args))
ValidCd(args) == Len(args) <= 1 /\ ~(args # <<>> /\ args[1] = Dash)
\* validate_stateful_pipeline_arguments.
ValidStateful(st, name, args) ==
    CASE name = <<"cd">> -> ValidCd(args)
      [] name = <<"export">> -> ParseExport(args).ok
      [] name = <<"unset">> -> ParseUnset(args).ok
      [] name = <<"set">> -> ParsePipefail(args).ok
      [] name = <<"exit">> -> ParseExit(st, args).ok

\* What a command leaves: the state, its status, the exit it asks for (-1: none), its
\* output and the number of diagnostics.
Done(st, status, exit, out, diags) == [st |-> st, status |-> status, exit |-> exit, out |-> out, diags |-> diags]
Fails(st, code, kind) == Done(st, Status(code, kind), -1, <<>>, 1)

Cd(st, args) ==
    LET home == IF Get(st.environment, <<"HOME">>) # <<>> THEN Get(st.environment, <<"HOME">>)
                ELSE Get(st.environment, <<"USERPROFILE">>)
        target == IF args # <<>> THEN args[1] ELSE home
        To(at) == IF target # <<>> /\ at \in Directories THEN Done([st EXCEPT !.cwd = at], Success, -1, <<>>, 0)
                  ELSE Fails(st, 1, "Exited")
    IN To(PathOf(st, target))
Stateful(st, name, args) ==
    LET Succeeds(next) == Done(next, Success, -1, <<>>, 0)
        Export(p) == Succeeds([st EXCEPT !.variables = Insert(@, p.name, p.value), !.environment = Insert(@, p.name, p.value)])
        Unset(p) == Succeeds([st EXCEPT !.variables = Erase(@, p.name), !.environment = Erase(@, p.name)])
        Exit(p) == Done(st, Status(p.code, "Exited"), p.code, <<>>, 0)
    IN IF ~ValidStateful(st, name, args) THEN Fails(st, 2, "Exited")
       ELSE CASE name = <<"cd">> -> Cd(st, args)
              [] name = <<"export">> -> Export(ParseExport(args))
              [] name = <<"unset">> -> Unset(ParseUnset(args))
              [] name = <<"set">> -> Succeeds([st EXCEPT !.pipefail = ParsePipefail(args).on])
              [] name = <<"exit">> -> Exit(ParseExit(st, args))

-----------------------------------------------------------------------------
(* Portable commands.  portable_pipeline_reads_stdin answers whether the   *)
(* arguments are right and whether the command reads its input.            *)

ReadsStdin(name, args) ==
    LET Reads(p) == [ok |-> p.ok, reads |-> p.ok /\ p.path = Dash]
    IN CASE name = <<"pwd">> -> [ok |-> args = <<>>, reads |-> FALSE]
         [] name = <<"echo">> -> [ok |-> ParseEcho(args).ok, reads |-> FALSE]
         [] name = <<"ls">> -> [ok |-> ParseLs(args).ok, reads |-> FALSE]
         [] name = <<"cat">> -> Reads(ParseCat(args, TRUE))
         [] name = <<"grep">> -> Reads(ParseGrep(args, TRUE))
         [] name \in Mutations -> [ok |-> ParseMutation(name[1], args).ok, reads |-> FALSE]

\* perform_portable_mutation below the current directory: the files after it, if it can commit.
Mutated(st, name, args, existing) ==
    LET Free(path) == path \notin existing /\ path \notin Directories /\ Front(path) \in Directories
        Leaves(after) == [ok |-> TRUE, files |-> after]
        Applied(at, to) ==
            CASE name = <<"rm">> /\ at \in existing -> Leaves(existing \ {at})
              [] name = <<"touch">> /\ (at \in existing \/ Free(at)) -> Leaves(existing \union {at})
              [] name = <<"cp">> /\ at \in existing /\ Free(to) -> Leaves(existing \union {to})
              [] name = <<"mv">> /\ at \in existing /\ Free(to) -> Leaves((existing \ {at}) \union {to})
              [] OTHER -> Wrong
        Checked(logical) == IF \E i \in DOMAIN logical : ~logical[i].ok THEN Wrong
                            ELSE Applied(st.cwd \o logical[1].path, st.cwd \o Last(logical).path)
        Logical(operands) == [i \in DOMAIN operands |-> LogicalPath(st.cwd, operands[i])]
    IN Checked(Logical(ParseMutation(name[1], args).operands))

\* The outcomes of a portable command without redirections; used is what the script has
\* written to its standard output.
Direct(st, name, args, used) ==
    LET Prints(status, out, diags) == [done |-> Done(st, Status(status, "Exited"), -1, out, diags), files |-> files]
        Refuses(code) == Prints(code, <<>>, 1)
        Readable(path) == path # <<>> /\ PathOf(st, path) \in files
        Fitting == {out \in Outputs : Len(out) <= CaptureLimit - used}
        Answer(r) == Prints(r.status, r.out, IF r.status = 0 THEN 0 ELSE 1)
        Cat(p) == IF ~p.ok THEN {Refuses(2)}
                  ELSE {Refuses(1)} \union {Prints(0, out, 0) : out \in {o \in Fitting : Readable(p.path)}}
        Grepped(p) == IF ~p.ok THEN {Refuses(2)}
                      ELSE IF ~Readable(p.path) THEN {Refuses(1)}
                      ELSE {Refuses(1), Prints(1, <<>>, 0)} \union {Prints(0, out, 0) : out \in Fitting \ {<<>>}}
        Mutates(m) == {Refuses(1)} \union (IF m.ok THEN {[Prints(0, <<>>, 0) EXCEPT !.files = m.files]} ELSE {})
    IN CASE name = <<"pwd">> -> {IF args = <<>> THEN Prints(0, Append(FoldLeft(PushText, <<"/">>, st.cwd), "\n"), 0) ELSE Refuses(2)}
         [] name = <<"echo">> -> {Answer(Echo(args))}
         [] name = <<"ls">> -> {Answer(Ls(Tree(files), st.cwd, args))}
         [] name = <<"cat">> -> Cat(ParseCat(args, FALSE))
         [] name = <<"grep">> -> Grepped(ParseGrep(args, FALSE))
         [] name \in Mutations ->
                IF ParseMutation(name[1], args).ok THEN Mutates(Mutated(st, name, args, files)) ELSE {Refuses(2)}

-----------------------------------------------------------------------------
(* A script in execution: ExecutionOutput, the place in the script, and    *)
(* the command being prepared.  Diagnostics are counted.                   *)

Size(f) == Len(f.out) + f.err + f.kept
Left(f) == IF Size(f) < f.limit THEN f.limit - Size(f) ELSE 0
Execution(script, st, limit, render) ==
    [script |-> script, st |-> st, limit |-> limit, render |-> render,
     pc |-> 1, phase |-> "list", stage |-> 1, todo |-> <<>>, values |-> <<>>, stages |-> <<>>, allowance |-> 0,
     out |-> <<>>, err |-> 0, kept |-> 0, diags |-> 0, failed |-> FALSE,
     mark |-> [out |-> 0, err |-> 0, kept |-> 0, diags |-> 0],
     status |-> st.last, exit |-> -1,
     from |-> st.last.code, ran |-> <<>>, rendered |-> 0]   \* history
Pipeline(f) == f.script.pipelines[f.pc]
Command(f) == Pipeline(f).commands[f.stage]
Ended(f, status, diags) == [f EXCEPT !.phase = "settle", !.status = status, !.diags = @ + diags]

\* Mutant: the substitutions of the words before those of the redirections.
SourceOrderWordsFirst(p, q) ==
    IF p.owner[1] = q.owner[1] THEN p.at < q.at ELSE p.owner[1] = "word"

\* The order in which the substitutions of a command run.
SourceOrder(p, q) == p.at < q.at
Pending(c) ==
    LET In(owner, w) == {[at |-> part.span[1], owner |-> owner, part |-> part] : part \in {part \in Elements(w.parts) : part.kind = "sub"}}
    IN Ordered(UNION ({In(<<"word", i>>, c.words[i]) : i \in DOMAIN c.words}
                      \union {In(<<"redirection", i>>, c.redirections[i].path) :
                                i \in {i \in DOMAIN c.redirections : c.redirections[i].to = "file"}}), SourceOrder)
Prepare(f) == [f EXCEPT !.phase = "command", !.todo = Pending(Command(f)), !.values = <<>>]

\* The values of a word's parts: each substitution takes the next value of its owner.
ValuesOf(f, owner, w) ==
    LET Mine(v) == v.owner = owner
        queue == SelectSeq(f.values, Mine)
        Nth(i) == Cardinality({j \in 1 .. i : w.parts[j].kind = "sub"})
        Parameter(name) == IF name = <<"?">> THEN <<ToString(f.st.last.code)>>
                           ELSE IF name \in DOMAIN f.st.variables THEN f.st.variables[name] ELSE Get(f.st.environment, name)
    IN [i \in DOMAIN w.parts |-> CASE w.parts[i].kind = "sub" -> queue[Nth(i)].val
                                  [] w.parts[i].kind = "param" -> Parameter(w.parts[i].name)
                                  [] OTHER -> <<>>]
FieldsOf(f, owner, w) == ExpandWord(w.parts, ValuesOf(f, owner, w))
ExpandPathnames(fields, st, budget) ==
    LET Step(r, field) ==
          IF ~r.ok THEN r
          ELSE LET With(e) == IF e.ok THEN [e EXCEPT !.fields = r.fields \o @] ELSE e
               IN With(ExpandPathname(field, Tree(files), st.cwd, r.budget))
    IN FoldLeft(Step, [ok |-> TRUE, fields |-> <<>>, budget |-> budget], fields)
ExpandWords(f) ==
    ExpandPathnames(FlattenSeq([i \in DOMAIN Command(f).words |-> FieldsOf(f, <<"word", i>>, Command(f).words[i])]),
                    f.st, [units |-> 0, entries |-> 0, matches |-> 0])

Descriptor == ("0" :> "in") @@ ("1" :> "out") @@ ("2" :> "err")
ExpandRedirections(f, budget) ==
    LET redirections == Command(f).redirections
        File(r, redirection, e) ==
            IF ~e.ok \/ Len(e.fields) # 1 THEN [r EXCEPT !.ok = FALSE]
            ELSE [r EXCEPT !.budget = e.budget,
                           !.redirs = Append(@, [fd |-> Descriptor[redirection.fd], path |-> e.fields[1], mode |-> redirection.mode])]
        Step(r, i) ==
            IF ~r.ok THEN r
            ELSE IF redirections[i].to = "file"
            THEN File(r, redirections[i], ExpandPathnames(FieldsOf(f, <<"redirection", i>>, redirections[i].path), f.st, r.budget))
            ELSE [r EXCEPT !.redirs = Append(@, [fd |-> Descriptor[redirections[i].fd], from |-> Descriptor[redirections[i].to]])]
    IN FoldLeft(Step, [ok |-> TRUE, budget |-> budget, redirs |-> <<>>], [i \in DOMAIN redirections |-> i])

\* Opening files in order, each creating or requiring its path; a failure keeps what came before.
OpenFile(r, file) ==
    CASE ~r.ok -> r
      [] r.ok /\ file.mode = "Read" -> [r EXCEPT !.ok = file.at \in r.files \union Directories]
      [] OTHER -> IF file.at # <<>> /\ Front(file.at) \in Directories /\ file.at \notin Directories
                  THEN [r EXCEPT !.files = @ \union {file.at}] ELSE [r EXCEPT !.ok = FALSE]
FilesOf(st, redirs) ==
    LET kept == SelectSeq(redirs, Plan!IsFile)
    IN [i \in DOMAIN kept |-> [at |-> PathOf(st, kept[i].path), mode |-> kept[i].mode]]
OpenFiles(list) == FoldLeft(OpenFile, [ok |-> TRUE, files |-> files], list)

-----------------------------------------------------------------------------
(* Commands.  Each answers the possible [f, files] after it.               *)

Same(f) == {[f |-> f, files |-> files]}
Refusing(f, code, kind) == Same(Ended(f, Status(code, kind), 1))
After(f, done) == [Ended([f EXCEPT !.st = done.st, !.out = @ \o done.out], done.status, done.diags) EXCEPT !.exit = done.exit]
ToRunner(f, stages, allowance) == Same([f EXCEPT !.phase = "run", !.stages = stages, !.allowance = allowance])

\* A resolved command with its expanded redirections, and whether its arguments are valid.
Stage(st, resolved, words, redirs) ==
    LET name == words[1]
        args == Tail(words)
        With(reads) == [kind |-> resolved.kind, name |-> name, args |-> args, redirs |-> redirs,
                        valid |-> reads.ok, reads |-> reads.reads]
    IN With(CASE resolved.kind = "portable" -> ReadsStdin(name, args)
              [] resolved.kind = "stateful" -> [ok |-> ValidStateful(st, name, args), reads |-> FALSE]
              [] OTHER -> [ok |-> TRUE, reads |-> FALSE])

\* execute_stateful_redirected: the files open before the state changes.
StatefulRedirected(f, stage) ==
    LET With(opened) ==
          IF opened.ok THEN {[f |-> After(f, Stateful(f.st, stage.name, stage.args)), files |-> opened.files]}
          ELSE {[f |-> Ended(f, Status(1, "RedirectionError"), 1), files |-> opened.files]}
    IN IF stage.valid THEN With(OpenFiles(FilesOf(f.st, stage.redirs))) ELSE Refusing(f, 2, "Exited")

\* execute_portable_redirected: a portable command with files runs as a pipeline of one stage.
PortableRedirected(f, stage, plan) ==
    IF ~stage.valid THEN Refusing(f, 2, "Exited")
    ELSE IF ~plan.ok THEN Refusing(f, 1, "RedirectionError")
    ELSE IF stage.reads /\ plan.stages[1].in = Plan!Null THEN Refusing(f, 2, "Exited")
    ELSE ToRunner(f, <<stage>>, Left(f))

\* execute_command for a resolved command whose redirections have been expanded; plan places them.
Simple(f, stage, plan) ==
    CASE stage.kind = "stateful" ->
           IF stage.redirs # <<>> THEN StatefulRedirected(f, stage) ELSE Same(After(f, Stateful(f.st, stage.name, stage.args)))
      [] stage.kind = "portable" /\ stage.redirs = <<>> ->
           {[f |-> After(f, d.done), files |-> d.files] : d \in Direct(f.st, stage.name, stage.args, Len(f.out))}
      [] stage.kind = "portable" /\ stage.redirs # <<>> -> PortableRedirected(f, stage, plan)
      [] stage.kind \in {"native", "wsl"} ->
           IF plan.ok THEN ToRunner(f, <<stage>>, Left(f)) ELSE Refusing(f, 1, "RedirectionError")

\* The stage loop of execute_pipeline, one stage; plan places the redirections up to it.
PipelineStage(f, stage, plan) ==
    LET stages == Append(f.stages, stage)
    IN IF ~stage.valid THEN Refusing(f, 2, "Exited")
       ELSE IF ~plan.ok THEN Refusing(f, 1, "RedirectionError")
       ELSE IF f.stage = Len(Pipeline(f).commands) THEN ToRunner(f, stages, f.allowance)
       ELSE Same(Prepare([f EXCEPT !.stages = stages, !.stage = @ + 1]))

\* select_pipeline_exit: the last stage, or with pipefail the rightmost that failed.
SelectExit(exits, pipefail) ==
    LET failed == {i \in DOMAIN exits : exits[i] # "ok"}
    IN IF pipefail /\ failed # {} THEN exits[CHOOSE i \in failed : \A j \in failed : j <= i] ELSE exits[Len(exits)]
ExitStatus(exit) ==
    CASE exit = "ok" -> Success [] exit = "fail" -> Status(1, "Exited") [] exit = "signal" -> Status(130, "Interrupted")

\* The files once the mutations among the stages have committed, in any order.
MutatedBy(f, exits, existing) ==
    LET mutators == {i \in DOMAIN f.stages : f.stages[i].name \in Mutations /\ exits[i] = "ok"}
        Leaves(m) == IF m.ok THEN {m.files} ELSE {}
        left[done \in SUBSET mutators] ==
            IF done = {} THEN {existing}
            ELSE UNION {Leaves(Mutated(f.st, f.stages[i].name, f.stages[i].args, before)) :
                            <<i, before>> \in UNION {{i} \X left[done \ {i}] : i \in done}}
    IN left[mutators]

\* What the interpreter makes of an answer of its runner.
Answered(f, answer) ==
    CASE answer.result = "Ok" ->
           {Ended([f EXCEPT !.out = @ \o out, !.err = @ + answer.err], ExitStatus(SelectExit(answer.exits, f.st.pipefail)), 0) :
               out \in {o \in Outputs : Len(o) = answer.out}}
      [] answer.result = "CaptureLimit" -> {Ended([f EXCEPT !.failed = TRUE], Status(1, "Exited"), 1)}
      [] answer.result = "Failed" -> {Ended(f, Status(126, "SpawnError"), 1)}

-----------------------------------------------------------------------------
(* The list of pipelines                                                   *)

Admitted(f) == CASE Pipeline(f).condition = "and" -> f.status.code = 0
                 [] Pipeline(f).condition = "or" -> f.status.code # 0
                 [] OTHER -> TRUE
\* Mutant: a skipped pipeline counts as a success.
SkippedSucceeds(f) == [f EXCEPT !.pc = @ + 1, !.status = Success]

Skipped(f) == [f EXCEPT !.pc = @ + 1]

Entered(f) ==
    LET marked == [f EXCEPT !.mark = [out |-> Len(f.out), err |-> f.err, kept |-> f.kept, diags |-> f.diags],
                            !.stage = 1, !.stages = <<>>, !.allowance = Left(f)]
    IN IF Len(Pipeline(f).commands) > MaxStages THEN Ended(marked, Status(2, "Exited"), 1) ELSE Prepare(marked)

\* Output beyond the limit takes the whole pipeline's output with it.
Truncated(f) ==
    IF Size(f) > f.limit
    THEN Ended([f EXCEPT !.out = SubSeq(@, 1, f.mark.out), !.err = f.mark.err, !.kept = f.mark.kept, !.failed = TRUE],
               Status(1, "Exited"), 1)
    ELSE f
\* What is recorded once the pipeline is over.
Recorded(g) ==
    LET new == IF g.render THEN g.diags - g.mark.diags ELSE 0
    IN [g EXCEPT !.err = @ + new, !.rendered = @ + new, !.st.last = g.status, !.phase = "list", !.pc = @ + 1,
                 !.ran = Append(@, [pipeline |-> g.pc, code |-> g.status.code])]

\* Mutant: a pipeline that could not be spawned is tried again.
SettledAgain(f) ==
    IF f.status.kind = "SpawnError" THEN [f EXCEPT !.phase = "list", !.diags = f.mark.diags, !.status = f.st.last]
    ELSE Recorded(Truncated(f))

Settled(f) == Recorded(Truncated(f))

-----------------------------------------------------------------------------
(* Command substitution                                                    *)


Nested(f, part) == Execution(ShiftedForExecution(part.script, part.body[1]), f.st, Left(f), FALSE)

StripNewlines(text) ==
    LET kept == {i \in DOMAIN text : text[i] # "\n"}
    IN SubSeq(text, 1, IF kept = {} THEN 0 ELSE CHOOSE i \in kept : \A j \in kept : j <= i)

\* Mutant: the state of the substitution becomes that of the script.
CollectedState(f, nested) ==
    [f EXCEPT !.err = @ + nested.err, !.diags = @ + nested.diags, !.rendered = @ + nested.rendered, !.st = nested.st]

Collected(f, nested) ==
    [f EXCEPT !.err = @ + nested.err, !.diags = @ + nested.diags, !.rendered = @ + nested.rendered]
Returned(f, nested) ==
    LET With(g, text) ==
          IF nested.failed THEN Ended([g EXCEPT !.failed = TRUE], Status(1, "Exited"), 0)
          ELSE IF Len(text) > Left(g) THEN Ended([g EXCEPT !.failed = TRUE], Status(1, "Exited"), 1)
          ELSE IF "NUL" \in ToSet(text) THEN Ended([g EXCEPT !.kept = @ + Len(text)], Status(2, "Exited"), 1)
          ELSE [g EXCEPT !.kept = @ + Len(text), !.todo = Tail(@),
                         !.values = Append(@, [owner |-> g.todo[1].owner, at |-> g.todo[1].at, val |-> text])]
    IN With(Collected(f, nested), StripNewlines(nested.out))

-----------------------------------------------------------------------------
(* Actions of the interpreter, on the innermost script.                    *)

Depth == Len(stack)
Top == stack[Depth]
Put(f) == stack' = [stack EXCEPT ![Depth] = f]
Completed(f) == f.phase = "list" /\ (f.pc > Len(f.script.pipelines) \/ f.exit # -1)
Listing == stack # <<>> /\ Top.phase = "list" /\ ~Completed(Top)

Dispatching == stack # <<>> /\ Top.phase = "command" /\ Top.todo = <<>>

Skip == Listing /\ ~Admitted(Top) /\ Put(Skipped(Top)) /\ UNCHANGED <<files, shell, session>>
Enter == Listing /\ Admitted(Top) /\ Put(Entered(Top)) /\ UNCHANGED <<files, shell, session>>
Substitute ==
    /\ stack # <<>> /\ Top.phase = "command" /\ Top.todo # <<>>
    /\ stack' = Append(stack, Nested(Top, Top.todo[1].part))
    /\ UNCHANGED <<files, shell, session>>
Return ==
    /\ Depth > 1 /\ Completed(Top)
    /\ stack' = [SubSeq(stack, 1, Depth - 1) EXCEPT ![Depth - 1] = Returned(stack[Depth - 1], Top)]
    /\ UNCHANGED <<files, shell, session>>
\* The words expand to nothing, or to no pathname.
NoWords ==
    /\ Dispatching
    /\ \E e \in {ExpandWords(Top)} :
          /\ ~e.ok \/ e.fields = <<>>
          /\ Put(IF e.ok /\ Len(Pipeline(Top).commands) = 1 THEN Ended(Top, Success, 0) ELSE Ended(Top, Status(2, "Exited"), 1))
    /\ UNCHANGED <<files, shell, session>>
\* The name is resolved to nothing that can run.
Unresolved ==
    /\ Dispatching
    /\ \E e \in {ExpandWords(Top)} :
          /\ e.ok /\ e.fields # <<>>
          /\ \E resolved \in {Resolve(Top.st, e.fields[1])} :
                \/ resolved.kind = "error" /\ Put(Ended(Top, Status(resolved.code, "ResolutionError"), 1))
                \/ resolved.kind = "unimplemented" /\ Put(Ended(Top, Status(2, "Exited"), 1))
    /\ UNCHANGED <<files, shell, session>>
\* The command or stage is dispatched; a pipeline reports wrong arguments before its
\* redirections, a command of its own after them.
Dispatch ==
    /\ Dispatching
    /\ \E e \in {ExpandWords(Top)} :
          /\ e.ok /\ e.fields # <<>>
          /\ \E resolved \in {Resolve(Top.st, e.fields[1])}, x \in {ExpandRedirections(Top, e.budget)} :
                /\ resolved.kind \in {"stateful", "portable", "native", "wsl"}
                /\ \E stage \in {Stage(Top.st, resolved, e.fields, x.redirs)} :
                   \E plan \in {IF x.ok THEN Plan!PlanStages(Append(Top.stages, stage)) ELSE x} :
                   \E r \in IF Len(Pipeline(Top).commands) > 1 THEN PipelineStage(Top, stage, plan)
                            ELSE IF x.ok THEN Simple(Top, stage, plan) ELSE Refusing(Top, 1, "RedirectionError") :
                      Put(r.f) /\ files' = r.files
    /\ UNCHANGED <<shell, session>>
Run ==
    /\ stack # <<>> /\ Top.phase = "run"
    /\ \E opened \in {OpenFiles(FlattenSeq([i \in DOMAIN Top.stages |-> FilesOf(Top.st, Top.stages[i].redirs)]))} :
          \/ /\ ~opened.ok
             /\ Put(Ended(Top, Status(1, "RedirectionError"), 1))
             /\ files' = opened.files
          \/ /\ opened.ok
             /\ \E answer \in Runner!Answers(Len(Top.stages), Top.allowance) :
                   /\ answer.result # "Redirection"
                   /\ answer.result = "Ok" => /\ answer.err <= MaxErr
                                              /\ \A i \in DOMAIN answer.exits :
                                                    answer.exits[i] = "signal" => Top.stages[i].kind \in {"native", "wsl"}
                   /\ \E f \in Answered(Top, answer) : Put(f)
                   /\ files' \in IF answer.result = "Ok" THEN MutatedBy(Top, answer.exits, opened.files) ELSE {opened.files}
    /\ UNCHANGED <<shell, session>>
Settle == stack # <<>> /\ Top.phase = "settle" /\ Put(Settled(Top)) /\ UNCHANGED <<files, shell, session>>

-----------------------------------------------------------------------------
(* The session: a profile, then one source or interactive lines.           *)

ExitCode(code) == IF code \in 0 .. 255 THEN code ELSE 1
Over(code) == [session EXCEPT !.at = "over", !.code = ExitCode(code)]

\* What run and run_interactive do when a source has been executed.
AfterSource(status, exit) ==
    CASE session.at = "profile" /\ (exit # -1 \/ (status.kind = "ParseError" /\ ~session.interactive)) -> Over(status.code)
      [] session.at = "input" -> Over(status.code)
      [] session.at = "line" /\ exit # -1 -> Over(status.code)
      [] OTHER -> [session EXCEPT !.at = IF session.interactive THEN "line" ELSE "input"]
Idle(places) == stack = <<>> /\ session.at \in places
Line == [session EXCEPT !.lines = IF session.at = "line" THEN @ + 1 ELSE @]

NoProfile == /\ Idle({"profile"})
             /\ session' = [session EXCEPT !.at = IF session.interactive THEN "line" ELSE "input"]
             /\ UNCHANGED <<stack, files, shell>>
Unreadable == Idle({"profile", "input"}) /\ (\E code \in {1, 2} : session' = Over(code)) /\ UNCHANGED <<stack, files, shell>>
Submit(source) ==
    /\ Idle({"profile", "input", "line"}) /\ session.lines < MaxLines
    /\ session.at = "profile" => source \in Profiles
    /\ \E r \in {Parse(source)} :
          IF r.ok
          THEN /\ stack' = <<Execution(r.val, shell, CaptureLimit, TRUE)>> /\ session' = Line /\ UNCHANGED <<shell, files>>
          ELSE /\ shell' = [shell EXCEPT !.last = Status(2, "ParseError")]
               /\ session' = [AfterSource(Status(2, "ParseError"), -1) EXCEPT !.lines = Line.lines]
               /\ UNCHANGED <<stack, files>>
Finish ==
    /\ Depth = 1 /\ Completed(Top)
    /\ shell' = Top.st /\ stack' = <<>> /\ session' = AfterSource(Top.status, Top.exit)
    /\ UNCHANGED files
Interrupt ==
    /\ Idle({"line"}) /\ session.lines < MaxLines
    /\ shell' = [shell EXCEPT !.last = Status(130, "Interrupted")] /\ session' = Line
    /\ UNCHANGED <<stack, files>>
EndOfFile == Idle({"line"}) /\ session' = Over(shell.last.code) /\ UNCHANGED <<stack, files, shell>>

Rest == session.at = "over" /\ UNCHANGED vars

Init == /\ stack = <<>> /\ files = InitialFiles /\ shell = NewState
        /\ session \in [at : {"profile"}, interactive : BOOLEAN, code : {-1}, lines : {0}]
Interpret == Skip \/ Enter \/ Substitute \/ Return \/ NoWords \/ Unresolved \/ Dispatch \/ Run \/ Settle \/ Finish
Next == Interpret \/ NoProfile \/ Unreadable \/ (\E source \in Sources : Submit(source)) \/ Interrupt \/ EndOfFile \/ Rest
Spec == Init /\ [][Next]_vars

\* The interpreter runs on: execute_source waits for nothing but its runner, which answers.
\* While a script is in execution only Interpret can move, and one of its actions always
\* can (no state deadlocks), so this is WF_vars(Interpret).
LiveSpec == Spec /\ ([]<>(stack = <<>>) \/ []<><<stack # <<>>>>_stack)

-----------------------------------------------------------------------------
(* Properties                                                              *)

TypeOK ==
    /\ \A d \in DOMAIN stack :
          /\ stack[d].phase \in {"list", "command", "run", "settle"}
          /\ stack[d].st.cwd \in Directories
    /\ \A path \in files : Front(path) \in Directories
    /\ shell.cwd \in Directories
    /\ session.at = "over" => stack = <<>> /\ session.code \in 0 .. 255

\* Only a stateful builtin that is a command of its own changes the directory, the variables
\* and the options of its script: substitutions and pipeline stages work on copies
\* (execute_command_substitution, stateful_pipeline_invocation).
Lasting(st) == <<st.cwd, st.variables, st.environment, st.pipefail>>
Outermost == IF stack = <<>> THEN shell ELSE stack[1].st
StateIsolated ==
    /\ Lasting(Outermost)' # Lasting(Outermost) =>
          Depth = 1 /\ Top.phase = "command" /\ Len(Pipeline(Top).commands) = 1
    /\ \A d \in 1 .. Depth - 1 : d \in DOMAIN stack' => stack'[d].st = stack[d].st

\* Every script runs exactly the pipelines its conditional list calls for: a pipeline after
\* && or || runs when the last one that did run, however far back, ended as the operator
\* wants; and no pipeline runs after an exit.
ListSemantics ==
    \A d \in DOMAIN stack : LET f == stack[d] IN
        /\ \A i \in 1 .. f.pc - 1 :
              LET before == {k \in DOMAIN f.ran : f.ran[k].pipeline < i}
                  code == IF before = {} THEN f.from ELSE f.ran[CHOOSE k \in before : \A j \in before : j <= k].code
                  condition == f.script.pipelines[i].condition
              IN (\E k \in DOMAIN f.ran : f.ran[k].pipeline = i)
                    <=> (condition = "and" => code = 0) /\ (condition = "or" => code # 0)
        /\ f.exit # -1 => f.phase \in {"settle", "list"}

\* What a script and the substitutions it waits for hold together never exceeds the capture
\* limit, rendered diagnostics aside, whenever a pipeline has been settled or a runner is
\* about to start.
Captured(f) == Size(f) - f.rendered
BufferedBounded ==
    \A f \in {stack[d] : d \in DOMAIN stack} : f.phase = "list" => Captured(f) <= f.limit

\* A substitution that did not fail always fits: its text is never refused for its length
\* when its script already has been held to what was left (execution.rs:461).
SubstitutionFits ==
    Depth > 1 /\ Completed(Top) /\ ~Top.failed =>
        Len(StripNewlines(Top.out)) <= Left(Collected(stack[Depth - 1], Top))

\* The substitutions of a command run in the order they are written, across words and
\* redirections, and each one's text goes to the part that asked for it.
SubstitutionsInOrder ==
    \A f \in {stack[d] : d \in DOMAIN stack} :
        /\ \A i, j \in DOMAIN f.values : i < j => f.values[i].at < f.values[j].at
        /\ f.phase = "command" /\ f.todo = <<>> =>
              \A i \in DOMAIN Command(f).words :
                  LET Sub(part) == part.kind = "sub"
                      Mine(v) == v.owner = <<"word", i>>
                      parts == SelectSeq(Command(f).words[i].parts, Sub)
                      values == SelectSeq(f.values, Mine)
                  IN [k \in DOMAIN values |-> values[k].at] = [k \in DOMAIN parts |-> parts[k].span[1]]

\* Every diagnostic, also one of a nested substitution, is rendered exactly once, by the
\* outermost script (execute_script_with_runner, render_diagnostics).
RenderedOnce == stack # <<>> /\ stack[1].phase = "list" => stack[1].rendered = stack[1].diags


\* An interactive session ends at the end of its input, when its profile cannot be read, or
\* by an exit that stands as a command of its own in a submitted source, never by one in a
\* substitution or a pipeline stage.
OwnExit(f) ==
    /\ f.ran # <<>>
    /\ LET commands == f.script.pipelines[Last(f.ran).pipeline].commands
       IN Len(commands) = 1 /\ commands[1].words[1].parts[1].kind = "lit" /\ commands[1].words[1].parts[1].val = <<"exit">>
ExitIsOwn ==
    session.interactive /\ session.at # "over" /\ session'.at = "over" =>
        stack = <<>> \/ (Depth = 1 /\ OwnExit(Top))

\* Neither the state nor an exit leaves the substitution or the stage it belongs to.
Isolated == [][StateIsolated /\ ExitIsOwn]_vars

\* Every submitted source is executed to its end, whatever its commands answer.
SourcesEnd == (stack # <<>>) ~> (stack = <<>>)
====
