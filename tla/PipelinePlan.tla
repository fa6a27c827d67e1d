---------------------------- MODULE PipelinePlan ----------------------------
(***************************************************************************)
(* How the human shell lowers the stages of a pipeline onto a process      *)
(* graph (execution.rs execute_pipeline).  A stage is already expanded and *)
(* resolved: its kind, whether a portable command reads its input, and its *)
(* redirections in source order.  Stage i feeds stage i + 1 through pipe i.*)
(***************************************************************************)
EXTENDS ProcessGraph

Native(stage) == stage.kind \in {"native", "wsl"}

\* A file redirection is [fd, path, mode], a duplication [fd, from].
IsFile(r) == "mode" \in DOMAIN r
ModeFits(r) == IF r.fd = "in" THEN r.mode = "Read" ELSE r.mode \in {"Write", "Append"}

\* Mutant: a duplication copies the stream's default, not what it is now.
AssignDefault(plan, r, defaults, base) ==
    LET id == base + Len(plan.files)
    IN IF ~IsFile(r) THEN [plan EXCEPT !.fds[r.fd] = defaults[r.from]]
       ELSE IF ~ModeFits(r) THEN [plan EXCEPT !.ok = FALSE]
       ELSE [plan EXCEPT !.fds[r.fd] = FileEnd(id),
                         !.files = Append(@, [id |-> id, path |-> r.path, mode |-> r.mode])]

\* One redirection, left to right: a duplication copies the present endpoint.
Assign(plan, r, defaults, base) ==
    LET id == base + Len(plan.files)
    IN IF ~IsFile(r) THEN [plan EXCEPT !.fds[r.fd] = plan.fds[r.from]]
       ELSE IF ~ModeFits(r) THEN [plan EXCEPT !.ok = FALSE]
       ELSE [plan EXCEPT !.fds[r.fd] = FileEnd(id),
                         !.files = Append(@, [id |-> id, path |-> r.path, mode |-> r.mode])]

PlanRedirections(redirections, fds, base) ==
    FoldLeft(LAMBDA plan, r : IF plan.ok THEN Assign(plan, r, fds, base) ELSE plan,
             [ok |-> TRUE, fds |-> fds, files |-> <<>>], redirections)

\* The endpoints of stage i of n before its redirections.
DefaultStdio(i, n) ==
    [in  |-> IF i = 1 THEN Null ELSE Pipe(i - 1),
     out |-> IF i = n THEN Capture("stdout") ELSE Pipe(i),
     err |-> Capture("stderr")]

\* native_invocation, wsl_invocation: process_invocation with its own file numbers.
PlanNative(acc, stage, i, n) ==
    LET With(plan) == [acc EXCEPT !.ok = plan.ok,
                                  !.stages = Append(@, [kind |-> stage.kind, in |-> plan.fds.in, out |-> plan.fds.out,
                                                        err |-> plan.fds.err, files |-> plan.files])]
    IN With(PlanRedirections(stage.redirs, DefaultStdio(i, n), 0))

\* portable_pipeline_invocation and stateful_pipeline_invocation: a captured
\* output becomes a pipe of which the parent keeps both ends.
PlanParent(acc, stage, i, n) ==
    LET given == IF stage.kind = "stateful" THEN [DefaultStdio(i, n) EXCEPT !.in = Null] ELSE DefaultStdio(i, n)
        With(plan, in, captured) ==
            [acc EXCEPT !.ok = plan.ok /\ in[1] # "capture",
                        !.stages = Append(@, [kind |-> stage.kind, in |-> in, err |-> Null, files |-> plan.files,
                                              out |-> IF captured THEN Pipe(acc.nextPipe) ELSE plan.fds.out]),
                        !.nextFile = @ + Len(plan.files),
                        !.nextPipe = IF captured THEN @ + 1 ELSE @,
                        !.kept = IF captured THEN @ \o <<Reader(acc.nextPipe), Writer(acc.nextPipe)>> ELSE @,
                        !.captures = IF captured THEN Append(@, [stage |-> i, pipe |-> acc.nextPipe, stream |-> plan.fds.out[2]])
                                     ELSE @]
        Planned(plan) == With(plan, IF stage.kind = "portable" /\ stage.reads THEN plan.fds.in ELSE Null,
                              plan.fds.out[1] = "capture")
    IN Planned(PlanRedirections(stage.redirs, given, acc.nextFile))

PlanStages(stages) ==
    LET n == Len(stages)
        acc[i \in 0 .. n] ==
            IF i = 0 THEN [ok |-> TRUE, stages |-> <<>>, nextPipe |-> n, nextFile |-> 0, kept |-> <<>>, captures |-> <<>>]
            ELSE IF ~acc[i - 1].ok THEN acc[i - 1]
            ELSE IF Native(stages[i]) THEN PlanNative(acc[i - 1], stages[i], i, n)
            ELSE PlanParent(acc[i - 1], stages[i], i, n)
    IN acc[n]

\* Pipe i: who closes or keeps the end that no child holds.
InnerEnds(planned, i) ==
    LET from == planned[i]
        to == planned[i + 1]
        writes == Pipe(i) \in {from.out, from.err}
        reads == to.in = Pipe(i)
    IN [closed |-> (IF writes THEN <<>> ELSE <<Writer(i)>>) \o (IF reads THEN <<>> ELSE <<Reader(i)>>),
        kept |-> (IF writes /\ ~Native(from) THEN <<Writer(i)>> ELSE <<>>)
                    \o (IF reads /\ ~Native(to) THEN <<Reader(i)>> ELSE <<>>)]

\* The files of the stages in source order; process[i] numbers the native stages.
FileOrder(planned, process) ==
    FlattenSeq([i \in DOMAIN planned |->
        [k \in DOMAIN planned[i].files |->
            <<IF Native(planned[i]) THEN process[i] ELSE 0, planned[i].files[k].id>>]])

\* What run_pipeline hands to the platform.
LowerPlan(acc) ==
    LET planned == acc.stages
        inner == [i \in 1 .. Len(planned) - 1 |-> InnerEnds(planned, i)]
        natives == SelectSeq([i \in DOMAIN planned |-> i], LAMBDA i : Native(planned[i]))
        process == [i \in DOMAIN planned |-> Cardinality({j \in 1 .. i : Native(planned[j])})]
    IN [ok |-> acc.ok, stages |-> planned, natives |-> natives,
        specs |-> [p \in DOMAIN natives |-> planned[natives[p]]],
        closed |-> FlattenSeq([i \in DOMAIN inner |-> inner[i].closed]),
        kept |-> acc.kept \o FlattenSeq([i \in DOMAIN inner |-> inner[i].kept]),
        captures |-> acc.captures,
        parentFiles |-> FlattenSeq([i \in DOMAIN planned |-> IF Native(planned[i]) THEN <<>> ELSE planned[i].files]),
        order |-> FileOrder(planned, process)]
Lower(stages) == LowerPlan(PlanStages(stages))

-----------------------------------------------------------------------------
\* Every pipeline the shell can lower passes all the checks of the platform:
\* no combination of stage kinds and redirections makes a valid command line
\* fail as an invalid process graph (execution.rs execute_pipeline,
\* process.rs spawn_native_graph_with_parent_io).
LoweringAccepted(stages) ==
    \A plan \in {Lower(stages)} :
        plan.ok => ValidatePlan(plan.specs, plan.closed, plan.kept, plan.parentFiles, plan.order)

\* Where the redirections of a POSIX shell send a stream: the target of the
\* last redirection of it, a duplication standing for its source just before.
RECURSIVE Target(_, _, _)
Target(redirs, k, fd) ==
    IF k = 0 THEN <<"default", fd>>
    ELSE LET r == redirs[k]
         IN IF r.fd # fd THEN Target(redirs, k - 1, fd)
            ELSE IF IsFile(r) THEN <<"file", k>>
            ELSE Target(redirs, k - 1, r.from)

\* Redirections take effect in source order, for children and for parent
\* tasks alike: each stream ends up where Target says (execution.rs
\* process_invocation, plan_parent_task_redirections).
RedirectionsOrdered(stage, i, n) ==
    LET given == DefaultStdio(i, n)
        fileNumber(k) == Cardinality({j \in 1 .. k - 1 : IsFile(stage.redirs[j])})
        meant(fd) == LET t == Target(stage.redirs, Len(stage.redirs), fd)
                     IN IF t[1] = "default" THEN given[t[2]] ELSE FileEnd(fileNumber(t[2]))
    IN \A plan \in {PlanRedirections(stage.redirs, given, 0)} : plan.ok => \A fd \in {"in", "out", "err"} : plan.fds[fd] = meant(fd)

\* The global open order is the order in which the files are written on the
\* command line, whichever stage or owner they belong to (execution.rs
\* run_pipeline).
OpensInSourceOrder(stages) ==
    LET path(plan, entry) == LET files == IF entry[1] = 0 THEN plan.parentFiles ELSE plan.specs[entry[1]].files
                       IN (CHOOSE f \in ToSet(files) : f.id = entry[2]).path
        written == FlattenSeq([i \in DOMAIN stages |->
                      LET files == SelectSeq(stages[i].redirs, IsFile) IN [k \in DOMAIN files |-> files[k].path]])
    IN \A plan \in {Lower(stages)} : plan.ok => [k \in DOMAIN plan.order |-> path(plan, plan.order[k])] = written
=============================================================================
