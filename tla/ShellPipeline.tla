---------------------------- MODULE ShellPipeline ----------------------------
(***************************************************************************)
(* One foreground pipeline of the human shell, from its lowered plan to    *)
(* its exit statuses: files are opened, children started consumers first,  *)
(* in-process stages and capture drains polled together, the native        *)
(* members waited for, or all of them terminated and reaped when something *)
(* fails (execution.rs run_pipeline, process.rs NativeProcessJob).         *)
(* A byte is a unit; a pipe holds PipeCapacity of them.                    *)
(***************************************************************************)
EXTENDS PipelinePlan

CONSTANTS Pipelines,      \* sequences of stages, with what each one writes
          PipeCapacity,
          CaptureLimits,  \* what remains of the shell's capture allowance
          Width,          \* MAX_NATIVE_PIPELINE_STAGES
          MaxOutput,      \* bounds what one pipeline writes
          StreamLimit,    \* MAX_READ_FILE_BYTES, as copied by one cat
          Faults          \* which of the operating system's failures may happen

ASSUME PipelineConstants ==
    /\ \A p \in Pipelines : Len(p) \in 1 .. Width /\ PlanStages(p).ok
    /\ Width \in Nat /\ MaxOutput \in Nat
    /\ PipeCapacity \in Nat \ {0} /\ CaptureLimits \subseteq Nat /\ StreamLimit \in Nat
    /\ Faults \subseteq {"open", "spawn", "capture", "wait"}

VARIABLES pipeline, limit, plan,
          phase,      \* "check", "open", "spawn", "run", "wait", "reap", "returned"
          opened,     \* how many entries of the plan's file order are open
          unspawned,  \* the native stages still to start, in spawn order
          status,     \* per stage: "idle", "running", "exited", "killed", "reaped"
          exits,      \* per stage: "none", "ok", "fail" or "signal"
          chan,       \* per pipe: units inside, holders of either end
          todo,       \* per stage: units still to write, unit read but not yet written
          copied,     \* per stage: units an in-process cat or grep has copied
          captured,   \* the counter that all the capture drains share
          drained,    \* per captured pipe: units appended to its buffer
          outcome     \* what run_pipeline returns

vars == <<pipeline, limit, plan, phase, opened, unspawned, status, exits, chan, todo, copied, captured, drained, outcome>>

\* The pipe behind an endpoint of stage i; captures of children have their own.
Channel(i, end) ==
    CASE end[1] = "pipe" -> {end}
      [] end[1] = "capture" -> {<<"capture", i, end[2]>>}
      [] OTHER -> {}

\* The lowered plan of a pipeline, with what the checks make of it.
Describe(p, low) ==
    LET stages == low.stages
        natives == ToSet(low.natives)
        writes == [i \in DOMAIN p |-> Channel(i, stages[i].out) \union Channel(i, stages[i].err)]
        children == {c \in UNION {writes[i] : i \in natives} : c[1] = "capture"}
        kept == {Pipe(low.captures[k].pipe) : k \in DOMAIN low.captures}
    IN [stages |-> stages, order |-> low.order, captures |-> low.captures,
        accepted |-> ValidatePlan(low.specs, low.closed, low.kept, low.parentFiles, low.order),
        graph |-> ValidateGraph(low.specs, low.closed, low.kept),
        pipes |-> {Pipe(id) : id \in PipeIds(low.specs, low.closed, low.kept)},
        processes |-> low.natives, natives |-> natives, tasks |-> DOMAIN p \ natives,
        reads |-> [i \in DOMAIN p |-> Channel(i, stages[i].in)], writes |-> writes,
        childCaptures |-> children, taskCaptures |-> kept, allCaptures |-> children \union kept]
PlanOf(p) == Describe(p, Lower(p))

Accepted == plan.accepted
Graph == plan.graph
Stages == DOMAIN pipeline
Natives == plan.natives
Tasks == plan.tasks
Reads(i) == plan.reads[i]
Writes(i) == plan.writes[i]
GraphPipes == plan.pipes
ChildCaptures == plan.childCaptures
TaskCaptures == plan.taskCaptures
Captures == plan.allCaptures

Spawner == -1   \* the ends the parent holds while it starts children
Supervisor == 0 \* the ends the capture drains hold

Release(ch, holders) == [c \in DOMAIN ch |-> [ch[c] EXCEPT !.r = @ \ holders, !.w = @ \ holders]]

-----------------------------------------------------------------------------
Init ==
    /\ pipeline \in Pipelines /\ limit \in CaptureLimits /\ plan = PlanOf(pipeline)
    /\ phase = "check" /\ opened = 0 /\ outcome = "none"
    /\ unspawned = IF Accepted THEN [k \in DOMAIN Graph.order |-> plan.processes[Graph.order[k]]] ELSE <<>>
    /\ status = [i \in Stages |-> "idle"] /\ exits = [i \in Stages |-> "none"]
    /\ chan = [c \in GraphPipes \union ChildCaptures |-> [n |-> 0, r |-> {Spawner}, w |-> {Spawner}]]
    /\ todo = [i \in Stages |-> [out |-> pipeline[i].out, err |-> pipeline[i].err, held |-> 0]]
    /\ copied = [i \in Stages |-> 0]
    /\ captured = 0 /\ drained = [c \in Captures |-> 0]

\* A plan that fails the checks is refused before any effect.
Validate ==
    /\ phase = "check"
    /\ phase' = (IF Accepted THEN "open" ELSE "returned")
    /\ outcome' = (IF Accepted THEN outcome ELSE "Invalid")
    /\ UNCHANGED <<pipeline, limit, plan, opened, unspawned, status, exits, chan, todo, copied, captured, drained>>

\* The next file of the global order; an earlier one stays created or truncated.
OpenFile ==
    /\ phase = "open" /\ opened < Len(plan.order)
    /\ opened' = opened + 1
    /\ UNCHANGED <<pipeline, limit, plan, phase, unspawned, status, exits, chan, todo, copied, captured, drained, outcome>>
OpenFails ==
    /\ phase = "open" /\ opened < Len(plan.order) /\ "open" \in Faults
    /\ phase' = "returned" /\ outcome' = "Redirection"
    /\ UNCHANGED <<pipeline, limit, plan, opened, unspawned, status, exits, chan, todo, copied, captured, drained>>

FilesOpen == opened = Len(plan.order)
AllOpen ==
    /\ phase = "open" /\ FilesOpen
    /\ phase' = "spawn"
    /\ UNCHANGED <<pipeline, limit, plan, opened, unspawned, status, exits, chan, todo, copied, captured, drained, outcome>>

Spawn ==
    /\ phase = "spawn" /\ unspawned # <<>>
    /\ LET i == Head(unspawned)
       IN /\ status' = [status EXCEPT ![i] = "running"]
          /\ chan' = [c \in DOMAIN chan |-> [chan[c] EXCEPT !.r = @ \union (IF c \in Reads(i) THEN {i} ELSE {}) \union (IF c \in Writes(i) \intersect ChildCaptures THEN {Supervisor} ELSE {}),
                                                          !.w = @ \union (IF c \in Writes(i) THEN {i} ELSE {})]]
    /\ unspawned' = Tail(unspawned)
    /\ UNCHANGED <<pipeline, limit, plan, phase, opened, exits, todo, copied, captured, drained, outcome>>

\* The children already started are dropped with the result: killed, not awaited.
SpawnFails ==
    /\ phase = "spawn" /\ unspawned # <<>> /\ "spawn" \in Faults
    /\ status' = [i \in Stages |-> IF status[i] = "running" THEN "killed" ELSE status[i]]
    /\ chan' = Release(chan, Stages \union {Spawner, Supervisor})
    /\ phase' = "returned" /\ outcome' = "Platform"
    /\ UNCHANGED <<pipeline, limit, plan, opened, unspawned, exits, todo, copied, captured, drained>>

\* Mutant: the parent keeps a copy of every writing end.
KeepEndsOpenWriters(c) ==
    [chan[c] EXCEPT !.r = (@ \ {Spawner}) \union (IF c \in TaskCaptures THEN {Supervisor} ELSE {})
                                          \union {i \in Tasks : c \in Reads(i)},
                    !.w = @ \union {i \in Tasks : c \in Writes(i)}]

\* After the last child: the parent closes its copies of the ends; those it
\* declared go to the in-process stages and to the drains.
KeepEnds(c) ==
    [chan[c] EXCEPT !.r = (@ \ {Spawner}) \union (IF c \in TaskCaptures THEN {Supervisor} ELSE {})
                                          \union {i \in Tasks : c \in Reads(i)},
                    !.w = (@ \ {Spawner}) \union {i \in Tasks : c \in Writes(i)}]

\* Every end an in-process stage or a drain takes was declared as kept.
EndsDeclared ==
    /\ \A k \in DOMAIN plan.captures : plan.captures[k].pipe \in Graph.readers
    /\ \A i \in Tasks : /\ \A c \in Reads(i) : c[2] \in Graph.readers
                        /\ \A c \in Writes(i) : c[2] \in Graph.writers

StartSupervision ==
    /\ phase = "spawn" /\ unspawned = <<>>
    /\ phase' = (IF EndsDeclared THEN "run" ELSE "reap")
    /\ outcome' = (IF EndsDeclared THEN outcome ELSE "MissingStream")
    /\ chan' = (IF EndsDeclared THEN [c \in DOMAIN chan |-> KeepEnds(c)] ELSE Release(chan, {Spawner, Supervisor}))
    /\ status' = [i \in Stages |-> IF EndsDeclared /\ i \in Tasks THEN "running" ELSE status[i]]
    /\ UNCHANGED <<pipeline, limit, plan, opened, unspawned, exits, todo, copied, captured, drained>>

-----------------------------------------------------------------------------
(* Children                                                                *)

Ended(i, exit) ==
    /\ status' = [status EXCEPT ![i] = "exited"]
    /\ exits' = [exits EXCEPT ![i] = exit]
    /\ chan' = Release(chan, {i})
    /\ UNCHANGED <<pipeline, limit, plan, phase, opened, unspawned, todo, copied, captured, drained, outcome>>

Moved(i) ==
    UNCHANGED <<pipeline, limit, plan, phase, opened, unspawned, status, exits, copied, captured, drained, outcome>>

\* A unit to an output: blocked while the pipe is full, fatal once nobody reads.
ChildWrite(i, fd) ==
    /\ status[i] = "running" /\ todo[i][fd] > 0
    /\ LET cs == Channel(i, plan.stages[i][fd])
       IN \/ /\ \A c \in cs : chan[c].r # {} /\ chan[c].n < PipeCapacity
             /\ chan' = [c \in DOMAIN chan |-> IF c \in cs THEN [chan[c] EXCEPT !.n = @ + 1] ELSE chan[c]]
             /\ todo' = [todo EXCEPT ![i][fd] = @ - 1]
             /\ Moved(i)
          \/ /\ \E c \in cs : chan[c].r = {}
             /\ Ended(i, "signal")
ChildRead(i) ==
    /\ status[i] = "running"
    /\ \E c \in Reads(i) : chan[c].n > 0 /\ chan' = [chan EXCEPT ![c].n = @ - 1]
    /\ Moved(i) /\ UNCHANGED todo
InputEnded(i) == \A c \in Reads(i) : chan[c].n = 0 /\ chan[c].w = {}
ChildFinish(i) ==
    /\ status[i] = "running" /\ todo[i].out = 0 /\ todo[i].err = 0 /\ InputEnded(i)
    /\ \E exit \in {"ok", "fail"} : Ended(i, exit)
\* A child may stop at any time, whatever it has read or written.
ChildQuit(i) == status[i] = "running" /\ Ended(i, "fail")

ChildStep(i) == ChildWrite(i, "out") \/ ChildWrite(i, "err") \/ ChildRead(i) \/ ChildFinish(i)

-----------------------------------------------------------------------------
(* In-process stages, polled while the phase is "run"                      *)

\* A builtin runs on a clone of the state, then drops its writer.
RunStateful(i) ==
    /\ phase = "run" /\ status[i] = "running" /\ pipeline[i].kind = "stateful"
    /\ \E exit \in {"ok", "fail"} : Ended(i, exit)

Streams(i) == pipeline[i].kind = "portable" /\ pipeline[i].reads

\* cat and grep read their input piece by piece.
TaskRead(i) ==
    /\ phase = "run" /\ status[i] = "running" /\ Streams(i) /\ todo[i].held = 0
    /\ \E c \in Reads(i) : chan[c].n > 0 /\ chan' = [chan EXCEPT ![c].n = @ - 1]
    /\ copied[i] < StreamLimit
    /\ copied' = [copied EXCEPT ![i] = @ + 1]
    /\ todo' = [todo EXCEPT ![i].held = 1]
    /\ UNCHANGED <<pipeline, limit, plan, phase, opened, unspawned, status, exits, captured, drained, outcome>>
TaskOverLimit(i) ==
    /\ phase = "run" /\ status[i] = "running" /\ Streams(i) /\ todo[i].held = 0
    /\ \E c \in Reads(i) : chan[c].n > 0
    /\ copied[i] >= StreamLimit
    /\ Ended(i, "fail")

\* What a stage has to write next: a unit it copied, or one of its own.
Pending(i) == IF todo[i].held > 0 THEN "held" ELSE "out"

TaskWrite(i) ==
    /\ phase = "run" /\ status[i] = "running" /\ pipeline[i].kind = "portable" /\ todo[i][Pending(i)] > 0
    /\ \/ /\ \A c \in Writes(i) : chan[c].r # {} /\ chan[c].n < PipeCapacity
          /\ chan' = [c \in DOMAIN chan |-> IF c \in Writes(i) THEN [chan[c] EXCEPT !.n = @ + 1] ELSE chan[c]]
          /\ todo' = [todo EXCEPT ![i][Pending(i)] = @ - 1]
          /\ Moved(i)
       \/ /\ \E c \in Writes(i) : chan[c].r = {}
          /\ Ended(i, "fail")
TaskFinish(i) ==
    /\ phase = "run" /\ status[i] = "running" /\ pipeline[i].kind = "portable"
    /\ todo[i].held = 0 /\ todo[i].out = 0 /\ (Streams(i) => InputEnded(i))
    /\ \E exit \in {"ok", "fail"} : Ended(i, exit)

TaskStep(i) == RunStateful(i) \/ TaskRead(i) \/ TaskOverLimit(i) \/ TaskWrite(i) \/ TaskFinish(i)

-----------------------------------------------------------------------------
(* Supervision                                                             *)


\* The shared counter is raised only when the result stays within the limit.
CaptureAdmitted(c, k) == captured + k <= limit

DrainCapture(c) ==
    /\ phase = "run" /\ Supervisor \in chan[c].r
    /\ \E k \in 1 .. chan[c].n :
          /\ CaptureAdmitted(c, k)
          /\ captured' = captured + k
          /\ drained' = [drained EXCEPT ![c] = @ + k]
          /\ chan' = [chan EXCEPT ![c].n = @ - k]
    /\ UNCHANGED <<pipeline, limit, plan, phase, opened, unspawned, status, exits, todo, copied, outcome>>

\* try_join drops the stages and the drains; then the job is terminated.
Abort(error) ==
    /\ phase' = "reap" /\ outcome' = error
    /\ chan' = Release(chan, Tasks \union {Supervisor})
    /\ status' = [i \in Stages |-> IF i \in Tasks THEN "exited" ELSE status[i]]
    /\ UNCHANGED <<pipeline, limit, plan, opened, unspawned, exits, todo, copied, captured, drained>>
CaptureOverflow(c) ==
    /\ phase = "run" /\ Supervisor \in chan[c].r
    /\ \E k \in 1 .. chan[c].n : ~CaptureAdmitted(c, k)
    /\ Abort("CaptureLimit")
CaptureFails(c) ==
    /\ phase = "run" /\ Supervisor \in chan[c].r /\ "capture" \in Faults
    /\ Abort("Capture")

CaptureEnded(c) == chan[c].n = 0 /\ chan[c].w = {}

\* Mutant: the children are awaited before their output is drained.
ReadyToWaitBeforeDraining == \A i \in Stages : status[i] = "exited"

\* All drains saw the end of their stream and all in-process stages are done.
ReadyToWait == /\ \A c \in Captures : CaptureEnded(c)
               /\ \A i \in Tasks : status[i] = "exited"

EnterWait ==
    /\ phase = "run" /\ ReadyToWait
    /\ phase' = "wait"
    /\ chan' = Release(chan, {Supervisor})
    /\ UNCHANGED <<pipeline, limit, plan, opened, unspawned, status, exits, todo, copied, captured, drained, outcome>>

\* Mutant: the answer is given while the members are still awaited.
WaitDoneEarly ==
    /\ phase = "wait"
    /\ status' = [i \in Stages |-> IF i \in Natives THEN "reaped" ELSE status[i]]
    /\ phase' = "returned" /\ outcome' = "Ok"
    /\ UNCHANGED <<pipeline, limit, plan, opened, unspawned, exits, chan, todo, copied, captured, drained>>

WaitDone ==
    /\ phase = "wait" /\ \A i \in Natives : status[i] = "exited"
    /\ status' = [i \in Stages |-> IF i \in Natives THEN "reaped" ELSE status[i]]
    /\ phase' = "returned" /\ outcome' = "Ok"
    /\ UNCHANGED <<pipeline, limit, plan, opened, unspawned, exits, chan, todo, copied, captured, drained>>
\* A single native command is awaited while its output is drained.
WaitFails ==
    /\ phase = "wait" \/ (phase = "run" /\ Len(pipeline) = 1)
    /\ Natives # {} /\ "wait" \in Faults
    /\ Abort("Platform")

\* terminate_and_reap_processes: every member is killed, then every one awaited.
ReapComplete == \A i \in Natives : status[i] = "reaped"
Kill(i) ==
    /\ phase = "reap" /\ i \in Natives /\ status[i] = "running"
    /\ status' = [status EXCEPT ![i] = "killed"]
    /\ chan' = Release(chan, {i})
    /\ UNCHANGED <<pipeline, limit, plan, phase, opened, unspawned, exits, todo, copied, captured, drained, outcome>>
Reap(i) ==
    /\ phase = "reap" /\ i \in Natives /\ status[i] \in {"killed", "exited"}
    /\ \A j \in Natives : status[j] # "running"
    /\ status' = [status EXCEPT ![i] = "reaped"]
    /\ UNCHANGED <<pipeline, limit, plan, phase, opened, unspawned, exits, chan, todo, copied, captured, drained, outcome>>
ReturnError ==
    /\ phase = "reap" /\ ReapComplete
    /\ phase' = "returned"
    /\ UNCHANGED <<pipeline, limit, plan, opened, unspawned, status, exits, chan, todo, copied, captured, drained, outcome>>

Supervise ==
    \/ Validate \/ OpenFile \/ AllOpen \/ Spawn \/ StartSupervision
    \/ \E c \in Captures : DrainCapture(c) \/ CaptureOverflow(c)
    \/ EnterWait \/ WaitDone
    \/ \E i \in Natives : Kill(i) \/ Reap(i)
    \/ ReturnError
Fault == OpenFails \/ SpawnFails \/ WaitFails \/ (\E c \in Captures : CaptureFails(c)) \/ (\E i \in Natives : ChildQuit(i))
Finished == phase = "returned" /\ UNCHANGED vars

Next == Supervise \/ Fault \/ (\E i \in Natives : ChildStep(i)) \/ (\E i \in Tasks : TaskStep(i)) \/ Finished

\* The runtime polls every part that is ready; a child that is neither
\* blocked nor finished goes on.
Fairness ==
    /\ WF_vars(Validate \/ OpenFile \/ AllOpen \/ Spawn \/ StartSupervision \/ EnterWait \/ WaitDone \/ ReturnError)
    /\ \A i \in 1 .. Width :
          /\ WF_vars(i \in Natives /\ ChildStep(i))
          /\ WF_vars(i \in Tasks /\ TaskStep(i))
          /\ WF_vars(i \in Natives /\ (Kill(i) \/ Reap(i)))
    /\ WF_vars(\E c \in Captures : DrainCapture(c) \/ CaptureOverflow(c))

Spec == Init /\ [][Next]_vars
LiveSpec == Spec /\ Fairness

-----------------------------------------------------------------------------
Phases == {"check", "open", "spawn", "run", "wait", "reap", "returned"}
TypeOK ==
    /\ pipeline \in Pipelines /\ limit \in CaptureLimits /\ phase \in Phases
    /\ opened \in 0 .. Len(plan.order)
    /\ status \in [Stages -> {"idle", "running", "exited", "killed", "reaped"}]
    /\ exits \in [Stages -> {"none", "ok", "fail", "signal"}]
    /\ \A c \in DOMAIN chan : chan[c].n \in 0 .. PipeCapacity
    /\ outcome \in {"none", "Ok", "Invalid", "Redirection", "Platform", "MissingStream", "CaptureLimit", "Capture"}

\* No child starts before the last file of the whole pipeline is open, so a
\* redirection that fails in any stage leaves no process behind (process.rs
\* spawn_native_graph_with_parent_io).
EffectsOrdered ==
    /\ (\E i \in Stages : status[i] # "idle") => opened = Len(plan.order)
    /\ outcome = "Redirection" => \A i \in Stages : status[i] = "idle"

\* The buffers never hold more than the remaining allowance, all streams of
\* all stages together (execution.rs capture_process_stream).
CaptureBounded == FoldSet(LAMBDA c, sum : sum + drained[c], 0, Captures) <= limit

\* A pipeline that succeeds has lost nothing: every unit that its stages sent
\* to a captured stream is in the returned buffers, and every stage has its
\* own exit (execution.rs run_pipeline).
NothingLost ==
    outcome = "Ok" =>
        /\ \A i \in Stages : exits[i] # "none"
        /\ \A c \in Captures :
              drained[c] = FoldSet(LAMBDA i, sum : sum
                               + (IF c \in Channel(i, plan.stages[i].out) THEN pipeline[i].out - todo[i].out + copied[i] - todo[i].held ELSE 0)
                               + (IF c \in Channel(i, plan.stages[i].err) THEN pipeline[i].err - todo[i].err ELSE 0), 0, Stages)

\* When the shell gets its answer no member is still running, and unless
\* starting a child failed every member has been awaited (process.rs
\* NativeProcessJob wait and terminate_and_reap, Drop of ProcessHandle).
NoneLeftBehind ==
    phase = "returned" =>
        /\ \A i \in Natives : status[i] # "running"
        /\ unspawned = <<>> => \A i \in Natives : status[i] \in {"reaped", "idle"}

\* Every plan passes the checks, and every stream that an in-process stage or
\* a drain takes was kept for it (execution.rs take_parent_task_reader,
\* take_parent_task_writer).
StreamsPresent == outcome \notin {"Invalid", "MissingStream"}


\* What docs/portable-human-shell.md says of setup failures: every native
\* process tree is terminated and reaped.
SetupFailureReaps == phase = "returned" => \A i \in Natives : status[i] \in {"reaped", "idle"}

Stream(c) == IF c[1] = "capture" THEN c[3]
             ELSE (CHOOSE k \in ToSet(plan.captures) : k.pipe = c[2]).stream
Total(stream) == FoldSet(LAMBDA c, sum : sum + drained[c], 0, {c \in Captures : Stream(c) = stream})

\* The classes of error that the interpreter tells apart.
Answer ==
    CASE phase # "returned" -> [result |-> "none"]
      [] outcome = "Ok" -> [result |-> "Ok", exits |-> exits, out |-> Total("stdout"), err |-> Total("stderr")]
      [] outcome \in {"CaptureLimit", "Redirection"} -> [result |-> outcome]
      [] OTHER -> [result |-> "Failed"]

Runner == INSTANCE CommandRunner WITH
              stages <- Len(pipeline), answer <- Answer,
              live <- {i \in Natives : status[i] = "running"}

\* A run of a pipeline is a run of the abstract command runner: the promise
\* on which the script interpreter is built (execution.rs trait
\* NativeCommandRunner).
RefinesCommandRunner == Runner!Spec

\* The pipeline always ends: no stage waits for input that cannot come or for
\* room that nobody will make (execution.rs run_pipeline, process.rs drop of
\* the parent's pipe ends).
Termination == <>(phase = "returned")
=============================================================================
