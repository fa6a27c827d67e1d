----------------------------- MODULE RpcGateway -----------------------------
(***************************************************************************)
(* A session of `ash rpc` (ash-cli rpc.rs, execution.rs; ash-protocol      *)
(* frame.rs): one loop reads frames, spawns a task per request, and writes *)
(* the answers in the order of their requests; the tasks run concurrently  *)
(* and share the dictionary of paths (ash-store path_dictionary.rs).       *)
(* What the tasks wait for inside the engine is module EngineSession; here *)
(* they are registered, run, name the paths of their result, and return.   *)
(***************************************************************************)
EXTENDS Naturals, Sequences, FiniteSets, SequencesExt

CONSTANTS Documents,    \* what a client may send first, second...: [kind, id, target, paths, split]
          MaxUnread,    \* bound: parts of frames on the wire
          MaxInFlight, MaxPending, MaxPaths,
          MaxBroken     \* tasks that end without a response

VARIABLES loop,     \* where serve is: "flush", "select", "register", "ended"
          wire,     \* parts of frames that the client has sent and no read has taken
          sent, eof, \* how many documents, and how the input ended: "no", "clean", "cut"
          partial,  \* the part of a frame that the pending read holds
          received, \* history: the documents read
          next, output, buffered, open, fatal,
          tasks,    \* sequence number to task
          active,   \* the session's registered request identifiers and their cancellation
          dict,     \* path to identifier
          written, broken
gatewayVars == <<loop, wire, sent, eof, partial, received, next, output, buffered, open, fatal, tasks, active, dict, written, broken>>

GatewayInit ==
    /\ loop = "flush" /\ wire = <<>> /\ sent = 0 /\ eof = "no" /\ partial = "none" /\ received = <<>>
    /\ next = 0 /\ output = 0 /\ buffered = << >> /\ open = TRUE /\ fatal = FALSE /\ tasks = << >> /\ active = << >>
    /\ dict = << >> /\ written = <<>> /\ broken = 0

Only(f, S) == [x \in DOMAIN f \cap S |-> f[x]]
With(f, x, v) == [y \in DOMAIN f \cup {x} |-> IF y = x THEN v ELSE f[y]]
Response(id, kind) == [id |-> id, kind |-> kind, ids |-> {}, introduced |-> {}]

-----------------------------------------------------------------------------
(* The client and the frames                                               *)

Half(d, part) == [doc |-> d, part |-> part]

\* A frame arrives in one part, or in two when it is split.
ClientSends ==
    /\ eof = "no" /\ sent < Len(Documents) /\ Len(wire) < MaxUnread /\ sent' = sent + 1
    /\ \E d \in Documents[sent + 1] : wire' = wire \o (IF d.split THEN <<Half(d, "head"), Half(d, "tail")>> ELSE <<Half(d, "whole")>>)
    /\ UNCHANGED <<loop, eof, partial, received, next, output, buffered, open, fatal, tasks, active, dict, written, broken>>

\* The input ends between two frames, or inside one.
ClientCloses ==
    /\ eof = "no"
    /\ \/ eof' = "clean" /\ UNCHANGED wire
       \/ eof' = "cut" /\ wire' = Append(wire, Half(CHOOSE d \in Documents[1] : TRUE, "head"))
    /\ UNCHANGED <<loop, sent, partial, received, next, output, buffered, open, fatal, tasks, active, dict, written, broken>>

-----------------------------------------------------------------------------
(* The loop of serve                                                       *)

\* Mutant: the loop also waits for the answers of a session that failed.
FlushWaits ==
    LET until == CHOOSE n \in output .. next : (\A k \in output .. n - 1 : k \in DOMAIN buffered) /\ n \notin DOMAIN buffered
        ready == [i \in 1 .. until - output |-> buffered[output + i - 1]]
    IN /\ loop = "flush"
       /\ IF fatal THEN UNCHANGED <<written, buffered, output>>
          ELSE written' = written \o ready /\ output' = until /\ buffered' = Only(buffered, DOMAIN buffered \ (output .. until))
       /\ loop' = IF ~open /\ DOMAIN tasks = {} /\ DOMAIN buffered' = {} THEN "ended" ELSE "select"
       /\ UNCHANGED <<wire, sent, eof, partial, received, next, open, fatal, tasks, active, dict, broken>>

\* flush_ready writes every answer that is next in order; then the loop ends or selects.
Flush ==
    LET until == CHOOSE n \in output .. next : (\A k \in output .. n - 1 : k \in DOMAIN buffered) /\ n \notin DOMAIN buffered
        ready == [i \in 1 .. until - output |-> buffered[output + i - 1]]
    IN /\ loop = "flush"
       /\ IF fatal THEN UNCHANGED <<written, buffered, output>>
          ELSE written' = written \o ready /\ output' = until /\ buffered' = Only(buffered, DOMAIN buffered \ (output .. until))
       /\ loop' = IF ~open /\ DOMAIN tasks = {} THEN "ended" ELSE "select"
       /\ UNCHANGED <<wire, sent, eof, partial, received, next, open, fatal, tasks, active, dict, broken>>

Running == {k \in DOMAIN tasks : tasks[k].at # "returned"}
Answered(response) ==
    buffered' = With(buffered, next, response) /\ loop' = "flush" /\ UNCHANGED <<tasks, active, open, fatal>>
Fail == fatal' = TRUE /\ open' = FALSE /\ loop' = "flush"

\* cancel: registers its own identifier, then signals the target.
Cancel(d) ==
    /\ buffered' = With(buffered, next, Response(d.id, IF d.id \in DOMAIN active THEN "duplicate"
                                                       ELSE IF d.target \in DOMAIN active THEN "signaled" ELSE "not active"))
    /\ active' = IF d.id \notin DOMAIN active /\ d.target \in DOMAIN active THEN [active EXCEPT ![d.target] = TRUE] ELSE active
    /\ loop' = "flush" /\ UNCHANGED <<tasks, open, fatal>>

\* A document was read.
Handle(d) ==
    /\ next' = next + 1 /\ received' = Append(received, d)
    /\ CASE d.kind = "cancel" -> Cancel(d)
         [] d.kind = "invalid" -> Answered(Response(d.id, "invalid"))
         [] d.kind = "opaque" -> Fail /\ UNCHANGED <<buffered, tasks, active>>
         [] d.kind = "request" /\ Cardinality(Running) >= MaxInFlight -> Answered(Response(d.id, "capacity"))
         [] OTHER -> /\ tasks' = With(tasks, next, [at |-> "new", doc |-> d, response |-> Response(d.id, "none")])
                     /\ loop' = "register" /\ UNCHANGED <<buffered, active, open, fatal>>

\* Mutant: input is read however many answers are outstanding.
CanReadAlways == open

CanRead == open /\ next - output < MaxPending

\* The read branch of select: a part of a frame, its end, or the end of the input.
Read ==
    /\ loop = "select" /\ CanRead
    /\ \/ /\ wire # <<>> /\ wire' = Tail(wire)
          /\ LET p == Head(wire) IN
             \/ /\ p.part = "head" /\ partial = "none" /\ partial' = "head"
                /\ UNCHANGED <<loop, received, next, buffered, open, fatal, tasks, active>>
             \/ /\ <<p.part, partial>> \in {<<"whole", "none">>, <<"tail", "head">>}
                /\ partial' = "none" /\ Handle(p.doc)
             \* bytes in the middle of a frame are taken for a frame
             \/ /\ p.part = "tail" /\ partial = "none"
                /\ Fail /\ UNCHANGED <<partial, received, next, buffered, tasks, active>>
       \/ /\ wire = <<>> /\ eof # "no" /\ UNCHANGED <<wire, received, next, buffered, tasks, active>>
          /\ IF partial = "none" THEN open' = FALSE /\ loop' = "flush" /\ UNCHANGED <<partial, fatal>>
             ELSE Fail /\ partial' = "none"
    /\ UNCHANGED <<sent, eof, output, dict, written, broken>>

\* The join branch of select; the read that was pending is dropped with what it held.
Join(k) ==
    /\ loop = "select" /\ k \in DOMAIN tasks /\ tasks[k].at = "returned"
    /\ tasks' = Only(tasks, DOMAIN tasks \ {k}) /\ partial' = "none"
    /\ IF tasks[k].response.kind = "none" THEN Fail /\ UNCHANGED buffered
       ELSE /\ buffered' = IF fatal THEN buffered ELSE With(buffered, k, tasks[k].response)
            /\ loop' = "flush" /\ UNCHANGED <<open, fatal>>
    /\ UNCHANGED <<wire, sent, eof, received, next, output, active, dict, written, broken>>

\* The task of the last request has registered itself, or could not.
Registered ==
    /\ loop = "register" /\ tasks[next - 1].at # "new" /\ loop' = "flush"
    /\ UNCHANGED <<wire, sent, eof, partial, received, next, output, buffered, open, fatal, tasks, active, dict, written, broken>>

-----------------------------------------------------------------------------
(* The tasks: execute_registered                                           *)

SetTask(k, at, response) == tasks' = [tasks EXCEPT ![k].at = at, ![k].response = response]
Refusal(k, why) == SetTask(k, "returned", Response(tasks[k].doc.id, why))

Register(k) ==
    LET id == tasks[k].doc.id IN
    /\ tasks[k].at = "new"
    /\ IF fatal \/ id \in DOMAIN active THEN Refusal(k, "duplicate") /\ UNCHANGED active
       ELSE active' = With(active, id, FALSE) /\ SetTask(k, "running", tasks[k].response)
    /\ UNCHANGED <<loop, wire, sent, eof, partial, received, next, output, buffered, open, fatal, dict, written, broken>>

\* intern: one batch of paths, in the order of the result, is numbered at once.
Intern(paths) ==
    LET new == paths \ DOMAIN dict
        Number(p) == IF p \in DOMAIN dict THEN dict[p] ELSE Cardinality(DOMAIN dict) + Cardinality({q \in new : q <= p})
    IN [ok |-> Cardinality(DOMAIN dict \cup paths) <= MaxPaths, dict |-> [p \in DOMAIN dict \cup paths |-> Number(p)], new |-> new]

\* The handler: cancelled before its result is projected, refused by the dictionary, or its
\* answer with the paths it is the first to name. A handler that names its paths and then
\* waits for permits (fs, ref), or retains its result (snapshot), may still fail.
Project(k) ==
    LET d == tasks[k].doc
        r == Intern(d.paths)
    IN /\ tasks[k].at = "running"
       /\ \/ (fatal \/ active[d.id]) /\ SetTask(k, "leaving", Response(d.id, "cancelled")) /\ UNCHANGED dict
          \/ ~r.ok /\ SetTask(k, "leaving", Response(d.id, "quota")) /\ UNCHANGED dict
          \/ /\ r.ok /\ dict' = r.dict
             /\ \/ SetTask(k, "leaving", [id |-> d.id, kind |-> "result", ids |-> {r.dict[p] : p \in d.paths},
                                      introduced |-> {r.dict[p] : p \in r.new}])
                \/ SetTask(k, "leaving", Response(d.id, "failed later"))
       /\ UNCHANGED <<loop, wire, sent, eof, partial, received, next, output, buffered, open, fatal, active, written, broken>>

\* The program is dropped, which unregisters it, then the slot, then the task returns.
Leave(k) ==
    /\ tasks[k].at = "leaving"
    /\ SetTask(k, "returned", tasks[k].response) /\ active' = Only(active, DOMAIN active \ {tasks[k].doc.id})
    /\ UNCHANGED <<loop, wire, sent, eof, partial, received, next, output, buffered, open, fatal, dict, written, broken>>

\* A task panics, or its response cannot be built.
Break(k) ==
    /\ tasks[k].at = "running" /\ broken < MaxBroken /\ broken' = broken + 1
    /\ SetTask(k, "returned", Response(tasks[k].doc.id, "none"))
    /\ active' = Only(active, DOMAIN active \ {tasks[k].doc.id})
    /\ UNCHANGED <<loop, wire, sent, eof, partial, received, next, output, buffered, open, fatal, dict, written>>

Serve == Flush \/ Read \/ Registered \/ \E k \in DOMAIN tasks : Join(k)
Task(k) == Register(k) \/ Project(k) \/ Leave(k)
GatewayNext == ClientSends \/ ClientCloses \/ Serve \/ \E k \in DOMAIN tasks : Task(k) \/ Break(k)

\* The runtime polls the loop and every task; handlers end (module EngineSession), and the
\* client closes its end at last.
GatewayFairness ==
    /\ WF_gatewayVars(Serve) /\ WF_gatewayVars(ClientCloses)
    /\ WF_gatewayVars(\E k \in DOMAIN tasks : Task(k))

-----------------------------------------------------------------------------
GatewayTypeOK ==
    /\ loop \in {"flush", "select", "register", "ended"} /\ partial \in {"none", "head"}
    /\ DOMAIN tasks \subseteq 0 .. next - 1 /\ DOMAIN buffered \subseteq output .. next - 1

\* "Final response frames are emitted in request-input order": the k-th answer belongs to
\* the k-th document, and after a clean end every document has its answer.
InOrder ==
    /\ Len(written) = output /\ \A k \in DOMAIN written : written[k].id = received[k].id /\ written[k].kind # "none"
    /\ loop = "ended" /\ ~fatal => Len(written) = Len(received) /\ active = << >>

\* "Both executing requests and the not-yet-emitted response window are bounded", and a
\* request is registered before the next frame is read.
Bounded ==
    /\ next - output <= MaxPending /\ Cardinality(Running) <= MaxInFlight
    /\ \A k \in DOMAIN tasks : tasks[k].at = "new" => loop = "register" /\ k = next - 1

\* A registered identifier belongs to one task under way, and no other has it.
RegisteredOnce ==
    /\ \A id \in DOMAIN active : Cardinality({k \in DOMAIN tasks : tasks[k].at \in {"running", "leaving"} /\ tasks[k].doc.id = id}) = 1
    /\ \A k \in DOMAIN tasks : tasks[k].at \in {"running", "leaving"} => tasks[k].doc.id \in DOMAIN active

\* "Identifiers are never reused during a session": a path has one number, and no two
\* answers, sent or waiting, introduce the same one.
Introduced ==
    LET responses == {<<k, written[k + 1]>> : k \in 0 .. Len(written) - 1} \cup {<<k, buffered[k]>> : k \in DOMAIN buffered}
                       \cup {<<k, tasks[k].response>> : k \in DOMAIN tasks}
    IN /\ \A p, q \in DOMAIN dict : dict[p] = dict[q] => p = q
       /\ \A r, s \in responses : r[1] # s[1] => r[2].introduced \cap s[2].introduced = {}

\* A session of the gateway answers what it read, in order, within its bounds.
GatewaySound == GatewayTypeOK /\ InOrder /\ Bounded /\ RegisteredOnce /\ Introduced

\* "The path is introduced once ... Later messages in the same session emit only" its
\* number: whoever reads the answers in order can resolve every path of every answer.
PathsResolved ==
    \A k \in DOMAIN written : written[k].ids \subseteq UNION {written[j].introduced : j \in 1 .. k}

\* The session ends once its client has closed the input: serve waits for every task
\* (rpc.rs serve, JoinSet), whatever was cancelled or broken.
GatewayEnds == <>(loop = "ended")

\* "EOF inside a frame terminates the session with a framing error": an error of the session
\* is one that the client or a task made, never one of the gateway's own reading.
FramesIntact == fatal /\ broken = 0 => eof = "cut" \/ \E k \in DOMAIN received : received[k].kind = "opaque"
=============================================================================
