------------------------------ MODULE Handlers ------------------------------
(***************************************************************************)
(* The handlers of the operations (ash-ops): the order in which each one   *)
(* checks its signals, takes permits, sizes and pays for its answer, acts, *)
(* and answers. A handler is the sequence of the steps it still has to     *)
(* take; the first step that fails ends it, and the error becomes the      *)
(* answer. What a transaction reports is what FileTransaction shows of it  *)
(* (OutcomeConsistent and ConflictShown).                                  *)
(*                                                                         *)
(* Sizes are in units. An answer is sized beforehand with identifiers of   *)
(* WideId digits (temporary_paths and aliases of u64::MAX); the real ones  *)
(* have 1 .. WideId.                                                       *)
(***************************************************************************)
EXTENDS Integers, Sequences

CONSTANTS Jobs,     \* [op, rows, tokens, output, records]
          EmptyWidth, RowWidth, DigestWidth, PathWidth, ErrorWidth, WideId

VARIABLES job,
          todo,                \* the steps that remain
          cancelled, expired,  \* the program's cancellation token and deadline
          known,               \* what the handler has computed
          deed,                \* what it has done outside: "none", "process", "released" or a transaction's outcome
          reply
handlerVars == <<job, todo, cancelled, expired, known, deed, reply>>

Mutations == {"fs", "patch", "materialize"}

-----------------------------------------------------------------------------
(* The scripts                                                             *)

\* Mutant: the transaction runs before its answer is paid for.
MutationScriptLate == <<"check", "inputs", "validate", "permit", "permit", "transact", "reserve", "name", "respond">>
MutationScript == <<"check", "inputs", "validate", "reserve", "name", "permit", "permit", "transact", "respond">>
MaterializeScript == <<"check", "inputs", "validate", "reserve", "name", "permit", "permit", "transact", "respond">>
PatchScript == <<"check", "records", "inputs", "permit", "permit", "prepare", "check", "decide">>
ReleaseScript == <<"check", "reserve", "release", "respond">>
RefScript == <<"check", "inputs", "permit", "compute", "check", "prefix", "charge">>
ReadScript == <<"check", "records", "permit", "permit", "compute", "check", "inline", "retain", "name", "charge">>
ListScript == <<"check", "permit", "permit", "compute", "check", "prefix", "retain", "name", "charge">>
SearchScript == <<"check", "permit", "permit", "compute", "check", "prefix", "retain", "name", "charge">>
SnapshotScript == <<"check", "inputs", "permit", "permit", "compute", "check", "compute", "check", "prefix", "name", "retain", "charge">>
ExecScript == <<"check", "inputs", "permit", "spawn", "wait", "drain">>

Script(op) ==
    [fs |-> MutationScript, materialize |-> MaterializeScript, patch |-> PatchScript, release |-> ReleaseScript,
     ref |-> RefScript, read |-> ReadScript, list |-> ListScript, search |-> SearchScript,
     snapshot |-> SnapshotScript, exec |-> ExecScript][op]

\* The errors a step of that name may end with, besides the ones its action computes.
Faults ==
    [inputs |-> {"Alias", "Quota", "StoreIo", "InvalidArgument", "NotFound"}, validate |-> {"Escape", "WrongFileType", "WorkLimit"},
     prepare |-> {"NotFound", "InvalidArgument", "WorkLimit", "Cancelled", "Filesystem"},
     compute |-> {"NotFound", "Filesystem", "WorkLimit", "Cancelled"}, transact |-> {"Journal", "Filesystem", "LockPoisoned"},
     spawn |-> {"NotFound", "Filesystem"}, wait |-> {"Io"}, drain |-> {"Io", "Quota", "StoreIo"},
     retain |-> {"Quota", "StoreIo"}, name |-> {"Paths"}, release |-> {"Alias", "InUse"}]

\* OperationError::classification: the status alone.
Classification(error) ==
    [Cancelled |-> "cancelled", Deadline |-> "timed_out", InvalidArgument |-> "invalid", WrongFileType |-> "failed",
     Escape |-> "denied", Journal |-> "failed", NotFound |-> "not_found", WorkLimit |-> "budget", OutputBudget |-> "budget",
     Budget |-> "budget", Quota |-> "budget", Alias |-> "not_found", InUse |-> "conflict", StoreIo |-> "failed",
     LockPoisoned |-> "internal", Filesystem |-> "failed", Paths |-> "internal", Response |-> "internal", Io |-> "internal"][error]

-----------------------------------------------------------------------------
(* Answers                                                                 *)

Least2(a, b) == IF a < b THEN a ELSE b
Limit == Least2(job.output, 4 * job.tokens)

\* Paths an answer of n rows names: an action of fs may have a destination.
Named(n) == IF job.op \in {"ref", "release", "exec"} THEN 0 ELSE IF job.op = "fs" THEN 2 * n ELSE n

Digests(rows) == Len(SelectSeq(rows, LAMBDA row : row.digest))
\* ids: the digits of an identifier; mapped: the paths introduced; references and their digits.
Encoded(r, ids, mapped, wide) ==
    EmptyWidth + (IF r.status = "success" THEN 0 ELSE ErrorWidth)
    + Len(r.rows) * RowWidth + Digests(r.rows) * DigestWidth
    + Named(Len(r.rows)) * ids + mapped * (ids + PathWidth)
    + (r.inner + (IF r.reference THEN 1 ELSE 0)) * wide
Widest(r) == Encoded(r, WideId, Named(Len(r.rows)), WideId)

RowValid(op, row) ==
    CASE row.state = "Skipped" -> ~row.digest
      [] row.state = "RecoveryRequired" -> row.digest \/ op # "materialize"
      [] OTHER -> row.digest

Has(rows, state) == \E i \in DOMAIN rows : rows[i].state = state

\* FinalResponse::new.
ResponseValid(r) ==
    /\ job.op \in Mutations =>
          /\ r.rows # <<>> /\ \A i \in DOMAIN r.rows : RowValid(job.op, r.rows[i])
          /\ r.status = "success" => \A i \in DOMAIN r.rows : r.rows[i].state = "Committed"
          /\ r.status = "conflict" => Has(r.rows, "Conflict")
    /\ job.op \in {"ref", "materialize", "snapshot"} => r.reference
    /\ job.op = "release" => ~r.reference
    /\ r.retained = (r.reference \/ r.inner > 0)
    /\ r.truncated => r.reference \/ r.inner > 0

RowOf(state, digest) == [state |-> state, digest |-> digest]
RowsOf(n, row) == [i \in 1 .. n |-> row]

\* failure_error, Failure::error and materialization_error.
FailureStatus(failure) ==
    [None |-> "success", Conflict |-> "conflict", Cancelled |-> "cancelled", TimedOut |-> "timed_out",
     Filesystem |-> "failed", RecoveryRequired |-> "failed"][failure]

\* make_response of filesystem.rs and patch.rs.
MutationResponse(rows, failure) ==
    [status |-> FailureStatus(failure), rows |-> rows, truncated |-> FALSE, retained |-> FALSE, reference |-> FALSE, inner |-> 0]
MaterializationResponse(rows, failure) ==
    [MutationResponse(rows, failure) EXCEPT !.retained = TRUE, !.reference = TRUE]
Reported(rows, failure) ==
    IF job.op = "materialize" THEN MaterializationResponse(rows, failure) ELSE MutationResponse(rows, failure)

Released == MutationResponse(<<>>, "None")

\* temporary_response and the final one: the first n of what was found.
Listing(n) ==
    LET cut == n < job.rows
        named == cut \/ job.op \in {"ref", "snapshot"}
    IN [status |-> "success", rows |-> RowsOf(n, RowOf("row", job.op = "snapshot")), truncated |-> cut,
        retained |-> named, reference |-> named, inner |-> 0]

\* kept: the reads too long to be shown, or the streams of a process.
Reads(kept) ==
    [status |-> "success", rows |-> RowsOf(job.rows, RowOf("row", TRUE)), truncated |-> FALSE,
     retained |-> kept > 0, reference |-> FALSE, inner |-> kept]

Process(stop, kept, reduced) ==
    [status |-> [success |-> "success", failed |-> "failed", Cancelled |-> "cancelled", TimedOut |-> "timed_out"][stop],
     rows |-> <<>>, truncated |-> reduced, retained |-> kept > 0, reference |-> FALSE, inner |-> kept]

-----------------------------------------------------------------------------
(* Steps                                                                   *)

NothingYet == [answer |-> [rows |-> <<>>], records |-> 0, mapped |-> 0, ids |-> 1, wide |-> 1, conflict |-> FALSE, stop |-> "none"]

HandlersInit ==
    /\ job \in Jobs /\ todo = Script(job.op) /\ known = NothingYet /\ deed = [kind |-> "none"] /\ reply = [kind |-> "none"]
    /\ cancelled = FALSE /\ expired = FALSE

At(step) == todo # <<>> /\ Head(todo) = step
Proceed == todo' = Tail(todo) /\ UNCHANGED reply
Then(steps) == todo' = steps /\ UNCHANGED reply
\* execute and execute_leaf_response turn the error into a response without data.
Refuse(error) == todo' = <<>> /\ reply' = [kind |-> "refused", status |-> Classification(error), at |-> Head(todo)]
Answer(r, size) == todo' = <<>> /\ reply' = [kind |-> "answered", r |-> r, size |-> size]
Signals == UNCHANGED <<job, cancelled, expired>>

\* The environment: a cancel request, the deadline.
CancelProgram == ~cancelled /\ todo # <<>> /\ cancelled' = TRUE /\ UNCHANGED <<job, todo, expired, known, deed, reply>>
Expire == ~expired /\ todo # <<>> /\ expired' = TRUE /\ UNCHANGED <<job, todo, cancelled, known, deed, reply>>

Check ==
    /\ At("check")
    /\ IF cancelled THEN Refuse("Cancelled") ELSE IF expired THEN Refuse("Deadline") ELSE Proceed
    /\ UNCHANGED <<known, deed>> /\ Signals

\* acquire: a permit that is free is taken although the deadline has passed.
Permit ==
    /\ At("permit")
    /\ IF cancelled THEN Refuse("Cancelled") ELSE Proceed \/ (expired /\ Refuse("Deadline"))
    /\ UNCHANGED <<known, deed>> /\ Signals

Records ==
    /\ At("records")
    /\ IF job.rows > job.records THEN Refuse("OutputBudget") ELSE Proceed
    /\ UNCHANGED <<known, deed>> /\ Signals

\* Steps that compute or read and may fail; a cancelled computation stops where it asks.
Work ==
    /\ \E step \in {"inputs", "validate", "compute"} :
         At(step) /\ (Proceed \/ \E e \in Faults[step] : (e = "Cancelled" => cancelled) /\ Refuse(e))
    /\ UNCHANGED <<known, deed>> /\ Signals

Chargeable(size, records) == records <= job.records /\ size <= job.output

\* reserve_response, reserve_transaction_response, reserve_materialization, and the beginning
\* of release: the widest answer is built, compared with the limit and paid for.
ReserveAnswer ==
    /\ At("reserve")
    /\ \E r \in {IF job.op = "release" THEN Released ELSE Reported(RowsOf(job.rows, RowOf("RecoveryRequired", TRUE)), "RecoveryRequired")} :
         IF ~ResponseValid(r) THEN Refuse("Response")
         ELSE IF Widest(r) > Limit THEN Refuse("OutputBudget")
         ELSE IF ~Chargeable(Widest(r), IF job.op = "release" THEN 1 ELSE job.rows) THEN Refuse("Budget") ELSE Proceed
    /\ UNCHANGED <<known, deed>> /\ Signals

\* intern_paths.
Name ==
    /\ At("name")
    /\ \/ \E e \in Faults.name : Refuse(e) /\ UNCHANGED known
       \/ \E mapped \in 0 .. Named(IF job.op \in Mutations THEN job.rows ELSE Len(known.answer.rows)), ids \in 1 .. WideId :
            Proceed /\ known' = [known EXCEPT !.mapped = mapped, !.ids = ids]
    /\ UNCHANGED deed /\ Signals

-----------------------------------------------------------------------------
(* Mutations                                                               *)

\* Skipped rows alone have no digest.
Outcome(failure, states) ==
    [kind |-> "transaction", failure |-> failure, rows |-> [i \in DOMAIN states |-> RowOf(states[i], states[i] # "Skipped")]]
Outcomes(n) ==
    {Outcome("None", RowsOf(n, "Committed"))}
    \cup {Outcome("Conflict", s) : s \in {t \in [1 .. n -> {"Skipped", "Conflict", "RolledBack"}] : \E i \in 1 .. n : t[i] = "Conflict"}}
    \cup {Outcome(f, s) : f \in {"Cancelled", "TimedOut", "Filesystem"}, s \in [1 .. n -> {"Skipped", "RolledBack"}]}
    \cup {Outcome("RecoveryRequired", s) : s \in
            {t \in [1 .. n -> {"Skipped", "Conflict", "RolledBack", "RecoveryRequired"}] : \E i \in 1 .. n : t[i] = "RecoveryRequired"}}

\* run_transaction of patch.rs answers for an error too.
PatchRows(error) ==
    IF error = "Journal" THEN [kind |-> "error", failure |-> "RecoveryRequired", rows |-> RowsOf(job.rows, RowOf("RecoveryRequired", FALSE))]
    ELSE [kind |-> "error", failure |-> "Filesystem", rows |-> RowsOf(job.rows, RowOf("Skipped", FALSE))]

Transact ==
    /\ At("transact")
    /\ \/ \E o \in Outcomes(job.rows) :
            /\ o.failure = "Cancelled" => cancelled
            /\ o.failure = "TimedOut" => expired
            /\ deed' = o /\ Proceed
       \/ \E e \in Faults.transact :
            IF job.op = "patch" THEN deed' = PatchRows(e) /\ Proceed ELSE Refuse(e) /\ UNCHANGED deed
    /\ UNCHANGED known /\ Signals

\* sizes, build_tasks and prepare_file: a stale digest is a conflict.
Prepare ==
    /\ At("prepare")
    /\ \/ \E e \in Faults.prepare : (e = "Cancelled" => cancelled) /\ Refuse(e) /\ UNCHANGED known
       \/ \E states \in [1 .. job.rows -> {"Skipped", "Conflict"}] :
            /\ known' = [known EXCEPT !.answer = Reported([i \in DOMAIN states |-> RowOf(states[i], states[i] # "Skipped")], "Conflict"),
                                      !.conflict = \E i \in DOMAIN states : states[i] = "Conflict", !.records = job.rows]
            /\ Proceed
    /\ UNCHANGED deed /\ Signals

\* emit_without_mutation, or on to the transaction.
Decide ==
    /\ At("decide")
    /\ IF ~known.conflict THEN Then(<<"reserve", "name", "transact", "respond">>)
       ELSE IF ~ResponseValid(known.answer) THEN Refuse("Response")
       ELSE IF Widest(known.answer) > Limit THEN Refuse("OutputBudget") ELSE Then(<<"name", "charge">>)
    /\ UNCHANGED <<known, deed>> /\ Signals

DropReference ==
    /\ At("release")
    /\ \/ Proceed /\ deed' = [kind |-> "released"]
       \/ \E e \in Faults.release : Refuse(e) /\ UNCHANGED deed
    /\ UNCHANGED known /\ Signals

\* The answer of a mutation has been paid for.
Respond ==
    /\ At("respond")
    /\ \E r \in {IF job.op = "release" THEN Released ELSE Reported(deed.rows, deed.failure)} :
         IF ResponseValid(r) THEN Answer(r, Encoded(r, known.ids, known.mapped, known.wide)) ELSE Refuse("Response")
    /\ UNCHANGED <<known, deed>> /\ Signals

-----------------------------------------------------------------------------
(* Queries and processes                                                   *)

\* largest_prefix, as Projections shows it (PrefixLargest).
Fitting == {n \in 0 .. Least2(job.rows, job.records) : Widest(Listing(n)) <= Limit}
Prefix ==
    /\ At("prefix")
    /\ IF Fitting = {} THEN Refuse("OutputBudget") /\ UNCHANGED known
       ELSE \E n \in Fitting :
              /\ \A m \in Fitting : m <= n
              /\ known' = [known EXCEPT !.answer = Listing(n), !.records = n] /\ Proceed
    /\ UNCHANGED deed /\ Signals

\* read.rs: any of the reads may be too long for what is left of the text budget.
Inline ==
    /\ At("inline")
    /\ \E kept \in 0 .. job.rows :
         /\ known' = [known EXCEPT !.answer = Reads(kept), !.records = job.rows]
         /\ IF Widest(Reads(kept)) > Limit THEN Refuse("OutputBudget") ELSE Proceed
    /\ UNCHANGED deed /\ Signals

Retain ==
    /\ At("retain")
    /\ IF ~known.answer.retained THEN Proceed /\ UNCHANGED known
       ELSE \/ \E wide \in 1 .. WideId : known' = [known EXCEPT !.wide = wide] /\ Proceed
            \/ \E e \in Faults.retain : Refuse(e) /\ UNCHANGED known
    /\ UNCHANGED deed /\ Signals

Spawn ==
    /\ At("spawn")
    /\ \/ Proceed /\ deed' = [kind |-> "process"]
       \/ \E e \in Faults.spawn : Refuse(e) /\ UNCHANGED deed
    /\ UNCHANGED known /\ Signals

\* select!, biased; terminate and wait when it is not the process that ended. A handle that
\* is dropped by an error kills its process.
Wait ==
    /\ At("wait")
    /\ \/ \E stop \in IF cancelled THEN {"Cancelled"} ELSE IF expired THEN {"TimedOut"} ELSE {"success", "failed"} :
            known' = [known EXCEPT !.stop = stop] /\ Proceed
       \/ \E e \in Faults.wait : Refuse(e) /\ UNCHANGED known
    /\ UNCHANGED deed /\ Signals

Finalizing == known.stop \in {"Cancelled", "TimedOut"}

\* The stdin task and the two captures are joined; a capture over its quota is reported last.
Drain ==
    /\ At("drain")
    /\ \/ Then(IF Finalizing THEN <<"show">> ELSE <<"permit", "show">>)
       \/ \E e \in Faults.drain : Refuse(e)
    /\ UNCHANGED <<known, deed>> /\ Signals

\* build_response, from the projections to the aliases.
Show ==
    /\ At("show")
    /\ \E kept \in 0 .. 2, reduced \in BOOLEAN :
         /\ reduced => kept > 0
         /\ \E r \in {Process(known.stop, kept, reduced)} :
              /\ known' = [known EXCEPT !.answer = r, !.records = 1]
              /\ IF ~ResponseValid(r) THEN Refuse("Response")
                 ELSE IF Widest(r) > Limit THEN Refuse("OutputBudget")
                 ELSE Then((IF kept > 0 THEN <<"permit", "retain">> ELSE <<>>) \o <<"charge">>)
    /\ UNCHANGED deed /\ Signals

\* The final response with its real identifiers, and charge.
Charge ==
    /\ At("charge")
    /\ \E size \in {Encoded(known.answer, known.ids, known.mapped, known.wide)} :
         IF ~ResponseValid(known.answer) THEN Refuse("Response")
         ELSE IF ~Chargeable(size, known.records) THEN Refuse("Budget") ELSE Answer(known.answer, size)
    /\ UNCHANGED <<known, deed>> /\ Signals

HandlersNext ==
    \/ CancelProgram \/ Expire
    \/ Check \/ Permit \/ Records \/ Work \/ ReserveAnswer \/ Name \/ Prepare \/ Decide \/ Transact \/ DropReference \/ Respond
    \/ Prefix \/ Inline \/ Retain \/ Spawn \/ Wait \/ Drain \/ Show \/ Charge

-----------------------------------------------------------------------------
(* Properties                                                              *)

HandlersTypeOK ==
    /\ job \in Jobs /\ cancelled \in BOOLEAN /\ expired \in BOOLEAN
    /\ deed.kind \in {"none", "transaction", "error", "released", "process"}
    /\ reply.kind \in {"none", "refused", "answered"} /\ (reply.kind # "none" => todo = <<>>)

\* What a transaction did, and that a reference was released, is in the answer.
Told ==
    reply.kind # "none" =>
        /\ deed.kind \in {"transaction", "error"} =>
              reply.kind = "answered" /\ reply.r.rows = deed.rows /\ reply.r.status = FailureStatus(deed.failure)
        /\ job.op \in Mutations /\ reply.kind = "answered" /\ Has(reply.r.rows, "Committed") => deed.kind = "transaction"
        /\ job.op = "release" => (deed.kind = "released") = (reply.kind = "answered")

Status == IF reply.kind = "refused" THEN reply.status ELSE reply.r.status
Honest == reply.kind # "none" => (Status = "cancelled" => cancelled) /\ (Status = "timed_out" => expired)

\* Nothing is refused for its size or its form after it was found to fit.
Late == reply.kind = "refused" => reply.at \notin {"respond", "charge"}
Within == reply.kind = "answered" => reply.size <= Limit /\ (job.op # "exec" => Len(reply.r.rows) <= job.records)

\* Whatever the signals, the budgets and the widths of identifiers: an outcome that changed the
\* workspace or the store reaches the client with its rows and status, an answer that was sized
\* with the widest identifiers can be built and paid for with the real ones and is within its
\* budgets, and only a cancelled or late request says it was (filesystem.rs, patch.rs,
\* reference.rs, exec.rs and the queries; projection.rs charge; response.rs new).
HandlersSound == HandlersTypeOK /\ Told /\ Honest /\ Late /\ Within

\* A process that was stopped by its cancellation or its deadline is answered with the evidence
\* of its termination, unless its output was over the quota or could not be read, shown or kept
\* (build_response, the comment before the projection of a stopped process).
Evidence ==
    reply.kind = "refused" /\ Finalizing => reply.at # "permit"
=============================================================================
