----------------------------- MODULE MCServices -----------------------------
(***************************************************************************)
(* The services behind a request, each on an instance of its own: the      *)
(* result store, the gateway, a batch, the approvals and the handlers.     *)
(* They share no variable, and one of them moves in a behaviour; a gateway *)
(* that does not is a session that is over.                                *)
(***************************************************************************)
EXTENDS ResultStore, RpcGateway, BatchRun, Approvals, Handlers

VARIABLE which

MCChunks == {<<"a">>, <<"b", "a">>}
MCGroups == {<<<<"a">>>>, <<<<"a">>, <<"a">>>>, <<<<"a", "a", "b">>, <<"a">>>>}

Doc(kind, id, target, paths) == [kind |-> kind, id |-> id, target |-> target, paths |-> paths, split |-> FALSE]
Ask1 == Doc("request", 1, 0, {1, 2})
Ask2 == [Doc("request", 2, 0, {2}) EXCEPT !.split = TRUE]
Ask3 == [Ask2 EXCEPT !.paths = {3}]
Abort1 == Doc("cancel", 3, 1, {})
MCDocuments ==
    <<{Ask1}, {Ask2, Abort1, Doc("opaque", 0, 0, {})}, {Ask1, Ask2, Doc("invalid", 4, 0, {})}, {Ask3, Abort1}>>

MCNodes == 1 .. 4
\* Every graph of three nodes and one that nobody waits for, cycles included, without a loop
\* at a node; one with such a loop and one with an unknown node.
MCGraphs ==
    {g \in [MCNodes -> SUBSET (1 .. 3)] : \A n \in MCNodes : n \notin g[n]}
    \cup {[n \in MCNodes |-> IF n = 1 THEN {9} ELSE {}], [n \in MCNodes |-> IF n = 2 THEN {2} ELSE {}]}
Budget(estimate, records, bytes) == [tokens |-> estimate, records |-> records, output |-> bytes]
\* Enough; too few tokens; too few records; room for the narrow answer and not for the widest.
MCBudgets == {Budget(25, 4, 60), Budget(6, 4, 60), Budget(25, 3, 60), Budget(25, 4, 56)}

\* Actions under approval, granted, partly granted, and not allowed at all.
MCRequired == [a \in Actions |-> CASE a = "a" -> {"w"} [] a = "b" -> {"w", "r"} [] a = "c" -> {"r"} [] OTHER -> {"other"}]

MCJobs ==
    {[op |-> op, rows |-> rows, tokens |-> 9, output |-> bytes, records |-> records] :
        op \in {"fs", "patch", "materialize", "release", "ref", "read", "list", "search", "snapshot", "exec"},
        rows \in 0 .. 2, bytes \in {5, 8, 14, 30, 60}, records \in 1 .. 2}
\* The requests of each operation that pass their validation.
MCValid ==
    {j \in MCJobs : /\ j.op \in {"fs", "patch", "read"} => j.rows > 0
                    /\ j.op = "fs" => j.rows <= j.records
                    /\ j.op = "materialize" => j.rows = 1
                    /\ j.op \in {"release", "exec"} => j.rows = 0}

Init ==
    /\ which \in {"store", "gateway", "batch", "approvals", "handlers"}
    /\ StoreInit /\ ApprovalsInit
    /\ IF which = "gateway" THEN GatewayInit
       ELSE /\ loop = "ended" /\ wire = <<>> /\ sent = 0 /\ eof = "clean" /\ partial = "none" /\ received = <<>>
            /\ next = 0 /\ output = 0 /\ buffered = << >> /\ open = FALSE /\ fatal = FALSE /\ tasks = << >> /\ active = << >>
            /\ dict = << >> /\ written = <<>> /\ broken = 0
    /\ job \in (IF which = "handlers" THEN Jobs ELSE {CHOOSE j \in Jobs : TRUE}) /\ HandlersInit
    /\ graph \in (IF which = "batch" THEN Graphs ELSE {CHOOSE g \in Graphs : TRUE})
    /\ budget \in (IF which = "batch" THEN Budgets ELSE {CHOOSE b \in Budgets : TRUE}) /\ BatchInit

StoreStep == which = "store" /\ StoreNext /\ UNCHANGED <<which, gatewayVars, batchVars, approvalVars, handlerVars>>
GatewayStep == which = "gateway" /\ GatewayNext /\ UNCHANGED <<which, storeVars, batchVars, approvalVars, handlerVars>>
BatchStep == which = "batch" /\ BatchNext /\ UNCHANGED <<which, storeVars, gatewayVars, approvalVars, handlerVars>>
ApprovalsStep == which = "approvals" /\ ApprovalsNext /\ UNCHANGED <<which, storeVars, gatewayVars, batchVars, handlerVars>>
HandlersStep == which = "handlers" /\ HandlersNext /\ UNCHANGED <<which, storeVars, gatewayVars, batchVars, approvalVars>>
Next == StoreStep \/ GatewayStep \/ BatchStep \/ ApprovalsStep \/ HandlersStep

vars == <<which, storeVars, gatewayVars, batchVars, approvalVars, handlerVars>>

\* A batch and a handler end; a gateway may wait for its client.
Stopped ==
    /\ which = "gateway" \/ (which = "batch" /\ phase = "answered") \/ (which = "handlers" /\ todo = <<>>)
    /\ UNCHANGED vars

Spec == Init /\ [][Next \/ Stopped]_vars /\ GatewayFairness
=============================================================================
