------------------------------ MODULE BatchRun ------------------------------
(***************************************************************************)
(* A batch request: the validation of its graph (ash-protocol request.rs), *)
(* the shares of its budget (ash-ops batch.rs, ash-engine budget.rs), and  *)
(* the executor of dependency graphs (ash-engine dag.rs), which runs every *)
(* ready node concurrently. A completed node is taken up only when the     *)
(* previous one has been propagated; the queue of the propagation is a set *)
(* here, so that no order of it is relied upon.                            *)
(***************************************************************************)
EXTENDS Integers, FiniteSets, FiniteSetsExt, Sums

CONSTANTS Nodes,        \* 1 .. n: the nodes in the order of their identifiers
          Graphs,       \* the dependencies clients submit, as functions on Nodes
          Budgets,      \* [tokens, records, output]: what a request may spend
          MaxEdges,
          BaseSize, StatusSize, ReferenceSize  \* the widest encodings, in bytes
ASSUME NodesAssumption == IsFiniteSet(Nodes) /\ Nodes # {} /\ Nodes = 1 .. Cardinality(Nodes)
ASSUME GraphsAssumption == \A g \in Graphs : DOMAIN g = Nodes /\ \A n \in Nodes : IsFiniteSet(g[n])
ASSUME BudgetsAssumption == \A b \in Budgets : {b.tokens, b.records, b.output} \subseteq Nat
ASSUME SizesAssumption == BaseSize \in Nat /\ StatusSize \in Nat \ {0} /\ ReferenceSize \in Nat \ {0}

VARIABLES graph, budget,
          phase,        \* "submitted", "running", "answered"
          remaining,    \* dependencies that have not been counted yet
          spoiled,      \* a dependency did not succeed (failed_dependency)
          outcome,      \* "none", how execute_node ended, or "skipped"
          running,
          terminal,     \* settled nodes whose dependents do not know yet
          answer
batchVars == <<graph, budget, phase, remaining, spoiled, outcome, running, terminal, answer>>

\* Response with status success, another one, Status::Internal (the only one of two digits)
\* or cancelled; or no response, because it could not be built or encoded.
Fates == {"succeeded", "failed", "internal", "cancelled", "error"}
Count == Cardinality(Nodes)

BatchInit ==
    /\ graph \in Graphs /\ budget \in Budgets
    /\ phase = "submitted" /\ remaining = [n \in Nodes |-> Cardinality(graph[n])]
    /\ spoiled = [n \in Nodes |-> FALSE] /\ outcome = [n \in Nodes |-> "none"]
    /\ running = {} /\ terminal = {} /\ answer = [kind |-> "none"]

-----------------------------------------------------------------------------
(* Admission                                                               *)

\* BatchNode::validate, and that the dependencies are nodes of the request.
NodeValid(n) == Cardinality(graph[n]) <= MaxEdges /\ n \notin graph[n] /\ graph[n] \subseteq Nodes

\* The nodes visited when the ready ones are taken away as long as there are any: those in
\* every set that has each node whose dependencies it has.
Visited == {n \in Nodes : \A S \in SUBSET Nodes : (\A m \in Nodes : graph[m] \subseteq S => m \in S) => n \in S}

Validate ==
    /\ \A n \in Nodes : NodeValid(n)
    /\ Total([n \in Nodes |-> Cardinality(graph[n])]) <= MaxEdges
    /\ Visited = Nodes

PresentationLimit == IF budget.output <= 4 * budget.tokens THEN budget.output ELSE 4 * budget.tokens
Share(amount) == amount \div Count
\* preflight_response: every node has failed with the widest status and reference.
WorstSize == BaseSize + Count * (StatusSize + ReferenceSize)

Replied(r) == phase' = "answered" /\ answer' = r

Admit ==
    /\ phase = "submitted"
    /\ IF ~Validate THEN Replied([kind |-> "invalid"]) /\ UNCHANGED running
       ELSE IF 0 \in {Share(budget.tokens), Share(budget.records), Share(budget.output)} \/ WorstSize > PresentationLimit
       THEN Replied([kind |-> "budget"]) /\ UNCHANGED running
       ELSE phase' = "running" /\ running' = {n \in Nodes : remaining[n] = 0} /\ UNCHANGED answer
    /\ UNCHANGED <<graph, budget, remaining, spoiled, outcome, terminal>>

-----------------------------------------------------------------------------
(* execute_dag                                                             *)

Complete(n) ==
    /\ phase = "running" /\ terminal = {} /\ n \in running
    /\ \E end \in Fates : outcome' = [outcome EXCEPT ![n] = end]
    /\ running' = running \ {n} /\ terminal' = {n}
    /\ UNCHANGED <<graph, budget, phase, remaining, spoiled, answer>>

\* The dependents of n count it; those that wait for no other start or are skipped.
Counted(n) == [m \in Nodes |-> IF n \in graph[m] THEN remaining[m] - 1 ELSE remaining[m]]
Spoils(n) == [m \in Nodes |-> spoiled[m] \/ (n \in graph[m] /\ outcome[n] # "succeeded")]
Due(n) == {m \in Nodes : n \in graph[m] /\ Counted(n)[m] = 0}
\* Mutant: only the last dependency to settle decides.
SkippedByLast(n) == {m \in Due(n) : outcome[n] # "succeeded"}
Skipped(n) == {m \in Due(n) : Spoils(n)[m]}

Propagate(n) ==
    /\ n \in terminal
    /\ remaining' = Counted(n) /\ spoiled' = Spoils(n)
    /\ outcome' = [m \in Nodes |-> IF m \in Skipped(n) THEN "skipped" ELSE outcome[m]]
    /\ terminal' = (terminal \ {n}) \cup Skipped(n)
    /\ running' = running \cup (Due(n) \ Skipped(n))
    /\ UNCHANGED <<graph, budget, phase, answer>>

-----------------------------------------------------------------------------
(* The answer                                                              *)

Completed == {n \in Nodes : outcome[n] # "skipped"}
Position(n) == Cardinality({m \in Completed : m <= n})

\* retain_many keeps the responses of the completed nodes in their order, and each completed
\* node takes the next alias: an alias is known here by the node whose response it names.
AliasOf(n) == CHOOSE m \in Completed : Position(m) = Cardinality({k \in 1 .. n : k \in Completed})

Row(n) == [status |-> outcome[n], reference |-> IF n \in Completed THEN AliasOf(n) ELSE 0]

\* wide: the digits of the aliases. A skipped node has neither status nor reference.
RowSize(n, wide) == IF n \notin Completed THEN 2 ELSE wide + (IF outcome[n] = "internal" THEN StatusSize ELSE StatusSize - 1)
Size(wide) == BaseSize + Total([n \in Nodes |-> RowSize(n, wide)])
Fits(wide) == Count <= budget.records /\ Size(wide) <= budget.output

Finish ==
    /\ phase = "running" /\ terminal = {} /\ \A n \in Nodes : outcome[n] # "none"
    /\ LET errors == {n \in Nodes : outcome[n] = "error"} IN
       IF errors # {} THEN Replied([kind |-> "error", node |-> Min(errors)])
       ELSE \/ Replied([kind |-> "storage"])
            \/ \E wide \in 1 .. ReferenceSize :
                 Replied(IF Fits(wide) THEN [kind |-> "results", rows |-> [n \in Nodes |-> Row(n)]] ELSE [kind |-> "budget"])
    /\ UNCHANGED <<graph, budget, remaining, spoiled, outcome, running, terminal>>

BatchNext == Admit \/ Finish \/ \E n \in Nodes : Complete(n) \/ Propagate(n)

-----------------------------------------------------------------------------
(* What it implements                                                      *)

StateOf == [n \in Nodes |-> IF outcome[n] # "none" THEN outcome[n] ELSE IF n \in running THEN "running" ELSE "waiting"]

Promise == INSTANCE BatchPromise WITH state <- StateOf, reply <- answer

\* The executor with its counters keeps the promise of a batch (dag.rs, the comment of
\* execute_dag): an invalid graph has no effect, a node runs only after all its dependencies
\* succeeded and is skipped only when all have settled and one did not, the answer does not
\* depend on the order of completion, gives every node its own reference, and is never refused
\* for its size once a node has run.
BatchImplements == Promise!PromiseSpec

BatchTypeOK ==
    /\ phase \in {"submitted", "running", "answered"} /\ running \subseteq Nodes /\ terminal \subseteq Nodes
    /\ remaining \in [Nodes -> Int] /\ spoiled \in [Nodes -> BOOLEAN]
    /\ outcome \in [Nodes -> Fates \cup {"none", "skipped"}]
=============================================================================
