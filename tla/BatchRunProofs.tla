--------------------------- MODULE BatchRunProofs ---------------------------
(***************************************************************************)
(* The executor of a batch keeps the promise of BatchPromise, for any       *)
(* number of nodes, any graphs and any budgets.                             *)
(***************************************************************************)
EXTENDS BatchRun, FiniteSetTheorems, WellFoundedInduction, TLAPS

-----------------------------------------------------------------------------
(* Counting                                                                *)

\* Every set of natural numbers that is not empty has a least element.
LEMMA LeastNat ==
    ASSUME NEW S \in SUBSET Nat, S # {}
    PROVE  \E n \in S : \A m \in S : n <= m
<1>1. IsWellFoundedOn(OpToRel(<, Nat), Nat)
    BY Zenon, NatLessThanWellFounded
<1>2. PICK n \in S : \A m \in S : ~ (<<m, n>> \in OpToRel(<, Nat))
    BY Zenon, <1>1, WFMin
<1>3. \A m \in S : ~ (m < n)
    BY Zenon, <1>2 DEF OpToRel
<1> QED
    BY <1>3

\* A sum of numbers that are at most b.
LEMMA TotalBounded ==
    ASSUME NEW D, IsFiniteSet(D), NEW b \in Nat, NEW f, DOMAIN f = D, \A x \in D : f[x] \in 0 .. b
    PROVE  Total(f) \in Nat /\ Total(f) <= Cardinality(D) * b
<1>1. Units(f) \subseteq D \X (1 .. b)
    BY DEF Units
<1>2. IsFiniteSet(1 .. b) /\ Cardinality(1 .. b) = b
    BY FS_Interval
<1>3. IsFiniteSet(D \X (1 .. b)) /\ Cardinality(D \X (1 .. b)) = Cardinality(D) * b
    BY Zenon, <1>2, FS_Product
<1>4. IsFiniteSet(Units(f)) /\ Cardinality(Units(f)) <= Cardinality(D) * b
    BY <1>1, <1>3, FS_Subset
<1> QED
    BY <1>4, FS_CardinalityType DEF Total

\* The nodes are numbered from 1 on.
LEMMA NodesNumbered == Count \in Nat \ {0} /\ Nodes = 1 .. Count /\ Nodes \subseteq Nat
<1>1. Count \in Nat
    BY NodesAssumption, FS_CardinalityType DEF Count
<1>2. Nodes = 1 .. Count /\ Nodes # {}
    BY NodesAssumption DEF Count
<1> QED
    BY <1>1, <1>2

-----------------------------------------------------------------------------
(* The graph                                                               *)

\* D is a set of nodes with all their dependencies, and r numbers them in an order in which
\* they can run.
Ranked(D, r) ==
    /\ r \in [D -> 1 .. Cardinality(D)]
    /\ \A n \in D : graph[n] \subseteq D /\ \A d \in graph[n] : r[d] < r[n]

\* A ranked set that is not all of the visited nodes can be extended by a node.
LEMMA RankedGrows ==
    ASSUME Visited = Nodes, NEW D \in SUBSET Nodes, D # Nodes, NEW r, Ranked(D, r)
    PROVE  \E m \in Nodes \ D : \E q : Ranked(D \cup {m}, q)
<1>1. PICK x \in Nodes : x \notin D
    OBVIOUS
<1>2. x \in Visited
    BY <1>1
<1>3. PICK m \in Nodes : graph[m] \subseteq D /\ m \notin D
    BY <1>1, <1>2 DEF Visited
<1> DEFINE E == D \cup {m}
           q == [y \in E |-> IF y = m THEN Cardinality(D) + 1 ELSE r[y]]
<1>4. IsFiniteSet(D)
    BY NodesAssumption, FS_Subset
<1>5. Cardinality(D) \in Nat /\ Cardinality(E) = Cardinality(D) + 1
    BY <1>3, <1>4, FS_AddElement, FS_CardinalityType
<1>6. \A y \in D : r[y] \in 1 .. Cardinality(D)
    BY DEF Ranked
<1>7. q \in [E -> 1 .. Cardinality(E)]
    BY <1>5, <1>6
<1>8. \A n \in E : graph[n] \subseteq E /\ \A d \in graph[n] : q[d] < q[n]
  <2>1. ASSUME NEW n \in D
        PROVE  graph[n] \subseteq E /\ \A d \in graph[n] : q[d] < q[n]
      BY <1>3, <1>6 DEF Ranked
  <2>2. graph[m] \subseteq E /\ \A d \in graph[m] : q[d] < q[m]
      BY <1>3, <1>5, <1>6
  <2> QED
      BY <2>1, <2>2
<1>9. Ranked(E, q)
    BY <1>7, <1>8 DEF Ranked
<1> QED
    BY <1>3, <1>9

\* The check of validate: a graph whose nodes are all visited has no cycle.
LEMMA VisitedAcyclic ==
    ASSUME Visited = Nodes
    PROVE  Promise!Acyclic
<1> DEFINE K == {k \in Nat : \E D \in SUBSET Nodes : Cardinality(D) + k = Count /\ \E r : Ranked(D, r)}
<1>0. Count \in Nat /\ Nodes = 1 .. Count
    BY NodesNumbered
<1>1. Count \in K
  <2>1. Cardinality({}) = 0
      BY FS_EmptySet
  <2>2. Ranked({}, [x \in {} |-> 0])
      BY DEF Ranked
  <2> QED
      BY <1>0, <2>1, <2>2
<1>2. PICK k \in K : \A j \in K : k <= j
    BY Zenon, <1>1, LeastNat
<1>3. PICK D \in SUBSET Nodes : Cardinality(D) + k = Count /\ \E r : Ranked(D, r)
    OBVIOUS
<1>4. PICK r : Ranked(D, r)
    BY <1>3
<1>5. D = Nodes
  <2> SUFFICES ASSUME D # Nodes PROVE FALSE
      OBVIOUS
  <2>1. PICK m \in Nodes \ D : \E q : Ranked(D \cup {m}, q)
      BY Zenon, <1>4, RankedGrows
  <2>2. IsFiniteSet(D)
      BY NodesAssumption, FS_Subset
  <2>3. Cardinality(D) \in Nat /\ Cardinality(D \cup {m}) = Cardinality(D) + 1
      BY <2>1, <2>2, FS_AddElement, FS_CardinalityType
  <2>4. Cardinality(D) # Count
      BY <2>2, NodesAssumption, FS_Subset DEF Count
  <2>5. k - 1 \in Nat /\ Cardinality(D \cup {m}) + (k - 1) = Count
      BY <1>0, <1>3, <2>3, <2>4
  <2>6. k - 1 \in K
      BY <2>1, <2>5
  <2> QED
      BY <1>2, <2>5, <2>6
<1>6. r \in [Nodes -> Nodes]
    BY <1>0, <1>4, <1>5 DEF Ranked, Count
<1>7. \A n \in Nodes : \A d \in graph[n] : d \in Nodes /\ r[d] < r[n]
    BY <1>4, <1>5 DEF Ranked
<1> QED
    BY <1>6, <1>7 DEF Promise!Acyclic

-----------------------------------------------------------------------------
(* The inductive invariant                                                 *)

\* The nodes that have settled and whose dependents know.
Told == {n \in Nodes : outcome[n] # "none" /\ n \notin terminal}

\* What the counters of a node stand for: the dependencies it has not been told of, and
\* whether one it has been told of did not succeed.
Counters ==
    \A m \in Nodes :
        /\ remaining[m] = Cardinality(graph[m] \ Told)
        /\ spoiled[m] <=> \E d \in graph[m] \cap Told : outcome[d] # "succeeded"

\* A node starts or is skipped after it was told of all its dependencies.
Order ==
    /\ \A m \in Nodes : m \in running \/ outcome[m] # "none" => graph[m] \subseteq Told
    /\ \A m \in running : outcome[m] = "none"
    /\ \A m \in terminal : outcome[m] # "none"

\* What admission has established of the request.
Admitted ==
    /\ Validate /\ WorstSize <= PresentationLimit
    /\ 0 \notin {Share(budget.tokens), Share(budget.records), Share(budget.output)}

BatchInv ==
    /\ BatchTypeOK /\ graph \in Graphs /\ budget \in Budgets
    /\ Counters /\ Order
    /\ phase = "submitted" => outcome = [n \in Nodes |-> "none"] /\ running = {}
    /\ phase = "running" => Admitted
    /\ phase # "running" => terminal = {}
    /\ phase # "answered" => answer = [kind |-> "none"]

\* The invariant holds when a batch is submitted.
LEMMA BatchInvInit == BatchInit => BatchInv
<1> SUFFICES ASSUME BatchInit PROVE BatchInv
    OBVIOUS
<1> USE DEF BatchInit
<1>1. \A n \in Nodes : IsFiniteSet(graph[n])
    BY GraphsAssumption
<1>2. \A n \in Nodes : Cardinality(graph[n]) \in Nat
    BY <1>1, FS_CardinalityType
<1>3. BatchTypeOK
    BY <1>2 DEF BatchTypeOK
<1>4. Told = {}
    BY DEF Told
<1>5. Counters
    BY <1>4 DEF Counters
<1>6. Order
    BY DEF Order
<1> QED
    BY <1>3, <1>5, <1>6 DEF BatchInv

\* Told of one more node, what is left of the dependencies shrinks by it.
LEMMA OneLess ==
    ASSUME NEW S, NEW T, IsFiniteSet(S), NEW n \in S, n \notin T
    PROVE  Cardinality(S \ (T \cup {n})) = Cardinality(S \ T) - 1
<1>1. IsFiniteSet(S \ T) /\ n \in S \ T
    BY Zenon, FS_Difference
<1>2. S \ (T \cup {n}) = (S \ T) \ {n}
    OBVIOUS
<1> QED
    BY Zenon, <1>1, <1>2, FS_RemoveElement

\* Admission depends on the request only.
LEMMA AdmittedKept ==
    ASSUME UNCHANGED <<graph, budget>>
    PROVE  (Validate' <=> Validate) /\ (Admitted' <=> Admitted)
BY DEF Admitted, Validate, NodeValid, Visited, WorstSize, PresentationLimit, Share

\* Sizes and limits are numbers.
LEMMA SizeTypes ==
    ASSUME budget \in Budgets
    PROVE  WorstSize \in Nat /\ PresentationLimit \in Nat /\ PresentationLimit <= budget.output
<1>1. budget.output \in Nat /\ budget.tokens \in Nat
    BY BudgetsAssumption
<1>2. Count \in Nat
    BY NodesNumbered
<1> QED
    BY <1>1, <1>2, SizesAssumption DEF WorstSize, PresentationLimit

\* Validation and admission (batch.rs execute, up to execute_dag) keep the invariant.
LEMMA AdmitInv == BatchInv /\ Admit => BatchInv'
<1> SUFFICES ASSUME BatchInv, Admit PROVE BatchInv'
    OBVIOUS
<1>1. Told' = Told /\ Told = {}
    BY DEF Told, Admit, BatchInv
<1>2. Counters'
    BY <1>1 DEF Counters, Admit, BatchInv
<1>3. \A m \in Nodes : remaining[m] = 0 => graph[m] = {}
  <2>1. ASSUME NEW m \in Nodes, remaining[m] = 0 PROVE graph[m] = {}
    <3>1. IsFiniteSet(graph[m])
        BY GraphsAssumption DEF BatchInv
    <3>2. Cardinality(graph[m]) = 0
        BY <1>1, <2>1 DEF BatchInv, Counters
    <3> QED
        BY <3>1, <3>2, FS_EmptySet
  <2> QED
      BY <2>1
<1>4. BatchTypeOK'
    BY DEF BatchTypeOK, Admit, Replied, BatchInv
<1>5. Order'
    BY <1>1, <1>3 DEF Order, Admit, Replied, BatchInv
<1>6. (phase = "running" => Admitted)'
  <2>1. phase' = "running" => Admitted
    <3>1. WorstSize > PresentationLimit \/ WorstSize <= PresentationLimit
        BY SizeTypes DEF BatchInv
    <3> QED
        BY <3>1 DEF Admit, Replied, Admitted
  <2> QED
      BY <2>1, AdmittedKept DEF Admit
<1>7. (phase # "running" => terminal = {})' /\ (phase # "answered" => answer = [kind |-> "none"])'
    BY DEF Admit, Replied, BatchInv
<1>8. (phase # "submitted")'
    BY DEF Admit, Replied
<1>9. (graph \in Graphs)' /\ (budget \in Budgets)'
    BY DEF Admit, BatchInv
<1> QED
    BY <1>2, <1>4, <1>5, <1>6, <1>7, <1>8, <1>9 DEF BatchInv

\* A node that completes (execute_dag, join_next) keeps the invariant.
LEMMA CompleteInv == ASSUME NEW n \in Nodes PROVE BatchInv /\ Complete(n) => BatchInv'
<1> SUFFICES ASSUME BatchInv, Complete(n) PROVE BatchInv'
    OBVIOUS
<1>0. PICK end \in Fates : outcome' = [outcome EXCEPT ![n] = end]
    BY Zenon DEF Complete
<1>1. end # "none" /\ outcome[n] = "none"
    BY <1>0 DEF Fates, Complete, BatchInv, Order
<1>2. Told' = Told
    BY <1>0, <1>1 DEF Told, Complete, BatchInv, BatchTypeOK
<1>3. \A d \in Told : outcome'[d] = outcome[d] /\ d # n
    BY <1>0, <1>1 DEF Told, BatchInv, BatchTypeOK
<1>4. Counters'
    BY <1>2, <1>3 DEF Counters, Complete, BatchInv
<1>5. BatchTypeOK'
    BY <1>0 DEF BatchTypeOK, Complete, BatchInv
<1>6. Order'
    BY <1>0, <1>1, <1>2 DEF Order, Complete, BatchInv, BatchTypeOK
<1>7. Admitted'
    BY AdmittedKept DEF Complete, BatchInv
<1> QED
    BY <1>4, <1>5, <1>6, <1>7 DEF BatchInv, Complete

\* The nodes a propagation starts or skips have been told of everything, and were waiting.
LEMMA PropagateFacts ==
    ASSUME NEW n \in Nodes, BatchInv, Propagate(n)
    PROVE  /\ Told' = Told \cup {n} /\ n \notin Told /\ outcome[n] # "none" /\ phase = "running"
           /\ \A m \in Nodes : n \in graph[m] => outcome[m] = "none" /\ m \notin running
           /\ \A d \in Told \cup {n} : outcome'[d] = outcome[d]
           /\ \A m \in Nodes : remaining'[m] = Cardinality(graph[m] \ Told')
           /\ \A m \in Due(n) : graph[m] \subseteq Told'
           /\ \A m \in Nodes : spoiled'[m] <=> \E d \in graph[m] \cap Told' : outcome'[d] # "succeeded"
<1>1. n \notin Told /\ outcome[n] # "none" /\ phase = "running"
    BY DEF Told, Propagate, BatchInv, Order
<1>2. \A m \in Nodes : n \in graph[m] => outcome[m] = "none" /\ m \notin running
    BY <1>1 DEF BatchInv, Order
<1>3. \A m \in Skipped(n) : m \in Nodes /\ n \in graph[m] /\ m \notin Told /\ m # n
    BY <1>1, <1>2 DEF Skipped, Due, Told
<1>4. \A d \in Told \cup {n} : outcome'[d] = outcome[d]
    BY <1>3 DEF Propagate, Told
<1>5. Told' = Told \cup {n}
  <2>1. \A m \in Skipped(n) : m \in terminal' /\ m \notin Told'
      BY DEF Propagate, Told
  <2>2. \A m \in Nodes \ Skipped(n) : outcome'[m] = outcome[m] /\ (m \in terminal' <=> m \in terminal \ {n})
      BY DEF Propagate
  <2>3. \A m \in Nodes \ Skipped(n) : m \in Told' <=> m \in Told \cup {n}
      BY <1>1, <2>2 DEF Told
  <2> QED
      BY <1>3, <2>1, <2>3 DEF Told
<1>6. \A m \in Nodes : remaining'[m] = Cardinality(graph[m] \ Told')
  <2>1. ASSUME NEW m \in Nodes, n \in graph[m] PROVE remaining'[m] = Cardinality(graph[m] \ Told')
    <3>1. IsFiniteSet(graph[m])
        BY GraphsAssumption DEF BatchInv
    <3>2. Cardinality(graph[m] \ (Told \cup {n})) = Cardinality(graph[m] \ Told) - 1
        BY <1>1, <2>1, <3>1, OneLess
    <3> QED
        BY <1>5, <2>1, <3>2 DEF Propagate, Counted, BatchInv, Counters
  <2>2. ASSUME NEW m \in Nodes, n \notin graph[m] PROVE remaining'[m] = Cardinality(graph[m] \ Told')
    <3>1. graph[m] \ Told' = graph[m] \ Told
        BY <1>5, <2>2
    <3> QED
        BY <3>1, <2>2 DEF Propagate, Counted, BatchInv, Counters
  <2> QED
      BY <2>1, <2>2
<1>7. \A m \in Due(n) : graph[m] \subseteq Told'
  <2>1. ASSUME NEW m \in Due(n) PROVE graph[m] \subseteq Told'
    <3>1. m \in Nodes /\ remaining'[m] = 0
        BY DEF Due, Propagate
    <3>2. IsFiniteSet(graph[m] \ Told')
        BY Zenon, <3>1, GraphsAssumption, FS_Difference DEF BatchInv
    <3>3. graph[m] \ Told' = {}
        BY <1>6, <3>1, <3>2, FS_EmptySet
    <3> QED
        BY <3>3
  <2> QED
      BY <2>1
<1>8. \A m \in Nodes : spoiled'[m] <=> \E d \in graph[m] \cap Told' : outcome'[d] # "succeeded"
  <2>1. ASSUME NEW m \in Nodes
        PROVE  spoiled'[m] <=> \E d \in graph[m] \cap Told' : outcome'[d] # "succeeded"
    <3>1. spoiled'[m] <=> (spoiled[m] \/ (n \in graph[m] /\ outcome[n] # "succeeded"))
        BY Zenon DEF Propagate, Spoils
    <3>2. spoiled[m] <=> \E d \in graph[m] \cap Told : outcome[d] # "succeeded"
        BY Zenon DEF BatchInv, Counters
    <3> QED
        BY <1>4, <1>5, <3>1, <3>2
  <2> QED
      BY <2>1
<1> QED
    BY <1>1, <1>2, <1>4, <1>5, <1>6, <1>7, <1>8

\* Telling the dependents of a settled node (execute_dag, the terminal queue) keeps the invariant.
LEMMA PropagateInv == ASSUME NEW n \in Nodes PROVE BatchInv /\ Propagate(n) => BatchInv'
<1> SUFFICES ASSUME BatchInv, Propagate(n) PROVE BatchInv'
    OBVIOUS
<1>1. /\ Told' = Told \cup {n} /\ n \notin Told /\ outcome[n] # "none" /\ phase = "running"
      /\ \A m \in Nodes : n \in graph[m] => outcome[m] = "none" /\ m \notin running
      /\ \A m \in Nodes : remaining'[m] = Cardinality(graph[m] \ Told')
      /\ \A m \in Due(n) : graph[m] \subseteq Told'
      /\ \A m \in Nodes : spoiled'[m] <=> \E d \in graph[m] \cap Told' : outcome'[d] # "succeeded"
    BY PropagateFacts
<1>2. Counters'
    BY <1>1 DEF Counters, Propagate
<1>3. BatchTypeOK'
  <2>1. Counted(n) \in [Nodes -> Int]
      BY DEF Counted, BatchInv, BatchTypeOK
  <2>2. Spoils(n) \in [Nodes -> BOOLEAN]
      BY DEF Spoils, BatchInv, BatchTypeOK
  <2>3. Skipped(n) \subseteq Nodes /\ Due(n) \subseteq Nodes
      BY DEF Skipped, Due
  <2>4. outcome' \in [Nodes -> Fates \cup {"none", "skipped"}]
      BY DEF Propagate, BatchInv, BatchTypeOK
  <2> QED
      BY <2>1, <2>2, <2>3, <2>4 DEF BatchTypeOK, Propagate, BatchInv
<1>4. Order'
  <2>1. \A m \in Nodes : m \in Skipped(n) \/ (outcome'[m] = outcome[m] /\ m \notin Skipped(n))
      BY DEF Propagate
  <2>2. Skipped(n) \subseteq Due(n) /\ Due(n) \subseteq Nodes
      BY DEF Skipped, Due
  <2>3. \A m \in Nodes : m \in running' \/ outcome'[m] # "none" => graph[m] \subseteq Told'
      BY <1>1, <2>1, <2>2 DEF Propagate, BatchInv, Order
  <2>4. \A m \in running' : outcome'[m] = "none"
    <3>1. ASSUME NEW m \in running, m \in Due(n) PROVE FALSE
        BY <1>1, <3>1 DEF Due
    <3>2. ASSUME NEW m \in running PROVE outcome'[m] = "none"
        BY <2>1, <2>2, <3>1 DEF BatchInv, Order, BatchTypeOK
    <3>3. ASSUME NEW m \in Due(n) \ Skipped(n) PROVE outcome'[m] = "none"
        BY <1>1, <2>1 DEF Due
    <3> QED
        BY <3>2, <3>3 DEF Propagate
  <2>5. \A m \in terminal' : outcome'[m] # "none"
      BY <2>1, <2>2 DEF Propagate, BatchInv, Order, BatchTypeOK
  <2> QED
      BY <2>3, <2>4, <2>5 DEF Order, Propagate
<1>5. Admitted'
    BY <1>1, AdmittedKept DEF Propagate, BatchInv
<1> QED
    BY <1>1, <1>2, <1>3, <1>4, <1>5 DEF BatchInv, Propagate

\* Answering keeps the invariant.
LEMMA FinishInv == BatchInv /\ Finish => BatchInv'
<1> SUFFICES ASSUME BatchInv, Finish PROVE BatchInv'
    OBVIOUS
<1>1. phase' = "answered" /\ UNCHANGED <<graph, budget, remaining, spoiled, outcome, running, terminal>> /\ terminal = {}
    BY DEF Finish, Replied
<1>2. Told' = Told
    BY <1>1 DEF Told
<1> QED
    BY <1>1, <1>2 DEF BatchInv, BatchTypeOK, Counters, Order

\* Every step of a batch keeps the invariant.
LEMMA BatchInvNext == BatchInv /\ [BatchNext]_batchVars => BatchInv'
<1>1. BatchInv /\ UNCHANGED batchVars => BatchInv'
    BY AdmittedKept DEF batchVars, BatchInv, BatchTypeOK, Counters, Order, Told
<1> QED
    BY <1>1, AdmitInv, CompleteInv, PropagateInv, FinishInv DEF BatchNext

-----------------------------------------------------------------------------
(* Every step is a step of the promise                                     *)

\* How a node of the promise stands.
LEMMA Standing ==
    ASSUME NEW n \in Nodes, BatchInv
    PROVE  /\ StateOf[n] = IF outcome[n] # "none" THEN outcome[n] ELSE IF n \in running THEN "running" ELSE "waiting"
           /\ outcome[n] \in Fates \cup {"none", "skipped"}
BY DEF StateOf, BatchInv, BatchTypeOK

\* A refused request has run nothing; a graph with a cycle is refused as invalid, an admitted
\* one starts the nodes without dependencies.
LEMMA AdmitImplements ==
    BatchInv /\ BatchInv' /\ Admit => Promise!Refuse \/ Promise!Advance
<1> SUFFICES ASSUME BatchInv, BatchInv', Admit PROVE Promise!Refuse \/ Promise!Advance
    OBVIOUS
<1>1. answer = [kind |-> "none"] /\ UNCHANGED <<graph, outcome>> /\ running = {} /\ outcome = [n \in Nodes |-> "none"]
    BY DEF Admit, BatchInv
<1>2. \A n \in Nodes : StateOf[n] = "waiting"
    BY <1>1 DEF StateOf
<1>3. CASE phase' = "running"
  <2>1. Promise!Acyclic
      BY <1>3, VisitedAcyclic DEF Admit, Replied, Validate
  <2>2. UNCHANGED answer
      BY <1>3 DEF Admit, Replied
  <2>3. ASSUME NEW n \in Nodes PROVE Promise!Moves(n)
    <3>1. CASE n \in running'
      <4>1. graph[n] \subseteq Told' /\ Told' = {}
          BY <1>1, <3>1 DEF BatchInv, Order, Told
      <4>2. StateOf'[n] = "running"
          BY <1>1, <3>1 DEF StateOf
      <4> QED
          BY <1>2, <4>1, <4>2 DEF Promise!Moves
    <3>2. CASE n \notin running'
      <4>1. StateOf'[n] = "waiting"
          BY <1>1, <3>2 DEF StateOf
      <4> QED
          BY <1>2, <4>1 DEF Promise!Moves
    <3> QED
        BY <3>1, <3>2
  <2> QED
      BY <1>1, <2>1, <2>2, <2>3 DEF Promise!Advance
<1>4. CASE phase' # "running"
  <2>1. UNCHANGED running
      BY <1>4 DEF Admit, Replied
  <2>2. StateOf' = StateOf
      BY <1>1, <2>1 DEF StateOf
  <2>3. \/ answer' = [kind |-> "invalid"]
        \/ answer' = [kind |-> "budget"] /\ Validate
      BY <1>4 DEF Admit, Replied
  <2>4. Validate => Promise!Acyclic
      BY VisitedAcyclic DEF Validate
  <2> QED
      BY <1>1, <1>2, <2>2, <2>3, <2>4 DEF Promise!Refuse
<1> QED
    BY <1>3, <1>4

\* A node that completes is a node that settles in the promise.
LEMMA CompleteImplements ==
    ASSUME NEW n \in Nodes
    PROVE  BatchInv /\ BatchInv' /\ Complete(n) => Promise!Advance
<1> SUFFICES ASSUME BatchInv, BatchInv', Complete(n) PROVE Promise!Advance
    OBVIOUS
<1>1. PICK end \in Fates : outcome' = [outcome EXCEPT ![n] = end]
    BY Zenon DEF Complete
<1>2. Promise!Acyclic
    BY VisitedAcyclic DEF Complete, BatchInv, Admitted, Validate
<1>3. ASSUME NEW m \in Nodes PROVE Promise!Moves(m)
  <2>1. CASE m = n
    <3>1. StateOf[n] = "running"
        BY Standing DEF Complete, BatchInv, Order
    <3>2. StateOf'[n] \in Fates
        BY <1>1 DEF StateOf, Fates, BatchInv, BatchTypeOK
    <3> QED
        BY <2>1, <3>1, <3>2 DEF Promise!Moves
  <2>2. CASE m # n
    <3>1. StateOf'[m] = StateOf[m]
        BY <1>1, <2>2 DEF StateOf, Complete, BatchInv, BatchTypeOK
    <3> QED
        BY <3>1 DEF Promise!Moves
  <2> QED
      BY <2>1, <2>2
<1> QED
    BY <1>2, <1>3 DEF Promise!Advance, Complete, BatchInv

\* Nodes that were waiting start when all their dependencies succeeded, and are skipped when
\* all have settled and one has not succeeded; the counters alone decide it.
LEMMA PropagateImplements ==
    ASSUME NEW n \in Nodes
    PROVE  BatchInv /\ BatchInv' /\ Propagate(n) => Promise!Advance
<1> SUFFICES ASSUME BatchInv, BatchInv', Propagate(n) PROVE Promise!Advance
    OBVIOUS
<1>1. /\ Told' = Told \cup {n} /\ phase = "running"
      /\ \A m \in Nodes : n \in graph[m] => outcome[m] = "none" /\ m \notin running
      /\ \A m \in Due(n) : graph[m] \subseteq Told'
      /\ \A m \in Nodes : spoiled'[m] <=> \E d \in graph[m] \cap Told' : outcome'[d] # "succeeded"
    BY PropagateFacts
<1>2. Promise!Acyclic
    BY <1>1, VisitedAcyclic DEF BatchInv, Admitted, Validate
<1>3. \A d \in Told' : d \in Nodes /\ outcome'[d] # "none" /\ StateOf'[d] = outcome'[d]
    BY DEF Told, StateOf
<1>4. ASSUME NEW m \in Nodes PROVE Promise!Moves(m)
  <2>1. CASE m \in Due(n)
    <3>1. StateOf[m] = "waiting" /\ graph[m] \subseteq Told'
        BY <1>1, <2>1, Standing DEF Due
    <3>2. spoiled'[m] <=> m \in Skipped(n)
        BY <2>1 DEF Propagate, Skipped, BatchInv, BatchTypeOK, Spoils
    <3>3. CASE m \in Skipped(n)
      <4>1. StateOf'[m] = "skipped"
          BY <3>3 DEF StateOf, Propagate
      <4>2. \A d \in graph[m] : StateOf'[d] \notin {"waiting", "running"}
          BY <1>3, <3>1 DEF BatchInv, BatchTypeOK, Fates
      <4>3. \E d \in graph[m] : StateOf'[d] # "succeeded"
          BY <1>1, <1>3, <3>1, <3>2, <3>3
      <4> QED
          BY <3>1, <4>1, <4>2, <4>3 DEF Promise!Moves, Promise!Settled, Promise!Failed
    <3>4. CASE m \notin Skipped(n)
      <4>1. m \in running' /\ outcome'[m] = "none"
          BY <1>1, <2>1, <3>4 DEF Propagate, Due
      <4>2. StateOf'[m] = "running"
          BY <4>1 DEF StateOf
      <4>3. \A d \in graph[m] : StateOf'[d] = "succeeded"
          BY <1>1, <1>3, <3>1, <3>2, <3>4
      <4> QED
          BY <3>1, <4>2, <4>3 DEF Promise!Moves
    <3> QED
        BY <3>3, <3>4
  <2>2. CASE m \notin Due(n)
    <3>1. m \notin Skipped(n)
        BY <2>2 DEF Skipped
    <3>2. outcome'[m] = outcome[m] /\ (m \in running' <=> m \in running)
        BY <2>2, <3>1 DEF Propagate
    <3>3. StateOf'[m] = StateOf[m]
        BY <3>2 DEF StateOf
    <3> QED
        BY <3>3 DEF Promise!Moves
  <2> QED
      BY <2>1, <2>2
<1> QED
    BY <1>1, <1>2, <1>4 DEF Promise!Advance, Propagate, BatchInv

\* Counting the completed nodes up to n gives n its own response.
LEMMA OwnAlias ==
    ASSUME BatchInv, NEW n \in Completed
    PROVE  AliasOf(n) = n
<1>0. Nodes \subseteq Nat /\ Nodes = 1 .. Count /\ Count \in Nat /\ Completed \subseteq Nodes
    BY NodesNumbered DEF Completed
<1>1. IsFiniteSet(Completed)
    BY Zenon, <1>0, NodesAssumption, FS_Subset
<1> DEFINE Upto(m) == {k \in Completed : k <= m}
<1>2. \A m \in Completed : IsFiniteSet(Upto(m)) /\ Cardinality(Upto(m)) \in Nat
    BY <1>1, FS_Subset, FS_CardinalityType
<1>3. ASSUME NEW m \in Completed, NEW k \in Completed, m < k
      PROVE  Cardinality(Upto(m)) # Cardinality(Upto(k))
  <2>0. \A j \in Completed : j \in Nat
      BY <1>0
  <2>1. \A j \in Completed : j <= m => j <= k
      BY <1>3, <2>0
  <2>2. k <= k /\ ~(k <= m)
      BY <1>3, <2>0
  <2>3. Upto(m) \subseteq Upto(k) /\ Upto(m) # Upto(k)
      BY <2>1, <2>2
  <2> HIDE DEF Upto
  <2> QED
      BY <1>2, <2>3, FS_Subset
<1>4. \A m \in Completed : Position(m) = Cardinality(Upto(m))
    BY DEF Position
<1>5. \A m \in Completed : Position(m) = Position(n) => m = n
  <2> HIDE DEF Upto
  <2> QED
      BY <1>0, <1>3, <1>4
<1>6. {k \in 1 .. n : k \in Completed} = {m \in Completed : m <= n}
  <2>1. n \in Nat /\ \A k \in Completed : k \in Nat /\ k >= 1
      BY <1>0
  <2>2. \A k \in Completed : k \in 1 .. n <=> k <= n
      BY <2>1
  <2> QED
      BY <2>2
<1>7. AliasOf(n) = CHOOSE m \in Completed : Position(m) = Position(n)
    BY Zenon, <1>6 DEF AliasOf, Position
<1> QED
    BY <1>5, <1>7

\* What was reserved for the widest answer suffices for the real one.
LEMMA AnswerFits ==
    ASSUME BatchInv, phase = "running", NEW wide \in 1 .. ReferenceSize
    PROVE  Fits(wide)
<1>0. Count \in Nat \ {0} /\ IsFiniteSet(Nodes)
    BY NodesNumbered, NodesAssumption
<1>1. budget.records \in Nat /\ budget.output \in Nat /\ budget.tokens \in Nat
    BY BudgetsAssumption DEF BatchInv
<1>2. Count <= budget.records
  <2>1. budget.records \div Count # 0
      BY DEF BatchInv, Admitted, Share
  <2> QED
      BY <1>0, <1>1, <2>1
<1> DEFINE b == StatusSize + ReferenceSize
           f == [n \in Nodes |-> RowSize(n, wide)]
<1>3. b \in Nat /\ \A n \in Nodes : f[n] \in 0 .. b
    BY SizesAssumption DEF RowSize
<1>4. Total(f) \in Nat /\ Total(f) <= Count * b
  <2> HIDE DEF b, f
  <2>1. DOMAIN f = Nodes
      BY DEF f
  <2> QED
      BY <1>0, <1>3, <2>1, TotalBounded DEF Count
<1>5. Size(wide) <= WorstSize
    BY <1>0, <1>4, SizesAssumption DEF Size, WorstSize
<1>6. WorstSize <= budget.output
    BY <1>1, SizeTypes DEF BatchInv, Admitted
<1>7. Size(wide) \in Int /\ WorstSize \in Int
    BY <1>0, <1>4, SizesAssumption DEF Size, WorstSize
<1> QED
    BY <1>1, <1>2, <1>5, <1>6, <1>7 DEF Fits

\* The answer of the executor is the promised one: the first error, or every result in order.
LEMMA FinishImplements == BatchInv /\ BatchInv' /\ Finish => Promise!Answer
<1> SUFFICES ASSUME BatchInv, BatchInv', Finish PROVE Promise!Answer
    OBVIOUS
<1>1. answer = [kind |-> "none"] /\ UNCHANGED <<graph, outcome, running>> /\ \A n \in Nodes : outcome[n] # "none"
    BY DEF Finish, BatchInv
<1>2. StateOf' = StateOf /\ \A n \in Nodes : StateOf[n] = outcome[n] /\ outcome[n] \in Fates \cup {"skipped"}
    BY <1>1, Standing DEF StateOf
<1>3. \A n \in Nodes : Promise!Settled(StateOf, n)
    BY <1>2 DEF Promise!Settled, Fates
<1>4. Promise!Errors = {n \in Nodes : outcome[n] = "error"}
    BY <1>2 DEF Promise!Errors
<1>5. CASE Promise!Errors # {}
  <2>1. answer' = [kind |-> "error", node |-> Min(Promise!Errors)]
      BY <1>4, <1>5 DEF Finish, Replied
  <2> QED
      BY <1>1, <1>2, <1>3, <1>5, <2>1 DEF Promise!Answer, Min
<1>6. CASE Promise!Errors = {}
  <2>1. [n \in Nodes |-> Row(n)] = Promise!Results
    <3>1. \A n \in Nodes : Row(n) = [status |-> StateOf[n], reference |-> IF StateOf[n] = "skipped" THEN 0 ELSE n]
        BY <1>2, OwnAlias DEF Row, Completed
    <3> QED
        BY <3>1 DEF Promise!Results
  <2>2. answer' \in {[kind |-> "storage"], [kind |-> "results", rows |-> [n \in Nodes |-> Row(n)]]}
      BY <1>4, <1>6, AnswerFits DEF Finish, Replied
  <2> QED
      BY <1>1, <1>2, <1>3, <1>6, <2>1, <2>2 DEF Promise!Answer
<1> QED
    BY <1>5, <1>6

\* A submitted batch is one of the promise.
LEMMA InitImplements == BatchInit => Promise!PromiseInit
BY DEF BatchInit, Promise!PromiseInit, StateOf

\* Every step of the executor is a step of the promise or changes nothing of it.
LEMMA StepImplements ==
    BatchInv /\ BatchInv' /\ [BatchNext]_batchVars => [Promise!PromiseNext]_<<graph, StateOf, answer>>
<1>1. UNCHANGED batchVars => UNCHANGED <<graph, StateOf, answer>>
    BY DEF batchVars, StateOf
<1> QED
    BY <1>1, AdmitImplements, CompleteImplements, PropagateImplements, FinishImplements DEF BatchNext, Promise!PromiseNext

\* The executor of batches (dag.rs execute_dag with its counters, batch.rs) implements the
\* promise of a batch, whatever the number of nodes, the graphs and the budgets.
THEOREM BatchRefines == BatchInit /\ [][BatchNext]_batchVars => BatchImplements
<1>1. BatchInit /\ [][BatchNext]_batchVars => []BatchInv
    BY BatchInvInit, BatchInvNext, PTL
<1> QED
    BY <1>1, InitImplements, StepImplements, PTL DEF BatchImplements, Promise!PromiseSpec
=============================================================================
