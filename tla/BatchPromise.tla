---------------------------- MODULE BatchPromise ----------------------------
(***************************************************************************)
(* What a batch request promises (docs/protocol.md, the comments of        *)
(* ash-engine dag.rs): a graph that is not acyclic has no effect; a node   *)
(* runs when all its dependencies have succeeded and is skipped when one   *)
(* has not; independent branches go on; when all have settled, the answer  *)
(* is the error of the first node that has one, or every node's own result *)
(* in the order of the request, whichever node was done first.             *)
(***************************************************************************)
EXTENDS Naturals

CONSTANTS Nodes,    \* 1 .. n, in the order of the request
          Fates     \* how a node may end

VARIABLES graph,    \* node to the set of its dependencies
          state,    \* "waiting", "running", "skipped" or how it ended
          reply

Acyclic == \E rank \in [Nodes -> Nodes] : \A n \in Nodes : \A d \in graph[n] : d \in Nodes /\ rank[d] < rank[n]
Settled(s, n) == s[n] \notin {"waiting", "running"}
Failed(s, n) == Settled(s, n) /\ s[n] # "succeeded"

PromiseInit == state = [n \in Nodes |-> "waiting"] /\ reply = [kind |-> "none"]

\* Any number of nodes move, each within its rights once the others have moved.
Moves(n) ==
    \/ state'[n] = state[n]
    \/ state[n] = "waiting" /\ state'[n] = "running" /\ \A d \in graph[n] : state'[d] = "succeeded"
    \/ /\ state[n] = "waiting" /\ state'[n] = "skipped"
       /\ \A d \in graph[n] : Settled(state', d)
       /\ \E d \in graph[n] : Failed(state', d)
    \/ state[n] = "running" /\ state'[n] \in Fates

Advance ==
    /\ reply.kind = "none" /\ Acyclic /\ \A n \in Nodes : Moves(n)
    /\ UNCHANGED <<graph, reply>>

\* Refused as a whole, before anything ran.
Refuse ==
    /\ reply.kind = "none" /\ \A n \in Nodes : state[n] = "waiting"
    /\ reply' \in {[kind |-> "invalid"], [kind |-> "budget"]} /\ (~Acyclic => reply'.kind = "invalid")
    /\ UNCHANGED <<graph, state>>

Errors == {n \in Nodes : state[n] = "error"}
Results == [n \in Nodes |-> [status |-> state[n], reference |-> IF state[n] = "skipped" THEN 0 ELSE n]]

\* Once nodes have run, only the store may still refuse the results, and as a whole.
Answer ==
    /\ reply.kind = "none" /\ \A n \in Nodes : Settled(state, n)
    /\ reply' \in IF Errors # {} THEN {[kind |-> "error", node |-> CHOOSE n \in Errors : \A m \in Errors : n <= m]}
                  ELSE {[kind |-> "storage"], [kind |-> "results", rows |-> Results]}
    /\ UNCHANGED <<graph, state>>

PromiseNext == Advance \/ Refuse \/ Answer
PromiseSpec == PromiseInit /\ [][PromiseNext]_<<graph, state, reply>>
=============================================================================
