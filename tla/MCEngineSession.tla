--------------------------- MODULE MCEngineSession ---------------------------
EXTENDS EngineSession

TwoProgram == {"p1", "p2"}
OneSession == [p \in TwoProgram |-> "s1"]
TwoTask    == {"t1", "t2"}

\* Two requests with one identifier; the first is a batch of two nodes.
SharedId    == [p \in TwoProgram |-> 1]
BatchParent == [t \in TwoTask |-> "p1"]
BatchScript == [t \in TwoTask |-> NodeScript(IF t = "t1" THEN RefScript ELSE ExecScript)]

\* Two requests with an operation each that holds one permit and asks for another.
OwnId      == [p \in TwoProgram |-> IF p = "p1" THEN 1 ELSE 2]
LeafParent == [t \in TwoTask |-> IF t = "t1" THEN "p1" ELSE "p2"]
LeafPair   == [t \in TwoTask |-> IF t = "t1" THEN LeafScript ELSE MaterializeScript]

One == [k \in Kind |-> 1]
\* Several programs and nodes, one worker of each other kind.
Narrow == [k \in Kind |-> IF k \in {"Program", "Node"} THEN 2 ELSE 1]
Two == [k \in Kind |-> 2]
=============================================================================
