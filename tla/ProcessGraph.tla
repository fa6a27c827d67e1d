---------------------------- MODULE ProcessGraph ----------------------------
(***************************************************************************)
(* The checks that ash-platform makes on a native process graph before it  *)
(* opens a file or starts a child (process.rs).  A specification gives     *)
(* each standard stream of one process an endpoint; pipe ends that no      *)
(* process uses are declared closed or kept by the parent.                 *)
(***************************************************************************)
EXTENDS Integers, Sequences, FiniteSets, SequencesExt, Ordering

Null == <<"null">>
Pipe(id) == <<"pipe", id>>
FileEnd(id) == <<"file", id>>
Capture(stream) == <<"capture", stream>>
Reader(id) == <<"reader", id>>
Writer(id) == <<"writer", id>>

Occurrences(seq, x) == Cardinality({i \in DOMAIN seq : seq[i] = x})
PipeIn(end) == IF end[1] = "pipe" THEN {end[2]} ELSE {}

Readers(specs, id) == {i \in DOMAIN specs : specs[i].in = Pipe(id)}
Writers(specs, id) == {i \in DOMAIN specs : Pipe(id) \in {specs[i].out, specs[i].err}}

\* The identifiers the usages map has an entry for.
PipeIds(specs, closed, kept) ==
    UNION {PipeIn(specs[i].in) \union PipeIn(specs[i].out) \union PipeIn(specs[i].err) : i \in DOMAIN specs}
        \union {closed[k][2] : k \in DOMAIN closed} \union {kept[k][2] : k \in DOMAIN kept}

\* One process may write a pipe with both its outputs.
ExactlyOneOwner(specs, closed, kept, id) ==
    /\ Cardinality(Readers(specs, id)) + Occurrences(closed, Reader(id)) + Occurrences(kept, Reader(id)) = 1
    /\ Cardinality(Writers(specs, id)) + Occurrences(closed, Writer(id)) + Occurrences(kept, Writer(id)) = 1

\* The pipes from process w to process r.
Edges(specs, ids, w, r) == {id \in ids : w \in Writers(specs, id) /\ r \in Readers(specs, id)}


\* The readers that w feeds, once per pipe, in the order of the pipes.
Outgoing(specs, ids, w) ==
    LET feeding == Ascending({id \in ids : w \in Writers(specs, id) /\ Readers(specs, id) # {}})
    IN [k \in DOMAIN feeding |-> CHOOSE r \in Readers(specs, feeding[k]) : TRUE]

RECURSIVE SpawnOrder(_, _, _, _, _)
SpawnOrder(specs, ids, ready, incoming, order) ==
    IF ready = <<>> THEN order
    ELSE LET Release(left, next) ==
                 [incoming |-> [left.incoming EXCEPT ![next] = @ - 1],
                  ready |-> IF left.incoming[next] = 1 THEN Append(left.ready, next) ELSE left.ready]
             Go(left) == SpawnOrder(specs, ids, left.ready, left.incoming, Append(order, Head(ready)))
         IN Go(FoldLeft(Release, [incoming |-> incoming, ready |-> Tail(ready)], Outgoing(specs, ids, Head(ready))))

\* validate_process_graph_with_parent_pipe_ends; children start in reverse order.
ValidateGraph(specs, closed, kept) ==
    LET Order(ids, incoming) == SpawnOrder(specs, ids, Ascending({r \in DOMAIN specs : incoming[r] = 0}), incoming, <<>>)
        Incoming(ids) == [r \in DOMAIN specs |->
                             Cardinality({<<w, id>> \in (DOMAIN specs) \X ids : id \in Edges(specs, ids, w, r)})]
        Check(ids, order) ==
            IF \/ \E id \in ids : ~ExactlyOneOwner(specs, closed, kept, id)
               \/ \E p \in DOMAIN specs : Edges(specs, ids, p, p) # {}
               \/ Len(order) # Len(specs)
            THEN [ok |-> FALSE]
            ELSE [ok |-> TRUE, ids |-> ids, order |-> Reverse(order),
                  readers |-> {id \in ids : Reader(id) \in ToSet(kept)},
                  writers |-> {id \in ids : Writer(id) \in ToSet(kept)}]
        Run(ids) == Check(ids, Order(ids, Incoming(ids)))
    IN Run(PipeIds(specs, closed, kept))

Ids(files) == {files[k].id : k \in DOMAIN files}
Modes(files, end) == {files[k].mode : k \in {j \in DOMAIN files : FileEnd(files[j].id) = end}}

ValidateRedirections(spec) ==
    /\ Cardinality(Ids(spec.files)) = Len(spec.files)
    /\ spec.in[1] # "capture"
    /\ spec.in[1] = "file" => Modes(spec.files, spec.in) = {"Read"}
    /\ \A end \in {spec.out, spec.err} :
          end[1] = "file" => Modes(spec.files, end) # {} /\ Modes(spec.files, end) \subseteq {"Write", "Append"}

ValidateParentFiles(files) == Cardinality(Ids(files)) = Len(files)

\* A file of process p is <<p, id>>, a file of the parent <<0, id>>.
ValidateFileOrder(specs, parentFiles, order) ==
    LET expected == {<<p, id>> \in (DOMAIN specs) \X (0 .. Len(order)) : id \in Ids(specs[p].files)}
                        \union {<<0, id>> : id \in Ids(parentFiles)}
    IN Cardinality(expected) = Len(order) /\ ToSet(order) = expected

\* What spawn_native_graph_with_parent_io requires before any effect.
ValidatePlan(specs, closed, kept, parentFiles, order) ==
    /\ ValidateGraph(specs, closed, kept).ok
    /\ \A p \in DOMAIN specs : ValidateRedirections(specs[p])
    /\ ValidateParentFiles(parentFiles)
    /\ ValidateFileOrder(specs, parentFiles, order)

-----------------------------------------------------------------------------
\* The pairs connected by one pipe or a chain of pipes.
RECURSIVE Feeds(_, _, _)
Feeds(specs, hops, pairs) ==
    IF hops = 0 THEN pairs
    ELSE Feeds(specs, hops - 1,
               pairs \union {<<a, c>> \in (DOMAIN specs) \X (DOMAIN specs) :
                                \E b \in DOMAIN specs : <<a, b>> \in pairs /\ <<b, c>> \in pairs})

\* The graph check accepts exactly the plans in which every mentioned pipe
\* has one reading and one writing owner and no process feeds itself through
\* a chain of pipes; and it then starts every reader before its writer, each
\* process once (process.rs validate_process_graph_with_parent_pipe_ends).
GraphCheckAgrees(specs, closed, kept) ==
    LET owners(end, using) == Cardinality({p \in DOMAIN specs : using[p]})
                                + Occurrences(closed, end) + Occurrences(kept, end)
        Direct(ids) == {<<w, r>> \in (DOMAIN specs) \X (DOMAIN specs) : Edges(specs, ids, w, r) # {}}
    IN \A ids \in {PipeIds(specs, closed, kept)}, graph \in {ValidateGraph(specs, closed, kept)} :
       \A direct \in {Direct(ids)} :
       /\ graph.ok <=> /\ \A id \in ids :
                             /\ owners(Reader(id), [p \in DOMAIN specs |-> specs[p].in = Pipe(id)]) = 1
                             /\ owners(Writer(id), [p \in DOMAIN specs |-> specs[p].out = Pipe(id) \/ specs[p].err = Pipe(id)]) = 1
                       /\ \A p \in DOMAIN specs : <<p, p>> \notin Feeds(specs, Len(specs), direct)
       /\ graph.ok => /\ ToSet(graph.order) = DOMAIN specs /\ Len(graph.order) = Len(specs)
                      /\ \A <<w, r>> \in direct : \E i, j \in DOMAIN graph.order :
                             i < j /\ graph.order[i] = r /\ graph.order[j] = w
=============================================================================
