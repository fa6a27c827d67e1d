----------------------------- MODULE ResultStore -----------------------------
(***************************************************************************)
(* The session's store of retained results (ash-store result_store.rs):    *)
(* streams are captured in memory, spill to a file under a reservation of  *)
(* the byte quota, and are committed together under numeric aliases.       *)
(* Clients are the tasks of concurrent requests; every await of a capture  *)
(* is a point where other clients move or the task is dropped.             *)
(* Bytes are model values, so equal digests mean equal contents.           *)
(***************************************************************************)
EXTENDS Integers, Sequences, FiniteSets, Sums

CONSTANTS Clients, Streams,  \* a client captures every stream in Streams, 1 .. n
          Bytes,
          Chunks,            \* what a stream delivers at one time: sequences of bytes
          Groups,            \* what retain_many keeps at one time: sequences of these
          MaxBytes, MaxEntries, MemoryLimit,
          MaxLength, MaxAlias, MaxFaults   \* bounds of the instance
ASSUME LimitsAssumption == {MaxBytes, MaxEntries, MemoryLimit, MaxLength, MaxFaults} \subseteq Nat /\ MaxAlias \in Nat \ {0}
ASSUME ClientsAssumption == IsFiniteSet(Clients) /\ IsFiniteSet(Streams) /\ Streams = 1 .. Cardinality(Streams)
ASSUME BytesAssumption == Chunks \subseteq Seq(Bytes) /\ Groups \subseteq Seq(Seq(Bytes))

VARIABLES store,   \* [next, bytes, pending, aliases, contents]: State
          capture, \* client and stream to StoreCapture, CapturedContent or none
          lease,   \* the alias a client holds a ResultLease of, or none
          spool,   \* the spool files: id to bytes
          faults
storeVars == <<store, capture, lease, spool, faults>>

None == 0
MemoryCap == IF MemoryLimit < MaxBytes THEN MemoryLimit ELSE MaxBytes
NoSample == [head |-> <<>>, next |-> <<>>, tail |-> <<>>]
Closed == [at |-> "none", data |-> <<>>, chunk |-> <<>>, file |-> None, reserved |-> 0, sample |-> NoSample]
Opened == [Closed EXCEPT !.at = "open"]

StoreInit ==
    /\ store = [next |-> 1, bytes |-> 0, pending |-> 0, aliases |-> << >>, contents |-> << >>]
    /\ capture = [c \in Clients |-> [s \in Streams |-> Closed]]
    /\ lease = [c \in Clients |-> None] /\ spool = << >> /\ faults = 0

Keep(f, S) == [x \in DOMAIN f \cap S |-> f[x]]
Put(f, x, v) == [y \in DOMAIN f \cup {x} |-> IF y = x THEN v ELSE f[y]]
\* Different names of files, one for each of 1 .. n, that no spool file has.
Fresh(n) == CHOOSE names \in [1 .. n -> (1 .. Cardinality(DOMAIN spool) + n) \ DOMAIN spool] :
                \A i, j \in 1 .. n : names[i] = names[j] => i = j
NewFile == Fresh(1)[1]
FilesOf(S) == {k.file : k \in S} \ {None}
Held(c) == {capture[c][s] : s \in Streams}
Faulty == faults < MaxFaults /\ faults' = faults + 1

-----------------------------------------------------------------------------
(* Captures                                                                *)

HeadLimit == MemoryCap \div 2
TailLimit == MemoryCap - HeadLimit
\* The head and the tail of a spilled stream that are kept for its preview; CaptureSample.
Observe(r, bytes) ==
    LET taken == IF HeadLimit - Len(r.head) < Len(bytes) THEN HeadLimit - Len(r.head) ELSE Len(bytes)
        head == r.head \o SubSeq(bytes, 1, taken)
        rest == SubSeq(bytes, taken + 1, Len(bytes))
        long == r.tail \o rest
        tail == IF Len(rest) >= TailLimit THEN SubSeq(rest, Len(rest) - TailLimit + 1, Len(rest))
                ELSE SubSeq(long, (IF Len(long) > TailLimit THEN Len(long) - TailLimit ELSE 0) + 1, Len(long))
    IN [head |-> head, next |-> IF Len(head) = HeadLimit /\ r.next = <<>> /\ taken < Len(bytes) THEN <<bytes[taken + 1]>> ELSE r.next,
        tail |-> IF TailLimit = 0 THEN r.tail ELSE tail]

\* Mutant: what a capture has reserved already is not asked of the quota again.
ReserveOwn(incoming) == store.bytes + incoming <= MaxBytes

Reserve(incoming) == store.bytes + store.pending + incoming <= MaxBytes

SetCapture(c, s, k) == capture' = [capture EXCEPT ![c][s] = k]

OpenCaptures(c) ==
    /\ \A s \in Streams : capture[c][s] = Closed
    /\ capture' = [capture EXCEPT ![c] = [s \in Streams |-> Opened]]
    /\ UNCHANGED <<store, lease, spool, faults>>

\* The first part of append, up to the write it awaits.
Append1(c, s) ==
    \E chunk \in Chunks :
      LET k == capture[c][s]
          length == Len(k.data) + Len(chunk)
          wanted == IF k.file = None THEN length ELSE Len(chunk)
      IN /\ k.at = "open" /\ length <= MaxLength
         /\ \/ /\ k.file = None /\ length <= MemoryCap
               /\ SetCapture(c, s, [k EXCEPT !.data = @ \o chunk]) /\ UNCHANGED <<store, spool, faults>>
            \/ /\ ~(k.file = None /\ length <= MemoryCap) /\ ~Reserve(wanted)
               /\ SetCapture(c, s, [k EXCEPT !.at = "failed"]) /\ UNCHANGED <<store, spool, faults>>
            \/ /\ ~(k.file = None /\ length <= MemoryCap) /\ Reserve(wanted)
               /\ store' = [store EXCEPT !.pending = @ + wanted]
               /\ IF k.file = None
                  THEN \/ /\ spool' = Put(spool, NewFile, <<>>) /\ UNCHANGED faults
                          /\ SetCapture(c, s, [k EXCEPT !.reserved = @ + wanted, !.chunk = chunk, !.at = "writing", !.file = NewFile])
                       \/ /\ Faulty /\ UNCHANGED spool                              \* no spool file
                          /\ SetCapture(c, s, [k EXCEPT !.reserved = @ + wanted, !.at = "failed"])
                  ELSE /\ SetCapture(c, s, [k EXCEPT !.reserved = @ + wanted, !.chunk = chunk, !.at = "writing"])
                       /\ UNCHANGED <<spool, faults>>
         /\ UNCHANGED lease

\* The bytes reach the file, or a part of them does and append fails.
Written(c, s) ==
    LET k == capture[c][s]
        all == k.data \o k.chunk
        head == IF k.reserved = Len(all) /\ k.sample = NoSample THEN Observe(NoSample, k.data) ELSE k.sample
    IN /\ k.at = "writing"
       /\ \/ spool' = [spool EXCEPT ![k.file] = all] /\ UNCHANGED faults
             /\ SetCapture(c, s, [k EXCEPT !.at = "open", !.data = all, !.chunk = <<>>, !.sample = Observe(head, k.chunk)])
          \/ Faulty /\ spool' = [spool EXCEPT ![k.file] = SubSeq(all, 1, Len(all) - 1)]
             /\ SetCapture(c, s, [k EXCEPT !.at = "failed"])
       /\ UNCHANGED <<store, lease>>

FinishCapture(c, s) ==
    /\ capture[c][s].at = "open"
    /\ \/ SetCapture(c, s, [capture[c][s] EXCEPT !.at = "done"]) /\ UNCHANGED faults
       \/ capture[c][s].file # None /\ Faulty /\ SetCapture(c, s, [capture[c][s] EXCEPT !.at = "failed"])
    /\ UNCHANGED <<store, lease, spool>>

\* The task is dropped, or gives up after an error: reservations and spool files go with it.
DropCaptures(c) ==
    /\ \E k \in Held(c) : k # Closed
    /\ capture' = [capture EXCEPT ![c] = [s \in Streams |-> Closed]]
    /\ store' = [store EXCEPT !.pending = @ - Total([s \in Streams |-> capture[c][s].reserved])]
    /\ spool' = Keep(spool, DOMAIN spool \ FilesOf(Held(c)))
    /\ UNCHANGED <<lease, faults>>

-----------------------------------------------------------------------------
(* Commit, lookup and release                                              *)

\* The first places of contents that the store does not hold.
FirstNew(values) ==
    {i \in DOMAIN values : values[i].data \notin DOMAIN store.contents /\ \A j \in 1 .. i - 1 : values[j].data # values[i].data}

\* f and, for the keys it does not have, the values that come with them.
Extended(f, keys, values) ==
    [x \in DOMAIN f \cup {keys[i] : i \in DOMAIN keys} |-> IF x \in DOMAIN f THEN f[x] ELSE values[CHOOSE i \in DOMAIN keys : keys[i] = x]]

\* The state retain_pending leaves for values [data, file, reserved], or why it refuses.
RetainPending(values) ==
    LET new == FirstNew(values)
        after == store.pending - Total([i \in DOMAIN values |-> values[i].reserved])
        incoming == Total([i \in new |-> Len(values[i].data)])
        alias == [i \in new |-> store.next + Cardinality({j \in new : j < i})]
        data == [i \in new |-> values[i].data]
        content == [i \in new |-> [data |-> values[i].data, file |-> values[i].file]]
    IN IF store.bytes + after + incoming > MaxBytes \/ Cardinality(DOMAIN store.aliases) + Cardinality(new) > MaxEntries
       THEN [ok |-> FALSE]
       ELSE [ok |-> TRUE, new |-> new,
             store |-> [next |-> store.next + Cardinality(new), bytes |-> store.bytes + incoming, pending |-> after,
                        aliases |-> Extended(store.aliases, alias, content),
                        contents |-> Extended(store.contents, data, alias)]]

\* The commit of values; files are the spool files with those that came with them.
Commit(values, files) ==
    LET r == RetainPending(values) IN
    IF r.ok
    THEN /\ store' = r.store /\ r.store.next <= MaxAlias
         /\ spool' = Keep(files, DOMAIN files \ FilesOf({values[i] : i \in DOMAIN values \ r.new}))
    ELSE /\ store' = [store EXCEPT !.pending = @ - Total([i \in DOMAIN values |-> values[i].reserved])]
         /\ spool' = Keep(files, DOMAIN files \ FilesOf({values[i] : i \in DOMAIN values}))

RetainCaptures(c) ==
    /\ \A s \in Streams : capture[c][s].at = "done"
    /\ Commit(capture[c], spool)
    /\ capture' = [capture EXCEPT ![c] = [s \in Streams |-> Closed]]
    /\ UNCHANGED <<lease, faults>>

\* prepare_bytes puts a large value into a file of its own.
Prepared(values) ==
    [i \in DOMAIN values |-> [data |-> values[i], reserved |-> 0,
                              file |-> IF Len(values[i]) > MemoryCap THEN Fresh(Len(values))[i] ELSE None]]

\* retain and retain_many: all the values of a batch, or none.
RetainBytes ==
    \E values \in Groups :
      LET group == Prepared(values)
          files == FilesOf({group[i] : i \in DOMAIN group})
          ContentOf(id) == group[CHOOSE i \in DOMAIN group : group[i].file = id].data
      IN /\ Commit(group, [id \in DOMAIN spool \cup files |-> IF id \in DOMAIN spool THEN spool[id] ELSE ContentOf(id)])
         /\ UNCHANGED <<capture, lease, faults>>

Get(c, a) ==
    /\ lease[c] = None /\ a \in DOMAIN store.aliases
    /\ lease' = [lease EXCEPT ![c] = a]
    /\ UNCHANGED <<store, capture, spool, faults>>

DropLease(c) ==
    /\ lease[c] # None /\ lease' = [lease EXCEPT ![c] = None]
    /\ UNCHANGED <<store, capture, spool, faults>>

CanRelease(a) == a \in DOMAIN store.aliases /\ \A c \in Clients : lease[c] # a

\* Mutant: the alias released last is the next one again.
ReleaseReuses(a) ==
    /\ CanRelease(a)
    /\ store' = [store EXCEPT !.aliases = Keep(@, DOMAIN @ \ {a}), !.bytes = @ - Len(store.aliases[a].data),
                              !.contents = Keep(@, DOMAIN @ \ {store.aliases[a].data}),
                              !.next = IF a = @ - 1 THEN a ELSE @]
    /\ spool' = Keep(spool, DOMAIN spool \ {store.aliases[a].file})
    /\ UNCHANGED <<capture, lease, faults>>

Release(a) ==
    /\ CanRelease(a)
    /\ store' = [store EXCEPT !.aliases = Keep(@, DOMAIN @ \ {a}), !.bytes = @ - Len(store.aliases[a].data),
                              !.contents = Keep(@, DOMAIN @ \ {store.aliases[a].data})]
    /\ spool' = Keep(spool, DOMAIN spool \ {store.aliases[a].file})
    /\ UNCHANGED <<capture, lease, faults>>

\* read_all and read_range of a lease: from memory or from the spool file.
Stored(content) == IF content.file = None THEN content.data ELSE spool[content.file]
ReadRange(content, offset, length) ==
    LET size == Len(content.data)
        start == IF offset < size THEN offset ELSE size
        actual == IF length < size - start THEN length ELSE size - start
    IN SubSeq(Stored(content), start + 1, start + actual)

StoreNext ==
    \/ RetainBytes
    \/ \E a \in DOMAIN store.aliases : Release(a) \/ \E c \in Clients : Get(c, a)
    \/ \E c \in Clients :
         \/ OpenCaptures(c) \/ DropCaptures(c) \/ RetainCaptures(c) \/ DropLease(c)
         \/ \E s \in Streams : Append1(c, s) \/ Written(c, s) \/ FinishCapture(c, s)

-----------------------------------------------------------------------------
StoreTypeOK ==
    /\ store.next \in 1 .. MaxAlias /\ store.bytes \in Nat /\ store.pending \in Nat
    /\ \A c \in Clients : lease[c] \in {None} \cup DOMAIN store.aliases

Captures == {<<c, s>> : c \in Clients, s \in Streams}
AliasFiles == FilesOf({store.aliases[a] : a \in DOMAIN store.aliases})

\* The accounts balance at every moment (retain_pending, reserve_u64, Drop, release): bytes
\* is what the entries hold, pending what the captures under way have reserved, together
\* they keep the quota, and content and alias name each other.
Balanced ==
    /\ store.bytes = Total([a \in DOMAIN store.aliases |-> Len(store.aliases[a].data)])
    /\ store.pending = Total([k \in Captures |-> capture[k[1]][k[2]].reserved])
    /\ store.bytes + store.pending <= MaxBytes /\ Cardinality(DOMAIN store.aliases) <= MaxEntries
    /\ \A a \in DOMAIN store.aliases : store.contents[store.aliases[a].data] = a
    /\ Cardinality(DOMAIN store.contents) = Cardinality(DOMAIN store.aliases)

\* No spool file outlives its owner and none goes before it (TempPath, ResultLease), and a
\* lease reads the bytes that were captured under its alias, range by range.
SpoolOwned ==
    /\ DOMAIN spool = AliasFiles \cup FilesOf(UNION {Held(c) : c \in Clients})
    /\ \A c \in Clients : lease[c] # None =>
          LET content == store.aliases[lease[c]]
              Upto(n) == IF n < Len(content.data) THEN n ELSE Len(content.data)
          IN \A offset, length \in 0 .. MaxLength + 1 :
                ReadRange(content, offset, length) = SubSeq(content.data, offset + 1, Upto(offset + length))

\* However a stream was cut into chunks, the sample of it is its first bytes, the byte after
\* them and its last bytes (CaptureSample::observe).
SampleExact ==
    \A c \in Clients, s \in Streams :
      LET k == capture[c][s]
          rest == SubSeq(k.data, HeadLimit + 1, Len(k.data))
      IN k.file # None /\ k.at \in {"open", "done"} =>
            k.sample = [head |-> SubSeq(k.data, 1, HeadLimit), next |-> SubSeq(rest, 1, 1),
                        tail |-> SubSeq(rest, IF Len(rest) > TailLimit THEN Len(rest) - TailLimit + 1 ELSE 1, Len(rest))]

\* The result store keeps its accounts and its files whatever is dropped or fails.
StoreSound == StoreTypeOK /\ Balanced /\ SpoolOwned /\ SampleExact

\* "Numeric aliases are never reused": an alias that was released stays unknown, one that
\* stands keeps its content (ResultStore, next_alias).
AliasesRetired ==
    [][/\ store.next <= store'.next
       /\ \A a \in 1 .. store.next - 1 : a \in DOMAIN store'.aliases =>
             a \in DOMAIN store.aliases /\ store'.aliases[a] = store.aliases[a]]_storeVars
=============================================================================
