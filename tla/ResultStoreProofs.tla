------------------------- MODULE ResultStoreProofs -------------------------
(***************************************************************************)
(* The result store keeps its accounts, its files and its aliases, for any *)
(* number of clients, streams and results and any quota.                   *)
(***************************************************************************)
EXTENDS ResultStoreCaptures

-----------------------------------------------------------------------------
(* Leases and releases                                                     *)

\* Taking or returning a lease of an alias that is there keeps the invariant.
LEMMA LeaseInv ==
    ASSUME StoreInv, lease' \in [Clients -> {None} \cup DOMAIN store.aliases], UNCHANGED <<store, capture, spool>>
    PROVE  StoreInv'
<1>1. Types'
    BY DEF StoreInv, Types
<1>2. Accounts' /\ Indexed' /\ Owned' /\ Observed'
    BY DEF StoreInv, Accounts, Indexed, Owned, Observed, Lengths, Reservations
<1> QED
    BY <1>1, <1>2 DEF StoreInv

\* Releasing an alias nobody holds keeps the invariant: its bytes, its content and its file go.
LEMMA ReleaseInv ==
    ASSUME StoreInv, NEW a \in DOMAIN store.aliases, Release(a)
    PROVE  StoreInv'
<1> DEFINE D == DOMAIN store.aliases
           x == store.aliases[a]
           E == DOMAIN store.contents
<1>1. (\A c \in Clients : lease[c] # a) /\ UNCHANGED <<capture, lease>>
    BY DEF Release, CanRelease
<1>2. store' = [next |-> store.next, bytes |-> store.bytes - Len(x.data), pending |-> store.pending,
                aliases |-> Keep(store.aliases, D \ {a}), contents |-> Keep(store.contents, E \ {x.data})]
  <2> DEFINE z == store.next
             y == store.bytes
             w == store.pending
             v == store.aliases
             u == store.contents
             m == Keep(v, DOMAIN v \ {a})
             b == y - Len(v[a].data)
             e == Keep(u, DOMAIN u \ {v[a].data})
  <2>1. store = [next |-> z, bytes |-> y, pending |-> w, aliases |-> v, contents |-> u]
      BY DEF StoreInv, Types
  <2>2. store' = [store EXCEPT !.aliases = m, !.bytes = b, !.contents = e]
      BY Zenon DEF Release
  <2> HIDE DEF z, y, w, v, u, m, b, e
  <2>3. store' = [next |-> z, bytes |-> b, pending |-> w, aliases |-> m, contents |-> e]
      BY Zenon, <2>1, <2>2
  <2> QED
      BY <2>3, Zenon DEF z, y, w, v, u, m, b, e
<1>3. /\ store'.next = store.next /\ store'.bytes = store.bytes - Len(x.data) /\ store'.pending = store.pending
      /\ store'.aliases = Keep(store.aliases, D \ {a}) /\ store'.contents = Keep(store.contents, E \ {x.data})
    BY <1>2
<1>4. DOMAIN store'.aliases = D \ {a} /\ \A b \in D \ {a} : store'.aliases[b] = store.aliases[b]
    BY <1>3 DEF Keep
<1>5. DOMAIN store'.contents = E \ {x.data} /\ \A d \in E \ {x.data} : store'.contents[d] = store.contents[d]
    BY <1>3 DEF Keep
<1>6. DOMAIN spool' = DOMAIN spool \ {x.file} /\ \A f \in DOMAIN spool' : spool'[f] = spool[f]
    BY DEF Release, Keep
<1>7. /\ IsFiniteSet(D) /\ x.data \in Seq(Bytes) /\ Len(x.data) \in Nat /\ store.bytes \in Nat /\ store.pending \in Nat
      /\ \A b \in D : Len(store.aliases[b].data) \in Nat
  <2>1. \A b \in D : store.aliases[b].data \in Seq(Bytes)
      BY DEF StoreInv, Types
  <2>2. \A b \in D : Len(store.aliases[b].data) \in Nat
      BY <2>1, LenProperties
  <2> QED
      BY <2>1, <2>2, AliasesFinite DEF StoreInv, Types
<1>8. Total(Lengths') = store.bytes - Len(x.data) /\ Len(x.data) <= store.bytes
  <2> DEFINE f == Lengths
             g == Lengths'
             h == [b \in {a} |-> f[b]]
  <2>1. DOMAIN f = D /\ DOMAIN g = D \ {a} /\ (\A b \in D \ {a} : g[b] = f[b]) /\ f[a] = Len(x.data)
      BY <1>4 DEF Lengths
  <2>2. Summable(f) /\ Summable(g) /\ Summable(h)
    <3>1. IsFiniteSet(D \ {a}) /\ IsFiniteSet({a})
        BY Zenon, <1>7, FS_Singleton, FS_Difference
    <3>2. \A b \in D : f[b] \in Nat
        BY <1>7 DEF Lengths
    <3> QED
        BY <1>7, <2>1, <3>1, <3>2 DEF Summable
  <2>3. DOMAIN h = {a} /\ h[a] = f[a]
      OBVIOUS
  <2>4. Total(h) = Len(x.data)
    <3> HIDE DEF h, f
    <3> QED
        BY <1>7, <2>1, <2>3, TotalOne
  <2>5. Total(f) = Total(g) + Total(h)
    <3> HIDE DEF h, f, g
    <3> QED
        BY Zenon, <2>1, <2>2, <2>3, TotalParts
  <2>6. Total(g) \in Nat
    <3> HIDE DEF g
    <3> QED
        BY <2>2, TotalType
  <2>7. store.bytes = Total(f)
      BY DEF StoreInv, Accounts
  <2> QED
    <3> HIDE DEF h, f
    <3> QED
        BY <1>7, <2>4, <2>5, <2>6, <2>7
<1>9. Types'
  <2>1. store' = [next |-> store'.next, bytes |-> store'.bytes, pending |-> store'.pending,
                  aliases |-> store'.aliases, contents |-> store'.contents]
      BY <1>2
  <2>2. store'.bytes \in Nat
      BY <1>3, <1>7, <1>8
  <2>3. lease' \in [Clients -> {None} \cup DOMAIN store'.aliases]
      BY <1>1, <1>4 DEF StoreInv, Types
  <2> QED
      BY Zenon, <1>1, <1>3, <1>4, <2>1, <2>2, <2>3 DEF StoreInv, Types
<1>10. Accounts'
  <2>1. Reservations' = Reservations
      BY <1>1 DEF Reservations
  <2>2. Cardinality(D \ {a}) <= Cardinality(D) /\ Cardinality(D) \in Nat /\ Cardinality(D \ {a}) \in Nat
    <3>1. IsFiniteSet(D \ {a})
        BY Zenon, <1>7, FS_Difference
    <3> HIDE DEF D
    <3> QED
        BY <1>7, <3>1, FS_Subset, FS_CardinalityType
  <2>3. Cardinality(D) <= MaxEntries /\ store.bytes + store.pending <= MaxBytes /\ store.pending = Total(Reservations)
      BY DEF StoreInv, Accounts
  <2>4. Cardinality(DOMAIN store'.aliases) <= MaxEntries
    <3> HIDE DEF D
    <3> QED
        BY <1>4, <2>2, <2>3, LimitsAssumption
  <2>5. store'.bytes + store'.pending <= MaxBytes
      BY <1>3, <1>7, <1>8, <2>3, LimitsAssumption
  <2> QED
      BY <1>3, <1>8, <2>1, <2>3, <2>4, <2>5 DEF Accounts
<1>11. Indexed'
    BY <1>4, <1>5 DEF StoreInv, Indexed
<1>12. Observed'
    BY <1>1 DEF StoreInv, Observed
<1>13. Owned'
  <2>0. Owned
      BY DEF StoreInv
  <2>1. \A b, d \in DOMAIN store'.aliases : store'.aliases[b].file # None /\ store'.aliases[b].file = store'.aliases[d].file => b = d
      BY <1>4, <2>0 DEF Owned
  <2>2. \A b \in DOMAIN store'.aliases : \A c \in Clients : \A s \in Streams :
            store'.aliases[b].file # None => store'.aliases[b].file # capture'[c][s].file
      BY <1>1, <1>4, <2>0 DEF Owned
  <2>3. ASSUME NEW g
        PROVE  g \in DOMAIN spool' <=> g # None /\ \/ \E b \in DOMAIN store'.aliases : store'.aliases[b].file = g
                                                   \/ \E c \in Clients : \E s \in Streams : capture'[c][s].file = g
    <3>1. g \in DOMAIN spool <=> g # None /\ \/ \E b \in D : store.aliases[b].file = g
                                             \/ \E c \in Clients : \E s \in Streams : capture[c][s].file = g
        BY <2>0 DEF Owned
    <3>2. g # None /\ g = x.file =>
             /\ \A b \in D \ {a} : store.aliases[b].file # g
             /\ \A c \in Clients : \A s \in Streams : capture[c][s].file # g
        BY <2>0 DEF Owned
    <3>3. (\E b \in DOMAIN store'.aliases : store'.aliases[b].file = g) <=> \E b \in D \ {a} : store.aliases[b].file = g
        BY <1>4
    <3> QED
        BY <1>1, <1>6, <3>1, <3>2, <3>3
  <2>4. \A b \in DOMAIN store'.aliases : store'.aliases[b].file # None => spool'[store'.aliases[b].file] = store'.aliases[b].data
      BY <1>4, <1>6, <2>0, <2>3 DEF Owned
  <2>5. \A c \in Clients : \A s \in Streams :
            capture'[c][s].file # None /\ capture'[c][s].at \in {"open", "done"} => spool'[capture'[c][s].file] = capture'[c][s].data
      BY <1>1, <1>6, <2>0, <2>3 DEF Owned
  <2>6. \A c, d \in Clients : \A s, t \in Streams :
            capture'[c][s].file # None /\ capture'[c][s].file = capture'[d][t].file => c = d /\ s = t
      BY <1>1, <2>0 DEF Owned
  <2> QED
      BY <2>1, <2>2, <2>3, <2>4, <2>5, <2>6 DEF Owned
<1> QED
    BY <1>9, <1>10, <1>11, <1>12, <1>13 DEF StoreInv

-----------------------------------------------------------------------------
(* Commits                                                                 *)

\* The files of offered values.
LEMMA FilesOfValues ==
    ASSUME NEW values, NEW I, NEW f
    PROVE  f \in FilesOf({values[i] : i \in I}) <=> f # None /\ \E i \in I : values[i].file = f
BY DEF FilesOf

Named(keys) == {keys[i] : i \in DOMAIN keys}
NewKeys(f, keys) ==
    /\ \A i \in DOMAIN keys : keys[i] \notin DOMAIN f
    /\ \A i, j \in DOMAIN keys : keys[i] = keys[j] => i = j
IsExtension(e, f, keys, values) ==
    /\ DOMAIN e = DOMAIN f \cup Named(keys)
    /\ \A x \in DOMAIN f : e[x] = f[x]
    /\ \A i \in DOMAIN keys : e[keys[i]] = values[i]

\* New keys, each with its value.
LEMMA ExtendedBy ==
    ASSUME NEW f, NEW keys, NEW values, NewKeys(f, keys)
    PROVE  IsExtension(Extended(f, keys, values), f, keys, values)
<1>1. /\ DOMAIN Extended(f, keys, values) = DOMAIN f \cup Named(keys)
      /\ \A x \in DOMAIN f : Extended(f, keys, values)[x] = f[x]
    BY DEF Extended, Named
<1>2. ASSUME NEW i \in DOMAIN keys
      PROVE  Extended(f, keys, values)[keys[i]] = values[i]
  <2>1. Extended(f, keys, values)[keys[i]] = values[CHOOSE j \in DOMAIN keys : keys[j] = keys[i]]
      BY DEF Extended, NewKeys
  <2>2. (CHOOSE j \in DOMAIN keys : keys[j] = keys[i]) = i
      BY DEF NewKeys
  <2> QED
      BY <2>1, <2>2, Zenon
<1> QED
    BY <1>1, <1>2 DEF IsExtension

\* The place of i among the numbers of a set.
Rank(S, i) == Cardinality({j \in S : j < i})

\* Places differ, and count up to the size of the set.
LEMMA Ranks ==
    ASSUME NEW n \in Nat, NEW S \in SUBSET (1 .. n)
    PROVE  /\ IsFiniteSet(S) /\ Cardinality(S) \in Nat
           /\ \A i \in S : Rank(S, i) \in Nat /\ Rank(S, i) < Cardinality(S)
           /\ \A i, j \in S : Rank(S, i) = Rank(S, j) => i = j
<1> DEFINE B(i) == {j \in S : j < i}
<1>1. IsFiniteSet(S) /\ Cardinality(S) \in Nat
  <2>1. IsFiniteSet(1 .. n)
      BY FS_Interval
  <2> QED
      BY Zenon, <2>1, FS_Subset, FS_CardinalityType
<1>2. \A T \in SUBSET S : IsFiniteSet(T) /\ Cardinality(T) \in Nat
    BY Zenon, <1>1, FS_Subset, FS_CardinalityType
<1>3. ASSUME NEW T \in SUBSET S, NEW U \in SUBSET T, U # T
      PROVE  Cardinality(U) < Cardinality(T)
  <2>1. IsFiniteSet(T) /\ Cardinality(T) \in Nat /\ Cardinality(U) \in Nat
      BY <1>2
  <2>2. Cardinality(U) <= Cardinality(T) /\ (Cardinality(U) = Cardinality(T) => U = T)
      BY Zenon, <2>1, FS_Subset
  <2>3. PICK u \in Nat, t \in Nat : u = Cardinality(U) /\ t = Cardinality(T)
      BY <2>1
  <2>4. u <= t /\ u # t
      BY <1>3, <2>2, <2>3
  <2>5. u < t
      BY <2>3, <2>4
  <2> QED
      BY <2>3, <2>5
<1>4. ASSUME NEW i \in S
      PROVE  Rank(S, i) \in Nat /\ Rank(S, i) < Cardinality(S)
  <2>1. B(i) \in SUBSET S /\ i \notin B(i) /\ S \in SUBSET S
      OBVIOUS
  <2>2. B(i) # S
      BY <2>1
  <2>3. Rank(S, i) = Cardinality(B(i))
      BY DEF Rank
  <2> HIDE DEF B
  <2> QED
      BY <1>2, <1>3, <2>1, <2>2, <2>3
<1>5. ASSUME NEW i \in S, NEW j \in S, i < j
      PROVE  Rank(S, i) < Rank(S, j)
  <2>0. S \subseteq Nat
      OBVIOUS
  <2>1. B(j) \in SUBSET S /\ B(i) \in SUBSET B(j) /\ i \in B(j) /\ i \notin B(i)
    <3>1. B(j) \in SUBSET S /\ i \in B(j)
        BY <1>5
    <3>2. i \in Nat /\ j \in Nat /\ i \notin B(i)
        BY <2>0
    <3>3. \A m \in S : m < i => m < j
        BY <1>5, <2>0, <3>2
    <3>4. B(i) \in SUBSET B(j)
        BY Zenon, <3>3
    <3> QED
        BY <3>1, <3>2, <3>4
  <2>2. Rank(S, i) = Cardinality(B(i)) /\ Rank(S, j) = Cardinality(B(j))
      BY DEF Rank
  <2>3. B(i) # B(j)
    <3> HIDE DEF B
    <3> QED
        BY <2>1
  <2> HIDE DEF B
  <2> QED
      BY <1>3, <2>1, <2>2, <2>3
<1>6. ASSUME NEW i \in S, NEW j \in S, Rank(S, i) = Rank(S, j)
      PROVE  i = j
  <2>1. ~(i < j) /\ ~(j < i)
    <3>1. Rank(S, i) \in Nat /\ Rank(S, j) \in Nat
        BY <1>4
    <3>2. PICK r \in Nat : r = Rank(S, i) /\ r = Rank(S, j)
        BY <1>6, <3>1
    <3>3. ~(r < r)
        BY <3>2
    <3> QED
        BY Zenon, <1>5, <3>2, <3>3
  <2>2. i \in Nat /\ j \in Nat
      OBVIOUS
  <2> QED
      BY <2>1, <2>2
<1> QED
    BY <1>1, <1>4, <1>6

\* The names a commit gives and the keys it adds are new and differ.
Numbered(new) == [i \in new |-> store.next + Cardinality({j \in new : j < i})]

\* The aliases given to new contents are next, next + 1, ... in their order, and none was given before.
LEMMA NamesNew ==
    ASSUME Types, NEW n \in Nat, NEW new \in SUBSET (1 .. n)
    PROVE  /\ IsFiniteSet(new) /\ Cardinality(new) \in Nat /\ DOMAIN Numbered(new) = new
           /\ \A i \in new : /\ Numbered(new)[i] \in store.next .. (store.next + Cardinality(new)) - 1
                             /\ Numbered(new)[i] \notin DOMAIN store.aliases
           /\ \A i, j \in new : Numbered(new)[i] = Numbered(new)[j] => i = j
<1>1. /\ IsFiniteSet(new) /\ Cardinality(new) \in Nat
      /\ \A i \in new : Rank(new, i) \in Nat /\ Rank(new, i) < Cardinality(new)
      /\ \A i, j \in new : Rank(new, i) = Rank(new, j) => i = j
    BY Zenon, Ranks
<1>2. store.next \in Nat /\ DOMAIN store.aliases \subseteq 1 .. store.next - 1
    BY AliasesFinite DEF Types
<1>3. DOMAIN Numbered(new) = new /\ \A i \in new : Numbered(new)[i] = store.next + Rank(new, i)
    BY DEF Numbered, Rank
<1>4. ASSUME NEW i \in new
      PROVE  Numbered(new)[i] \in store.next .. (store.next + Cardinality(new)) - 1 /\ Numbered(new)[i] \notin DOMAIN store.aliases
  <2>1. PICK r \in Nat, m \in Nat : r = Rank(new, i) /\ m = Cardinality(new) /\ r < m
      BY <1>1
  <2>2. Numbered(new)[i] = store.next + r
      BY <1>3, <2>1
  <2> QED
      BY <1>2, <2>1, <2>2
<1>5. ASSUME NEW i \in new, NEW j \in new, Numbered(new)[i] = Numbered(new)[j]
      PROVE  i = j
  <2>1. PICK q \in Nat, r \in Nat : q = Rank(new, i) /\ r = Rank(new, j)
      BY <1>1
  <2>2. store.next + q = store.next + r
      BY <1>3, <1>5, <2>1
  <2>3. q = r
      BY <1>2, <2>1, <2>2
  <2> QED
      BY Zenon, <1>1, <2>1, <2>3
<1> QED
    BY <1>1, <1>3, <1>4, <1>5

Freed(values) == Total([i \in DOMAIN values |-> values[i].reserved])
Incoming(values) == Total([i \in FirstNew(values) |-> Len(values[i].data)])
NewData(values) == [i \in FirstNew(values) |-> values[i].data]
NewContent(values) == [i \in FirstNew(values) |-> [data |-> values[i].data, file |-> values[i].file]]
Fits(values) ==
    /\ ~(store.bytes + (store.pending - Freed(values)) + Incoming(values) > MaxBytes)
    /\ ~(Cardinality(DOMAIN store.aliases) + Cardinality(FirstNew(values)) > MaxEntries)

\* The two outcomes of a commit.
LEMMA CommitCases ==
    ASSUME StoreInv, NEW values, NEW files, Commit(values, files)
    PROVE  \/ /\ Fits(values) /\ store'.next <= MaxAlias
              /\ store' = [next |-> store.next + Cardinality(FirstNew(values)), bytes |-> store.bytes + Incoming(values),
                           pending |-> store.pending - Freed(values),
                           aliases |-> Extended(store.aliases, Numbered(FirstNew(values)), NewContent(values)),
                           contents |-> Extended(store.contents, NewData(values), Numbered(FirstNew(values)))]
              /\ spool' = Keep(files, DOMAIN files \ FilesOf({values[i] : i \in DOMAIN values \ FirstNew(values)}))
           \/ /\ store' = Reserving(store.pending - Freed(values))
              /\ spool' = Keep(files, DOMAIN files \ FilesOf({values[i] : i \in DOMAIN values}))
<1> DEFINE new == FirstNew(values)
           after == store.pending - Freed(values)
           to == [next |-> store.next + Cardinality(new), bytes |-> store.bytes + Incoming(values), pending |-> after,
                  aliases |-> Extended(store.aliases, Numbered(new), NewContent(values)),
                  contents |-> Extended(store.contents, NewData(values), Numbered(new))]
           r == RetainPending(values)
<1>1. r = IF ~Fits(values) THEN [ok |-> FALSE] ELSE [ok |-> TRUE, new |-> new, store |-> to]
    BY Zenon DEF RetainPending, Fits, Freed, Incoming, NewData, NewContent, Numbered
<1>2. IF r.ok
      THEN /\ store' = r.store /\ r.store.next <= MaxAlias
           /\ spool' = Keep(files, DOMAIN files \ FilesOf({values[i] : i \in DOMAIN values \ r.new}))
      ELSE /\ store' = [store EXCEPT !.pending = after]
           /\ spool' = Keep(files, DOMAIN files \ FilesOf({values[i] : i \in DOMAIN values}))
    BY Zenon DEF Commit, Freed
<1> HIDE DEF new, to, r
<1>3. CASE Fits(values)
  <2>1. r.ok = TRUE /\ r.store = to /\ r.new = new
      BY <1>1, <1>3
  <2>2. /\ store' = to /\ to.next <= MaxAlias
        /\ spool' = Keep(files, DOMAIN files \ FilesOf({values[i] : i \in DOMAIN values \ new}))
      BY <1>2, <2>1, Zenon
  <2> QED
      BY <1>3, <2>2, Zenon DEF to, new
<1>4. CASE ~Fits(values)
  <2>1. r.ok = FALSE
      BY <1>1, <1>4
  <2>2. /\ store' = [store EXCEPT !.pending = after]
        /\ spool' = Keep(files, DOMAIN files \ FilesOf({values[i] : i \in DOMAIN values}))
      BY <1>2, <2>1, Zenon
  <2>3. \A n : [store EXCEPT !.pending = n] = Reserving(n)
      BY StoreShape
  <2> QED
      BY <2>2, <2>3, Zenon
<1> QED
    BY <1>3, <1>4

\* What is offered to a commit: contents with their files and reservations, none of which
\* an entry or a capture that stays has.
Valued(values) ==
    \E n \in Nat : /\ DOMAIN values = 1 .. n
                   /\ \A i \in 1 .. n : values[i].data \in Seq(Bytes) /\ values[i].file \in Nat /\ values[i].reserved \in Nat
Offered(values, files) ==
    /\ capture' \in [Clients -> [Streams -> Capture]] /\ Observed'
    /\ Freed(values) \in Nat /\ Freed(values) <= store.pending /\ Total(Reservations') = store.pending - Freed(values)
    /\ \A c, d \in Clients : \A s, t \in Streams :
          capture'[c][s].file # None /\ capture'[c][s].file = capture'[d][t].file => c = d /\ s = t
    /\ \A a \in DOMAIN store.aliases : \A c \in Clients : \A s \in Streams :
          store.aliases[a].file # None => store.aliases[a].file # capture'[c][s].file
    /\ \A i, j \in DOMAIN values : values[i].file # None /\ values[i].file = values[j].file => i = j
    /\ \A i \in DOMAIN values : values[i].file # None =>
          /\ \A a \in DOMAIN store.aliases : store.aliases[a].file # values[i].file
          /\ \A c \in Clients : \A s \in Streams : capture'[c][s].file # values[i].file
    /\ \A f : f \in DOMAIN files <=> f # None /\ \/ \E a \in DOMAIN store.aliases : store.aliases[a].file = f
                                                 \/ \E c \in Clients : \E s \in Streams : capture'[c][s].file = f
                                                 \/ \E i \in DOMAIN values : values[i].file = f
    /\ \A a \in DOMAIN store.aliases : store.aliases[a].file # None => files[store.aliases[a].file] = store.aliases[a].data
    /\ \A c \in Clients : \A s \in Streams :
          capture'[c][s].file # None /\ capture'[c][s].at \in {"open", "done"} => files[capture'[c][s].file] = capture'[c][s].data
    /\ \A i \in DOMAIN values : values[i].file # None => files[values[i].file] = values[i].data

\* A commit that is refused.
LEMMA RefusedInv ==
    ASSUME StoreInv, NEW values, NEW files, Offered(values, files), UNCHANGED lease,
           store' = Reserving(store.pending - Freed(values)),
           spool' = Keep(files, DOMAIN files \ FilesOf({values[i] : i \in DOMAIN values}))
    PROVE  StoreInv'
<1>1. store'.next = store.next /\ store'.bytes = store.bytes /\ store'.aliases = store.aliases
      /\ store'.contents = store.contents /\ store'.pending = store.pending - Freed(values)
    BY DEF Reserving
<1>2. /\ capture' \in [Clients -> [Streams -> Capture]] /\ Observed'
      /\ Freed(values) \in Nat /\ Freed(values) <= store.pending /\ Total(Reservations') = store.pending - Freed(values)
    BY DEF Offered
<1>3. store.pending \in Nat /\ store.bytes \in Nat /\ store.bytes + store.pending <= MaxBytes /\ MaxBytes \in Nat
    BY LimitsAssumption DEF StoreInv, Types, Accounts
<1>4. Types'
  <2>1. store' = [next |-> store'.next, bytes |-> store'.bytes, pending |-> store'.pending,
                  aliases |-> store'.aliases, contents |-> store'.contents]
      BY DEF Reserving
  <2>2. store'.pending \in Nat
      BY <1>1, <1>2, <1>3
  <2> QED
      BY <1>1, <1>2, <2>1, <2>2 DEF StoreInv, Types
<1>5. Accounts'
  <2>1. Lengths' = Lengths
      BY <1>1 DEF Lengths
  <2>2. store'.bytes + store'.pending <= MaxBytes
      BY <1>1, <1>2, <1>3
  <2> QED
      BY <1>1, <1>2, <2>1, <2>2 DEF StoreInv, Accounts
<1>6. Indexed'
    BY <1>1 DEF StoreInv, Indexed
<1>7. Owned'
  <2>0. Owned
      BY DEF StoreInv
  <2>1. /\ \A f : f \in DOMAIN spool' <=> f \in DOMAIN files /\ ~(f # None /\ \E i \in DOMAIN values : values[i].file = f)
        /\ \A f \in DOMAIN spool' : spool'[f] = files[f]
    <3> DEFINE gone == FilesOf({values[i] : i \in DOMAIN values})
    <3>1. \A f : f \in gone <=> f # None /\ \E i \in DOMAIN values : values[i].file = f
        BY FilesOfValues
    <3> HIDE DEF gone
    <3>2. DOMAIN spool' = DOMAIN files \ gone /\ \A f \in DOMAIN spool' : spool'[f] = files[f]
        BY DEF Keep, gone
    <3> QED
        BY Zenon, <3>1, <3>2
  <2>2. ASSUME NEW g
        PROVE  g \in DOMAIN spool' <=> g # None /\ \/ \E a \in DOMAIN store.aliases : store.aliases[a].file = g
                                                   \/ \E c \in Clients : \E s \in Streams : capture'[c][s].file = g
    <3>1. g \in DOMAIN files <=> g # None /\ \/ \E a \in DOMAIN store.aliases : store.aliases[a].file = g
                                             \/ \E c \in Clients : \E s \in Streams : capture'[c][s].file = g
                                             \/ \E i \in DOMAIN values : values[i].file = g
        BY DEF Offered
    <3>2. \A i \in DOMAIN values : g # None /\ values[i].file = g =>
             /\ \A a \in DOMAIN store.aliases : store.aliases[a].file # g
             /\ \A c \in Clients : \A s \in Streams : capture'[c][s].file # g
        BY DEF Offered
    <3> QED
        BY <2>1, <3>1, <3>2
  <2>3. \A a, b \in DOMAIN store'.aliases : store'.aliases[a].file # None /\ store'.aliases[a].file = store'.aliases[b].file => a = b
      BY <1>1, <2>0 DEF Owned
  <2>4. \A a \in DOMAIN store.aliases : store.aliases[a].file # None => spool'[store.aliases[a].file] = store.aliases[a].data
      BY Zenon, <2>1, <2>2 DEF Offered
  <2>5. ASSUME NEW c \in Clients, NEW s \in Streams, capture'[c][s].file # None, capture'[c][s].at \in {"open", "done"}
        PROVE  spool'[capture'[c][s].file] = capture'[c][s].data
    <3>1. capture'[c][s].file \in DOMAIN spool'
        BY Zenon, <2>2, <2>5
    <3>2. files[capture'[c][s].file] = capture'[c][s].data
        BY <2>5 DEF Offered
    <3> QED
        BY Zenon, <2>1, <3>1, <3>2
  <2>6. \A c, d \in Clients : \A s, t \in Streams :
            capture'[c][s].file # None /\ capture'[c][s].file = capture'[d][t].file => c = d /\ s = t
      BY DEF Offered
  <2>7. \A a \in DOMAIN store.aliases : \A c \in Clients : \A s \in Streams :
            store.aliases[a].file # None => store.aliases[a].file # capture'[c][s].file
      BY DEF Offered
  <2>8. ASSUME NEW g
        PROVE  g \in DOMAIN spool' <=> g # None /\ \/ \E a \in DOMAIN store'.aliases : store'.aliases[a].file = g
                                                   \/ \E c \in Clients : \E s \in Streams : capture'[c][s].file = g
      BY Zenon, <1>1, <2>2
  <2>9. \A a \in DOMAIN store'.aliases : store'.aliases[a].file # None => spool'[store'.aliases[a].file] = store'.aliases[a].data
      BY Zenon, <1>1, <2>4
  <2>10. \A a \in DOMAIN store'.aliases : \A c \in Clients : \A s \in Streams :
            store'.aliases[a].file # None => store'.aliases[a].file # capture'[c][s].file
      BY <1>1, <2>7
  <2> QED
      BY Zenon, <2>3, <2>5, <2>6, <2>8, <2>9, <2>10 DEF Owned
<1> QED
    BY <1>2, <1>4, <1>5, <1>6, <1>7 DEF StoreInv

\* The first places of new contents.
LEMMA FirstNewFacts ==
    ASSUME NEW values, Valued(values)
    PROVE  /\ \E n \in Nat : DOMAIN values = 1 .. n /\ FirstNew(values) \in SUBSET (1 .. n)
           /\ FirstNew(values) \subseteq DOMAIN values
           /\ \A i \in FirstNew(values) :
                 /\ values[i].data \notin DOMAIN store.contents /\ values[i].data \in Seq(Bytes)
                 /\ Len(values[i].data) \in Nat /\ values[i].file \in Nat
           /\ \A i, j \in FirstNew(values) : values[i].data = values[j].data => i = j
<1> DEFINE new == FirstNew(values)
<1>1. PICK n \in Nat : /\ DOMAIN values = 1 .. n
                       /\ \A i \in 1 .. n : values[i].data \in Seq(Bytes) /\ values[i].file \in Nat /\ values[i].reserved \in Nat
    BY DEF Valued
<1>2. new \in SUBSET (1 .. n) /\ new \subseteq DOMAIN values
    BY <1>1 DEF FirstNew
<1>3. \A i \in new : values[i].data \notin DOMAIN store.contents /\ \A j \in 1 .. i - 1 : values[j].data # values[i].data
    BY DEF FirstNew
<1>4. \A i \in new : values[i].data \in Seq(Bytes) /\ values[i].file \in Nat
    BY <1>1, <1>2
<1>5. \A i \in new : Len(values[i].data) \in Nat
    BY <1>4, LenProperties
<1>6. ASSUME NEW i \in new, NEW j \in new, values[i].data = values[j].data
      PROVE  i = j
  <2>1. i \in 1 .. n /\ j \in 1 .. n
      BY <1>2
  <2>2. j \notin 1 .. i - 1 /\ i \notin 1 .. j - 1
      BY <1>3, <1>6
  <2> QED
      BY <1>1, <2>1, <2>2
<1> QED
    BY <1>1, <1>2, <1>3, <1>4, <1>5, <1>6

\* What an accepted commit makes of the store.
Accepted(values, files) ==
    /\ Fits(values) /\ store'.next <= MaxAlias
    /\ store' = [next |-> store.next + Cardinality(FirstNew(values)), bytes |-> store.bytes + Incoming(values),
                 pending |-> store.pending - Freed(values),
                 aliases |-> Extended(store.aliases, Numbered(FirstNew(values)), NewContent(values)),
                 contents |-> Extended(store.contents, NewData(values), Numbered(FirstNew(values)))]
    /\ spool' = Keep(files, DOMAIN files \ FilesOf({values[i] : i \in DOMAIN values \ FirstNew(values)}))

\* What an accepted commit does to aliases, contents and files, entry by entry.
LEMMA AcceptedStore ==
    ASSUME StoreInv, NEW values, NEW files, Valued(values), Accepted(values, files),
           NEW new, new = FirstNew(values), NEW name, name = Numbered(new)
    PROVE  /\ IsFiniteSet(new) /\ Cardinality(new) \in Nat /\ DOMAIN name = new
           /\ \A i \in new : name[i] \in store.next .. (store.next + Cardinality(new)) - 1 /\ name[i] \notin DOMAIN store.aliases
           /\ \A i, j \in new : name[i] = name[j] => i = j
           /\ store'.next = store.next + Cardinality(new) /\ store'.bytes = store.bytes + Incoming(values)
           /\ store'.pending = store.pending - Freed(values)
           /\ store' = [next |-> store'.next, bytes |-> store'.bytes, pending |-> store'.pending,
                        aliases |-> store'.aliases, contents |-> store'.contents]
           /\ DOMAIN store'.aliases = DOMAIN store.aliases \cup {name[i] : i \in new}
           /\ \A a \in DOMAIN store.aliases : store'.aliases[a] = store.aliases[a]
           /\ \A i \in new : store'.aliases[name[i]].data = values[i].data /\ store'.aliases[name[i]].file = values[i].file
           /\ DOMAIN store'.contents = DOMAIN store.contents \cup {values[i].data : i \in new}
           /\ \A d \in DOMAIN store.contents : store'.contents[d] = store.contents[d]
           /\ \A i \in new : store'.contents[values[i].data] = name[i]
<1>1. /\ \E n \in Nat : DOMAIN values = 1 .. n /\ new \in SUBSET (1 .. n)
      /\ \A i \in new : values[i].data \notin DOMAIN store.contents
      /\ \A i, j \in new : values[i].data = values[j].data => i = j
    BY FirstNewFacts
<1>2. /\ IsFiniteSet(new) /\ Cardinality(new) \in Nat /\ DOMAIN name = new
      /\ \A i \in new : name[i] \in store.next .. (store.next + Cardinality(new)) - 1 /\ name[i] \notin DOMAIN store.aliases
      /\ \A i, j \in new : name[i] = name[j] => i = j
    BY <1>1, NamesNew DEF StoreInv
<1> DEFINE data == NewData(values)
           content == NewContent(values)
           A == Extended(store.aliases, name, content)
           B == Extended(store.contents, data, name)
<1>3. DOMAIN data = new /\ (\A i \in new : data[i] = values[i].data)
    BY DEF NewData
<1>4. \A i \in new : content[i].data = values[i].data /\ content[i].file = values[i].file
    BY DEF NewContent
<1>5. store' = [next |-> store.next + Cardinality(new), bytes |-> store.bytes + Incoming(values),
                pending |-> store.pending - Freed(values), aliases |-> A, contents |-> B]
    BY Zenon DEF Accepted
<1> HIDE DEF data, content, A, B
<1>6. /\ store'.next = store.next + Cardinality(new) /\ store'.bytes = store.bytes + Incoming(values)
      /\ store'.pending = store.pending - Freed(values) /\ store'.aliases = A /\ store'.contents = B
      /\ store' = [next |-> store'.next, bytes |-> store'.bytes, pending |-> store'.pending,
                   aliases |-> store'.aliases, contents |-> store'.contents]
    BY <1>5
<1>7. /\ DOMAIN A = DOMAIN store.aliases \cup {name[i] : i \in new}
      /\ \A x \in DOMAIN store.aliases : A[x] = store.aliases[x]
      /\ \A i \in new : A[name[i]] = content[i]
  <2>1. PICK f : f = store.aliases
      OBVIOUS
  <2>2. NewKeys(f, name) /\ Named(name) = {name[i] : i \in new}
      BY <1>2, <2>1 DEF NewKeys, Named
  <2>3. IsExtension(Extended(f, name, content), f, name, content)
      BY <2>2, ExtendedBy, Zenon
  <2>4. IsExtension(A, f, name, content)
      BY <2>1, <2>3, Zenon DEF A
  <2> QED
      BY <1>2, <2>1, <2>2, <2>4 DEF IsExtension
<1>8. /\ DOMAIN B = DOMAIN store.contents \cup {data[i] : i \in new}
      /\ \A x \in DOMAIN store.contents : B[x] = store.contents[x]
      /\ \A i \in new : B[data[i]] = name[i]
  <2>1. PICK f : f = store.contents
      OBVIOUS
  <2>2. NewKeys(f, data) /\ Named(data) = {data[i] : i \in new}
      BY <1>1, <1>3, <2>1 DEF NewKeys, Named
  <2>3. IsExtension(Extended(f, data, name), f, data, name)
      BY <2>2, ExtendedBy, Zenon
  <2>4. IsExtension(B, f, data, name)
      BY <2>1, <2>3, Zenon DEF B
  <2> QED
      BY <1>3, <2>1, <2>2, <2>4 DEF IsExtension
<1>9. {data[i] : i \in new} = {values[i].data : i \in new}
    BY <1>3
<1>10. \A i \in new : store'.aliases[name[i]].data = values[i].data /\ store'.aliases[name[i]].file = values[i].file
    BY <1>4, <1>6, <1>7
<1>11. \A i \in new : store'.contents[values[i].data] = name[i]
    BY <1>3, <1>6, <1>8
<1>12. /\ DOMAIN store'.aliases = DOMAIN store.aliases \cup {name[i] : i \in new}
       /\ \A a \in DOMAIN store.aliases : store'.aliases[a] = store.aliases[a]
    BY <1>6, <1>7
<1>13. /\ DOMAIN store'.contents = DOMAIN store.contents \cup {values[i].data : i \in new}
       /\ \A d \in DOMAIN store.contents : store'.contents[d] = store.contents[d]
    BY Zenon, <1>6, <1>8, <1>9
<1> QED
    BY <1>2, <1>6, <1>10, <1>11, <1>12, <1>13, Zenon

\* The bytes and the entries of an accepted commit.
LEMMA AcceptedAccounts ==
    ASSUME StoreInv, NEW values, NEW files, Valued(values), Offered(values, files), Accepted(values, files)
    PROVE  Accounts' /\ store'.bytes \in Nat /\ store'.pending \in Nat /\ Incoming(values) \in Nat
<1> DEFINE new == FirstNew(values)
           name == Numbered(new)
           D == DOMAIN store.aliases
           N == {name[i] : i \in new}
           f == Lengths
           g == [a \in N |-> Len(store'.aliases[a].data)]
           h == Lengths'
           in == [i \in new |-> Len(values[i].data)]
<1>1. /\ IsFiniteSet(new) /\ Cardinality(new) \in Nat /\ DOMAIN name = new
      /\ \A i \in new : name[i] \notin D
      /\ \A i, j \in new : name[i] = name[j] => i = j
      /\ store'.bytes = store.bytes + Incoming(values)
      /\ store'.pending = store.pending - Freed(values)
      /\ DOMAIN store'.aliases = D \cup N
      /\ \A a \in D : store'.aliases[a] = store.aliases[a]
      /\ \A i \in new : store'.aliases[name[i]].data = values[i].data
    BY AcceptedStore
<1>2. \A i \in new : Len(values[i].data) \in Nat
    BY FirstNewFacts
<1>3. IsFiniteSet(D) /\ \A a \in D : Len(store.aliases[a].data) \in Nat
  <2>1. \A b \in D : store.aliases[b].data \in Seq(Bytes)
      BY DEF StoreInv, Types
  <2> QED
      BY <2>1, LenProperties, AliasesFinite DEF StoreInv
<1>4. name \in Bijection(new, N)
  <2>1. name = [i \in new |-> name[i]]
      BY DEF Numbered
  <2>2. name \in [new -> N]
      BY <2>1
  <2> HIDE DEF name, new
  <2> QED
      BY <1>1, <2>2 DEF Bijection, Injection, Surjection, IsInjective
<1>5. IsFiniteSet(N) /\ Cardinality(N) = Cardinality(new)
  <2>1. IsFiniteSet(new)
      BY <1>1
  <2> HIDE DEF name, new, N
  <2> QED
      BY <1>4, <2>1, FS_Bijection DEF ExistsBijection
<1>6. DOMAIN in = new /\ DOMAIN g = N /\ DOMAIN f = D /\ DOMAIN h = D \cup N /\ D \cap N = {}
  <2> HIDE DEF name, new
  <2> QED
      BY <1>1 DEF Lengths
<1>7. \A i \in new : g[name[i]] = in[i] /\ in[i] \in Nat
  <2> HIDE DEF name, new
  <2> QED
      BY <1>1, <1>2
<1>8. (\A a \in N : g[a] \in Nat /\ h[a] = g[a]) /\ \A a \in D : h[a] = f[a] /\ f[a] \in Nat
  <2> HIDE DEF name, new
  <2>1. \A a \in N : g[a] \in Nat
      BY <1>7
  <2>2. \A a \in N : h[a] = g[a]
      BY <1>1 DEF Lengths
  <2>3. \A a \in D : h[a] = f[a] /\ f[a] \in Nat
      BY <1>1, <1>3 DEF Lengths
  <2> QED
      BY Zenon, <2>1, <2>2, <2>3
<1>9. Summable(in) /\ Summable(f) /\ Summable(g)
  <2> HIDE DEF name, new, N, f, g, in
  <2> QED
      BY <1>1, <1>3, <1>5, <1>6, <1>7, <1>8 DEF Summable
<1>10. Total(g) = Total(in) /\ Total(h) = Total(f) + Total(g) /\ Total(in) \in Nat
  <2> HIDE DEF name, new, N, f, g, h, in
  <2>1. name \in Bijection(DOMAIN in, DOMAIN g) /\ \A i \in DOMAIN in : g[name[i]] = in[i]
      BY <1>4, <1>6, <1>7
  <2>2. Total(g) = Total(in)
      BY <1>9, <2>1, TotalRenamed
  <2>3. Total(h) = Total(f) + Total(g)
      BY Zenon, <1>6, <1>8, <1>9, TotalParts
  <2> QED
      BY <1>9, <2>2, <2>3, TotalType
<1>11. Incoming(values) = Total(in)
    BY DEF Incoming
<1>12. store'.bytes = Total(Lengths')
  <2>1. store.bytes = Total(f)
      BY DEF StoreInv, Accounts
  <2> HIDE DEF f, g, in
  <2> QED
      BY <1>1, <1>10, <1>11, <2>1
<1>13. store.bytes \in Nat /\ store.pending \in Nat /\ Incoming(values) \in Nat /\ Freed(values) \in Nat /\ Freed(values) <= store.pending
       /\ Total(Reservations') = store.pending - Freed(values) /\ MaxBytes \in Nat /\ MaxEntries \in Nat
    BY <1>10, <1>11, LimitsAssumption DEF StoreInv, Types, Offered
<1>14. store'.bytes \in Nat /\ store'.pending \in Nat /\ store'.pending = Total(Reservations')
    BY <1>1, <1>13
<1>15. store'.bytes + store'.pending <= MaxBytes
  <2>1. ~(store.bytes + (store.pending - Freed(values)) + Incoming(values) > MaxBytes)
      BY DEF Accepted, Fits
  <2> QED
      BY <1>1, <1>13, <2>1
<1>16. Cardinality(DOMAIN store'.aliases) <= MaxEntries
  <2>1. ~(Cardinality(D) + Cardinality(new) > MaxEntries)
      BY DEF Accepted, Fits
  <2> HIDE DEF D, N, new
  <2>2. Cardinality(D \cup N) = Cardinality(D) + Cardinality(N) - Cardinality(D \cap N)
    <3>1. IsFiniteSet(D) /\ IsFiniteSet(N)
        BY <1>3, <1>5
    <3> QED
        BY <3>1, FS_Union, Zenon
  <2>3. Cardinality(D \cap N) = 0
      BY <1>6, FS_EmptySet
  <2>4. Cardinality(D) \in Nat
      BY <1>3, FS_CardinalityType
  <2>5. PICK d \in Nat, m \in Nat : d = Cardinality(D) /\ m = Cardinality(new)
      BY <1>1, <2>4
  <2>6. Cardinality(D \cup N) = d + m - 0
      BY <1>5, <2>2, <2>3, <2>5, Zenon
  <2>7. ~(d + m > MaxEntries)
      BY <2>1, <2>5, Zenon
  <2>8. d + m - 0 <= MaxEntries
      BY <1>13, <2>5, <2>7
  <2> QED
      BY <1>1, <2>6, <2>8
<1> QED
    BY <1>12, <1>13, <1>14, <1>15, <1>16 DEF Accounts

\* An accepted commit keeps the invariant.
LEMMA AcceptedInv ==
    ASSUME StoreInv, NEW values, NEW files, Valued(values), Offered(values, files), Accepted(values, files), UNCHANGED lease
    PROVE  StoreInv'
<1> DEFINE new == FirstNew(values)
           name == Numbered(new)
           D == DOMAIN store.aliases
<1>1. /\ Cardinality(new) \in Nat
      /\ \A i \in new : name[i] \in store.next .. (store.next + Cardinality(new)) - 1 /\ name[i] \notin D
      /\ \A i, j \in new : name[i] = name[j] => i = j
      /\ store'.next = store.next + Cardinality(new)
      /\ store' = [next |-> store'.next, bytes |-> store'.bytes, pending |-> store'.pending,
                   aliases |-> store'.aliases, contents |-> store'.contents]
      /\ DOMAIN store'.aliases = D \cup {name[i] : i \in new}
      /\ \A a \in D : store'.aliases[a] = store.aliases[a]
      /\ \A i \in new : store'.aliases[name[i]].data = values[i].data /\ store'.aliases[name[i]].file = values[i].file
      /\ DOMAIN store'.contents = DOMAIN store.contents \cup {values[i].data : i \in new}
      /\ \A d \in DOMAIN store.contents : store'.contents[d] = store.contents[d]
      /\ \A i \in new : store'.contents[values[i].data] = name[i]
    BY AcceptedStore
<1>2. /\ new \subseteq DOMAIN values
      /\ \A i \in new : values[i].data \notin DOMAIN store.contents /\ values[i].data \in Seq(Bytes) /\ values[i].file \in Nat
      /\ \A i, j \in new : values[i].data = values[j].data => i = j
    BY FirstNewFacts
<1>3. Accounts' /\ store'.bytes \in Nat /\ store'.pending \in Nat
    BY AcceptedAccounts
<1>4. /\ capture' \in [Clients -> [Streams -> Capture]] /\ Observed'
    BY DEF Offered
<1> HIDE DEF name, new
<1>5. Types'
  <2>1. store.next \in 1 .. MaxAlias /\ store.next \in Nat /\ D \subseteq 1 .. store.next - 1
      BY AliasesFinite DEF StoreInv, Types
  <2>2. PICK m \in Nat : m = Cardinality(new)
      BY <1>1
  <2>3. store'.next = store.next + m /\ \A i \in new : name[i] \in store.next .. (store.next + m) - 1
      BY <1>1, <2>2
  <2>4. DOMAIN store'.aliases \subseteq 1 .. store'.next - 1
      BY <1>1, <2>1, <2>2, <2>3
  <2>5. store'.next \in 1 .. MaxAlias
    <3>1. store'.next <= MaxAlias
        BY DEF Accepted
    <3> QED
        BY <2>1, <2>2, <2>3, <3>1, LimitsAssumption
  <2>6. \A a \in DOMAIN store'.aliases : store'.aliases[a].data \in Seq(Bytes) /\ store'.aliases[a].file \in Nat
      BY <1>1, <1>2 DEF StoreInv, Types
  <2>7. lease' \in [Clients -> {None} \cup DOMAIN store'.aliases]
      BY <1>1 DEF StoreInv, Types
  <2> QED
      BY <1>1, <1>3, <1>4, <2>4, <2>5, <2>6, <2>7 DEF Types
<1>6. Indexed'
  <2>0. Indexed
      BY DEF StoreInv
  <2>1. \A a \in DOMAIN store'.aliases :
           store'.aliases[a].data \in DOMAIN store'.contents /\ store'.contents[store'.aliases[a].data] = a
    <3> SUFFICES ASSUME NEW a \in DOMAIN store'.aliases
                 PROVE  store'.aliases[a].data \in DOMAIN store'.contents /\ store'.contents[store'.aliases[a].data] = a
        OBVIOUS
    <3>1. CASE a \in D
        BY <1>1, <2>0, <3>1 DEF Indexed
    <3>2. CASE \E i \in new : a = name[i]
        BY <1>1, <3>2
    <3> QED
        BY <1>1, <3>1, <3>2
  <2>2. \A d \in DOMAIN store'.contents :
           store'.contents[d] \in DOMAIN store'.aliases /\ store'.aliases[store'.contents[d]].data = d
    <3> SUFFICES ASSUME NEW d \in DOMAIN store'.contents
                 PROVE  store'.contents[d] \in DOMAIN store'.aliases /\ store'.aliases[store'.contents[d]].data = d
        OBVIOUS
    <3>1. CASE d \in DOMAIN store.contents
        BY <1>1, <2>0, <3>1 DEF Indexed
    <3>2. CASE \E i \in new : d = values[i].data
        BY <1>1, <3>2
    <3> QED
        BY <1>1, <3>1, <3>2
  <2> QED
      BY <2>1, <2>2 DEF Indexed
<1>7. Owned'
  <2>0. Owned
      BY DEF StoreInv
  <2>1. /\ \A f : f \in DOMAIN spool' <=> f \in DOMAIN files /\ ~(f # None /\ \E i \in DOMAIN values \ new : values[i].file = f)
        /\ \A f \in DOMAIN spool' : spool'[f] = files[f]
    <3> DEFINE gone == FilesOf({values[i] : i \in DOMAIN values \ new})
    <3>1. \A f : f \in gone <=> f # None /\ \E i \in DOMAIN values \ new : values[i].file = f
        BY Zenon, FilesOfValues
    <3> HIDE DEF gone
    <3>2. DOMAIN spool' = DOMAIN files \ gone /\ \A f \in DOMAIN spool' : spool'[f] = files[f]
        BY DEF Accepted, Keep, gone, new
    <3> QED
        BY <3>1, <3>2
  <2>2. \A a \in DOMAIN store'.aliases :
           \/ a \in D /\ store'.aliases[a] = store.aliases[a]
           \/ \E i \in new : a = name[i] /\ store'.aliases[a].file = values[i].file /\ store'.aliases[a].data = values[i].data
      BY <1>1
  <2>3. /\ \A i, j \in DOMAIN values : values[i].file # None /\ values[i].file = values[j].file => i = j
        /\ \A i \in DOMAIN values : values[i].file # None =>
              /\ \A a \in D : store.aliases[a].file # values[i].file
              /\ \A c \in Clients : \A s \in Streams : capture'[c][s].file # values[i].file
      BY DEF Offered
  <2>4. ASSUME NEW a \in DOMAIN store'.aliases, NEW b \in DOMAIN store'.aliases,
               store'.aliases[a].file # None, store'.aliases[a].file = store'.aliases[b].file
        PROVE  a = b
    <3>1. CASE a \in D /\ store'.aliases[a] = store.aliases[a] /\ b \in D /\ store'.aliases[b] = store.aliases[b]
        BY <2>0, <2>4, <3>1 DEF Owned
    <3>2. CASE \E i \in new : a = name[i] /\ store'.aliases[a].file = values[i].file
        BY <1>2, <2>2, <2>3, <2>4, <3>2
    <3>3. CASE \E i \in new : b = name[i] /\ store'.aliases[b].file = values[i].file
        BY <1>2, <2>2, <2>3, <2>4, <3>3
    <3> QED
        BY <2>2, <3>1, <3>2, <3>3
  <2>5. \A c, d \in Clients : \A s, t \in Streams :
            capture'[c][s].file # None /\ capture'[c][s].file = capture'[d][t].file => c = d /\ s = t
      BY DEF Offered
  <2>6. ASSUME NEW a \in DOMAIN store'.aliases, NEW c \in Clients, NEW s \in Streams, store'.aliases[a].file # None
        PROVE  store'.aliases[a].file # capture'[c][s].file
    <3>1. CASE a \in D /\ store'.aliases[a] = store.aliases[a]
        BY <2>6, <3>1 DEF Offered
    <3>2. CASE \E i \in new : a = name[i] /\ store'.aliases[a].file = values[i].file
        BY <1>2, <2>3, <2>6, <3>2
    <3> QED
        BY <2>2, <3>1, <3>2
  <2>7. ASSUME NEW g
        PROVE  g \in DOMAIN spool' <=> g # None /\ \/ \E a \in DOMAIN store'.aliases : store'.aliases[a].file = g
                                                   \/ \E c \in Clients : \E s \in Streams : capture'[c][s].file = g
    <3>1. g \in DOMAIN files <=> g # None /\ \/ \E a \in D : store.aliases[a].file = g
                                             \/ \E c \in Clients : \E s \in Streams : capture'[c][s].file = g
                                             \/ \E i \in DOMAIN values : values[i].file = g
        BY DEF Offered
    <3>2. (\E a \in DOMAIN store'.aliases : store'.aliases[a].file = g)
          <=> (\E a \in D : store.aliases[a].file = g) \/ \E i \in new : values[i].file = g
        BY <1>1
    <3>3. \A i \in DOMAIN values \ new : g # None /\ values[i].file = g =>
             /\ \A a \in D : store.aliases[a].file # g
             /\ \A c \in Clients : \A s \in Streams : capture'[c][s].file # g
             /\ \A j \in new : values[j].file # g
        BY <1>2, <2>3
    <3>4. (\E i \in DOMAIN values : values[i].file = g)
          <=> (\E i \in new : values[i].file = g) \/ \E i \in DOMAIN values \ new : values[i].file = g
        BY <1>2
    <3> QED
        BY <2>1, <3>1, <3>2, <3>3, <3>4
  <2>8. ASSUME NEW a \in DOMAIN store'.aliases, store'.aliases[a].file # None
        PROVE  spool'[store'.aliases[a].file] = store'.aliases[a].data
    <3>1. store'.aliases[a].file \in DOMAIN spool'
        BY <2>7, <2>8
    <3>2. files[store'.aliases[a].file] = store'.aliases[a].data
      <4>1. CASE a \in D /\ store'.aliases[a] = store.aliases[a]
          BY <2>8, <4>1 DEF Offered
      <4>2. CASE \E i \in new : a = name[i] /\ store'.aliases[a].file = values[i].file /\ store'.aliases[a].data = values[i].data
          BY <1>2, <2>8, <4>2 DEF Offered
      <4> QED
          BY <2>2, <4>1, <4>2
    <3> QED
        BY <2>1, <3>1, <3>2
  <2>9. ASSUME NEW c \in Clients, NEW s \in Streams, capture'[c][s].file # None, capture'[c][s].at \in {"open", "done"}
        PROVE  spool'[capture'[c][s].file] = capture'[c][s].data
    <3>1. capture'[c][s].file \in DOMAIN spool'
        BY <2>7, <2>9
    <3>2. files[capture'[c][s].file] = capture'[c][s].data
        BY <2>9 DEF Offered
    <3> QED
        BY <2>1, <3>1, <3>2
  <2> QED
      BY <2>4, <2>5, <2>6, <2>7, <2>8, <2>9 DEF Owned
<1> QED
    BY <1>3, <1>4, <1>5, <1>6, <1>7 DEF StoreInv

\* A commit, accepted or refused, keeps the invariant.
LEMMA CommitInv ==
    ASSUME StoreInv, NEW values, NEW files, Valued(values), Offered(values, files), Commit(values, files), UNCHANGED lease
    PROVE  StoreInv'
<1>1. \/ Accepted(values, files)
      \/ /\ store' = Reserving(store.pending - Freed(values))
         /\ spool' = Keep(files, DOMAIN files \ FilesOf({values[i] : i \in DOMAIN values}))
    BY Zenon, CommitCases DEF Accepted
<1> QED
    BY Zenon, <1>1, AcceptedInv, RefusedInv

\* Both ways to retain results commit what may be offered.
Committed(values, files) == Valued(values) /\ Offered(values, files) /\ Commit(values, files) /\ UNCHANGED lease

\* retain_captures commits the finished captures of a client with their files.
LEMMA RetainCapturesCommit ==
    ASSUME StoreInv, NEW c \in Clients, RetainCaptures(c)
    PROVE  \E values, files : Committed(values, files)
<1> DEFINE values == capture[c]
<1>0. capture \in [Clients -> [Streams -> Capture]]
    BY DEF StoreInv, Types
<1>1. /\ \A s \in Streams : capture[c][s].at = "done"
      /\ Commit(values, spool) /\ UNCHANGED lease
      /\ capture' = [capture EXCEPT ![c] = [s \in Streams |-> Closed]]
    BY DEF RetainCaptures
<1>2. DOMAIN values = Streams /\ \A s \in Streams : values[s] \in Capture
    BY <1>0
<1>3. Valued(values)
  <2>1. Cardinality(Streams) \in Nat /\ Streams = 1 .. Cardinality(Streams)
      BY ClientsAssumption, FS_CardinalityType
  <2>2. \A s \in Streams : values[s].data \in Seq(Bytes) /\ values[s].file \in Nat /\ values[s].reserved \in Nat
      BY <1>2 DEF Capture
  <2> HIDE DEF values
  <2> QED
      BY <1>2, <2>1, <2>2 DEF Valued
<1>4. /\ capture' \in [Clients -> [Streams -> Capture]]
      /\ \A s \in Streams : capture'[c][s] = Closed
      /\ \A d \in Clients \ {c} : capture'[d] = capture[d]
      /\ Total(Reservations') = Total(Reservations) - Total(OfClient(c))
      /\ Total(Reservations) \in Nat /\ Total(OfClient(c)) \in Nat /\ Total(OfClient(c)) <= Total(Reservations)
  <2>1. Closed \in Capture /\ Closed.reserved = 0
      BY ClosedType DEF Closed
  <2> QED
      BY Zenon, <1>0, <1>1, <2>1, ReservationsCleared
<1>5. Freed(values) = Total(OfClient(c))
    BY <1>2 DEF Freed, OfClient
<1>6. Offered(values, spool)
  <2>0. Owned /\ store.pending = Total(Reservations)
      BY DEF StoreInv, Accounts
  <2>1. \A d \in Clients : \A s \in Streams : capture'[d][s].file # None => d # c /\ capture'[d][s] = capture[d][s]
      BY <1>4 DEF Closed
  <2>2. Observed'
    <3> SUFFICES ASSUME NEW d \in Clients, NEW s \in Streams PROVE CaptureOK(capture'[d][s])
        BY Zenon DEF Observed, CaptureOK
    <3> QED
        BY <1>4, ClosedType DEF StoreInv, Observed
  <2>3. Freed(values) \in Nat /\ Freed(values) <= store.pending /\ Total(Reservations') = store.pending - Freed(values)
      BY <1>4, <1>5, <2>0
  <2>4. \A d, e \in Clients : \A t, u \in Streams :
            capture'[d][t].file # None /\ capture'[d][t].file = capture'[e][u].file => d = e /\ t = u
      BY <2>0, <2>1 DEF Owned
  <2>5. \A a \in DOMAIN store.aliases : \A d \in Clients : \A t \in Streams :
            store.aliases[a].file # None => store.aliases[a].file # capture'[d][t].file
      BY <2>0, <2>1 DEF Owned
  <2>6. \A i, j \in DOMAIN values : values[i].file # None /\ values[i].file = values[j].file => i = j
      BY <1>2, <2>0 DEF Owned
  <2>7. ASSUME NEW i \in DOMAIN values, values[i].file # None
        PROVE  /\ \A a \in DOMAIN store.aliases : store.aliases[a].file # values[i].file
               /\ \A d \in Clients : \A s \in Streams : capture'[d][s].file # values[i].file
      BY <1>2, <2>0, <2>1, <2>7 DEF Owned
  <2>8. ASSUME NEW f
        PROVE  f \in DOMAIN spool <=> f # None /\ \/ \E a \in DOMAIN store.aliases : store.aliases[a].file = f
                                                  \/ \E d \in Clients : \E s \in Streams : capture'[d][s].file = f
                                                  \/ \E i \in DOMAIN values : values[i].file = f
    <3>1. f \in DOMAIN spool <=> f # None /\ \/ \E a \in DOMAIN store.aliases : store.aliases[a].file = f
                                             \/ \E d \in Clients : \E s \in Streams : capture[d][s].file = f
        BY <2>0 DEF Owned
    <3>2. f # None => ((\E d \in Clients : \E s \in Streams : capture'[d][s].file = f)
                       <=> \E d \in Clients \ {c} : \E s \in Streams : capture[d][s].file = f)
        BY <1>4, <2>1
    <3> QED
        BY <1>2, <3>1, <3>2
  <2>9. \A a \in DOMAIN store.aliases : store.aliases[a].file # None => spool[store.aliases[a].file] = store.aliases[a].data
      BY <2>0 DEF Owned
  <2>10. \A d \in Clients : \A s \in Streams :
            capture'[d][s].file # None /\ capture'[d][s].at \in {"open", "done"} => spool[capture'[d][s].file] = capture'[d][s].data
      BY <2>0, <2>1 DEF Owned
  <2>11. \A i \in DOMAIN values : values[i].file # None => spool[values[i].file] = values[i].data
      BY <1>1, <1>2, <2>0 DEF Owned
  <2> HIDE DEF values
  <2> QED
      BY <1>4, <2>2, <2>3, <2>4, <2>5, <2>6, <2>7, <2>8, <2>9, <2>10, <2>11, Zenon DEF Offered
<1> HIDE DEF values
<1> QED
    BY <1>1, <1>3, <1>6, Zenon DEF Committed

\* retain_many commits contents in memory, with a fresh file for each one over the limit.
LEMMA RetainBytesCommit ==
    ASSUME StoreInv, RetainBytes
    PROVE  \E values, files : Committed(values, files)
<1> DEFINE Files(g) == FilesOf({g[i] : i \in DOMAIN g})
           Spooled(g) == [id \in DOMAIN spool \cup Files(g) |->
                             IF id \in DOMAIN spool THEN spool[id] ELSE g[CHOOSE i \in DOMAIN g : g[i].file = id].data]
<1>1. PICK group \in Groups : Commit(Prepared(group), Spooled(Prepared(group))) /\ UNCHANGED <<capture, lease>>
    BY Zenon DEF RetainBytes
<1>2. PICK n \in Nat : DOMAIN group = 1 .. n /\ n = Len(group) /\ \A i \in 1 .. n : group[i] \in Seq(Bytes)
    BY BytesAssumption
<1>3. /\ Fresh(n) \in [1 .. n -> (Nat \ {0}) \ DOMAIN spool]
      /\ \A i, j \in 1 .. n : Fresh(n)[i] = Fresh(n)[j] => i = j
    BY Zenon, SpoolFinite, FreshNames DEF StoreInv
<1>4. PICK values : values = Prepared(group)
    OBVIOUS
<1>5. /\ DOMAIN values = 1 .. n
      /\ \A i \in 1 .. n : values[i].data = group[i] /\ values[i].reserved = 0 /\ values[i].file \in {None, Fresh(n)[i]}
    BY Zenon, <1>2, <1>4 DEF Prepared
<1>6. /\ \A i \in 1 .. n : values[i].file # None => values[i].file \notin DOMAIN spool /\ values[i].file \in Nat
      /\ \A i, j \in 1 .. n : values[i].file # None /\ values[i].file = values[j].file => i = j
    BY <1>3, <1>5 DEF None
<1>7. Valued(values)
  <2>1. \A i \in 1 .. n : values[i].data \in Seq(Bytes) /\ values[i].file \in Nat /\ values[i].reserved \in Nat
      BY <1>2, <1>5, <1>6 DEF None
  <2> QED
      BY Zenon, <1>5, <2>1 DEF Valued
<1>8. Freed(values) = 0
    BY <1>5, TotalZero DEF Freed
<1> DEFINE files == Spooled(values)
<1>9. \A f : f \in Files(values) <=> f # None /\ \E i \in DOMAIN values : values[i].file = f
    BY FilesOfValues
<1> HIDE DEF Files
<1>10. DOMAIN files = DOMAIN spool \cup Files(values) /\ \A f \in DOMAIN spool : files[f] = spool[f]
    OBVIOUS
<1>11. ASSUME NEW i \in DOMAIN values, values[i].file # None
       PROVE  files[values[i].file] = values[i].data
  <2>1. values[i].file \in Files(values) /\ values[i].file \notin DOMAIN spool
      BY <1>5, <1>6, <1>9, <1>11
  <2>2. files[values[i].file] = values[CHOOSE j \in DOMAIN values : values[j].file = values[i].file].data
      BY <2>1
  <2>3. (CHOOSE j \in DOMAIN values : values[j].file = values[i].file) = i
      BY <1>5, <1>6, <1>11
  <2> QED
      BY <2>2, <2>3, Zenon
<1> HIDE DEF files
<1>12. Offered(values, files)
  <2>0. Owned /\ store.pending = Total(Reservations) /\ store.pending \in Nat /\ Observed
      BY DEF StoreInv, Accounts, Types
  <2>1. capture' = capture /\ capture' \in [Clients -> [Streams -> Capture]]
      BY <1>1 DEF StoreInv, Types
  <2>2. Observed' /\ Reservations' = Reservations
      BY <2>0, <2>1 DEF Observed, Reservations
  <2>3. Freed(values) \in Nat /\ Freed(values) <= store.pending /\ Total(Reservations') = store.pending - Freed(values)
      BY <1>8, <2>0, <2>2
  <2>4. \A d, e \in Clients : \A t, u \in Streams :
            capture'[d][t].file # None /\ capture'[d][t].file = capture'[e][u].file => d = e /\ t = u
      BY <2>0, <2>1 DEF Owned
  <2>5. \A a \in DOMAIN store.aliases : \A d \in Clients : \A t \in Streams :
            store.aliases[a].file # None => store.aliases[a].file # capture'[d][t].file
      BY <2>0, <2>1 DEF Owned
  <2>6. \A i, j \in DOMAIN values : values[i].file # None /\ values[i].file = values[j].file => i = j
      BY <1>5, <1>6
  <2>7. ASSUME NEW i \in DOMAIN values, values[i].file # None
        PROVE  /\ \A a \in DOMAIN store.aliases : store.aliases[a].file # values[i].file
               /\ \A d \in Clients : \A s \in Streams : capture'[d][s].file # values[i].file
    <3>1. values[i].file \notin DOMAIN spool
        BY <1>5, <1>6, <2>7
    <3> QED
        BY <2>0, <2>1, <2>7, <3>1 DEF Owned
  <2>8. ASSUME NEW f
        PROVE  f \in DOMAIN files <=> f # None /\ \/ \E a \in DOMAIN store.aliases : store.aliases[a].file = f
                                                  \/ \E d \in Clients : \E s \in Streams : capture'[d][s].file = f
                                                  \/ \E i \in DOMAIN values : values[i].file = f
    <3>1. f \in DOMAIN spool <=> f # None /\ \/ \E a \in DOMAIN store.aliases : store.aliases[a].file = f
                                             \/ \E d \in Clients : \E s \in Streams : capture'[d][s].file = f
        BY <2>0, <2>1 DEF Owned
    <3> QED
        BY <1>9, <1>10, <3>1
  <2>9. \A a \in DOMAIN store.aliases : store.aliases[a].file # None => files[store.aliases[a].file] = store.aliases[a].data
      BY <1>10, <2>0 DEF Owned
  <2>10. ASSUME NEW d \in Clients, NEW s \in Streams, capture'[d][s].file # None, capture'[d][s].at \in {"open", "done"}
         PROVE  files[capture'[d][s].file] = capture'[d][s].data
      BY <1>10, <2>0, <2>1, <2>10 DEF Owned
  <2> QED
      BY <1>11, <2>1, <2>2, <2>3, <2>4, <2>5, <2>6, <2>7, <2>8, <2>9, <2>10, Zenon DEF Offered
<1>13. Commit(values, files)
  <2> HIDE DEF Spooled
  <2> QED
      BY <1>1, <1>4, Zenon DEF files
<1> QED
    BY <1>1, <1>7, <1>12, <1>13, Zenon DEF Committed

-----------------------------------------------------------------------------
(* The invariant holds always                                              *)

\* Every step of the store keeps the invariant.
LEMMA StoreInvNext == StoreInv /\ [StoreNext]_storeVars => StoreInv'
<1> SUFFICES ASSUME StoreInv, [StoreNext]_storeVars PROVE StoreInv'
    OBVIOUS
<1>0. lease \in [Clients -> {None} \cup DOMAIN store.aliases]
    BY DEF StoreInv, Types
<1>1. CASE UNCHANGED storeVars
    BY <1>0, <1>1, LeaseInv DEF storeVars
<1>2. CASE RetainBytes \/ \E c \in Clients : RetainCaptures(c)
  <2>1. PICK values, files : Committed(values, files)
      BY <1>2, RetainBytesCommit, RetainCapturesCommit
  <2> QED
      BY <2>1, CommitInv DEF Committed
<1>3. CASE \E a \in DOMAIN store.aliases : Release(a)
    BY <1>3, ReleaseInv
<1>4. CASE \E a \in DOMAIN store.aliases : \E c \in Clients : Get(c, a)
  <2>1. lease' \in [Clients -> {None} \cup DOMAIN store.aliases] /\ UNCHANGED <<store, capture, spool>>
      BY <1>0, <1>4 DEF Get
  <2> QED
      BY <2>1, LeaseInv
<1>5. CASE \E c \in Clients : DropLease(c)
  <2>1. lease' \in [Clients -> {None} \cup DOMAIN store.aliases] /\ UNCHANGED <<store, capture, spool>>
      BY <1>0, <1>5 DEF DropLease
  <2> QED
      BY <2>1, LeaseInv
<1>6. CASE \E c \in Clients : OpenCaptures(c) \/ DropCaptures(c)
    BY <1>6, OpenInv, DropInv
<1>7. CASE \E c \in Clients : \E s \in Streams : Append1(c, s) \/ Written(c, s) \/ FinishCapture(c, s)
    BY <1>7, AppendInv, WrittenInv, FinishInv
<1> QED
    BY <1>1, <1>2, <1>3, <1>4, <1>5, <1>6, <1>7 DEF StoreNext

\* The invariant implies Balanced: bytes and pending are what entries and captures account for.
LEMMA BalancedHolds == StoreInv => Balanced
<1> SUFFICES ASSUME StoreInv PROVE Balanced
    OBVIOUS
<1> DEFINE D == DOMAIN store.aliases
           E == DOMAIN store.contents
           b == [a \in D |-> store.aliases[a].data]
<1>1. b \in Bijection(D, E)
  <2>1. \A a \in D : b[a] \in E /\ store.contents[b[a]] = a
      BY DEF StoreInv, Indexed
  <2>2. \A d \in E : \E a \in D : b[a] = d
      BY DEF StoreInv, Indexed
  <2>3. b \in [D -> E]
      BY Zenon, <2>1
  <2>4. \A x, y \in D : b[x] = b[y] => x = y
      BY <2>1
  <2> HIDE DEF b, D, E
  <2> QED
      BY <2>2, <2>3, <2>4 DEF Bijection, Injection, Surjection, IsInjective
<1>2. Cardinality(E) = Cardinality(D)
  <2>1. IsFiniteSet(D)
      BY AliasesFinite DEF StoreInv
  <2> HIDE DEF b, D, E
  <2> QED
      BY <1>1, <2>1, FS_Bijection DEF ExistsBijection
<1>3. \A a \in D : store.contents[store.aliases[a].data] = a
    BY DEF StoreInv, Indexed
<1> QED
    BY <1>2, <1>3 DEF StoreInv, Accounts, Lengths, Reservations, Balanced

\* The invariant implies SpoolOwned: the files are those of entries and captures, each of one owner.
LEMMA SpoolOwnedHolds == StoreInv => SpoolOwned
<1> SUFFICES ASSUME StoreInv PROVE SpoolOwned
    OBVIOUS
<1>1. DOMAIN spool = AliasFiles \cup FilesOf(UNION {Held(c) : c \in Clients})
  <2>1. \A f : f \in AliasFiles <=> f # None /\ \E a \in DOMAIN store.aliases : store.aliases[a].file = f
      BY DEF AliasFiles, FilesOf
  <2>2. \A f : f \in FilesOf(UNION {Held(c) : c \in Clients}) <=> f # None /\ \E c \in Clients : \E s \in Streams : capture[c][s].file = f
      BY DEF FilesOf, Held
  <2>3. \A f : f \in DOMAIN spool <=> f # None /\ \/ \E a \in DOMAIN store.aliases : store.aliases[a].file = f
                                                  \/ \E c \in Clients : \E s \in Streams : capture[c][s].file = f
      BY DEF StoreInv, Owned
  <2> DEFINE A == AliasFiles
             B == FilesOf(UNION {Held(c) : c \in Clients})
  <2> HIDE DEF A, B
  <2>4. \A f : f \in DOMAIN spool <=> f \in A \/ f \in B
      BY <2>1, <2>2, <2>3 DEF A, B
  <2>5. DOMAIN spool = A \cup B
      BY <2>4
  <2> QED
      BY <2>5, Zenon DEF A, B
<1>2. ASSUME NEW c \in Clients, lease[c] # None, NEW offset \in 0 .. MaxLength + 1, NEW length \in 0 .. MaxLength + 1
      PROVE  LET content == store.aliases[lease[c]]
                 Upto(n) == IF n < Len(content.data) THEN n ELSE Len(content.data)
             IN ReadRange(content, offset, length) = SubSeq(content.data, offset + 1, Upto(offset + length))
  <2> DEFINE content == store.aliases[lease[c]]
             data == content.data
             size == Len(data)
             start == IF offset < size THEN offset ELSE size
             actual == IF length < size - start THEN length ELSE size - start
             Upto(n) == IF n < size THEN n ELSE size
  <2>1. lease[c] \in DOMAIN store.aliases /\ data \in Seq(Bytes) /\ (content.file # None => spool[content.file] = data)
      BY <1>2 DEF StoreInv, Types, Owned
  <2>2. Stored(content) = data
      BY <2>1 DEF Stored
  <2>3. ReadRange(content, offset, length) = SubSeq(data, start + 1, start + actual)
      BY <2>2, Zenon DEF ReadRange
  <2>4. size \in Nat /\ offset \in Nat /\ length \in Nat
      BY <2>1, LenProperties, LimitsAssumption
  <2>5. SubSeq(data, start + 1, start + actual) = SubSeq(data, offset + 1, Upto(offset + length))
    <3> HIDE DEF data, size
    <3>1. CASE offset < size
      <4>1. start + 1 = offset + 1 /\ start + actual = Upto(offset + length)
          BY <2>4, <3>1
      <4> HIDE DEF start, actual, Upto
      <4> QED
          BY <4>1, Zenon
    <3>2. CASE ~(offset < size)
      <4>1. /\ start + 1 \in Int /\ start + actual \in Int /\ start + actual < start + 1
            /\ offset + 1 \in Int /\ Upto(offset + length) \in Int /\ Upto(offset + length) < offset + 1
          BY <2>4, <3>2
      <4> HIDE DEF start, actual, Upto
      <4> DEFINE p == start + 1
                 q == start + actual
                 r == offset + 1
                 u == Upto(offset + length)
      <4> HIDE DEF p, q, r, u
      <4>2. p \in Int /\ q \in Int /\ q < p /\ r \in Int /\ u \in Int /\ u < r
          BY <4>1 DEF p, q, r, u
      <4>3. SubSeq(data, p, q) = << >> /\ SubSeq(data, r, u) = << >>
          BY <4>2, SubSeqEmpty
      <4> QED
          BY <4>3, Zenon DEF p, q, r, u
    <3> QED
        BY Zenon, <3>1, <3>2
  <2> QED
      BY <2>3, <2>5, Zenon
<1> QED
    BY <1>1, <1>2, Zenon DEF SpoolOwned

\* The sample of a stream that is longer than its head.
LEMMA SampledLong ==
    ASSUME NEW d \in Seq(Bytes), Len(d) > HeadLimit, NEW rest, rest = SubSeq(d, HeadLimit + 1, Len(d))
    PROVE  Sampled(d) = [head |-> SubSeq(d, 1, HeadLimit), next |-> SubSeq(rest, 1, 1),
                         tail |-> SubSeq(rest, IF Len(rest) > TailLimit THEN Len(rest) - TailLimit + 1 ELSE 1, Len(rest))]
<1>1. PICK n \in Nat : n = Len(d)
    BY LenProperties
<1>2. HeadLimit \in Nat /\ TailLimit \in Nat
    BY SampleLimits
<1>3. PICK m \in Nat : m = n - HeadLimit /\ m > 0 /\ m <= n
    BY <1>1, <1>2
<1>4. PICK j \in Nat : j = Least(TailLimit, After(n)) /\ j <= m /\ j = IF m > TailLimit THEN TailLimit ELSE m
  <2>1. After(n) = m
      BY <1>1, <1>2, <1>3 DEF After
  <2>2. PICK j : j = IF m > TailLimit THEN TailLimit ELSE m
      OBVIOUS
  <2>3. j \in Nat /\ j <= m /\ j = Least(TailLimit, m)
      BY <1>2, <1>3, <2>2 DEF Least
  <2> QED
      BY <2>1, <2>2, <2>3, Zenon
<1>5. n - m + 1 = HeadLimit + 1
    BY <1>1, <1>2, <1>3
<1>6. rest = Last(d, m)
    BY <1>1, <1>5, Zenon DEF Last
<1>7. rest \in Seq(Bytes) /\ Len(rest) = m /\ \A i \in 1 .. m : rest[i] = d[n - m + i]
  <2>1. m \in Nat /\ m <= Len(d)
      BY <1>1, <1>3
  <2>2. /\ Last(d, m) \in Seq(Bytes) /\ Len(Last(d, m)) = m
        /\ \A i \in 1 .. m : Last(d, m)[i] = d[Len(d) - m + i]
      BY <2>1, LastPart, Zenon
  <2> QED
      BY <1>1, <1>6, <2>2, Zenon
<1>8. Last(rest, j) = Last(d, j)
  <2>1. m \in Nat /\ m <= Len(d) /\ j \in Nat /\ j <= m
      BY <1>1, <1>3, <1>4
  <2>2. Last(Last(d, m), j) = Last(d, j)
      BY <2>1, LastOfLast, Zenon
  <2> QED
      BY <1>6, <2>2, Zenon
<1>9. SubSeq(rest, 1, 1) = SubSeq(d, HeadLimit + 1, HeadLimit + 1)
  <2>1. 1 \in 1 .. Len(rest) /\ HeadLimit + 1 \in 1 .. Len(d)
      BY <1>1, <1>2, <1>3, <1>7
  <2>2. SubSeq(rest, 1, 1) = <<rest[1]>>
      BY <1>7, <2>1, OneByte, Zenon
  <2>3. SubSeq(d, HeadLimit + 1, HeadLimit + 1) = <<d[HeadLimit + 1]>>
      BY <2>1, OneByte, Zenon
  <2>4. rest[1] = d[HeadLimit + 1]
      BY <1>3, <1>5, <1>7
  <2> QED
      BY <2>2, <2>3, <2>4, Zenon
<1>10. Least(HeadLimit, n) = HeadLimit /\ Least(HeadLimit + 1, n) = HeadLimit + 1
    BY <1>1, <1>2, <1>3 DEF Least
<1>11. (IF Len(rest) > TailLimit THEN Len(rest) - TailLimit + 1 ELSE 1) = Len(rest) - j + 1
  <2>1. Len(rest) = m /\ m \in Nat /\ j = IF m > TailLimit THEN TailLimit ELSE m
      BY <1>3, <1>4, <1>7, Zenon
  <2>2. \A x, y \in Nat : (IF x > y THEN x - y + 1 ELSE 1) = x - (IF x > y THEN y ELSE x) + 1
      OBVIOUS
  <2>3. (IF m > TailLimit THEN m - TailLimit + 1 ELSE 1) = m - j + 1
      BY <1>2, <2>1, <2>2, Zenon
  <2> QED
      BY <2>1, <2>3, Zenon
<1>12. SubSeq(rest, IF Len(rest) > TailLimit THEN Len(rest) - TailLimit + 1 ELSE 1, Len(rest)) = Last(rest, j)
    BY <1>11, Zenon DEF Last
<1>13. Sampled(d) = [head |-> SubSeq(d, 1, HeadLimit), next |-> SubSeq(d, HeadLimit + 1, HeadLimit + 1), tail |-> Last(d, j)]
    BY <1>1, <1>4, <1>10, Zenon DEF Sampled, Last
<1> QED
    BY <1>8, <1>9, <1>12, <1>13, Zenon

\* The invariant implies SampleExact: a preview is the head and the tail of the bytes captured.
LEMMA SampleExactHolds == StoreInv => SampleExact
<1> SUFFICES ASSUME StoreInv, NEW c \in Clients, NEW s \in Streams,
                    capture[c][s].file # None, capture[c][s].at \in {"open", "done"}
             PROVE  LET k == capture[c][s]
                        rest == SubSeq(k.data, HeadLimit + 1, Len(k.data))
                    IN k.sample = [head |-> SubSeq(k.data, 1, HeadLimit), next |-> SubSeq(rest, 1, 1),
                                   tail |-> SubSeq(rest, IF Len(rest) > TailLimit THEN Len(rest) - TailLimit + 1 ELSE 1, Len(rest))]
    BY Zenon DEF SampleExact
<1>1. PICK k : k = capture[c][s]
    OBVIOUS
<1>2. k \in Capture /\ CaptureOK(k) /\ k.file # None /\ k.at \in {"open", "done"}
    BY <1>1, StoreShape
<1>3. k.sample = Sampled(k.data) /\ k.reserved = Len(k.data) /\ k.reserved > MemoryCap
    BY <1>2 DEF CaptureOK
<1>4. PICK d \in Seq(Bytes) : d = k.data
    BY <1>2 DEF Capture
<1>5. PICK n \in Nat : n = Len(d)
    BY <1>4, LenProperties
<1>6. n > HeadLimit
    BY <1>3, <1>4, <1>5, SampleLimits
<1>7. Len(d) > HeadLimit
    BY <1>5, <1>6
<1>8. PICK rest : rest = SubSeq(d, HeadLimit + 1, Len(d))
    BY Zenon
<1>9. Sampled(d) = [head |-> SubSeq(d, 1, HeadLimit), next |-> SubSeq(rest, 1, 1),
                    tail |-> SubSeq(rest, IF Len(rest) > TailLimit THEN Len(rest) - TailLimit + 1 ELSE 1, Len(rest))]
    BY <1>7, <1>8, SampledLong, Zenon
<1> QED
    BY <1>1, <1>3, <1>4, <1>8, <1>9, Zenon

\* The invariant implies StoreSound.
LEMMA StoreInvSound == StoreInv => StoreSound
<1>1. StoreInv => StoreTypeOK
    BY DEF StoreInv, Types, StoreTypeOK
<1> QED
    BY <1>1, BalancedHolds, SpoolOwnedHolds, SampleExactHolds DEF StoreSound

\* The result store keeps its accounts, its spool files and its samples (ResultStore,
\* StoreCapture, ResultLease, CaptureSample), whatever the clients do and whichever write
\* fails.
THEOREM StoreSafety == StoreInit /\ [][StoreNext]_storeVars => []StoreSound
<1>1. StoreInit => StoreInv
    BY StoreInvInit
<1>2. StoreInv /\ [StoreNext]_storeVars => StoreInv'
    BY StoreInvNext
<1>3. StoreInv => StoreSound
    BY StoreInvSound
<1> QED
    BY <1>1, <1>2, <1>3, PTL

-----------------------------------------------------------------------------
(* Aliases                                                                 *)

\* What AliasesRetired says of one step.
Retires ==
    /\ store.next <= store'.next
    /\ \A a \in 1 .. store.next - 1 : a \in DOMAIN store'.aliases =>
          a \in DOMAIN store.aliases /\ store'.aliases[a] = store.aliases[a]

\* A step that gives no alias retires what it drops.
LEMMA RetiresKept ==
    ASSUME StoreInv, store'.next = store.next, DOMAIN store'.aliases \subseteq DOMAIN store.aliases,
           \A a \in DOMAIN store'.aliases : store'.aliases[a] = store.aliases[a]
    PROVE  Retires
<1>1. store.next \in Nat
    BY AliasesFinite DEF StoreInv
<1> QED
    BY <1>1 DEF Retires

\* A commit gives only aliases that were never given.
LEMMA RetiresCommit ==
    ASSUME StoreInv, NEW values, NEW files, Valued(values), Commit(values, files)
    PROVE  Retires
<1>1. CASE Accepted(values, files)
  <2> DEFINE new == FirstNew(values)
             name == Numbered(new)
  <2>1. /\ Cardinality(new) \in Nat
        /\ \A i \in new : name[i] \in store.next .. (store.next + Cardinality(new)) - 1
        /\ store'.next = store.next + Cardinality(new)
        /\ DOMAIN store'.aliases = DOMAIN store.aliases \cup {name[i] : i \in new}
        /\ \A a \in DOMAIN store.aliases : store'.aliases[a] = store.aliases[a]
      BY <1>1, AcceptedStore
  <2> HIDE DEF new, name
  <2>2. store.next \in Nat
      BY AliasesFinite DEF StoreInv
  <2>3. PICK m \in Nat : m = Cardinality(new)
      BY <2>1
  <2>4. store'.next = store.next + m /\ \A i \in new : name[i] \in store.next .. (store.next + m) - 1
      BY <2>1, <2>3
  <2>5. store.next <= store'.next /\ \A i \in new : name[i] \notin 1 .. store.next - 1
      BY <2>2, <2>3, <2>4
  <2> QED
      BY <2>1, <2>5 DEF Retires
<1>2. CASE store' = Reserving(store.pending - Freed(values))
  <2>1. store'.next = store.next /\ store'.aliases = store.aliases
      BY <1>2 DEF Reserving
  <2> QED
      BY <2>1, RetiresKept
<1> QED
    BY Zenon, <1>1, <1>2, CommitCases DEF Accepted

\* Every step of the store gives new aliases or none.
LEMMA RetiresNext == StoreInv /\ [StoreNext]_storeVars => [Retires]_storeVars
<1> SUFFICES ASSUME StoreInv, StoreNext PROVE Retires
    OBVIOUS
<1>1. CASE RetainBytes \/ \E c \in Clients : RetainCaptures(c)
  <2>1. PICK values, files : Committed(values, files)
      BY <1>1, RetainBytesCommit, RetainCapturesCommit
  <2> QED
      BY <2>1, RetiresCommit DEF Committed
<1>2. CASE UNCHANGED store
    BY <1>2, RetiresKept
<1>3. CASE \E n : store' = Reserving(n)
  <2>1. store'.next = store.next /\ store'.aliases = store.aliases
      BY <1>3 DEF Reserving
  <2> QED
      BY <2>1, RetiresKept
<1>4. ASSUME NEW a \in DOMAIN store.aliases, Release(a)
      PROVE  Retires
  <2> DEFINE x == store.aliases[a].data
             b == store.bytes - Len(x)
             e == Keep(store.contents, DOMAIN store.contents \ {x})
             m == Keep(store.aliases, DOMAIN store.aliases \ {a})
  <2>1. store' = [store EXCEPT !.aliases = m, !.bytes = b, !.contents = e]
      BY <1>4, Zenon DEF Release
  <2>2. store = [next |-> store.next, bytes |-> store.bytes, pending |-> store.pending,
                 aliases |-> store.aliases, contents |-> store.contents]
      BY DEF StoreInv, Types
  <2> HIDE DEF m, b, e
  <2>3. store'.next = store.next /\ store'.aliases = m
      BY <2>1, <2>2
  <2>4. DOMAIN m \subseteq DOMAIN store.aliases /\ \A y \in DOMAIN m : m[y] = store.aliases[y]
      BY DEF m, Keep
  <2> QED
      BY <2>3, <2>4, RetiresKept
<1>5. CASE \E a \in DOMAIN store.aliases : \E c \in Clients : Get(c, a)
    BY <1>2, <1>5 DEF Get
<1>6. ASSUME NEW c \in Clients, OpenCaptures(c) \/ DropCaptures(c) \/ DropLease(c)
      PROVE  Retires
  <2>1. \A n : [store EXCEPT !.pending = n] = Reserving(n)
      BY StoreShape
  <2>2. CASE OpenCaptures(c)
      BY <1>2, <2>2 DEF OpenCaptures
  <2>3. CASE DropCaptures(c)
    <3>1. \E n : store' = [store EXCEPT !.pending = n]
        BY <2>3, Zenon DEF DropCaptures
    <3> QED
        BY <1>3, <2>1, <3>1, Zenon
  <2>4. CASE DropLease(c)
      BY <1>2, <2>4 DEF DropLease
  <2> QED
      BY <1>6, <2>2, <2>3, <2>4
<1>7. ASSUME NEW c \in Clients, NEW s \in Streams, Append1(c, s) \/ Written(c, s) \/ FinishCapture(c, s)
      PROVE  Retires
  <2>1. \A n : [store EXCEPT !.pending = n] = Reserving(n)
      BY StoreShape
  <2>2. CASE Append1(c, s)
    <3>1. UNCHANGED store \/ \E n : store' = [store EXCEPT !.pending = n]
        BY <2>2, Zenon DEF Append1
    <3> QED
        BY <1>2, <1>3, <2>1, <3>1, Zenon
  <2>3. CASE Written(c, s) \/ FinishCapture(c, s)
      BY Zenon, <1>2, <2>3 DEF Written, FinishCapture
  <2> QED
      BY <1>7, <2>2, <2>3
<1> QED
    BY <1>1, <1>4, <1>5, <1>6, <1>7 DEF StoreNext

\* An alias is never given twice, and what it stands for does not change while it stands
\* (ResultStore: "Numeric aliases are never reused").
THEOREM AliasesNeverReused == StoreInit /\ [][StoreNext]_storeVars => AliasesRetired
<1>1. StoreInit => StoreInv
    BY StoreInvInit
<1>2. StoreInv /\ [StoreNext]_storeVars => StoreInv'
    BY StoreInvNext
<1>3. StoreInv /\ [StoreNext]_storeVars => [Retires]_storeVars
    BY RetiresNext
<1>4. AliasesRetired <=> [][Retires]_storeVars
    BY DEF AliasesRetired, Retires
<1> QED
    BY <1>1, <1>2, <1>3, <1>4, PTL
=============================================================================
