------------------------ MODULE ResultStoreCaptures ------------------------
(***************************************************************************)
(* The inductive invariant of the result store, and the steps of captures  *)
(* that keep it.                                                           *)
(***************************************************************************)
EXTENDS ResultStoreLemmas

-----------------------------------------------------------------------------
(* The inductive invariant                                                 *)

Sample == [head : Seq(Bytes), next : Seq(Bytes), tail : Seq(Bytes)]
Capture == [at : {"none", "open", "writing", "failed", "done"}, data : Seq(Bytes), chunk : Seq(Bytes),
            file : Nat, reserved : Nat, sample : Sample]

Types ==
    /\ store = [next |-> store.next, bytes |-> store.bytes, pending |-> store.pending,
                aliases |-> store.aliases, contents |-> store.contents]
    /\ store.next \in 1 .. MaxAlias /\ store.bytes \in Nat /\ store.pending \in Nat
    /\ DOMAIN store.aliases \subseteq 1 .. store.next - 1
    /\ \A a \in DOMAIN store.aliases : store.aliases[a].data \in Seq(Bytes) /\ store.aliases[a].file \in Nat
    /\ capture \in [Clients -> [Streams -> Capture]]
    /\ lease \in [Clients -> {None} \cup DOMAIN store.aliases]

Lengths == [a \in DOMAIN store.aliases |-> Len(store.aliases[a].data)]
Reservations == [k \in Captures |-> capture[k[1]][k[2]].reserved]

\* What the numbers of the store stand for, within the quota.
Accounts ==
    /\ store.bytes = Total(Lengths) /\ store.pending = Total(Reservations)
    /\ store.bytes + store.pending <= MaxBytes /\ Cardinality(DOMAIN store.aliases) <= MaxEntries

\* Contents and aliases name each other.
Indexed ==
    /\ \A a \in DOMAIN store.aliases : store.aliases[a].data \in DOMAIN store.contents /\ store.contents[store.aliases[a].data] = a
    /\ \A d \in DOMAIN store.contents : store.contents[d] \in DOMAIN store.aliases /\ store.aliases[store.contents[d]].data = d

\* Every spool file has one owner, an entry or a capture, which finds its bytes there.
Owned ==
    /\ \A a, b \in DOMAIN store.aliases : store.aliases[a].file # None /\ store.aliases[a].file = store.aliases[b].file => a = b
    /\ \A c, d \in Clients : \A s, t \in Streams :
          capture[c][s].file # None /\ capture[c][s].file = capture[d][t].file => c = d /\ s = t
    /\ \A a \in DOMAIN store.aliases : \A c \in Clients : \A s \in Streams :
          store.aliases[a].file # None => store.aliases[a].file # capture[c][s].file
    /\ \A f : f \in DOMAIN spool <=> f # None /\ \/ \E a \in DOMAIN store.aliases : store.aliases[a].file = f
                                                 \/ \E c \in Clients : \E s \in Streams : capture[c][s].file = f
    /\ \A a \in DOMAIN store.aliases : store.aliases[a].file # None => spool[store.aliases[a].file] = store.aliases[a].data
    /\ \A c \in Clients : \A s \in Streams :
          capture[c][s].file # None /\ capture[c][s].at \in {"open", "done"} => spool[capture[c][s].file] = capture[c][s].data

\* What a capture has reserved and observed.
CaptureOK(k) ==
    /\ k.at = "none" => k = Closed
    /\ k.file = None /\ k.at = "open" => k.sample = NoSample /\ k.reserved = 0
    /\ k.file # None /\ k.at \in {"open", "done"} =>
          k.sample = Sampled(k.data) /\ k.reserved = Len(k.data) /\ k.reserved > MemoryCap
    /\ k.at = "writing" =>
          /\ k.file # None /\ k.reserved = Len(k.data) + Len(k.chunk) /\ k.reserved > MemoryCap
          /\ k.sample \in {NoSample, Sampled(k.data)}

Observed == \A c \in Clients : \A s \in Streams : CaptureOK(capture[c][s])

StoreInv == Types /\ Accounts /\ Indexed /\ Owned /\ Observed

-----------------------------------------------------------------------------
(* Initial states                                                          *)

\* A capture that is closed, or just opened, is a capture with nothing reserved.
LEMMA ClosedType == Closed \in Capture /\ Opened \in Capture /\ CaptureOK(Closed) /\ CaptureOK(Opened)
<1>1. << >> \in Seq(Bytes)
    BY EmptySeq
<1>2. NoSample \in Sample
    BY <1>1 DEF NoSample, Sample
<1>3. Closed \in Capture
    BY <1>1, <1>2 DEF Closed, Capture, None
<1>4. Opened \in Capture
    BY Zenon, <1>1, <1>2 DEF Opened, Closed, Capture, None
<1> QED
    BY <1>3, <1>4 DEF CaptureOK, Closed, Opened, None

\* There are finitely many captures, one for each client and stream.
LEMMA CapturesFinite == IsFiniteSet(Captures) /\ Captures = Clients \X Streams
<1>1. Captures = Clients \X Streams
    BY DEF Captures
<1>2. IsFiniteSet(Clients \X Streams)
    BY ClientsAssumption, FS_Product
<1> QED
    BY <1>1, <1>2

\* An empty store satisfies the invariant.
LEMMA StoreInvInit == StoreInit => StoreInv
<1> SUFFICES ASSUME StoreInit PROVE StoreInv
    OBVIOUS
<1>0. DOMAIN store.aliases = {} /\ DOMAIN store.contents = {} /\ DOMAIN spool = {}
    BY DEF StoreInit
<1>1. Types
  <2>1. capture \in [Clients -> [Streams -> Capture]]
      BY ClosedType DEF StoreInit
  <2>2. store = [next |-> store.next, bytes |-> store.bytes, pending |-> store.pending,
                 aliases |-> store.aliases, contents |-> store.contents]
      BY DEF StoreInit
  <2>3. store.next \in 1 .. MaxAlias /\ store.bytes \in Nat /\ store.pending \in Nat
      BY LimitsAssumption DEF StoreInit
  <2> QED
      BY <1>0, <2>1, <2>2, <2>3 DEF Types, StoreInit
<1>2. Accounts
  <2>1. \A x \in DOMAIN Lengths : Lengths[x] = 0
      BY <1>0 DEF Lengths
  <2>2. \A x \in DOMAIN Reservations : Reservations[x] = 0
      BY CapturesFinite DEF Reservations, StoreInit, Closed
  <2>3. Total(Lengths) = 0 /\ Total(Reservations) = 0
      BY <2>1, <2>2, TotalZero
  <2>4. Cardinality(DOMAIN store.aliases) = 0
      BY <1>0, FS_EmptySet
  <2> QED
      BY <2>3, <2>4, LimitsAssumption DEF Accounts, StoreInit
<1>3. Indexed
    BY <1>0 DEF Indexed
<1>4. Owned
    BY <1>0 DEF Owned, StoreInit, Closed
<1>5. Observed
    BY ClosedType DEF Observed, StoreInit
<1> QED
    BY <1>1, <1>2, <1>3, <1>4, <1>5 DEF StoreInv

-----------------------------------------------------------------------------
(* Reservations                                                            *)

\* The reservations of captures are numbers and can be added up.
LEMMA ReservationsSummable ==
    ASSUME capture \in [Clients -> [Streams -> Capture]]
    PROVE  /\ Summable(Reservations) /\ DOMAIN Reservations = Captures
           /\ \A c \in Clients : \A s \in Streams :
                 <<c, s>> \in Captures /\ Reservations[<<c, s>>] = capture[c][s].reserved /\ capture[c][s].reserved \in Nat
<1>1. \A c \in Clients : \A s \in Streams : capture[c][s] \in Capture
    OBVIOUS
<1>2. \A c \in Clients : \A s \in Streams : capture[c][s].reserved \in Nat
    BY <1>1 DEF Capture
<1>3. DOMAIN Reservations = Captures
    BY DEF Reservations
<1>4. \A c \in Clients : \A s \in Streams : <<c, s>> \in Captures /\ Reservations[<<c, s>>] = capture[c][s].reserved
    BY CapturesFinite DEF Reservations
<1>5. \A x \in Captures : Reservations[x] \in Nat
    BY <1>2, CapturesFinite DEF Reservations
<1> QED
    BY <1>2, <1>3, <1>4, <1>5, CapturesFinite DEF Summable

\* One capture changes.
LEMMA ReservationSet ==
    ASSUME capture \in [Clients -> [Streams -> Capture]], NEW c \in Clients, NEW s \in Streams, NEW k \in Capture,
           SetCapture(c, s, k)
    PROVE  /\ capture' \in [Clients -> [Streams -> Capture]] /\ capture'[c][s] = k
           /\ \A d \in Clients : \A t \in Streams : ~(d = c /\ t = s) => capture'[d][t] = capture[d][t]
           /\ Total(Reservations') = Total(Reservations) - capture[c][s].reserved + k.reserved
           /\ Total(Reservations) \in Nat /\ capture[c][s].reserved <= Total(Reservations)
<1>1. capture' = [capture EXCEPT ![c][s] = k]
    BY DEF SetCapture
<1>2. capture' \in [Clients -> [Streams -> Capture]] /\ capture'[c][s] = k
    BY <1>1
<1>3. \A d \in Clients : \A t \in Streams : ~(d = c /\ t = s) => capture'[d][t] = capture[d][t]
    BY <1>1
<1> DEFINE f == Reservations
           g == Reservations'
           x == <<c, s>>
<1>4. Summable(f) /\ DOMAIN f = Captures /\ x \in Captures /\ f[x] = capture[c][s].reserved
    BY ReservationsSummable
<1>5. DOMAIN g = Captures /\ g[x] = k.reserved /\ k.reserved \in Nat
    BY <1>2, CapturesFinite DEF Reservations, Capture
<1>6. \A y \in Captures \ {x} : g[y] = f[y]
  <2> SUFFICES ASSUME NEW y \in Captures \ {x} PROVE g[y] = f[y]
      OBVIOUS
  <2>1. PICK d \in Clients, t \in Streams : y = <<d, t>>
      BY CapturesFinite
  <2>2. ~(d = c /\ t = s)
      BY <2>1
  <2>3. g[y] = capture'[d][t].reserved /\ f[y] = capture[d][t].reserved
      BY <2>1 DEF Reservations
  <2> QED
      BY <1>3, <2>2, <2>3
<1>7. Total(f) \in Nat
    BY <1>4, TotalType
<1>8. Total(g) = Total(f) - f[x] + g[x] /\ f[x] <= Total(f)
  <2> HIDE DEF f, g, x
  <2> QED
      BY <1>4, <1>5, <1>6, TotalChanged
<1> QED
    BY <1>2, <1>3, <1>4, <1>5, <1>7, <1>8

OfClient(c) == [s \in Streams |-> capture[c][s].reserved]

\* All the captures of a client change, to such as have reserved nothing.
LEMMA ReservationsCleared ==
    ASSUME capture \in [Clients -> [Streams -> Capture]], NEW c \in Clients, NEW k \in Capture, k.reserved = 0,
           capture' = [capture EXCEPT ![c] = [s \in Streams |-> k]]
    PROVE  /\ capture' \in [Clients -> [Streams -> Capture]]
           /\ \A s \in Streams : capture'[c][s] = k
           /\ \A d \in Clients \ {c} : capture'[d] = capture[d]
           /\ Total(Reservations') = Total(Reservations) - Total(OfClient(c))
           /\ Total(Reservations) \in Nat /\ Total(OfClient(c)) \in Nat /\ Total(OfClient(c)) <= Total(Reservations)
<1>1. /\ capture' \in [Clients -> [Streams -> Capture]]
      /\ \A s \in Streams : capture'[c][s] = k
      /\ \A d \in Clients \ {c} : capture'[d] = capture[d]
    OBVIOUS
<1> DEFINE f == Reservations
           g == Reservations'
           mine == [x \in {c} \X Streams |-> capture[x[1]][x[2]].reserved]
           none == [x \in {c} \X Streams |-> 0]
           others == [x \in (Clients \ {c}) \X Streams |-> capture[x[1]][x[2]].reserved]
           o == OfClient(c)
           b == [s \in Streams |-> <<c, s>>]
<1>2. IsFiniteSet({c} \X Streams) /\ IsFiniteSet((Clients \ {c}) \X Streams) /\ IsFiniteSet(Streams)
  <2>1. IsFiniteSet({c}) /\ IsFiniteSet(Clients \ {c}) /\ IsFiniteSet(Streams)
      BY Zenon, FS_Singleton, FS_Difference, ClientsAssumption
  <2> QED
      BY <2>1, FS_Product
<1>3. \A d \in Clients : \A s \in Streams : capture[d][s].reserved \in Nat
    BY Zenon, ReservationsSummable
<1>4. Summable(mine) /\ Summable(none) /\ Summable(others) /\ Summable(o)
    BY <1>2, <1>3 DEF Summable, OfClient
<1>5. /\ DOMAIN mine = {c} \X Streams /\ DOMAIN none = {c} \X Streams /\ DOMAIN others = (Clients \ {c}) \X Streams
      /\ DOMAIN f = Clients \X Streams /\ DOMAIN g = Clients \X Streams /\ DOMAIN o = Streams
    BY CapturesFinite DEF Reservations, OfClient
<1>6. /\ Clients \X Streams = ({c} \X Streams) \cup ((Clients \ {c}) \X Streams)
      /\ ({c} \X Streams) \cap ((Clients \ {c}) \X Streams) = {}
    OBVIOUS
<1>7. \A x \in {c} \X Streams : f[x] = mine[x] /\ g[x] = none[x]
  <2> SUFFICES ASSUME NEW x \in {c} \X Streams PROVE f[x] = mine[x] /\ g[x] = none[x]
      OBVIOUS
  <2>1. x \in Captures /\ x[1] = c /\ x[2] \in Streams
      BY CapturesFinite
  <2> QED
      BY <1>1, <2>1 DEF Reservations
<1>8. \A x \in (Clients \ {c}) \X Streams : f[x] = others[x] /\ g[x] = others[x]
  <2> SUFFICES ASSUME NEW x \in (Clients \ {c}) \X Streams PROVE f[x] = others[x] /\ g[x] = others[x]
      OBVIOUS
  <2>1. x \in Captures /\ x[1] \in Clients \ {c} /\ x[2] \in Streams
      BY CapturesFinite
  <2> QED
      BY <1>1, <2>1 DEF Reservations
<1>9. b \in Bijection(Streams, {c} \X Streams) /\ \A s \in Streams : mine[b[s]] = o[s]
    BY DEF Bijection, Injection, Surjection, IsInjective, OfClient
<1>10. \A x \in {c} \X Streams : none[x] = 0
    OBVIOUS
<1> HIDE DEF f, g, mine, none, others, o, b
<1>11. Total(f) = Total(mine) + Total(others)
    BY Zenon, <1>4, <1>5, <1>6, <1>7, <1>8, TotalParts
<1>12. Total(g) = Total(none) + Total(others)
    BY Zenon, <1>4, <1>5, <1>6, <1>7, <1>8, TotalParts
<1>13. Total(none) = 0
    BY <1>5, <1>10, TotalZero
<1>14. Total(mine) = Total(o)
    BY <1>4, <1>5, <1>9, TotalRenamed
<1>15. Total(mine) \in Nat /\ Total(others) \in Nat
    BY <1>4, TotalType
<1>16. Total(g) = Total(f) - Total(o) /\ Total(f) \in Nat /\ Total(o) \in Nat /\ Total(o) <= Total(f)
    BY <1>11, <1>12, <1>13, <1>14, <1>15
<1> QED
    BY <1>1, <1>16 DEF f, g, o

-----------------------------------------------------------------------------
(* Names of spool files                                                    *)

\* A store holds finitely many aliases.
LEMMA AliasesFinite == Types => IsFiniteSet(DOMAIN store.aliases) /\ store.next \in Nat
<1> SUFFICES ASSUME Types PROVE IsFiniteSet(DOMAIN store.aliases) /\ store.next \in Nat
    OBVIOUS
<1>1. store.next \in Nat /\ DOMAIN store.aliases \subseteq 1 .. store.next - 1
    BY LimitsAssumption DEF Types
<1>2. IsFiniteSet(1 .. store.next - 1)
    BY <1>1, FS_Interval
<1> QED
    BY <1>1, <1>2, FS_Subset

\* There are finitely many spool files, since each has an owner.
LEMMA SpoolFinite == Types /\ Owned => IsFiniteSet(DOMAIN spool)
<1> SUFFICES ASSUME Types, Owned PROVE IsFiniteSet(DOMAIN spool)
    OBVIOUS
<1> DEFINE D == DOMAIN store.aliases
           A == {store.aliases[a].file : a \in D}
           B == {capture[k[1]][k[2]].file : k \in Captures}
<1>1. [a \in D |-> store.aliases[a].file] \in Surjection(D, A)
    BY DEF Surjection
<1>2. [k \in Captures |-> capture[k[1]][k[2]].file] \in Surjection(Captures, B)
    BY DEF Surjection
<1>3. IsFiniteSet(A) /\ IsFiniteSet(B)
  <2>1. IsFiniteSet(D)
      BY AliasesFinite
  <2> HIDE DEF D, A, B
  <2> QED
      BY <1>1, <1>2, <2>1, CapturesFinite, FS_Surjection
<1>4. DOMAIN spool \subseteq A \cup B
  <2> SUFFICES ASSUME NEW f \in DOMAIN spool PROVE f \in A \cup B
      OBVIOUS
  <2>1. CASE \E a \in DOMAIN store.aliases : store.aliases[a].file = f
      BY <2>1
  <2>2. CASE \E c \in Clients : \E s \in Streams : capture[c][s].file = f
    <3>1. PICK c \in Clients, s \in Streams : capture[c][s].file = f
        BY <2>2
    <3>2. <<c, s>> \in Captures /\ capture[<<c, s>>[1]][<<c, s>>[2]].file = f
        BY <3>1, CapturesFinite
    <3> QED
        BY <3>2
  <2> QED
      BY <2>1, <2>2 DEF Owned
<1>5. IsFiniteSet(A \cup B)
  <2> HIDE DEF A, B
  <2> QED
      BY Zenon, <1>3, FS_Union
<1> QED
  <2> HIDE DEF A, B
  <2> QED
      BY <1>4, <1>5, FS_Subset

\* There are as many names as wanted that no file has.
LEMMA FreshNames ==
    ASSUME IsFiniteSet(DOMAIN spool), NEW n \in Nat
    PROVE  /\ Fresh(n) \in [1 .. n -> (Nat \ {0}) \ DOMAIN spool]
           /\ \A i, j \in 1 .. n : Fresh(n)[i] = Fresh(n)[j] => i = j
<1> DEFINE D == DOMAIN spool
           k == Cardinality(D)
           I == 1 .. k + n
           U == I \ D
           P(names) == \A i, j \in 1 .. n : names[i] = names[j] => i = j
<1>1. k \in Nat
    BY FS_CardinalityType
<1>2. IsFiniteSet(I) /\ Cardinality(I) = k + n
  <2> HIDE DEF k
  <2>1. k + n \in Int /\ (IF 1 > k + n THEN 0 ELSE k + n - 1 + 1) = k + n
      BY <1>1
  <2>2. IsFiniteSet(1 .. k + n) /\ Cardinality(1 .. k + n) = IF 1 > k + n THEN 0 ELSE k + n - 1 + 1
      BY <2>1, FS_Interval
  <2> QED
      BY <2>1, <2>2
<1>3. IsFiniteSet(U) /\ Cardinality(U) \in Nat /\ Cardinality(U) >= n
  <2> HIDE DEF I, k
  <2>1. IsFiniteSet(U) /\ Cardinality(U) = Cardinality(I) - Cardinality(I \cap D)
      BY <1>2, FS_Difference
  <2>2. Cardinality(D \cap I) <= k /\ IsFiniteSet(D \cap I) /\ I \cap D = D \cap I
      BY FS_Intersection DEF k
  <2>3. Cardinality(U) \in Nat /\ Cardinality(D \cap I) \in Nat
      BY <2>1, <2>2, FS_CardinalityType
  <2>4. PICK v \in Nat : v = Cardinality(D \cap I)
      BY <2>3
  <2>5. Cardinality(U) = (k + n) - v /\ v <= k
      BY <1>2, <2>1, <2>2, <2>4, Zenon
  <2>6. PICK u \in Nat : u = Cardinality(U)
      BY <2>3
  <2>7. u = (k + n) - v
      BY <2>5, <2>6, Zenon
  <2>8. u >= n
      BY <1>1, <2>5, <2>7
  <2> QED
      BY <2>1, <2>6, <2>8
<1>4. PICK b : b \in Bijection(1 .. Cardinality(U), U)
  <2> HIDE DEF U
  <2> QED
      BY <1>3, FS_CardinalityType DEF ExistsBijection
<1>5. /\ \A i \in 1 .. Cardinality(U) : b[i] \in U
      /\ \A i, j \in 1 .. Cardinality(U) : b[i] = b[j] => i = j
  <2> HIDE DEF U
  <2> QED
      BY <1>4 DEF Bijection, Injection, IsInjective
<1>6. 1 .. n \subseteq 1 .. Cardinality(U)
  <2> HIDE DEF U
  <2> QED
      BY <1>3
<1>7. [i \in 1 .. n |-> b[i]] \in [1 .. n -> U] /\ P([i \in 1 .. n |-> b[i]])
  <2> HIDE DEF U
  <2> QED
      BY <1>5, <1>6
<1>8. \E names \in [1 .. n -> U] : P(names)
  <2> HIDE DEF U, P
  <2> QED
      BY <1>7
<1>9. Fresh(n) = CHOOSE names \in [1 .. n -> U] : P(names)
    BY DEF Fresh
<1>10. Fresh(n) \in [1 .. n -> U] /\ P(Fresh(n))
  <2> HIDE DEF U, P
  <2> QED
      BY <1>8, <1>9
<1>11. U \subseteq (Nat \ {0}) \ DOMAIN spool
  <2> HIDE DEF k
  <2> QED
      BY <1>1
<1> QED
  <2> HIDE DEF U
  <2> QED
      BY Zenon, <1>10, <1>11

-----------------------------------------------------------------------------
(* Steps of captures                                                       *)

\* The store with another sum of reservations.
Reserving(n) ==
    [next |-> store.next, bytes |-> store.bytes, pending |-> n, aliases |-> store.aliases, contents |-> store.contents]

\* What spool' holds, but for the file f.
SpoolKept(f) == \A g \in DOMAIN spool : g # f => g \in DOMAIN spool' /\ spool'[g] = spool[g]

\* A capture takes the value k, with n more bytes reserved, and keeps its file or gets one.
LEMMA CaptureStep ==
    ASSUME StoreInv, NEW c \in Clients, NEW s \in Streams, NEW k \in Capture, NEW n \in Nat,
           SetCapture(c, s, k), CaptureOK(k), UNCHANGED lease, store' = Reserving(store.pending + n),
           k.reserved = capture[c][s].reserved + n, store.bytes + store.pending + n <= MaxBytes,
           SpoolKept(k.file), \A f \in DOMAIN spool' : f \in DOMAIN spool \/ f = k.file,
           None \notin DOMAIN spool', k.file # None => k.file \in DOMAIN spool',
           k.file # None /\ k.at \in {"open", "done"} => spool'[k.file] = k.data,
           k.file = capture[c][s].file \/ (capture[c][s].file = None /\ k.file \notin DOMAIN spool)
    PROVE  StoreInv'
<1>0. capture \in [Clients -> [Streams -> Capture]]
    BY DEF StoreInv, Types
<1>1. /\ capture' \in [Clients -> [Streams -> Capture]] /\ capture'[c][s] = k
      /\ \A d \in Clients : \A t \in Streams : ~(d = c /\ t = s) => capture'[d][t] = capture[d][t]
    BY <1>0, ReservationSet
<1>2. /\ Total(Reservations') = Total(Reservations) - capture[c][s].reserved + k.reserved
      /\ Total(Reservations) \in Nat
    BY <1>0, ReservationSet
<1>3. store'.next = store.next /\ store'.bytes = store.bytes /\ store'.aliases = store.aliases
      /\ store'.contents = store.contents /\ store'.pending = store.pending + n
    BY DEF Reserving
<1>4. Types'
  <2>1. store' = [next |-> store'.next, bytes |-> store'.bytes, pending |-> store'.pending,
                  aliases |-> store'.aliases, contents |-> store'.contents]
      BY DEF Reserving
  <2>2. store'.pending \in Nat
      BY <1>3 DEF StoreInv, Types
  <2> QED
      BY <1>1, <1>3, <2>1, <2>2 DEF StoreInv, Types
<1>5. Accounts'
  <2>1. Lengths' = Lengths
      BY <1>3 DEF Lengths
  <2>2. capture[c][s].reserved \in Nat
      BY <1>0 DEF Capture
  <2>3. store'.pending = Total(Reservations')
      BY <1>2, <1>3, <2>2 DEF StoreInv, Accounts
  <2>4. store'.bytes + store'.pending <= MaxBytes
      BY <1>3, LimitsAssumption DEF StoreInv, Types
  <2> QED
      BY <1>3, <2>1, <2>3, <2>4 DEF StoreInv, Accounts
<1>6. Indexed'
    BY <1>3 DEF StoreInv, Indexed
<1>7. Observed'
    BY <1>1 DEF StoreInv, Observed
<1>8. Owned'
  <2> DEFINE f == capture[c][s].file
  <2>0. Owned
      BY DEF StoreInv
  <2>1. \A a \in DOMAIN store.aliases : store.aliases[a].file # None => store.aliases[a].file # k.file
      BY <2>0 DEF Owned
  <2>2. \A d \in Clients : \A t \in Streams : ~(d = c /\ t = s) /\ capture[d][t].file # None => capture[d][t].file # k.file
      BY <2>0 DEF Owned
  <2>3. \A a, b \in DOMAIN store'.aliases : store'.aliases[a].file # None /\ store'.aliases[a].file = store'.aliases[b].file => a = b
      BY <1>3, <2>0 DEF Owned
  <2>4. \A d, e \in Clients : \A t, u \in Streams :
            capture'[d][t].file # None /\ capture'[d][t].file = capture'[e][u].file => d = e /\ t = u
    <3> SUFFICES ASSUME NEW d \in Clients, NEW e \in Clients, NEW t \in Streams, NEW u \in Streams,
                        capture'[d][t].file # None, capture'[d][t].file = capture'[e][u].file
                 PROVE  d = e /\ t = u
        OBVIOUS
    <3>1. CASE d = c /\ t = s
        BY <1>1, <2>2, <3>1
    <3>2. CASE e = c /\ u = s
        BY <1>1, <2>2, <3>2
    <3>3. CASE ~(d = c /\ t = s) /\ ~(e = c /\ u = s)
      <4>1. capture'[d][t] = capture[d][t] /\ capture'[e][u] = capture[e][u]
          BY <1>1, <3>3
      <4> QED
          BY <2>0, <4>1 DEF Owned
    <3> QED
        BY <3>1, <3>2, <3>3
  <2>5. \A a \in DOMAIN store'.aliases : \A d \in Clients : \A t \in Streams :
            store'.aliases[a].file # None => store'.aliases[a].file # capture'[d][t].file
    <3> SUFFICES ASSUME NEW a \in DOMAIN store.aliases, NEW d \in Clients, NEW t \in Streams, store.aliases[a].file # None
                 PROVE  store.aliases[a].file # capture'[d][t].file
        BY <1>3
    <3>1. CASE d = c /\ t = s
        BY <1>1, <2>1, <3>1
    <3>2. CASE ~(d = c /\ t = s)
        BY <1>1, <2>0, <3>2 DEF Owned
    <3> QED
        BY <3>1, <3>2
  <2>6. \A g : g \in DOMAIN spool' <=> g # None /\ \/ \E a \in DOMAIN store'.aliases : store'.aliases[a].file = g
                                                   \/ \E d \in Clients : \E t \in Streams : capture'[d][t].file = g
    <3> SUFFICES ASSUME NEW g
                 PROVE  g \in DOMAIN spool' <=> g # None /\ \/ \E a \in DOMAIN store.aliases : store.aliases[a].file = g
                                                            \/ \E d \in Clients : \E t \in Streams : capture'[d][t].file = g
        BY <1>3
    <3>0. g \in DOMAIN spool <=> g # None /\ \/ \E a \in DOMAIN store.aliases : store.aliases[a].file = g
                                             \/ \E d \in Clients : \E t \in Streams : capture[d][t].file = g
        BY <2>0 DEF Owned
    <3>1. CASE g = k.file
      <4>1. k.file = None => k.file \notin DOMAIN spool'
          OBVIOUS
      <4> QED
          BY <1>1, <3>1, <4>1
    <3>2. CASE g # k.file
      <4>1. g \in DOMAIN spool' <=> g \in DOMAIN spool
          BY <3>2 DEF SpoolKept
      <4>2. (\E d \in Clients : \E t \in Streams : capture'[d][t].file = g)
            <=> (\E d \in Clients : \E t \in Streams : ~(d = c /\ t = s) /\ capture[d][t].file = g)
          BY <1>1, <3>2
      <4>3. g # None => capture[c][s].file # g
          BY <3>2
      <4> QED
          BY <3>0, <4>1, <4>2, <4>3
    <3> QED
        BY <3>1, <3>2
  <2>7. \A a \in DOMAIN store'.aliases : store'.aliases[a].file # None => spool'[store'.aliases[a].file] = store'.aliases[a].data
    <3> SUFFICES ASSUME NEW a \in DOMAIN store.aliases, store.aliases[a].file # None
                 PROVE  spool'[store.aliases[a].file] = store.aliases[a].data
        BY <1>3
    <3>1. store.aliases[a].file \in DOMAIN spool /\ spool[store.aliases[a].file] = store.aliases[a].data
        BY <2>0 DEF Owned
    <3> QED
        BY <2>1, <3>1 DEF SpoolKept
  <2>8. \A d \in Clients : \A t \in Streams :
            capture'[d][t].file # None /\ capture'[d][t].at \in {"open", "done"} => spool'[capture'[d][t].file] = capture'[d][t].data
    <3> SUFFICES ASSUME NEW d \in Clients, NEW t \in Streams,
                        capture'[d][t].file # None, capture'[d][t].at \in {"open", "done"}
                 PROVE  spool'[capture'[d][t].file] = capture'[d][t].data
        OBVIOUS
    <3>1. CASE d = c /\ t = s
        BY <1>1, <3>1
    <3>2. CASE ~(d = c /\ t = s)
      <4>1. capture'[d][t] = capture[d][t]
          BY <1>1, <3>2
      <4>2. capture[d][t].file \in DOMAIN spool /\ spool[capture[d][t].file] = capture[d][t].data
          BY <2>0, <4>1 DEF Owned
      <4>3. capture[d][t].file # k.file
          BY <2>2, <3>2, <4>1
      <4> QED
          BY <4>1, <4>2, <4>3 DEF SpoolKept
    <3> QED
        BY <3>1, <3>2
  <2> QED
      BY <2>3, <2>4, <2>5, <2>6, <2>7, <2>8 DEF Owned
<1> QED
    BY <1>4, <1>5, <1>6, <1>7, <1>8 DEF StoreInv

\* The spool as it was suits a capture that keeps its file.
LEMMA SpoolSame ==
    ASSUME StoreInv, NEW c \in Clients, NEW s \in Streams, UNCHANGED spool
    PROVE  /\ \A f : SpoolKept(f) /\ None \notin DOMAIN spool'
           /\ capture[c][s].file # None => capture[c][s].file \in DOMAIN spool'
           /\ capture[c][s].file # None /\ capture[c][s].at \in {"open", "done"} => spool'[capture[c][s].file] = capture[c][s].data
BY DEF SpoolKept, StoreInv, Owned

\* A store with its pending bytes unchanged is the same store, within the quota.
LEMMA StoreShape ==
    ASSUME StoreInv
    PROVE  /\ store = Reserving(store.pending + 0)
           /\ store.bytes + store.pending + 0 <= MaxBytes
           /\ \A n : [store EXCEPT !.pending = n] = Reserving(n)
           /\ \A c \in Clients : \A s \in Streams : capture[c][s] \in Capture /\ CaptureOK(capture[c][s])
<1>1. store = [next |-> store.next, bytes |-> store.bytes, pending |-> store.pending,
               aliases |-> store.aliases, contents |-> store.contents]
    BY DEF StoreInv, Types
<1>2. \A n : [store EXCEPT !.pending = n] = Reserving(n)
  <2> TAKE n
  <2> DEFINE z == store.next
             y == store.bytes
             x == store.pending
             w == store.aliases
             v == store.contents
  <2>1. store = [next |-> z, bytes |-> y, pending |-> x, aliases |-> w, contents |-> v]
      BY <1>1
  <2>2. Reserving(n) = [next |-> z, bytes |-> y, pending |-> n, aliases |-> w, contents |-> v]
      BY DEF Reserving
  <2> HIDE DEF z, y, x, w, v
  <2>3. [[next |-> z, bytes |-> y, pending |-> x, aliases |-> w, contents |-> v] EXCEPT !.pending = n]
        = [next |-> z, bytes |-> y, pending |-> n, aliases |-> w, contents |-> v]
      OBVIOUS
  <2> QED
      BY <2>1, <2>2, <2>3
<1>3. store.pending + 0 = store.pending /\ store.bytes + store.pending + 0 = store.bytes + store.pending
    BY DEF StoreInv, Types
<1>4. \A c \in Clients : \A s \in Streams : capture[c][s] \in Capture /\ CaptureOK(capture[c][s])
    BY DEF StoreInv, Types, Observed
<1> QED
    BY <1>1, <1>2, <1>3, <1>4 DEF Reserving, StoreInv, Accounts

\* StoreCapture::finish keeps the invariant, when the flush fails too.
LEMMA FinishInv ==
    ASSUME StoreInv, NEW c \in Clients, NEW s \in Streams, FinishCapture(c, s)
    PROVE  StoreInv'
<1> DEFINE k == capture[c][s]
<1>0. k \in Capture /\ CaptureOK(k)
    BY StoreShape
<1>1. PICK at \in {"done", "failed"} : SetCapture(c, s, [k EXCEPT !.at = at])
    BY DEF FinishCapture
<1> DEFINE l == [k EXCEPT !.at = at]
<1>2. /\ l \in Capture /\ l.at = at /\ l.file = k.file /\ l.data = k.data /\ l.reserved = k.reserved
      /\ l.sample = k.sample /\ l.chunk = k.chunk
    BY <1>0, <1>1 DEF Capture
<1>3. k.at = "open" /\ UNCHANGED <<store, lease, spool>>
    BY DEF FinishCapture
<1>4. CaptureOK(l)
  <2> HIDE DEF l
  <2> QED
      BY Zenon, <1>0, <1>2, <1>3 DEF CaptureOK
<1>5. store' = Reserving(store.pending + 0) /\ store.bytes + store.pending + 0 <= MaxBytes /\ l.reserved = k.reserved + 0
  <2>1. k.reserved \in Nat
      BY <1>0 DEF Capture
  <2> QED
      BY <1>2, <1>3, <2>1, StoreShape
<1>6. /\ SpoolKept(l.file) /\ (\A f \in DOMAIN spool' : f \in DOMAIN spool \/ f = l.file) /\ None \notin DOMAIN spool'
      /\ l.file # None => l.file \in DOMAIN spool'
      /\ l.file # None /\ l.at \in {"open", "done"} => spool'[l.file] = l.data
    BY <1>2, <1>3, SpoolSame
<1>7. SetCapture(c, s, l)
    BY <1>1
<1>8. l.file = capture[c][s].file /\ l.reserved = capture[c][s].reserved + 0
    BY <1>2, <1>5
<1> HIDE DEF l, k
<1> QED
    BY <1>2, <1>3, <1>4, <1>5, <1>6, <1>7, <1>8, CaptureStep

\* A capture with some of its fields changed.
LEMMA CaptureField ==
    ASSUME NEW k \in Capture
    PROVE  /\ \A a \in {"none", "open", "writing", "failed", "done"} : [k EXCEPT !.at = a] \in Capture
           /\ \A d \in Seq(Bytes) : [k EXCEPT !.data = d] \in Capture /\ [k EXCEPT !.chunk = d] \in Capture
           /\ \A n \in Nat : [k EXCEPT !.file = n] \in Capture /\ [k EXCEPT !.reserved = n] \in Capture
           /\ \A z \in Sample : [k EXCEPT !.sample = z] \in Capture
<1>1. ASSUME NEW a \in {"none", "open", "writing", "failed", "done"} PROVE [k EXCEPT !.at = a] \in Capture
    BY DEF Capture
<1>2. ASSUME NEW d \in Seq(Bytes) PROVE [k EXCEPT !.data = d] \in Capture /\ [k EXCEPT !.chunk = d] \in Capture
    BY Zenon DEF Capture
<1>3. ASSUME NEW n \in Nat PROVE [k EXCEPT !.file = n] \in Capture /\ [k EXCEPT !.reserved = n] \in Capture
    BY DEF Capture
<1>4. ASSUME NEW z \in Sample PROVE [k EXCEPT !.sample = z] \in Capture
    BY DEF Capture
<1> QED
    BY <1>1, <1>2, <1>3, <1>4, Zenon

\* A capture that has reserved bytes and goes on to write, or fails, is a capture.
LEMMA CaptureReserved ==
    ASSUME NEW k \in Capture, NEW n \in Nat, NEW b \in Seq(Bytes), NEW f \in Nat
    PROVE  /\ [k EXCEPT !.reserved = n, !.at = "failed"] \in Capture
           /\ [k EXCEPT !.reserved = n, !.chunk = b, !.at = "writing"] \in Capture
           /\ [k EXCEPT !.reserved = n, !.chunk = b, !.at = "writing", !.file = f] \in Capture
<1>1. PICK k1 \in Capture : k1 = [k EXCEPT !.reserved = n]
    BY CaptureField, Zenon
<1>2. PICK k2 \in Capture : k2 = [k1 EXCEPT !.chunk = b]
    BY CaptureField, Zenon
<1>3. PICK k3 \in Capture : k3 = [k2 EXCEPT !.at = "writing"]
    BY CaptureField, Zenon
<1>4. [k1 EXCEPT !.at = "failed"] \in Capture /\ [k3 EXCEPT !.file = f] \in Capture
    BY CaptureField, Zenon
<1>5. [k EXCEPT !.reserved = n, !.at = "failed"] = [k1 EXCEPT !.at = "failed"]
    BY <1>1
<1>6. [k EXCEPT !.reserved = n, !.chunk = b, !.at = "writing"] = [k2 EXCEPT !.at = "writing"]
    BY <1>1, <1>2
<1>7. [k EXCEPT !.reserved = n, !.chunk = b, !.at = "writing", !.file = f] = [k3 EXCEPT !.file = f]
    BY <1>1, <1>2, <1>3
<1> QED
    BY <1>3, <1>4, <1>5, <1>6, <1>7, Zenon

\* A capture whose bytes were written is a capture.
LEMMA CaptureWritten ==
    ASSUME NEW k \in Capture, NEW d \in Seq(Bytes), NEW z \in Sample
    PROVE  [k EXCEPT !.at = "open", !.data = d, !.chunk = << >>, !.sample = z] \in Capture
<1>1. PICK k1 \in Capture : k1 = [k EXCEPT !.at = "open"]
    BY CaptureField, Zenon
<1>2. PICK k2 \in Capture : k2 = [k1 EXCEPT !.data = d]
    BY CaptureField, Zenon
<1>3. << >> \in Seq(Bytes)
    BY EmptySeq
<1>4. PICK k3 \in Capture : k3 = [k2 EXCEPT !.chunk = << >>]
    BY <1>3, CaptureField, Zenon
<1>5. [k3 EXCEPT !.sample = z] \in Capture
    BY CaptureField, Zenon
<1>6. [k EXCEPT !.at = "open", !.data = d, !.chunk = << >>, !.sample = z] = [k3 EXCEPT !.sample = z]
    BY <1>1, <1>2, <1>4
<1> QED
    BY <1>5, <1>6, Zenon

\* StoreCapture::append up to its write keeps the invariant: in memory, refused, without a file, or spooled.
LEMMA AppendInv ==
    ASSUME StoreInv, NEW c \in Clients, NEW s \in Streams, Append1(c, s)
    PROVE  StoreInv'
<1> DEFINE k == capture[c][s]
<1>0. k \in Capture /\ CaptureOK(k)
    BY StoreShape
<1> DEFINE Length(b) == Len(k.data) + Len(b)
           Wanted(b) == IF k.file = None THEN Length(b) ELSE Len(b)
           Set(l) == SetCapture(c, s, l)
           InMemory(b) == /\ k.file = None /\ Length(b) <= MemoryCap
                          /\ Set([k EXCEPT !.data = k.data \o b]) /\ UNCHANGED <<store, spool>>
           Refused(b) == Set([k EXCEPT !.at = "failed"]) /\ UNCHANGED <<store, spool>>
           Spooled(b) ==
              /\ ~(k.file = None /\ Length(b) <= MemoryCap) /\ Reserve(Wanted(b))
              /\ store' = [store EXCEPT !.pending = store.pending + Wanted(b)]
              /\ \/ /\ k.file = None /\ spool' = Put(spool, NewFile, <<>>)
                    /\ Set([k EXCEPT !.reserved = k.reserved + Wanted(b), !.chunk = b, !.at = "writing", !.file = NewFile])
                 \/ /\ UNCHANGED spool
                    /\ Set([k EXCEPT !.reserved = k.reserved + Wanted(b), !.at = "failed"])
                 \/ /\ k.file # None /\ UNCHANGED spool
                    /\ Set([k EXCEPT !.reserved = k.reserved + Wanted(b), !.chunk = b, !.at = "writing"])
<1>1. PICK chunk \in Chunks : k.at = "open" /\ UNCHANGED lease /\ (InMemory(chunk) \/ Refused(chunk) \/ Spooled(chunk))
    BY Zenon DEF Append1
<1> DEFINE length == Length(chunk)
           wanted == Wanted(chunk)
<1>2. /\ k.at = "open" /\ UNCHANGED lease /\ chunk \in Seq(Bytes) /\ Len(chunk) \in Nat /\ k.data \in Seq(Bytes)
      /\ Len(k.data) \in Nat /\ length \in Nat /\ wanted \in Nat /\ k.reserved \in Nat /\ k.file \in Nat
  <2>1. k.at = "open" /\ UNCHANGED lease
      BY <1>1
  <2>2. chunk \in Seq(Bytes)
      BY BytesAssumption
  <2>3. k.data \in Seq(Bytes) /\ k.reserved \in Nat /\ k.file \in Nat
      BY <1>0 DEF Capture
  <2>4. Len(chunk) \in Nat /\ Len(k.data) \in Nat
      BY <2>2, <2>3, LenProperties
  <2> QED
      BY <2>1, <2>2, <2>3, <2>4
<1>3. CASE InMemory(chunk)
  <2>1. k.data \o chunk \in Seq(Bytes)
      BY <1>2, ConcatProperties
  <2>7. PICK d : d = k.data \o chunk /\ d \in Seq(Bytes)
      BY <2>1, Zenon
  <2>8. d \in Seq(Bytes)
      BY <2>7
  <2> DEFINE l == [k EXCEPT !.data = d]
  <2>2. l \in Capture /\ l.at = k.at /\ l.file = k.file /\ l.reserved = k.reserved + 0 /\ l.sample = k.sample
    <3> HIDE DEF k, length, wanted
    <3>1. l \in Capture
        BY <1>0, <2>8, CaptureField, Zenon
    <3> QED
        BY <1>0, <3>1 DEF Capture
  <2>3. CaptureOK(l)
    <3> HIDE DEF l
    <3> QED
        BY <1>0, <1>2, <1>3, <2>2 DEF CaptureOK
  <2>4. store' = Reserving(store.pending + 0) /\ store.bytes + store.pending + 0 <= MaxBytes
      BY <1>3, StoreShape
  <2>5. SpoolKept(l.file) /\ (\A f \in DOMAIN spool' : f \in DOMAIN spool \/ f = l.file) /\ None \notin DOMAIN spool'
      BY <1>3, SpoolSame
  <2>6. SetCapture(c, s, l) /\ l.file = None /\ l.file = capture[c][s].file /\ l.reserved = capture[c][s].reserved + 0
    <3>1. SetCapture(c, s, l)
        BY <1>3, <2>7, Zenon
    <3> QED
        BY <1>3, <2>2, <3>1
  <2> HIDE DEF l, k
  <2> QED
      BY <1>2, <2>2, <2>3, <2>4, <2>5, <2>6, CaptureStep
<1>4. CASE Refused(chunk)
  <2> DEFINE l == [k EXCEPT !.at = "failed"]
  <2>2. l \in Capture /\ l.at = "failed" /\ l.file = k.file /\ l.reserved = k.reserved + 0 /\ l.sample = k.sample
      BY <1>0, <1>2 DEF Capture
  <2>3. CaptureOK(l)
    <3> HIDE DEF l
    <3> QED
        BY <2>2 DEF CaptureOK
  <2>4. store' = Reserving(store.pending + 0) /\ store.bytes + store.pending + 0 <= MaxBytes
      BY <1>4, StoreShape
  <2>5. /\ SpoolKept(l.file) /\ (\A f \in DOMAIN spool' : f \in DOMAIN spool \/ f = l.file) /\ None \notin DOMAIN spool'
        /\ l.file # None => l.file \in DOMAIN spool'
      BY <1>4, <2>2, SpoolSame
  <2>6. SetCapture(c, s, l) /\ l.file = capture[c][s].file /\ l.reserved = capture[c][s].reserved + 0
      BY <1>4, <2>2
  <2> HIDE DEF l, k
  <2> QED
      BY <1>2, <2>2, <2>3, <2>4, <2>5, <2>6, CaptureStep
<1>5. CASE Spooled(chunk)
  <2>2. MemoryCap \in Nat
      BY SampleLimits
  <2>6. PICK w \in Nat : w = wanted
      BY <1>2
  <2>7. w \in Nat
      BY <2>6
  <2>1. store' = Reserving(store.pending + w) /\ store.bytes + store.pending + w <= MaxBytes
      BY <1>5, <2>6, StoreShape DEF Reserve
  <2>3. CASE k.file = None /\ SetCapture(c, s, [k EXCEPT !.reserved = k.reserved + w, !.chunk = chunk, !.at = "writing", !.file = NewFile])
             /\ spool' = Put(spool, NewFile, <<>>)
    <3> DEFINE f == NewFile
               l == [k EXCEPT !.reserved = k.reserved + w, !.chunk = chunk, !.at = "writing", !.file = f]
    <3>1. f \in Nat /\ f # None /\ f \notin DOMAIN spool
      <4>1. IsFiniteSet(DOMAIN spool)
          BY SpoolFinite DEF StoreInv
      <4>2. \A n \in Nat : Fresh(n) \in [1 .. n -> (Nat \ {0}) \ DOMAIN spool]
          BY <4>1, FreshNames
      <4>3. \A n \in Nat \ {0} : Fresh(n)[1] \in (Nat \ {0}) \ DOMAIN spool
          BY <4>2
      <4> QED
          BY <4>3 DEF NewFile, None
    <3> HIDE DEF f
    <3>2. /\ l \in Capture /\ l.at = "writing" /\ l.file = f /\ l.reserved = k.reserved + w /\ l.sample = k.sample
          /\ l.data = k.data /\ l.chunk = chunk
      <4> HIDE DEF k, length, wanted
      <4>1. k.reserved + w \in Nat
          BY <1>2, <2>7
      <4>2. l \in Capture
          BY <1>0, <1>2, <2>7, <3>1, <4>1, CaptureReserved, Zenon
      <4> QED
          BY <1>0, <4>2 DEF Capture
    <3>3. w = Len(k.data) + Len(chunk) /\ k.reserved = 0 /\ w > MemoryCap /\ k.sample = NoSample
        BY <1>0, <1>2, <1>5, <2>2, <2>3, <2>6 DEF CaptureOK
    <3>4. CaptureOK(l)
      <4>1. l.reserved = Len(k.data) + Len(chunk) /\ l.reserved > MemoryCap
          BY <1>2, <3>2, <3>3
      <4> HIDE DEF l
      <4> QED
          BY <3>1, <3>2, <3>3, <4>1 DEF CaptureOK
    <3>5. DOMAIN spool' = DOMAIN spool \cup {f} /\ \A g \in DOMAIN spool : spool'[g] = spool[g]
        BY <2>3, <3>1 DEF Put, f
    <3>6. None \notin DOMAIN spool
        BY DEF StoreInv, Owned
    <3>7. /\ SpoolKept(l.file) /\ (\A g \in DOMAIN spool' : g \in DOMAIN spool \/ g = l.file) /\ None \notin DOMAIN spool'
          /\ l.file \in DOMAIN spool'
        BY <3>1, <3>2, <3>5, <3>6 DEF SpoolKept
    <3>8. SetCapture(c, s, l) /\ l.reserved = capture[c][s].reserved + w /\ capture[c][s].file = None
        BY <2>3, <2>6, <3>2 DEF f
    <3> HIDE DEF l, k
    <3> QED
        BY <1>2, <2>1, <2>7, <3>1, <3>2, <3>4, <3>7, <3>8, CaptureStep
  <2>4. CASE SetCapture(c, s, [k EXCEPT !.reserved = k.reserved + w, !.at = "failed"]) /\ UNCHANGED spool
    <3> DEFINE l == [k EXCEPT !.reserved = k.reserved + w, !.at = "failed"]
    <3>2. l \in Capture /\ l.at = "failed" /\ l.file = k.file /\ l.reserved = k.reserved + w
      <4> HIDE DEF k, length, wanted
      <4>1. k.reserved + w \in Nat
          BY <1>2, <2>7
      <4>2. l \in Capture
          BY <1>0, <1>2, <2>7, <4>1, CaptureReserved, Zenon
      <4> QED
          BY <1>0, <4>2 DEF Capture
    <3>3. CaptureOK(l)
      <4> HIDE DEF l
      <4> QED
          BY <3>2 DEF CaptureOK
    <3>5. /\ SpoolKept(l.file) /\ (\A f \in DOMAIN spool' : f \in DOMAIN spool \/ f = l.file) /\ None \notin DOMAIN spool'
          /\ l.file # None => l.file \in DOMAIN spool'
        BY <2>4, <3>2, SpoolSame
    <3>6. SetCapture(c, s, l) /\ l.file = capture[c][s].file /\ l.reserved = capture[c][s].reserved + w
        BY <2>4, <3>2
    <3> HIDE DEF l, k
    <3> QED
        BY <1>2, <2>1, <2>7, <3>2, <3>3, <3>5, <3>6, CaptureStep
  <2>5. CASE k.file # None /\ SetCapture(c, s, [k EXCEPT !.reserved = k.reserved + w, !.chunk = chunk, !.at = "writing"])
             /\ UNCHANGED spool
    <3> DEFINE l == [k EXCEPT !.reserved = k.reserved + w, !.chunk = chunk, !.at = "writing"]
    <3>2. /\ l \in Capture /\ l.at = "writing" /\ l.file = k.file /\ l.reserved = k.reserved + w /\ l.sample = k.sample
          /\ l.data = k.data /\ l.chunk = chunk
      <4> HIDE DEF k, length, wanted
      <4>1. k.reserved + w \in Nat
          BY <1>2, <2>7
      <4>2. l \in Capture
          BY <1>0, <1>2, <2>7, <4>1, CaptureReserved, Zenon
      <4> QED
          BY <1>0, <4>2 DEF Capture
    <3>3. w = Len(chunk) /\ k.reserved = Len(k.data) /\ k.reserved > MemoryCap /\ k.sample = Sampled(k.data)
        BY <1>0, <1>2, <2>5, <2>6 DEF CaptureOK
    <3>4. CaptureOK(l)
      <4>1. l.reserved = Len(k.data) + Len(chunk) /\ l.reserved > MemoryCap
          BY <1>2, <2>2, <3>2, <3>3
      <4> HIDE DEF l
      <4> QED
          BY <2>5, <3>2, <3>3, <4>1 DEF CaptureOK
    <3>5. /\ SpoolKept(l.file) /\ (\A f \in DOMAIN spool' : f \in DOMAIN spool \/ f = l.file) /\ None \notin DOMAIN spool'
          /\ l.file # None => l.file \in DOMAIN spool'
        BY <2>5, <3>2, SpoolSame
    <3>6. SetCapture(c, s, l) /\ l.file = capture[c][s].file /\ l.reserved = capture[c][s].reserved + w
        BY <2>5, <3>2
    <3> HIDE DEF l, k
    <3> QED
        BY <1>2, <2>1, <2>7, <3>2, <3>4, <3>5, <3>6, CaptureStep
  <2> QED
      BY <1>5, <2>3, <2>4, <2>5, <2>6
<1> QED
    BY <1>1, <1>3, <1>4, <1>5

\* The sample of a stream is a sample.
LEMMA SampledType ==
    ASSUME NEW d \in Seq(Bytes)
    PROVE  Sampled(d) \in Sample
<1> DEFINE n == Len(d)
           h == Least(HeadLimit, n)
           m == Least(HeadLimit + 1, n)
           t == n - Least(TailLimit, After(n)) + 1
<1>1. n \in Nat
    BY LenProperties
<1> HIDE DEF n
<1>2. h \in Nat /\ h <= n /\ m \in Nat /\ m <= n /\ t \in Nat \ {0} /\ HeadLimit + 1 \in Nat \ {0} /\ 1 \in Nat \ {0}
    BY <1>1, SampleLimits DEF Least, After
<1> HIDE DEF h, m, t
<1>3. n <= Len(d) /\ n \in Int /\ h <= Len(d) /\ h \in Int /\ m <= Len(d) /\ m \in Int
    BY <1>1, <1>2 DEF n
<1>4. SubSeq(d, 1, h) \in Seq(Bytes) /\ SubSeq(d, HeadLimit + 1, m) \in Seq(Bytes) /\ SubSeq(d, t, n) \in Seq(Bytes)
    BY <1>2, <1>3, Part
<1>5. Sampled(d) = [head |-> SubSeq(d, 1, h), next |-> SubSeq(d, HeadLimit + 1, m), tail |-> SubSeq(d, t, n)]
    BY Zenon DEF Sampled, h, m, t, n
<1>6. \E u, v, w \in Seq(Bytes) : Sampled(d) = [head |-> u, next |-> v, tail |-> w]
    BY <1>4, <1>5, Zenon
<1> QED
    BY <1>6 DEF Sample

\* The sample of the empty stream is the one a capture begins with.
LEMMA SampledEmpty == Sampled(<< >>) = NoSample
<1>1. Len(<< >>) = 0
    OBVIOUS
<1>2. Least(HeadLimit, 0) = 0 /\ Least(HeadLimit + 1, 0) = 0 /\ After(0) = 0 /\ Least(TailLimit, 0) = 0
    BY SampleLimits DEF Least, After
<1>3. 0 - 0 + 1 = 1
    OBVIOUS
<1>4. Sampled(<< >>) = [head |-> SubSeq(<< >>, 1, 0), next |-> SubSeq(<< >>, HeadLimit + 1, 0), tail |-> SubSeq(<< >>, 1, 0)]
    BY <1>1, <1>2, <1>3, Zenon DEF Sampled
<1>5. \A i \in Nat \ {0} : SubSeq(<< >>, i, 0) = << >>
    OBVIOUS
<1>6. HeadLimit + 1 \in Nat \ {0} /\ 1 \in Nat \ {0}
    BY SampleLimits
<1>7. SubSeq(<< >>, 1, 0) = << >> /\ SubSeq(<< >>, HeadLimit + 1, 0) = << >>
    BY <1>5, <1>6, Zenon
<1> QED
    BY <1>4, <1>7, Zenon DEF NoSample

\* The sample a write leaves is that of the bytes written so far.
LEMMA ObservedAll ==
    ASSUME NEW d \in Seq(Bytes), NEW b \in Seq(Bytes), NEW r \in {NoSample, Sampled(d)}, NEW P \in BOOLEAN, r = NoSample => P
    PROVE  Observe(IF P /\ r = NoSample THEN Observe(NoSample, d) ELSE r, b) = Sampled(d \o b)
<1>1. << >> \in Seq(Bytes) /\ << >> \o d = d
    BY EmptySeq, ConcatEmptySeq
<1>2. Observe(NoSample, d) = Sampled(d)
    BY <1>1, SampledEmpty, ObserveExact, Zenon
<1>3. (IF P /\ r = NoSample THEN Observe(NoSample, d) ELSE r) = Sampled(d)
    BY <1>2, Zenon
<1> QED
    BY <1>3, ObserveExact, Zenon

\* The write append awaits keeps the invariant, complete or torn.
LEMMA WrittenInv ==
    ASSUME StoreInv, NEW c \in Clients, NEW s \in Streams, Written(c, s)
    PROVE  StoreInv'
<1> DEFINE k == capture[c][s]
<1>0. k \in Capture /\ CaptureOK(k)
    BY StoreShape
<1>1. k.at = "writing" /\ UNCHANGED <<store, lease>>
    BY Zenon DEF Written
<1>2. k.data \in Seq(Bytes) /\ k.chunk \in Seq(Bytes) /\ k.file \in Nat
    BY <1>0 DEF Capture
<1>3. /\ k.file # None /\ k.reserved = Len(k.data) + Len(k.chunk) /\ k.reserved > MemoryCap /\ k.sample \in {NoSample, Sampled(k.data)}
    BY Zenon, <1>0, <1>1 DEF CaptureOK
<1>4. PICK all : all = k.data \o k.chunk /\ all \in Seq(Bytes) /\ Len(all) = Len(k.data) + Len(k.chunk)
  <2> HIDE DEF k
  <2> QED
      BY <1>2, Joined, Zenon
<1>5. k.reserved = Len(all) /\ all \in Seq(Bytes)
    BY <1>3, <1>4, Zenon
<1>6. k.file \in DOMAIN spool /\ None \notin DOMAIN spool
    BY <1>3 DEF StoreInv, Owned
<1>7. store' = Reserving(store.pending + 0) /\ store.bytes + store.pending + 0 <= MaxBytes
    BY <1>1, StoreShape
<1>8. CASE /\ spool' = [spool EXCEPT ![k.file] = all]
           /\ SetCapture(c, s, [k EXCEPT !.at = "open", !.data = all, !.chunk = << >>, !.sample = Sampled(all)])
  <2>1. Sampled(all) \in Sample
      BY <1>5, SampledType
  <2>2. PICK z : z = Sampled(all) /\ z \in Sample
      BY <2>1
  <2> DEFINE l == [k EXCEPT !.at = "open", !.data = all, !.chunk = << >>, !.sample = z]
  <2>3. l \in Capture
    <3> HIDE DEF k
    <3> QED
        BY <1>0, <1>5, <2>2, CaptureWritten, Zenon
  <2>4. l.at = "open" /\ l.file = k.file /\ l.reserved = k.reserved + 0 /\ l.sample = z /\ l.data = all
    <3> HIDE DEF k
    <3> QED
        BY <1>0 DEF Capture
  <2>5. l.reserved = k.reserved
    <3> HIDE DEF k
    <3> QED
        BY <1>0 DEF Capture
  <2>6. CaptureOK(l)
    <3> HIDE DEF l, k
    <3> QED
        BY Zenon, <1>3, <1>5, <2>2, <2>4, <2>5 DEF CaptureOK
  <2>7. DOMAIN spool' = DOMAIN spool /\ spool'[k.file] = all /\ \A g \in DOMAIN spool : g # k.file => spool'[g] = spool[g]
    <3> HIDE DEF k
    <3> QED
        BY <1>6, <1>8
  <2>8. /\ SpoolKept(l.file) /\ (\A g \in DOMAIN spool' : g \in DOMAIN spool \/ g = l.file) /\ None \notin DOMAIN spool'
        /\ l.file \in DOMAIN spool' /\ spool'[l.file] = l.data
    <3> HIDE DEF l, k
    <3> QED
        BY <1>6, <2>4, <2>7 DEF SpoolKept
  <2>9. SetCapture(c, s, l) /\ l.file = capture[c][s].file /\ l.reserved = capture[c][s].reserved + 0
    <3>1. SetCapture(c, s, l)
        BY <1>8, <2>2, Zenon
    <3> QED
        BY <2>4, <3>1
  <2> HIDE DEF l, k
  <2> QED
      BY <1>1, <1>7, <2>3, <2>6, <2>8, <2>9, CaptureStep
<1>9. CASE /\ spool' = [spool EXCEPT ![k.file] = SubSeq(all, 1, Len(all) - 1)]
           /\ SetCapture(c, s, [k EXCEPT !.at = "failed"])
  <2> DEFINE l == [k EXCEPT !.at = "failed"]
  <2>2. l \in Capture /\ l.at = "failed" /\ l.file = k.file /\ l.reserved = k.reserved + 0
    <3> HIDE DEF k
    <3> QED
        BY <1>0 DEF Capture
  <2>3. CaptureOK(l)
    <3> HIDE DEF l, k
    <3> QED
        BY <2>2 DEF CaptureOK
  <2>4. DOMAIN spool' = DOMAIN spool /\ \A g \in DOMAIN spool : g # k.file => spool'[g] = spool[g]
    <3> HIDE DEF k
    <3>1. PICK u : spool' = [spool EXCEPT ![k.file] = u]
        BY <1>9, Zenon
    <3> QED
        BY <3>1
  <2>5. /\ SpoolKept(l.file) /\ (\A g \in DOMAIN spool' : g \in DOMAIN spool \/ g = l.file) /\ None \notin DOMAIN spool'
        /\ l.file \in DOMAIN spool'
    <3> HIDE DEF l, k
    <3> QED
        BY <1>6, <2>2, <2>4 DEF SpoolKept
  <2>6. SetCapture(c, s, l) /\ l.file = capture[c][s].file /\ l.reserved = capture[c][s].reserved + 0
      BY <1>9, <2>2
  <2> HIDE DEF l, k
  <2> QED
      BY <1>1, <1>7, <2>2, <2>3, <2>5, <2>6, CaptureStep
<1>10. Observe(IF k.reserved = Len(all) /\ k.sample = NoSample THEN Observe(NoSample, k.data) ELSE k.sample, k.chunk) = Sampled(all)
  <2>1. (k.reserved = Len(all)) \in BOOLEAN
      OBVIOUS
  <2> HIDE DEF k
  <2> QED
      BY <1>2, <1>3, <1>4, <1>5, <2>1, ObservedAll, Zenon
<1> QED
    BY <1>4, <1>8, <1>9, <1>10, Zenon DEF Written

-----------------------------------------------------------------------------
(* Steps of all the captures of a client                                   *)

\* The files a client holds are those of its captures.
LEMMA FilesOfHeld ==
    ASSUME NEW c \in Clients, NEW f
    PROVE  f \in FilesOf(Held(c)) <=> f # None /\ \E s \in Streams : capture[c][s].file = f
BY DEF FilesOf, Held

\* The captures of a client are taken away, or opened, and with them go their files and what
\* they have reserved.
LEMMA ClientStep ==
    ASSUME StoreInv, NEW c \in Clients, NEW k \in {Closed, Opened}, capture' = [capture EXCEPT ![c] = [s \in Streams |-> k]],
           store' = Reserving(store.pending - Total(OfClient(c))), UNCHANGED lease,
           DOMAIN spool' = DOMAIN spool \ FilesOf(Held(c)), \A f \in DOMAIN spool' : spool'[f] = spool[f]
    PROVE  StoreInv'
<1>0. capture \in [Clients -> [Streams -> Capture]]
    BY DEF StoreInv, Types
<1>1. k \in Capture /\ k.reserved = 0 /\ CaptureOK(k) /\ k.file = None
    BY ClosedType DEF Closed, Opened
<1>2. /\ capture' \in [Clients -> [Streams -> Capture]]
      /\ \A s \in Streams : capture'[c][s] = k
      /\ \A d \in Clients \ {c} : capture'[d] = capture[d]
      /\ Total(Reservations') = Total(Reservations) - Total(OfClient(c))
      /\ Total(Reservations) \in Nat /\ Total(OfClient(c)) \in Nat /\ Total(OfClient(c)) <= Total(Reservations)
    BY Zenon, <1>0, <1>1, ReservationsCleared
<1>3. store'.next = store.next /\ store'.bytes = store.bytes /\ store'.aliases = store.aliases
      /\ store'.contents = store.contents /\ store'.pending = store.pending - Total(OfClient(c))
    BY DEF Reserving
<1>4. store.pending = Total(Reservations) /\ store'.pending \in Nat /\ store'.pending <= store.pending
  <2>1. store.pending = Total(Reservations)
      BY DEF StoreInv, Accounts
  <2> QED
      BY <1>2, <1>3, <2>1
<1>5. Types'
  <2>1. store' = [next |-> store'.next, bytes |-> store'.bytes, pending |-> store'.pending,
                  aliases |-> store'.aliases, contents |-> store'.contents]
      BY DEF Reserving
  <2> QED
      BY <1>2, <1>3, <1>4, <2>1 DEF StoreInv, Types
<1>6. Accounts'
  <2>1. Lengths' = Lengths
      BY <1>3 DEF Lengths
  <2>2. store'.pending = Total(Reservations')
      BY <1>2, <1>3, <1>4
  <2>3. store.bytes \in Nat /\ store.pending \in Nat /\ store.bytes + store.pending <= MaxBytes /\ MaxBytes \in Nat
      BY LimitsAssumption DEF StoreInv, Types, Accounts
  <2>4. store'.bytes + store'.pending <= MaxBytes
      BY <1>3, <1>4, <2>3
  <2> QED
      BY <1>3, <2>1, <2>2, <2>4 DEF StoreInv, Accounts
<1>7. Indexed'
    BY <1>3 DEF StoreInv, Indexed
<1>8. Observed'
  <2> SUFFICES ASSUME NEW d \in Clients, NEW s \in Streams PROVE CaptureOK(capture'[d][s])
      BY Zenon DEF Observed, CaptureOK
  <2> QED
      BY <1>1, <1>2 DEF StoreInv, Observed
<1>9. Owned'
  <2>0. Owned
      BY DEF StoreInv
  <2>1. \A d \in Clients : \A s \in Streams : capture'[d][s].file # None => d # c /\ capture'[d][s] = capture[d][s]
      BY <1>1, <1>2
  <2>2. \A a, b \in DOMAIN store'.aliases : store'.aliases[a].file # None /\ store'.aliases[a].file = store'.aliases[b].file => a = b
      BY <1>3, <2>0 DEF Owned
  <2>3. \A d, e \in Clients : \A t, u \in Streams :
            capture'[d][t].file # None /\ capture'[d][t].file = capture'[e][u].file => d = e /\ t = u
      BY <2>0, <2>1 DEF Owned
  <2>4. \A a \in DOMAIN store'.aliases : \A d \in Clients : \A t \in Streams :
            store'.aliases[a].file # None => store'.aliases[a].file # capture'[d][t].file
      BY <1>3, <2>0, <2>1 DEF Owned
  <2>5. ASSUME NEW g
        PROVE  g \in DOMAIN spool' <=> g # None /\ \/ \E a \in DOMAIN store'.aliases : store'.aliases[a].file = g
                                                   \/ \E d \in Clients : \E t \in Streams : capture'[d][t].file = g
    <3>1. g \in DOMAIN spool <=> g # None /\ \/ \E a \in DOMAIN store.aliases : store.aliases[a].file = g
                                             \/ \E d \in Clients : \E t \in Streams : capture[d][t].file = g
        BY <2>0 DEF Owned
    <3>2. g \in DOMAIN spool' <=> g \in DOMAIN spool /\ ~(g # None /\ \E s \in Streams : capture[c][s].file = g)
        BY FilesOfHeld
    <3>3. g # None => ((\E d \in Clients : \E t \in Streams : capture'[d][t].file = g)
                       <=> \E d \in Clients \ {c} : \E t \in Streams : capture[d][t].file = g)
        BY <1>1, <1>2
    <3>4. \A s \in Streams : g # None /\ capture[c][s].file = g =>
             /\ \A a \in DOMAIN store.aliases : store.aliases[a].file # g
             /\ \A d \in Clients \ {c} : \A t \in Streams : capture[d][t].file # g
        BY <2>0 DEF Owned
    <3> QED
        BY <1>3, <3>1, <3>2, <3>3, <3>4
  <2>6. \A a \in DOMAIN store'.aliases : store'.aliases[a].file # None => spool'[store'.aliases[a].file] = store'.aliases[a].data
    <3> SUFFICES ASSUME NEW a \in DOMAIN store.aliases, store.aliases[a].file # None
                 PROVE  spool'[store.aliases[a].file] = store.aliases[a].data
        BY <1>3
    <3>1. store.aliases[a].file \in DOMAIN spool'
        BY <1>3, <2>5
    <3> QED
        BY <2>0, <3>1 DEF Owned
  <2>7. \A d \in Clients : \A t \in Streams :
            capture'[d][t].file # None /\ capture'[d][t].at \in {"open", "done"} => spool'[capture'[d][t].file] = capture'[d][t].data
    <3> SUFFICES ASSUME NEW d \in Clients, NEW t \in Streams,
                        capture'[d][t].file # None, capture'[d][t].at \in {"open", "done"}
                 PROVE  spool'[capture'[d][t].file] = capture'[d][t].data
        OBVIOUS
    <3>1. capture'[d][t].file \in DOMAIN spool'
        BY <2>5
    <3> QED
        BY <2>0, <2>1, <3>1 DEF Owned
  <2> QED
      BY Zenon, <2>2, <2>3, <2>4, <2>5, <2>6, <2>7 DEF Owned
<1> QED
    BY <1>5, <1>6, <1>7, <1>8, <1>9 DEF StoreInv

\* Dropping the captures of a client keeps the invariant.
LEMMA DropInv ==
    ASSUME StoreInv, NEW c \in Clients, DropCaptures(c)
    PROVE  StoreInv'
<1>1. capture' = [capture EXCEPT ![c] = [s \in Streams |-> Closed]] /\ UNCHANGED lease
    BY DEF DropCaptures
<1>2. store' = Reserving(store.pending - Total(OfClient(c)))
    BY StoreShape DEF DropCaptures, OfClient
<1>3. DOMAIN spool' = DOMAIN spool \ FilesOf(Held(c)) /\ \A f \in DOMAIN spool' : spool'[f] = spool[f]
    BY DEF DropCaptures, Keep
<1> QED
    BY Zenon, <1>1, <1>2, <1>3, ClientStep

\* Opening captures keeps the invariant.
LEMMA OpenInv ==
    ASSUME StoreInv, NEW c \in Clients, OpenCaptures(c)
    PROVE  StoreInv'
<1>1. capture' = [capture EXCEPT ![c] = [s \in Streams |-> Opened]] /\ UNCHANGED <<lease, store, spool>>
    BY DEF OpenCaptures
<1>2. \A s \in Streams : capture[c][s].file = None /\ capture[c][s].reserved = 0
    BY DEF OpenCaptures, Closed
<1>3. Total(OfClient(c)) = 0
    BY <1>2, TotalZero DEF OfClient
<1>4. store' = Reserving(store.pending - Total(OfClient(c)))
  <2>1. store.pending \in Nat
      BY DEF StoreInv, Types
  <2>2. store.pending + 0 = store.pending - 0
      BY <2>1
  <2> QED
      BY <1>1, <1>3, <2>2, StoreShape, Zenon
<1>5. FilesOf(Held(c)) = {}
    BY <1>2, FilesOfHeld
<1> QED
    BY Zenon, <1>1, <1>4, <1>5, ClientStep
=============================================================================
