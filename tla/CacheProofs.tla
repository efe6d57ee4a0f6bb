----------------------------- MODULE CacheProofs -----------------------------
(***************************************************************************)
(* What the caches promise, for all functions, questions, capacities and   *)
(* histories of programs and files.                                        *)
(***************************************************************************)
EXTENDS CacheInvariants, FoldLemmas, FiniteSetTheorems

-----------------------------------------------------------------------------
(* Tables *)

\* Tables and orders of use with these keys and results.
Table(K, V) == [data : UNION {[D -> V] : D \in SUBSET K}, lru : Seq(K)]

\* The oldest entry less.
LEMMA Evicted ==
    ASSUME NEW m
    PROVE  /\ Evict(m).lru = Front(m.lru)
           /\ Evict(m).data = [k \in DOMAIN m.data \ {Last(m.lru)} |-> m.data[k]]
           /\ DOMAIN Evict(m).data = DOMAIN m.data \ {Last(m.lru)}
<1>1. {k \in DOMAIN m.data : k # Last(m.lru)} = DOMAIN m.data \ {Last(m.lru)}
  OBVIOUS
<1> QED BY <1>1 DEF Evict, RestrictDomain, Restrict

\* A table stays a table.
LEMMA InsertType ==
    ASSUME NEW K, NEW V, NEW m \in Table(K, V), NEW key \in K, NEW value \in V
    PROVE  Insert(m, key, value) \in Table(K, V)
<1>1. PICK D \in SUBSET K : m.data \in [D -> V] /\ m.lru \in Seq(K)
  BY DEF Table
<1>2. Evict(m) \in Table(K, V)
  <2>1. Front(m.lru) \in Seq(K)
    BY <1>1 DEF Front
  <2>2. Evict(m).data \in [D \ {Last(m.lru)} -> V]
    <3> DEFINE l == Last(m.lru)
    <3>1. Evict(m).data = [k \in D \ {l} |-> m.data[k]]
      BY <1>1, Evicted
    <3>2. \A k \in D \ {l} : m.data[k] \in V
      BY <1>1
    <3> HIDE DEF l
    <3>3. Evict(m).data \in [D \ {l} -> V]
      BY <3>1, <3>2
    <3> QED BY <3>3 DEF l
  <2>3. D \ {Last(m.lru)} \in SUBSET K
    OBVIOUS
  <2>4. Evict(m) = [data |-> Evict(m).data, lru |-> Evict(m).lru]
    BY DEF Evict
  <2> QED BY <2>1, <2>2, <2>3, <2>4, Evicted DEF Table
<1>3. ASSUME NEW room \in Table(K, V)
      PROVE  [data |-> With(room.data, key, value), lru |-> <<key>> \o room.lru] \in Table(K, V)
  <2>1. PICK E \in SUBSET K : room.data \in [E -> V] /\ room.lru \in Seq(K)
    BY DEF Table
  <2>2. With(room.data, key, value) \in [E \cup {key} -> V]
    BY <2>1 DEF With
  <2>3. E \cup {key} \in SUBSET K /\ <<key>> \o room.lru \in Seq(K)
    BY <2>1
  <2> QED BY <2>2, <2>3 DEF Table
<1> QED BY <1>2, <1>3 DEF Insert

\* Without its last element the order of use does not have that key.
LEMMA EvictOrdered ==
    ASSUME NEW m, Ordered(m), Cardinality(DOMAIN m.data) = Capacity
    PROVE  /\ m.lru # <<>>
           /\ Ordered(Evict(m)) /\ Cardinality(DOMAIN Evict(m).data) < Capacity
<1> DEFINE K == DOMAIN m.data
           s == m.lru
           n == Len(s)
           l == s[n]
           t == Front(s)
<1>1. /\ s \in Seq(K) /\ K \subseteq ToSet(s) /\ IsFiniteSet(K) /\ Capacity \in Nat \ {0}
      /\ \A i, j \in DOMAIN s : s[i] = s[j] => i = j
  BY CachesAssumption DEF Ordered, IsInjective
<1>2. s # <<>>
  <2>1. SUFFICES ASSUME s = <<>> PROVE FALSE
    OBVIOUS
  <2>2. DOMAIN s = {}
    BY <2>1
  <2>3. ToSet(s) = {}
    BY <2>2 DEF ToSet
  <2>4. Cardinality(K) = 0
    BY <1>1, <2>3, FS_EmptySet
  <2> QED BY <1>1, <2>4
<1> HIDE DEF K, s
<1>3. n \in Nat \ {0} /\ DOMAIN s = 1..n
  BY <1>1, <1>2, EmptySeq, LenProperties
<1>4. l \in K
  BY <1>1, <1>3
<1>5. t = [i \in 1..(n - 1) |-> s[i]]
  BY <1>1, <1>3 DEF Front
<1> HIDE DEF n, l, t
<1>6. \A i \in 1..(n - 1) : s[i] \in K \ {l}
  BY <1>1, <1>3 DEF l
<1>7. t \in Seq(K \ {l}) /\ DOMAIN t = 1..(n - 1)
  <2>1. n - 1 \in Nat
    BY <1>3
  <2> QED BY <1>5, <1>6, <2>1
<1>8. K \ {l} \subseteq ToSet(t)
  <2>1. ASSUME NEW k \in K \ {l} PROVE k \in ToSet(t)
    <3>1. PICK i \in 1..n : s[i] = k
      BY <1>1, <1>3 DEF ToSet
    <3>2. i \in 1..(n - 1)
      BY <1>3, <3>1 DEF l
    <3> QED BY <1>5, <1>7, <3>1, <3>2 DEF ToSet
  <2> QED BY <2>1
<1>9. IsInjective(t)
  <2>1. \A i \in 1..(n - 1) : i \in 1..n /\ t[i] = s[i]
    BY <1>3, <1>5
  <2> QED BY <1>1, <1>3, <1>7, <2>1 DEF IsInjective
<1>10. IsFiniteSet(K \ {l}) /\ Cardinality(K \ {l}) = Cardinality(K) - 1
  BY <1>1, <1>4, FS_RemoveElement
<1>11. Cardinality(K) = Capacity /\ Capacity - 1 < Capacity
  BY <1>1 DEF K
<1>12. Evict(m).lru = t /\ DOMAIN Evict(m).data = K \ {l}
  BY Evicted DEF K, l, t, s, n, Last
<1> QED BY <1>1, <1>2, <1>7, <1>8, <1>9, <1>10, <1>11, <1>12 DEF Ordered, s

\* What n has after an insertion into m: the key, in front if it is new, and no other
\* key than before.
Inserted(m, n, key, value) ==
    /\ key \in DOMAIN n.data
    /\ key \notin DOMAIN m.data => n.lru # <<>> /\ n.lru[1] = key /\ n.data[key] = value
    /\ \A k \in DOMAIN n.data :
          \/ k \in DOMAIN m.data /\ n.data[k] = m.data[k]
          \/ k = key /\ n.data[k] = value

\* A new key in front.
LEMMA InsertOrdered ==
    ASSUME NEW m, Ordered(m), NEW key, NEW value
    PROVE  /\ Ordered(Insert(m, key, value))
           /\ Inserted(m, Insert(m, key, value), key, value)
<1> DEFINE room == IF Cardinality(DOMAIN m.data) = Capacity THEN Evict(m) ELSE m
           n == Insert(m, key, value)
<1>1. Ordered(room) /\ Cardinality(DOMAIN room.data) < Capacity
  <2>1. Cardinality(DOMAIN m.data) \in Nat /\ Cardinality(DOMAIN m.data) <= Capacity
    BY FS_CardinalityType DEF Ordered
  <2> QED BY <2>1, EvictOrdered, CachesAssumption
<1>2. DOMAIN room.data \subseteq DOMAIN m.data
      /\ \A k \in DOMAIN room.data : room.data[k] = m.data[k]
  BY Evicted
<1>3. n = IF key \in DOMAIN room.data THEN room
          ELSE [data |-> With(room.data, key, value), lru |-> <<key>> \o room.lru]
  BY DEF Insert
<1> SUFFICES Ordered(n) /\ Inserted(m, n, key, value)
  OBVIOUS
<1> HIDE DEF n, room
<1>4. CASE key \in DOMAIN room.data
  <2>1. n = room
    BY <1>3, <1>4
  <2> QED BY <1>1, <1>2, <1>4, <2>1 DEF Inserted
<1>5. CASE key \notin DOMAIN room.data
  <2> DEFINE K == DOMAIN room.data
             s == room.lru
             t == <<key>> \o s
  <2>1. /\ s \in Seq(K) /\ K \subseteq ToSet(s) /\ IsFiniteSet(K) /\ key \notin K
        /\ \A i, j \in DOMAIN s : s[i] = s[j] => i = j
    BY <1>1, <1>5 DEF Ordered, IsInjective
  <2>2. n.lru = t /\ DOMAIN n.data = K \cup {key} /\ n.data[key] = value
        /\ \A k \in K : n.data[k] = room.data[k]
    BY <1>3, <1>5 DEF With
  <2> HIDE DEF K, s
  <2>3. t \in Seq(K \cup {key}) /\ t # <<>> /\ t[1] = key
        /\ DOMAIN t = 1..(Len(s) + 1) /\ DOMAIN s = 1..Len(s) /\ Len(s) \in Nat
        /\ \A i \in 1..Len(s) : t[i + 1] = s[i]
    BY <2>1
  <2>4. K \cup {key} \subseteq ToSet(t)
    <3>1. ASSUME NEW k \in K PROVE k \in ToSet(t)
      <4>1. PICK i \in 1..Len(s) : s[i] = k
        BY <2>1, <2>3 DEF ToSet
      <4>2. i + 1 \in 1..(Len(s) + 1)
        BY <2>3
      <4> QED BY <2>3, <4>1, <4>2 DEF ToSet
    <3>2. key \in ToSet(t)
      BY <2>3 DEF ToSet
    <3> QED BY <3>1, <3>2
  <2>5. IsInjective(t)
    <3>1. ASSUME NEW i \in DOMAIN t, i # 1
          PROVE  i - 1 \in 1..Len(s) /\ t[i] = s[i - 1] /\ s[i - 1] \in K
      BY <2>1, <2>3, <3>1
    <3> QED BY <2>1, <2>3, <3>1 DEF IsInjective
  <2>6. IsFiniteSet(K \cup {key}) /\ Cardinality(K \cup {key}) <= Capacity
    <3>1. IsFiniteSet(K \cup {key}) /\ Cardinality(K \cup {key}) = Cardinality(K) + 1
      BY <2>1, FS_AddElement
    <3>2. Cardinality(K) < Capacity /\ Cardinality(K) \in Nat /\ Capacity \in Nat
      BY <1>1, <2>1, FS_CardinalityType, CachesAssumption DEF K
    <3> QED BY <3>1, <3>2
  <2>7. Ordered(n)
    BY <2>2, <2>3, <2>4, <2>5, <2>6 DEF Ordered
  <2>8. key \notin DOMAIN m.data => n.lru # <<>> /\ n.lru[1] = key
    BY <2>2, <2>3
  <2>9. ASSUME NEW k \in DOMAIN n.data, k # key
        PROVE  k \in DOMAIN m.data /\ n.data[k] = m.data[k]
    BY <1>2, <2>2, <2>9 DEF K
  <2>10. Inserted(m, n, key, value)
    BY <2>2, <2>8, <2>9 DEF Inserted
  <2> QED BY <2>7, <2>10
<1> QED BY <1>4, <1>5

-----------------------------------------------------------------------------
(* Files *)

\* One record read into m.
ReadRecord(c, m, record) == Insert(m, ReadAs(Fn(c), record[1]), ReadAs(Fn(c), record[2]))

\* A table without entries.
NoEntries == [data |-> <<>>, lru |-> <<>>]

\* It is in order.
LEMMA NoEntriesOrdered ==
    Ordered(NoEntries) /\ DOMAIN NoEntries.data = {} /\ \A K, V : NoEntries \in Table(K, V)
<1>1. DOMAIN <<>> = {} /\ ToSet(<<>>) = {} /\ \A S : <<>> \in Seq(S)
  BY DEF ToSet
<1>2. IsFiniteSet({}) /\ Cardinality({}) = 0
  BY FS_EmptySet
<1>3. Ordered(NoEntries)
  BY <1>1, <1>2, CachesAssumption DEF Ordered, NoEntries, IsInjective
<1>4. ASSUME NEW K, NEW V PROVE NoEntries \in Table(K, V)
  <2>1. <<>> \in [{} -> V] /\ {} \in SUBSET K
    BY <1>1
  <2> QED BY <1>1, <2>1 DEF NoEntries, Table
<1> QED BY <1>1, <1>3, <1>4 DEF NoEntries

\* What is read goes through the values of it, one for each set of records, and G makes
\* the next one.
Reading(c, s, n, it, G) ==
    /\ Accumulates(n, NoEntries, G, it)
    /\ \A k \in 1..n : G[<<k, it[1..(k - 1)]>>] = ReadRecord(c, it[1..(k - 1)], s[k])

\* The records of a file, read one after the other into an empty table.
LEMMA ReadRecords ==
    ASSUME NEW c, NEW s, NEW n \in Nat, DOMAIN s = 1..n
    PROVE  \E it, G : Reading(c, s, n, it, G) /\ Read(Fn(c), NoEntries, s) = it[1..n]
<1> DEFINE K == {ReadAs(Fn(c), s[k][1]) : k \in 1..n}
           V == {ReadAs(Fn(c), s[k][2]) : k \in 1..n}
           A == Table(K, V)
           Step(a, k) == ReadRecord(c, a, s[k])
           Equation(f) == f = [t \in SUBSET (1..n) |->
                                  IF t = {} THEN NoEntries ELSE Step(f[t \ {Max(t)}], Max(t))]
           f == CHOOSE h : Equation(h)
<1>1. NoEntries \in A
  BY NoEntriesOrdered
<1>2. ASSUME NEW a \in A, NEW k \in 1..n PROVE Step(a, k) \in A
  BY InsertType DEF ReadRecord
<1> DEFINE H == [x \in (1..n) \X A |-> Step(x[2], x[1])]
<1> HIDE DEF A
<1>3. H \in [(1..n) \X A -> A]
  BY <1>2
<1>4. PICK h \in [SUBSET (1..n) -> A] : Accumulates(n, NoEntries, H, h)
  BY <1>1, <1>3, FoldExists
<1>5. Equation(h)
  <2>1. ASSUME NEW t \in SUBSET (1..n), t # {}
        PROVE  H[<<Max(t), h[t \ {Max(t)}]>>] = Step(h[t \ {Max(t)}], Max(t))
    <3>1. Max(t) \in 1..n /\ t \ {Max(t)} \in SUBSET (1..n)
      BY <2>1, GreatestPlace
    <3>2. <<Max(t), h[t \ {Max(t)}]>> \in (1..n) \X A
      BY <1>4, <3>1
    <3> QED BY <3>2
  <2> HIDE DEF H, Step
  <2> QED BY <1>4, <2>1 DEF Accumulates
<1>6. Equation(f)
  BY <1>5
<1>7. Read(Fn(c), NoEntries, s) = f[1..n]
  BY DEF Read, FoldLeft, MapThenFoldSet, ReadRecord
<1> DEFINE G == [x \in (1..n) \X {f[t] : t \in SUBSET (1..n)} |-> Step(x[2], x[1])]
<1> HIDE DEF f
<1>8. ASSUME NEW t \in SUBSET (1..n), NEW k \in 1..n
      PROVE  G[<<k, f[t]>>] = Step(f[t], k)
  <2>1. <<k, f[t]>> \in (1..n) \X {f[u] : u \in SUBSET (1..n)}
    OBVIOUS
  <2> HIDE DEF Step
  <2> QED BY <2>1
<1> HIDE DEF G
<1>9. Accumulates(n, NoEntries, G, f)
  <2>1. ASSUME NEW t \in SUBSET (1..n), t # {}
        PROVE  G[<<Max(t), f[t \ {Max(t)}]>>] = Step(f[t \ {Max(t)}], Max(t))
    <3>1. Max(t) \in 1..n /\ t \ {Max(t)} \in SUBSET (1..n)
      BY <2>1, GreatestPlace
    <3> QED BY <1>8, <3>1
  <2> HIDE DEF Step
  <2> QED BY <1>6, <2>1 DEF Accumulates
<1>10. \A k \in 1..n : G[<<k, f[1..(k - 1)]>>] = ReadRecord(c, f[1..(k - 1)], s[k])
  <2>1. \A k \in 1..n : 1..(k - 1) \in SUBSET (1..n)
    OBVIOUS
  <2> QED BY <1>8, <2>1
<1> QED BY <1>7, <1>9, <1>10 DEF Reading

\* A key is read as it is, and so is a result of Propagate.
LEMMA ReadAsIs ==
    ASSUME NEW c
    PROVE  /\ \A key \in Key(c) : ReadAs(Fn(c), key) = key
           /\ HasFile(c) => \A key : ReadAs(Fn(c), Loop(Fn(c), c[2], key)) = Loop(Fn(c), c[2], key)
<1>1. ASSUME NEW key \in Key(c) PROVE ReadAs(Fn(c), key) = key
  <2>1. DOMAIN key = Positions(Fn(c)) /\ key = [i \in Positions(Fn(c)) |-> key[i]]
    BY DEF Key, Input
  <2> QED BY <2>1 DEF ReadAs
<1>2. ASSUME HasFile(c), NEW key
      PROVE  ReadAs(Fn(c), Loop(Fn(c), c[2], key)) = Loop(Fn(c), c[2], key)
  <2> DEFINE result == Propagate(Fn(c), key)
             P == Positions(Fn(c))
  <2>1. Loop(Fn(c), c[2], key) = result
    BY <1>2 DEF Loop, HasFile
  <2>2. DOMAIN result = P /\ result = [i \in P |-> result[i]]
    BY DEF Propagate
  <2> HIDE DEF result, P
  <2>3. ReadAs(Fn(c), result) = [i \in P |-> IF i \in DOMAIN result THEN result[i] ELSE {}]
    BY DEF ReadAs, P
  <2>4. [i \in P |-> IF i \in DOMAIN result THEN result[i] ELSE {}] = result
    BY <2>2
  <2> QED BY <2>1, <2>3, <2>4
<1> QED BY <1>1, <1>2

\* What is read is in order, whatever the file has, and right if the records are.
LEMMA ReadOrdered ==
    ASSUME NEW c, NEW s, NEW n \in Nat, DOMAIN s = 1..n
    PROVE  LET m == Read(Fn(c), NoEntries, s)
           IN  /\ Ordered(m)
               /\ HasFile(c) /\ RightRecords(c, s) => RightTable(c, m.data)
<1> DEFINE m == Read(Fn(c), NoEntries, s)
           Right == HasFile(c) /\ RightRecords(c, s)
<1>1. PICK it, G : Reading(c, s, n, it, G) /\ m = it[1..n]
  BY ReadRecords
<1> DEFINE Good(a) == Ordered(a) /\ (Right => RightTable(c, a.data))
           A == {a \in {it[t] : t \in SUBSET (1..n)} \cup {NoEntries} : Good(a)}
<1>2. NoEntries \in A
  BY NoEntriesOrdered DEF RightTable
<1>3. ASSUME NEW k \in 1..n, NEW a \in A, a = it[1..(k - 1)]
      PROVE  G[<<k, a>>] \in A
  <2> DEFINE key == ReadAs(Fn(c), s[k][1])
             value == ReadAs(Fn(c), s[k][2])
             b == Insert(a, key, value)
  <2>1. G[<<k, a>>] = b
    BY <1>1, <1>3 DEF Reading, ReadRecord
  <2>2. G[<<k, a>>] = it[1..k]
    <3>1. it[1..k] = G[<<k, it[1..(k - 1)]>>]
      BY <1>1, FoldStep DEF Reading
    <3> QED BY <1>3, <3>1
  <2>3. 1..k \in SUBSET (1..n)
    OBVIOUS
  <2>4. Ordered(a) /\ (Right => RightTable(c, a.data))
    OBVIOUS
  <2>5. Ordered(b) /\ Inserted(a, b, key, value)
    BY <2>4, InsertOrdered
  <2>6. ASSUME Right PROVE RightTable(c, b.data)
    <3>1. RightEntry(c, key, value)
      <4>1. RightEntry(c, s[k][1], s[k][2])
        BY <2>6 DEF RightRecords
      <4> QED BY <2>6, <4>1, ReadAsIs DEF RightEntry
    <3> HIDE DEF b, key, value
    <3> QED BY <2>4, <2>5, <2>6, <3>1 DEF Inserted, RightTable
  <2>7. Good(b)
    BY <2>5, <2>6
  <2> HIDE DEF Good, b
  <2> QED BY <2>1, <2>2, <2>3, <2>7
<1> HIDE DEF A
<1>4. it[1..n] \in A
  <2>1. \A k \in 1..n : \A a \in A : a = it[1..(k - 1)] => G[<<k, a>>] \in A
    BY <1>3
  <2>2. \A k \in 0..n : it[1..k] \in A
    BY <1>1, <1>2, <2>1, FoldStays DEF Reading
  <2> QED BY <2>2
<1>5. Good(m)
  BY <1>1, <1>4 DEF A
<1> QED BY <1>5

\* A sequence of whatever elements.
LEMMA SequenceIs ==
    ASSUME NEW s
    PROVE  /\ \A n \in Nat : s = [k \in 1..n |-> s[k]] => IsSequence(s)
           /\ IsSequence(s) => /\ Len(s) \in Nat /\ DOMAIN s = 1..Len(s)
                               /\ s = [k \in 1..Len(s) |-> s[k]]
<1>1. ASSUME NEW n \in Nat, s = [k \in 1..n |-> s[k]] PROVE IsSequence(s)
  <2>1. DOMAIN s = 1..n /\ \A k \in 1..n : s[k] \in ToSet(s)
    BY <1>1 DEF ToSet
  <2>2. s \in [1..n -> ToSet(s)]
    BY <1>1, <2>1
  <2> QED BY <2>2 DEF IsSequence
<1>2. ASSUME IsSequence(s)
      PROVE  Len(s) \in Nat /\ DOMAIN s = 1..Len(s) /\ s = [k \in 1..Len(s) |-> s[k]]
  <2>1. s \in Seq(ToSet(s))
    BY <1>2 DEF IsSequence
  <2> QED BY <2>1
<1> QED BY <1>1, <1>2

\* Caches and what they are made of.
LEMMA CacheFacts ==
    ASSUME NEW c \in Cache
    PROVE  /\ c[1] \in DOMAIN Functions /\ c[2] \in Action
           /\ Size(Fn(c)) \in Nat
           /\ IsStatic(c) => IsSequence(AllResults[c])
<1>1. c[1] \in DOMAIN Functions /\ c[2] \in Action
  BY DEF Cache
<1>2. Size(Fn(c)) \in Nat
  BY <1>1, SizeAssumption DEF Fn
<1>3. ASSUME IsStatic(c) PROVE IsSequence(AllResults[c])
  <2>1. AllResults[c] = [n \in 1..Size(Fn(c)) |-> AllResults[c][n]]
    BY <1>3 DEF AllResults
  <2> QED BY <1>2, <2>1, SequenceIs
<1> QED BY <1>1, <1>2, <1>3

\* A cache that gets its file name is empty before, so what it has then is what it reads.
LEMMA LoadedOrdered ==
    ASSUME StepsInv, TablesInv, NEW c \in Cache, HasFile(c), c \notin filepath, ~ IsStatic(c)
    PROVE  /\ Ordered(LoadedDynamic(c))
           /\ (File(c) \in DOMAIN disk => RightRecords(c, disk[File(c)]))
                  => RightTable(c, LoadedDynamic(c).data)
<1>1. c[1] \notin steps /\ data[c] = <<>> /\ lru[c] = <<>>
  BY DEF StepsInv
<1>2. CASE File(c) \notin DOMAIN disk
  <2>1. LoadedDynamic(c) = NoEntries
    BY <1>1, <1>2 DEF LoadedDynamic, NoEntries
  <2> QED BY <2>1, NoEntriesOrdered DEF RightTable
<1>3. CASE File(c) \in DOMAIN disk
  <2>1. LoadedDynamic(c) = Read(Fn(c), NoEntries, disk[File(c)])
    BY <1>1, <1>3 DEF LoadedDynamic, NoEntries
  <2>2. Len(disk[File(c)]) \in Nat /\ DOMAIN disk[File(c)] = 1..Len(disk[File(c)])
    BY <1>3, SequenceIs DEF TablesInv
  <2> QED BY <1>3, <2>1, <2>2, ReadOrdered
<1> QED BY <1>2, <1>3

\* What SaveDump writes is a sequence, of right records if the table is right.
LEMMA WrittenRecords ==
    ASSUME TablesInv, NEW c \in Cache, NEW s \in Written(c)
    PROVE  /\ IsSequence(s)
           /\ ~ IsStatic(c) /\ RightTable(c, data[c]) => RightRecords(c, s)
           /\ IsStatic(c) /\ c \notin CutShort => s = data[c]
<1>1. ASSUME NEW r \in Contents(c)
      PROVE  /\ IsSequence(r) /\ Len(r) = Cardinality(DOMAIN data[c])
             /\ ~ IsStatic(c) /\ RightTable(c, data[c]) => RightRecords(c, r)
             /\ IsStatic(c) => r = data[c]
  <2>1. CASE IsStatic(c)
    <3>1. r = data[c] /\ IsSequence(r)
      BY <1>1, <2>1 DEF Contents, TablesInv
    <3>2. Cardinality(1..Len(r)) = Len(r)
      <4> DEFINE n == Len(r)
      <4>1. n \in Nat
        BY <3>1, SequenceIs
      <4> HIDE DEF n
      <4>2. Cardinality(1..n) = n
        BY <4>1, FS_Interval
      <4> QED BY <4>2 DEF n
    <3> QED BY <2>1, <3>1, <3>2, SequenceIs
  <2>2. CASE ~ IsStatic(c)
    <3> DEFINE K == DOMAIN data[c]
               n == Cardinality(K)
    <3>1. PICK keys \in SetToSeqs(K) : r = [k \in DOMAIN keys |-> <<keys[k], data[c][keys[k]]>>]
      BY <1>1, <2>2 DEF Contents
    <3>2. keys \in [1..n -> K]
      BY <3>1 DEF SetToSeqs
    <3>3. n \in Nat
      BY <2>2, FS_CardinalityType DEF TablesInv, Ordered
    <3> HIDE DEF n
    <3>4. DOMAIN r = 1..n /\ \A k \in 1..n : r[k] = <<keys[k], data[c][keys[k]]>> /\ keys[k] \in K
      BY <3>1, <3>2
    <3>5. r = [k \in 1..n |-> r[k]]
      BY <3>1, <3>2
    <3>6. IsSequence(r)
      BY <3>3, <3>5, SequenceIs
    <3>7. Len(r) = n
      BY <3>3, <3>4, <3>6 DEF IsSequence
    <3>8. RightTable(c, data[c]) => RightRecords(c, r)
      BY <3>4 DEF RightTable, RightRecords
    <3> QED BY <2>2, <3>6, <3>7, <3>8 DEF n
  <2> QED BY <2>1, <2>2
<1>2. CASE c \notin CutShort
  BY <1>1, <1>2 DEF Written
<1>3. CASE c \in CutShort
  <2>1. PICK r \in Contents(c), n \in 0..Cardinality(DOMAIN data[c]) : s = SubSeq(r, 1, n)
    BY <1>3 DEF Written
  <2>2. IsSequence(r) /\ Len(r) \in Nat /\ DOMAIN r = 1..Len(r) /\ Len(r) = Cardinality(DOMAIN data[c])
    BY <1>1, SequenceIs
  <2>3. n \in Nat /\ n <= Len(r)
    BY <2>2
  <2>4. s = [k \in 1..n |-> r[k]]
    BY <2>1, <2>2, <2>3 DEF IsSequence
  <2>5. s = [k \in 1..n |-> s[k]] /\ \A k \in DOMAIN s : k \in DOMAIN r /\ s[k] = r[k]
    BY <2>2, <2>3, <2>4
  <2>6. IsSequence(s)
    BY <2>3, <2>5, SequenceIs
  <2>7. RightRecords(c, r) => RightRecords(c, s)
    BY <2>5 DEF RightRecords
  <2> QED BY <1>1, <1>3, <2>6, <2>7
<1> QED BY <1>2, <1>3

-----------------------------------------------------------------------------
(* Steps, tables and files *)

\* What holds of a program that has just been started.
LEMMA Fresh ==
    ASSUME NEW c
    PROVE  /\ Ordered([data |-> <<>>, lru |-> <<>>]) /\ IsSequence(<<>>)
           /\ RightTable(c, <<>>)
<1>1. Ordered([data |-> <<>>, lru |-> <<>>])
  BY NoEntriesOrdered DEF NoEntries
<1>2. IsSequence(<<>>)
  BY DEF IsSequence
<1> QED BY <1>1, <1>2 DEF RightTable

\* The invariant without what results are.
CacheShape == StepsInv /\ TablesInv /\ AnswerInv

\* The program ends and is started again.
LEMMA RestartedShape ==
    ASSUME Restarted, \A file \in DOMAIN disk' : IsSequence(disk'[file])
    PROVE  CacheShape'
<1>1. /\ data' = Nothing /\ lru' = Nothing /\ initialized' = {} /\ filepath' = {}
      /\ steps' = {} /\ toDump' = {} /\ answer' = NoAnswer
  BY DEF Restarted
<1>2. DOMAIN Nothing = Cache /\ \A c \in Cache : Nothing[c] = <<>>
  BY DEF Nothing
<1>3. StepsInv'
  BY <1>1, <1>2 DEF StepsInv
<1>4. TablesInv'
  BY <1>1, <1>2, Fresh DEF TablesInv
<1>5. AnswerInv'
  BY <1>1 DEF AnswerInv
<1> QED BY <1>3, <1>4, <1>5 DEF CacheShape

\* At the start there is no file.
LEMMA InitShape == Init => CacheShape
<1> SUFFICES ASSUME Init PROVE CacheShape
  OBVIOUS
<1>1. /\ data = Nothing /\ lru = Nothing /\ initialized = {} /\ filepath = {}
      /\ steps = {} /\ toDump = {} /\ answer = NoAnswer /\ DOMAIN disk = {}
  BY DEF Init
<1>2. DOMAIN Nothing = Cache /\ \A c \in Cache : Nothing[c] = <<>>
  BY DEF Nothing
<1>3. StepsInv
  BY <1>1, <1>2 DEF StepsInv
<1>4. TablesInv
  BY <1>1, <1>2, Fresh DEF TablesInv
<1>5. AnswerInv
  BY <1>1 DEF AnswerInv
<1> QED BY <1>3, <1>4, <1>5 DEF CacheShape

\* The first or a further step of a function.
LEMMA InitCachesShape ==
    ASSUME CacheShape, NEW f \in DOMAIN Functions, InitCaches(f)
    PROVE  CacheShape'
<1> DEFINE mine  == {f} \X Action
           fresh == {c \in mine : HasFile(c) /\ c \notin filepath}
           loaded == [c \in Cache |->
                         IF c \notin fresh THEN data[c]
                         ELSE IF IsStatic(c) THEN LoadedStatic(c) ELSE LoadedDynamic(c).data]
           marked == initialized \cup {c \in fresh : IsStatic(c) /\ loaded[c] # <<>>}
           toFill == {c \in mine : IsStatic(c) /\ c \notin marked}
<1>1. /\ data' = [c \in Cache |-> IF c \in toFill THEN AllResults[c] ELSE loaded[c]]
      /\ lru' = [c \in Cache |-> IF c \in fresh /\ ~ IsStatic(c)
                                 THEN LoadedDynamic(c).lru ELSE lru[c]]
      /\ initialized' = marked \cup toFill
      /\ filepath' = filepath \cup fresh
      /\ steps' = steps \cup {f}
      /\ disk' = disk /\ toDump' = toDump /\ answer' = answer
  BY DEF InitCaches
<1>2. StepsInv /\ TablesInv /\ AnswerInv
  BY DEF CacheShape
<1>3. \A c \in Cache : c \in mine <=> c[1] = f
  BY DEF Cache
<1>4. mine \subseteq Cache
  BY DEF Cache
<1>5. fresh = {c \in mine : HasFile(c) /\ c[1] \notin steps}
  BY <1>2, <1>4 DEF StepsInv
<1>6. toFill \subseteq {c \in mine : IsStatic(c)} /\ marked \subseteq {c \in Cache : IsStatic(c)}
  BY <1>2, <1>4 DEF StepsInv
<1>7. \A c \in Cache : c[1] # f =>
          data'[c] = data[c] /\ lru'[c] = lru[c]
  BY <1>1, <1>3, <1>6
<1>8. StepsInv'
  <2>1. steps' \subseteq DOMAIN Functions
    BY <1>1, <1>2 DEF StepsInv
  <2>2. filepath' = {c \in Cache : HasFile(c) /\ c[1] \in steps'}
    BY <1>1, <1>2, <1>3, <1>4, <1>5 DEF StepsInv
  <2>3. initialized' = {c \in Cache : IsStatic(c) /\ c[1] \in steps'}
    BY <1>1, <1>2, <1>3, <1>4, <1>6 DEF StepsInv
  <2>4. toDump' \subseteq filepath'
    BY <1>1, <1>2 DEF StepsInv
  <2>5. \A c \in Cache : c[1] \notin steps' => data'[c] = <<>> /\ lru'[c] = <<>>
    BY <1>1, <1>2, <1>7 DEF StepsInv
  <2> QED BY <2>1, <2>2, <2>3, <2>4, <2>5 DEF StepsInv
<1>9. TablesInv'
  <2>1. ASSUME NEW c \in Cache, IsStatic(c) PROVE IsSequence(data'[c])
    <3>1. CASE c \in toFill
      BY <1>1, <2>1, <3>1, CacheFacts
    <3>2. CASE c \notin toFill /\ c \notin fresh
      BY <1>1, <1>2, <2>1, <3>2 DEF TablesInv
    <3>3. CASE c \notin toFill /\ c \in fresh
      <4>1. data'[c] = LoadedStatic(c)
        BY <1>1, <2>1, <3>3
      <4>2. CASE File(c) \notin DOMAIN disk
        BY <1>2, <2>1, <4>1, <4>2 DEF TablesInv, LoadedStatic
      <4>3. CASE File(c) \in DOMAIN disk
        <5> DEFINE s == disk[File(c)]
        <5>1. Len(s) \in Nat /\ DOMAIN s = 1..Len(s)
          BY <1>2, <4>3, SequenceIs DEF TablesInv
        <5>2. data'[c] = [n \in 1..Len(s) |-> data'[c][n]]
          BY <4>1, <4>3, <5>1 DEF LoadedStatic
        <5> QED BY <5>1, <5>2, SequenceIs
      <4> QED BY <4>2, <4>3
    <3> QED BY <3>1, <3>2, <3>3
  <2>2. ASSUME NEW c \in Cache, ~ IsStatic(c)
        PROVE  Ordered([data |-> data'[c], lru |-> lru'[c]])
    <3>1. c \notin toFill
      BY <1>6, <2>2
    <3>2. CASE c \notin fresh
      BY <1>1, <1>2, <2>2, <3>1, <3>2 DEF TablesInv
    <3>3. CASE c \in fresh
      <4>1. data'[c] = LoadedDynamic(c).data /\ lru'[c] = LoadedDynamic(c).lru
        BY <1>1, <2>2, <3>1, <3>3
      <4>2. Ordered(LoadedDynamic(c))
        BY <1>2, <2>2, <3>3, LoadedOrdered
      <4> QED BY <4>1, <4>2 DEF Ordered
    <3> QED BY <3>2, <3>3
  <2>3. DOMAIN data' = Cache /\ DOMAIN lru' = Cache
    BY <1>1
  <2> QED BY <1>1, <1>2, <2>1, <2>2, <2>3 DEF TablesInv
<1>10. AnswerInv'
  <2> SUFFICES ASSUME answer # NoAnswer
               PROVE  LET c == answer.cache
                      IN  /\ c \in DOMAIN Asked /\ answer.input \in Asked[c] /\ c[1] \in steps'
                          /\ ~ IsStatic(c) =>
                                 /\ lru'[c] # <<>>
                                 /\ lru'[c][1] = SortInput(Fn(c), answer.input).input
    BY <1>1 DEF AnswerInv
  <2> DEFINE c == answer.cache
  <2>1. c \in DOMAIN Asked /\ c \in Cache /\ c[1] \in steps
    BY <1>2, CachesAssumption DEF AnswerInv
  <2>2. c \notin fresh
    BY <1>5, <2>1
  <2>3. lru'[c] = lru[c]
    BY <1>1, <2>1, <2>2
  <2> QED BY <1>1, <1>2, <2>1, <2>3 DEF AnswerInv
<1> QED BY <1>8, <1>9, <1>10 DEF CacheShape

\* A key that was found goes to the front.
LEMMA UsedOrdered ==
    ASSUME NEW m, Ordered(m), NEW key \in DOMAIN m.data
    PROVE  /\ Ordered(Used(m, key)) /\ Used(m, key).data = m.data
           /\ Used(m, key).lru # <<>> /\ Used(m, key).lru[1] = key
<1> DEFINE K == DOMAIN m.data
           s == m.lru
           n == Len(s)
           p == CHOOSE i \in DOMAIN s : s[i] = key
           r == RemoveAt(s, p)
           t == <<key>> \o r
<1>1. /\ s \in Seq(K) /\ K \subseteq ToSet(s)
      /\ \A i, j \in DOMAIN s : s[i] = s[j] => i = j
  BY DEF Ordered, IsInjective
<1>2. n \in Nat /\ DOMAIN s = 1..n
  BY <1>1
<1>3. \E i \in DOMAIN s : s[i] = key
  BY <1>1 DEF ToSet
<1>4. p \in 1..n /\ s[p] = key
  BY <1>2, <1>3
<1>5. Used(m, key) = [m EXCEPT !.lru = t]
  BY DEF Used
<1> HIDE DEF K, s, p
<1>6. /\ r \in Seq(K) /\ Len(r) = n - 1
      /\ \A i \in 1..(n - 1) : r[i] = IF i < p THEN s[i] ELSE s[i + 1]
  <2> DEFINE a == SubSeq(s, 1, p - 1)
             b == SubSeq(s, p + 1, n)
  <2>1. a \in Seq(K) /\ Len(a) = p - 1 /\ \A i \in 1..(p - 1) : a[i] = s[i]
    BY <1>1, <1>2, <1>4
  <2>2. b \in Seq(K) /\ Len(b) = n - p /\ \A i \in 1..(n - p) : b[i] = s[i + p]
    <3> HIDE DEF n
    <3>1. p + 1 \in Int /\ n \in Int /\ \A i \in (p + 1)..n : s[i] \in K
      BY <1>1, <1>2, <1>4
    <3>2. /\ b \in Seq(K) /\ Len(b) = IF p + 1 <= n THEN n - (p + 1) + 1 ELSE 0
          /\ \A i \in 1..(n - (p + 1) + 1) : b[i] = s[(p + 1) + i - 1]
      BY <3>1, SubSeqProperties
    <3>3. /\ n - (p + 1) + 1 = n - p /\ \A i \in 1..(n - p) : (p + 1) + i - 1 = i + p
          /\ p + 1 <= n \/ n - p = 0
      BY <1>2, <1>4
    <3> HIDE DEF b
    <3> QED BY <3>2, <3>3
  <2>3. r = a \o b
    BY DEF RemoveAt
  <2> HIDE DEF a, b, n, r
  <2>4. r \in Seq(K) /\ Len(r) = n - 1
    <3>1. r \in Seq(K) /\ Len(r) = Len(a) + Len(b)
      BY <2>1, <2>2, <2>3, ConcatProperties
    <3> QED BY <1>2, <1>4, <2>1, <2>2, <3>1
  <2>5. ASSUME NEW i \in 1..(n - 1) PROVE r[i] = IF i < p THEN s[i] ELSE s[i + 1]
    <3>1. CASE i < p
      <4>1. i \in 1..(p - 1)
        BY <1>2, <1>4, <3>1
      <4>2. r[i] = a[i]
        BY <2>1, <2>2, <2>3, <4>1
      <4> QED BY <2>1, <3>1, <4>1, <4>2
    <3>2. CASE ~ (i < p)
      <4>1. i - (p - 1) \in 1..(n - p)
        BY <1>2, <1>4, <3>2
      <4>2. r[i] = b[i - (p - 1)]
        BY <1>2, <1>4, <2>1, <2>2, <2>3, <3>2, <4>1
      <4>3. (i - (p - 1)) + p = i + 1
        BY <1>2, <1>4
      <4> QED BY <2>2, <3>2, <4>1, <4>2, <4>3
    <3> QED BY <3>1, <3>2
  <2> QED BY <2>4, <2>5
<1> HIDE DEF r, n
<1>7. /\ t \in Seq(K) /\ t # <<>> /\ t[1] = key /\ DOMAIN t = 1..n
      /\ \A i \in 1..(n - 1) : t[i + 1] = r[i]
  <2>1. key \in K
    BY DEF K
  <2> QED BY <1>2, <1>4, <1>6, <2>1
\* The place an element of t comes from.
<1> DEFINE From(i) == IF i = 1 THEN p ELSE IF i - 1 < p THEN i - 1 ELSE i
<1>8. ASSUME NEW i \in 1..n PROVE From(i) \in 1..n /\ t[i] = s[From(i)]
  <2>1. CASE i = 1
    BY <1>4, <1>7, <2>1
  <2>2. CASE i # 1
    <3>1. i - 1 \in 1..(n - 1) /\ (i - 1) + 1 = i
      BY <1>2, <2>2
    <3>2. t[i] = r[i - 1]
      BY <1>7, <3>1
    <3> QED BY <1>2, <1>4, <1>6, <2>2, <3>1, <3>2
  <2> QED BY <2>1, <2>2
<1>9. \A i, j \in 1..n : From(i) = From(j) => i = j
  BY <1>2, <1>4
<1>10. IsInjective(t)
  <2> HIDE DEF t, From
  <2> QED BY <1>1, <1>2, <1>7, <1>8, <1>9 DEF IsInjective
<1>11. K \subseteq ToSet(t)
  <2>1. ASSUME NEW k \in K PROVE k \in ToSet(t)
    <3>1. PICK j \in 1..n : s[j] = k
      BY <1>1, <1>2 DEF ToSet
    <3> DEFINE i == IF j = p THEN 1 ELSE IF j < p THEN j + 1 ELSE j
    <3>2. i \in 1..n /\ From(i) = j
      BY <1>2, <1>4
    <3>3. t[i] = k
      BY <1>8, <3>1, <3>2
    <3> HIDE DEF t, i, From
    <3> QED BY <1>7, <3>2, <3>3 DEF ToSet
  <2> QED BY <2>1
<1> HIDE DEF t
<1> QED BY <1>5, <1>7, <1>10, <1>11 DEF Ordered, K

\* A dynamic cache after a question.
After(m, key, value) == IF key \in DOMAIN m.data THEN Used(m, key) ELSE Insert(m, key, value)

\* Its key is in front then.
LEMMA AfterOrdered ==
    ASSUME NEW m, Ordered(m), NEW key, NEW value
    PROVE  LET after == After(m, key, value)
           IN  /\ Ordered(after) /\ key \in DOMAIN after.data
               /\ after.lru # <<>> /\ after.lru[1] = key
               /\ \A c : RightEntry(c, key, value) /\ RightTable(c, m.data)
                             => RightTable(c, after.data)
<1>1. CASE key \in DOMAIN m.data
  <2>1. After(m, key, value) = Used(m, key)
    BY <1>1 DEF After
  <2> QED BY <1>1, <2>1, UsedOrdered
<1>2. CASE key \notin DOMAIN m.data
  <2> DEFINE n == Insert(m, key, value)
  <2>1. After(m, key, value) = n
    BY <1>2 DEF After
  <2>2. Ordered(n) /\ Inserted(m, n, key, value)
    BY InsertOrdered
  <2> HIDE DEF n
  <2>3. ASSUME NEW c, RightEntry(c, key, value), RightTable(c, m.data)
        PROVE  RightTable(c, n.data)
    BY <2>2, <2>3 DEF RightTable, Inserted
  <2> QED BY <1>2, <2>1, <2>2, <2>3 DEF Inserted
<1> QED BY <1>1, <1>2

\* A question to a static cache.
LEMMA ComputeStaticShape ==
    ASSUME CacheShape, NEW c \in DOMAIN Asked, NEW input \in Asked[c], Compute(c, input), IsStatic(c)
    PROVE  CacheShape'
<1>1. /\ answer'.cache = c /\ answer'.input = input
      /\ data' = data /\ lru' = lru /\ initialized' = initialized /\ filepath' = filepath
      /\ disk' = disk /\ steps' = steps /\ toDump' = toDump /\ c[1] \in steps
  BY DEF Compute, ComputeStatic, Answer
<1>2. StepsInv' /\ TablesInv'
  BY <1>1 DEF CacheShape, StepsInv, TablesInv
<1>3. AnswerInv'
  BY <1>1 DEF AnswerInv
<1> QED BY <1>2, <1>3 DEF CacheShape

\* A question to a dynamic cache.
LEMMA ComputeDynamicShape ==
    ASSUME CacheShape, NEW c \in DOMAIN Asked, NEW input \in Asked[c], Compute(c, input), ~ IsStatic(c)
    PROVE  CacheShape'
<1> DEFINE key == SortInput(Fn(c), input).input
           after == After([data |-> data[c], lru |-> lru[c]], key, Loop(Fn(c), c[2], key))
<1>1. /\ answer'.cache = c /\ answer'.input = input
      /\ data' = [data EXCEPT ![c] = after.data] /\ lru' = [lru EXCEPT ![c] = after.lru]
      /\ initialized' = initialized /\ filepath' = filepath
      /\ disk' = disk /\ steps' = steps /\ toDump' = toDump /\ c[1] \in steps
  BY DEF Compute, ComputeDynamic, Answer, After
<1>2. c \in Cache /\ StepsInv /\ TablesInv
  BY CachesAssumption DEF CacheShape
<1>3. Ordered(after) /\ after.lru # <<>> /\ after.lru[1] = key
  BY <1>2, AfterOrdered DEF TablesInv
<1> HIDE DEF after, key
<1>4. /\ DOMAIN data' = Cache /\ DOMAIN lru' = Cache
      /\ data'[c] = after.data /\ lru'[c] = after.lru
      /\ \A d \in Cache : d # c => data'[d] = data[d] /\ lru'[d] = lru[d]
  BY <1>1, <1>2 DEF TablesInv
<1>5. StepsInv'
  BY <1>1, <1>2, <1>4 DEF StepsInv
<1>6. TablesInv'
  <2>1. Ordered([data |-> data'[c], lru |-> lru'[c]])
    BY <1>3, <1>4 DEF Ordered
  <2>2. ASSUME NEW d \in Cache
        PROVE  IF IsStatic(d) THEN IsSequence(data'[d])
               ELSE Ordered([data |-> data'[d], lru |-> lru'[d]])
    BY <1>2, <1>4, <2>1 DEF TablesInv
  <2> QED BY <1>1, <1>2, <1>4, <2>2 DEF TablesInv
<1>7. AnswerInv'
  BY <1>1, <1>3, <1>4 DEF AnswerInv, key
<1> QED BY <1>5, <1>6, <1>7 DEF CacheShape

\* The caches are to be written.
LEMMA DumpAllCachesShape ==
    ASSUME CacheShape, DumpAllCaches
    PROVE  CacheShape'
<1>1. /\ data' = data /\ lru' = lru /\ initialized' = initialized /\ filepath' = filepath
      /\ disk' = disk /\ steps' = steps /\ answer' = answer /\ toDump' \subseteq filepath
  BY DEF DumpAllCaches, ToDump
<1> QED BY <1>1 DEF CacheShape, StepsInv, TablesInv, AnswerInv

\* One of them is.
LEMMA SaveDumpShape ==
    ASSUME CacheShape, NEW c \in Cache, SaveDump(c)
    PROVE  CacheShape'
<1>1. \A file \in DOMAIN disk' : IsSequence(disk'[file])
  <2>1. CASE disk' = disk
    BY <2>1 DEF CacheShape, TablesInv
  <2>2. ASSUME NEW s \in Written(c), disk' = With(disk, File(c), s)
        PROVE  \A file \in DOMAIN disk' : IsSequence(disk'[file])
    <3>1. IsSequence(s)
      BY WrittenRecords DEF CacheShape
    <3> QED BY <2>2, <3>1 DEF CacheShape, TablesInv, With
  <2> QED BY <2>1, <2>2 DEF SaveDump
<1>2. CASE toDump = {c}
  <2>1. Restarted
    BY <1>2 DEF SaveDump
  <2> QED BY <1>1, <2>1, RestartedShape
<1>3. CASE toDump # {c}
  <2>1. /\ data' = data /\ lru' = lru /\ initialized' = initialized /\ filepath' = filepath
        /\ steps' = steps /\ answer' = answer /\ toDump' \subseteq toDump
    BY <1>3 DEF SaveDump
  <2> QED BY <1>1, <2>1 DEF CacheShape, StepsInv, TablesInv, AnswerInv
<1> QED BY <1>2, <1>3

\* Each step keeps the shape.
LEMMA NextShape == CacheShape /\ [Next]_vars => CacheShape'
<1> SUFFICES ASSUME CacheShape, [Next]_vars PROVE CacheShape'
  OBVIOUS
<1>1. CASE UNCHANGED vars
  BY <1>1 DEF CacheShape, StepsInv, TablesInv, AnswerInv, vars
<1>2. ASSUME NEW f \in DOMAIN Functions, InitCaches(f) PROVE CacheShape'
  BY <1>2, InitCachesShape
<1>3. ASSUME NEW c \in DOMAIN Asked, NEW input \in Asked[c], Compute(c, input) PROVE CacheShape'
  BY <1>3, ComputeStaticShape, ComputeDynamicShape
<1>4. CASE DumpAllCaches
  BY <1>4, DumpAllCachesShape
<1>5. ASSUME NEW c \in Cache, SaveDump(c) PROVE CacheShape'
  BY <1>5, SaveDumpShape
<1>6. CASE Stop
  <2>1. Restarted /\ disk' = disk
    BY <1>6 DEF Stop
  <2>2. \A file \in DOMAIN disk' : IsSequence(disk'[file])
    BY <2>1 DEF CacheShape, TablesInv
  <2> QED BY <2>1, <2>2, RestartedShape
<1> QED BY <1>1, <1>2, <1>3, <1>4, <1>5, <1>6 DEF Next

(***************************************************************************)
(* Types, tables and files without a look at the results.                  *)
(***************************************************************************)
THEOREM ShapeInvariance == Spec => []CacheShape
BY InitShape, NextShape, PTL DEF Spec

(***************************************************************************)
(* The assertions of Evict (dynamic_cache.h) hold, and the capacity is     *)
(* kept, over all questions, dumps, loads, cut files and restarts, also    *)
(* where caches share files.                                               *)
(***************************************************************************)
THEOREM OrderIsKnown == Spec => []OrderKnowsTable
<1>1. CacheShape => OrderKnowsTable
  <2> SUFFICES ASSUME CacheShape, NEW c \in Cache, ~ IsStatic(c)
               PROVE  /\ ToSet(lru[c]) = DOMAIN data[c] /\ IsInjective(lru[c])
                      /\ Cardinality(DOMAIN data[c]) <= Capacity
    BY DEF OrderKnowsTable
  <2>1. Ordered([data |-> data[c], lru |-> lru[c]])
    BY DEF CacheShape, TablesInv
  <2>2. lru[c] \in Seq(DOMAIN data[c])
    BY <2>1 DEF Ordered
  <2>3. ToSet(lru[c]) \subseteq DOMAIN data[c]
    BY <2>2 DEF ToSet
  <2> QED BY <2>1, <2>3 DEF Ordered
<1> QED BY <1>1, ShapeInvariance, PTL

\* With room for two the first key is not the last one.
LEMMA FirstStays ==
    ASSUME Capacity > 1, NEW m, Ordered(m), m.lru # <<>>, NEW key, NEW value
    PROVE  m.lru[1] \in DOMAIN After(m, key, value).data
<1> DEFINE K == DOMAIN m.data
           s == m.lru
           n == Len(s)
<1>1. /\ s \in Seq(K) /\ K \subseteq ToSet(s)
      /\ \A i, j \in DOMAIN s : s[i] = s[j] => i = j
  BY DEF Ordered, IsInjective
<1> HIDE DEF K, s
<1>2. n \in Nat \ {0} /\ DOMAIN s = 1..n /\ s[1] \in K
  <2>1. s # <<>>
    BY DEF s
  <2> QED BY <1>1, <2>1, EmptySeq, LenProperties
<1>3. ASSUME Cardinality(K) = Capacity PROVE s[n] # s[1]
  <2>1. SUFFICES ASSUME n = 1 PROVE FALSE
    BY <1>1, <1>2
  <2>2. K = {s[1]}
    BY <1>1, <1>2, <2>1 DEF ToSet
  <2>3. Cardinality(K) = 1
    BY <2>2, FS_Singleton
  <2> QED BY <1>3, <2>3
<1>4. Last(s) = s[n]
  BY DEF Last
<1> HIDE DEF n
<1>5. ASSUME key \notin DOMAIN m.data PROVE s[1] \in DOMAIN Insert(m, key, value).data
  <2> DEFINE room == IF Cardinality(K) = Capacity THEN Evict(m) ELSE m
  <2>1. s[1] \in DOMAIN room.data
    <3>1. CASE Cardinality(K) = Capacity
      BY <1>2, <1>3, <1>4, <3>1, Evicted DEF K, s
    <3>2. CASE Cardinality(K) # Capacity
      BY <1>2, <3>2 DEF K
    <3> QED BY <3>1, <3>2
  <2>2. Insert(m, key, value) =
            IF key \in DOMAIN room.data THEN room
            ELSE [data |-> With(room.data, key, value), lru |-> <<key>> \o room.lru]
    BY DEF Insert, K
  <2> HIDE DEF room
  <2>3. CASE key \in DOMAIN room.data
    BY <2>1, <2>2, <2>3
  <2>4. CASE key \notin DOMAIN room.data
    <3>1. DOMAIN Insert(m, key, value).data = DOMAIN room.data \cup {key}
      BY <2>2, <2>4 DEF With
    <3> QED BY <2>1, <3>1
  <2> QED BY <2>3, <2>4
<1>6. CASE key \in DOMAIN m.data
  <2>1. After(m, key, value).data = m.data
    BY <1>6, UsedOrdered DEF After
  <2> QED BY <1>2, <2>1 DEF K, s
<1>7. CASE key \notin DOMAIN m.data
  <2>1. After(m, key, value) = Insert(m, key, value)
    BY <1>7 DEF After
  <2> QED BY <1>5, <1>7, <2>1 DEF s
<1> QED BY <1>6, <1>7

\* The table of the answer keeps its key.
LEMMA LastResultStep ==
    ASSUME CacheShape, Capacity > 1, Next, steps' # {}, answer # NoAnswer,
           ~ IsStatic(answer.cache)
    PROVE  SortInput(Fn(answer.cache), answer.input).input \in DOMAIN data'[answer.cache]
<1> DEFINE a == answer.cache
           m == [data |-> data[a], lru |-> lru[a]]
<1>1. /\ a \in DOMAIN Asked /\ a \in Cache /\ a[1] \in steps
      /\ lru[a] # <<>> /\ lru[a][1] = SortInput(Fn(a), answer.input).input
  BY CachesAssumption DEF CacheShape, AnswerInv
<1>2. Ordered(m) /\ m.lru = lru[a] /\ m.data = data[a]
  BY <1>1 DEF CacheShape, TablesInv
<1>3. lru[a][1] \in DOMAIN data[a]
  <2>1. lru[a] \in Seq(DOMAIN data[a])
    BY <1>2 DEF Ordered
  <2>2. Len(lru[a]) \in Nat \ {0}
    BY <1>1, <2>1, EmptySeq, LenProperties
  <2> QED BY <2>1, <2>2
<1> SUFFICES lru[a][1] \in DOMAIN data'[a]
  BY <1>1
<1> HIDE DEF m
<1>4. ASSUME NEW f \in DOMAIN Functions, InitCaches(f) PROVE data'[a] = data[a]
  <2> DEFINE fresh == {c \in {f} \X Action : HasFile(c) /\ c \notin filepath}
  <2>1. a \notin fresh
    BY <1>1 DEF CacheShape, StepsInv
  <2>2. ~ IsStatic(a)
    OBVIOUS
  <2> QED BY <1>1, <1>4, <2>1, <2>2 DEF InitCaches
<1>5. ASSUME NEW c \in DOMAIN Asked, NEW input \in Asked[c], Compute(c, input)
      PROVE  lru[a][1] \in DOMAIN data'[a]
  <2>1. CASE IsStatic(c)
    BY <1>3, <1>5, <2>1 DEF Compute, ComputeStatic
  <2>2. CASE ~ IsStatic(c) /\ c # a
    <3>1. PICK v : data' = [data EXCEPT ![c] = v]
      BY <1>5, <2>2 DEF Compute, ComputeDynamic
    <3>2. data'[a] = data[a]
      BY <1>1, <2>2, <3>1 DEF CacheShape, TablesInv
    <3> QED BY <1>3, <3>2
  <2>3. CASE ~ IsStatic(c) /\ c = a
    <3> DEFINE key == SortInput(Fn(c), input).input
               after == After(m, key, Loop(Fn(c), c[2], key))
    <3>1. data' = [data EXCEPT ![c] = after.data]
      BY <1>5, <2>3 DEF Compute, ComputeDynamic, After, m
    <3>2. m.lru[1] \in DOMAIN after.data
      BY <1>1, <1>2, FirstStays
    <3> HIDE DEF after
    <3>3. data'[a] = after.data
      BY <1>1, <2>3, <3>1 DEF CacheShape, TablesInv
    <3> QED BY <1>2, <3>2, <3>3
  <2> QED BY <2>1, <2>2, <2>3
<1>6. CASE DumpAllCaches
  BY <1>3, <1>6 DEF DumpAllCaches
<1>7. ASSUME NEW c \in Cache, SaveDump(c) PROVE data' = data
  BY <1>7 DEF SaveDump, Restarted
<1>8. CASE Stop
  BY <1>8 DEF Stop, Restarted
<1> QED BY <1>3, <1>4, <1>5, <1>6, <1>7, <1>8 DEF Next

(***************************************************************************)
(* The result asked for last is still there when the next question comes,  *)
(* if the cache has room for two (the code's has room for 2^22).           *)
(***************************************************************************)
THEOREM LastResultIsKept ==
    ASSUME Capacity > 1
    PROVE  Spec => LastResultStays
<1> DEFINE Stays == steps # {} /\ steps' # {} /\ answer # NoAnswer /\ ~ IsStatic(answer.cache) =>
                        SortInput(Fn(answer.cache), answer.input).input
                            \in DOMAIN data'[answer.cache]
<1>1. CacheShape /\ [Next]_vars => [Stays]_vars
  BY LastResultStep
<1> QED BY <1>1, ShapeInvariance, PTL DEF Spec, LastResultStays

-----------------------------------------------------------------------------
(* Sorted inputs *)

\* One pair of positions looked at.
Exchange(F, s, i, j) ==
    IF /\ F.symmetry[i] = F.symmetry[j]
       /\ Number(F, i, s.input[i]) < Number(F, j, s.input[j])
    THEN Exchanged(s, i, j)
    ELSE s

\* Each position has come from another one with which it may be exchanged, and has the
\* condition from there.
Rearranged(F, input, s) ==
    /\ s.input \in Input(F) /\ s.perm \in [Positions(F) -> Positions(F)]
    /\ \A k, l \in Positions(F) : s.perm[k] = s.perm[l] => k = l
    /\ \A k \in Positions(F) : /\ s.input[k] = input[s.perm[k]]
                               /\ F.symmetry[s.perm[k]] = F.symmetry[k]

LEMMA ExchangeRearranges ==
    ASSUME NEW F, NEW input, NEW s, Rearranged(F, input, s),
           NEW i \in Positions(F), NEW j \in Positions(F)
    PROVE  Rearranged(F, input, Exchange(F, s, i, j))
<1>1. CASE Exchange(F, s, i, j) = s
  BY <1>1
<1>2. CASE Exchange(F, s, i, j) # s
  <2> DEFINE P == Positions(F)
             t == Exchanged(s, i, j)
  <2>1. Exchange(F, s, i, j) = t /\ F.symmetry[i] = F.symmetry[j]
    BY <1>2 DEF Exchange
  <2>2. t.input = Swapped(s.input, i, j) /\ t.perm = Swapped(s.perm, i, j)
    BY DEF Exchanged
  <2> HIDE DEF t
  <2>3. t.input \in Input(F)
    BY <2>2 DEF Rearranged, Input, Swapped
  <2>4. t.perm \in [P -> P]
    BY <2>2 DEF Rearranged, Swapped
  <2> DEFINE From(k) == IF k = i THEN j ELSE IF k = j THEN i ELSE k
  <2>5. \A k \in P : From(k) \in P /\ t.input[k] = s.input[From(k)] /\ t.perm[k] = s.perm[From(k)]
    BY <2>2 DEF Rearranged, Input, Swapped
  <2>6. \A k, l \in P : From(k) = From(l) => k = l
    OBVIOUS
  <2>7. \A k \in P : F.symmetry[From(k)] = F.symmetry[k]
    BY <2>1
  <2> HIDE DEF From
  <2>8. \A k, l \in P : t.perm[k] = t.perm[l] => k = l
    BY <2>5, <2>6 DEF Rearranged
  <2>9. ASSUME NEW k \in P
        PROVE  t.input[k] = input[t.perm[k]] /\ F.symmetry[t.perm[k]] = F.symmetry[k]
    <3> DEFINE l == From(k)
    <3>1. l \in P /\ t.input[k] = s.input[l] /\ t.perm[k] = s.perm[l]
          /\ F.symmetry[l] = F.symmetry[k]
      BY <2>5, <2>7
    <3> HIDE DEF l
    <3>2. s.input[l] = input[s.perm[l]] /\ F.symmetry[s.perm[l]] = F.symmetry[l]
      BY <3>1 DEF Rearranged
    <3> QED BY <3>1, <3>2
  <2> QED BY <2>1, <2>3, <2>4, <2>8, <2>9 DEF Rearranged
<1> QED BY <1>1, <1>2

\* The pairs of positions that are looked at.
LEMMA IndexPairsType ==
    ASSUME NEW n \in Nat
    PROVE  IndexPairs(n) \in Seq((1..n) \X (1..n))
<1> DEFINE S == (1..n) \X (1..n)
           ss == [i \in 1..n |-> [k \in 1..(n - i) |-> <<i, i + k>>]]
<1>1. ASSUME NEW i \in 1..n PROVE ss[i] \in Seq(S)
  <2>1. n - i \in Nat
    OBVIOUS
  <2>2. \A k \in 1..(n - i) : <<i, i + k>> \in S
    OBVIOUS
  <2>3. [k \in 1..(n - i) |-> <<i, i + k>>] \in [1..(n - i) -> S]
    BY <2>2
  <2> QED BY <2>1, <2>3
<1>2. ss \in Seq(Seq(S))
  BY <1>1
<1>3. FlattenSeq(ss) \in Seq(S)
  BY <1>2, FlattenType
<1> QED BY <1>3 DEF IndexPairs

\* What SortInput returns.
THEOREM SortInputRearranges ==
    ASSUME NEW F, F.inputs + F.outputs \in Nat, NEW input \in Input(F)
    PROVE  Rearranged(F, input, SortInput(F, input))
<1> DEFINE N == F.inputs + F.outputs
           pairs == IndexPairs(N)
           n == Len(pairs)
           base == [input |-> input, perm |-> [i \in Positions(F) |-> i]]
           Step(a, k) == Exchange(F, a, pairs[k][1], pairs[k][2])
           Equation(f) == f = [t \in SUBSET (1..n) |->
                                  IF t = {} THEN base ELSE Step(f[t \ {Max(t)}], Max(t))]
           f == CHOOSE h : Equation(h)
<1>1. Positions(F) = 1..N
  BY DEF Positions
<1>2. pairs \in Seq((1..N) \X (1..N))
  BY IndexPairsType
<1>3. n \in Nat /\ DOMAIN pairs = 1..n
      /\ \A k \in 1..n : pairs[k][1] \in Positions(F) /\ pairs[k][2] \in Positions(F)
  BY <1>1, <1>2
<1>4. SortInput(F, input) = f[1..n]
  BY <1>3 DEF SortInput, FoldLeft, MapThenFoldSet, Exchange
<1> DEFINE A == {a \in [input : Input(F), perm : [Positions(F) -> Positions(F)]] :
                    Rearranged(F, input, a)}
<1>5. base \in A
  BY DEF Rearranged
<1> HIDE DEF base, pairs, n
<1>6. ASSUME NEW a \in A, NEW k \in 1..n PROVE Step(a, k) \in A
  <2>1. Rearranged(F, input, Step(a, k))
    BY <1>3, ExchangeRearranges
  <2>2. Step(a, k) \in [input : Input(F), perm : [Positions(F) -> Positions(F)]]
    BY <2>1 DEF Exchange, Exchanged, Rearranged
  <2> QED BY <2>1, <2>2
<1> HIDE DEF Step, A
<1> DEFINE H == [x \in (1..n) \X A |-> Step(x[2], x[1])]
<1>7. H \in [(1..n) \X A -> A]
  BY <1>6
<1> HIDE DEF H
<1>8. PICK h \in [SUBSET (1..n) -> A] : Accumulates(n, base, H, h)
  BY <1>3, <1>5, <1>7, FoldExists
<1>9. Equation(h)
  <2>1. ASSUME NEW t \in SUBSET (1..n), t # {}
        PROVE  H[<<Max(t), h[t \ {Max(t)}]>>] = Step(h[t \ {Max(t)}], Max(t))
    <3>1. Max(t) \in 1..n /\ t \ {Max(t)} \in SUBSET (1..n)
      BY <1>3, <2>1, GreatestPlace
    <3>2. <<Max(t), h[t \ {Max(t)}]>> \in (1..n) \X A
      BY <1>8, <3>1
    <3> QED BY <3>2 DEF H
  <2> QED BY <1>8, <2>1 DEF Accumulates
<1>10. Equation(f)
  BY <1>9
<1> DEFINE G == [x \in (1..n) \X {f[t] : t \in SUBSET (1..n)} |-> Step(x[2], x[1])]
<1> HIDE DEF f
<1>11. ASSUME NEW t \in SUBSET (1..n), NEW k \in 1..n
       PROVE  G[<<k, f[t]>>] = Step(f[t], k)
  <2>1. <<k, f[t]>> \in (1..n) \X {f[u] : u \in SUBSET (1..n)}
    OBVIOUS
  <2> QED BY <2>1
<1> HIDE DEF G
<1>12. Accumulates(n, base, G, f)
  <2>1. ASSUME NEW t \in SUBSET (1..n), t # {}
        PROVE  G[<<Max(t), f[t \ {Max(t)}]>>] = Step(f[t \ {Max(t)}], Max(t))
    <3>1. Max(t) \in 1..n /\ t \ {Max(t)} \in SUBSET (1..n)
      BY <1>3, <2>1, GreatestPlace
    <3> QED BY <1>11, <3>1
  <2> QED BY <1>10, <2>1 DEF Accumulates
<1>13. ASSUME NEW k \in 1..n, NEW a \in A, a = f[1..(k - 1)] PROVE G[<<k, a>>] \in A
  <2>1. 1..(k - 1) \in SUBSET (1..n)
    BY <1>3
  <2> QED BY <1>6, <1>11, <1>13, <2>1
<1>14. f[1..n] \in A
  <2>1. \A k \in 0..n : f[1..k] \in A
    BY <1>3, <1>5, <1>12, <1>13, FoldStays
  <2> QED BY <1>3, <2>1
<1> QED BY <1>4, <1>14 DEF A

-----------------------------------------------------------------------------
(* Results *)

\* The key a question is sorted into is one.
LEMMA AskedKey ==
    ASSUME NEW c \in DOMAIN Asked, NEW input \in Asked[c]
    PROVE  c \in Cache /\ SortInput(Fn(c), input).input \in Key(c)
<1>1. c \in Cache /\ c[1] \in DOMAIN Functions /\ input \in Input(Fn(c))
  BY CachesAssumption, CacheFacts
<1>2. Fn(c).inputs + Fn(c).outputs \in Nat
  BY <1>1, CachesAssumption DEF Fn
<1> QED BY <1>1, <1>2, SortInputRearranges DEF Key, Rearranged

\* A static cache loads what was computed.
LEMMA StaticLoads ==
    ASSUME NEW c \in Cache, IsStatic(c), HasFile(c), RightFiles, File(c) \in DOMAIN disk
    PROVE  LoadedStatic(c) = AllResults[c]
<1> DEFINE r == AllResults[c]
<1>1. disk[File(c)] = r
  BY DEF RightFiles
<1>2. DOMAIN r = 1..Size(Fn(c))
      /\ \A n \in DOMAIN r : r[n] = Loop(Fn(c), c[2], KeyAt(Fn(c), n))
  BY DEF AllResults
<1>3. r = [n \in DOMAIN r |-> r[n]]
  BY DEF AllResults
<1> HIDE DEF r
<1>4. \A n \in DOMAIN r : ReadAs(Fn(c), r[n]) = r[n]
  BY <1>2, ReadAsIs
<1>5. LoadedStatic(c) = [n \in DOMAIN r |-> ReadAs(Fn(c), r[n])]
  BY <1>1 DEF LoadedStatic
<1>6. [n \in DOMAIN r |-> ReadAs(Fn(c), r[n])] = [n \in DOMAIN r |-> r[n]]
  BY <1>4
<1> QED BY <1>3, <1>5, <1>6 DEF r

\* Tables, files and the last answer.
Right == RightTables /\ RightFiles /\ AnswersAreComputed

\* A program that has just been started has no table and no answer.
LEMMA RestartedRight ==
    ASSUME Restarted, RightFiles'
    PROVE  Right'
<1>1. data' = Nothing /\ steps' = {} /\ answer' = NoAnswer
  BY DEF Restarted
<1>2. \A c \in Cache : Nothing[c] = <<>>
  BY DEF Nothing
<1>3. RightTables'
  BY <1>1, <1>2, Fresh DEF RightTables
<1> QED BY <1>1, <1>3 DEF Right, AnswersAreComputed

LEMMA InitRight == Init => Right
<1> SUFFICES ASSUME Init PROVE Right
  OBVIOUS
<1>1. data = Nothing /\ steps = {} /\ answer = NoAnswer /\ DOMAIN disk = {}
  BY DEF Init
<1>2. \A c \in Cache : Nothing[c] = <<>>
  BY DEF Nothing
<1>3. RightTables
  BY <1>1, <1>2, Fresh DEF RightTables
<1> QED BY <1>1, <1>3 DEF Right, RightFiles, AnswersAreComputed

\* The first or a further step of a function.
LEMMA InitCachesRight ==
    ASSUME CacheShape, Right, NEW f \in DOMAIN Functions, InitCaches(f)
    PROVE  Right'
<1> DEFINE mine  == {f} \X Action
           fresh == {c \in mine : HasFile(c) /\ c \notin filepath}
           loaded == [c \in Cache |->
                         IF c \notin fresh THEN data[c]
                         ELSE IF IsStatic(c) THEN LoadedStatic(c) ELSE LoadedDynamic(c).data]
           marked == initialized \cup {c \in fresh : IsStatic(c) /\ loaded[c] # <<>>}
           toFill == {c \in mine : IsStatic(c) /\ c \notin marked}
<1>1. /\ data' = [c \in Cache |-> IF c \in toFill THEN AllResults[c] ELSE loaded[c]]
      /\ steps' = steps \cup {f} /\ disk' = disk /\ answer' = answer
  BY DEF InitCaches
<1>2. StepsInv /\ TablesInv /\ RightTables /\ RightFiles /\ AnswersAreComputed
  BY DEF CacheShape, Right
<1>3. \A c \in Cache : c \in mine <=> c[1] = f
  BY DEF Cache
<1>4. ASSUME NEW c \in Cache, IsStatic(c), c[1] \in steps' PROVE data'[c] = AllResults[c]
  <2>1. CASE c \in toFill
    BY <1>1, <2>1
  <2>2. CASE c \notin toFill /\ c \notin fresh
    <3>1. data'[c] = data[c]
      BY <1>1, <2>2
    <3>2. c[1] \in steps
      <4>1. c[1] = f => c \in initialized
        BY <1>3, <1>4, <2>2
      <4> QED BY <1>1, <1>2, <1>4, <4>1 DEF StepsInv
    <3> QED BY <1>2, <1>4, <3>1, <3>2 DEF RightTables
  <2>3. CASE c \notin toFill /\ c \in fresh
    <3>1. data'[c] = LoadedStatic(c) /\ loaded[c] = LoadedStatic(c)
      BY <1>1, <1>4, <2>3
    <3>2. c[1] \notin steps
      BY <1>2, <2>3 DEF StepsInv
    <3>3. c \notin initialized /\ data[c] = <<>>
      BY <1>2, <3>2 DEF StepsInv
    <3>4. LoadedStatic(c) # <<>>
      BY <1>4, <2>3, <3>1, <3>3
    <3>5. File(c) \in DOMAIN disk
      BY <3>3, <3>4 DEF LoadedStatic
    <3> QED BY <1>2, <1>4, <2>3, <3>1, <3>5, StaticLoads
  <2> QED BY <2>1, <2>2, <2>3
<1>5. ASSUME NEW c \in Cache, ~ IsStatic(c) PROVE RightTable(c, data'[c])
  <2>1. c \notin toFill
    BY <1>5
  <2>2. CASE c \notin fresh
    <3>1. data'[c] = data[c]
      BY <1>1, <2>1, <2>2
    <3> QED BY <1>2, <1>5, <3>1 DEF RightTables
  <2>3. CASE c \in fresh
    <3>1. data'[c] = LoadedDynamic(c).data
      BY <1>1, <1>5, <2>1, <2>3
    <3>2. File(c) \in DOMAIN disk => RightRecords(c, disk[File(c)])
      BY <1>2, <1>5, <2>3 DEF RightFiles
    <3> QED BY <1>2, <1>5, <2>3, <3>1, <3>2, LoadedOrdered
  <2> QED BY <2>2, <2>3
<1>6. RightTables'
  BY <1>4, <1>5 DEF RightTables
<1>7. RightFiles' /\ AnswersAreComputed'
  BY <1>1, <1>2 DEF RightFiles, AnswersAreComputed
<1> QED BY <1>6, <1>7 DEF Right

\* A question to a static cache finds its place.
LEMMA ComputeStaticRight ==
    ASSUME KeysHavePlaces, CacheShape, Right,
           NEW c \in DOMAIN Asked, NEW input \in Asked[c], Compute(c, input), IsStatic(c)
    PROVE  Right'
<1> DEFINE s == SortInput(Fn(c), input)
           place == PlaceOf(Fn(c), s.input)
<1>1. data' = data /\ disk' = disk /\ steps' = steps /\ c[1] \in steps /\ c \in Cache
  BY AskedKey DEF Compute, ComputeStatic
<1>2. data[c] = AllResults[c] /\ RightTables /\ RightFiles
  BY <1>1 DEF Right, RightTables
<1>3. place \in 1..Size(Fn(c)) /\ KeyAt(Fn(c), place) = s.input
  BY DEF KeysHavePlaces
<1>4. place \in DOMAIN data[c] /\ data[c][place] = Loop(Fn(c), c[2], s.input)
  BY <1>1, <1>2, <1>3 DEF AllResults
<1>5. Answer(c, input, s.perm, data[c][place])
  BY <1>4 DEF Compute, ComputeStatic
<1>6. answer'.cache = c /\ answer'.input = input /\ answer'.result = Uncached(c, input)
  BY <1>4, <1>5 DEF Answer, Uncached
<1>7. RightTables' /\ RightFiles'
  BY <1>1, <1>2 DEF RightTables, RightFiles
<1> QED BY <1>6, <1>7 DEF Right, AnswersAreComputed

\* A question to a dynamic cache.
LEMMA ComputeDynamicRight ==
    ASSUME CacheShape, Right,
           NEW c \in DOMAIN Asked, NEW input \in Asked[c], Compute(c, input), ~ IsStatic(c)
    PROVE  Right'
<1> DEFINE s == SortInput(Fn(c), input)
           key == s.input
           value == Loop(Fn(c), c[2], key)
           m == [data |-> data[c], lru |-> lru[c]]
           after == After(m, key, value)
<1>1. /\ Answer(c, input, s.perm, after.data[key])
      /\ data' = [data EXCEPT ![c] = after.data] /\ disk' = disk /\ steps' = steps
  BY DEF Compute, ComputeDynamic, After
<1>2. c \in Cache /\ key \in Key(c)
  BY AskedKey
<1>3. Ordered(m) /\ RightTable(c, data[c]) /\ DOMAIN data = Cache /\ RightTables /\ RightFiles
  BY <1>2 DEF CacheShape, TablesInv, Right, RightTables
<1>4. RightEntry(c, key, value)
  BY <1>2 DEF RightEntry
<1> HIDE DEF value, key, s
<1>5. m.data = data[c]
  OBVIOUS
<1> HIDE DEF m
<1>6. RightTable(c, after.data) /\ key \in DOMAIN after.data
  BY <1>3, <1>4, <1>5, AfterOrdered
<1> HIDE DEF after
<1>7. after.data[key] = value
  BY <1>6 DEF RightTable, RightEntry, value
<1>8. answer'.cache = c /\ answer'.input = input /\ answer'.result = Uncached(c, input)
  BY <1>1, <1>7 DEF Answer, Uncached, value, key, s
<1>9. data'[c] = after.data /\ \A d \in Cache : d # c => data'[d] = data[d]
  BY <1>1, <1>2, <1>3
<1>10. RightTables'
  BY <1>1, <1>3, <1>6, <1>9 DEF RightTables
<1>11. RightFiles'
  BY <1>1, <1>3 DEF RightFiles
<1> QED BY <1>8, <1>10, <1>11 DEF Right, AnswersAreComputed

\* A cache writes no other cache's file.
LEMMA SaveDumpRight ==
    ASSUME OwnFiles, CacheShape, Right, NEW c \in Cache, SaveDump(c)
    PROVE  Right'
<1>1. StepsInv /\ TablesInv /\ RightTables /\ RightFiles /\ AnswersAreComputed
  BY DEF CacheShape, Right
<1>2. c \in filepath /\ HasFile(c) /\ c[1] \in steps
  BY <1>1 DEF SaveDump, StepsInv
<1>3. ASSUME NEW s \in Written(c), disk' = With(disk, File(c), s) PROVE RightFiles'
  <2>1. IF IsStatic(c) THEN s = AllResults[c] ELSE RightRecords(c, s)
    <3>1. CASE IsStatic(c)
      BY <1>1, <1>2, <3>1, WrittenRecords DEF OwnFiles, RightTables
    <3>2. CASE ~ IsStatic(c)
      BY <1>1, <3>2, WrittenRecords DEF RightTables
    <3> QED BY <3>1, <3>2
  <2>2. DOMAIN disk' = DOMAIN disk \cup {File(c)} /\ disk'[File(c)] = s
        /\ \A file \in DOMAIN disk : file # File(c) => disk'[file] = disk[file]
    BY <1>3 DEF With
  <2>3. ASSUME NEW d \in Cache, HasFile(d), File(d) \in DOMAIN disk'
        PROVE  IF IsStatic(d) THEN disk'[File(d)] = AllResults[d]
               ELSE RightRecords(d, disk'[File(d)])
    <3>1. CASE d = c
      BY <2>1, <2>2, <3>1
    <3>2. CASE d # c
      <4>1. File(d) # File(c)
        BY <1>2, <2>3, <3>2 DEF OwnFiles
      <4> QED BY <1>1, <2>2, <2>3, <4>1 DEF RightFiles
    <3> QED BY <3>1, <3>2
  <2> QED BY <2>3 DEF RightFiles
<1>4. RightFiles'
  <2>1. CASE disk' = disk
    BY <1>1, <2>1 DEF RightFiles
  <2> QED BY <1>3, <2>1 DEF SaveDump
<1>5. CASE toDump = {c}
  <2>1. Restarted
    BY <1>5 DEF SaveDump
  <2> QED BY <1>4, <2>1, RestartedRight
<1>6. CASE toDump # {c}
  <2>1. data' = data /\ steps' = steps /\ answer' = answer
    BY <1>6 DEF SaveDump
  <2> QED BY <1>1, <1>4, <2>1 DEF Right, RightTables, AnswersAreComputed
<1> QED BY <1>5, <1>6

\* Each step keeps the results right.
LEMMA NextRight ==
    OwnFiles /\ KeysHavePlaces /\ CacheShape /\ Right /\ [Next]_vars => Right'
<1> SUFFICES ASSUME OwnFiles, KeysHavePlaces, CacheShape, Right, [Next]_vars PROVE Right'
  OBVIOUS
<1>1. CASE UNCHANGED vars
  BY <1>1 DEF Right, RightTables, RightFiles, AnswersAreComputed, vars
<1>2. ASSUME NEW f \in DOMAIN Functions, InitCaches(f) PROVE Right'
  BY <1>2, InitCachesRight
<1>3. ASSUME NEW c \in DOMAIN Asked, NEW input \in Asked[c], Compute(c, input) PROVE Right'
  BY <1>3, ComputeStaticRight, ComputeDynamicRight
<1>4. CASE DumpAllCaches
  BY <1>4 DEF DumpAllCaches, Right, RightTables, RightFiles, AnswersAreComputed
<1>5. ASSUME NEW c \in Cache, SaveDump(c) PROVE Right'
  BY <1>5, SaveDumpRight
<1>6. CASE Stop
  <2>1. Restarted /\ disk' = disk
    BY <1>6 DEF Stop
  <2>2. RightFiles'
    BY <2>1 DEF Right, RightFiles
  <2> QED BY <2>1, <2>2, RestartedRight
<1> QED BY <1>1, <1>2, <1>3, <1>4, <1>5, <1>6 DEF Next

(***************************************************************************)
(* The inductive invariant of the run.                                     *)
(***************************************************************************)
THEOREM CacheInvariance ==
    ASSUME KeysHavePlaces
    PROVE  Spec => []CacheInv
<1>1. Init => CacheInv
  BY InitShape, InitRight DEF CacheInv, CacheShape, Right
<1>2. CacheInv /\ [Next]_vars => CacheInv'
  BY NextShape, NextRight DEF CacheInv, CacheShape, Right
<1> QED BY <1>1, <1>2, PTL DEF Spec

(***************************************************************************)
(* Caches make no difference: after all questions, dumps, loads, cut files *)
(* and restarts an answer is what the loop over all pairs computes, unless *)
(* caches share a file.                                                    *)
(***************************************************************************)
THEOREM AnswersComputed ==
    ASSUME OwnFiles, KeysHavePlaces
    PROVE  Spec => []AnswersAreComputed
<1>1. CacheInv => AnswersAreComputed
  BY DEF CacheInv
<1> QED BY <1>1, CacheInvariance, PTL

(***************************************************************************)
(* So the results are right in every state, if the loop computes right     *)
(* ones for the questions.                                                 *)
(***************************************************************************)
THEOREM ResultsRight ==
    ASSUME OwnFiles, KeysHavePlaces, LoopIsRight
    PROVE  Spec => []ResultsAreRight
<1>1. CacheInv => ResultsAreRight
  BY DEF CacheInv, AnswersAreComputed, AnswerInv, ResultsAreRight, LoopIsRight
<1> QED BY <1>1, CacheInvariance, PTL

=============================================================================
