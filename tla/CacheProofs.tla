----------------------------- MODULE CacheProofs -----------------------------
(***************************************************************************)
(* Theorems about the cache, for any keys, results and capacities: the map *)
(* and the queue stay in step, so the store stays within its capacity, and *)
(* the whole implements the table of MemoTable.                            *)
(***************************************************************************)
EXTENDS Cache, FunctionTheorems, FiniteSetTheorems, SequenceTheorems, TLAPS

(***************************************************************************)
(* The queue: a sequence of keys, each in it once.                         *)
(***************************************************************************)
Elements(s) == {s[i] : i \in DOMAIN s}
Once(s) == \A i, j \in DOMAIN s : s[i] = s[j] => i = j

LEMMA RemoveAtFacts ==
  ASSUME NEW s \in Seq(Key), NEW i \in DOMAIN s, Once(s)
  PROVE  /\ RemoveAt(s, i) \in Seq(Key)
         /\ Len(RemoveAt(s, i)) = Len(s) - 1
         /\ Elements(RemoveAt(s, i)) = Elements(s) \ {s[i]}
         /\ Once(RemoveAt(s, i))
<1>. DEFINE n == Len(s)
            t == RemoveAt(s, i)
<1>1. n \in Nat /\ DOMAIN s = 1..n /\ i \in 1..n /\ \A j \in 1..n : s[j] \in Key
  BY LenProperties, ElementOfSeq
<1>2. t = [j \in 1..(n - 1) |-> IF j < i THEN s[j] ELSE s[j + 1]]
  BY DEF RemoveAt
<1>3. DOMAIN t = 1..(n - 1) /\ n - 1 \in Nat
  BY <1>1, <1>2
<1>4. \A j \in 1..(n - 1) : t[j] = IF j < i THEN s[j] ELSE s[j + 1]
  BY <1>2
<1>. HIDE DEF n, t
<1>5. \A j \in 1..(n - 1) : t[j] \in Key
  BY <1>1, <1>4
<1>6. t \in Seq(Key) /\ Len(t) = n - 1
  <2>1. t = [j \in 1..(n - 1) |-> t[j]]
    BY <1>2, <1>3
  <2>2. [j \in 1..(n - 1) |-> t[j]] \in Seq(Key)
    BY <1>3, <1>5, IsASeq
  <2>. QED  BY <1>3, <2>1, <2>2, LenProperties
<1>7. ASSUME NEW j \in 1..(n - 1)
      PROVE  t[j] \in Elements(s) \ {s[i]}
  <2>1. j + 1 \in 1..n /\ j \in 1..n
    BY <1>1
  <2>2. s[j] # s[i] \/ j = i
    BY <1>1, <2>1 DEF Once
  <2>3. s[j + 1] # s[i] \/ j + 1 = i
    BY <1>1, <2>1 DEF Once
  <2>. QED  BY <1>1, <1>4, <2>1, <2>2, <2>3 DEF Elements
<1>8. ASSUME NEW j \in 1..n, s[j] # s[i]
      PROVE  s[j] \in Elements(t)
  <2>1. CASE j < i
    <3>1. j \in 1..(n - 1)
      BY <1>1, <2>1
    <3>. QED  BY <1>3, <1>4, <2>1, <3>1 DEF Elements
  <2>2. CASE i < j
    <3>1. j - 1 \in 1..(n - 1) /\ ~(j - 1 < i) /\ (j - 1) + 1 = j
      BY <1>1, <2>2
    <3>2. t[j - 1] = s[j]
      BY <1>4, <3>1
    <3>. QED  BY <1>3, <3>1, <3>2 DEF Elements
  <2>. QED  BY <1>1, <1>8, <2>1, <2>2
<1>9. Elements(t) = Elements(s) \ {s[i]}
  BY <1>1, <1>3, <1>7, <1>8 DEF Elements
<1>10. ASSUME NEW j \in 1..(n - 1), NEW k \in 1..(n - 1), t[j] = t[k]
       PROVE  j = k
  <2>1. j \in 1..n /\ j + 1 \in 1..n /\ k \in 1..n /\ k + 1 \in 1..n
    BY <1>1
  <2>2. \A a, b \in 1..n : s[a] = s[b] => a = b
    BY <1>1 DEF Once
  <2>. QED  BY <1>1, <1>4, <1>10, <2>1, <2>2
<1>. QED
  BY <1>3, <1>6, <1>9, <1>10 DEF t, n, Once

LEMMA AppendFacts ==
  ASSUME NEW s \in Seq(Key), NEW k \in Key, Once(s), k \notin Elements(s)
  PROVE  /\ Append(s, k) \in Seq(Key)
         /\ Len(Append(s, k)) = Len(s) + 1
         /\ Elements(Append(s, k)) = Elements(s) \cup {k}
         /\ Once(Append(s, k))
<1>. DEFINE n == Len(s)
            t == Append(s, k)
<1>1. n \in Nat /\ DOMAIN s = 1..n
  BY LenProperties
<1>2. /\ t \in Seq(Key) /\ Len(t) = n + 1
      /\ \A i \in 1..n : t[i] = s[i]
      /\ t[n + 1] = k
  BY AppendProperties
<1>3. DOMAIN t = 1..(n + 1)
  BY <1>2, LenProperties
<1>. HIDE DEF n, t
<1>4. \A i \in 1..(n + 1) : i \in 1..n \/ i = n + 1
  BY <1>1
<1>5. Elements(t) = Elements(s) \cup {k}
  <2>1. \A i \in 1..n : i \in 1..(n + 1)
    BY <1>1
  <2>2. n + 1 \in 1..(n + 1)
    BY <1>1
  <2>. QED  BY <1>1, <1>2, <1>3, <1>4, <2>1, <2>2 DEF Elements
<1>6. \A i \in 1..n : s[i] # k
  BY <1>1 DEF Elements
<1>7. Once(t)
  BY <1>1, <1>2, <1>3, <1>4, <1>6 DEF Once
<1>. QED
  BY <1>2, <1>5, <1>7 DEF t, n

(* A queue is as long as the keys in it are many.                          *)
LEMMA OnceCounts ==
  ASSUME NEW s \in Seq(Key), Once(s)
  PROVE  IsFiniteSet(Elements(s)) /\ Cardinality(Elements(s)) = Len(s)
<1>1. Len(s) \in Nat /\ DOMAIN s = 1..Len(s) /\ s \in [1..Len(s) -> Key]
  BY LenProperties
<1>2. s \in [1..Len(s) -> Elements(s)]
  BY <1>1 DEF Elements
<1>3. \A x \in Elements(s) : \E i \in 1..Len(s) : s[i] = x
  BY <1>1 DEF Elements
<1>4. \A i, j \in 1..Len(s) : s[i] = s[j] => i = j
  BY <1>1 DEF Once
<1>5. s \in Bijection(1..Len(s), Elements(s))
  BY <1>2, <1>3, <1>4, Fun_IsBij
<1>6. ExistsBijection(1..Len(s), Elements(s))
  BY <1>5 DEF ExistsBijection
<1>7. IsFiniteSet(1..Len(s)) /\ Cardinality(1..Len(s)) = Len(s)
  BY <1>1, FS_Interval
<1>. QED
  BY <1>6, <1>7, FS_Bijection

(***************************************************************************)
(* The policy's operations on a queue that is in step with the map.        *)
(***************************************************************************)
LEMMA InStepMeans == InStep <=> Elements(order) = Held /\ Once(order)
BY DEF InStep, Queued, Elements, Once

LEMMA PositionFacts ==
  ASSUME NEW k \in Queued
  PROVE  Position(k) \in DOMAIN order /\ order[Position(k)] = k
BY DEF Position, Queued

LEMMA TouchFacts ==
  ASSUME TypeOK, InStep, NEW k \in Key
  PROVE  /\ Touch(k) \in Seq(Key)
         /\ Len(Touch(k)) = IF k \in Held THEN Len(order) ELSE Len(order) + 1
         /\ Elements(Touch(k)) = Held \cup {k}
         /\ Once(Touch(k))
<1>1. order \in Seq(Key) /\ Once(order) /\ Elements(order) = Held /\ Queued = Held
  BY InStepMeans DEF TypeOK, InStep
<1>2. CASE k \notin Held
  BY <1>1, <1>2, AppendFacts DEF Touch
<1>3. CASE k \in Held
  <2>. DEFINE r == RemoveAt(order, Position(k))
  <2>1. Position(k) \in DOMAIN order /\ order[Position(k)] = k
    BY <1>1, <1>3, PositionFacts
  <2>2. /\ r \in Seq(Key) /\ Len(r) = Len(order) - 1
        /\ Elements(r) = Held \ {k} /\ Once(r)
    BY <1>1, <2>1, RemoveAtFacts
  <2>3. Touch(k) = Append(r, k)
    BY <1>1, <1>3 DEF Touch
  <2>. HIDE DEF r
  <2>4. /\ Append(r, k) \in Seq(Key) /\ Len(Append(r, k)) = Len(r) + 1
        /\ Elements(Append(r, k)) = Elements(r) \cup {k} /\ Once(Append(r, k))
    BY <2>2, AppendFacts
  <2>5. Len(order) \in Nat
    BY <1>1, LenProperties
  <2>. QED  BY <1>3, <2>2, <2>3, <2>4, <2>5
<1>. QED
  BY <1>2, <1>3

(* Removing the key in front.                                              *)
LEMMA FrontFacts ==
  ASSUME TypeOK, InStep, order # <<>>
  PROVE  /\ Len(order) \in Nat \ {0}
         /\ order[1] \in Held
         /\ NoteRemove(order[1]) = RemoveAt(order, 1)
         /\ NoteRemove(order[1]) \in Seq(Key)
         /\ Len(NoteRemove(order[1])) = Len(order) - 1
         /\ Elements(NoteRemove(order[1])) = Held \ {order[1]}
         /\ Once(NoteRemove(order[1]))
<1>1. order \in Seq(Key) /\ Once(order) /\ Elements(order) = Held /\ Queued = Held
  BY InStepMeans DEF TypeOK, InStep
<1>2. Len(order) \in Nat \ {0} /\ DOMAIN order = 1..Len(order)
  BY <1>1, EmptySeq, LenProperties
<1>3. 1 \in DOMAIN order
  BY <1>2
<1>4. order[1] \in Queued
  BY <1>3 DEF Queued
<1>5. Position(order[1]) = 1
  BY <1>1, <1>3, <1>4, PositionFacts DEF Once
<1>6. NoteRemove(order[1]) = RemoveAt(order, 1)
  BY <1>4, <1>5 DEF NoteRemove
<1>. QED
  BY <1>1, <1>2, <1>3, <1>4, <1>6, RemoveAtFacts

LEMMA HeldCounted ==
  ASSUME TypeOK, InStep
  PROVE  IsFiniteSet(Held) /\ Cardinality(Held) = Len(order) /\ Len(order) \in Nat
BY InStepMeans, OnceCounts, LenProperties DEF TypeOK

(***************************************************************************)
(* Types, and the queue in step with the map.                              *)
(***************************************************************************)
LEMMA AloneType ==
  ASSUME TypeOK, Alone
  PROVE  cached' \in SUBSET Key /\ uncached' \in SUBSET Key /\ fits' \in BOOLEAN
BY DEF TypeOK, Alone

LEMMA InsertedType ==
  ASSUME TypeOK, NEW k \in Key, NEW v \in Value
  PROVE  /\ DOMAIN Inserted(k, v) = Held \cup {k}
         /\ Inserted(k, v) \in [Held \cup {k} -> Value]
BY DEF TypeOK, Inserted, Held

LEMMA CallType ==
  ASSUME TypeOK, pc # "idle"
  PROVE  call.op \in Op /\ call.key \in Key /\ Compute[call.key] \in Value
BY ComputeAssumption DEF TypeOK

LEMMA TypeInit == Init => TypeOK /\ InStep
<1>. SUFFICES ASSUME Init PROVE TypeOK /\ InStep
  OBVIOUS
<1>1. map = [k \in {} |-> NoValue] /\ Held = {}
  BY DEF Init, Held
<1>2. order \in Seq(Key) /\ DOMAIN order = {}
  BY EmptySeq DEF Init
<1>3. TypeOK
  BY <1>1, <1>2 DEF Init, TypeOK, Calls
<1>. QED
  BY <1>1, <1>2, <1>3 DEF InStep, Queued

LEMMA TypeStep == TypeOK /\ InStep /\ [Next]_vars => TypeOK' /\ InStep'
<1>. SUFFICES ASSUME TypeOK, InStep, [Next]_vars
              PROVE  TypeOK' /\ InStep'
  OBVIOUS
<1>1. ASSUME NEW k \in Key, Get(k)
      PROVE  TypeOK' /\ InStep'
  <2>1. UNCHANGED <<capacity, map, pc, call>> /\ Held' = Held
    BY <1>1 DEF Get, Held
  <2>2. CASE Got(k)
    <3>1. order' = Touch(k) /\ k \in Held /\ answer' = <<k, map[k]>>
      BY <2>2 DEF Got
    <3>2. Held \cup {k} = Held /\ map[k] \in Value
      BY <3>1 DEF TypeOK
    <3>3. order' \in Seq(Key) /\ Elements(order') = Held' /\ Once(order')
      BY <2>1, <3>1, <3>2, TouchFacts
    <3>4. InStep'
      BY <3>3 DEF InStep, Queued, Elements, Once
    <3>5. TypeOK'
      BY <1>1, <2>1, <3>1, <3>2, <3>3, AloneType DEF Get, TypeOK
    <3>. QED  BY <3>4, <3>5
  <2>3. CASE answer' = <<k, NoValue>> /\ UNCHANGED order
    <3>1. TypeOK'
      BY <1>1, <2>1, <2>3, AloneType DEF Get, TypeOK
    <3>. QED  BY <2>1, <2>3, <3>1 DEF InStep, Queued
  <2>. QED  BY <1>1, <2>2, <2>3 DEF Get
<1>2. ASSUME NEW k \in Key, Put(k)
      PROVE  TypeOK' /\ InStep'
  <2>1. call' \in [op : Op, key : Key]
    BY <1>2 DEF Put, Op
  <2>. QED
    BY <1>2, <2>1, AloneType DEF Put, TypeOK, InStep, Queued, Held, Calls
<1>3. ASSUME NEW k \in Key, MemoizeHits(k)
      PROVE  TypeOK' /\ InStep'
  <2>1. UNCHANGED <<capacity, map, pc, call>> /\ Held' = Held
    BY <1>3 DEF MemoizeHits, Held
  <2>2. order' = Touch(k) /\ k \in Held /\ answer' = <<k, map[k]>>
    BY <1>3 DEF MemoizeHits, Got
  <2>3. Held \cup {k} = Held /\ map[k] \in Value
    BY <2>2 DEF TypeOK
  <2>4. order' \in Seq(Key) /\ Elements(order') = Held' /\ Once(order')
    BY <2>1, <2>2, <2>3, TouchFacts
  <2>5. InStep'
    BY <2>4 DEF InStep, Queued, Elements, Once
  <2>6. TypeOK'
    BY <1>3, <2>1, <2>2, <2>3, <2>4, AloneType DEF MemoizeHits, TypeOK
  <2>. QED  BY <2>5, <2>6
<1>4. ASSUME NEW k \in Key, MemoizeMisses(k)
      PROVE  TypeOK' /\ InStep'
  <2>1. call' \in [op : Op, key : Key]
    BY <1>4 DEF MemoizeMisses, Op
  <2>2. cached' \in SUBSET Key /\ uncached' \in SUBSET Key /\ fits' \in BOOLEAN
    BY <1>4, AloneType DEF MemoizeMisses, TypeOK
  <2>. QED
    BY <1>4, <2>1, <2>2 DEF MemoizeMisses, TypeOK, InStep, Queued, Held, Calls
<1>5. ASSUME NEW items \in SUBSET Key, Partition(items)
      PROVE  TypeOK' /\ InStep'
  BY <1>5 DEF Partition, Idle, TypeOK, InStep, Queued, Held
<1>6. CASE Computed
  BY <1>6 DEF Computed, TypeOK, InStep, Queued, Held
<1>7. CASE Panics
  BY <1>7 DEF Panics, TypeOK, InStep, Queued, Held, Calls
<1>8. CASE Insert
  <2>. DEFINE k == call.key
  <2>1. k \in Key /\ Compute[k] \in Value /\ call \in [op : Op, key : Key]
    BY <1>8, CallType DEF Insert, TypeOK
  <2>2. map' = Inserted(k, Compute[k]) /\ order' = Touch(k)
    BY <1>8 DEF Insert
  <2>. HIDE DEF k
  <2>3. Held' = Held \cup {k} /\ map' \in [Held' -> Value]
    BY <2>1, <2>2, InsertedType DEF Held
  <2>4. order' \in Seq(Key) /\ Elements(order') = Held' /\ Once(order')
    BY <2>1, <2>2, <2>3, TouchFacts
  <2>5. InStep'
    BY <2>4 DEF InStep, Queued, Elements, Once
  <2>6. TypeOK'
    BY <1>8, <2>1, <2>3, <2>4 DEF Insert, TypeOK
  <2>. QED  BY <2>5, <2>6
<1>9. CASE Evict
  <2>1. order # <<>> /\ order' = NoteRemove(order[1])
    BY <1>9 DEF Evict
  <2>2. map' = [j \in Held \ {order[1]} |-> map[j]]
    BY <1>9 DEF Evict
  <2>3. Held' = Held \ {order[1]} /\ map' \in [Held' -> Value] /\ Held' \subseteq Key
    BY <2>2 DEF Held, TypeOK
  <2>4. order' \in Seq(Key) /\ Elements(order') = Held' /\ Once(order')
    BY <2>1, <2>3, FrontFacts
  <2>5. InStep'
    BY <2>4 DEF InStep, Queued, Elements, Once
  <2>6. TypeOK'
    BY <1>9, <2>3, <2>4 DEF Evict, TypeOK
  <2>. QED  BY <2>5, <2>6
<1>10. CASE PutReturns
  <2>1. answer' \in {NoValue} \cup (Key \X (Value \cup {NoValue}))
    BY <1>10, CallType DEF PutReturns, TypeOK
  <2>. QED
    BY <1>10, <2>1 DEF PutReturns, TypeOK, InStep, Queued, Held, Calls
<1>11. CASE UNCHANGED vars
  BY <1>11 DEF vars, TypeOK, InStep, Queued, Held
<1>. QED
  BY <1>1, <1>2, <1>3, <1>4, <1>5, <1>6, <1>7, <1>8, <1>9, <1>10, <1>11 DEF Next

LEMMA BasicsAlways == Spec => [](TypeOK /\ InStep)
BY TypeInit, TypeStep, PTL DEF Spec

(* Every state of the store and of its callers is typed.                   *)
THEOREM TypeCorrect == Spec => []TypeOK
BY BasicsAlways, PTL

(* The map and the queue are about the same keys after every step of every *)
(* call, whatever was evicted and whichever computation panicked.          *)
THEOREM StaysInStep == Spec => []InStep
BY BasicsAlways, PTL

(***************************************************************************)
(* The capacity: it is exceeded by one key, while a put still evicts.      *)
(***************************************************************************)
Bound ==
  capacity > 0 => Len(order) <= IF pc = "evict" THEN capacity + 1 ELSE capacity

LEMMA BoundInit == Init => Bound
<1>1. Len(<<>>) = 0
  BY EmptySeq
<1>. QED
  BY <1>1, CapacityAssumption DEF Init, Bound

LEMMA BoundStep ==
  TypeOK /\ InStep /\ Bound /\ [Next]_vars => Bound'
<1>. SUFFICES ASSUME TypeOK, InStep, Bound, [Next]_vars
              PROVE  Bound'
  OBVIOUS
<1>0. Len(order) \in Nat /\ capacity \in Nat
  BY HeldCounted, CapacityAssumption DEF TypeOK
<1>1. ASSUME NEW k \in Key, Got(k)
      PROVE  Len(order') = Len(order)
  BY <1>1, TouchFacts DEF Got
<1>2. ASSUME NEW k \in Key, Get(k) \/ MemoizeHits(k)
      PROVE  Bound'
  BY <1>1, <1>2 DEF Get, MemoizeHits, Bound
<1>3. ASSUME NEW k \in Key, Put(k) \/ MemoizeMisses(k)
      PROVE  Bound'
  BY <1>3 DEF Put, MemoizeMisses, Idle, Bound
<1>4. ASSUME NEW items \in SUBSET Key, Partition(items)
      PROVE  Bound'
  BY <1>4 DEF Partition, Bound
<1>5. CASE Computed \/ Panics
  BY <1>5 DEF Computed, Panics, Bound
<1>6. CASE Insert
  <2>1. Len(order') = Len(order) \/ Len(order') = Len(order) + 1
    BY <1>6, CallType, TouchFacts DEF Insert
  <2>. QED  BY <1>0, <1>6, <2>1 DEF Insert, Bound
<1>7. CASE Evict
  <2>1. Len(order') = Len(order) - 1
    BY <1>7, FrontFacts DEF Evict
  <2>. QED  BY <1>0, <1>7, <2>1 DEF Evict, Bound
<1>8. CASE PutReturns
  <2>1. CASE order = <<>>
    BY <1>8, <2>1, <1>0, EmptySeq DEF PutReturns, Bound
  <2>2. CASE ~OverCapacity
    BY <1>8, <2>2, <1>0, HeldCounted DEF PutReturns, Bound, OverCapacity
  <2>. QED  BY <1>8, <2>1, <2>2 DEF PutReturns
<1>9. CASE UNCHANGED vars
  BY <1>9 DEF vars, Bound
<1>. QED
  BY <1>2, <1>3, <1>4, <1>5, <1>6, <1>7, <1>8, <1>9 DEF Next

LEMMA BoundAlways == Spec => []Bound
BY BasicsAlways, BoundInit, BoundStep, PTL DEF Spec

(* Whenever no put is running, a store with a capacity is within it.       *)
THEOREM CapacityKept == Spec => []WithinCapacity
<1>1. Bound => WithinCapacity
  BY DEF Bound, WithinCapacity
<1>. QED
  BY <1>1, BoundAlways, PTL

(***************************************************************************)
(* A rebuild that was told some keys are cached and that had room for them *)
(* beside those it computes: it computes no other key, so the keys held    *)
(* and those still to be computed go on fitting, and nothing is evicted.   *)
(***************************************************************************)
Room ==
  cached # {} =>
    /\ pc # "idle" => call.op = "memoize" /\ call.key \in uncached
    /\ fits => capacity = 0 \/ Cardinality(Held \cup uncached) <= capacity

LEMMA RoomInit == Init => Room /\ CachedStays
BY DEF Init, Room, CachedStays

LEMMA FewerFit ==
  ASSUME NEW S \in SUBSET Key, NEW T \in SUBSET S, NEW n \in Nat,
         n = 0 \/ Cardinality(S) <= n
  PROVE  n = 0 \/ Cardinality(T) <= n
<1>1. IsFiniteSet(S)
  BY KeyAssumption, FS_Subset
<1>2. Cardinality(T) <= Cardinality(S) /\ IsFiniteSet(T)
  BY <1>1, FS_Subset
<1>3. Cardinality(S) \in Nat /\ Cardinality(T) \in Nat
  BY <1>1, <1>2, FS_CardinalityType
<1>. QED
  BY <1>2, <1>3

LEMMA RoomStep ==
  TypeOK /\ InStep /\ Room /\ CachedStays /\ [Next]_vars => Room' /\ CachedStays'
<1>. SUFFICES ASSUME TypeOK, InStep, Room, CachedStays, [Next]_vars
              PROVE  Room' /\ CachedStays'
  OBVIOUS
<1>0. /\ Held \subseteq Key /\ uncached \subseteq Key /\ cached \subseteq Key
      /\ capacity \in Nat
  BY CapacityAssumption DEF TypeOK
<1>1. ASSUME Alone
      PROVE  Room' /\ CachedStays'
  BY <1>1 DEF Alone, Room, CachedStays
<1>2. ASSUME NEW k \in Key, Get(k) \/ Put(k) \/ MemoizeHits(k)
      PROVE  Room' /\ CachedStays'
  BY <1>1, <1>2 DEF Get, Put, MemoizeHits
<1>3. ASSUME NEW k \in Key, MemoizeMisses(k)
      PROVE  Room' /\ CachedStays'
  <2>1. CASE k \in uncached /\ UNCHANGED <<cached, fits, uncached>>
    BY <1>3, <2>1 DEF MemoizeMisses, Room, CachedStays, Held
  <2>. QED  BY <1>1, <1>3, <2>1 DEF MemoizeMisses
<1>4. ASSUME NEW items \in SUBSET Key, Partition(items)
      PROVE  Room' /\ CachedStays'
  <2>1. Held \cup (items \ Held) = Held \cup items
    OBVIOUS
  <2>. QED  BY <1>4, <2>1 DEF Partition, Idle, Room, CachedStays, Held
<1>5. CASE Computed
  BY <1>5 DEF Computed, Room, CachedStays, Held
<1>6. CASE Panics
  BY <1>6 DEF Panics, Room, CachedStays, Held
<1>7. CASE Insert
  <2>1. Held' = Held \cup {call.key}
    BY <1>7 DEF Insert, Inserted, Held
  <2>2. UNCHANGED <<cached, uncached, fits, capacity, call>> /\ pc = "put"
    BY <1>7 DEF Insert
  <2>3. cached # {} => Held' \cup uncached = Held \cup uncached
    BY <2>1, <2>2 DEF Room
  <2>. QED  BY <2>1, <2>2, <2>3 DEF Room, CachedStays
<1>8. CASE Evict
  <2>1. UNCHANGED <<cached, uncached, fits, capacity, call, pc>>
    BY <1>8 DEF Evict
  <2>2. capacity > 0 /\ ~(Cardinality(Held) <= capacity)
    <3>1. Cardinality(Held) \in Nat
      BY HeldCounted
    <3>. QED  BY <1>0, <1>8, <3>1 DEF Evict, OverCapacity
  <2>3. ~(capacity = 0 \/ Cardinality(Held \cup uncached) <= capacity)
    BY <1>0, <2>2, FewerFit
  <2>4. cached # {} => ~fits
    BY <2>3 DEF Room
  <2>. QED  BY <2>1, <2>4 DEF Room, CachedStays
<1>9. CASE PutReturns
  <2>1. Held' = Held /\ UNCHANGED <<cached, fits, capacity>> /\ pc' = "idle"
    BY <1>9 DEF PutReturns, Held
  <2>2. uncached' \subseteq uncached
    BY <1>9 DEF PutReturns
  <2>3. Held \cup uncached' \in SUBSET (Held \cup uncached)
    BY <2>2
  <2>4. Held \cup uncached \in SUBSET Key
    BY <1>0
  <2>5. cached # {} /\ fits => capacity = 0 \/ Cardinality(Held \cup uncached') <= capacity
    BY <1>0, <2>3, <2>4, FewerFit DEF Room
  <2>. QED  BY <2>1, <2>5 DEF Room, CachedStays
<1>10. CASE UNCHANGED vars
  BY <1>10 DEF vars, Room, CachedStays, Held
<1>. QED
  BY <1>2, <1>3, <1>4, <1>5, <1>6, <1>7, <1>8, <1>9, <1>10 DEF Next

(* What a rebuild was told is cached stays held until it has computed the  *)
(* rest, when there was room for both.                                     *)
THEOREM RebuildKeepsCached == Spec => []CachedStays
BY BasicsAlways, RoomInit, RoomStep, PTL DEF Spec

(***************************************************************************)
(* The refinement.  The map holds the results of its keys; the table's     *)
(* keys are those of the queue, but for one the loop has still to evict.   *)
(***************************************************************************)
Faithful == \A k \in Held : map[k] = Compute[k]

LEMMA FaithfulInit == Init => Faithful
BY DEF Init, Faithful, Held

LEMMA FaithfulStep == TypeOK /\ Faithful /\ [Next]_vars => Faithful'
<1>. SUFFICES ASSUME TypeOK, Faithful, [Next]_vars
              PROVE  Faithful'
  OBVIOUS
<1>1. CASE Insert
  BY <1>1 DEF Insert, Inserted, Faithful, Held
<1>2. CASE Evict
  BY <1>2 DEF Evict, Faithful, Held
<1>3. CASE UNCHANGED map
  BY <1>3 DEF Faithful, Held
<1>4. ASSUME NEW k \in Key, Get(k) \/ Put(k) \/ MemoizeHits(k) \/ MemoizeMisses(k)
      PROVE  UNCHANGED map
  BY <1>4 DEF Get, Put, MemoizeHits, MemoizeMisses
<1>5. ASSUME NEW items \in SUBSET Key, Partition(items)
      PROVE  UNCHANGED map
  BY <1>5 DEF Partition
<1>6. Computed \/ Panics \/ PutReturns \/ UNCHANGED vars => UNCHANGED map
  BY DEF Computed, Panics, PutReturns, vars
<1>. QED
  BY <1>1, <1>2, <1>3, <1>4, <1>5, <1>6 DEF Next

LEMMA RecentIsQueue ==
  ASSUME TypeOK, InStep, Bound, pc # "evict"
  PROVE  Newest(order) = order
<1>1. Len(order) \in Nat /\ capacity \in Nat
  BY HeldCounted, CapacityAssumption DEF TypeOK
<1>. QED
  BY <1>1 DEF Bound, Newest

(* The table's operations on the queue.                                    *)
LEMMA TableOperations ==
  /\ \A k : Table!Used(order, k) = Touch(k)
  /\ \A s : Table!Newest(s) = Newest(s)
BY DEF Table!Used, Table!Without, Table!Newest, Touch, RemoveAt, Position, Queued, Newest

(* Evicting from a queue that is too long leaves its newest keys alone.    *)
LEMMA EvictLeavesNewest ==
  ASSUME TypeOK, InStep, Bound, Evict
  PROVE  Newest(order)' = Newest(order)
<1>1. capacity > 0 /\ capacity \in Nat /\ capacity' = capacity
  BY CapacityAssumption DEF Evict, OverCapacity, TypeOK
<1>2. order \in Seq(Key) /\ Len(order) \in Nat /\ Len(order) > capacity
  BY HeldCounted DEF Evict, OverCapacity, TypeOK
<1>3. Len(order) = capacity + 1
  BY <1>1, <1>2 DEF Bound, Evict
<1>4. /\ order' = RemoveAt(order, 1) /\ order' \in Seq(Key)
      /\ Len(order') = capacity
  BY <1>1, <1>3, FrontFacts DEF Evict
<1>5. Newest(order)' = order'
  BY <1>1, <1>4 DEF Newest
<1>6. order # <<>>
  BY DEF Evict
<1>7. Newest(order) = Tail(order)
  BY <1>1, <1>2, <1>3, <1>6, TailIsSubSeq DEF Newest
<1>8. /\ Tail(order) \in Seq(Key) /\ Len(Tail(order)) = capacity
      /\ \A i \in 1..capacity : Tail(order)[i] = order[i + 1]
  BY <1>1, <1>2, <1>3, <1>6, HeadTailProperties
<1>9. \A i \in 1..capacity : order'[i] = order[i + 1]
  <2>1. order' = [j \in 1..capacity |-> IF j < 1 THEN order[j] ELSE order[j + 1]]
    BY <1>1, <1>3, <1>4 DEF RemoveAt
  <2>. QED  BY <1>1, <2>1
<1>. QED
  BY <1>4, <1>5, <1>7, <1>8, <1>9, SeqEqual

LEMMA RefinesInit == Init => Table!Init
<1>. SUFFICES ASSUME Init PROVE Table!Init
  OBVIOUS
<1>1. Len(order) = 0 /\ capacity \in Nat
  BY EmptySeq, CapacityAssumption DEF Init
<1>2. Newest(order) = <<>>
  BY <1>1 DEF Init, Newest
<1>3. Answered = NoValue
  BY DEF Init, Answered
<1>. QED
  BY <1>1, <1>2, <1>3 DEF Table!Init

LEMMA RefinesHit ==
  ASSUME TypeOK, InStep, Bound, Bound', Faithful, NEW k \in Key, Got(k),
         pc = "idle", UNCHANGED <<capacity, pc, call>>
  PROVE  Table!Get(k)
<1>1. Newest(order) = order
  BY RecentIsQueue
<1>2. k \in Held /\ order' = Touch(k) /\ answer' = <<k, Compute[k]>>
  BY DEF Got, Faithful
<1>3. Len(order') = Len(order) /\ Len(order) \in Nat /\ capacity \in Nat
  BY <1>2, TouchFacts, HeldCounted, CapacityAssumption DEF TypeOK
<1>4. Newest(order)' = order'
  BY <1>3 DEF Bound, Newest
<1>5. Answered = answer /\ Answered' = answer'
  BY DEF Answered
<1>6. Table!Held = Held
  BY <1>1 DEF Table!Held, InStep, Queued
<1>. QED
  BY <1>1, <1>2, <1>4, <1>5, <1>6, TableOperations DEF Table!Get

LEMMA RefinesPut ==
  ASSUME TypeOK, InStep, Bound, Insert
  PROVE  /\ call.op = "put" => Table!Put(call.key)
         /\ call.op = "memoize" => Table!Memoize(call.key)
<1>. DEFINE k == call.key
<1>1. Newest(order) = order /\ capacity' = capacity /\ call' = call
  BY RecentIsQueue DEF Insert
<1>2. order' = Touch(k)
  BY DEF Insert
<1>3. Newest(order)' = Newest(Touch(k))
  BY <1>1, <1>2 DEF Newest
<1>4. Newest(order)' = Table!Newest(Table!Used(Newest(order), k))
  BY <1>1, <1>3, TableOperations
<1>5. Answered = answer
  BY DEF Insert, Answered
<1>6. Answered' = IF call.op = "memoize" THEN <<k, Compute[k]>> ELSE answer
  BY DEF Insert, Answered
<1>. QED
  BY <1>4, <1>5, <1>6 DEF Table!Put, Table!Memoize

LEMMA RefinesStep ==
  TypeOK /\ InStep /\ Bound /\ Bound' /\ Faithful /\ [Next]_vars
    => [Table!Next]_<<capacity, Newest(order), Answered>>
<1>. SUFFICES ASSUME TypeOK, InStep, Bound, Bound', Faithful, [Next]_vars
              PROVE  Table!Next \/ UNCHANGED <<capacity, Newest(order), Answered>>
  OBVIOUS
<1>. DEFINE Stutter == UNCHANGED <<capacity, Newest(order), Answered>>
<1>0. ASSUME UNCHANGED <<capacity, order, answer>>, pc # "evict", pc' # "evict"
      PROVE  Stutter
  BY <1>0 DEF Newest, Answered
<1>1. ASSUME NEW k \in Key, Get(k)
      PROVE  Table!Next
  <2>1. pc = "idle" /\ UNCHANGED <<capacity, pc, call>>
    BY <1>1 DEF Get, Idle
  <2>2. CASE Got(k)
    BY <2>1, <2>2, RefinesHit DEF Table!Next
  <2>3. CASE k \notin Held /\ answer' = <<k, NoValue>> /\ UNCHANGED order
    <3>1. Newest(order) = order
      BY <2>1, RecentIsQueue
    <3>2. Table!Held = Held
      BY <3>1 DEF Table!Held, InStep, Queued
    <3>3. UNCHANGED Newest(order) /\ Answered' = answer'
      BY <2>1, <2>3 DEF Newest, Answered
    <3>4. Table!Get(k)
      BY <2>3, <3>2, <3>3 DEF Table!Get
    <3>. QED  BY <2>1, <3>4 DEF Table!Next
  <2>. QED  BY <1>1, <2>2, <2>3 DEF Get
<1>2. ASSUME NEW k \in Key, MemoizeHits(k)
      PROVE  Table!Next
  <2>1. pc = "idle" /\ UNCHANGED <<capacity, pc, call>> /\ Got(k)
    BY <1>2 DEF MemoizeHits, Idle
  <2>. QED  BY <2>1, RefinesHit DEF Table!Next
<1>3. ASSUME NEW k \in Key, Put(k) \/ MemoizeMisses(k)
      PROVE  Stutter
  BY <1>0, <1>3 DEF Put, MemoizeMisses, Idle
<1>4. ASSUME NEW items \in SUBSET Key, Partition(items)
      PROVE  Stutter
  BY <1>0, <1>4 DEF Partition, Idle
<1>5. CASE Computed \/ Panics
  BY <1>0, <1>5 DEF Computed, Panics
<1>6. CASE Insert
  <2>1. call.key \in Key /\ call.op \in Op /\ capacity' = capacity
    BY <1>6, CallType DEF Insert
  <2>2. Table!Put(call.key) \/ Table!Memoize(call.key)
    BY <1>6, <2>1, RefinesPut DEF Op
  <2>. QED  BY <2>1, <2>2 DEF Table!Next
<1>7. CASE Evict
  BY <1>7, EvictLeavesNewest DEF Evict, Answered
<1>8. CASE PutReturns
  BY <1>8 DEF PutReturns, Newest, Answered
<1>9. CASE UNCHANGED vars
  BY <1>9 DEF vars, Newest, Answered
<1>. QED
  BY <1>1, <1>2, <1>3, <1>4, <1>5, <1>6, <1>7, <1>8, <1>9 DEF Next

(* The store, with its queue, its loop and the computations that panic, is *)
(* a table of the keys used last: whoever asks for a key gets its result.  *)
THEOREM CacheImplementsTable == Spec => ImplementsTable
<1>1. Spec => [](TypeOK /\ InStep /\ Bound /\ Faithful)
  BY BasicsAlways, BoundAlways, FaithfulInit, FaithfulStep, PTL DEF Spec
<1>. QED
  BY <1>1, RefinesInit, RefinesStep, PTL DEF Spec, ImplementsTable, Table!Spec
=============================================================================
