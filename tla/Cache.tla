-------------------------------- MODULE Cache --------------------------------
(***************************************************************************)
(* The cache crate (crates/habitat-graph-cache): a store of results        *)
(* (cas.rs), the retention policy that chooses what to evict from it       *)
(* (evict.rs) and the layer that answers from it or computes (memo.rs).    *)
(*                                                                         *)
(* The store holds a map and the policy a queue of the same keys; nothing  *)
(* but the order of the calls on the two keeps them in step.  A call has   *)
(* the store to itself (&mut), so one call runs at a time, but the loop    *)
(* that evicts is taken step by step.  A computation may panic before its  *)
(* result is put.  A rebuild is a client that partitions its items         *)
(* (partition.rs) and then computes what was not cached.                   *)
(*                                                                         *)
(* CacheKey::derive is taken to be injective: a key is its computation.    *)
(***************************************************************************)
EXTENDS Integers, Sequences, FiniteSets

CONSTANTS
  Key,         \* the keys
  Value,       \* the results
  Compute,     \* Compute[k]: the result for k
  NoValue,     \* what a get that misses returns
  Capacities   \* the capacities a store may be created with

ASSUME ComputeAssumption == Compute \in [Key -> Value]
ASSUME NoValueAssumption == NoValue \notin Value
ASSUME CapacityAssumption == Capacities \subseteq Nat
ASSUME KeyAssumption == IsFiniteSet(Key)  \* a key is a hash: 32 bytes

VARIABLES
  capacity,  \* MemStore.capacity; 0 means unbounded
  map,       \* MemStore.map: a function from the keys held
  order,     \* Lru.order: the next key to evict is in front
  pc,        \* where the running call is: idle, compute, put or evict
  call,      \* the running call: memoize or put, and its key
  answer,    \* the last key asked for and what was returned
  cached,    \* what the last partition found in the store
  uncached,  \* what it did not find and is not computed yet
  fits       \* history: there was room for uncached beside the rest

vars == <<capacity, map, order, pc, call, answer, cached, uncached, fits>>

Op == {"memoize", "put"}
NoCall == [op |-> "put", key |-> NoValue]
Calls == [op : Op, key : Key] \cup {NoCall}

Held == DOMAIN map
Queued == {order[i] : i \in DOMAIN order}

Init ==
  /\ capacity \in Capacities
  /\ map = [k \in {} |-> NoValue]
  /\ order = <<>>
  /\ pc = "idle"
  /\ call = NoCall
  /\ answer = NoValue
  /\ cached = {} /\ uncached = {} /\ fits = TRUE
-----------------------------------------------------------------------------
(***************************************************************************)
(* The policy.                                                             *)
(***************************************************************************)
Position(k) == CHOOSE i \in DOMAIN order : order[i] = k

RemoveAt(s, i) == [j \in 1..(Len(s) - 1) |-> IF j < i THEN s[j] ELSE s[j + 1]]

Touch(k) ==
  IF k \in Queued THEN Append(RemoveAt(order, Position(k)), k)
  ELSE Append(order, k)

NoteRemoveNothing(k) == order  \* mutant
NoteRemove(k) == IF k \in Queued THEN RemoveAt(order, Position(k)) ELSE order

-----------------------------------------------------------------------------
(***************************************************************************)
(* The store.                                                              *)
(***************************************************************************)
(* Mutant of Inserted: a place is kept for the result.                     *)
InsertedPlace(k, v) == [j \in Held \cup {k} |-> IF j = k THEN NoValue ELSE map[j]]

Inserted(k, v) == [j \in Held \cup {k} |-> IF j = k THEN v ELSE map[j]]

(* put, up to the loop.                                                    *)
Insert ==
  /\ pc = "put"
  /\ map' = Inserted(call.key, Compute[call.key])
  /\ order' = Touch(call.key)
  /\ pc' = "evict"
  /\ UNCHANGED <<capacity, call, answer, cached, uncached, fits>>

OverCapacityEarly == capacity > 0 /\ Cardinality(Held) >= capacity  \* mutant
OverCapacityLate == capacity > 0 /\ Cardinality(Held) > capacity + 1  \* mutant
OverCapacity == capacity > 0 /\ Cardinality(Held) > capacity

(* One turn of the loop: the front of the queue goes.                      *)
Evict ==
  /\ pc = "evict" /\ OverCapacity
  /\ order # <<>>
  /\ map' = [j \in Held \ {order[1]} |-> map[j]]
  /\ order' = NoteRemove(order[1])
  /\ UNCHANGED <<capacity, pc, call, answer, cached, uncached, fits>>

(* The loop is over, or the policy names nobody.                           *)
PutReturns ==
  /\ pc = "evict" /\ (~OverCapacity \/ order = <<>>)
  /\ pc' = "idle"
  /\ answer' = IF call.op = "memoize"
               THEN <<call.key, Compute[call.key]>> ELSE answer
  /\ uncached' = IF call.op = "memoize" THEN uncached \ {call.key} ELSE uncached
  /\ call' = NoCall
  /\ UNCHANGED <<capacity, map, order, cached, fits>>

(* Mutant of Got: a hit does not count as a use.                           *)
GotUnnoticed(k) ==
  /\ k \in Held
  /\ order' = order
  /\ answer' = <<k, map[k]>>

(* get, when it hits.                                                      *)
Got(k) ==
  /\ k \in Held
  /\ order' = Touch(k)
  /\ answer' = <<k, map[k]>>
-----------------------------------------------------------------------------
(***************************************************************************)
(* The callers.  While a rebuild computes, nobody else calls.              *)
(***************************************************************************)
Idle == pc = "idle"

(* The rebuild is over; what it knew of the store lapses.                  *)
Alone ==
  /\ uncached = {}
  /\ cached' = {} /\ fits' = TRUE
  /\ UNCHANGED uncached

Get(k) ==
  /\ Idle /\ Alone
  /\ \/ Got(k)
     \/ k \notin Held /\ answer' = <<k, NoValue>> /\ UNCHANGED order
  /\ UNCHANGED <<capacity, map, pc, call>>

Put(k) ==
  /\ Idle /\ Alone
  /\ pc' = "put"
  /\ call' = [op |-> "put", key |-> k]
  /\ UNCHANGED <<capacity, map, order, answer>>

(* memoize looks first, and returns a hit.                                 *)
MemoizeHits(k) ==
  /\ Idle
  /\ Alone
  /\ Got(k)
  /\ UNCHANGED <<capacity, map, pc, call>>

MemoizeMisses(k) ==
  /\ Idle
  /\ \/ Alone
     \/ k \in uncached /\ UNCHANGED <<cached, fits, uncached>>
  /\ k \notin Held
  /\ pc' = "compute"
  /\ call' = [op |-> "memoize", key |-> k]
  /\ UNCHANGED <<capacity, map, order, answer>>

Computed ==
  /\ pc = "compute"
  /\ pc' = "put"
  /\ UNCHANGED <<capacity, map, order, call, answer, cached, uncached, fits>>

(* The computation panics: nothing was put.                                *)
Panics ==
  /\ pc = "compute"
  /\ pc' = "idle"
  /\ call' = NoCall
  /\ UNCHANGED <<capacity, map, order, answer, cached, uncached, fits>>

Partition(items) ==
  /\ Idle /\ uncached = {}
  /\ cached' = items \cap Held
  /\ uncached' = items \ Held
  /\ fits' = (capacity = 0 \/ Cardinality(Held \cup items) <= capacity)
  /\ UNCHANGED <<capacity, map, order, pc, call, answer>>

Next ==
  \/ \E k \in Key : Get(k) \/ Put(k) \/ MemoizeHits(k) \/ MemoizeMisses(k)
  \/ \E items \in SUBSET Key : Partition(items)
  \/ Computed \/ Panics
  \/ Insert \/ Evict \/ PutReturns

Spec == Init /\ [][Next]_vars
-----------------------------------------------------------------------------
(***************************************************************************)
(* Properties.                                                             *)
(***************************************************************************)
TypeOK ==
  /\ capacity \in Capacities
  /\ Held \subseteq Key /\ map \in [Held -> Value]
  /\ order \in Seq(Key)
  /\ pc \in {"idle", "compute", "put", "evict"}
  /\ call \in Calls
  /\ pc # "idle" => call \in [op : Op, key : Key]
  /\ answer \in {NoValue} \cup (Key \X (Value \cup {NoValue}))
  /\ cached \in SUBSET Key /\ uncached \in SUBSET Key
  /\ fits \in BOOLEAN

(* The map and the queue are about the same keys, each queued once: or the *)
(* loop would give up early, or evict what is not there for ever.          *)
InStep ==
  /\ Queued = Held
  /\ \A i, j \in DOMAIN order : order[i] = order[j] => i = j

(* Between calls the store is within its capacity.                         *)
WithinCapacity ==
  capacity > 0 /\ pc # "evict" => Len(order) <= capacity

(* What a rebuild was told is cached is still there when it has computed   *)
(* the rest, if there was room for both.                                   *)
CachedStays == fits => cached \subseteq Held

(* The promise: the store refines the table.  A put counts from the moment *)
(* its key is queued, and what the loop has still to evict does not.       *)
Newest(s) ==
  IF capacity = 0 \/ Len(s) <= capacity THEN s
  ELSE SubSeq(s, Len(s) - capacity + 1, Len(s))

Answered ==
  IF pc = "evict" /\ call.op = "memoize"
  THEN <<call.key, Compute[call.key]>> ELSE answer

Table == INSTANCE MemoTable WITH recent <- Newest(order), answer <- Answered

ImplementsTable == Table!Spec
=============================================================================
