------------------------------ MODULE MemoTable ------------------------------
(***************************************************************************)
(* What the cache promises (crates/habitat-graph-cache): whoever asks for  *)
(* a key gets what computing it gives, whether it was held or not, and the *)
(* keys held are the ones used last.                                       *)
(***************************************************************************)
EXTENDS Integers, Sequences

CONSTANTS
  Key,      \* the keys, each of one computation
  Compute,  \* Compute[k]: the result for k
  NoValue   \* the answer to a get that misses

VARIABLES
  capacity,  \* most keys held; 0: any number
  recent,    \* the keys held, least recently used first
  answer     \* the last key asked for and what was returned

Held == {recent[i] : i \in DOMAIN recent}

(* The newest keys of s that fit.                                          *)
Newest(s) ==
  IF capacity = 0 \/ Len(s) <= capacity THEN s
  ELSE SubSeq(s, Len(s) - capacity + 1, Len(s))

(* k becomes the newest key of s.                                          *)
Without(s, i) == [j \in 1..(Len(s) - 1) |-> IF j < i THEN s[j] ELSE s[j + 1]]
Used(s, k) ==
  IF \E i \in DOMAIN s : s[i] = k
  THEN Append(Without(s, CHOOSE i \in DOMAIN s : s[i] = k), k)
  ELSE Append(s, k)

Init ==
  /\ capacity \in Nat
  /\ recent = <<>>
  /\ answer = NoValue

Memoize(k) ==
  /\ recent' = Newest(Used(recent, k))
  /\ answer' = <<k, Compute[k]>>

Get(k) ==
  IF k \in Held
  THEN /\ recent' = Used(recent, k)
       /\ answer' = <<k, Compute[k]>>
  ELSE /\ answer' = <<k, NoValue>>
       /\ UNCHANGED recent

Put(k) ==
  /\ recent' = Newest(Used(recent, k))
  /\ UNCHANGED answer

Next ==
  /\ \E k \in Key : Memoize(k) \/ Get(k) \/ Put(k)
  /\ UNCHANGED capacity

Spec == Init /\ [][Next]_<<capacity, recent, answer>>
=============================================================================
