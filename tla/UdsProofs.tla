------------------------------ MODULE UdsProofs ------------------------------
(***************************************************************************)
(* Theorems about the warm daemon, for any clients, messages, graphs and   *)
(* limits: its permits are accounted for, what it keeps of a line is       *)
(* bounded, what find answers is what a scan of the graph would, and the   *)
(* whole implements LineService.                                           *)
(***************************************************************************)
EXTENDS Uds, FunctionTheorems, FiniteSetTheorems, SequenceTheorems,
        WellFoundedInduction, TLAPS

(***************************************************************************)
(* Types.  Nothing is known of a reply but what it is the answer to.       *)
(***************************************************************************)
AnyReply ==
  {TooLong, NoReply} \cup {Replies[g][line] : g \in Graph, line \in Seq(Bytes)}

Sorts ==
  /\ snapshot \in [graph : Graph, index : Graph]
  /\ prepared \in [Reloader -> SUBSET Later]
  /\ accepting \in {"accept", "sleep"}
  /\ pc \in [Client -> PCs]
  /\ socket \in [Client -> Seq(Bytes)]
  /\ chunk \in [Client -> Seq(Bytes)]
  /\ buf \in [Client -> Seq(Bytes)]
  /\ reply \in [Client -> AnyReply]
  /\ delivered \in [Client -> Seq(AnyReply)]
  /\ taken \in [Client -> Nat]
  /\ ended \in [Client -> BOOLEAN] /\ gone \in [Client -> BOOLEAN]

Limits ==
  \A c \in Client : Len(chunk[c]) <= CHUNK /\ taken[c] <= Len(delivered[c])

LEMMA MessageType ==
  ASSUME NEW c \in Client, NEW m \in Messages[c]
  PROVE  m \in Seq(Bytes)
<1>1. m \in Seq(ToSet(m))
  BY MessagesAssumption DEF IsSequence
<1>2. ToSet(m) \subseteq Bytes
  BY DEF Bytes
<1>. QED
  BY <1>1, <1>2, SeqMonotonic

LEMMA PartType ==
  ASSUME NEW S, NEW s \in Seq(S), NEW m \in Nat, NEW n \in Nat, 1 <= m, n <= Len(s)
  PROVE  /\ SubSeq(s, m, n) \in Seq(S)
         /\ Len(SubSeq(s, m, n)) = IF m <= n THEN n - m + 1 ELSE 0
<1>1. Len(s) \in Nat
  BY LenProperties
<1>2. \A i \in m..n : s[i] \in S
  BY <1>1, ElementOfSeq
<1>. QED
  BY <1>2, SubSeqProperties

LEMMA LineType ==
  ASSUME NEW s \in Seq(Bytes)
  PROVE  WithoutCR(s) \in Seq(Bytes)
<1>1. CASE s = <<>>
  BY <1>1 DEF WithoutCR
<1>2. CASE s # <<>>
  <2>1. Len(s) \in Nat \ {0}
    BY <1>2, EmptySeq
  <2>2. Len(s) - 1 \in Nat /\ Len(s) - 1 <= Len(s)
    BY <2>1
  <2>3. SubSeq(s, 1, Len(s) - 1) \in Seq(Bytes)
    BY <2>2, PartType
  <2>. QED  BY <2>3 DEF WithoutCR, Front
<1>. QED
  BY <1>1, <1>2

LEMMA LeastNumber ==
  ASSUME NEW S \in SUBSET Nat, S # {}
  PROVE  \E i \in S : \A j \in S : i <= j
<1>. DEFINE R == OpToRel(<, Nat)
<1>1. IsWellFoundedOn(R, Nat)
  BY NatLessThanWellFounded
<1>2. PICK i \in S : \A j \in S : <<j, i>> \notin R
  <2>. HIDE DEF R
  <2>. QED  BY <1>1, WFMin
<1>3. \A j \in S : ~(j < i)
  BY <1>2 DEF OpToRel
<1>4. i \in Nat /\ \A j \in S : j \in Nat
  OBVIOUS
<1>5. \A j \in S : i <= j
  BY <1>3, <1>4
<1>. QED
  BY <1>5

LEMMA NewlineFacts ==
  ASSUME NEW s \in Seq(Bytes), Newlines(s) # {}
  PROVE  NewlineIn(s) \in 1..Len(s)
<1>1. Newlines(s) \subseteq 1..Len(s) /\ Len(s) \in Nat
  BY LenProperties DEF Newlines
<1>2. Newlines(s) \in SUBSET Nat
  BY <1>1
<1>3. \E i \in Newlines(s) : \A j \in Newlines(s) : i <= j
  BY <1>2, LeastNumber
<1>. QED
  BY <1>1, <1>3 DEF NewlineIn

(* The line that is read, and what is left of the chunk.                   *)
LEMMA LineParts ==
  ASSUME Sorts, NEW c \in Client, Newlines(chunk[c]) # {}
  PROVE  LET n == NewlineIn(chunk[c]) IN
         /\ WithoutCR(buf[c] \o SubSeq(chunk[c], 1, n - 1)) \in Seq(Bytes)
         /\ SubSeq(chunk[c], n + 1, Len(chunk[c])) \in Seq(Bytes)
         /\ Len(SubSeq(chunk[c], n + 1, Len(chunk[c]))) <= Len(chunk[c])
<1>. DEFINE n == NewlineIn(chunk[c])
            rest == SubSeq(chunk[c], n + 1, Len(chunk[c]))
            read == SubSeq(chunk[c], 1, n - 1)
<1>1. chunk[c] \in Seq(Bytes) /\ buf[c] \in Seq(Bytes) /\ Len(chunk[c]) \in Nat
  BY LenProperties DEF Sorts
<1>2. n \in 1..Len(chunk[c])
  BY <1>1, NewlineFacts
<1>. HIDE DEF n
<1>3. n - 1 \in Nat /\ n - 1 <= Len(chunk[c]) /\ n + 1 \in Nat /\ 1 <= n + 1
  BY <1>1, <1>2
<1>4. /\ rest \in Seq(Bytes)
      /\ Len(rest) = IF n + 1 <= Len(chunk[c]) THEN Len(chunk[c]) - (n + 1) + 1 ELSE 0
  BY <1>1, <1>3, PartType
<1>5. read \in Seq(Bytes)
  BY <1>1, <1>3, PartType
<1>6. Len(rest) <= Len(chunk[c])
  BY <1>1, <1>2, <1>4
<1>. HIDE DEF read, rest
<1>7. buf[c] \o read \in Seq(Bytes)
  BY <1>1, <1>5, ConcatProperties
<1>8. WithoutCR(buf[c] \o read) \in Seq(Bytes)
  BY <1>7, LineType
<1>. QED
  BY <1>4, <1>6, <1>8 DEF n, read, rest

LEMMA HandleType ==
  ASSUME Sorts, NEW c \in Client, pc[c] = "reading", NEW line \in Seq(Bytes),
         Handle(c, line)
  PROVE  /\ reply' \in [Client -> AnyReply]
         /\ pc' \in [Client -> PCs]
         /\ buf' \in [Client -> Seq(Bytes)]
         /\ buf'[c] = <<>> /\ \A d \in Client \ {c} : buf'[d] = buf[d]
         /\ pc'[c] \in {"reading", "writing"}
         /\ \A d \in Client \ {c} : pc'[d] = pc[d]
<1>. DEFINE answer == IF ToSet(line) \subseteq {SP, CR} THEN NoReply
                      ELSE Replies[snapshot.graph][line]
<1>1. answer \in AnyReply
  BY DEF Sorts, AnyReply
<1>2. /\ reply' = [reply EXCEPT ![c] = answer]
      /\ pc' = [pc EXCEPT ![c] = IF answer = NoReply THEN @ ELSE "writing"]
      /\ buf' = [buf EXCEPT ![c] = <<>>]
  BY DEF Handle
<1>. HIDE DEF answer
<1>3. <<>> \in Seq(Bytes)
  BY EmptySeq
<1>. QED
  BY <1>1, <1>2, <1>3 DEF Sorts, PCs

LEMMA SortsInit == Init => Sorts /\ Limits
<1>. SUFFICES ASSUME Init PROVE Sorts /\ Limits
  OBVIOUS
<1>1. <<>> \in Seq(Bytes) /\ <<>> \in Seq(AnyReply) /\ Len(<<>>) = 0
  BY EmptySeq
<1>2. snapshot \in [graph : Graph, index : Graph]
  BY DEF Init, Snapshot, Graph
<1>3. NoReply \in AnyReply
  BY DEF AnyReply
<1>4. Sorts
  BY <1>1, <1>2, <1>3 DEF Init, Sorts, PCs
<1>. QED
  BY <1>1, <1>4, ChunkAssumption DEF Init, Limits

LEMMA PcType ==
  ASSUME Sorts, NEW c \in Client, NEW x \in PCs, pc' = [pc EXCEPT ![c] = x]
  PROVE  /\ pc' \in [Client -> PCs]
         /\ pc'[c] = x
         /\ \A d \in Client \ {c} : pc'[d] = pc[d]
BY DEF Sorts

LEMMA SortsStep == Sorts /\ Limits /\ [Next]_vars => Sorts' /\ Limits'
<1>. SUFFICES ASSUME Sorts, Limits, [Next]_vars
              PROVE  Sorts' /\ Limits'
  OBVIOUS
<1>. USE DEF served, loop, client
<1>0. \A c \in Client : /\ Len(chunk[c]) \in Nat /\ Len(socket[c]) \in Nat
                        /\ Len(delivered[c]) \in Nat
  BY LenProperties DEF Sorts
<1>1. ASSUME NEW r \in Reloader, Prepare(r)
      PROVE  Sorts' /\ Limits'
  <2>1. prepared' \in [Reloader -> SUBSET Later]
    BY <1>1 DEF Prepare, Sorts
  <2>. QED  BY <1>1, <2>1 DEF Prepare, Sorts, Limits
<1>2. ASSUME NEW r \in Reloader, Store(r)
      PROVE  Sorts' /\ Limits'
  <2>1. snapshot' \in [graph : Graph, index : Graph]
    BY <1>2 DEF Store, Snapshot, Sorts, Graph
  <2>2. prepared' \in [Reloader -> SUBSET Later]
    BY <1>2 DEF Store, Sorts
  <2>. QED  BY <1>2, <2>1, <2>2 DEF Store, Sorts, Limits
<1>3. ASSUME NEW c \in Client, Accept(c) \/ Drop(c) \/ Connect(c)
      PROVE  Sorts' /\ Limits'
  <2>1. pc' \in [Client -> PCs]
    BY <1>3 DEF Accept, Drop, Connect, Becomes, Sorts, PCs
  <2>. QED  BY <1>3, <2>1 DEF Accept, Drop, Connect, Sorts, Limits
<1>4. CASE AcceptFails \/ BackedOff
  BY <1>4 DEF AcceptFails, BackedOff, Sorts, Limits
<1>5. ASSUME NEW c \in Client, Fill(c)
      PROVE  Sorts' /\ Limits'
  <2>1. PICK n \in 1..Len(socket[c]) :
          /\ n <= CHUNK
          /\ chunk' = [chunk EXCEPT ![c] = SubSeq(socket[c], 1, n)]
          /\ socket' = [socket EXCEPT ![c] = SubSeq(@, n + 1, Len(@))]
    BY <1>5 DEF Fill
  <2>2. socket[c] \in Seq(Bytes) /\ n \in Nat /\ n + 1 \in Nat /\ 1 <= n + 1 /\ 1 <= n
    BY <1>0 DEF Sorts
  <2>3. SubSeq(socket[c], 1, n) \in Seq(Bytes) /\ Len(SubSeq(socket[c], 1, n)) = n
    BY <1>0, <2>2, PartType
  <2>4. SubSeq(socket[c], n + 1, Len(socket[c])) \in Seq(Bytes)
    BY <1>0, <2>2, PartType
  <2>5. chunk' \in [Client -> Seq(Bytes)] /\ socket' \in [Client -> Seq(Bytes)]
    BY <2>1, <2>3, <2>4 DEF Sorts
  <2>6. \A d \in Client : Len(chunk'[d]) <= CHUNK
    BY <2>1, <2>3 DEF Sorts, Limits
  <2>. QED  BY <1>5, <2>5, <2>6 DEF Fill, Sorts, Limits
<1>6. ASSUME NEW c \in Client, Keep(c)
      PROVE  Sorts' /\ Limits'
  <2>1. buf[c] \o chunk[c] \in Seq(Bytes)
    BY ConcatProperties DEF Sorts
  <2>2. <<>> \in Seq(Bytes) /\ Len(<<>>) = 0
    BY EmptySeq
  <2>3. buf' \in [Client -> Seq(Bytes)] /\ chunk' \in [Client -> Seq(Bytes)]
    BY <1>6, <2>1, <2>2 DEF Keep, Sorts
  <2>4. \A d \in Client : Len(chunk'[d]) <= CHUNK
    BY <1>6, <2>2, ChunkAssumption DEF Keep, Sorts, Limits
  <2>. QED  BY <1>6, <2>3, <2>4 DEF Keep, Sorts, Limits
<1>7. ASSUME NEW c \in Client, Line(c)
      PROVE  Sorts' /\ Limits'
  <2>. DEFINE n == NewlineIn(chunk[c])
              line == WithoutCR(buf[c] \o SubSeq(chunk[c], 1, n - 1))
              rest == SubSeq(chunk[c], n + 1, Len(chunk[c]))
  <2>1. /\ line \in Seq(Bytes) /\ rest \in Seq(Bytes)
        /\ Len(rest) <= Len(chunk[c])
    BY <1>7, LineParts DEF Line
  <2>2. Handle(c, line) /\ pc[c] = "reading" /\ chunk' = [chunk EXCEPT ![c] = rest]
    BY <1>7 DEF Line
  <2>3. UNCHANGED <<served, loop, client, delivered>>
    BY <1>7 DEF Line
  <2>. HIDE DEF line, rest
  <2>4. /\ reply' \in [Client -> AnyReply] /\ pc' \in [Client -> PCs]
        /\ buf' \in [Client -> Seq(Bytes)]
    BY <2>1, <2>2, HandleType
  <2>5. chunk' \in [Client -> Seq(Bytes)]
    BY <2>1, <2>2 DEF Sorts
  <2>6. Len(rest) \in Nat
    BY <2>1, LenProperties
  <2>7. \A d \in Client : Len(chunk'[d]) <= CHUNK
    BY <1>0, <2>1, <2>2, <2>6, ChunkAssumption DEF Sorts, Limits
  <2>. QED  BY <2>3, <2>4, <2>5, <2>7 DEF Sorts, Limits
<1>8. ASSUME NEW c \in Client, LastLine(c)
      PROVE  Sorts' /\ Limits'
  <2>1. buf[c] \in Seq(Bytes) /\ pc[c] = "reading" /\ Handle(c, buf[c])
    BY <1>8 DEF LastLine, Sorts
  <2>2. /\ reply' \in [Client -> AnyReply] /\ pc' \in [Client -> PCs]
        /\ buf' \in [Client -> Seq(Bytes)]
    BY <2>1, HandleType
  <2>. QED  BY <1>8, <2>2 DEF LastLine, Sorts, Limits
<1>9. ASSUME NEW c \in Client, Refuse(c)
      PROVE  Sorts' /\ Limits'
  <2>1. reply' \in [Client -> AnyReply]
    BY <1>9 DEF Refuse, Sorts, AnyReply
  <2>2. pc' \in [Client -> PCs]
    BY <1>9 DEF Refuse, Becomes, Sorts, PCs
  <2>. QED  BY <1>9, <2>1, <2>2 DEF Refuse, Sorts, Limits
<1>10. ASSUME NEW c \in Client, EndOfFile(c) \/ ReadFails(c) \/ WriteFails(c)
       PROVE  Sorts' /\ Limits'
  <2>1. pc' \in [Client -> PCs]
    BY <1>10 DEF EndOfFile, ReadFails, WriteFails, Ends, Sorts, PCs
  <2>. QED  BY <1>10, <2>1 DEF EndOfFile, ReadFails, WriteFails, Ends, Sorts, Limits
<1>11. ASSUME NEW c \in Client, Write(c) \/ WriteRefusal(c)
       PROVE  Sorts' /\ Limits'
  <2>1. pc' \in [Client -> PCs]
    BY <1>11 DEF Write, WriteRefusal, Becomes, Ends, Sorts, PCs
  <2>2. reply' \in [Client -> AnyReply]
    <3>1. NoReply \in AnyReply
      BY DEF AnyReply
    <3>. QED  BY <1>11, <3>1 DEF Write, WriteRefusal, Sorts
  <2>3. delivered' = [delivered EXCEPT ![c] = Append(@, reply[c])]
    BY <1>11 DEF Write, WriteRefusal, Written
  <2>4. delivered[c] \in Seq(AnyReply) /\ reply[c] \in AnyReply
    BY DEF Sorts
  <2>5. /\ Append(delivered[c], reply[c]) \in Seq(AnyReply)
        /\ Len(Append(delivered[c], reply[c])) = Len(delivered[c]) + 1
    BY <2>4, AppendProperties
  <2>6. delivered' \in [Client -> Seq(AnyReply)]
    BY <2>3, <2>5 DEF Sorts
  <2>7. UNCHANGED <<served, client, chunk, buf, accepting>>
    BY <1>11 DEF Write, WriteRefusal, Ends
  <2>8. delivered'[c] = Append(delivered[c], reply[c])
    BY <2>3 DEF Sorts
  <2>9. taken[c] <= Len(delivered'[c])
    BY <1>0, <2>5, <2>8 DEF Sorts, Limits
  <2>10. \A d \in Client \ {c} : delivered'[d] = delivered[d]
    BY <2>3 DEF Sorts
  <2>11. \A d \in Client : taken[d] <= Len(delivered'[d])
    BY <2>9, <2>10 DEF Limits
  <2>. QED  BY <2>1, <2>2, <2>6, <2>7, <2>11 DEF Sorts, Limits
<1>12. ASSUME NEW c \in Client, Send(c)
       PROVE  Sorts' /\ Limits'
  <2>1. PICK m \in Messages[c] : socket' = [socket EXCEPT ![c] = @ \o m]
    BY <1>12 DEF Send
  <2>2. socket[c] \o m \in Seq(Bytes)
    BY MessageType, ConcatProperties DEF Sorts
  <2>3. socket' \in [Client -> Seq(Bytes)]
    BY <2>1, <2>2 DEF Sorts
  <2>. QED  BY <1>12, <2>3 DEF Send, Sorts, Limits
<1>13. ASSUME NEW c \in Client, Shut(c) \/ HangUp(c)
       PROVE  Sorts' /\ Limits'
  <2>1. ended' \in [Client -> BOOLEAN] /\ gone' \in [Client -> BOOLEAN]
    BY <1>13 DEF Shut, HangUp, Sorts
  <2>. QED  BY <1>13, <2>1 DEF Shut, HangUp, Sorts, Limits
<1>14. ASSUME NEW c \in Client, Take(c)
       PROVE  Sorts' /\ Limits'
  <2>1. taken' \in [Client -> Nat]
    BY <1>14 DEF Take, Sorts
  <2>2. \A d \in Client : taken'[d] <= Len(delivered[d])
    BY <1>0, <1>14 DEF Take, Sorts, Limits
  <2>. QED  BY <1>14, <2>1, <2>2 DEF Take, Sorts, Limits
<1>15. CASE UNCHANGED vars
  BY <1>15 DEF vars, Sorts, Limits
<1>. QED
  BY <1>1, <1>2, <1>3, <1>4, <1>5, <1>6, <1>7, <1>8, <1>9, <1>10, <1>11, <1>12,
     <1>13, <1>14, <1>15
  DEF Next, Task

(***************************************************************************)
(* Permits: a task holds one from the accept to its end.                   *)
(***************************************************************************)
Permitted == permits \in Nat /\ IsFiniteSet(Served) /\ PermitsAccounted

Running == {"reading", "writing", "refusing"}

LEMMA ServedStays ==
  ASSUME Sorts, NEW c \in Client, pc'[c] \in Running, pc[c] \in Running,
         \A d \in Client \ {c} : pc'[d] = pc[d]
  PROVE  Served' = Served
BY DEF Served, Running

LEMMA EndsAccounted ==
  ASSUME Sorts, Permitted, NEW c \in Client, c \in Served, Ends(c)
  PROVE  Permitted'
<1>1. Served' = Served \ {c}
  BY DEF Ends, Served, Sorts
<1>2. /\ IsFiniteSet(Served')
      /\ Cardinality(Served') = Cardinality(Served) - 1
  BY <1>1, FS_RemoveElement DEF Permitted
<1>3. Cardinality(Served) \in Nat
  BY FS_CardinalityType DEF Permitted
<1>4. permits' = permits + 1
  BY DEF Ends
<1>. QED
  BY <1>2, <1>3, <1>4, MaxConnectionsAssumption DEF Permitted, PermitsAccounted

LEMMA AccountedInit == Init => Permitted
<1>. SUFFICES ASSUME Init PROVE Permitted
  OBVIOUS
<1>1. Served = {}
  BY DEF Init, Served
<1>. QED
  BY <1>1, FS_EmptySet, MaxConnectionsAssumption DEF Init, Permitted, PermitsAccounted

LEMMA AccountedStep == Sorts /\ Permitted /\ [Next]_vars => Permitted'
<1>. SUFFICES ASSUME Sorts, Permitted, [Next]_vars
              PROVE  Permitted'
  OBVIOUS
<1>. USE DEF served, loop, client
<1>1. ASSUME permits' = permits, Served' = Served
      PROVE  Permitted'
  BY <1>1 DEF Permitted, PermitsAccounted
<1>2. ASSUME permits' = permits, pc' = pc
      PROVE  Permitted'
  BY <1>1, <1>2 DEF Served
<1>3. ASSUME NEW r \in Reloader, Prepare(r) \/ Store(r)
      PROVE  Permitted'
  BY <1>2, <1>3 DEF Prepare, Store
<1>4. CASE AcceptFails \/ BackedOff
  BY <1>2, <1>4 DEF AcceptFails, BackedOff
<1>5. ASSUME NEW c \in Client, Accept(c)
      PROVE  Permitted'
  <2>1. Served' = Served \cup {c} /\ c \notin Served
    BY <1>5 DEF Accept, Becomes, Served, Sorts
  <2>2. IsFiniteSet(Served') /\ Cardinality(Served') = Cardinality(Served) + 1
    BY <2>1, FS_AddElement DEF Permitted
  <2>3. Cardinality(Served) \in Nat
    BY FS_CardinalityType DEF Permitted
  <2>4. permits' = permits - 1 /\ permits > 0
    BY <1>5 DEF Accept
  <2>. QED
    BY <2>2, <2>3, <2>4, MaxConnectionsAssumption DEF Permitted, PermitsAccounted
<1>6. ASSUME NEW c \in Client, Drop(c) \/ Connect(c)
      PROVE  Permitted'
  <2>1. Served' = Served
    BY <1>6 DEF Drop, Connect, Becomes, Served, Sorts
  <2>. QED  BY <1>1, <1>6, <2>1 DEF Drop, Connect
<1>7. ASSUME NEW c \in Client, Fill(c) \/ Keep(c)
      PROVE  Permitted'
  BY <1>2, <1>7 DEF Fill, Keep
<1>8. ASSUME NEW c \in Client, Line(c)
      PROVE  Permitted'
  <2>. DEFINE line == WithoutCR(buf[c] \o SubSeq(chunk[c], 1, NewlineIn(chunk[c]) - 1))
  <2>1. line \in Seq(Bytes)
    BY <1>8, LineParts DEF Line
  <2>2. Handle(c, line) /\ pc[c] = "reading" /\ permits' = permits
    BY <1>8 DEF Line
  <2>. HIDE DEF line
  <2>3. pc'[c] \in Running /\ pc[c] \in Running /\ \A d \in Client \ {c} : pc'[d] = pc[d]
    BY <2>1, <2>2, HandleType DEF Running
  <2>. QED  BY <1>1, <2>2, <2>3, ServedStays
<1>9. ASSUME NEW c \in Client, LastLine(c)
      PROVE  Permitted'
  <2>1. buf[c] \in Seq(Bytes) /\ Handle(c, buf[c]) /\ pc[c] = "reading" /\ permits' = permits
    BY <1>9 DEF LastLine, Sorts
  <2>2. pc'[c] \in Running /\ pc[c] \in Running /\ \A d \in Client \ {c} : pc'[d] = pc[d]
    BY <2>1, HandleType DEF Running
  <2>. QED  BY <1>1, <2>1, <2>2, ServedStays
<1>10. ASSUME NEW c \in Client, Refuse(c) \/ Write(c)
       PROVE  Permitted'
  <2>1. Served' = Served
    BY <1>10 DEF Refuse, Write, Becomes, Served, Sorts
  <2>. QED  BY <1>1, <1>10, <2>1 DEF Refuse, Write
<1>11. ASSUME NEW c \in Client,
              EndOfFile(c) \/ ReadFails(c) \/ WriteFails(c) \/ WriteRefusal(c)
       PROVE  Permitted'
  BY <1>11, EndsAccounted DEF EndOfFile, ReadFails, WriteFails, WriteRefusal, Served
<1>12. ASSUME NEW c \in Client, Send(c) \/ Shut(c) \/ HangUp(c) \/ Take(c)
       PROVE  Permitted'
  BY <1>2, <1>12 DEF Send, Shut, HangUp, Take
<1>13. CASE UNCHANGED vars
  BY <1>2, <1>13 DEF vars
<1>. QED
  BY <1>3, <1>4, <1>5, <1>6, <1>7, <1>8, <1>9, <1>10, <1>11, <1>12, <1>13
  DEF Next, Task

LEMMA BasicsAlways == Spec => [](Sorts /\ Limits /\ Permitted)
BY SortsInit, SortsStep, AccountedInit, AccountedStep, PTL DEF Spec

(* Each running task has taken one permit and gives it back once, however  *)
(* it ends; so the permits left and the tasks running are always the limit *)
THEOREM PermitsAlwaysAccounted == Spec => []PermitsAccounted
<1>1. Permitted => PermitsAccounted
  BY DEF Permitted
<1>. QED
  BY <1>1, BasicsAlways, PTL

(* Every state of the daemon and of its connections is typed.              *)
THEOREM TypeCorrect == Spec => []TypeOK
<1>1. ASSUME Sorts, Limits, Permitted
      PROVE  TypeOK
  <2>1. Cardinality(Served) \in Nat
    BY <1>1, FS_CardinalityType DEF Permitted
  <2>2. permits \in 0..MAX_CONNECTIONS
    BY <1>1, <2>1, MaxConnectionsAssumption DEF Permitted, PermitsAccounted
  <2>3. \A c \in Client : Len(delivered[c]) \in Nat
    BY <1>1, LenProperties DEF Sorts
  <2>4. \A c \in Client : taken[c] \in 0..Len(delivered[c])
    BY <1>1, <2>3 DEF Sorts, Limits
  <2>. QED  BY <1>1, <2>2, <2>4 DEF Sorts, Limits, TypeOK
<1>. QED
  BY <1>1, BasicsAlways, PTL

(***************************************************************************)
(* The buffer of a line.                                                   *)
(***************************************************************************)
LEMMA BoundedInit == Init => Bounded
<1>1. Len(<<>>) = 0
  BY EmptySeq
<1>. QED
  BY <1>1, MaxLineAssumption DEF Init, Bounded

LEMMA BoundedStep == Sorts /\ Bounded /\ [Next]_vars => Bounded'
<1>. SUFFICES ASSUME Sorts, Bounded, [Next]_vars
              PROVE  Bounded'
  OBVIOUS
<1>. USE DEF served, loop, client
<1>1. ASSUME buf' = buf
      PROVE  Bounded'
  BY <1>1 DEF Bounded
<1>2. ASSUME NEW c \in Client, Keep(c)
      PROVE  Bounded'
  <2>1. buf[c] \in Seq(Bytes) /\ chunk[c] \in Seq(Bytes)
    BY DEF Sorts
  <2>2. /\ Len(buf[c] \o chunk[c]) = Len(buf[c]) + Len(chunk[c])
        /\ Len(buf[c]) \in Nat /\ Len(chunk[c]) \in Nat
    BY <2>1, ConcatProperties, LenProperties
  <2>3. ~(Len(buf[c]) + Len(chunk[c]) > MAX_LINE_BYTES)
    BY <1>2 DEF Keep, TooMuch
  <2>. DEFINE kept == Len(buf[c])
              more == Len(chunk[c])
              all == Len(buf[c] \o chunk[c])
  <2>4. all <= MAX_LINE_BYTES
    <3>1. all = kept + more /\ kept \in Nat /\ more \in Nat /\ ~(kept + more > MAX_LINE_BYTES)
      BY <2>2, <2>3
    <3>. HIDE DEF kept, more, all
    <3>. QED  BY <3>1, MaxLineAssumption
  <2>5. buf' = [buf EXCEPT ![c] = buf[c] \o chunk[c]]
    BY <1>2 DEF Keep
  <2>. QED  BY <2>4, <2>5 DEF Bounded, Sorts
<1>3. ASSUME NEW c \in Client, buf'[c] = <<>>, \A d \in Client \ {c} : buf'[d] = buf[d]
      PROVE  Bounded'
  <2>1. Len(<<>>) = 0
    BY EmptySeq
  <2>. QED  BY <1>3, <2>1, MaxLineAssumption DEF Bounded
<1>4. ASSUME NEW c \in Client, Line(c) \/ LastLine(c)
      PROVE  Bounded'
  BY <1>3, <1>4 DEF Line, LastLine, Handle, Sorts
<1>5. ASSUME NEW r \in Reloader, Prepare(r) \/ Store(r)
      PROVE  Bounded'
  BY <1>1, <1>5 DEF Prepare, Store
<1>6. CASE AcceptFails \/ BackedOff
  BY <1>1, <1>6 DEF AcceptFails, BackedOff
<1>7. ASSUME NEW c \in Client,
             \/ Accept(c) \/ Drop(c) \/ Connect(c) \/ Send(c) \/ Shut(c) \/ HangUp(c)
             \/ Take(c) \/ Fill(c) \/ Refuse(c) \/ EndOfFile(c) \/ ReadFails(c)
             \/ Write(c) \/ WriteFails(c) \/ WriteRefusal(c)
      PROVE  Bounded'
  BY <1>1, <1>7 DEF Accept, Drop, Connect, Send, Shut, HangUp, Take, Fill, Refuse,
                    EndOfFile, ReadFails, Write, WriteFails, WriteRefusal, Ends
<1>8. CASE UNCHANGED vars
  BY <1>1, <1>8 DEF vars
<1>. QED
  BY <1>2, <1>4, <1>5, <1>6, <1>7, <1>8 DEF Next, Task

(* However a client's stream is cut, no more of a line than the limit is   *)
(* kept between two reads.                                                 *)
THEOREM BufferBounded == Spec => []Bounded
BY BasicsAlways, BoundedInit, BoundedStep, PTL DEF Spec

(***************************************************************************)
(* Sorting by rank: in a finite set with a strict total order, the number  *)
(* of elements below one is its place.                                     *)
(***************************************************************************)
LEMMA RankFacts ==
  ASSUME NEW S, IsFiniteSet(S), NEW below \in [S -> SUBSET S],
         \A x \in S : x \notin below[x],
         \A x, y \in S : x \in below[y] => below[x] \subseteq below[y],
         \A x, y \in S : x # y => x \in below[y] \/ y \in below[x]
  PROVE  /\ Cardinality(S) \in Nat
         /\ \A i \in 1..Cardinality(S) : \E x \in S : Cardinality(below[x]) = i - 1
         /\ \A x \in S : Cardinality(below[x]) + 1 \in 1..Cardinality(S)
         /\ \A x, y \in S : Cardinality(below[x]) < Cardinality(below[y]) => x \in below[y]
         /\ \A x, y \in S : Cardinality(below[x]) = Cardinality(below[y]) => x = y
<1>. DEFINE n == Cardinality(S)
            rank == [x \in S |-> Cardinality(below[x])]
<1>1. n \in Nat
  BY FS_CardinalityType
<1>2. \A x \in S : IsFiniteSet(below[x]) /\ Cardinality(below[x]) \in Nat
  BY FS_Subset, FS_CardinalityType
<1>3. ASSUME NEW x \in S
      PROVE  Cardinality(below[x]) \in 0..(n - 1)
  <2>1. IsFiniteSet(S \ {x}) /\ Cardinality(S \ {x}) = n - 1
    BY FS_RemoveElement
  <2>2. below[x] \in SUBSET (S \ {x})
    OBVIOUS
  <2>3. Cardinality(below[x]) <= n - 1
    BY <2>1, <2>2, FS_Subset
  <2>. QED  BY <1>1, <1>2, <2>3
<1>4. ASSUME NEW x \in S, NEW y \in S, x \in below[y]
      PROVE  Cardinality(below[x]) < Cardinality(below[y])
  <2>1. IsFiniteSet(below[x] \cup {x}) /\ Cardinality(below[x] \cup {x}) = Cardinality(below[x]) + 1
    BY <1>2, FS_AddElement
  <2>2. below[x] \cup {x} \in SUBSET below[y]
    BY <1>4
  <2>3. Cardinality(below[x] \cup {x}) <= Cardinality(below[y])
    BY <1>2, <2>2, FS_Subset
  <2>. QED  BY <1>2, <2>1, <2>3
<1>5. \A x, y \in S : Cardinality(below[x]) = Cardinality(below[y]) => x = y
  BY <1>2, <1>4
<1>6. \A x, y \in S : Cardinality(below[x]) < Cardinality(below[y]) => x \in below[y]
  BY <1>2, <1>4
<1>7. rank \in Injection(S, 0..(n - 1))
  <2>1. rank \in [S -> 0..(n - 1)]
    BY <1>3
  <2>2. \A x, y \in S : rank[x] = rank[y] => x = y
    BY <1>5
  <2>. HIDE DEF rank, n
  <2>. QED  BY <2>1, <2>2, Fun_IsInj
<1>8. IsFiniteSet(0..(n - 1)) /\ Cardinality(0..(n - 1)) = n
  BY <1>1, FS_Interval
<1>9. rank \in Surjection(S, 0..(n - 1))
  <2>. HIDE DEF rank
  <2>. QED  BY <1>7, <1>8, FS_Injection
<1>10. \A i \in 0..(n - 1) : \E x \in S : rank[x] = i
  <2>. HIDE DEF rank, n
  <2>. QED  BY <1>9 DEF Surjection
<1>11. ASSUME NEW i \in 1..n
       PROVE  \E x \in S : Cardinality(below[x]) = i - 1
  <2>1. i - 1 \in 0..(n - 1)
    BY <1>1
  <2>. QED  BY <1>10, <2>1
<1>. QED
  BY <1>1, <1>3, <1>5, <1>6, <1>11

LEMMA AscendingFacts ==
  ASSUME NEW S \in SUBSET Nat, IsFiniteSet(S)
  PROVE  ToSet(Ascending(S)) = S /\ Smallest(Ascending(S), S)
<1>. DEFINE n == Cardinality(S)
            s == Ascending(S)
            below == [x \in S |-> {y \in S : y < x}]
<1>0. \A x \in S : x \in Nat
  OBVIOUS
<1>1. below \in [S -> SUBSET S] /\ \A x \in S : below[x] = {y \in S : y < x}
  OBVIOUS
<1>2. s = [i \in 1..n |-> CHOOSE x \in S : Cardinality({y \in S : y < x}) = i - 1]
  BY DEF Ascending, Sorted
<1>. HIDE DEF below, s
<1>3. /\ \A x \in S : x \notin below[x]
      /\ \A x, y \in S : x \in below[y] => below[x] \subseteq below[y]
      /\ \A x, y \in S : x # y => x \in below[y] \/ y \in below[x]
  <2>1. \A x, y \in S : x \in below[y] <=> x < y
    BY <1>1
  <2>2. \A x \in S : ~(x < x)
    BY <1>0
  <2>3. ASSUME NEW x \in S, NEW y \in S, x \in below[y], NEW z \in below[x]
        PROVE  z \in below[y]
    <3>1. z \in S /\ z < x /\ x < y
      BY <1>1, <2>1, <2>3
    <3>2. z < y
      BY <1>0, <3>1
    <3>. QED  BY <2>1, <3>1, <3>2
  <2>4. \A x, y \in S : x # y => x < y \/ y < x
    BY <1>0
  <2>. QED  BY <2>1, <2>2, <2>3, <2>4
<1>4. /\ n \in Nat
      /\ \A i \in 1..n : \E x \in S : Cardinality(below[x]) = i - 1
      /\ \A x \in S : Cardinality(below[x]) + 1 \in 1..n
      /\ \A x, y \in S : Cardinality(below[x]) < Cardinality(below[y]) => x \in below[y]
      /\ \A x, y \in S : Cardinality(below[x]) = Cardinality(below[y]) => x = y
  BY <1>1, <1>3, RankFacts
<1>5. \A i \in 1..n : s[i] \in S /\ Cardinality(below[s[i]]) = i - 1
  <2>1. ASSUME NEW i \in 1..n
        PROVE  s[i] \in S /\ Cardinality({y \in S : y < s[i]}) = i - 1
    <3>1. s[i] = CHOOSE x \in S : Cardinality({y \in S : y < x}) = i - 1
      BY <1>2
    <3>2. \E x \in S : Cardinality({y \in S : y < x}) = i - 1
      BY <1>1, <1>4
    <3>. QED  BY <3>1, <3>2
  <2>. QED  BY <1>1, <2>1
<1>. HIDE DEF n
<1>6. DOMAIN s = 1..n /\ Len(s) = n
  BY <1>2, <1>4
<1>7. ToSet(s) \subseteq S
  BY <1>5, <1>6 DEF ToSet
<1>8. ASSUME NEW x \in S
      PROVE  x \in ToSet(s)
  <2>. DEFINE i == Cardinality(below[x]) + 1
  <2>1. i \in 1..n
    BY <1>4
  <2>2. Cardinality(below[s[i]]) = i - 1 /\ s[i] \in S
    BY <1>5, <2>1
  <2>3. i \in Nat /\ Cardinality(below[x]) \in Nat
    <3>1. IsFiniteSet(below[x])
      BY <1>1, FS_Subset
    <3>. QED  BY <3>1, FS_CardinalityType
  <2>4. i - 1 = Cardinality(below[x])
    BY <2>3
  <2>5. Cardinality(below[s[i]]) = Cardinality(below[x]) /\ s[i] \in S
    BY <2>2, <2>4
  <2>6. s[i] = x
    BY <1>4, <2>5
  <2>. QED  BY <1>6, <2>1, <2>6 DEF ToSet
<1>9. ASSUME NEW i \in 1..(n - 1)
      PROVE  s[i] < s[i + 1]
  <2>1. i \in 1..n /\ i + 1 \in 1..n
    BY <1>4
  <2>2. Cardinality(below[s[i]]) < Cardinality(below[s[i + 1]])
    BY <1>5, <2>1
  <2>3. s[i] \in S /\ s[i + 1] \in S
    BY <1>5, <2>1
  <2>4. s[i] \in below[s[i + 1]]
    BY <1>4, <2>2, <2>3
  <2>. QED  BY <1>1, <2>3, <2>4
<1>. QED
  BY <1>6, <1>7, <1>8, <1>9 DEF s, Smallest

(***************************************************************************)
(* The index.                                                              *)
(***************************************************************************)
LEMMA LowerFacts ==
  ASSUME NEW s, IsSequence(s)
  PROVE  IsSequence(Lower(s)) /\ Len(Lower(s)) = Len(s)
<1>. DEFINE t == Lower(s)
<1>1. DOMAIN s = 1..Len(s) /\ Len(s) \in Nat
  BY LenProperties DEF IsSequence
<1>2. t = [i \in 1..Len(s) |-> LowerCase[s[i]]]
  BY <1>1 DEF Lower
<1>3. DOMAIN t = 1..Len(s)
  BY <1>2
<1>4. \A i \in 1..Len(s) : t[i] \in ToSet(t)
  BY <1>3 DEF ToSet
<1>5. t = [i \in 1..Len(s) |-> t[i]]
  BY <1>2, <1>3
<1>. HIDE DEF t
<1>6. [i \in 1..Len(s) |-> t[i]] \in Seq(ToSet(t))
  BY <1>1, <1>4, IsASeq
<1>. QED
  BY <1>1, <1>3, <1>5, <1>6, LenProperties DEF IsSequence, t

(* A needle's trigrams are among those of a label that contains it.        *)
LEMMA TrigramsKept ==
  ASSUME NEW S, NEW s \in Seq(S), NEW t \in Seq(S), HasSubSeq(s, t)
  PROVE  Trigrams(t) \subseteq Trigrams(s)
<1>1. Len(s) \in Nat /\ Len(t) \in Nat
  BY LenProperties
<1>2. PICK i \in 0..(Len(s) - Len(t)) : SubSeq(s, i + 1, i + Len(t)) = t
  BY DEF HasSubSeq
<1>3. i \in Nat /\ i + Len(t) \in Nat /\ i + Len(t) <= Len(s)
  BY <1>1
<1>4. \A k \in 1..Len(t) : t[k] = s[i + k]
  <2>1. \A k \in (i + 1)..(i + Len(t)) : s[k] \in S
    BY <1>1, <1>3, ElementOfSeq
  <2>2. i + 1 \in Int /\ i + Len(t) \in Int
    BY <1>3
  <2>3. \A k \in 1..((i + Len(t)) - (i + 1) + 1) :
          SubSeq(s, i + 1, i + Len(t))[k] = s[(i + 1) + k - 1]
    BY <2>1, <2>2, SubSeqProperties
  <2>4. (i + Len(t)) - (i + 1) + 1 = Len(t) /\ \A k \in 1..Len(t) : (i + 1) + k - 1 = i + k
    BY <1>1, <1>3
  <2>. QED  BY <1>2, <2>3, <2>4
<1>5. ASSUME NEW j \in 1..(Len(t) - 2)
      PROVE  SubSeq(t, j, j + 2) = SubSeq(s, i + j, i + j + 2) /\ i + j \in 1..(Len(s) - 2)
  <2>1. /\ j \in Nat /\ j + 2 \in Nat /\ 1 <= j /\ j + 2 <= Len(t)
        /\ i + j \in Nat /\ i + j + 2 \in Nat /\ 1 <= i + j /\ i + j + 2 <= Len(s)
    BY <1>1, <1>3
  <2>2. /\ \A k \in j..(j + 2) : t[k] \in S
        /\ \A k \in (i + j)..(i + j + 2) : s[k] \in S
    BY <1>1, <2>1, ElementOfSeq
  <2>3. /\ SubSeq(t, j, j + 2) \in Seq(S) /\ Len(SubSeq(t, j, j + 2)) = 3
        /\ \A k \in 1..3 : SubSeq(t, j, j + 2)[k] = t[j + k - 1]
    BY <2>1, <2>2, SubSeqProperties
  <2>4. /\ SubSeq(s, i + j, i + j + 2) \in Seq(S) /\ Len(SubSeq(s, i + j, i + j + 2)) = 3
        /\ \A k \in 1..3 : SubSeq(s, i + j, i + j + 2)[k] = s[i + j + k - 1]
    BY <2>1, <2>2, SubSeqProperties
  <2>5. \A k \in 1..3 : j + k - 1 \in 1..Len(t) /\ i + (j + k - 1) = i + j + k - 1
    BY <1>1, <1>3, <2>1
  <2>6. \A k \in 1..3 : t[j + k - 1] = s[i + j + k - 1]
    BY <1>4, <2>5
  <2>7. \A k \in 1..3 : SubSeq(t, j, j + 2)[k] = SubSeq(s, i + j, i + j + 2)[k]
    BY <2>3, <2>4, <2>6
  <2>8. SubSeq(t, j, j + 2) = SubSeq(s, i + j, i + j + 2)
    BY <2>3, <2>4, <2>7, SeqEqual
  <2>. QED  BY <1>1, <2>1, <2>8
<1>. QED
  BY <1>5 DEF Trigrams

(* The candidates that the trigrams leave out do not contain the needle,   *)
(* so that what find lists is what a scan of every label would.            *)
LEMMA FindScans ==
  ASSUME NEW graph, NEW needle, IsSequence(needle),
         \A id \in Ids(graph) : IsSequence(Node(graph, id).label)
  PROVE  Find(Index(graph), needle) = Ascending(Matches(graph, needle))
<1>. DEFINE lower == [id \in Ids(graph) |-> Lower(Node(graph, id).label)]
            used == UNION {Trigrams(lower[id]) : id \in Ids(graph)}
            lists == [t \in used |-> {id \in Ids(graph) : t \in Trigrams(lower[id])}]
            n == Lower(needle)
            posted(t) == IF t \in DOMAIN lists THEN lists[t] ELSE {}
            all == DOMAIN lower
            candidates == IF Len(n) < 3 THEN all
                          ELSE {id \in all : \A t \in Trigrams(n) : id \in posted(t)}
            found == {id \in candidates : HasSubSeq(lower[id], n)}
<1>1. Index(graph) = [lower_labels |-> lower, trigram_index |-> lists]
  BY DEF Index
<1>2. Find(Index(graph), needle) = Ascending(found)
  BY <1>1 DEF Find
<1>3. ASSUME NEW id \in Ids(graph), HasSubSeq(lower[id], n), NEW t \in Trigrams(n)
      PROVE  id \in posted(t)
  <2>. DEFINE S == ToSet(lower[id]) \cup ToSet(n)
  <2>1. IsSequence(lower[id]) /\ IsSequence(n)
    BY LowerFacts
  <2>2. lower[id] \in Seq(S) /\ n \in Seq(S)
    BY <2>1, SeqMonotonic DEF IsSequence
  <2>3. t \in Trigrams(lower[id])
    <3>. HIDE DEF S, lower, n
    <3>. QED  BY <1>3, <2>2, TrigramsKept
  <2>4. t \in used /\ DOMAIN lists = used
    BY <2>3
  <2>5. lists[t] = {d \in Ids(graph) : t \in Trigrams(lower[d])}
    BY <2>4
  <2>. QED  BY <2>3, <2>4, <2>5
<1>4. all = Ids(graph)
  OBVIOUS
<1>5. \A id \in Ids(graph) : HasSubSeq(lower[id], n) => id \in candidates
  BY <1>3, <1>4
<1>6. candidates \subseteq Ids(graph)
  BY <1>4
<1>7. found = {id \in Ids(graph) : HasSubSeq(lower[id], n)}
  <2>. HIDE DEF candidates, lower, n
  <2>. QED  BY <1>5, <1>6
<1>8. found = Matches(graph, needle)
  BY <1>7 DEF Matches
<1>. QED
  BY <1>2, <1>8

(* Reading a graph back sorts its nodes and changes none.                  *)
LEMMA ByIdsFacts ==
  ASSUME NEW S, IsFiniteSet(S), \A x \in S : x.id \in Nat,
         \A x, y \in S : x.id = y.id => x = y
  PROVE  ToSet(ByIds(S)) = S
<1>. DEFINE n == Cardinality(S)
            s == ByIds(S)
            below == [x \in S |-> {y \in S : y.id < x.id}]
<1>1. below \in [S -> SUBSET S] /\ \A x \in S : below[x] = {y \in S : y.id < x.id}
  OBVIOUS
<1>2. s = [i \in 1..n |-> CHOOSE x \in S : Cardinality({y \in S : y.id < x.id}) = i - 1]
  BY DEF ByIds, Sorted
<1>. HIDE DEF below, s
<1>3. /\ \A x \in S : x \notin below[x]
      /\ \A x, y \in S : x \in below[y] => below[x] \subseteq below[y]
      /\ \A x, y \in S : x # y => x \in below[y] \/ y \in below[x]
  <2>1. \A x, y \in S : x \in below[y] <=> x.id < y.id
    BY <1>1
  <2>2. \A x \in S : ~(x.id < x.id)
    OBVIOUS
  <2>3. ASSUME NEW x \in S, NEW y \in S, x \in below[y], NEW z \in below[x]
        PROVE  z \in below[y]
    <3>1. z \in S /\ z.id < x.id /\ x.id < y.id
      BY <1>1, <2>1, <2>3
    <3>2. z.id < y.id
      BY <3>1
    <3>. QED  BY <2>1, <3>1, <3>2
  <2>4. \A x, y \in S : x # y => x.id < y.id \/ y.id < x.id
    OBVIOUS
  <2>. QED  BY <2>1, <2>2, <2>3, <2>4
<1>4. /\ n \in Nat
      /\ \A i \in 1..n : \E x \in S : Cardinality(below[x]) = i - 1
      /\ \A x \in S : Cardinality(below[x]) + 1 \in 1..n
      /\ \A x, y \in S : Cardinality(below[x]) = Cardinality(below[y]) => x = y
  BY <1>1, <1>3, RankFacts
<1>5. ASSUME NEW i \in 1..n
      PROVE  s[i] \in S /\ Cardinality(below[s[i]]) = i - 1
  <2>1. s[i] = CHOOSE x \in S : Cardinality({y \in S : y.id < x.id}) = i - 1
    BY <1>2
  <2>2. \E x \in S : Cardinality({y \in S : y.id < x.id}) = i - 1
    BY <1>1, <1>4
  <2>3. s[i] \in S /\ Cardinality({y \in S : y.id < s[i].id}) = i - 1
    BY <2>1, <2>2
  <2>. QED  BY <1>1, <2>3
<1>. HIDE DEF n
<1>6. DOMAIN s = 1..n
  BY <1>2
<1>7. ToSet(s) \subseteq S
  BY <1>5, <1>6 DEF ToSet
<1>8. ASSUME NEW x \in S
      PROVE  x \in ToSet(s)
  <2>. DEFINE i == Cardinality(below[x]) + 1
  <2>1. i \in 1..n
    BY <1>4
  <2>2. Cardinality(below[s[i]]) = i - 1 /\ s[i] \in S
    BY <1>5, <2>1
  <2>3. IsFiniteSet(below[x])
    BY <1>1, FS_Subset
  <2>4. i - 1 = Cardinality(below[x])
    BY <2>3, FS_CardinalityType
  <2>5. Cardinality(below[s[i]]) = Cardinality(below[x]) /\ s[i] \in S
    BY <2>2, <2>4
  <2>6. s[i] = x
    BY <1>4, <2>5
  <2>. QED  BY <1>6, <2>1, <2>6 DEF ToSet
<1>. QED
  BY <1>7, <1>8 DEF s

LEMMA LoadedKeepsNodes ==
  ASSUME NEW g \in Graph
  PROVE  /\ Ids(Loaded[g]) = Ids(Built[g])
         /\ Ids(Built[g]) \in SUBSET Nat /\ IsFiniteSet(Ids(Built[g]))
         /\ \A id \in Ids(Built[g]) :
              /\ Node(Loaded[g], id).label = Node(Built[g], id).label
              /\ IsSequence(Node(Loaded[g], id).label)
<1>. DEFINE nodes == Built[g].nodes
            record == [i \in DOMAIN nodes |->
                         [id |-> nodes[i].id, label |-> nodes[i].label,
                          file |-> nodes[i].file]]
            written == [i \in DOMAIN nodes |->
                          [id |-> nodes[i].id, label |-> nodes[i].label,
                           file |-> nodes[i].file,
                           community |-> Community(Built[g], nodes[i].id)]]
            read == {Parsed(node) : node \in ToSet(written)}
            built == ToSet(nodes)
            loaded == ToSet(Loaded[g].nodes)
<1>1. /\ nodes \in Seq(ToSet(nodes))
      /\ \A i \in DOMAIN nodes : nodes[i].id \in Nat /\ IsSequence(nodes[i].label)
      /\ \A i, j \in DOMAIN nodes : nodes[i].id = nodes[j].id => i = j
  BY BuiltAssumption DEF IsSequence
<1>2. DOMAIN nodes = 1..Len(nodes) /\ Len(nodes) \in Nat
  BY <1>1, LenProperties
<1>3. to_node_link(Built[g]).nodes = written
  BY DEF to_node_link
<1>4. from_node_link(to_node_link(Built[g])).nodes = ByIds(read)
  BY <1>3 DEF from_node_link
<1>5. Loaded[g].nodes = ByIds(read)
  BY <1>4 DEF Loaded
<1>6. ToSet(written) = {written[i] : i \in DOMAIN nodes}
  BY DEF ToSet
<1>7. ASSUME NEW i \in DOMAIN nodes
      PROVE  Parsed(written[i]) = record[i]
  <2>1. record[i] = [id |-> nodes[i].id, label |-> nodes[i].label, file |-> nodes[i].file]
    OBVIOUS
  <2>2. /\ written[i].id = nodes[i].id /\ written[i].label = nodes[i].label
        /\ written[i].file = nodes[i].file
    OBVIOUS
  <2>. HIDE DEF record, written, nodes
  <2>. QED  BY <2>1, <2>2 DEF Parsed
<1>. DEFINE D == DOMAIN nodes
<1>8. \A i \in D : record[i].id = nodes[i].id /\ record[i].label = nodes[i].label
  OBVIOUS
<1>9. D = 1..Len(nodes)
  BY <1>2
<1>. HIDE DEF written, record, nodes
<1>10. read = {record[i] : i \in D}
  BY <1>6, <1>7
<1>11. IsFiniteSet(read)
  <2>. DEFINE read_at == [i \in D |-> record[i]]
  <2>1. read_at \in Surjection(D, read)
    BY <1>10 DEF Surjection
  <2>2. IsFiniteSet(D)
    BY <1>2, <1>9, FS_Interval
  <2>. HIDE DEF read_at, D, read
  <2>. QED  BY <2>1, <2>2, FS_Surjection
<1>12. /\ \A x \in read : x.id \in Nat
       /\ \A x, y \in read : x.id = y.id => x = y
  <2>. HIDE DEF read
  <2>1. ASSUME NEW x \in read
        PROVE  \E i \in D : x = record[i] /\ x.id = nodes[i].id
    BY <1>8, <1>10
  <2>2. \A x \in read : x.id \in Nat
    BY <1>1, <2>1
  <2>3. ASSUME NEW x \in read, NEW y \in read, x.id = y.id
        PROVE  x = y
    <3>1. PICK i \in D : x = record[i] /\ x.id = nodes[i].id
      BY <2>1
    <3>2. PICK j \in D : y = record[j] /\ y.id = nodes[j].id
      BY <2>1
    <3>. QED  BY <1>1, <2>3, <3>1, <3>2
  <2>. QED  BY <2>2, <2>3
<1>13. loaded = read
  <2>. HIDE DEF read
  <2>1. ToSet(ByIds(read)) = read
    BY <1>11, <1>12, ByIdsFacts
  <2>. QED  BY <1>5, <2>1
<1>14. built = {nodes[i] : i \in D}
  BY DEF ToSet
<1>. HIDE DEF loaded, built
<1>15. Ids(Loaded[g]) = {node.id : node \in loaded} /\ Ids(Built[g]) = {node.id : node \in built}
  BY DEF Ids, loaded, built, nodes
<1>16. {node.id : node \in loaded} = {nodes[i].id : i \in D}
  <2>1. loaded = {record[i] : i \in D}
    BY <1>10, <1>13
  <2>. HIDE DEF D
  <2>. QED  BY <1>8, <2>1
<1>17. {node.id : node \in built} = {nodes[i].id : i \in D}
  BY <1>14
<1>18. Ids(Loaded[g]) = Ids(Built[g]) /\ Ids(Built[g]) \in SUBSET Nat
  BY <1>1, <1>15, <1>16, <1>17
<1>19. IsFiniteSet(Ids(Built[g]))
  <2>. DEFINE id_at == [i \in D |-> nodes[i].id]
  <2>1. id_at \in Surjection(D, Ids(Built[g]))
    BY <1>15, <1>17 DEF Surjection
  <2>2. IsFiniteSet(D)
    BY <1>2, <1>9, FS_Interval
  <2>. HIDE DEF id_at, D
  <2>. QED  BY <2>1, <2>2, FS_Surjection
<1>20. ASSUME NEW id \in Ids(Built[g])
       PROVE  /\ Node(Loaded[g], id).label = Node(Built[g], id).label
              /\ IsSequence(Node(Loaded[g], id).label)
  <2>1. PICK i \in D : id = nodes[i].id
    BY <1>15, <1>17
  <2>2. Node(Built[g], id) = CHOOSE node \in built : node.id = id
    BY DEF Node, built, nodes
  <2>3. nodes[i] \in built /\ \A node \in built : node.id = id => node = nodes[i]
    BY <1>1, <1>14, <2>1
  <2>4. Node(Built[g], id) = nodes[i]
    BY <2>1, <2>2, <2>3
  <2>5. Node(Loaded[g], id) = CHOOSE node \in loaded : node.id = id
    BY DEF Node, loaded
  <2>6. record[i] \in loaded /\ record[i].id = id /\ \A node \in loaded : node.id = id => node = record[i]
    <3>. HIDE DEF read
    <3>1. record[i] \in loaded /\ record[i].id = id
      BY <1>8, <1>10, <1>13, <2>1
    <3>. QED  BY <1>12, <1>13, <3>1
  <2>7. Node(Loaded[g], id) = record[i]
    BY <2>5, <2>6
  <2>. QED  BY <1>1, <1>8, <2>4, <2>7
<1>. QED
  BY <1>18, <1>19, <1>20

(***************************************************************************)
(* The pair that is served is of one graph, because it is stored at once.  *)
(***************************************************************************)
OnePair == snapshot.graph = snapshot.index

LEMMA OnePairInit == Init => OnePair
BY DEF Init, OnePair, Snapshot

LEMMA OnePairStep == OnePair /\ [Next]_vars => OnePair'
<1>. SUFFICES ASSUME OnePair, [Next]_vars
              PROVE  OnePair'
  OBVIOUS
<1>. USE DEF served
<1>1. ASSUME snapshot' = snapshot
      PROVE  OnePair'
  BY <1>1 DEF OnePair
<1>2. ASSUME NEW r \in Reloader, Store(r)
      PROVE  OnePair'
  BY <1>2 DEF Store, Snapshot, OnePair
<1>3. ASSUME NEW r \in Reloader, Prepare(r)
      PROVE  OnePair'
  BY <1>1, <1>3 DEF Prepare
<1>4. ASSUME NEW c \in Client, Task(c)
      PROVE  OnePair'
  BY <1>1, <1>4 DEF Task, Fill, Keep, Line, LastLine, Refuse, EndOfFile, ReadFails,
                    Write, WriteFails, WriteRefusal, Ends
<1>5. ASSUME NEW c \in Client,
             Accept(c) \/ Drop(c) \/ Connect(c) \/ Send(c) \/ Shut(c) \/ HangUp(c) \/ Take(c)
      PROVE  OnePair'
  BY <1>1, <1>5 DEF Accept, Drop, Connect, Send, Shut, HangUp, Take
<1>6. CASE AcceptFails \/ BackedOff
  BY <1>1, <1>6 DEF AcceptFails, BackedOff
<1>7. CASE UNCHANGED vars
  BY <1>1, <1>7 DEF vars
<1>. QED
  BY <1>2, <1>3, <1>4, <1>5, <1>6, <1>7 DEF Next

(* Whatever is asked, and whatever was reloaded meanwhile, find lists the  *)
(* nodes of the graph that was built whose label contains the needle, each *)
(* once and in order: writing the graph, reading it back, indexing it and  *)
(* looking candidates up by their trigrams loses none and adds none.       *)
THEOREM WarmFindAlwaysRight == Spec => []WarmFindRight
<1>1. ASSUME Sorts, OnePair
      PROVE  WarmFindRight
  <2>. DEFINE g == snapshot.graph
  <2>1. g \in Graph /\ snapshot.index = g
    BY <1>1 DEF Sorts, OnePair
  <2>2. ASSUME NEW needle \in Needles
        PROVE  LET matching == Matches(Built[g], needle)
               IN  ToSet(WarmFind(needle)) = matching /\ Smallest(WarmFind(needle), matching)
    <3>. HIDE DEF g
    <3>1. IsSequence(needle)
      BY NeedlesAssumption
    <3>2. /\ Ids(Loaded[g]) = Ids(Built[g])
          /\ Ids(Built[g]) \in SUBSET Nat /\ IsFiniteSet(Ids(Built[g]))
          /\ \A id \in Ids(Built[g]) :
               /\ Node(Loaded[g], id).label = Node(Built[g], id).label
               /\ IsSequence(Node(Loaded[g], id).label)
      BY <2>1, LoadedKeepsNodes
    <3>3. Matches(Loaded[g], needle) = Matches(Built[g], needle)
      BY <3>2 DEF Matches
    <3>4. Indexed[g] = Index(Loaded[g])
      BY <2>1 DEF Indexed
    <3>5. WarmFind(needle) = Find(Index(Loaded[g]), needle)
      BY <2>1, <3>4 DEF WarmFind
    <3>6. WarmFind(needle) = Ascending(Matches(Built[g], needle))
      BY <3>1, <3>2, <3>3, <3>5, FindScans
    <3>7. Matches(Built[g], needle) \in SUBSET Ids(Built[g])
      BY DEF Matches
    <3>8. Matches(Built[g], needle) \in SUBSET Nat /\ IsFiniteSet(Matches(Built[g], needle))
      BY <3>2, <3>7, FS_Subset
    <3>. QED  BY <3>6, <3>8, AscendingFacts
  <2>. QED  BY <2>2 DEF WarmFindRight
<1>. QED
  BY <1>1, BasicsAlways, OnePairInit, OnePairStep, PTL DEF Spec

(***************************************************************************)
(* The daemon implements LineService.  The stream of a client is what it   *)
(* sent and the daemon has not answered: in its buffer, in the BufReader's *)
(* chunk and in the socket.  Moving bytes from one to the next does not    *)
(* show, and a line is answered when it is taken out.                      *)
(***************************************************************************)
Phase(c) ==
  /\ pc[c] \in {"away", "waiting", "reading"} => reply[c] = NoReply
  /\ pc[c] \in {"writing", "refusing"} => reply[c] # NoReply
  /\ Newlines(buf[c]) = {}
Phases == \A c \in Client : Phase(c)

LEMMA TooLongIsReply == TooLong # NoReply
<1>1. Len(TooLong) = 3 /\ Len(NoReply) = 0
  BY DEF TooLong, Error, NoReply
<1>. QED
  BY <1>1

LEMMA NoNewlines ==
  ASSUME NEW s \in Seq(Bytes), NEW t \in Seq(Bytes),
         Newlines(s) = {}, Newlines(t) = {}
  PROVE  Newlines(s \o t) = {}
<1>1. s \o t \in Seq(Bytes) /\ Len(s \o t) = Len(s) + Len(t)
  BY ConcatProperties
<1>2. \A i \in 1..Len(s) + Len(t) :
        (s \o t)[i] = IF i <= Len(s) THEN s[i] ELSE t[i - Len(s)]
  BY ConcatProperties
<1>3. /\ Len(s) \in Nat /\ Len(t) \in Nat /\ DOMAIN s = 1..Len(s) /\ DOMAIN t = 1..Len(t)
      /\ DOMAIN (s \o t) = 1..Len(s) + Len(t)
  BY <1>1, LenProperties
<1>4. (\A i \in 1..Len(s) : s[i] # NL) /\ (\A i \in 1..Len(t) : t[i] # NL)
  BY <1>3 DEF Newlines
<1>5. ASSUME NEW i \in 1..Len(s) + Len(t) PROVE (s \o t)[i] # NL
  <2>1. CASE i <= Len(s)
    <3>1. i \in 1..Len(s)
      BY <1>3, <2>1
    <3>. QED  BY <1>2, <1>4, <2>1, <3>1
  <2>2. CASE ~(i <= Len(s))
    <3>1. i - Len(s) \in 1..Len(t)
      BY <1>3, <2>2
    <3>. QED  BY <1>2, <1>4, <2>2, <3>1
  <2>. QED  BY <2>1, <2>2
<1>. QED
  BY <1>3, <1>5 DEF Newlines

LEMMA PhasesInit == Init => Phases
<1>1. Newlines(<<>>) = {}
  BY DEF Newlines
<1>. QED
  BY <1>1 DEF Init, Phases, Phase

LEMMA PhasesStep == Sorts /\ Phases /\ [Next]_vars => Phases'
<1>. SUFFICES ASSUME Sorts, Phases, [Next]_vars
              PROVE  Phases'
  OBVIOUS
<1>. USE DEF served, loop, client
<1>0. Newlines(<<>>) = {}
  BY DEF Newlines
<1>1. ASSUME UNCHANGED <<pc, buf, reply>>
      PROVE  Phases'
  BY <1>1 DEF Phases, Phase, Newlines
<1>2. ASSUME NEW c \in Client, Phase(c)',
             \A d \in Client \ {c} : UNCHANGED <<pc[d], buf[d], reply[d]>>
      PROVE  Phases'
  BY <1>2 DEF Phases, Phase, Newlines
<1>3. ASSUME NEW r \in Reloader, Prepare(r) \/ Store(r)
      PROVE  Phases'
  BY <1>1, <1>3 DEF Prepare, Store
<1>4. CASE AcceptFails \/ BackedOff
  BY <1>1, <1>4 DEF AcceptFails, BackedOff
<1>5. ASSUME NEW c \in Client, Send(c) \/ Shut(c) \/ HangUp(c) \/ Take(c) \/ Fill(c)
      PROVE  Phases'
  BY <1>1, <1>5 DEF Send, Shut, HangUp, Take, Fill
<1>6. ASSUME NEW c \in Client, Accept(c) \/ Drop(c) \/ Connect(c)
      PROVE  Phases'
  <2>1. /\ UNCHANGED <<buf, reply>> /\ pc[c] \in {"away", "waiting"}
        /\ pc'[c] \in {"waiting", "reading", "closed"}
        /\ \A d \in Client \ {c} : pc'[d] = pc[d]
    BY <1>6 DEF Accept, Drop, Connect, Becomes, Sorts
  <2>2. Phase(c)'
    BY <2>1 DEF Phases, Phase, Newlines
  <2>. QED  BY <1>2, <2>1, <2>2
<1>7. ASSUME NEW c \in Client, EndOfFile(c) \/ ReadFails(c) \/ WriteFails(c)
      PROVE  Phases'
  <2>1. /\ UNCHANGED <<buf, reply>> /\ pc'[c] = "closed"
        /\ \A d \in Client \ {c} : pc'[d] = pc[d]
    BY <1>7 DEF EndOfFile, ReadFails, WriteFails, Ends, Sorts
  <2>2. Phase(c)'
    BY <2>1 DEF Phases, Phase, Newlines
  <2>. QED  BY <1>2, <2>1, <2>2
<1>8. ASSUME NEW c \in Client, Write(c) \/ WriteRefusal(c)
      PROVE  Phases'
  <2>1. /\ UNCHANGED buf /\ pc'[c] \in {"reading", "closed"} /\ reply'[c] = NoReply
        /\ \A d \in Client \ {c} : pc'[d] = pc[d] /\ reply'[d] = reply[d]
    BY <1>8 DEF Write, WriteRefusal, Ends, Becomes, Sorts
  <2>2. Phase(c)'
    BY <2>1 DEF Phases, Phase, Newlines
  <2>. QED  BY <1>2, <2>1, <2>2
<1>9. ASSUME NEW c \in Client, Refuse(c)
      PROVE  Phases'
  <2>1. /\ UNCHANGED buf /\ pc'[c] = "refusing" /\ reply'[c] = TooLong
        /\ \A d \in Client \ {c} : pc'[d] = pc[d] /\ reply'[d] = reply[d]
    BY <1>9 DEF Refuse, Becomes, Sorts
  <2>2. Phase(c)'
    BY <2>1, TooLongIsReply DEF Phases, Phase, Newlines
  <2>. QED  BY <1>2, <2>1, <2>2
<1>10. ASSUME NEW c \in Client, Keep(c)
       PROVE  Phases'
  <2>1. /\ UNCHANGED <<pc, reply>> /\ buf'[c] = buf[c] \o chunk[c]
        /\ \A d \in Client \ {c} : buf'[d] = buf[d]
        /\ Newlines(chunk[c]) = {} /\ pc[c] = "reading"
    BY <1>10 DEF Keep, Sorts
  <2>2. Newlines(buf[c] \o chunk[c]) = {}
    BY <2>1, NoNewlines DEF Sorts, Phases, Phase
  <2>3. Newlines(buf[c])' = {}
    BY <2>1, <2>2 DEF Newlines
  <2>4. Phase(c)'
    BY <2>1, <2>3 DEF Phases, Phase
  <2>. QED  BY <1>2, <2>1, <2>4
<1>11. ASSUME NEW c \in Client, Line(c) \/ LastLine(c)
       PROVE  Phases'
  <2>1. PICK line : Handle(c, line) /\ pc[c] = "reading"
    BY <1>11 DEF Line, LastLine
  <2>. DEFINE answer == IF ToSet(line) \subseteq {SP, CR} THEN NoReply
                        ELSE Replies[snapshot.graph][line]
  <2>2. /\ reply'[c] = answer /\ buf'[c] = <<>>
        /\ pc'[c] = IF answer = NoReply THEN "reading" ELSE "writing"
        /\ \A d \in Client \ {c} : UNCHANGED <<pc[d], buf[d], reply[d]>>
    BY <2>1 DEF Handle, Sorts
  <2>. HIDE DEF answer
  <2>3. Phase(c)'
    BY <1>0, <2>2 DEF Phase, Newlines
  <2>. QED  BY <1>2, <2>2, <2>3
<1>12. CASE UNCHANGED vars
  BY <1>1, <1>12 DEF vars
<1>. QED
  BY <1>3, <1>4, <1>5, <1>6, <1>7, <1>8, <1>9, <1>10, <1>11, <1>12 DEF Next, Task

LEMMA FirstNewline ==
  ASSUME NEW s \in Seq(Bytes), Newlines(s) # {}
  PROVE  /\ NewlineIn(s) \in 1..Len(s) /\ s[NewlineIn(s)] = NL
         /\ \A j \in 1..Len(s) : s[j] = NL => NewlineIn(s) <= j
<1>1. DOMAIN s = 1..Len(s) /\ Len(s) \in Nat
  BY LenProperties
<1>2. Newlines(s) \in SUBSET Nat
  BY <1>1 DEF Newlines
<1>3. \E i \in Newlines(s) : \A j \in Newlines(s) : i <= j
  BY <1>2, LeastNumber
<1>. QED
  BY <1>1, <1>3 DEF NewlineIn, Newlines

LEMMA PartElements ==
  ASSUME NEW S, NEW s \in Seq(S), NEW m \in Nat, NEW n \in Nat, 1 <= m, n <= Len(s)
  PROVE  \A i \in 1..(n - m + 1) : SubSeq(s, m, n)[i] = s[m + i - 1]
<1>1. Len(s) \in Nat
  BY LenProperties
<1>2. \A i \in m..n : s[i] \in S
  BY <1>1, ElementOfSeq
<1>. QED
  BY <1>2, SubSeqProperties

(* A stream w in three pieces, cut at position k, the n-th of the second.  *)
CutAt(w, b, s, t, n, k) ==
  /\ Len(w) = Len(b) + Len(s) + Len(t)
  /\ Len(b) \in Nat /\ Len(s) \in Nat /\ Len(t) \in Nat
  /\ \A i \in 1..Len(b) : w[i] = b[i]
  /\ \A i \in 1..Len(s) : w[Len(b) + i] = s[i]
  /\ SubSeq(w, 1, k - 1) = b \o SubSeq(s, 1, n - 1)
  /\ SubSeq(w, k + 1, Len(w)) = SubSeq(s, n + 1, Len(s)) \o t

LEMMA CutStream ==
  ASSUME NEW S, NEW b \in Seq(S), NEW s \in Seq(S), NEW t \in Seq(S),
         NEW n \in 1..Len(s)
  PROVE  /\ b \o s \o t \in Seq(S)
         /\ CutAt(b \o s \o t, b, s, t, n, Len(b) + n)
<1>. DEFINE w == b \o s \o t
            lb == Len(b)
            ls == Len(s)
            lt == Len(t)
            bs == b \o s
            k == lb + n
            to == k - 1
            from == k + 1
            all == lb + ls + lt
            head == SubSeq(w, 1, to)
            tail == SubSeq(w, from, all)
            read == SubSeq(s, 1, n - 1)
            rest == SubSeq(s, n + 1, ls)
<1>1. lb \in Nat /\ ls \in Nat /\ lt \in Nat
  BY LenProperties
<1>2. /\ bs \in Seq(S) /\ Len(bs) = lb + ls
      /\ \A i \in 1..(lb + ls) : bs[i] = IF i <= lb THEN b[i] ELSE s[i - lb]
  BY ConcatProperties
<1>3. /\ w \in Seq(S) /\ Len(w) = all
      /\ \A i \in 1..all :
           w[i] = IF i <= lb + ls THEN bs[i] ELSE t[i - (lb + ls)]
  <2>. HIDE DEF bs
  <2>0. bs \in Seq(S)
    BY <1>2
  <2>1. /\ bs \o t \in Seq(S) /\ Len(bs \o t) = Len(bs) + Len(t)
        /\ \A i \in 1..(Len(bs) + Len(t)) :
             (bs \o t)[i] = IF i <= Len(bs) THEN bs[i] ELSE t[i - Len(bs)]
    BY <2>0, ConcatProperties
  <2>2. w = bs \o t
    BY DEF bs
  <2>. HIDE DEF w
  <2>. QED  BY <1>1, <1>2, <2>1, <2>2
<1>. HIDE DEF w, bs, lb, ls, lt, all, to, from, k
<1>4. n \in 1..ls
  BY DEF ls
<1>0. /\ k = lb + n /\ all = lb + ls + lt
      /\ to = lb + n - 1 /\ from = lb + n + 1
  BY <1>1, <1>4 DEF all, to, from, k
<1>5. \A i \in 1..lb : w[i] = b[i]
  <2>. SUFFICES ASSUME NEW i \in 1..lb PROVE w[i] = b[i]
    OBVIOUS
  <2>1. i \in 1..all /\ i \in 1..(lb + ls) /\ i <= lb + ls /\ i <= lb
    BY <1>0, <1>1
  <2>. QED  BY <1>2, <1>3, <2>1
<1>6. \A i \in 1..ls : w[lb + i] = s[i]
  <2>. SUFFICES ASSUME NEW i \in 1..ls PROVE w[lb + i] = s[i]
    OBVIOUS
  <2>. DEFINE j == lb + i
  <2>1. /\ j \in 1..all /\ j \in 1..(lb + ls) /\ j <= lb + ls /\ ~(j <= lb)
        /\ j - lb = i
    BY <1>0, <1>1
  <2>. HIDE DEF j
  <2>2. w[j] = s[i]
    BY <1>2, <1>3, <2>1
  <2>. QED  BY <2>2 DEF j
<1>7. \A i \in 1..lt : w[lb + ls + i] = t[i]
  <2>. SUFFICES ASSUME NEW i \in 1..lt PROVE w[lb + ls + i] = t[i]
    OBVIOUS
  <2>. DEFINE j == lb + ls + i
  <2>1. j \in 1..all /\ ~(j <= lb + ls) /\ j - (lb + ls) = i
    BY <1>0, <1>1
  <2>. HIDE DEF j
  <2>2. w[j] = t[i]
    BY <1>3, <2>1
  <2>. QED  BY <2>2 DEF j
<1>8. head = b \o read
  <2>1. \A i \in 1..n - 1 : s[i] \in S
    BY <1>1, <1>4, ElementOfSeq DEF ls
  <2>2. n - 1 \in Int /\ n - 1 - 1 + 1 = n - 1 /\ n - 1 \in Nat
    BY <1>1, <1>4
  <2>3. /\ read \in Seq(S) /\ Len(read) = n - 1
        /\ \A i \in 1..n - 1 : read[i] = s[i]
    <3>1. /\ read \in Seq(S) /\ Len(read) = IF 1 <= n - 1 THEN n - 1 - 1 + 1 ELSE 0
          /\ \A i \in 1..(n - 1 - 1 + 1) : read[i] = s[1 + i - 1]
      BY <2>1, <2>2, SubSeqProperties
    <3>. HIDE DEF read
    <3>. QED  BY <1>1, <1>4, <2>2, <3>1
  <2>4. to \in Nat /\ to <= Len(w) /\ to - 1 + 1 = to
    BY <1>0, <1>1, <1>3, <1>4
  <2>5. /\ head \in Seq(S) /\ Len(head) = IF 1 <= to THEN to - 1 + 1 ELSE 0
        /\ \A i \in 1..(to - 1 + 1) : head[i] = w[1 + i - 1]
    BY <1>3, <2>4, PartType, PartElements
  <2>. HIDE DEF head, read
  <2>6. Len(head) = to /\ \A i \in 1..to : head[i] = w[i]
    BY <1>0, <1>1, <1>4, <2>4, <2>5
  <2>7. /\ b \o read \in Seq(S) /\ Len(b \o read) = Len(b) + Len(read)
        /\ \A i \in 1..(Len(b) + Len(read)) :
             (b \o read)[i] = IF i <= Len(b) THEN b[i] ELSE read[i - Len(b)]
    BY <2>3, ConcatProperties
  <2>. DEFINE x == b \o read
  <2>8. /\ x \in Seq(S) /\ Len(x) = to
        /\ \A i \in 1..to : x[i] = IF i <= lb THEN b[i] ELSE read[i - lb]
    <3>1. Len(b) = lb /\ lb + (n - 1) = to
      BY <1>0, <1>1, <1>4 DEF lb
    <3>. QED  BY <2>3, <2>7, <3>1
  <2>. HIDE DEF x
  <2>9. ASSUME NEW i \in 1..to PROVE head[i] = x[i]
    <3>1. CASE i <= lb
      <4>1. i \in 1..lb
        BY <1>0, <1>1, <1>4, <3>1
      <4>. QED  BY <1>5, <2>6, <2>8, <3>1, <4>1
    <3>2. CASE ~(i <= lb)
      <4>1. i - lb \in 1..(n - 1) /\ i - lb \in 1..ls /\ lb + (i - lb) = i
        BY <1>0, <1>1, <1>4, <3>2
      <4>2. w[i] = s[i - lb]
        BY <1>6, <4>1
      <4>. QED  BY <2>3, <2>6, <2>8, <3>2, <4>1, <4>2
    <3>. QED  BY <3>1, <3>2
  <2>10. head = x
    BY <2>5, <2>6, <2>8, <2>9, SeqEqual
  <2>. QED  BY <2>10 DEF x
<1>9. tail = rest \o t
  <2>1. n + 1 \in Int /\ n + 1 \in Nat /\ 1 <= n + 1 /\ ls \in Int /\ ls <= ls
    BY <1>1, <1>4
  <2>2. /\ rest \in Seq(S) /\ Len(rest) = ls - n
        /\ \A i \in 1..ls - n : rest[i] = s[n + i]
    <3>1. \A i \in (n + 1)..ls : s[i] \in S
      BY <1>1, <1>4, ElementOfSeq DEF ls
    <3>2. /\ rest \in Seq(S)
          /\ Len(rest) = IF n + 1 <= ls THEN ls - (n + 1) + 1 ELSE 0
          /\ \A i \in 1..(ls - (n + 1) + 1) : rest[i] = s[n + 1 + i - 1]
      BY <2>1, <3>1, SubSeqProperties
    <3>. HIDE DEF rest
    <3>3. ls - (n + 1) + 1 = ls - n /\ \A i \in 1..ls - n : n + 1 + i - 1 = n + i
      BY <1>1, <1>4
    <3>. QED  BY <1>1, <1>4, <3>2, <3>3
  <2>3. /\ from \in Nat /\ all \in Nat /\ 1 <= from /\ all <= Len(w)
        /\ all - from + 1 = ls - n + lt
        /\ from <= all \/ ls - n + lt = 0
    BY <1>0, <1>1, <1>3, <1>4
  <2>4. /\ tail \in Seq(S) /\ Len(tail) = IF from <= all THEN all - from + 1 ELSE 0
        /\ \A i \in 1..(all - from + 1) : tail[i] = w[from + i - 1]
    BY <1>3, <2>3, PartType, PartElements
  <2>. HIDE DEF tail, rest
  <2>5. /\ Len(tail) = ls - n + lt
        /\ \A i \in 1..(ls - n + lt) : tail[i] = w[lb + n + i]
    <3>1. \A i \in 1..(ls - n + lt) : from + i - 1 = lb + n + i
      BY <1>0, <1>1, <1>4
    <3>. QED  BY <2>3, <2>4, <3>1
  <2>6. /\ rest \o t \in Seq(S) /\ Len(rest \o t) = Len(rest) + Len(t)
        /\ \A i \in 1..(Len(rest) + Len(t)) :
             (rest \o t)[i] = IF i <= Len(rest) THEN rest[i] ELSE t[i - Len(rest)]
    BY <2>2, ConcatProperties
  <2>. DEFINE x == rest \o t
  <2>7. /\ x \in Seq(S) /\ Len(x) = ls - n + lt
        /\ \A i \in 1..(ls - n + lt) :
             x[i] = IF i <= ls - n THEN rest[i] ELSE t[i - (ls - n)]
    BY <2>2, <2>6 DEF lt
  <2>. HIDE DEF x
  <2>8. ASSUME NEW i \in 1..(ls - n + lt) PROVE tail[i] = x[i]
    <3>1. CASE i <= ls - n
      <4>1. n + i \in 1..ls /\ lb + n + i = lb + (n + i) /\ i \in 1..(ls - n)
        BY <1>1, <1>4, <3>1
      <4>2. w[lb + n + i] = s[n + i]
        BY <1>6, <4>1
      <4>. QED  BY <2>2, <2>5, <2>7, <3>1, <4>1, <4>2
    <3>2. CASE ~(i <= ls - n)
      <4>1. i - (ls - n) \in 1..lt /\ lb + n + i = lb + ls + (i - (ls - n))
        BY <1>1, <1>4, <3>2
      <4>2. w[lb + n + i] = t[i - (ls - n)]
        BY <1>7, <4>1
      <4>. QED  BY <2>5, <2>7, <3>2, <4>2
    <3>. QED  BY <3>1, <3>2
  <2>9. tail = x
    BY <2>4, <2>5, <2>7, <2>8, SeqEqual
  <2>. QED  BY <2>9 DEF x
<1>10. Len(w) = lb + ls + lt /\ SubSeq(w, k + 1, Len(w)) = rest \o t
  BY <1>0, <1>3, <1>9 DEF from
<1>11. SubSeq(w, 1, k - 1) = b \o read
  BY <1>8 DEF to
<1>12. CutAt(w, b, s, t, n, k)
  BY <1>1, <1>5, <1>6, <1>10, <1>11 DEF CutAt, lb, ls, lt
<1>13. w \in Seq(S)
  BY <1>3
<1>. QED
  BY <1>12, <1>13 DEF w, k, lb

(* The line of a stream that the daemon takes out of it.                   *)
LEMMA StreamLine ==
  ASSUME Sorts, Phases, NEW c \in Client, Newlines(chunk[c]) # {}
  PROVE  LET n == NewlineIn(chunk[c])
             stream == StreamOf(c)
         IN  /\ Service!HasLine(stream)
             /\ Service!Length(stream) = Len(buf[c]) + n - 1
             /\ Service!Content(stream) = WithoutCR(buf[c] \o SubSeq(chunk[c], 1, n - 1))
             /\ Service!Rest(stream) = SubSeq(chunk[c], n + 1, Len(chunk[c])) \o socket[c]
<1>. DEFINE b == buf[c]
            s == chunk[c]
            t == socket[c]
            w == StreamOf(c)
            n == NewlineIn(s)
            k == Len(b) + n
<1>1. b \in Seq(Bytes) /\ s \in Seq(Bytes) /\ t \in Seq(Bytes)
      /\ Newlines(b) = {} /\ Newlines(s) # {}
  BY DEF Sorts, Phases, Phase
<1>2. w = b \o s \o t
  BY DEF StreamOf
<1>. HIDE DEF b, s, t, w
<1>3. /\ n \in 1..Len(s) /\ s[n] = NL
      /\ \A j \in 1..Len(s) : s[j] = NL => n <= j
  BY <1>1, FirstNewline
<1>4. \A i \in 1..Len(b) : b[i] # NL
  BY <1>1, LenProperties DEF Newlines
<1>. HIDE DEF n
<1>16. w \in Seq(Bytes) /\ CutAt(w, b, s, t, n, k)
  <2>1. b \in Seq(Bytes) /\ s \in Seq(Bytes) /\ t \in Seq(Bytes) /\ n \in 1..Len(s)
    BY <1>1, <1>3
  <2>. QED  BY <1>2, <2>1, CutStream
<1>5. /\ Len(w) = Len(b) + Len(s) + Len(t)
      /\ Len(b) \in Nat /\ Len(s) \in Nat /\ Len(t) \in Nat
      /\ \A i \in 1..Len(b) : w[i] = b[i]
      /\ \A i \in 1..Len(s) : w[Len(b) + i] = s[i]
  BY <1>16 DEF CutAt
<1>6. DOMAIN w = 1..Len(w)
  BY <1>16, LenProperties
<1>7. k \in DOMAIN w /\ w[k] = NL
  BY <1>3, <1>5, <1>6
<1>8. ASSUME NEW j \in DOMAIN w, w[j] = NL PROVE k <= j
  <2>1. j \in Int /\ 1 <= j
    BY <1>6
  <2>2. CASE j <= Len(b)
    <3>1. j \in 1..Len(b)
      BY <1>5, <2>1, <2>2
    <3>. QED  BY <1>4, <1>5, <1>8, <3>1
  <2>3. CASE j > Len(b) + Len(s)
    BY <1>3, <1>5, <2>1, <2>3
  <2>4. CASE ~(j <= Len(b)) /\ ~(j > Len(b) + Len(s))
    <3>. DEFINE i == j - Len(b)
    <3>1. i \in 1..Len(s) /\ Len(b) + i = j
      <4>. DEFINE lb == Len(b)
                  ls == Len(s)
      <4>1. lb \in Nat /\ ls \in Nat /\ ~(j <= lb) /\ ~(j > lb + ls)
        BY <1>5, <2>4
      <4>. HIDE DEF lb, ls
      <4>2. j - lb \in 1..ls /\ lb + (j - lb) = j
        BY <2>1, <4>1
      <4>. QED  BY <4>2 DEF lb, ls
    <3>. HIDE DEF i
    <3>2. s[i] = NL
      BY <1>5, <1>8, <3>1
    <3>. QED  BY <1>3, <1>5, <3>1, <3>2
  <2>. QED  BY <2>2, <2>3, <2>4
<1>9. Service!Newlines(w) \subseteq Int /\ k \in Service!Newlines(w)
      /\ \A j \in Service!Newlines(w) : k <= j
  BY <1>6, <1>7, <1>8 DEF Service!Newlines
<1>10. Service!LineEnd(w) = k
  BY <1>9 DEF Service!LineEnd
<1>11. Service!HasLine(w)
  BY <1>9 DEF Service!HasLine
<1>12. Service!Content(w) = WithoutCR(SubSeq(w, 1, k - 1))
  BY <1>10, <1>11 DEF Service!Content, Service!Unterminated, WithoutCR,
                      Service!Last, Last, Service!Front, Front
<1>13. Service!Rest(w) = SubSeq(w, k + 1, Len(w)) /\ Service!Length(w) = k - 1
  BY <1>10, <1>11 DEF Service!Rest, Service!Length
<1>14. /\ Service!Content(w) = WithoutCR(b \o SubSeq(s, 1, n - 1))
       /\ Service!Rest(w) = SubSeq(s, n + 1, Len(s)) \o t
  <2>. HIDE DEF k
  <2>. QED  BY <1>16, <1>12, <1>13 DEF CutAt
<1>15. Service!Length(w) = Len(b) + n - 1
  BY <1>3, <1>5, <1>13
<1>. QED
  BY <1>11, <1>14, <1>15 DEF n, b, s, t, w

(***************************************************************************)
(* What LineService sees of the state.                                     *)
(***************************************************************************)
Streams == [c \in Client |-> StreamOf(c)]
States == [c \in Client |-> StateOf(c)]
Replied(c) == delivered[c] \o Pending(c)
AllReplied == [c \in Client |-> Replied(c)]

LEMMA PendingType ==
  ASSUME Sorts, NEW c \in Client
  PROVE  /\ Replied(c) \in Seq(AnyReply)
         /\ reply[c] = NoReply => Replied(c) = delivered[c]
         /\ reply[c] # NoReply => Replied(c) = Append(delivered[c], reply[c])
<1>1. delivered[c] \in Seq(AnyReply) /\ reply[c] \in AnyReply
  BY DEF Sorts
<1>2. delivered[c] \o <<>> = delivered[c]
  BY <1>1, ConcatEmptySeq
<1>3. /\ Append(delivered[c], reply[c]) = delivered[c] \o <<reply[c]>>
      /\ Append(delivered[c], reply[c]) \in Seq(AnyReply)
  BY <1>1, AppendIsConcat, AppendProperties
<1>. QED
  BY <1>1, <1>2, <1>3 DEF Replied, Pending

(* A step that moves one connection.                                       *)
LEMMA OneMoves ==
  ASSUME NEW c \in Client,
         \A d \in Client \ {c} :
           /\ UNCHANGED <<pc[d], socket[d], chunk[d], buf[d], reply[d], delivered[d]>>
  PROVE  /\ Streams' = [Streams EXCEPT ![c] = StreamOf(c)']
         /\ States' = [States EXCEPT ![c] = StateOf(c)']
         /\ AllReplied' = [AllReplied EXCEPT ![c] = Replied(c)']
<1>1. \A d \in Client \ {c} : /\ StreamOf(d)' = StreamOf(d)
                              /\ StateOf(d)' = StateOf(d)
                              /\ Replied(d)' = Replied(d)
  BY DEF StreamOf, StateOf, Replied, Pending
<1>. QED
  BY <1>1 DEF Streams, States, AllReplied

LEMMA SameStill ==
  ASSUME NEW c \in Client
  PROVE  /\ StreamOf(c)' = StreamOf(c) => [Streams EXCEPT ![c] = StreamOf(c)'] = Streams
         /\ StateOf(c)' = StateOf(c) => [States EXCEPT ![c] = StateOf(c)'] = States
         /\ Replied(c)' = Replied(c)
              => [AllReplied EXCEPT ![c] = Replied(c)'] = AllReplied
BY DEF Streams, States, AllReplied

LEMMA RefinesInit == Init => Service!Init
<1>. SUFFICES ASSUME Init PROVE Service!Init
  OBVIOUS
<1>1. <<>> \o <<>> = <<>>
  BY EmptySeq, ConcatEmptySeq
<1>2. ASSUME NEW c \in Client
      PROVE  /\ StreamOf(c) = <<>> /\ StateOf(c) = "away"
             /\ delivered[c] \o Pending(c) = <<>>
  BY <1>1 DEF Init, StreamOf, StateOf, Pending
<1>3. snapshot.graph \in Graph
  BY DEF Init, Snapshot, Graph
<1>. QED
  BY <1>2, <1>3 DEF Init, Service!Init

(* A step that LineService does not see.                                   *)
LEMMA Unseen ==
  ASSUME NEW c \in Client, UNCHANGED <<snapshot, ended, gone>>,
         \A d \in Client \ {c} :
           UNCHANGED <<pc[d], socket[d], chunk[d], buf[d], reply[d], delivered[d]>>,
         StreamOf(c)' = StreamOf(c), StateOf(c)' = StateOf(c),
         Replied(c)' = Replied(c)
  PROVE  UNCHANGED Service!vars
<1>1. Streams' = Streams /\ States' = States /\ AllReplied' = AllReplied
  BY OneMoves, SameStill
<1>. QED
  BY <1>1 DEF Service!vars, Streams, States, AllReplied, Replied

LEMMA Closes ==
  ASSUME NEW c \in Client, UNCHANGED <<snapshot, ended, gone>>,
         \A d \in Client \ {c} :
           UNCHANGED <<pc[d], socket[d], chunk[d], buf[d], reply[d], delivered[d]>>,
         StreamOf(c)' = StreamOf(c), StateOf(c)' = "closed",
         Replied(c)' = Replied(c),
         \/ StateOf(c) \in {"waiting", "refused"}
         \/ StateOf(c) = "open" /\ ended[c] /\ StreamOf(c) = <<>>
         \/ StateOf(c) = "open" /\ gone[c]
  PROVE  Service!Close(c)
<1>1. /\ Streams' = Streams /\ AllReplied' = AllReplied
      /\ States' = [States EXCEPT ![c] = "closed"]
  BY OneMoves, SameStill
<1>2. Streams[c] = StreamOf(c) /\ States[c] = StateOf(c)
  BY DEF Streams, States
<1>. QED
  BY <1>1, <1>2 DEF Service!Close, Streams, States, AllReplied, Replied

LEMMA LastAppended ==
  ASSUME NEW S, NEW s \in Seq(S), NEW e \in S
  PROVE  Append(s, e) # <<>> /\ Service!Last(Append(s, e)) = e
<1>1. /\ Append(s, e) # <<>> /\ Len(Append(s, e)) = Len(s) + 1
      /\ Append(s, e)[Len(s) + 1] = e
  BY AppendProperties
<1>. QED
  BY <1>1 DEF Service!Last

(* A line that is taken out of the stream is passed over or answered.      *)
LEMMA HandleServes ==
  ASSUME Sorts, Sorts', Phases, Seq(Bytes) \subseteq Lines, QueriesRight,
         NEW c \in Client, pc[c] = "reading", NEW line \in Seq(Bytes),
         Handle(c, line), UNCHANGED delivered,
         AllReplied' = [AllReplied EXCEPT ![c] = Replied(c)']
  PROVE  /\ StateOf(c)' = "open"
         /\ Service!Pass(c, line) \/ Service!Answer(c, line)
<1>. DEFINE blank == ToSet(line) \subseteq {SP, CR}
            answer == IF blank THEN NoReply ELSE Replies[snapshot.graph][line]
<1>1. /\ reply'[c] = answer
      /\ pc'[c] = IF answer = NoReply THEN "reading" ELSE "writing"
  BY DEF Handle, Sorts
<1>2. StateOf(c)' = "open"
  BY <1>1 DEF StateOf
<1>3. reply[c] = NoReply
  BY DEF Phases, Phase
<1>4. snapshot.graph \in Graph /\ line \in Lines
  BY DEF Sorts
<1>5. Replies[snapshot.graph][line] = handle_jsonrpc(Loaded[snapshot.graph], line)
  BY <1>4 DEF Replies
<1>6. ~blank => RightOver(snapshot.graph, line, answer)
  BY <1>4, <1>5 DEF QueriesRight
<1>7. blank <=> Service!ToSet(line) \subseteq {SP, CR}
  BY DEF ToSet, Service!ToSet
<1>8. Replied(c) = delivered[c] /\ AllReplied[c] = Replied(c)
  BY <1>3, PendingType DEF AllReplied
<1>. HIDE DEF blank, answer
<1>9. CASE answer = NoReply
  <2>1. Replied(c)' = delivered[c]
    BY <1>1, <1>8, <1>9 DEF Replied, Pending
  <2>2. AllReplied' = AllReplied
    BY <1>8, <2>1, SameStill
  <2>3. Service!Pass(c, line)
    BY <1>6, <1>7, <1>9, <2>2 DEF Service!Pass, AllReplied, Replied
  <2>. QED  BY <1>2, <2>3
<1>10. CASE answer # NoReply
  <2>1. ~blank
    BY <1>10 DEF answer
  <2>2. delivered[c] \in Seq(AnyReply) /\ answer \in AnyReply
    BY <1>1 DEF Sorts
  <2>3. Replied(c)' = Append(delivered[c], answer)
    <3>1. Replied(c)' = delivered[c] \o <<answer>>
      BY <1>1, <1>10 DEF Replied, Pending
    <3>. QED  BY <2>2, <3>1, AppendIsConcat
  <2>4. AllReplied' = [AllReplied EXCEPT ![c] = Append(@, answer)]
    BY <1>8, <2>3
  <2>5. AllReplied'[c] = Append(delivered[c], answer)
    BY <1>8, <2>4 DEF AllReplied
  <2>6. AllReplied'[c] # <<>> /\ Service!Last(AllReplied'[c]) = answer
    <3>1. /\ Append(delivered[c], answer) # <<>>
          /\ Service!Last(Append(delivered[c], answer)) = answer
      BY <2>2, LastAppended
    <3>. QED  BY <2>5, <3>1
  <2>7. RightOver(snapshot.graph, line, answer)
    BY <1>6, <2>1
  <2>8. Service!Answer(c, line)
    BY <1>7, <2>1, <2>4, <2>6, <2>7 DEF Service!Answer, AllReplied, Replied
  <2>. QED  BY <1>2, <2>8
<1>. QED
  BY <1>9, <1>10

LEMMA Serves ==
  ASSUME NEW c \in Client, UNCHANGED <<snapshot, ended, gone>>,
         StateOf(c) = "open", StateOf(c)' = "open",
         States' = [States EXCEPT ![c] = StateOf(c)'],
         Streams' = [Streams EXCEPT ![c] = Service!Rest(StreamOf(c))],
         Service!HasLine(StreamOf(c)) \/ (ended[c] /\ StreamOf(c) # <<>>),
         Service!Length(StreamOf(c)) < MAX_LINE_BYTES + CHUNK,
         NEW line, line = Service!Content(StreamOf(c)),
         Service!Pass(c, line) \/ Service!Answer(c, line)
  PROVE  Service!Serve(c)
<1>1. Streams[c] = StreamOf(c) /\ States[c] = "open"
  BY DEF Streams, States
<1>2. States' = States
  BY SameStill
<1>3. Streams' = [Streams EXCEPT ![c] = Service!Rest(@)]
  BY <1>1
<1>4. \E l \in {Service!Content(Streams[c])} :
         Service!Pass(c, l) \/ Service!Answer(c, l)
  <2>1. line \in {Service!Content(Streams[c])}
    BY <1>1
  <2>. WITNESS line \in {Service!Content(Streams[c])}
  <2>. QED  OBVIOUS
<1>. QED
  BY <1>1, <1>2, <1>3, <1>4 DEF Service!Serve, Streams, States

LEMMA LineServes ==
  ASSUME Sorts, Sorts', Limits, Bounded, Phases, Seq(Bytes) \subseteq Lines, QueriesRight,
         NEW c \in Client, Line(c)
  PROVE  Service!Serve(c)
<1>. DEFINE n == NewlineIn(chunk[c])
            line == WithoutCR(buf[c] \o SubSeq(chunk[c], 1, n - 1))
            rest == SubSeq(chunk[c], n + 1, Len(chunk[c]))
<1>1. /\ pc[c] = "reading" /\ Newlines(chunk[c]) # {} /\ Handle(c, line)
      /\ chunk' = [chunk EXCEPT ![c] = rest]
      /\ UNCHANGED <<socket, ended, gone, delivered, snapshot>>
  BY DEF Line, served, client
<1>2. line \in Seq(Bytes) /\ rest \in Seq(Bytes)
  BY <1>1, LineParts
<1>3. /\ Service!HasLine(StreamOf(c))
      /\ Service!Length(StreamOf(c)) = Len(buf[c]) + n - 1
      /\ Service!Content(StreamOf(c)) = line
      /\ Service!Rest(StreamOf(c)) = rest \o socket[c]
  BY <1>1, StreamLine
<1>4. Service!Length(StreamOf(c)) < MAX_LINE_BYTES + CHUNK
  <2>1. /\ Len(buf[c]) \in Nat /\ Len(buf[c]) <= MAX_LINE_BYTES
        /\ Len(chunk[c]) \in Nat /\ Len(chunk[c]) <= CHUNK
    BY LenProperties DEF Sorts, Bounded, Limits
  <2>2. n \in 1..Len(chunk[c])
    BY <1>1, NewlineFacts DEF Sorts
  <2>. HIDE DEF n
  <2>3. n \in Nat /\ n <= CHUNK
    BY <2>1, <2>2, ChunkAssumption
  <2>4. Len(buf[c]) + n - 1 < MAX_LINE_BYTES + CHUNK
    <3>. DEFINE kept == Len(buf[c])
    <3>1. kept \in Nat /\ kept <= MAX_LINE_BYTES
      BY <2>1
    <3>. HIDE DEF kept
    <3>2. kept + n - 1 < MAX_LINE_BYTES + CHUNK
      BY <2>3, <3>1, MaxLineAssumption, ChunkAssumption
    <3>. QED  BY <3>2 DEF kept
  <2>. QED  BY <1>3, <2>4 DEF n
<1>. HIDE DEF n, line, rest
<1>5. /\ buf'[c] = <<>> /\ chunk'[c] = rest
      /\ \A d \in Client \ {c} :
           UNCHANGED <<pc[d], socket[d], chunk[d], buf[d], reply[d], delivered[d]>>
  BY <1>1 DEF Handle, Sorts
<1>6. StreamOf(c)' = rest \o socket[c]
  <2>1. <<>> \o rest = rest
    BY <1>2, ConcatEmptySeq
  <2>. QED  BY <1>1, <1>5, <2>1 DEF StreamOf
<1>7. /\ Streams' = [Streams EXCEPT ![c] = Service!Rest(StreamOf(c))]
      /\ States' = [States EXCEPT ![c] = StateOf(c)']
      /\ AllReplied' = [AllReplied EXCEPT ![c] = Replied(c)']
  BY <1>3, <1>5, <1>6, OneMoves
<1>. PICK l \in Seq(Bytes) : l = line
  BY <1>2
<1>8. Handle(c, l)
  BY <1>1 DEF Handle
<1>9. l = Service!Content(StreamOf(c))
  BY <1>3
<1>10. StateOf(c)' = "open" /\ (Service!Pass(c, l) \/ Service!Answer(c, l))
  BY <1>1, <1>7, <1>8, HandleServes
<1>11. StateOf(c) = "open"
  BY <1>1 DEF StateOf
<1>. QED
  BY <1>1, <1>3, <1>4, <1>7, <1>10, <1>11, <1>9, Serves

(* A stream without a newline, nothing of which is left to be read.        *)
LEMMA AllOfStream ==
  ASSUME Sorts, Phases, NEW c \in Client, chunk[c] = <<>>, socket[c] = <<>>
  PROVE  /\ StreamOf(c) = buf[c]
         /\ Service!Length(buf[c]) = Len(buf[c])
         /\ Service!Content(buf[c]) = buf[c]
         /\ Service!Rest(buf[c]) = <<>>
<1>1. StreamOf(c) = buf[c]
  <2>1. buf[c] \in Seq(Bytes) /\ buf[c] \o <<>> = buf[c]
    BY ConcatEmptySeq DEF Sorts
  <2>. QED  BY <2>1 DEF StreamOf
<1>2. ~Service!HasLine(buf[c])
  BY DEF Phases, Phase, Newlines, Service!HasLine, Service!Newlines
<1>. QED
  BY <1>1, <1>2 DEF Service!Length, Service!Content, Service!Rest

LEMMA LastLineServes ==
  ASSUME Sorts, Sorts', Bounded, Phases, Seq(Bytes) \subseteq Lines, QueriesRight,
         NEW c \in Client, LastLine(c)
  PROVE  Service!Serve(c)
<1>1. /\ pc[c] = "reading" /\ Handle(c, buf[c]) /\ buf[c] # <<>> /\ ended[c]
      /\ chunk[c] = <<>> /\ socket[c] = <<>>
      /\ UNCHANGED <<socket, chunk, ended, gone, delivered, snapshot>>
  BY DEF LastLine, AtEnd, served, client
<1>2. buf[c] \in Seq(Bytes) /\ Len(buf[c]) \in Nat /\ Len(buf[c]) <= MAX_LINE_BYTES
  BY LenProperties DEF Sorts, Bounded
<1>3. /\ StreamOf(c) = buf[c]
      /\ Service!Length(StreamOf(c)) = Len(buf[c])
      /\ Service!Content(StreamOf(c)) = buf[c]
      /\ Service!Rest(StreamOf(c)) = <<>>
  BY <1>1, AllOfStream
<1>4. Service!Length(StreamOf(c)) < MAX_LINE_BYTES + CHUNK
  BY <1>2, <1>3, MaxLineAssumption, ChunkAssumption
<1>5. /\ buf'[c] = <<>>
      /\ \A d \in Client \ {c} :
           UNCHANGED <<pc[d], socket[d], chunk[d], buf[d], reply[d], delivered[d]>>
  BY <1>1 DEF Handle, Sorts
<1>6. StreamOf(c)' = <<>>
  <2>1. <<>> \o <<>> = <<>>
    BY EmptySeq, ConcatEmptySeq
  <2>. QED  BY <1>1, <1>5, <2>1 DEF StreamOf
<1>7. /\ Streams' = [Streams EXCEPT ![c] = Service!Rest(StreamOf(c))]
      /\ States' = [States EXCEPT ![c] = StateOf(c)']
      /\ AllReplied' = [AllReplied EXCEPT ![c] = Replied(c)']
  BY <1>3, <1>5, <1>6, OneMoves
<1>. PICK l \in Seq(Bytes) : l = buf[c]
  BY <1>2
<1>8. Handle(c, l)
  BY <1>1 DEF Handle
<1>9. StateOf(c)' = "open" /\ (Service!Pass(c, l) \/ Service!Answer(c, l))
  BY <1>1, <1>7, <1>8, HandleServes
<1>10. StateOf(c) = "open"
  BY <1>1 DEF StateOf
<1>11. ended[c] /\ StreamOf(c) # <<>>
  BY <1>1, <1>3
<1>12. l = Service!Content(StreamOf(c))
  BY <1>3
<1>. QED
  BY <1>1, <1>4, <1>7, <1>9, <1>10, <1>11, <1>12, Serves

(* The bytes that are read and not answered are a part of the line they    *)
(* begin: it is too long when they are.                                    *)
LEMMA LongStream ==
  ASSUME NEW s \in Seq(Bytes), NEW t \in Seq(Bytes), Newlines(s) = {}
  PROVE  Service!Length(s \o t) \in Int /\ Service!Length(s \o t) >= Len(s)
<1>. DEFINE w == s \o t
<1>1. /\ w \in Seq(Bytes) /\ Len(w) = Len(s) + Len(t)
      /\ \A i \in 1..Len(s) + Len(t) : w[i] = IF i <= Len(s) THEN s[i] ELSE t[i - Len(s)]
  BY ConcatProperties
<1>. HIDE DEF w
<1>2. /\ Len(s) \in Nat /\ Len(t) \in Nat /\ DOMAIN s = 1..Len(s)
      /\ DOMAIN w = 1..Len(s) + Len(t)
  BY <1>1, LenProperties
<1>3. ASSUME NEW i \in Service!Newlines(w)
      PROVE  i > Len(s)
  <2>1. i \in 1..Len(s) + Len(t) /\ w[i] = NL
    BY <1>2, <1>3 DEF Service!Newlines
  <2>2. CASE i <= Len(s)
    <3>1. i \in DOMAIN s /\ s[i] = NL
      BY <1>1, <1>2, <2>1, <2>2
    <3>. QED  BY <3>1 DEF Newlines
  <2>. QED  BY <1>2, <2>1, <2>2
<1>4. CASE Service!HasLine(w)
  <2>1. Service!Newlines(w) \subseteq Nat /\ Service!Newlines(w) # {}
    BY <1>2, <1>4 DEF Service!Newlines, Service!HasLine
  <2>2. \E i \in Service!Newlines(w) : \A j \in Service!Newlines(w) : i <= j
    BY <2>1, LeastNumber
  <2>3. Service!LineEnd(w) \in Service!Newlines(w)
    BY <2>2 DEF Service!LineEnd
  <2>4. Service!LineEnd(w) \in Nat /\ Service!LineEnd(w) > Len(s)
    BY <1>3, <2>1, <2>3
  <2>5. Service!LineEnd(w) - 1 \in Int /\ Service!LineEnd(w) - 1 >= Len(s)
    <3>. DEFINE k == Service!LineEnd(w)
                l == Len(s)
    <3>1. k \in Nat /\ l \in Nat /\ k > l
      BY <1>2, <2>4
    <3>. HIDE DEF k, l
    <3>2. k - 1 \in Int /\ k - 1 >= l
      BY <3>1
    <3>. QED  BY <3>2 DEF k, l
  <2>. QED  BY <1>4, <2>5 DEF Service!Length, w
<1>5. CASE ~Service!HasLine(w)
  <2>1. Service!Length(w) = Len(s) + Len(t)
    BY <1>1, <1>5 DEF Service!Length
  <2>. QED  BY <1>2, <2>1 DEF w
<1>. QED
  BY <1>4, <1>5

LEMMA RefuseRefines ==
  ASSUME Sorts, Sorts', Phases, NEW c \in Client, Refuse(c)
  PROVE  Service!Refuse(c)
<1>1. /\ pc[c] = "reading" /\ pc'[c] = "refusing" /\ reply'[c] = TooLong
      /\ UNCHANGED <<snapshot, ended, gone, delivered, buf, chunk, socket>>
      /\ \A d \in Client \ {c} :
           UNCHANGED <<pc[d], socket[d], chunk[d], buf[d], reply[d], delivered[d]>>
      /\ Newlines(chunk[c]) = {} /\ Len(buf[c]) + Len(chunk[c]) > MAX_LINE_BYTES
  BY DEF Refuse, Becomes, TooMuch, served, client, Sorts
<1>2. StateOf(c) = "open" /\ StateOf(c)' = "refused" /\ StreamOf(c)' = StreamOf(c)
  BY <1>1 DEF StateOf, StreamOf
<1>3. Replied(c) = delivered[c] /\ Replied(c)' = Append(delivered[c], TooLong)
  <2>1. reply[c] = NoReply
    BY <1>1 DEF Phases, Phase
  <2>2. delivered[c] \in Seq(AnyReply) /\ TooLong \in AnyReply
    BY <1>1 DEF Sorts
  <2>3. Replied(c)' = delivered[c] \o <<TooLong>>
    BY <1>1, TooLongIsReply DEF Replied, Pending
  <2>. QED  BY <2>1, <2>2, <2>3, PendingType, AppendIsConcat
<1>4. Service!Length(StreamOf(c)) > MAX_LINE_BYTES
  <2>. DEFINE s == buf[c] \o chunk[c]
  <2>1. /\ buf[c] \in Seq(Bytes) /\ chunk[c] \in Seq(Bytes) /\ socket[c] \in Seq(Bytes)
        /\ Newlines(buf[c]) = {}
    BY DEF Sorts, Phases, Phase
  <2>2. s \in Seq(Bytes) /\ Len(s) = Len(buf[c]) + Len(chunk[c]) /\ Newlines(s) = {}
    <3>1. s \in Seq(Bytes) /\ Len(s) = Len(buf[c]) + Len(chunk[c])
      BY <2>1, ConcatProperties
    <3>2. Newlines(s) = {}
      BY <1>1, <2>1, NoNewlines
    <3>. QED  BY <3>1, <3>2
  <2>3. StreamOf(c) = s \o socket[c]
    BY DEF StreamOf
  <2>. HIDE DEF s
  <2>4. /\ Service!Length(StreamOf(c)) \in Int
        /\ Service!Length(StreamOf(c)) >= Len(s) /\ Len(s) > MAX_LINE_BYTES
    BY <1>1, <2>1, <2>2, <2>3, LongStream
  <2>5. Len(s) \in Nat
    BY <2>2, LenProperties
  <2>. QED  BY <2>4, <2>5, MaxLineAssumption
<1>5. /\ Streams' = Streams
      /\ States' = [States EXCEPT ![c] = "refused"]
      /\ AllReplied' = [AllReplied EXCEPT ![c] = Append(delivered[c], TooLong)]
  BY <1>1, <1>2, <1>3, OneMoves, SameStill
<1>6. Streams[c] = StreamOf(c) /\ States[c] = "open" /\ AllReplied[c] = delivered[c]
  BY <1>2, <1>3 DEF Streams, States, AllReplied
<1>7. AllReplied' = [AllReplied EXCEPT ![c] = Append(@, TooLong)]
  BY <1>5, <1>6
<1>. QED
  BY <1>1, <1>4, <1>5, <1>6, <1>7 DEF Service!Refuse, Service!Moves, Streams, States,
                                      AllReplied, Replied

(* A reply that is written was an answer already when its line was taken.  *)
LEMMA WriteUnseen ==
  ASSUME Sorts, Phases, NEW c \in Client, Write(c)
  PROVE  UNCHANGED Service!vars
<1>1. /\ pc[c] = "writing" /\ pc'[c] = "reading" /\ reply'[c] = NoReply
      /\ delivered'[c] = Append(delivered[c], reply[c])
      /\ UNCHANGED <<snapshot, ended, gone, buf, chunk, socket>>
      /\ \A d \in Client \ {c} :
           UNCHANGED <<pc[d], socket[d], chunk[d], buf[d], reply[d], delivered[d]>>
  BY DEF Write, Written, Becomes, served, client, Sorts
<1>2. Replied(c)' = Replied(c)
  <2>1. reply[c] # NoReply
    BY <1>1 DEF Phases, Phase
  <2>2. Replied(c) = Append(delivered[c], reply[c]) /\ Replied(c) \in Seq(AnyReply)
    BY <2>1, PendingType
  <2>3. Append(delivered[c], reply[c]) \o <<>> = Append(delivered[c], reply[c])
    BY <2>2, ConcatEmptySeq
  <2>. QED  BY <1>1, <2>2, <2>3 DEF Replied, Pending
<1>. QED
  BY <1>1, <1>2, Unseen DEF StateOf, StreamOf

LEMMA WriteRefusalCloses ==
  ASSUME Sorts, Phases, NEW c \in Client, WriteRefusal(c)
  PROVE  Service!Close(c)
<1>1. /\ pc[c] = "refusing" /\ pc'[c] = "closed" /\ reply'[c] = NoReply
      /\ delivered'[c] = Append(delivered[c], reply[c])
      /\ UNCHANGED <<snapshot, ended, gone, buf, chunk, socket>>
      /\ \A d \in Client \ {c} :
           UNCHANGED <<pc[d], socket[d], chunk[d], buf[d], reply[d], delivered[d]>>
  BY DEF WriteRefusal, Written, Ends, served, client, Sorts
<1>2. Replied(c)' = Replied(c)
  <2>1. reply[c] # NoReply
    BY <1>1 DEF Phases, Phase
  <2>2. Replied(c) = Append(delivered[c], reply[c]) /\ Replied(c) \in Seq(AnyReply)
    BY <2>1, PendingType
  <2>3. Append(delivered[c], reply[c]) \o <<>> = Append(delivered[c], reply[c])
    BY <2>2, ConcatEmptySeq
  <2>. QED  BY <1>1, <2>2, <2>3 DEF Replied, Pending
<1>3. StateOf(c) = "refused" /\ StateOf(c)' = "closed" /\ StreamOf(c)' = StreamOf(c)
  BY <1>1 DEF StateOf, StreamOf
<1>. QED
  BY <1>1, <1>2, <1>3, Closes

LEMMA BytesRegroup ==
  \A s, t, u \in Seq(Bytes) : (s \o t) \o u = s \o (t \o u)
BY ConcatAssociative

(* Bytes that move from the socket to the chunk or from it to the buffer.  *)
LEMMA FillUnseen ==
  ASSUME Sorts, NEW c \in Client, Fill(c)
  PROVE  UNCHANGED Service!vars
<1>1. PICK n \in 1..Len(socket[c]) :
        /\ chunk' = [chunk EXCEPT ![c] = SubSeq(socket[c], 1, n)]
        /\ socket' = [socket EXCEPT ![c] = SubSeq(@, n + 1, Len(@))]
  BY DEF Fill
<1>. DEFINE b == buf[c]
            t == socket[c]
            first == SubSeq(t, 1, n)
            after == SubSeq(t, n + 1, Len(t))
<1>2. b \in Seq(Bytes) /\ t \in Seq(Bytes) /\ chunk[c] = <<>> /\ n \in 1..Len(t)
  BY DEF Sorts, Fill
<1>3. /\ chunk'[c] = first /\ socket'[c] = after
      /\ UNCHANGED <<snapshot, ended, gone, pc, buf, reply, delivered>>
      /\ \A d \in Client \ {c} : UNCHANGED <<chunk[d], socket[d]>>
  BY <1>1 DEF Fill, served, Sorts
<1>4. StreamOf(c) = b \o <<>> \o t
  BY <1>2 DEF StreamOf
<1>5. StreamOf(c)' = b \o first \o after
  BY <1>3 DEF StreamOf
<1>. HIDE DEF b, t
<1>6. Len(t) \in Nat
  BY <1>2, LenProperties
<1>7. first \in Seq(Bytes) /\ after \in Seq(Bytes) /\ first \o after = t
  <2>1. 1 \in 1..Len(t) + 1 /\ n \in 1 - 1..Len(t) /\ Len(t) \in n..Len(t)
    BY <1>2, <1>6
  <2>2. first \o after = SubSeq(t, 1, Len(t))
    BY <1>2, <2>1, ConcatAdjacentSubSeq
  <2>3. first \in Seq(Bytes) /\ after \in Seq(Bytes)
    BY <1>2, <1>6, PartType
  <2>. QED  BY <1>2, <2>2, <2>3, SubSeqFull
<1>. HIDE DEF first, after
<1>8. StreamOf(c)' = StreamOf(c)
  <2>1. b \o <<>> = b
    BY <1>2, ConcatEmptySeq
  <2>2. b \o first \o after = b \o (first \o after)
    BY <1>2, <1>7, BytesRegroup
  <2>. QED  BY <1>4, <1>5, <1>7, <2>1, <2>2
<1>9. StateOf(c)' = StateOf(c) /\ Replied(c)' = Replied(c)
  BY <1>3 DEF StateOf, Replied, Pending
<1>. QED
  BY <1>3, <1>8, <1>9, Unseen

LEMMA KeepUnseen ==
  ASSUME Sorts, NEW c \in Client, Keep(c)
  PROVE  UNCHANGED Service!vars
<1>1. /\ buf'[c] = buf[c] \o chunk[c] /\ chunk'[c] = <<>>
      /\ UNCHANGED <<snapshot, ended, gone, pc, socket, reply, delivered>>
      /\ \A d \in Client \ {c} : UNCHANGED <<chunk[d], buf[d]>>
  BY DEF Keep, served, client, Sorts
<1>2. StreamOf(c)' = StreamOf(c)
  <2>1. buf[c] \o chunk[c] \in Seq(Bytes)
    BY ConcatProperties DEF Sorts
  <2>2. (buf[c] \o chunk[c]) \o <<>> = buf[c] \o chunk[c]
    BY <2>1, ConcatEmptySeq
  <2>. QED  BY <1>1, <2>2 DEF StreamOf
<1>3. StateOf(c)' = StateOf(c) /\ Replied(c)' = Replied(c)
  BY <1>1 DEF StateOf, Replied, Pending
<1>. QED
  BY <1>1, <1>2, <1>3, Unseen

LEMMA SendRefines ==
  ASSUME Sorts, NEW c \in Client, Send(c)
  PROVE  Service!Send(c)
<1>1. PICK m \in Messages[c] : socket' = [socket EXCEPT ![c] = @ \o m]
  BY DEF Send
<1>2. /\ ~ended[c] /\ socket'[c] = socket[c] \o m
      /\ UNCHANGED <<snapshot, ended, gone, pc, chunk, buf, reply, delivered>>
      /\ \A d \in Client \ {c} : socket'[d] = socket[d]
  BY <1>1 DEF Send, served, Sorts
<1>3. StreamOf(c)' = StreamOf(c) \o m
  <2>1. m \in Seq(Bytes)
    BY MessageType
  <2>2. buf[c] \o chunk[c] \in Seq(Bytes) /\ socket[c] \in Seq(Bytes)
    BY ConcatProperties DEF Sorts
  <2>3. (buf[c] \o chunk[c]) \o (socket[c] \o m) = (buf[c] \o chunk[c] \o socket[c]) \o m
    BY <2>1, <2>2, BytesRegroup
  <2>. QED  BY <1>2, <2>3 DEF StreamOf
<1>4. StateOf(c)' = StateOf(c) /\ Replied(c)' = Replied(c)
  BY <1>2 DEF StateOf, Replied, Pending
<1>5. /\ Streams' = [Streams EXCEPT ![c] = StreamOf(c) \o m]
      /\ States' = States /\ AllReplied' = AllReplied
  BY <1>2, <1>3, <1>4, OneMoves, SameStill
<1>6. Streams' = [Streams EXCEPT ![c] = @ \o m]
  BY <1>5 DEF Streams
<1>. QED
  BY <1>2, <1>5, <1>6 DEF Service!Send, Streams, States, AllReplied, Replied

LEMMA NothingMoves ==
  ASSUME UNCHANGED <<snapshot, pc, socket, ended, gone, chunk, buf, reply, delivered>>
  PROVE  UNCHANGED Service!vars
<1>1. \A c \in Client : /\ StreamOf(c)' = StreamOf(c)
                        /\ StateOf(c)' = StateOf(c)
                        /\ Replied(c)' = Replied(c)
  BY DEF StreamOf, StateOf, Replied, Pending
<1>2. Streams' = Streams /\ States' = States /\ AllReplied' = AllReplied
  BY <1>1 DEF Streams, States, AllReplied
<1>. QED
  BY <1>2 DEF Service!vars, Streams, States, AllReplied, Replied

LEMMA StoreRefines ==
  ASSUME Sorts', NEW r \in Reloader, Store(r)
  PROVE  Service!Reload
<1>1. UNCHANGED <<pc, socket, ended, gone, chunk, buf, reply, delivered>>
  BY DEF Store, loop, client
<1>2. \A c \in Client : /\ StreamOf(c)' = StreamOf(c)
                        /\ StateOf(c)' = StateOf(c)
                        /\ Replied(c)' = Replied(c)
  BY <1>1 DEF StreamOf, StateOf, Replied, Pending
<1>3. Streams' = Streams /\ States' = States /\ AllReplied' = AllReplied
  BY <1>2 DEF Streams, States, AllReplied
<1>4. snapshot'.graph \in Graph
  BY DEF Sorts
<1>. QED
  BY <1>1, <1>3, <1>4 DEF Service!Reload, Streams, States, AllReplied, Replied

LEMMA DoorRefines ==
  ASSUME Sorts, NEW c \in Client
  PROVE  /\ Connect(c) => Service!Connect(c)
         /\ Accept(c) => Service!Open(c)
         /\ Drop(c) => Service!Close(c)
<1>. USE DEF served, loop, client
<1>1. ASSUME Connect(c) \/ Accept(c) \/ Drop(c)
      PROVE  /\ UNCHANGED <<snapshot, ended, gone, socket, chunk, buf, reply, delivered>>
             /\ \A d \in Client \ {c} : pc'[d] = pc[d]
             /\ StreamOf(c)' = StreamOf(c) /\ Replied(c)' = Replied(c)
  BY <1>1 DEF Connect, Accept, Drop, Becomes, Sorts, StreamOf, Replied, Pending
<1>2. ASSUME Connect(c) \/ Accept(c)
      PROVE  /\ Streams' = Streams /\ AllReplied' = AllReplied
             /\ States' = [States EXCEPT ![c] = StateOf(c)'] /\ States[c] = StateOf(c)
  BY <1>1, <1>2, OneMoves, SameStill DEF States
<1>3. ASSUME Connect(c) PROVE Service!Connect(c)
  <2>1. StateOf(c) = "away" /\ StateOf(c)' = "waiting"
    BY <1>3 DEF Connect, Becomes, Sorts, StateOf
  <2>. QED  BY <1>1, <1>2, <1>3, <2>1 DEF Service!Connect, Service!Moves, Streams, States,
                                         AllReplied, Replied
<1>4. ASSUME Accept(c) PROVE Service!Open(c)
  <2>1. StateOf(c) = "waiting" /\ StateOf(c)' = "open"
    BY <1>4 DEF Accept, Becomes, Sorts, StateOf
  <2>. QED  BY <1>1, <1>2, <1>4, <2>1 DEF Service!Open, Service!Moves, Streams, States,
                                         AllReplied, Replied
<1>5. ASSUME Drop(c) PROVE Service!Close(c)
  <2>1. StateOf(c) = "waiting" /\ StateOf(c)' = "closed"
    BY <1>5 DEF Drop, Becomes, Sorts, StateOf
  <2>. QED  BY <1>1, <1>5, <2>1, Closes
<1>. QED
  BY <1>3, <1>4, <1>5

LEMMA LeaveRefines ==
  ASSUME Sorts, NEW c \in Client, Shut(c) \/ HangUp(c)
  PROVE  Service!End(c)
<1>1. /\ UNCHANGED <<snapshot, pc, socket, chunk, buf, reply, delivered>>
      /\ ended' = [ended EXCEPT ![c] = TRUE]
      /\ gone' = gone \/ gone' = [gone EXCEPT ![c] = TRUE]
  BY DEF Shut, HangUp, served
<1>2. \A d \in Client : /\ StreamOf(d)' = StreamOf(d)
                        /\ StateOf(d)' = StateOf(d)
                        /\ Replied(d)' = Replied(d)
  BY <1>1 DEF StreamOf, StateOf, Replied, Pending
<1>3. Streams' = Streams /\ States' = States /\ AllReplied' = AllReplied
  BY <1>2 DEF Streams, States, AllReplied
<1>. QED
  BY <1>1, <1>3 DEF Service!End, Streams, States, AllReplied, Replied

LEMMA EndsClose ==
  ASSUME Sorts, Phases, NEW c \in Client, EndOfFile(c) \/ ReadFails(c) \/ WriteFails(c)
  PROVE  Service!Close(c)
<1>1. /\ pc'[c] = "closed"
      /\ UNCHANGED <<snapshot, ended, gone, socket, chunk, buf, reply, delivered>>
      /\ \A d \in Client \ {c} : pc'[d] = pc[d]
  BY DEF EndOfFile, ReadFails, WriteFails, Ends, served, client, Sorts
<1>2. /\ StreamOf(c)' = StreamOf(c) /\ Replied(c)' = Replied(c)
      /\ StateOf(c)' = "closed"
  BY <1>1 DEF StreamOf, Replied, Pending, StateOf
<1>3. \/ StateOf(c) \in {"waiting", "refused"}
      \/ StateOf(c) = "open" /\ ended[c] /\ StreamOf(c) = <<>>
      \/ StateOf(c) = "open" /\ gone[c]
  <2>1. CASE EndOfFile(c)
    BY <2>1, AllOfStream DEF EndOfFile, AtEnd, StateOf
  <2>2. CASE ReadFails(c)
    BY <2>2 DEF ReadFails, StateOf
  <2>3. CASE WriteFails(c)
    BY <2>3 DEF WriteFails, StateOf
  <2>. QED  BY <2>1, <2>2, <2>3
<1>. QED
  BY <1>1, <1>2, <1>3, Closes

LEMMA RefinesStep ==
  ASSUME Seq(Bytes) \subseteq Lines, QueriesRight,
         Sorts, Sorts', Limits, Bounded, Phases, [Next]_vars
  PROVE  [Service!Next]_Service!vars
<1>1. ASSUME NEW r \in Reloader, Prepare(r)
      PROVE  UNCHANGED Service!vars
  BY <1>1, NothingMoves DEF Prepare, loop, client
<1>2. ASSUME NEW r \in Reloader, Store(r)
      PROVE  Service!Next
  BY <1>2, StoreRefines DEF Service!Next
<1>3. ASSUME NEW c \in Client, Connect(c) \/ Accept(c) \/ Drop(c)
      PROVE  Service!Next
  BY <1>3, DoorRefines DEF Service!Next
<1>4. ASSUME NEW c \in Client, Send(c)
      PROVE  Service!Next
  BY <1>4, SendRefines DEF Service!Next
<1>5. ASSUME NEW c \in Client, Shut(c) \/ HangUp(c)
      PROVE  Service!Next
  BY <1>5, LeaveRefines DEF Service!Next
<1>6. ASSUME NEW c \in Client, Take(c)
      PROVE  UNCHANGED Service!vars
  BY <1>6, NothingMoves DEF Take, served, loop
<1>7. CASE AcceptFails \/ BackedOff
  BY <1>7, NothingMoves DEF AcceptFails, BackedOff, served, client
<1>8. ASSUME NEW c \in Client, Fill(c) \/ Keep(c) \/ Write(c)
      PROVE  UNCHANGED Service!vars
  BY <1>8, FillUnseen, KeepUnseen, WriteUnseen
<1>9. ASSUME NEW c \in Client, Line(c) \/ LastLine(c)
      PROVE  Service!Next
  BY <1>9, LineServes, LastLineServes DEF Service!Next
<1>10. ASSUME NEW c \in Client, Refuse(c)
       PROVE  Service!Next
  BY <1>10, RefuseRefines DEF Service!Next
<1>11. ASSUME NEW c \in Client,
              EndOfFile(c) \/ ReadFails(c) \/ WriteFails(c) \/ WriteRefusal(c)
       PROVE  Service!Next
  BY <1>11, EndsClose, WriteRefusalCloses DEF Service!Next
<1>12. CASE UNCHANGED vars
  BY <1>12, NothingMoves DEF vars, served, client
<1>. QED
  BY <1>1, <1>2, <1>3, <1>4, <1>5, <1>6, <1>7, <1>8, <1>9, <1>10, <1>11, <1>12
  DEF Next, Task

(* However the stream of a client is cut when it is read and whatever      *)
(* reload comes between, each line is answered once, in order, over one    *)
(* graph that was served since it arrived; a line that is refused is too   *)
(* long; and an open connection is not closed with a line unanswered       *)
(* unless its client has gone.  Any bytes may be a line; that an answer is *)
(* right for its graph is what the queries promise (QueriesRight).         *)
THEOREM DaemonImplementsService ==
  ASSUME Seq(Bytes) \subseteq Lines, QueriesRight
  PROVE  Spec => ImplementsService
<1>1. Sorts /\ Phases /\ [Next]_vars => Phases'
  BY PhasesStep
<1>2. Spec => [](Sorts /\ Limits /\ Bounded /\ Phases)
  BY BasicsAlways, BoundedInit, BoundedStep, PhasesInit, <1>1, PTL DEF Spec
<1>3. Sorts /\ Sorts' /\ Limits /\ Bounded /\ Phases /\ [Next]_vars
        => [Service!Next]_Service!vars
  BY RefinesStep
<1>. QED
  BY <1>2, <1>3, RefinesInit, PTL DEF Spec, ImplementsService, Service!Spec
=============================================================================
