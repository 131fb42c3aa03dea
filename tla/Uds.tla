--------------------------------- MODULE Uds ---------------------------------
(***************************************************************************)
(* The warm daemon (crates/habitat-graph-daemon/src/uds.rs): the snapshot  *)
(* of a graph and its index that a reload replaces, the accept loop with   *)
(* its limit on connections, and for each connection a task that reads     *)
(* bounded lines, answers them over the snapshot and writes the replies.   *)
(*                                                                         *)
(* Between two awaits a task runs alone, so an action goes from one await  *)
(* (fill_buf, write_all, accept, sleep) to the next.  Only the snapshot is *)
(* shared; it is loaded once for each request.  The kernel, the socket's   *)
(* buffers and the clients are the environment.                            *)
(***************************************************************************)
EXTENDS Answers

CONSTANTS
  Client,          \* those who connect
  Reloader,        \* those who call reload
  Start, Later,    \* names of graphs: those first served, those of reloads
  Built,           \* Built[g]: the graph that was built
  Messages,        \* Messages[c]: what c may send at once, bytes
  MaxSends,        \* MaxSends[c]: how often
  Lines,           \* the lines that can be read from it
  Reader,          \* the clients that read their replies
  Leaver,          \* the clients that may close their socket
  Needles,         \* what WarmState::find is asked
  NL, CR, SP,      \* bytes: newline, carriage return, space
  MAX_LINE_BYTES, MAX_CONNECTIONS,
  CHUNK,           \* most bytes a fill of the BufReader brings
  ROOM,            \* replies the kernel holds for a client that does not read
  MaxReloads, MaxFaults

ASSUME MaxLineAssumption == MAX_LINE_BYTES \in Nat \ {0}
ASSUME MaxConnectionsAssumption == MAX_CONNECTIONS \in Nat \ {0}
ASSUME ChunkAssumption == CHUNK \in Nat \ {0}

IsSequence(s) == s \in Seq(ToSet(s))
ASSUME MessagesAssumption == \A c \in Client : \A m \in Messages[c] : IsSequence(m)

VARIABLES
  snapshot,   \* WarmState.snapshot: [graph, index], by the graph's name
  prepared,   \* prepared[r]: the graphs r has indexed and not stored
  reloads,    \* how many reloads began
  accepting,  \* the accept loop: "accept" or "sleep"
  faults,     \* failed accepts
  permits,    \* permits left in the limiter
  pc,         \* pc[c]: away, waiting, reading, writing, refusing or closed
  socket,     \* socket[c]: bytes on the way to the daemon
  sends,      \* how often c sent
  ended,      \* c has shut its sending half
  gone,       \* c has closed the socket
  chunk,      \* chunk[c]: the BufReader's unread bytes
  buf,        \* buf[c]: read_bounded_line's buffer
  reply,      \* reply[c]: the reply being written, or NoReply
  delivered,  \* delivered[c]: replies written
  taken       \* how many of them c has read

served == <<snapshot, prepared, reloads>>
loop == <<accepting, faults, permits>>
client == <<socket, sends, ended, gone, taken>>
vars == <<served, loop, pc, client, chunk, buf, reply, delivered>>

Graph == Start \cup Later

(* Each node of a graph has an id of its own.                              *)
ASSUME BuiltAssumption ==
  \A g \in Graph :
    LET nodes == Built[g].nodes IN
    /\ IsSequence(nodes)
    /\ \A i \in DOMAIN nodes : nodes[i].id \in Nat /\ IsSequence(nodes[i].label)
    /\ \A i, j \in DOMAIN nodes : nodes[i].id = nodes[j].id => i = j
ASSUME NeedlesAssumption == \A needle \in Needles : IsSequence(needle)

(* LINE_TOO_LONG_RESPONSE.                                                 *)
TooLong == Error("null", "PARSE_ERROR")

(* What is served of a graph is its file, loaded, and the index of that.   *)
Loaded == [g \in Graph |-> from_node_link(to_node_link(Built[g]))]
Indexed == [g \in Graph |-> Index(Loaded[g])]

(* WarmState::handle.                                                      *)
Replies == [g \in Graph |-> [line \in Lines |-> handle_jsonrpc(Loaded[g], line)]]

(* WarmState::new, reload: the pair that is published.                     *)
Snapshot(g) == [graph |-> g, index |-> g]

Init ==
  /\ \E g \in Start : snapshot = Snapshot(g)
  /\ prepared = [r \in Reloader |-> {}]
  /\ reloads = 0
  /\ accepting = "accept" /\ faults = 0
  /\ permits = MAX_CONNECTIONS
  /\ pc = [c \in Client |-> "away"]
  /\ socket = [c \in Client |-> <<>>]
  /\ sends = [c \in Client |-> 0]
  /\ ended = [c \in Client |-> FALSE]
  /\ gone = [c \in Client |-> FALSE]
  /\ chunk = [c \in Client |-> <<>>]
  /\ buf = [c \in Client |-> <<>>]
  /\ reply = [c \in Client |-> NoReply]
  /\ delivered = [c \in Client |-> <<>>]
  /\ taken = [c \in Client |-> 0]
-----------------------------------------------------------------------------
(***************************************************************************)
(* reload: the index is built, then the pair is stored at once.            *)
(***************************************************************************)
Prepare(r) ==
  /\ prepared[r] = {} /\ reloads < MaxReloads
  /\ \E g \in Later : prepared' = [prepared EXCEPT ![r] = {g}]
  /\ reloads' = reloads + 1
  /\ UNCHANGED <<snapshot, loop, pc, client, chunk, buf, reply, delivered>>

(* Mutant of Store: the index is left for a second store.                  *)
StoreGraphOnly(r) ==
  /\ \E g \in prepared[r] : snapshot' = [snapshot EXCEPT !.graph = g]
  /\ prepared' = [prepared EXCEPT ![r] = {}]
  /\ UNCHANGED <<reloads, loop, pc, client, chunk, buf, reply, delivered>>

Store(r) ==
  /\ \E g \in prepared[r] : snapshot' = Snapshot(g)
  /\ prepared' = [prepared EXCEPT ![r] = {}]
  /\ UNCHANGED <<reloads, loop, pc, client, chunk, buf, reply, delivered>>

(* WarmState::find.                                                        *)
WarmFind(needle) == Find(Indexed[snapshot.index], needle)
-----------------------------------------------------------------------------
(***************************************************************************)
(* serve_uds: the accept loop.                                             *)
(***************************************************************************)
Becomes(c, from, to) == pc[c] = from /\ pc' = [pc EXCEPT ![c] = to]

(* Mutant of Accept: the permit is released at once.                       *)
AcceptReleasing(c) ==
  /\ accepting = "accept" /\ permits > 0
  /\ Becomes(c, "waiting", "reading")
  /\ UNCHANGED <<served, loop, client, chunk, buf, reply, delivered>>

Accept(c) ==
  /\ accepting = "accept" /\ permits > 0
  /\ Becomes(c, "waiting", "reading")
  /\ permits' = permits - 1
  /\ UNCHANGED <<served, accepting, faults, client, chunk, buf, reply, delivered>>

(* Mutant of Drop: a permit that was not taken is released.                *)
DropReleasing(c) ==
  /\ accepting = "accept" /\ permits = 0
  /\ Becomes(c, "waiting", "closed")
  /\ permits' = permits + 1
  /\ UNCHANGED <<served, accepting, faults, client, chunk, buf, reply, delivered>>

(* At capacity the connection is dropped.                                  *)
Drop(c) ==
  /\ accepting = "accept" /\ permits = 0
  /\ Becomes(c, "waiting", "closed")
  /\ UNCHANGED <<served, loop, client, chunk, buf, reply, delivered>>

(* Mutant of AcceptFails: the loop ends.                                   *)
AcceptFailsForGood ==
  /\ accepting = "accept" /\ faults < MaxFaults
  /\ \E c \in Client : pc[c] = "waiting"
  /\ accepting' = "ended"
  /\ faults' = faults + 1
  /\ UNCHANGED <<served, permits, pc, client, chunk, buf, reply, delivered>>

(* The listener is ready: somebody waits.                                  *)
AcceptFails ==
  /\ accepting = "accept" /\ faults < MaxFaults
  /\ \E c \in Client : pc[c] = "waiting"
  /\ accepting' = "sleep"
  /\ faults' = faults + 1
  /\ UNCHANGED <<served, permits, pc, client, chunk, buf, reply, delivered>>

BackedOff ==
  /\ accepting = "sleep"
  /\ accepting' = "accept"
  /\ UNCHANGED <<served, faults, permits, pc, client, chunk, buf, reply, delivered>>
-----------------------------------------------------------------------------
(***************************************************************************)
(* handle_conn and read_bounded_line.                                      *)
(***************************************************************************)
(* Mutant of Fill: it waits for a full buffer.                             *)
FillFull(c) ==
  /\ pc[c] = "reading" /\ chunk[c] = <<>>
  /\ Len(socket[c]) >= CHUNK
  /\ chunk' = [chunk EXCEPT ![c] = SubSeq(socket[c], 1, CHUNK)]
  /\ socket' = [socket EXCEPT ![c] = SubSeq(@, CHUNK + 1, Len(@))]
  /\ UNCHANGED <<served, loop, pc, sends, ended, gone, taken, buf, reply,
                 delivered>>

(* fill_buf, when the BufReader has nothing: the socket is read.           *)
Fill(c) ==
  /\ pc[c] = "reading" /\ chunk[c] = <<>>
  /\ \E n \in 1..Len(socket[c]) :
       /\ n <= CHUNK
       /\ chunk' = [chunk EXCEPT ![c] = SubSeq(socket[c], 1, n)]
       /\ socket' = [socket EXCEPT ![c] = SubSeq(@, n + 1, Len(@))]
  /\ UNCHANGED <<served, loop, pc, sends, ended, gone, taken, buf, reply,
                 delivered>>

Newlines(s) == {i \in DOMAIN s : s[i] = NL}
NewlineIn(s) == CHOOSE i \in Newlines(s) : \A j \in Newlines(s) : i <= j
WithoutCR(s) == IF s # <<>> /\ Last(s) = CR THEN Front(s) ELSE s

(* Mutant of TooMuch: the chunk is not counted.                            *)
TooMuchLate(c) == Newlines(chunk[c]) = {} /\ Len(buf[c]) > MAX_LINE_BYTES

(* The cap, which a chunk with a newline does not meet.                    *)
TooMuch(c) ==
  Newlines(chunk[c]) = {} /\ Len(buf[c]) + Len(chunk[c]) > MAX_LINE_BYTES

Keep(c) ==
  /\ pc[c] = "reading" /\ chunk[c] # <<>>
  /\ Newlines(chunk[c]) = {} /\ ~TooMuch(c)
  /\ buf' = [buf EXCEPT ![c] = @ \o chunk[c]]
  /\ chunk' = [chunk EXCEPT ![c] = <<>>]
  /\ UNCHANGED <<served, loop, pc, client, reply, delivered>>

(* The loop of handle_conn, given a line: a blank one and a notification   *)
(* are passed over, the answer to another is to be written.                *)
Handle(c, line) ==
  LET answer == IF ToSet(line) \subseteq {SP, CR} THEN NoReply
                ELSE Replies[snapshot.graph][line]
  IN  /\ reply' = [reply EXCEPT ![c] = answer]
      /\ pc' = [pc EXCEPT ![c] = IF answer = NoReply THEN @ ELSE "writing"]
      /\ buf' = [buf EXCEPT ![c] = <<>>]

(* Mutant of Line: what follows the newline in the chunk is lost.          *)
LineAlone(c) ==
  /\ pc[c] = "reading" /\ Newlines(chunk[c]) # {}
  /\ LET n == NewlineIn(chunk[c])
     IN  /\ Handle(c, WithoutCR(buf[c] \o SubSeq(chunk[c], 1, n - 1)))
         /\ chunk' = [chunk EXCEPT ![c] = <<>>]
  /\ UNCHANGED <<served, loop, client, delivered>>

Line(c) ==
  /\ pc[c] = "reading" /\ Newlines(chunk[c]) # {}
  /\ LET n == NewlineIn(chunk[c])
     IN  /\ Handle(c, WithoutCR(buf[c] \o SubSeq(chunk[c], 1, n - 1)))
         /\ chunk' = [chunk EXCEPT ![c] = SubSeq(@, n + 1, Len(@))]
  /\ UNCHANGED <<served, loop, client, delivered>>

AtEnd(c) == chunk[c] = <<>> /\ socket[c] = <<>> /\ ended[c]

(* The stream ends: what is there is a line.                               *)
LastLine(c) ==
  /\ pc[c] = "reading" /\ AtEnd(c) /\ buf[c] # <<>>
  /\ Handle(c, buf[c])
  /\ UNCHANGED <<served, loop, client, chunk, delivered>>

Refuse(c) ==
  /\ Becomes(c, "reading", "refusing")
  /\ chunk[c] # <<>> /\ TooMuch(c)
  /\ reply' = [reply EXCEPT ![c] = TooLong]
  /\ UNCHANGED <<served, loop, client, chunk, buf, delivered>>

(* The task ends and its permit is released with it.                       *)
Ends(c) ==
  /\ pc' = [pc EXCEPT ![c] = "closed"]
  /\ permits' = permits + 1
  /\ UNCHANGED <<served, accepting, faults, client, chunk, buf>>

(* Mutant of EndOfFile: the loop goes on.                                  *)
EndOfFileIgnored(c) ==
  /\ pc[c] = "reading" /\ AtEnd(c) /\ buf[c] = <<>>
  /\ UNCHANGED vars

EndOfFile(c) ==
  /\ pc[c] = "reading" /\ AtEnd(c) /\ buf[c] = <<>>
  /\ Ends(c)
  /\ UNCHANGED <<reply, delivered>>

ReadFails(c) ==
  /\ pc[c] = "reading" /\ gone[c] /\ chunk[c] = <<>>
  /\ Ends(c)
  /\ UNCHANGED <<reply, delivered>>

HasRoom(c) == Len(delivered[c]) - taken[c] < ROOM
Written(c) == delivered' = [delivered EXCEPT ![c] = Append(@, reply[c])]

Write(c) ==
  /\ Becomes(c, "writing", "reading")
  /\ ~gone[c] /\ HasRoom(c)
  /\ Written(c)
  /\ reply' = [reply EXCEPT ![c] = NoReply]
  /\ UNCHANGED <<served, loop, client, chunk, buf>>

(* The client has gone; the reply is lost.                                 *)
WriteFails(c) ==
  /\ pc[c] \in {"writing", "refusing"} /\ gone[c]
  /\ Ends(c)
  /\ UNCHANGED <<reply, delivered>>

WriteRefusal(c) ==
  /\ pc[c] = "refusing" /\ ~gone[c] /\ HasRoom(c)
  /\ Written(c)
  /\ reply' = [reply EXCEPT ![c] = NoReply]
  /\ Ends(c)
-----------------------------------------------------------------------------
(***************************************************************************)
(* The clients.                                                            *)
(***************************************************************************)
Present(c) == pc[c] \notin {"away", "closed"} /\ ~gone[c]

Connect(c) ==
  /\ Becomes(c, "away", "waiting")
  /\ UNCHANGED <<served, loop, client, chunk, buf, reply, delivered>>

Send(c) ==
  /\ Present(c) /\ ~ended[c] /\ sends[c] < MaxSends[c]
  /\ \E m \in Messages[c] : socket' = [socket EXCEPT ![c] = @ \o m]
  /\ sends' = [sends EXCEPT ![c] = @ + 1]
  /\ UNCHANGED <<served, loop, pc, ended, gone, taken, chunk, buf, reply,
                 delivered>>

(* The sending half is shut, or the whole socket closed.                   *)
Shut(c) ==
  /\ Present(c) /\ ~ended[c]
  /\ ended' = [ended EXCEPT ![c] = TRUE]
  /\ UNCHANGED <<served, loop, pc, socket, sends, gone, taken, chunk, buf,
                 reply, delivered>>

HangUp(c) ==
  /\ Present(c) /\ c \in Leaver
  /\ ended' = [ended EXCEPT ![c] = TRUE]
  /\ gone' = [gone EXCEPT ![c] = TRUE]
  /\ UNCHANGED <<served, loop, pc, socket, sends, taken, chunk, buf, reply,
                 delivered>>

Take(c) ==
  /\ c \in Reader /\ ~gone[c]
  /\ taken[c] < Len(delivered[c])
  /\ taken' = [taken EXCEPT ![c] = @ + 1]
  /\ UNCHANGED <<served, loop, pc, socket, sends, ended, gone, chunk, buf,
                 reply, delivered>>
-----------------------------------------------------------------------------
Task(c) ==
  \/ Fill(c) \/ Keep(c) \/ Line(c) \/ LastLine(c) \/ Refuse(c)
  \/ EndOfFile(c) \/ ReadFails(c) \/ Write(c) \/ WriteFails(c) \/ WriteRefusal(c)

Next ==
  \/ \E r \in Reloader : Prepare(r) \/ Store(r)
  \/ \E c \in Client : \/ Accept(c) \/ Drop(c) \/ Task(c)
                       \/ Connect(c) \/ Send(c) \/ Shut(c) \/ HangUp(c) \/ Take(c)
  \/ AcceptFails \/ BackedOff

Spec == Init /\ [][Next]_vars

(* The runtime runs the loop and the tasks; readers read what they get.    *)
FairSpec ==
  /\ Spec
  /\ WF_vars(BackedOff)
  /\ \A c \in Client : WF_vars(Accept(c) \/ Drop(c)) /\ WF_vars(Task(c))
  /\ \A c \in Reader : WF_vars(Take(c))
-----------------------------------------------------------------------------
(***************************************************************************)
(* Properties.                                                             *)
(***************************************************************************)
PCs == {"away", "waiting", "reading", "writing", "refusing", "closed"}
Bytes == UNION {ToSet(m) : m \in UNION {Messages[c] : c \in Client}}

TypeOK ==
  /\ snapshot \in [graph : Graph, index : Graph]
  /\ prepared \in [Reloader -> SUBSET Later]
  /\ accepting \in {"accept", "sleep"}
  /\ permits \in 0..MAX_CONNECTIONS
  /\ pc \in [Client -> PCs]
  /\ \A c \in Client : /\ socket[c] \in Seq(Bytes)
                       /\ chunk[c] \in Seq(Bytes) /\ Len(chunk[c]) <= CHUNK
                       /\ buf[c] \in Seq(Bytes)
                       /\ taken[c] \in 0..Len(delivered[c])
  /\ ended \in [Client -> BOOLEAN] /\ gone \in [Client -> BOOLEAN]

(* A permit for each task that runs, and no task without one.              *)
Served == {c \in Client : pc[c] \in {"reading", "writing", "refusing"}}
PermitsAccounted == permits + Cardinality(Served) = MAX_CONNECTIONS

(* However the stream is cut, no more than the cap is kept between reads.  *)
Bounded == \A c \in Client : Len(buf[c]) <= MAX_LINE_BYTES

(* find, over the warm index, is what a scan of the graph built gives.     *)
WarmFindRight ==
  \A needle \in Needles :
    LET matching == Matches(Built[snapshot.graph], needle)
    IN  ToSet(WarmFind(needle)) = matching /\ Smallest(WarmFind(needle), matching)

(* The daemon keeps the promise of LineService.                            *)
StateOf(c) ==
  CASE pc[c] \in {"reading", "writing"} -> "open"
    [] pc[c] = "refusing" -> "refused"
    [] OTHER -> pc[c]
StreamOf(c) == buf[c] \o chunk[c] \o socket[c]
Pending(c) == IF reply[c] = NoReply THEN <<>> ELSE <<reply[c]>>

RightOver(g, line, answer) == Right(Built[g], line, answer)

(* What the daemon takes from the serve crate: whatever the line asks, its *)
(* answer over the loaded graph is right for the graph that was built.     *)
QueriesRight ==
  \A g \in Graph, line \in Lines : RightOver(g, line, handle_jsonrpc(Loaded[g], line))

Service == INSTANCE LineService WITH
  Blank <- {SP, CR},
  Right <- RightOver,
  graph <- snapshot.graph,
  stream <- [c \in Client |-> StreamOf(c)],
  state <- [c \in Client |-> StateOf(c)],
  answers <- [c \in Client |-> delivered[c] \o Pending(c)]

ImplementsService == Service!Spec

(* A client that reads its replies gets every line answered, or is closed. *)
Answered ==
  \A c \in Reader :
    c \in Served /\ Newlines(StreamOf(c)) # {}
      ~> Newlines(StreamOf(c)) = {} \/ pc[c] = "closed"

(* Whoever reads and stops sending, or hangs up, gives its permit back.    *)
PermitsReturn ==
  \A c \in Client :
    c \in Served /\ ended[c] /\ (c \in Reader \/ gone[c]) ~> c \notin Served

(* Nobody is left waiting at the door.                                     *)
LetInOrDropped == \A c \in Client : pc[c] = "waiting" ~> pc[c] # "waiting"
=============================================================================
