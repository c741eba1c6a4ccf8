------------------------- MODULE CoordinatorProofs -------------------------
(***************************************************************************)
(* What Coordinator guarantees for any number of connections, workers and  *)
(* starts.  The safety of the sessions rests on one inductive invariant:   *)
(* besides the types, that the accept loop has a connection in its hands   *)
(* exactly in three of its states, that it is gone whenever stop() copies  *)
(* the channels, and that the room it found for a session is still there.  *)
(***************************************************************************)
EXTENDS Coordinator, FiniteSetTheorems, TLAPS

LoopHolds == (held # NoConnection) = (acceptor \in {"accepted", "admitting", "registering"})

LoopOver == owner \in {"down", "bound", "interrupting"} => acceptor = "none"

RoomKept == acceptor = "registering" => active < MaxWorkers

NoneWhenDown == owner \in {"down", "bound"} => InSession = {}

IInv == /\ TypeOK /\ LoopHolds /\ LoopOver
        /\ SessionsAccounted /\ RoomKept /\ NoneWhenDown

-----------------------------------------------------------------------------
(* The records of the model are of their types.                            *)
LEMMA Records ==
    /\ Nobody \in Authority /\ NoFrame \in Frame
    /\ Free \in Connection /\ Unknown \in WorkerRecord
<1>1. Nobody \in Authority
  BY CoordinatorAssumption DEF Nobody, Authority
<1>2. NoFrame \in Frame
  BY <1>1 DEF NoFrame, Frame, Kinds
<1>3. Free \in Connection
  BY <1>2 DEF Free, Connection, Phases
<1> QED
  BY <1>1, <1>2, <1>3 DEF Unknown, WorkerRecord

(* Moving a session on, and reading its frame, keep it a session.          *)
LEMMA SessionMoves ==
    ASSUME NEW s \in Connection
    PROVE  /\ \A p \in Phases : LET moved == [s EXCEPT !.phase = p]
                                IN  moved \in Connection /\ moved.phase = p
           /\ \A f \in Frame : LET read == [s EXCEPT !.inbox = f]
                               IN  read \in Connection /\ read.phase = s.phase
           /\ \A b \in BOOLEAN : /\ ToFinish(s, b) \in Connection
                                 /\ ToFinish(s, b).phase = "finish"
<1>1. \A p \in Phases : LET moved == [s EXCEPT !.phase = p]
                        IN  moved \in Connection /\ moved.phase = p
  BY DEF Connection
<1>2. \A f \in Frame : LET read == [s EXCEPT !.inbox = f]
                       IN  read \in Connection /\ read.phase = s.phase
  BY DEF Connection
<1>3. \A b \in BOOLEAN : /\ ToFinish(s, b) \in Connection
                         /\ ToFinish(s, b).phase = "finish"
  BY DEF Connection, ToFinish, Phases, Sessions
<1> QED
  BY <1>1, <1>2, <1>3

-----------------------------------------------------------------------------
(* The shape of the steps.                                                 *)

(* A step of a session or of its peer, other than its last one.            *)
Converses(c) ==
    \/ Claim(c) \/ Refuse(c) \/ NotAHello(c) \/ SendAck(c)
    \/ CheckRunning(c) \/ HandleWork(c) \/ HandleOther(c) \/ SendReply(c)
    \/ SendNotice(c) \/ IoFails(c) \/ Finish(c) \/ Send(c) \/ Disconnect(c)

(* Whatever a peer sends is a frame.                                       *)
LEMMA FramesSent ==
    ASSUME TypeOK PROVE Greetings \cup Messages \subseteq Frame
<1>1. Known \subseteq Authority /\ Nobody \in Authority
  BY Records DEF TypeOK, Known, Authority
<1> QED
  BY <1>1 DEF Greetings, Messages, Frame, Kinds

(* A converse leaves the threads and the registry alone and is still in    *)
(* session afterwards.                                                     *)
LEMMA SessionShape ==
    ASSUME TypeOK, NEW c \in Connections, Converses(c)
    PROVE  /\ UNCHANGED << owned, accepting, registry, authority >>
           /\ conn[c].phase \in Sessions
           /\ \E s \in Connection : s.phase \in Sessions /\ conn' = [conn EXCEPT ![c] = s]
           /\ workers' \in [Workers -> WorkerRecord]
           /\ granted' \subseteq Authority /\ inherited' \in BOOLEAN
<1>0. /\ conn[c] \in Connection /\ conn \in [Connections -> Connection]
      /\ workers \in [Workers -> WorkerRecord]
      /\ granted \subseteq Authority /\ inherited \in BOOLEAN
  BY DEF TypeOK
<1> DEFINE Shape(s) == s \in Connection /\ s.phase \in Sessions /\ conn' = [conn EXCEPT ![c] = s]
<1>1. CASE Claim(c)
  <2> DEFINE f == conn[c].inbox
             p == [conn[c] EXCEPT !.phase = "ack", !.worker = f.worker]
             s == [p EXCEPT !.inbox = NoFrame]
             r == [known |-> TRUE, connected |-> TRUE, fenced |-> FALSE, by |-> c]
  <2>1. f \in Frame /\ f.worker \in Workers \cup {NoWorker}
    BY <1>0 DEF Connection, Frame
  <2>2. Shape(s)
    <3>1. p \in Connection /\ p.phase = "ack"
      BY <1>0, <2>1 DEF Connection, Phases, Sessions
    <3>2. conn' = [conn EXCEPT ![c] = s]
      BY <1>1 DEF Claim, Reads
    <3> HIDE DEF p
    <3> QED
      BY <3>1, <3>2, Records, SessionMoves DEF Sessions
  <2>3. r \in WorkerRecord /\ workers' = [workers EXCEPT ![f.worker] = r]
    BY <1>1 DEF Claim, WorkerRecord
  <2>4. workers' \in [Workers -> WorkerRecord]
    BY <1>0, <2>3
  <2>5. /\ conn[c].phase \in Sessions
        /\ UNCHANGED << owned, accepting, registry, authority >>
        /\ granted' \subseteq Authority /\ inherited' \in BOOLEAN
    BY <1>0, <1>1 DEF Claim, Honour, Untouched, Sessions
  <2> QED
    BY <2>2, <2>4, <2>5
<1>a. /\ \A p \in Phases : LET moved == [conn[c] EXCEPT !.phase = p]
                           IN  moved \in Connection /\ moved.phase = p
      /\ \A b \in BOOLEAN : /\ ToFinish(conn[c], b) \in Connection
                            /\ ToFinish(conn[c], b).phase = "finish"
  BY <1>0, SessionMoves
<1>b. \A s \in Connection : /\ [s EXCEPT !.inbox = NoFrame] \in Connection
                            /\ [s EXCEPT !.inbox = NoFrame].phase = s.phase
  BY Records, SessionMoves
<1>c. Sessions = {"hello", "ack", "finish", "retire", "loop", "receive", "reply",
                    "notice"}
      /\ Sessions \subseteq Phases
  BY DEF Sessions, Serving, Phases
<1>2. CASE \/ Refuse(c) \/ NotAHello(c) \/ CheckRunning(c) \/ HandleOther(c)
           \/ SendNotice(c) \/ IoFails(c)
  <2>1. \E s : Shape(s)
    <3>1. CASE Refuse(c)
      BY <3>1, <1>a, <1>b, <1>c, ZenonT(30) DEF Refuse, Reads
    <3>2. CASE NotAHello(c) \/ HandleOther(c)
      <4> DEFINE notice == [conn[c] EXCEPT !.phase = "notice"]
      <4>1. \/ \E b \in BOOLEAN : Reads(c, ToFinish(conn[c], b))
            \/ Reads(c, notice)
        BY <3>2 DEF NotAHello, HandleOther
      <4>2. notice \in Connection /\ notice.phase \in Sessions
        BY <1>a, <1>c
      <4> HIDE DEF notice
      <4>3. PICK s \in Connection : s.phase \in Sessions /\ Reads(c, s)
        BY <4>1, <4>2, <1>a, <1>c
      <4>5. conn' = [conn EXCEPT ![c] = [s EXCEPT !.inbox = NoFrame]]
        BY <4>3 DEF Reads
      <4>4. Shape([s EXCEPT !.inbox = NoFrame])
        BY <4>3, <4>5, <1>b, <1>c
      <4> QED
        BY <4>4
    <3>3. CASE CheckRunning(c) \/ SendNotice(c) \/ IoFails(c)
      <4>1. PICK s \in {[conn[c] EXCEPT !.phase = "receive"], ToFinish(conn[c], FALSE)} :
                conn' = [conn EXCEPT ![c] = s]
        BY <3>3 DEF CheckRunning, SendNotice, IoFails
      <4>2. Shape(s)
        BY <4>1, <1>a, <1>c
      <4> QED
        BY <4>2
    <3> QED
      BY <1>2, <3>1, <3>2, <3>3
  <2>2. /\ conn[c].phase \in Sessions
        /\ UNCHANGED << owned, accepting, registry, authority, workers, given >>
    BY <1>2 DEF Refuse, NotAHello, CheckRunning, HandleOther, SendNotice, IoFails, Untouched,
                Sessions, Serving
  <2> QED
    BY <1>0, <2>1, <2>2 DEF given
<1>3. CASE SendAck(c)
  <2>1. \E s : Shape(s)
    <3>1. PICK s \in {[conn[c] EXCEPT !.phase = "loop"], ToFinish(conn[c], FALSE)} :
              conn' = [conn EXCEPT ![c] = s]
      BY <1>3 DEF SendAck, Moves
    <3>2. Shape(s)
      BY <3>1, <1>a, <1>c
    <3> QED
      BY <3>2
  <2>2. /\ conn[c].phase \in Sessions
        /\ UNCHANGED << owned, accepting, registry, authority, workers, inherited >>
        /\ granted' \in {granted, granted \cup {[epoch |-> epoch, life |-> life]}}
    BY <1>3 DEF SendAck, given, Untouched, Sessions
  <2>3. [epoch |-> epoch, life |-> life] \in Authority
    BY DEF TypeOK, Authority
  <2> QED
    BY <1>0, <2>1, <2>2, <2>3
<1>4. CASE HandleWork(c)
  <2>1. \E s : Shape(s)
    BY <1>4, <1>a, <1>b, <1>c, ZenonT(30) DEF HandleWork, Reads
  <2>2. /\ conn[c].phase \in Sessions
        /\ UNCHANGED << owned, accepting, registry, authority, workers, granted >>
        /\ inherited' \in BOOLEAN
    BY <1>0, <1>4 DEF HandleWork, Honour, Untouched, Sessions, Serving
  <2> QED
    BY <1>0, <2>1, <2>2
<1>5. CASE SendReply(c) \/ Disconnect(c)
  <2>1. \E s : Shape(s)
    <3>1. CASE SendReply(c)
      BY <3>1, <1>a, <1>c DEF SendReply, Moves
    <3>2. CASE Disconnect(c)
      <4>1. LET s == [conn[c] EXCEPT !.peer = FALSE]
            IN  s \in Connection /\ s.phase = conn[c].phase
        BY <1>0 DEF Connection
      <4> QED
        BY <3>2, <4>1 DEF Disconnect
    <3> QED
      BY <1>5, <3>1, <3>2
  <2>2. /\ conn[c].phase \in Sessions
        /\ UNCHANGED << owned, accepting, registry, authority, workers, given >>
    BY <1>5 DEF SendReply, Disconnect, Moves, Untouched, Sessions, Serving
  <2> QED
    BY <1>0, <2>1, <2>2 DEF given
<1>6. CASE Finish(c)
  <2> DEFINE s == conn'[c]
             w == conn[c].worker
  <2>1. Shape(s)
    BY <1>0, <1>6, Records DEF Finish, Connection, Phases, Sessions, Serving
  <2>2. /\ conn[c].phase \in Sessions
        /\ UNCHANGED << owned, accepting, registry, authority, given >>
    BY <1>6 DEF Finish, Untouched, Sessions
  <2>3. workers' \in [Workers -> WorkerRecord]
    <3>1. conn[c].graceful \in BOOLEAN /\ w \in Workers \cup {NoWorker}
      BY <1>0 DEF Connection
    <3>2. CASE w \in Workers
      <4>1. [workers[w] EXCEPT !.connected = FALSE, !.fenced = ~conn[c].graceful] \in WorkerRecord
        BY <1>0, <3>1, <3>2 DEF WorkerRecord
      <4>2. workers' = [workers EXCEPT ![w] =
                [workers[w] EXCEPT !.connected = FALSE, !.fenced = ~conn[c].graceful]]
        BY <1>0, <1>6, <3>2, CoordinatorAssumption DEF Finish
      <4> QED
        BY <1>0, <4>1, <4>2
    <3> QED
      BY <1>0, <1>6, <3>1, <3>2 DEF Finish
  <2> QED
    BY <1>0, <2>1, <2>2, <2>3 DEF given
<1>7. CASE Send(c)
  <2>1. PICK f \in Frame : conn' = [conn EXCEPT ![c].inbox = f]
    BY <1>7, FramesSent DEF Send
  <2> DEFINE s == [conn[c] EXCEPT !.inbox = f]
  <2>2. Shape(s)
    BY <1>0, <1>7, <2>1 DEF Send, Connection, Phases, Sessions, Serving
  <2>3. /\ conn[c].phase \in Sessions
        /\ UNCHANGED << owned, accepting, registry, authority, workers, given >>
    BY <1>7 DEF Send, Sessions, Serving
  <2> QED
    BY <1>0, <2>2, <2>3 DEF given
<1> QED
  BY <1>1, <1>2, <1>3, <1>4, <1>5, <1>6, <1>7 DEF Converses

-----------------------------------------------------------------------------
(* The invariant.                                                          *)

(* The parts of IInv that do not mention a connection.                     *)
Plain ==
    /\ owner \in {"down", "bound", "up", "stopping", "joining", "interrupting"}
    /\ running \in BOOLEAN /\ listening \in BOOLEAN /\ toCut \subseteq Connections
    /\ epoch \in 0 .. MaxEpoch /\ durable \in 0 .. MaxEpoch /\ life \in 0 .. MaxLives
    /\ unwritten \in BOOLEAN

(* The sessions and those who count them.                                  *)
Counted ==
    /\ active \in Nat /\ channels \subseteq Connections
    /\ SessionsAccounted /\ RoomKept /\ NoneWhenDown

(* The accept loop and what it holds.                                      *)
Looped ==
    /\ acceptor \in {"none", "loop", "accept", "accepted", "admitting", "registering", "ended"}
    /\ held \in Connections \cup {NoConnection}
    /\ \A c \in Connections : (held = c) = (conn[c].phase = "held")
    /\ LoopHolds /\ LoopOver

Typed ==
    /\ conn \in [Connections -> Connection]
    /\ workers \in [Workers -> WorkerRecord]
    /\ granted \subseteq Authority /\ inherited \in BOOLEAN

LEMMA InvariantParts == IInv <=> Plain /\ Counted /\ Looped /\ Typed
BY DEF IInv, TypeOK, Plain, Counted, Looped, Typed

LEMMA InvariantPartsNext == IInv' <=> Plain' /\ Counted' /\ Looped' /\ Typed'
BY DEF IInv, TypeOK, Plain, Counted, Looped, Typed

LEMMA InitInvariant == Init => IInv
<1> SUFFICES ASSUME Init PROVE IInv
  OBVIOUS
<1>1. \A c \in Connections : conn[c].phase = "free"
  BY DEF Init, Free
<1>2. InSession = {}
  BY <1>1 DEF InSession, Sessions, Serving
<1>3. Plain
  <2>1. 0 \in 0 .. MaxEpoch /\ 0 \in 0 .. MaxLives
    BY CoordinatorAssumption
  <2> QED
    BY <2>1, Zenon DEF Init, Plain
<1>4. Counted
  BY <1>2, FS_EmptySet, CoordinatorAssumption
     DEF Init, Counted, SessionsAccounted, RoomKept, NoneWhenDown
<1>5. Looped
  BY <1>1, CoordinatorAssumption DEF Init, Looped, LoopHolds, LoopOver
<1>6. Typed
  BY Records DEF Init, Typed
<1> QED
  BY <1>3, <1>4, <1>5, <1>6, InvariantParts

(* A step that moves no connection into or out of a session leaves the     *)
(* count right.                                                            *)
LEMMA SameSessions ==
    ASSUME IInv, InSession' = InSession, UNCHANGED << active, channels >>,
           acceptor' = "registering" => acceptor = "registering" \/ ~Full,
           owner' \in {"down", "bound"} => InSession = {}
    PROVE  Counted'
<1>1. active \in Nat /\ active <= MaxWorkers /\ MaxWorkers \in Nat
  BY CoordinatorAssumption DEF IInv, TypeOK, SessionsAccounted
<1> QED
  BY <1>1 DEF Counted, IInv, TypeOK, SessionsAccounted, RoomKept, NoneWhenDown, Full

LEMMA ConverseStep ==
    ASSUME IInv, NEW c \in Connections, Converses(c)
    PROVE  IInv'
<1>1. PICK s \in Connection : s.phase \in Sessions /\ conn' = [conn EXCEPT ![c] = s]
  BY SessionShape DEF IInv
<1>2. /\ UNCHANGED << owned, accepting, registry, authority >>
      /\ conn[c].phase \in Sessions /\ conn \in [Connections -> Connection]
      /\ workers' \in [Workers -> WorkerRecord]
      /\ granted' \subseteq Authority /\ inherited' \in BOOLEAN
  BY SessionShape DEF IInv, TypeOK
<1>3. InSession' = InSession
  BY <1>1, <1>2 DEF InSession
<1>4. Plain'
  BY <1>2, InvariantParts DEF Plain, owned, authority
<1>5. Counted'
  BY <1>2, <1>3, SameSessions DEF IInv, NoneWhenDown, owned, accepting, registry
<1>6. Looped'
  <2>1. "held" \notin Sessions
    BY DEF Sessions, Serving
  <2> QED
    BY <1>1, <1>2, <2>1, InvariantParts DEF Looped, LoopHolds, LoopOver, accepting, owned
<1>7. Typed'
  BY <1>1, <1>2 DEF Typed
<1> QED
  BY <1>4, <1>5, <1>6, <1>7, InvariantPartsNext

(* The session thread's last step, and the one with which the accept loop  *)
(* starts a session: the count follows.                                    *)
LEMMA RetireStep ==
    ASSUME IInv, NEW c \in Connections, Retire(c)
    PROVE  IInv'
<1>0. /\ conn \in [Connections -> Connection] /\ conn[c].phase = "retire"
      /\ conn' = [conn EXCEPT ![c].phase = "free"]
      /\ UNCHANGED << owned, accepting, workers, authority, given >>
  BY DEF IInv, TypeOK, Retire, Moves
<1>1. [conn[c] EXCEPT !.phase = "free"] \in Connection
  BY <1>0, SessionMoves DEF Phases
<1>2. c \in InSession /\ InSession' = InSession \ {c}
  BY <1>0 DEF InSession, Sessions, Serving, Connection
<1>3. active \in Nat /\ active = Cardinality(InSession) /\ IsFiniteSet(InSession)
  BY CoordinatorAssumption, FS_Subset DEF IInv, TypeOK, SessionsAccounted, InSession
<1>4. Cardinality(InSession') = active - 1 /\ active > 0
  <2>1. Cardinality(InSession') = Cardinality(InSession) - 1
    BY <1>2, <1>3, FS_RemoveElement
  <2>2. Cardinality(InSession') \in Nat
    BY <1>2, <1>3, FS_RemoveElement, FS_CardinalityType
  <2> QED
    BY <1>3, <2>1, <2>2
<1>5. active' = active - 1 /\ channels' = channels \ {c}
  BY <1>4 DEF Retire
<1>6. Plain'
  BY <1>0, InvariantParts DEF Plain, owned, authority
<1>7. Counted'
  <2>1. /\ MaxWorkers \in Nat /\ active <= MaxWorkers
        /\ channels = InSession /\ InSession \subseteq Connections
    BY CoordinatorAssumption DEF IInv, TypeOK, SessionsAccounted, InSession
  <2>2. SessionsAccounted' /\ active' \in Nat /\ channels' \subseteq Connections
    BY <1>2, <1>3, <1>4, <1>5, <2>1 DEF SessionsAccounted
  <2>3. RoomKept'
    BY <1>0, <1>3, <1>5, <2>1 DEF IInv, RoomKept, accepting
  <2>4. NoneWhenDown'
    BY <1>0, <1>2 DEF IInv, NoneWhenDown, owned
  <2> QED
    BY <2>2, <2>3, <2>4 DEF Counted
<1>8. Looped'
  BY <1>0, InvariantParts DEF Looped, LoopHolds, LoopOver, accepting, owned, Connection
<1>9. Typed'
  BY <1>0, <1>1, InvariantParts DEF Typed, given
<1> QED
  BY <1>6, <1>7, <1>8, <1>9, InvariantPartsNext

LEMMA RegisterStep ==
    ASSUME IInv, Register
    PROVE  IInv'
<1>0. /\ conn \in [Connections -> Connection] /\ held \in Connections
      /\ conn[held].phase = "held"
      /\ \A c \in Connections : (held = c) = (conn[c].phase = "held")
      /\ acceptor = "registering" /\ acceptor' = "loop" /\ held' = NoConnection
      /\ conn' = [conn EXCEPT ![held].phase = "hello"]
      /\ active' = active + 1 /\ channels' = channels \cup {held}
      /\ UNCHANGED << owned, workers, authority, given >>
  BY DEF IInv, TypeOK, LoopHolds, Register
<1>1. [conn[held] EXCEPT !.phase = "hello"] \in Connection
  BY <1>0, SessionMoves DEF Phases, Sessions
<1>2. held \notin InSession /\ InSession' = InSession \cup {held}
  BY <1>0 DEF InSession, Sessions, Serving, Connection
<1>3. active \in Nat /\ active = Cardinality(InSession) /\ IsFiniteSet(InSession)
  BY CoordinatorAssumption, FS_Subset DEF IInv, TypeOK, SessionsAccounted, InSession
<1>4. Cardinality(InSession') = active + 1
  BY <1>2, <1>3, FS_AddElement
<1>5. Plain'
  BY <1>0, InvariantParts DEF Plain, owned, authority
<1>6. owner \notin {"down", "bound", "interrupting"}
  BY <1>0 DEF IInv, LoopOver
<1>7. Counted'
  <2>1. /\ MaxWorkers \in Nat /\ active < MaxWorkers
        /\ channels = InSession /\ InSession \subseteq Connections
    BY <1>0, CoordinatorAssumption DEF IInv, RoomKept, SessionsAccounted, InSession
  <2>2. SessionsAccounted' /\ active' \in Nat /\ channels' \subseteq Connections
    BY <1>0, <1>2, <1>3, <1>4, <2>1 DEF SessionsAccounted
  <2> QED
    BY <1>0, <1>6, <2>2 DEF Counted, RoomKept, NoneWhenDown, owned
<1>8. Looped'
  BY <1>0, <1>6, CoordinatorAssumption DEF Looped, LoopHolds, LoopOver, owned, Connection
<1>9. Typed'
  BY <1>0, <1>1, InvariantParts DEF Typed, given
<1> QED
  BY <1>5, <1>7, <1>8, <1>9, InvariantPartsNext

(* The accept loop between two connections, or deciding about one.         *)
LEMMA LoopStep ==
    ASSUME IInv, \/ EndLoop \/ BeginAccept \/ AcceptInterrupted \/ AcceptFails
                 \/ Recheck \/ Admit
    PROVE  IInv'
<1>1. /\ UNCHANGED << owned, held, conn, registry, workers, authority, given >>
      /\ acceptor \notin {"none", "registering"}
      /\ acceptor' \in {"accept", "admitting", "registering", "ended"}
      /\ (acceptor' \in {"admitting", "registering"}) =
             (acceptor \in {"accepted", "admitting", "registering"})
      /\ acceptor' = "registering" => ~Full
  BY DEF EndLoop, BeginAccept, AcceptInterrupted, AcceptFails, Recheck, Admit
<1>2. InSession' = InSession
  BY <1>1 DEF InSession
<1>3. Plain'
  BY <1>1, InvariantParts DEF Plain, owned, authority
<1>4. Counted'
  BY <1>1, <1>2, SameSessions DEF IInv, NoneWhenDown, owned, registry
<1>5. Looped'
  BY <1>1, InvariantParts DEF Looped, LoopHolds, LoopOver, owned
<1>6. Typed'
  BY <1>1, InvariantParts DEF Typed, given
<1> QED
  BY <1>3, <1>4, <1>5, <1>6, InvariantPartsNext

(* A connection that is in no session before or after: it is dropped by    *)
(* the loop, it arrives, or the loop takes it in hand.                     *)
Drops(c, s)   == /\ held = c /\ held' = NoConnection /\ s.phase = "free"
                 /\ acceptor \in {"accepted", "admitting"} /\ acceptor' \in {"loop", "ended"}
Arrives(c, s) == held # c /\ UNCHANGED accepting /\ s.phase = "backlog"
Takes(c, s)   == /\ held = NoConnection /\ held' = c /\ s.phase = "held"
                 /\ acceptor = "accept" /\ acceptor' = "accepted"

LEMMA HandMove ==
    ASSUME IInv, NEW c \in Connections, NEW s \in Connection,
           conn' = [conn EXCEPT ![c] = s], conn[c].phase \notin Sessions,
           Drops(c, s) \/ Arrives(c, s) \/ Takes(c, s),
           UNCHANGED << owned, registry, workers, authority, given >>
    PROVE  IInv'
<1>0. /\ conn \in [Connections -> Connection] /\ NoConnection \notin Connections
      /\ held \in Connections \cup {NoConnection}
      /\ \A d \in Connections : (held = d) = (conn[d].phase = "held")
      /\ (held # NoConnection) = (acceptor \in {"accepted", "admitting", "registering"})
      /\ acceptor = "none" \/ owner \notin {"down", "bound", "interrupting"}
  BY CoordinatorAssumption DEF IInv, TypeOK, LoopHolds, LoopOver
<1>1. s.phase \notin Sessions
  BY DEF Drops, Arrives, Takes, Sessions, Serving
<1>2. InSession' = InSession
  BY <1>0, <1>1 DEF InSession
<1>3. Plain'
  BY InvariantParts DEF Plain, owned, authority
<1>4. Counted'
  <2>1. acceptor' = "registering" => acceptor = "registering"
    BY DEF Drops, Arrives, Takes, accepting
  <2> QED
    BY <1>2, <2>1, SameSessions DEF IInv, NoneWhenDown, owned, registry
<1>5. Looped'
  <2>1. CASE Drops(c, s)
    BY <1>0, <2>1 DEF Drops, Looped, LoopHolds, LoopOver, owned
  <2>2. CASE Arrives(c, s)
    BY <1>0, <2>2, InvariantParts DEF Arrives, Looped, LoopHolds, LoopOver, owned, accepting
  <2>3. CASE Takes(c, s)
    BY <1>0, <2>3 DEF Takes, Looped, LoopHolds, LoopOver, owned
  <2> QED
    BY <2>1, <2>2, <2>3
<1>6. Typed'
  BY <1>0, InvariantParts DEF Typed, given
<1> QED
  BY <1>3, <1>4, <1>5, <1>6, InvariantPartsNext

LEMMA HandStep ==
    ASSUME IInv,
           \/ DropStopping \/ DropFull
           \/ \E c \in Connections : AcceptConnection(c) \/ Connect(c)
    PROVE  IInv'
<1>0. /\ conn \in [Connections -> Connection] /\ NoConnection \notin Connections
      /\ held \in Connections \cup {NoConnection}
      /\ \A d \in Connections : (held = d) = (conn[d].phase = "held")
      /\ (held # NoConnection) = (acceptor \in {"accepted", "admitting", "registering"})
  BY CoordinatorAssumption DEF IInv, TypeOK, LoopHolds
<1>1. ASSUME DropStopping \/ DropFull PROVE IInv'
  <2>1. held \in Connections /\ conn[held].phase \notin Sessions
    BY <1>0, <1>1 DEF DropStopping, DropFull, Sessions, Serving
  <2>2. conn' = [conn EXCEPT ![held] = Free] /\ Drops(held, Free)
    BY <1>0, <1>1 DEF DropStopping, DropFull, Drop, Drops, Free
  <2>3. UNCHANGED << owned, registry, workers, authority, given >>
    BY <1>1 DEF DropStopping, DropFull, Drop
  <2> QED
    BY <2>1, <2>2, <2>3, Records, HandMove
<1>2. ASSUME NEW c \in Connections, AcceptConnection(c) PROVE IInv'
  <2> DEFINE s == [conn[c] EXCEPT !.phase = "held"]
  <2>1. conn[c] \in Connection /\ "held" \in Phases
    BY <1>0 DEF Phases
  <2>2. s \in Connection /\ s.phase = "held"
    BY <2>1, SessionMoves
  <2>3. conn' = [conn EXCEPT ![c] = s] /\ conn[c].phase \notin Sessions
    BY <1>2 DEF AcceptConnection, Moves, Sessions, Serving
  <2>4. Takes(c, s)
    BY <1>0, <1>2, <2>2 DEF AcceptConnection, Takes
  <2>5. UNCHANGED << owned, registry, workers, authority, given >>
    BY <1>2 DEF AcceptConnection
  <2> HIDE DEF s
  <2> QED
    BY <2>2, <2>3, <2>4, <2>5, HandMove
<1>3. ASSUME NEW c \in Connections, Connect(c) PROVE IInv'
  <2> DEFINE s == [Free EXCEPT !.phase = "backlog", !.peer = TRUE]
  <2>1. s \in Connection /\ s.phase = "backlog"
    BY Records DEF Connection, Phases
  <2>2. conn' = [conn EXCEPT ![c] = s] /\ conn[c].phase \notin Sessions
    BY <1>3 DEF Connect, Sessions, Serving
  <2>3. Arrives(c, s)
    BY <1>0, <1>3, <2>1 DEF Connect, Arrives, accepting
  <2>4. UNCHANGED << owned, registry, workers, authority, given >>
    BY <1>3 DEF Connect
  <2> HIDE DEF s
  <2> QED
    BY <2>1, <2>2, <2>3, <2>4, HandMove
<1> QED
  BY <1>1, <1>2, <1>3

(* start() and the steps of stop() that touch no session.                  *)
LEMMA OwnerStep ==
    ASSUME IInv, Bind \/ Listen \/ ListenFails \/ StopRunning \/ Join
    PROVE  IInv'
<1>1. UNCHANGED << held, conn, registry, workers, given >>
  BY DEF Bind, Listen, ListenFails, StopRunning, Join, accepting
<1>2. InSession' = InSession
  BY <1>1 DEF InSession
<1>3. Plain'
  <2>1. Plain /\ channels \subseteq Connections
    BY InvariantParts DEF IInv, TypeOK
  <2>2. CASE Bind
    <3>1. NextEpoch \in 0 .. MaxEpoch /\ life + 1 \in 0 .. MaxLives
      BY <2>1, <2>2, CoordinatorAssumption DEF Bind, Plain, NextEpoch
    <3>2. epoch' \in 0 .. MaxEpoch /\ durable' \in 0 .. MaxEpoch /\ life' \in 0 .. MaxLives
      BY <2>1, <2>2, <3>1 DEF Bind, Plain
    <3>3. unwritten' \in BOOLEAN /\ owner' = "bound" /\ UNCHANGED << running, listening, toCut >>
      BY <2>1, <2>2, Zenon DEF Bind, Plain
    <3> QED
      BY <2>1, <3>2, <3>3 DEF Plain
  <2>3. CASE Listen
    BY <2>1, <2>3, Zenon DEF Plain, Listen, authority
  <2>4. CASE ListenFails \/ StopRunning
    BY <2>1, <2>4, Zenon DEF Plain, ListenFails, StopRunning, authority
  <2>5. CASE Join
    BY <2>1, <2>5, Zenon DEF Plain, Join, authority
  <2> QED
    BY <2>2, <2>3, <2>4, <2>5
<1>4. Counted'
  <2>1. acceptor' # "registering" \/ acceptor' = acceptor
    BY DEF Bind, Listen, ListenFails, StopRunning, Join, accepting
  <2>2. owner' \in {"down", "bound"} => owner \in {"down", "bound"}
    BY DEF Bind, Listen, ListenFails, StopRunning, Join
  <2> QED
    BY <1>1, <1>2, <2>1, <2>2, SameSessions DEF IInv, NoneWhenDown, registry
<1>5. Looped'
  <2>1. Looped
    BY InvariantParts
  <2>2. CASE Bind \/ ListenFails \/ StopRunning
    BY <1>1, <2>1, <2>2
       DEF Looped, LoopHolds, LoopOver, Bind, ListenFails, StopRunning, accepting
  <2>3. CASE Listen \/ Join
    BY <1>1, <2>1, <2>3 DEF Looped, LoopHolds, LoopOver, Listen, Join
  <2> QED
    BY <2>2, <2>3
<1>6. Typed'
  BY <1>1, InvariantParts DEF Typed, given
<1> QED
  BY <1>3, <1>4, <1>5, <1>6, InvariantPartsNext

(* Closing the listener resets what was not accepted; interrupting a       *)
(* channel leaves its session to find out.                                 *)
LEMMA CutStep ==
    ASSUME IInv, CloseListener \/ \E c \in Connections : Cut(c)
    PROVE  IInv'
<1>0. conn \in [Connections -> Connection]
  BY DEF IInv, TypeOK
<1>1. /\ UNCHANGED << held, acceptor, running, registry, workers, authority, given >>
      /\ owner' \notin {"down", "bound"}
      /\ owner' \in {"down", "bound", "up", "stopping", "joining", "interrupting"}
      /\ owner' = "interrupting" => owner = "interrupting"
      /\ listening' \in {listening, FALSE} /\ toCut' \subseteq toCut
  BY DEF CloseListener, Cut, accepting
<1>2. /\ conn' \in [Connections -> Connection]
      /\ \A c \in Connections : \/ conn'[c].phase = conn[c].phase
                                \/ conn[c].phase = "backlog" /\ conn'[c].phase = "free"
  <2>1. CASE CloseListener
    BY <1>0, <2>1, Records DEF CloseListener, Free
  <2>2. ASSUME NEW c \in Connections, Cut(c)
        PROVE  /\ conn' \in [Connections -> Connection]
               /\ \A d \in Connections : conn'[d].phase = conn[d].phase
    <3> DEFINE b == conn[c].phase \in Sessions
    <3>1. b \in BOOLEAN /\ conn' = [conn EXCEPT ![c].cut = b]
      BY <2>2 DEF Cut
    <3> HIDE DEF b
    <3>2. LET s == [conn[c] EXCEPT !.cut = b]
          IN  s \in Connection /\ s.phase = conn[c].phase
      BY <1>0, <3>1 DEF Connection
    <3> QED
      BY <1>0, <3>1, <3>2
  <2> QED
    BY <2>1, <2>2
<1>3. InSession' = InSession
  BY <1>2 DEF InSession, Sessions, Serving
<1>4. Plain'
  BY <1>1, InvariantParts, Zenon DEF Plain, authority
<1>5. Counted'
  BY <1>1, <1>3, SameSessions DEF registry
<1>6. Looped'
  BY <1>1, <1>2, InvariantParts DEF Looped, LoopHolds, LoopOver
<1>7. Typed'
  BY <1>1, <1>2, InvariantParts DEF Typed, given
<1> QED
  BY <1>4, <1>5, <1>6, <1>7, InvariantPartsNext

(* stop() returns when nobody is counted, a crash takes everybody along.   *)
LEMMA EndStep ==
    ASSUME IInv, SessionsOver \/ Crash
    PROVE  IInv'
<1>1. CASE SessionsOver
  <2>0. /\ UNCHANGED << running, listening, toCut, accepting, conn, active, workers,
                        authority, given >>
        /\ owner = "interrupting" /\ owner' = "down" /\ active = 0 /\ channels' = {}
    BY <1>1 DEF SessionsOver
  <2>1. InSession = {}
    <3>1. IsFiniteSet(InSession)
      BY CoordinatorAssumption, FS_Subset DEF InSession
    <3> QED
      BY <2>0, <3>1, FS_EmptySet DEF IInv, SessionsAccounted
  <2>2. InSession' = {}
    BY <2>0, <2>1 DEF InSession
  <2>3. Plain'
    BY <2>0, InvariantParts, Zenon DEF Plain, authority
  <2>4. Counted'
    BY <2>0, <2>2, FS_EmptySet, CoordinatorAssumption
       DEF IInv, Counted, SessionsAccounted, RoomKept, NoneWhenDown, accepting
  <2>5. Looped'
    BY <2>0, InvariantParts DEF Looped, LoopHolds, LoopOver, accepting
  <2>6. Typed'
    BY <2>0, InvariantParts DEF Typed, given
  <2> QED
    BY <2>3, <2>4, <2>5, <2>6, InvariantPartsNext
<1>2. CASE Crash
  <2>1. \A c \in Connections : conn'[c].phase = "free"
    BY <1>2 DEF Crash, Free
  <2>2. InSession' = {}
    BY <2>1 DEF InSession, Sessions, Serving
  <2>3. Plain'
    BY <1>2, InvariantParts, Zenon DEF Crash, Plain, authority
  <2>4. Counted'
    BY <1>2, <2>2, FS_EmptySet, CoordinatorAssumption
       DEF Crash, Counted, SessionsAccounted, RoomKept, NoneWhenDown
  <2>5. Looped'
    BY <1>2, <2>1, CoordinatorAssumption DEF Crash, Looped, LoopHolds, LoopOver
  <2>6. Typed'
    BY <1>2, Records, InvariantParts DEF Crash, Typed, given
  <2> QED
    BY <2>3, <2>4, <2>5, <2>6, InvariantPartsNext
<1> QED
  BY <1>1, <1>2

LEMMA StepInvariant == IInv /\ [Next]_vars => IInv'
<1> SUFFICES ASSUME IInv, [Next]_vars PROVE IInv'
  OBVIOUS
<1>1. CASE UNCHANGED vars
  <2>1. /\ UNCHANGED << owner, running, listening, toCut, acceptor, held, conn, active >>
        /\ UNCHANGED << channels, workers, epoch, durable, life, unwritten, granted, inherited >>
    BY <1>1 DEF vars, owned, accepting, registry, authority, given
  <2> QED
    BY <2>1, InvariantParts, InvariantPartsNext
       DEF Plain, Counted, Looped, Typed, SessionsAccounted, RoomKept, NoneWhenDown,
           InSession, LoopHolds, LoopOver
<1>2. CASE Bind \/ Listen \/ ListenFails \/ StopRunning \/ Join
  BY <1>2, OwnerStep
<1>3. CASE CloseListener \/ \E c \in Connections : Cut(c)
  BY <1>3, CutStep
<1>4. CASE SessionsOver \/ Crash
  BY <1>4, EndStep
<1>5. CASE EndLoop \/ BeginAccept \/ AcceptInterrupted \/ AcceptFails \/ Recheck \/ Admit
  BY <1>5, LoopStep
<1>6. CASE \/ DropStopping \/ DropFull
           \/ \E c \in Connections : AcceptConnection(c) \/ Connect(c)
  BY <1>6, HandStep
<1>7. CASE Register
  BY <1>7, RegisterStep
<1>8. CASE \E c \in Connections : Converses(c)
  BY <1>8, ConverseStep
<1>9. CASE \E c \in Connections : Retire(c)
  BY <1>9, RetireStep
<1> QED
  BY <1>1, <1>2, <1>3, <1>4, <1>5, <1>6, <1>7, <1>8, <1>9
     DEF Next, OwnerStops, AcceptorProceeds, SessionProceeds, Converses

LEMMA Invariance == Spec => []IInv
BY InitInvariant, StepInvariant, PTL DEF Spec

-----------------------------------------------------------------------------
(* The variables of the coordinator keep their ranges, and the accept loop *)
(* holds a connection exactly while it has one to decide about.            *)
THEOREM TypeCorrect == Spec => []TypeOK
<1>1. IInv => TypeOK
  BY DEF IInv
<1> QED
  BY <1>1, Invariance, PTL

(* However sessions start, end and are cut, active_sessions_ and           *)
(* session_channels_ stay those of the sessions there are, within          *)
(* max_workers.                                                            *)
THEOREM SessionsCounted == Spec => []SessionsAccounted
<1>1. IInv => SessionsAccounted
  BY DEF IInv
<1> QED
  BY <1>1, Invariance, PTL

-----------------------------------------------------------------------------
(* Workers on record as connected.                                         *)

(* A session that may still take back what it put on record.               *)
Holding == {"ack", "finish"} \cup Serving

(* Sessions that keep their worker keep the record justified.              *)
LEMMA RecordsRemain ==
    ASSUME ConnectedHasSession,
           \A w \in Workers : workers'[w].connected => workers'[w] = workers[w],
           \A c \in Connections : conn[c].phase \in Holding =>
               conn'[c].phase \in Holding /\ conn'[c].worker = conn[c].worker
    PROVE  ConnectedHasSession'
BY DEF ConnectedHasSession, Holding

LEMMA ClaimKeepsRecords ==
    ASSUME TypeOK, ConnectedHasSession, NEW c \in Connections, Claim(c)
    PROVE  ConnectedHasSession'
<1> DEFINE w == conn[c].inbox.worker
<1>1. /\ conn \in [Connections -> Connection]
      /\ workers \in [Workers -> WorkerRecord]
  BY DEF TypeOK
<1>2. /\ conn[c].phase = "hello"
      /\ conn'[c].phase = "ack" /\ conn'[c].worker = w
      /\ \A d \in Connections \ {c} : conn'[d] = conn[d]
      /\ workers' = [workers EXCEPT ![w] =
             [known |-> TRUE, connected |-> TRUE, fenced |-> FALSE, by |-> c]]
  BY <1>1 DEF Claim, Reads, Connection
<1> SUFFICES ASSUME NEW v \in Workers, workers'[v].connected
             PROVE  \E d \in Connections : /\ workers'[v].by = d /\ conn'[d].worker = v
                                           /\ conn'[d].phase \in Holding
  BY DEF ConnectedHasSession, Holding
<1>3. CASE v = w
  BY <1>1, <1>2, <1>3 DEF Holding
<1>4. CASE v # w
  <2>1. workers'[v] = workers[v]
    BY <1>1, <1>2, <1>4
  <2>2. PICK d \in Connections : /\ workers[v].by = d /\ conn[d].worker = v
                                 /\ conn[d].phase \in Holding
    BY <2>1 DEF ConnectedHasSession, Holding
  <2>3. d # c
    BY <1>2, <2>2 DEF Holding, Serving
  <2> QED
    BY <1>2, <2>1, <2>2, <2>3
<1> QED
  BY <1>3, <1>4

LEMMA FinishKeepsRecords ==
    ASSUME TypeOK, ConnectedHasSession, NEW c \in Connections, Finish(c)
    PROVE  ConnectedHasSession'
<1> DEFINE w == conn[c].worker
<1>1. /\ conn \in [Connections -> Connection]
      /\ workers \in [Workers -> WorkerRecord] /\ w \in Workers \cup {NoWorker}
  BY DEF TypeOK, Connection
<1>2. /\ \A d \in Connections \ {c} : conn'[d] = conn[d]
      /\ \A v \in Workers \ {w} : workers'[v] = workers[v]
      /\ w \in Workers => ~workers'[w].connected
  BY <1>1, CoordinatorAssumption DEF Finish, WorkerRecord
<1> SUFFICES ASSUME NEW v \in Workers, workers'[v].connected
             PROVE  \E d \in Connections : /\ workers'[v].by = d /\ conn'[d].worker = v
                                           /\ conn'[d].phase \in Holding
  BY DEF ConnectedHasSession, Holding
<1>3. v # w /\ workers'[v] = workers[v]
  BY <1>2
<1>4. PICK d \in Connections : /\ workers[v].by = d /\ conn[d].worker = v
                               /\ conn[d].phase \in Holding
  BY <1>3 DEF ConnectedHasSession, Holding
<1>5. d # c
  BY <1>3, <1>4
<1> QED
  BY <1>2, <1>3, <1>4, <1>5

(* Every step keeps the records of connected workers justified.            *)
LEMMA StepKeepsRecords ==
    ASSUME IInv, ConnectedHasSession, [Next]_vars
    PROVE  ConnectedHasSession'
<1> DEFINE Kept == \A c \in Connections : conn[c].phase \in Holding =>
                       conn'[c].phase \in Holding /\ conn'[c].worker = conn[c].worker
<1>0. /\ TypeOK /\ conn \in [Connections -> Connection]
      /\ \A c \in Connections : (held = c) = (conn[c].phase = "held")
  BY DEF IInv, TypeOK
<1>1. CASE \E c \in Connections : Claim(c)
  BY <1>0, <1>1, ClaimKeepsRecords
<1>2. CASE \E c \in Connections : Finish(c)
  BY <1>0, <1>2, FinishKeepsRecords
<1>3. CASE UNCHANGED << conn, workers >>
  BY <1>3, RecordsRemain
<1>4. ASSUME NEW c \in Connections,
             \/ Refuse(c) \/ NotAHello(c) \/ Retire(c) \/ AcceptConnection(c) \/ Connect(c)
      PROVE  Kept /\ UNCHANGED workers
  <2>1. conn[c].phase \notin Holding
    BY <1>4 DEF Refuse, NotAHello, Retire, AcceptConnection, Connect, Moves, Holding, Serving
  <2>2. \A d \in Connections \ {c} : conn'[d] = conn[d]
    BY <1>0, <1>4 DEF Refuse, NotAHello, Retire, AcceptConnection, Connect, Moves, Reads
  <2>3. UNCHANGED workers
    BY <1>4 DEF Refuse, NotAHello, Retire, AcceptConnection, Connect
  <2> QED
    BY <2>1, <2>2, <2>3
<1>5. CASE Register \/ DropStopping \/ DropFull
  <2>1. held \in Connections => conn[held].phase \notin Holding
    BY <1>0 DEF Holding, Serving
  <2>2. /\ \A d \in Connections \ {held} : conn'[d] = conn[d]
        /\ UNCHANGED workers
    BY <1>0, <1>5 DEF Register, DropStopping, DropFull, Drop
  <2> QED
    BY <2>1, <2>2, RecordsRemain
<1>6. ASSUME NEW c \in Connections,
             \/ SendAck(c) \/ CheckRunning(c) \/ HandleWork(c) \/ HandleOther(c)
             \/ SendReply(c) \/ SendNotice(c) \/ IoFails(c) \/ Send(c) \/ Disconnect(c) \/ Cut(c)
      PROVE  Kept /\ UNCHANGED workers
  <2>1. \A d \in Connections \ {c} : conn'[d] = conn[d]
    BY <1>0, <1>6 DEF SendAck, CheckRunning, HandleWork, HandleOther, SendReply, SendNotice,
                      IoFails, Send, Disconnect, Cut, Moves, Reads
  <2> DEFINE Keeps(s) == /\ s.worker = conn[c].worker
                         /\ s.phase \in Holding \/ s.phase = conn[c].phase
  <2>2. Keeps(conn'[c])
    <3>1. conn[c] \in Connection
      BY <1>0
    <3>2. /\ \A p \in Phases : p \in Holding => Keeps([conn[c] EXCEPT !.phase = p])
          /\ \A f : Keeps([conn[c] EXCEPT !.inbox = f])
          /\ \A b : Keeps([conn[c] EXCEPT !.peer = b]) /\ Keeps([conn[c] EXCEPT !.cut = b])
          /\ \A b : Keeps(ToFinish(conn[c], b))
          /\ \A p \in Phases : \A f :
                p \in Holding => Keeps([[conn[c] EXCEPT !.phase = p] EXCEPT !.inbox = f])
          /\ \A b, f : Keeps([ToFinish(conn[c], b) EXCEPT !.inbox = f])
      BY <3>1 DEF Connection, ToFinish, Holding, Serving
    <3>3. {"loop", "receive", "reply", "notice", "finish"} \subseteq Holding \cap Phases
      BY DEF Holding, Serving, Phases, Sessions
    <3> HIDE DEF Keeps
    <3>4. CASE SendAck(c) \/ SendReply(c)
      <4>1. \/ conn'[c] = [conn[c] EXCEPT !.phase = "loop"]
            \/ conn'[c] = ToFinish(conn[c], FALSE)
        BY <1>0, <3>4 DEF SendAck, SendReply, Moves
      <4> QED
        BY <3>2, <3>3, <4>1
    <3>5. CASE CheckRunning(c) \/ SendNotice(c) \/ IoFails(c)
      <4>1. \/ conn'[c] = [conn[c] EXCEPT !.phase = "receive"]
            \/ conn'[c] = ToFinish(conn[c], FALSE)
        BY <1>0, <3>5 DEF CheckRunning, SendNotice, IoFails
      <4> QED
        BY <3>2, <3>3, <4>1
    <3>6. CASE HandleWork(c)
      BY <1>0, <3>2, <3>3, <3>6 DEF HandleWork, Reads
    <3>7. CASE HandleOther(c)
      BY <1>0, <3>2, <3>3, <3>7 DEF HandleOther, Reads
    <3>8. CASE Send(c) \/ Disconnect(c) \/ Cut(c)
      <4>1. CASE Send(c)
        <5>1. PICK f : conn' = [conn EXCEPT ![c].inbox = f]
          BY <4>1 DEF Send
        <5> QED
          BY <1>0, <3>2, <5>1
      <4>2. CASE Disconnect(c)
        <5>1. conn'[c] = [conn[c] EXCEPT !.peer = FALSE]
          BY <1>0, <4>2 DEF Disconnect
        <5> QED
          BY <3>2, <5>1
      <4>3. CASE Cut(c)
        <5>1. conn'[c] = [conn[c] EXCEPT !.cut = conn[c].phase \in Sessions]
          BY <1>0, <4>3 DEF Cut
        <5> QED
          BY <3>2, <5>1
      <4> QED
        BY <3>8, <4>1, <4>2, <4>3
    <3> QED
      BY <1>6, <3>4, <3>5, <3>6, <3>7, <3>8
  <2>4. UNCHANGED workers
    BY <1>6 DEF SendAck, CheckRunning, HandleWork, HandleOther, SendReply, SendNotice, IoFails,
                Send, Disconnect, Cut
  <2> QED
    BY <2>1, <2>2, <2>4
<1>7. CASE CloseListener
  BY <1>0, <1>7, RecordsRemain DEF CloseListener, Holding, Serving
<1>8. CASE Crash
  BY <1>8 DEF Crash, Unknown, ConnectedHasSession
<1>9. CASE \/ Bind \/ Listen \/ ListenFails \/ StopRunning \/ Join \/ SessionsOver
           \/ EndLoop \/ BeginAccept \/ AcceptInterrupted \/ AcceptFails \/ Recheck \/ Admit
           \/ UNCHANGED vars
  BY <1>3, <1>9 DEF Bind, Listen, ListenFails, StopRunning, Join, SessionsOver, EndLoop,
                    BeginAccept, AcceptInterrupted, AcceptFails, Recheck, Admit, vars
<1> HIDE DEF Kept
<1>10. CASE Kept /\ UNCHANGED workers
  BY <1>10, RecordsRemain DEF Kept
<1> QED
  BY <1>1, <1>2, <1>4, <1>5, <1>6, <1>7, <1>8, <1>9, <1>10
     DEF Next, OwnerStops, AcceptorProceeds, SessionProceeds

(* A worker on record as connected is backed by the session that put it    *)
(* there, which will take it back: no loss, refusal, restart or shutdown   *)
(* leaves a record connected with nobody behind it.                        *)
THEOREM ConnectedIsBacked == Spec => []ConnectedHasSession
<1>1. Init => ConnectedHasSession
  BY DEF Init, Unknown, ConnectedHasSession
<1>2. IInv /\ ConnectedHasSession /\ [Next]_vars => ConnectedHasSession'
  BY StepKeepsRecords
<1> QED
  BY <1>1, <1>2, Invariance, PTL DEF Spec

(* Once stop() has returned nothing of the coordinator is left running:    *)
(* there is no session, no accepted connection and no connected worker.    *)
THEOREM StopLeavesNothing == Spec => []StoppedIsQuiet
<1>1. IInv /\ ConnectedHasSession => StoppedIsQuiet
  <2> SUFFICES ASSUME IInv, ConnectedHasSession, owner \in {"down", "bound"}
               PROVE  /\ InSession = {} /\ held = NoConnection /\ acceptor = "none"
                      /\ \A w \in Workers : ~workers[w].connected
    BY DEF StoppedIsQuiet
  <2>1. InSession = {} /\ held = NoConnection /\ acceptor = "none"
    BY DEF IInv, NoneWhenDown, LoopHolds, LoopOver
  <2>2. \A c \in Connections : conn[c].phase \notin Sessions
    BY <2>1 DEF InSession
  <2> QED
    BY <2>1, <2>2 DEF ConnectedHasSession, Sessions
<1> QED
  BY <1>1, Invariance, ConnectedIsBacked, PTL

-----------------------------------------------------------------------------
(* Authority across restarts.                                              *)

Presenting == {"hello", "heartbeat", "evidence"}

(* The authorities that are on their way to a session.                     *)
Presented == {conn[c].inbox.authority :
                 c \in {d \in Connections : conn[d].inbox.kind \in Presenting}}

(* An authority that says the epoch in force was granted by this start.    *)
Current(a) == a.epoch <= epoch /\ (a.epoch = epoch => a.life = life)

EpochsNew ==
    ~unwritten => /\ durable = epoch /\ ~inherited
                  /\ \A a \in granted \cup Presented : Current(a)

(* No step makes up an authority: whatever is held or presented after it   *)
(* was so before, or is the one in force.                                  *)
LEMMA AuthoritiesOfAStep ==
    ASSUME TypeOK, [Next]_vars
    PROVE  granted' \cup Presented' \subseteq Known \cup Presented
<1>0. conn \in [Connections -> Connection]
  BY DEF TypeOK
<1> DEFINE Same(c) == \/ conn'[c].inbox = conn[c].inbox
                      \/ conn'[c].inbox.kind = "none"
<1>1. ASSUME NEW c \in Connections, Same(c), conn'[c].inbox.kind \in Presenting
      PROVE  conn'[c].inbox.authority \in Presented
  BY <1>1 DEF Presenting, Presented
<1>2. (\A c \in Connections : Same(c)) => Presented' \subseteq Presented
  <2> SUFFICES ASSUME \A c \in Connections : Same(c), NEW a \in Presented'
               PROVE  a \in Presented
    OBVIOUS
  <2>1. PICK c \in Connections : /\ conn'[c].inbox.kind \in Presenting
                                 /\ a = conn'[c].inbox.authority
    BY DEF Presented
  <2> QED
    BY <1>1, <2>1
<1>3. Free.inbox.kind = "none" /\ NoFrame.kind = "none"
  BY DEF Free, NoFrame
<1>4. /\ \A s \in Connection : /\ \A p : [s EXCEPT !.phase = p].inbox = s.inbox
                               /\ \A b : ToFinish(s, b).inbox = s.inbox
                               /\ \A b : [s EXCEPT !.peer = b].inbox = s.inbox
                               /\ \A b : [s EXCEPT !.cut = b].inbox = s.inbox
  BY DEF Connection, ToFinish
<1>5. CASE UNCHANGED << conn, granted >>
  BY <1>5 DEF Presented, Known
<1>6. ASSUME NEW c \in Connections,
             Claim(c) \/ Refuse(c) \/ NotAHello(c) \/ HandleWork(c) \/ HandleOther(c)
      PROVE  granted' = granted /\ \A d \in Connections : Same(d)
  <2>1. granted' = granted
    BY <1>6 DEF Claim, Refuse, NotAHello, HandleWork, HandleOther, given
  <2>2. \A d \in Connections \ {c} : conn'[d] = conn[d]
    BY <1>0, <1>6 DEF Claim, Refuse, NotAHello, HandleWork, HandleOther, Reads
  <2>3. conn'[c].inbox.kind = "none"
    <3>1. \A s \in Connection :
              /\ \A p, w : [[s EXCEPT !.phase = p, !.worker = w] EXCEPT !.inbox = NoFrame].inbox
                               = NoFrame
              /\ \A p : [[s EXCEPT !.phase = p] EXCEPT !.inbox = NoFrame].inbox = NoFrame
              /\ \A b : [ToFinish(s, b) EXCEPT !.inbox = NoFrame].inbox = NoFrame
      BY DEF Connection, ToFinish
    <3>2. conn[c] \in Connection
      BY <1>0
    <3>3. CASE Claim(c)
      <4>1. conn'[c] = [[conn[c] EXCEPT !.phase = "ack", !.worker = conn[c].inbox.worker]
                            EXCEPT !.inbox = NoFrame]
        BY <1>0, <3>3 DEF Claim, Reads
      <4> QED
        BY <1>3, <3>1, <3>2, <4>1
    <3>4. CASE \/ Refuse(c) \/ HandleWork(c)
               \/ HandleOther(c) /\ conn[c].inbox.kind # "goodbye"
      <4>1. PICK p : conn'[c] = [[conn[c] EXCEPT !.phase = p] EXCEPT !.inbox = NoFrame]
        BY <1>0, <3>4 DEF Refuse, HandleWork, HandleOther, Reads
      <4> QED
        BY <1>3, <3>1, <3>2, <4>1
    <3>5. CASE \/ NotAHello(c)
               \/ HandleOther(c) /\ conn[c].inbox.kind = "goodbye"
      <4>1. PICK b : conn'[c] = [ToFinish(conn[c], b) EXCEPT !.inbox = NoFrame]
        BY <1>0, <3>5 DEF NotAHello, HandleOther, Reads
      <4> QED
        BY <1>3, <3>1, <3>2, <4>1
    <3>6. conn[c].inbox.kind = "goodbye" \/ conn[c].inbox.kind # "goodbye"
      OBVIOUS
    <3> QED
      BY <1>6, <3>3, <3>4, <3>5, <3>6, Zenon
  <2> QED
    BY <2>1, <2>2, <2>3
<1>7. ASSUME NEW c \in Connections,
             \/ SendAck(c) \/ CheckRunning(c) \/ SendReply(c) \/ SendNotice(c) \/ IoFails(c)
             \/ Retire(c) \/ AcceptConnection(c) \/ Disconnect(c) \/ Cut(c)
      PROVE  granted' \subseteq Known /\ \A d \in Connections : Same(d)
  <2>1. granted' \subseteq Known
    BY <1>7 DEF SendAck, CheckRunning, SendReply, SendNotice, IoFails, Retire, AcceptConnection,
                Disconnect, Cut, given, Known
  <2>2. \A d \in Connections \ {c} : conn'[d] = conn[d]
    BY <1>0, <1>7 DEF SendAck, CheckRunning, SendReply, SendNotice, IoFails, Retire,
                      AcceptConnection, Disconnect, Cut, Moves
  <2>3. conn'[c].inbox = conn[c].inbox
    <3>1. CASE SendAck(c) \/ CheckRunning(c) \/ SendReply(c) \/ SendNotice(c) \/ IoFails(c)
               \/ Retire(c) \/ AcceptConnection(c)
      <4>1. \/ \E p : conn'[c] = [conn[c] EXCEPT !.phase = p]
            \/ conn'[c] = ToFinish(conn[c], FALSE)
        BY <1>0, <3>1 DEF SendAck, CheckRunning, SendReply, SendNotice, IoFails, Retire,
                          AcceptConnection, Moves
      <4>2. CASE \E p : conn'[c] = [conn[c] EXCEPT !.phase = p]
        <5>1. PICK p : conn'[c] = [conn[c] EXCEPT !.phase = p]
          BY <4>2
        <5> QED
          BY <1>0, <1>4, <5>1
      <4>3. CASE conn'[c] = ToFinish(conn[c], FALSE)
        <5>1. conn[c] \in Connection
          BY <1>0
        <5>2. ToFinish(conn[c], FALSE).inbox = conn[c].inbox
          BY <1>4, <5>1
        <5> QED
          BY <4>3, <5>2
      <4> QED
        BY <4>1, <4>2, <4>3
    <3>2. CASE Disconnect(c)
      <4>1. conn'[c] = [conn[c] EXCEPT !.peer = FALSE]
        BY <1>0, <3>2 DEF Disconnect
      <4> QED
        BY <1>0, <1>4, <4>1
    <3>3. CASE Cut(c)
      <4>1. conn'[c] = [conn[c] EXCEPT !.cut = conn[c].phase \in Sessions]
        BY <1>0, <3>3 DEF Cut
      <4> QED
        BY <1>0, <1>4, <4>1
    <3> QED
      BY <1>7, <3>1, <3>2, <3>3
  <2> QED
    BY <2>1, <2>2, <2>3
<1>8. ASSUME NEW c \in Connections, Finish(c) \/ Connect(c)
      PROVE  granted' = granted /\ \A d \in Connections : Same(d)
  <2>1. /\ [Free EXCEPT !.phase = "retire"].inbox = NoFrame
        /\ [Free EXCEPT !.phase = "backlog", !.peer = TRUE].inbox = NoFrame
    BY DEF Free
  <2> QED
    BY <1>0, <1>3, <1>8, <2>1 DEF Finish, Connect, given
<1>9. CASE Register \/ DropStopping \/ DropFull
  <2>1. \A d \in Connections : Same(d)
    <3>1. \A d \in Connections \ {held} : conn'[d] = conn[d]
      BY <1>0, <1>9 DEF Register, DropStopping, DropFull, Drop
    <3>2. ASSUME held \in Connections PROVE Same(held)
      <4>1. \/ conn'[held] = [conn[held] EXCEPT !.phase = "hello"]
            \/ conn'[held] = Free
        BY <1>0, <1>9, <3>2 DEF Register, DropStopping, DropFull, Drop
      <4>2. conn[held] \in Connection
        BY <1>0, <3>2
      <4>3. [conn[held] EXCEPT !.phase = "hello"].inbox = conn[held].inbox
        BY <1>4, <4>2
      <4> QED
        BY <1>3, <4>1, <4>3
    <3> QED
      BY <3>1, <3>2
  <2>2. granted' = granted
    BY <1>9 DEF Register, DropStopping, DropFull, Drop, given
  <2> QED
    BY <2>1, <2>2, <1>2 DEF Known
<1>10. CASE CloseListener \/ Crash
  BY <1>0, <1>2, <1>3, <1>10 DEF CloseListener, Crash, given, Known
<1>11. ASSUME NEW c \in Connections, Send(c)
       PROVE  granted' \cup Presented' \subseteq Known \cup Presented
  <2>1. PICK f \in Greetings \cup Messages : conn' = [conn EXCEPT ![c].inbox = f]
    BY <1>11 DEF Send
  <2>2. f.kind \in Presenting => f.authority \in Known
    BY DEF Greetings, Messages, Presenting
  <2>3. conn'[c].inbox = f /\ \A d \in Connections \ {c} : conn'[d] = conn[d]
    <3>1. \A s \in Connection : [s EXCEPT !.inbox = f].inbox = f
      BY DEF Connection
    <3> QED
      BY <1>0, <2>1, <3>1
  <2>4. ASSUME NEW a \in Presented' PROVE a \in Known \cup Presented
    <3>1. PICK d \in Connections : /\ conn'[d].inbox.kind \in Presenting
                                   /\ a = conn'[d].inbox.authority
      BY DEF Presented
    <3> QED
      BY <2>2, <2>3, <3>1, <1>1
  <2>5. granted' = granted
    BY <1>11 DEF Send, given
  <2> QED
    BY <2>4, <2>5 DEF Known
<1>12. CASE \/ Bind \/ Listen \/ ListenFails \/ StopRunning \/ Join \/ SessionsOver
            \/ EndLoop \/ BeginAccept \/ AcceptInterrupted \/ AcceptFails \/ Recheck \/ Admit
            \/ UNCHANGED vars
  BY <1>5, <1>12 DEF Bind, Listen, ListenFails, StopRunning, Join, SessionsOver, EndLoop,
                     BeginAccept, AcceptInterrupted, AcceptFails, Recheck, Admit, vars, given
<1>13. granted \subseteq Known
  BY DEF Known
<1> HIDE DEF Same
<1> QED
  BY <1>2, <1>6, <1>7, <1>8, <1>9, <1>10, <1>11, <1>12, <1>13
     DEF Next, OwnerStops, AcceptorProceeds, SessionProceeds

(* Only a start changes the epoch.                                         *)
LEMMA EpochsOfAStep ==
    ASSUME [Next]_vars PROVE Bind \/ UNCHANGED authority
BY DEF Next, OwnerStops, AcceptorProceeds, SessionProceeds, Listen, ListenFails,
       StopRunning, CloseListener, Join, Cut, SessionsOver, Crash, EndLoop, BeginAccept,
       AcceptConnection, AcceptInterrupted, AcceptFails, DropStopping, DropFull, Drop,
       Recheck, Admit, Register, Claim, Refuse, NotAHello, SendAck, CheckRunning,
       HandleWork, HandleOther, SendReply, SendNotice, IoFails, Finish, Retire, Connect, Send,
       Disconnect, Untouched, vars

(* Work is only honoured that presents the epoch in force.                 *)
LEMMA WorkOfAStep ==
    ASSUME TypeOK, [Next]_vars
    PROVE  \/ inherited' = inherited
           \/ \E a \in Presented : /\ a.epoch = epoch
                                   /\ inherited' = (inherited \/ a.life # life)
<1>1. ASSUME NEW c \in Connections, Claim(c) \/ HandleWork(c)
      PROVE  \E a \in Presented : /\ a.epoch = epoch
                                  /\ inherited' = (inherited \/ a.life # life)
  <2> DEFINE a == conn[c].inbox.authority
  <2>1. a \in Presented
    BY <1>1 DEF Claim, HandleWork, Accepted, Presented, Presenting
  <2>2. a.epoch = epoch /\ inherited' = (inherited \/ a.life # life)
    BY <1>1 DEF Claim, HandleWork, Accepted, Honour
  <2> QED
    BY <2>1, <2>2
<1>2. CASE \A c \in Connections : ~Claim(c) /\ ~HandleWork(c)
  BY <1>2 DEF Next, OwnerStops, AcceptorProceeds, SessionProceeds, Bind, Listen,
       ListenFails, StopRunning, CloseListener, Join, Cut, SessionsOver, Crash, EndLoop,
       BeginAccept, AcceptConnection, AcceptInterrupted, AcceptFails, DropStopping,
       DropFull, Drop, Recheck, Admit, Register, Refuse, NotAHello, SendAck,
       CheckRunning, HandleOther, SendReply, SendNotice, IoFails, Finish, Retire, Connect, Send,
       Disconnect, vars, given
<1> QED
  BY <1>1, <1>2

(* The invariant behind it: while every start has journaled its epoch, no  *)
(* authority anywhere is ahead of the one in force, and only those of this *)
(* start are level with it.                                                *)
LEMMA EpochsStayNew ==
    ASSUME TypeOK, TypeOK', EpochsNew, [Next]_vars PROVE EpochsNew'
<1> SUFFICES ASSUME ~unwritten'
             PROVE  /\ durable' = epoch' /\ ~inherited'
                    /\ \A a \in granted' \cup Presented' : Current(a)'
  BY DEF EpochsNew
<1>1. ~unwritten
  BY EpochsOfAStep DEF Bind, authority, TypeOK
<1>2. /\ durable = epoch /\ ~inherited
      /\ \A a \in granted \cup Presented : Current(a)
  BY <1>1 DEF EpochsNew
<1>3. \A a \in Known \cup Presented : Current(a)
  BY <1>2 DEF Known, Current, TypeOK
<1>4. ~inherited'
  BY <1>2, WorkOfAStep DEF Current
<1>5. CASE UNCHANGED authority
  BY <1>2, <1>3, <1>4, <1>5, AuthoritiesOfAStep DEF authority, Current
<1>6. CASE Bind
  <2>1. epoch' = NextEpoch /\ durable' = epoch'
    BY <1>6, <1>1 DEF Bind
  <2>2. epoch \in Nat /\ epoch' > epoch
    BY <1>2, <2>1 DEF NextEpoch, TypeOK
  <2>3. granted' \cup Presented' = granted \cup Presented
    BY <1>6 DEF Bind, given, Presented
  <2>4. \A a \in granted \cup Presented : a \in Authority
    <3>1. \A c \in Connections : conn[c].inbox.authority \in Authority
      BY DEF TypeOK, Connection, Frame
    <3> QED
      BY <3>1 DEF TypeOK, Presented
  <2>5. \A a \in granted \cup Presented : a.epoch \in Nat /\ a.epoch < epoch'
    BY <1>2, <2>2, <2>4, CoordinatorAssumption DEF Current, Authority, TypeOK
  <2> QED
    BY <1>4, <2>1, <2>2, <2>3, <2>5 DEF Current, TypeOK
<1> QED
  BY <1>5, <1>6, EpochsOfAStep

(* As long as every start journaled its epoch, a coordinator never accepts *)
(* a claim or work authorised by a start before its own.                   *)
THEOREM NothingFromBefore == Spec => []NothingInherited
<1>1. Init => EpochsNew
  BY DEF Init, EpochsNew, Presented, Free, NoFrame, Presenting
<1>2. TypeOK /\ TypeOK' /\ EpochsNew /\ [Next]_vars => EpochsNew'
  BY EpochsStayNew
<1>3. EpochsNew => NothingInherited
  BY DEF EpochsNew, NothingInherited
<1> QED
  BY <1>1, <1>2, <1>3, TypeCorrect, PTL DEF Spec
=============================================================================
