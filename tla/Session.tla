------------------------------- MODULE Session -------------------------------
(***************************************************************************)
(* One worker and the coordinator it talks to: the worker's calls, the     *)
(* framed channel in both directions, and the coordinator's side of each   *)
(* session, while frames are damaged, connections end, the worker's        *)
(* process is killed and the coordinator is restarted.                     *)
(*                                                                         *)
(* A call that waits for a reply is two steps, the sending and the         *)
(* receiving; nothing in it times out.  A connection is a stream each way, *)
(* a sequence of frames; what the sender knows of the receiver's end it    *)
(* learns late, so a send on a connection that is over may still succeed.  *)
(***************************************************************************)
EXTENDS Integers, Sequences, FiniteSets

CONSTANTS
    MaxConnections,     \* connections the worker makes
    MaxSessions,        \* config_.max_workers, the bound of live sessions
    MaxEpoch,           \* starts of the coordinator
    MaxFrames,          \* frames the worker sends
    MaxDamage           \* frames damaged in flight

ASSUME SessionAssumption ==
    /\ MaxConnections \in Nat \ {0} /\ MaxSessions \in Nat \ {0}
    /\ MaxEpoch \in Nat \ {0} /\ MaxFrames \in Nat /\ MaxDamage \in Nat

Connections == 1 .. MaxConnections
None == 0

(* What a worker presents.  Boot generations advance with the epoch.       *)
Claims == 0 .. MaxEpoch
Statuses == {"accepted", "staleEpoch", "malformed"}

Request == [type : {"hello", "heartbeat", "evidence", "goodbye"}, seq : 0 .. MaxFrames + 1,
            epoch : Claims]
Reply   == [type : {"helloAck", "evidenceAck", "fence", "error"},
            seq : 0 .. MaxFrames + 1,
            status : Statuses, epoch : 0 .. MaxEpoch]

(* session: where the coordinator's thread stands; up, down: the streams;  *)
(* left, over: the worker's and the coordinator's end is closed.           *)
Connection == [session : {"unused", "backlog", "hello", "loop", "over"},
               up : Seq(Request), down : Seq(Reply), left : BOOLEAN, over : BOOLEAN]
Unused == [session |-> "unused", up |-> << >>, down |-> << >>, left |-> FALSE, over |-> FALSE]

(* What is left of a reply whose header failed its checks: less than one   *)
(* read of a header, or at least that.                                     *)
Rests == {"none", "short", "long"}

(* The members of Worker; call: the call that waits for a reply; rest:     *)
(* what the next read meets before a frame boundary; shook: history, the   *)
(* handshake on this channel succeeded, and the batches sent on it since   *)
(* have been of the epoch it granted.                                      *)
Worker == [channel : {None} \cup Connections, open : BOOLEAN, claim : Claims,
           granted : 0 .. MaxEpoch, fenced : BOOLEAN,
           seq : 0 .. MaxFrames + 1, call : {"none", "hello", "evidence"},
           rest : Rests, shook : BOOLEAN]
NewWorker == [channel |-> None, open |-> FALSE, claim |-> 0,
              granted |-> 0, fenced |-> FALSE, seq |-> 1,
              call |-> "none", rest |-> "none", shook |-> FALSE]

VARIABLES
    epoch,      \* coordinator: epoch_, and with it boot_
    deaf,       \* coordinator: the accept loop has ended, running_ is TRUE
    conn,       \* the connections
    made,       \* how many have been made
    worker,
    ingested,   \* governor: the batches ingested, as <<connection, sequence>>
    acked,      \* history: what send_evidence() returned last, batch and ack
    severed,    \* history: connections on which a call did not await its reply
    sent,       \* bound: frames the worker has sent
    damaged     \* environment: frames damaged so far

coordinator == << epoch, deaf >>
history     == << acked, severed >>
bounds      == << sent, damaged >>
vars == << coordinator, conn, made, worker, ingested, history, bounds >>

Init ==
    /\ epoch = 1 /\ deaf = FALSE
    /\ conn = [c \in Connections |-> Unused] /\ made = 0
    /\ worker = NewWorker
    /\ ingested = {} /\ acked = {} /\ severed = {}
    /\ sent = 0 /\ damaged = 0

Live(c) == conn[c].session \in {"hello", "loop"}
Idle == worker.call = "none"
Batch == << worker.channel, worker.seq >>

-----------------------------------------------------------------------------
(* The worker's side.                                                      *)

(* The worker's end of its channel closes: nobody reads what it is sent,   *)
(* and what it sent may be lost with the reset when replies are unread.    *)
Leave(connections, lost) ==
    [c \in Connections |->
        IF c # worker.channel THEN connections[c]
        ELSE [connections[c] EXCEPT !.left = TRUE, !.down = << >>,
                 !.up = IF lost /\ connections[c].down # << >> THEN << >> ELSE @]]

(* The epoch an operator configures: this one, an earlier one, or none.    *)
Configured == 0 .. epoch

(* connect(): what the worker knows of an earlier session is kept.         *)
Connect ==
    /\ Idle /\ made < MaxConnections
    /\ made' = made + 1
    /\ \E claim \in Configured :
          worker' = [worker EXCEPT !.claim = claim, !.channel = made + 1, !.open = TRUE,
                                   !.seq = 1, !.rest = "none", !.shook = FALSE]
    /\ \E lost \in BOOLEAN :
          conn' = [Leave(conn, lost) EXCEPT ![made + 1] = [Unused EXCEPT !.session = "backlog"]]
    /\ UNCHANGED << coordinator, ingested, history, bounds >>

(* Refused: the configuration is replaced, the channel is the old one.     *)
ConnectFails ==
    /\ Idle
    /\ \E claim \in Configured : worker' = [worker EXCEPT !.claim = claim]
    /\ UNCHANGED << coordinator, conn, made, ingested, history, bounds >>

(* The connections after a send.  Once the coordinator's end is over it    *)
(* fails, or is lost without the sender noticing.                          *)
Sent(type, seq, claim) ==
    [conn EXCEPT ![worker.channel].up =
        IF conn[worker.channel].over THEN @
        ELSE Append(@, [type |-> type, seq |-> seq, epoch |-> claim])]

Handshake ==
    /\ Idle /\ worker.open /\ sent < MaxFrames
    /\ conn' = Sent("hello", worker.seq, worker.claim)
    /\ worker' = [worker EXCEPT !.call = "hello"]
    /\ sent' = sent + 1
    /\ UNCHANGED << coordinator, made, ingested, history, damaged >>

(* The epoch a heartbeat carries.                                          *)
HeartbeatEpoch == IF worker.granted # 0 THEN worker.granted ELSE worker.claim

SendHeartbeat ==
    /\ Idle /\ worker.open /\ sent < MaxFrames
    /\ conn' = Sent("heartbeat", worker.seq + 1, HeartbeatEpoch)
    /\ worker' = [worker EXCEPT !.seq = @ + 1]
    /\ sent' = sent + 1
    /\ UNCHANGED << coordinator, made, ingested, history, damaged >>

(* The epoch of a batch is its caller's: nothing ties it to the session's. *)
SendEvidence ==
    /\ Idle /\ worker.open /\ sent < MaxFrames
    /\ \E e \in Configured :
          LET w == [worker EXCEPT !.seq = @ + 1, !.shook = @ /\ e = worker.granted]
          IN  /\ conn' = Sent("evidence", worker.seq + 1, e)
              /\ \/ worker' = [w EXCEPT !.call = "evidence"]
                 \/ conn[worker.channel].over /\ worker' = w
    /\ sent' = sent + 1
    /\ UNCHANGED << coordinator, made, ingested, history, damaged >>

SayGoodbye ==
    /\ Idle /\ worker.open /\ sent < MaxFrames
    /\ \E lost \in BOOLEAN : conn' = Leave(Sent("goodbye", worker.seq + 1, 0), lost)
    /\ worker' = [worker EXCEPT !.seq = @ + 1, !.open = FALSE, !.shook = FALSE]
    /\ sent' = sent + 1
    /\ UNCHANGED << coordinator, made, ingested, history, damaged >>

(* Mutant: the channel is gone and still taken for open.                   *)
CloseKeepsOpen ==
    /\ Idle /\ worker.channel # None
    /\ \E lost \in BOOLEAN : conn' = Leave(conn, lost)
    /\ worker' = [worker EXCEPT !.channel = None, !.shook = FALSE]
    /\ UNCHANGED << coordinator, made, ingested, history, bounds >>

Close ==
    /\ Idle /\ worker.channel # None
    /\ \E lost \in BOOLEAN : conn' = Leave(conn, lost)
    /\ worker' = [worker EXCEPT !.channel = None, !.open = FALSE, !.shook = FALSE]
    /\ UNCHANGED << coordinator, made, ingested, history, bounds >>

(* The process is killed, in the middle of a call too, and started again.  *)
Killed ==
    /\ worker # NewWorker
    /\ \E lost \in BOOLEAN : conn' = Leave(conn, lost)
    /\ worker' = NewWorker
    /\ severed' = IF Idle THEN severed ELSE severed \cup {worker.channel}
    /\ UNCHANGED << coordinator, made, ingested, acked, bounds >>

Returns(w) == worker' = [w EXCEPT !.call = "none"]

(* What handshake() makes of the answer.  Mutant: the epoch granted first  *)
(* is kept.                                                                *)
AfterHelloKeeps(r) ==
    [worker EXCEPT !.granted = IF worker.granted # 0 THEN worker.granted ELSE r.epoch,
                   !.fenced = IF r.status = "accepted" THEN @ ELSE r.status = "staleEpoch",
                   !.shook = r.status = "accepted"]

AfterHello(r) ==
    [worker EXCEPT !.granted = r.epoch,
                   !.fenced = IF r.status = "accepted" THEN @ ELSE r.status = "staleEpoch",
                   !.shook = r.status = "accepted"]

(* A reply has come and is read at its boundary: it is taken off the       *)
(* stream.                                                                 *)
Arrived == conn[worker.channel].down # << >>
Answered == ~Idle /\ worker.rest = "none" /\ Arrived
Answer == Head(conn[worker.channel].down)
Takes == conn' = [conn EXCEPT ![worker.channel].down = Tail(@)]

ReceiveHelloAck ==
    /\ worker.call = "hello" /\ Answered /\ Answer.type = "helloAck"
    /\ Takes /\ Returns(AfterHello(Answer))
    /\ UNCHANGED << coordinator, made, ingested, history, bounds >>

ReceiveFence ==
    /\ Answered /\ Answer.type = "fence"
    /\ Takes /\ Returns([worker EXCEPT !.fenced = TRUE])
    /\ UNCHANGED << coordinator, made, ingested, history, bounds >>

(* Whatever acknowledgement comes first is taken for this batch; torn: a   *)
(* call on this channel has not awaited its reply.                         *)
ReceiveAck ==
    /\ worker.call = "evidence" /\ Answered /\ Answer.type = "evidenceAck"
    /\ acked' = {[batch |-> Batch, seq |-> Answer.seq,
                 torn |-> worker.channel \in severed]}
    /\ Takes /\ Returns(worker)
    /\ UNCHANGED << coordinator, made, ingested, severed, bounds >>

Expected == IF worker.call = "hello" THEN "helloAck" ELSE "evidenceAck"

ReceiveOther ==
    /\ Answered /\ Answer.type \notin {"fence", Expected}
    /\ Takes /\ Returns(worker)
    /\ UNCHANGED << coordinator, made, ingested, history, bounds >>

(* A damaged payload is read to its end before its checksum is compared; a *)
(* damaged header fails its checks with the payload still in the stream,   *)
(* less than a header except for the detail of an error.                   *)
ReceiveDamaged ==
    /\ Answered /\ damaged < MaxDamage
    /\ damaged' = damaged + 1
    /\ \E rest \in {"none", "short"} \cup (IF Answer.type = "error" THEN {"long"} ELSE {}) :
          Returns([worker EXCEPT !.rest = rest])
    /\ Takes
    /\ UNCHANGED << coordinator, made, ingested, history, sent >>

(* Nothing closes the channel, and the next calls go on reading a header's *)
(* worth of bytes at a time.  A short rest is made up from the next reply, *)
(* whose rest is left.                                                     *)
ReceiveAcross ==
    /\ ~Idle /\ worker.rest = "short" /\ Arrived
    /\ Takes /\ \E rest \in {"short", "long"} : Returns([worker EXCEPT !.rest = rest])
    /\ UNCHANGED << coordinator, made, ingested, history, bounds >>

(* A long rest is read without waiting for this call's reply, and where it *)
(* ends at a boundary the stream is in step again, this call's reply still *)
(* to be read.                                                             *)
ReceiveGarbage ==
    /\ ~Idle /\ worker.rest = "long"
    /\ severed' = severed \cup {worker.channel}
    /\ \E rest \in Rests : Returns([worker EXCEPT !.rest = rest])
    /\ UNCHANGED << coordinator, conn, made, ingested, acked, bounds >>

(* The stream ends.  Mutant: the call gives up waiting for the reply.      *)
ReceiveNothing ==
    /\ ~Idle /\ worker.rest # "long" /\ ~Arrived
    /\ Returns(worker)
    /\ UNCHANGED << coordinator, conn, made, ingested, history, bounds >>

ReceiveEnd ==
    /\ ~Idle /\ worker.rest # "long" /\ ~Arrived
    /\ conn[worker.channel].over
    /\ Returns(worker)
    /\ UNCHANGED << coordinator, conn, made, ingested, history, bounds >>

WorkerCalls ==
    Connect \/ ConnectFails \/ Handshake \/ SendHeartbeat \/ SendEvidence \/ SayGoodbye \/ Close

WorkerReceives ==
    ReceiveHelloAck \/ ReceiveFence \/ ReceiveAck \/ ReceiveOther \/ ReceiveDamaged
    \/ ReceiveAcross \/ ReceiveGarbage \/ ReceiveEnd

-----------------------------------------------------------------------------
(* The coordinator's side.                                                 *)

(* channel->close(): when input is unread the connection is reset, and     *)
(* output not delivered yet may be lost with it.                           *)
Closed(k, lost) ==
    [k EXCEPT !.session = "over", !.over = TRUE, !.up = << >>,
              !.down = IF lost /\ k.up # << >> THEN << >> ELSE @]

Ends(c, k) == \E lost \in BOOLEAN : conn' = [conn EXCEPT ![c] = Closed(k, lost)]

(* A connection after a reply was sent; to a worker that has left it may   *)
(* also fail.                                                              *)
Replied(k, r) == [k EXCEPT !.down = IF k.left THEN @ ELSE Append(@, r)]
ReplyFails(k) == k.left

Others == UNCHANGED << coordinator, made, worker, history, sent >>
Nothing == UNCHANGED << ingested, damaged >>

Accept(c) ==
    /\ conn[c].session = "backlog" /\ ~deaf
    /\ Cardinality({d \in Connections : Live(d)}) < MaxSessions
    /\ conn' = [conn EXCEPT ![c].session = "hello"]
    /\ Nothing /\ Others

(* Mutant: the connection is forgotten without being closed.               *)
TurnAwayForgets(c) ==
    /\ conn[c].session = "backlog" /\ ~deaf
    /\ Cardinality({d \in Connections : Live(d)}) >= MaxSessions
    /\ conn' = [conn EXCEPT ![c].session = "over"]
    /\ Nothing /\ Others

TurnAway(c) ==
    /\ conn[c].session = "backlog" /\ ~deaf
    /\ Cardinality({d \in Connections : Live(d)}) >= MaxSessions
    /\ Ends(c, conn[c])
    /\ Nothing /\ Others

(* validate_claim().                                                       *)
Verdict(claim) ==
    CASE claim = 0 -> "malformed"
      [] claim \notin {0, epoch} -> "staleEpoch"
      [] claim = epoch -> "accepted"

HelloAck(status)  == [type |-> "helloAck", seq |-> 1, status |-> status, epoch |-> epoch]
Response(type, f) == [type |-> type, seq |-> f.seq, status |-> "accepted", epoch |-> epoch]

Reads(c, in) == conn[c].session = in /\ conn[c].up # << >>
Read(c) == Head(conn[c].up)
AfterRead(c) == [conn[c] EXCEPT !.up = Tail(@)]

ReadHello(c) ==
    /\ Reads(c, "hello") /\ Read(c).type = "hello"
    /\ LET k == AfterRead(c)
           status == Verdict(Read(c).epoch)
       IN  \/ /\ status = "accepted"
              /\ conn' = [conn EXCEPT ![c] =
                             [Replied(k, HelloAck(status)) EXCEPT !.session = "loop"]]
           \/ /\ status # "accepted"
              /\ Ends(c, Replied(k, HelloAck(status)))
           \/ ReplyFails(k) /\ Ends(c, k)
    /\ Nothing /\ Others

(* A heartbeat of the epoch in force only leaves its tick.                 *)
(* Mutant: it is acknowledged.                                             *)
ReadHeartbeatAcks(c) ==
    /\ Reads(c, "loop") /\ Read(c).type = "heartbeat" /\ Read(c).epoch = epoch
    /\ conn' = [conn EXCEPT ![c] = Replied(AfterRead(c), Response("evidenceAck", Read(c)))]
    /\ Nothing /\ Others

ReadHeartbeat(c) ==
    /\ Reads(c, "loop") /\ Read(c).type = "heartbeat" /\ Read(c).epoch = epoch
    /\ conn' = [conn EXCEPT ![c] = AfterRead(c)]
    /\ Nothing /\ Others

(* Evidence is ingested, then acknowledged with the sequence of its frame. *)
ReadEvidence(c) ==
    /\ Reads(c, "loop") /\ Read(c).type = "evidence" /\ Read(c).epoch = epoch
    /\ ingested' = ingested \cup {<< c, Read(c).seq >>}
    /\ LET k == AfterRead(c)
       IN  \/ conn' = [conn EXCEPT ![c] = Replied(k, Response("evidenceAck", Read(c)))]
           \/ ReplyFails(k) /\ Ends(c, k)
    /\ UNCHANGED damaged /\ Others

(* Work of another epoch is fenced; what comes before a hello or a second  *)
(* hello, and a goodbye, end the session.                                  *)
ReadOther(c) ==
    /\ LET k == AfterRead(c)
       IN  \/ /\ Reads(c, "hello") /\ Read(c).type # "hello"
              /\ Ends(c, k)
           \/ /\ Reads(c, "loop") /\ Read(c).type = "goodbye"
              /\ Ends(c, k)
           \/ /\ Reads(c, "loop") /\ Read(c).type \in {"heartbeat", "evidence"}
              /\ Read(c).epoch # epoch
              /\ Ends(c, Replied(k, Response("fence", Read(c))))
           \/ /\ Reads(c, "loop") /\ Read(c).type = "hello"
              /\ Ends(c, Replied(k, Response("error", Read(c))))
    /\ Nothing /\ Others

(* The frame fails a check of its header, its payload still unread, or of  *)
(* its payload.                                                            *)
ReadDamaged(c) ==
    /\ Live(c) /\ conn[c].up # << >> /\ damaged < MaxDamage
    /\ damaged' = damaged + 1
    /\ \E k \in {conn[c], AfterRead(c)} : Ends(c, k)
    /\ UNCHANGED ingested /\ Others

PeerGone(c) ==
    /\ Live(c) /\ conn[c].up = << >> /\ conn[c].left
    /\ Ends(c, conn[c])
    /\ Nothing /\ Others

SessionProceeds(c) ==
    Accept(c) \/ TurnAway(c) \/ ReadHello(c) \/ ReadHeartbeat(c) \/ ReadEvidence(c)
    \/ ReadOther(c) \/ ReadDamaged(c) \/ PeerGone(c)

(* accept() fails once: the loop ends and nobody notices.                  *)
AcceptFails ==
    /\ ~deaf
    /\ deaf' = TRUE
    /\ UNCHANGED << epoch, conn, made, worker, ingested, history, bounds >>

(* Stopped or crashed, and started with the next authority: every          *)
(* connection is over.                                                     *)
Restart ==
    /\ epoch < MaxEpoch
    /\ epoch' = epoch + 1 /\ deaf' = FALSE
    /\ \E lost \in SUBSET Connections :
          conn' = [c \in Connections |->
                      IF conn[c].session = "unused" THEN Unused ELSE Closed(conn[c], c \in lost)]
    /\ UNCHANGED << made, worker, ingested, history, bounds >>

-----------------------------------------------------------------------------
Next ==
    \/ WorkerCalls \/ Killed \/ WorkerReceives
    \/ \E c \in Connections : SessionProceeds(c)
    \/ AcceptFails \/ Restart

Spec == Init /\ [][Next]_vars

(* Threads that can run do: the accept loop, the sessions, and the worker  *)
(* inside a call.  Nobody has to call, to restart or to be killed.         *)
FairSpec ==
    /\ Spec
    /\ WF_vars(WorkerReceives)
    /\ \A c \in Connections : WF_vars(SessionProceeds(c))

-----------------------------------------------------------------------------
(* Properties.                                                             *)

(* Every variable stays in its range; a call in progress has a channel.    *)
TypeOK ==
    /\ epoch \in 1 .. MaxEpoch /\ deaf \in BOOLEAN
    /\ conn \in [Connections -> Connection] /\ made \in 0 .. MaxConnections
    /\ worker \in Worker
    /\ (~Idle \/ worker.open) => worker.channel # None
    /\ ingested \subseteq Connections \X (0 .. MaxFrames + 1)
    /\ acked \subseteq [batch : Connections \X (0 .. MaxFrames + 1), seq : 0 .. MaxFrames + 1,
                        torn : BOOLEAN]
    /\ severed \subseteq Connections
    /\ sent \in 0 .. MaxFrames /\ damaged \in 0 .. MaxDamage

(* What send_evidence() reports as an acknowledgement is that of a batch   *)
(* the governor has ingested from this channel, never of a later one; and  *)
(* although the worker compares no sequences it is the batch's own, unless *)
(* an earlier call on the channel was out of step and failed on what was   *)
(* left of a damaged reply without awaiting its own.                       *)
AckNamesBatch ==
    \A a \in acked :
        /\ << a.batch[1], a.seq >> \in ingested /\ a.seq <= a.batch[2]
        /\ ~a.torn => a.seq = a.batch[2]

(* No evidence is ingested behind the worker's back: when send_evidence()  *)
(* has returned its batch was ingested or never will be, unless a call on  *)
(* that channel has not awaited its reply: the process died, or the stream *)
(* was out of step and the call failed on what an earlier reply had left.  *)
NoLateEvidence ==
    \A c \in Connections \ severed :
        \A i \in DOMAIN conn[c].up :
            (conn[c].up[i].type = "evidence" /\ Live(c)) =>
                << c, conn[c].up[i].seq >> = Batch /\ worker.call = "evidence"

(* A worker that was accepted on its channel is not fenced there while the *)
(* batches its caller hands it are of the epoch it was granted: whatever   *)
(* it was granted or refused before, configured with since, or damaged,    *)
(* its heartbeats are of the epoch of the session.  A batch of another     *)
(* epoch may well be fenced mid stream.                                    *)
ServedIsNotFenced ==
    worker.shook =>
        \A i \in DOMAIN conn[worker.channel].down :
            conn[worker.channel].down[i].type # "fence"

(* handshake() and send_evidence() return although nothing times out, at   *)
(* capacity, after damage and over a restart, unless the connection waits  *)
(* for an accept loop that has ended on a failed accept().                 *)
CallReturns ==
    (~Idle) ~> (Idle \/ (deaf /\ conn[worker.channel].session = "backlog"))
=============================================================================
