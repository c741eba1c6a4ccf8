---------------------------- MODULE Coordinator ----------------------------
(***************************************************************************)
(* The coordinator: the thread that starts and stops it, the accept loop,  *)
(* one thread per session, the workers it has on record, and the authority *)
(* epoch it advances durably on every start.                               *)
(*                                                                         *)
(* The threads share running_ (atomic) and, under one mutex, the session   *)
(* count, the session channels and the worker records.  A step is what a   *)
(* thread does between two points at which another thread can act: one     *)
(* mutex section or one socket operation with the local work around it.    *)
(* Epoch and boot generation advance together and are one number here;     *)
(* counters, ticks and payloads are left out.                              *)
(***************************************************************************)
EXTENDS Integers, FiniteSets

CONSTANTS
    Connections,        \* connections that may exist at the same time
    Workers,            \* worker identities
    NoWorker,
    NoConnection,
    MaxWorkers,         \* config_.max_workers
    MaxEpoch,           \* the last epoch: advancing it is refused
    MaxLives            \* how often the coordinator is started

ASSUME CoordinatorAssumption ==
    /\ IsFiniteSet(Connections)
    /\ NoWorker \notin Workers /\ NoConnection \notin Connections
    /\ MaxWorkers \in Nat \ {0} /\ MaxEpoch \in Nat /\ MaxLives \in Nat

(* An authority a worker presents: the epoch, and for the properties the   *)
(* start of the coordinator that granted it.                               *)
Authority == [epoch : 0 .. MaxEpoch, life : 0 .. MaxLives]
Nobody    == [epoch |-> 0, life |-> 0]

(* otherHello: a hello of another protocol version.  bad: a frame that     *)
(* cannot be decoded or is not expected from a worker.                     *)
Kinds == {"none", "hello", "otherHello", "heartbeat", "evidence", "goodbye", "bad"}
Frame == [kind : Kinds, worker : Workers \cup {NoWorker}, authority : Authority]
NoFrame == [kind |-> "none", worker |-> NoWorker, authority |-> Nobody]

(* Where a connection stands: not accepted yet, held by the accept loop,   *)
(* or in its session thread.                                               *)
Serving  == {"loop", "receive", "reply", "notice"}
Sessions == {"hello", "ack", "finish", "retire"} \cup Serving
Phases   == {"free", "backlog", "held"} \cup Sessions

(* peer: the other end is open; cut: shut down by stop(); inbox: the frame *)
(* in flight; worker: `worker' of run_session(), if registered.            *)
Connection == [phase : Phases, peer : BOOLEAN, cut : BOOLEAN, inbox : Frame,
               worker : Workers \cup {NoWorker}, graceful : BOOLEAN]
Free == [phase |-> "free", peer |-> FALSE, cut |-> FALSE, inbox |-> NoFrame,
         worker |-> NoWorker, graceful |-> FALSE]

(* by: the session whose process, its incarnation, is on record.           *)
WorkerRecord == [known : BOOLEAN, connected : BOOLEAN, fenced : BOOLEAN,
                 by : Connections \cup {NoConnection}]
Unknown == [known |-> FALSE, connected |-> FALSE, fenced |-> FALSE, by |-> NoConnection]

VARIABLES
    owner,      \* where the thread calling start() and stop() stands
    running,    \* running_
    listening,  \* listener_
    acceptor,   \* accept_thread_: where run_accept_loop() stands
    held,       \* the connection it has accepted
    conn,       \* the connections and their sessions
    active,     \* active_sessions_
    channels,   \* session_channels_
    toCut,      \* stop(): the channels it has yet to interrupt
    workers,    \* workers_
    epoch,      \* epoch_
    durable,    \* the highest epoch in the store, 0 if none
    life,       \* environment: how often the coordinator was started
    granted,    \* environment: the authorities workers hold
    unwritten,  \* history: the epoch of some start was not journaled
    inherited   \* history: an authority of an earlier start was honoured

owned     == << owner, running, listening, toCut >>
accepting == << acceptor, held >>
registry  == << active, channels >>
authority == << epoch, durable, life, unwritten >>
given     == << granted, inherited >>
vars == << owned, accepting, conn, registry, workers, authority, given >>

Init ==
    /\ owner = "down" /\ running = FALSE /\ listening = FALSE /\ toCut = {}
    /\ acceptor = "none" /\ held = NoConnection
    /\ conn = [c \in Connections |-> Free]
    /\ active = 0 /\ channels = {}
    /\ workers = [w \in Workers |-> Unknown]
    /\ epoch = 0 /\ durable = 0 /\ life = 0
    /\ granted = {} /\ unwritten = FALSE /\ inherited = FALSE

Moves(c, from, to) ==
    /\ conn[c].phase = from
    /\ conn' = [conn EXCEPT ![c].phase = to]

-----------------------------------------------------------------------------
(* start().                                                                *)

(* The authority recovered from the store, advanced; a fresh store starts  *)
(* with the seed, 1.  Mutant: recovered, but not advanced.                 *)
NextEpochRecovered == IF durable = 0 THEN 1 ELSE durable

NextEpoch == IF durable = 0 THEN 1 ELSE durable + 1

(* The governor is bound to the new epoch, which journals it; that the     *)
(* record was not written is counted, but does not stop the start.         *)
Bind ==
    /\ owner = "down" /\ life < MaxLives
    /\ NextEpoch <= MaxEpoch
    /\ epoch' = NextEpoch
    /\ \/ durable' = NextEpoch /\ UNCHANGED unwritten
       \/ unwritten' = TRUE /\ UNCHANGED durable
    /\ life' = life + 1
    /\ owner' = "bound"
    /\ UNCHANGED << running, listening, toCut, accepting, conn, registry, workers, given >>

Listen ==
    /\ owner = "bound"
    /\ owner' = "up" /\ running' = TRUE /\ listening' = TRUE
    /\ acceptor' = "loop"
    /\ UNCHANGED << toCut, held, conn, registry, workers, authority, given >>

ListenFails ==
    /\ owner = "bound"
    /\ owner' = "down"
    /\ UNCHANGED << running, listening, toCut, accepting, conn, registry, workers,
                    authority, given >>

-----------------------------------------------------------------------------
(* stop().                                                                 *)

StopRunning ==
    /\ owner = "up"
    /\ owner' = "stopping" /\ running' = FALSE
    /\ UNCHANGED << listening, toCut, accepting, conn, registry, workers, authority, given >>

(* Connections that were not accepted are reset.                           *)
CloseListener ==
    /\ owner = "stopping"
    /\ owner' = "joining" /\ listening' = FALSE
    /\ conn' = [c \in Connections |->
                   IF conn[c].phase = "backlog" THEN Free ELSE conn[c]]
    /\ UNCHANGED << running, toCut, accepting, registry, workers, authority, given >>

(* The accept thread has been joined: the channels are copied.  Mutant:    *)
(* they are copied without waiting for it.                                 *)
JoinNotAwaited ==
    /\ owner = "joining"
    /\ owner' = "interrupting" /\ toCut' = channels
    /\ UNCHANGED << running, listening, accepting, conn, registry, workers,
                    authority, given >>

Join ==
    /\ owner = "joining" /\ acceptor = "ended"
    /\ owner' = "interrupting" /\ toCut' = channels
    /\ acceptor' = "none"
    /\ UNCHANGED << running, listening, held, conn, registry, workers, authority, given >>

Cut(c) ==
    /\ owner = "interrupting" /\ c \in toCut
    /\ toCut' = toCut \ {c}
    /\ conn' = [conn EXCEPT ![c].cut = conn[c].phase \in Sessions]
    /\ UNCHANGED << owner, running, listening, accepting, registry, workers,
                    authority, given >>

(* Mutant: the sessions are not awaited.                                   *)
SessionsOverAtOnce ==
    /\ owner = "interrupting" /\ toCut = {}
    /\ owner' = "down" /\ channels' = {}
    /\ UNCHANGED << running, listening, toCut, accepting, conn, active, workers,
                    authority, given >>

SessionsOver ==
    /\ owner = "interrupting" /\ toCut = {} /\ active = 0
    /\ owner' = "down" /\ channels' = {}
    /\ UNCHANGED << running, listening, toCut, accepting, conn, active, workers,
                    authority, given >>

OwnerStops ==
    StopRunning \/ CloseListener \/ Join \/ (\E c \in Connections : Cut(c)) \/ SessionsOver

(* The process ends; what survives is the store and what workers hold.     *)
Crash ==
    /\ owner' = "down" /\ running' = FALSE /\ listening' = FALSE /\ toCut' = {}
    /\ acceptor' = "none" /\ held' = NoConnection
    /\ conn' = [c \in Connections |-> Free]
    /\ active' = 0 /\ channels' = {}
    /\ workers' = [w \in Workers |-> Unknown]
    /\ UNCHANGED << authority, given >>

-----------------------------------------------------------------------------
(* The accept loop.                                                        *)

EndLoop ==
    /\ acceptor = "loop" /\ ~running
    /\ acceptor' = "ended"
    /\ UNCHANGED << owned, held, conn, registry, workers, authority, given >>

BeginAccept ==
    /\ acceptor = "loop" /\ running
    /\ acceptor' = "accept"
    /\ UNCHANGED << owned, held, conn, registry, workers, authority, given >>

AcceptConnection(c) ==
    /\ acceptor = "accept" /\ listening
    /\ Moves(c, "backlog", "held")
    /\ acceptor' = "accepted" /\ held' = c
    /\ UNCHANGED << owned, registry, workers, authority, given >>

AcceptInterrupted ==
    /\ acceptor = "accept" /\ ~listening
    /\ acceptor' = "ended"
    /\ UNCHANGED << owned, held, conn, registry, workers, authority, given >>

(* Any failure of accept() ends the loop, while the coordinator runs too.  *)
AcceptFails ==
    /\ acceptor = "accept" /\ listening
    /\ acceptor' = "ended"
    /\ UNCHANGED << owned, held, conn, registry, workers, authority, given >>

(* The connection leaves scope and closes.  Mutant: it stays with the loop.*)
DropKeeps(to) ==
    /\ acceptor' = to
    /\ conn' = [conn EXCEPT ![held] = Free]
    /\ UNCHANGED << owned, held, registry, workers, authority, given >>

Drop(to) ==
    /\ acceptor' = to
    /\ held' = NoConnection
    /\ conn' = [conn EXCEPT ![held] = Free]
    /\ UNCHANGED << owned, registry, workers, authority, given >>

DropStopping == acceptor = "accepted" /\ ~running /\ Drop("ended")

Recheck ==
    /\ acceptor = "accepted" /\ running
    /\ acceptor' = "admitting"
    /\ UNCHANGED << owned, held, conn, registry, workers, authority, given >>

(* Mutant: one session more than there is room for.                        *)
FullOneLate == active > MaxWorkers

Full == active >= MaxWorkers

DropFull == acceptor = "admitting" /\ Full /\ Drop("loop")

Admit ==
    /\ acceptor = "admitting" /\ ~Full
    /\ acceptor' = "registering"
    /\ UNCHANGED << owned, held, conn, registry, workers, authority, given >>

(* register_session(), then the session thread starts.                     *)
Register ==
    /\ acceptor = "registering"
    /\ active' = active + 1 /\ channels' = channels \cup {held}
    /\ conn' = [conn EXCEPT ![held].phase = "hello"]
    /\ acceptor' = "loop" /\ held' = NoConnection
    /\ UNCHANGED << owned, workers, authority, given >>

AcceptorProceeds ==
    \/ EndLoop \/ BeginAccept \/ (\E c \in Connections : AcceptConnection(c))
    \/ AcceptInterrupted \/ DropStopping \/ Recheck \/ DropFull \/ Admit \/ Register

-----------------------------------------------------------------------------
(* One session.                                                            *)

Reads(c, session) == conn' = [conn EXCEPT ![c] = [session EXCEPT !.inbox = NoFrame]]

ToFinish(session, graceful) == [session EXCEPT !.phase = "finish", !.graceful = graceful]

Untouched == UNCHANGED << owned, accepting, registry, authority >>

(* validate_claim(): the protocol version and the authority in force.      *)
Accepted(f) == f.kind = "hello" /\ f.authority.epoch = epoch

Honour(a) == inherited' = (inherited \/ a.life # life)

(* A worker that is not on record yet needs room in the registry, which    *)
(* forgets nobody.                                                         *)
HasRoom(w) ==
    workers[w].known \/ Cardinality({v \in Workers : workers[v].known}) < MaxWorkers

(* The hello is read, validated and, under the mutex, put on record.  The  *)
(* record of the worker's previous process is overwritten.                 *)
Claim(c) ==
    LET f == conn[c].inbox
    IN  /\ conn[c].phase = "hello" /\ Accepted(f) /\ HasRoom(f.worker)
        /\ workers' = [workers EXCEPT ![f.worker] =
               [known |-> TRUE, connected |-> TRUE, fenced |-> FALSE, by |-> c]]
        /\ Reads(c, [conn[c] EXCEPT !.phase = "ack", !.worker = f.worker])
        /\ Honour(f.authority)
        /\ UNCHANGED granted
        /\ Untouched

(* A refused hello is answered, too.                                       *)
Refuse(c) ==
    LET f == conn[c].inbox
    IN  /\ conn[c].phase = "hello" /\ f.kind \in {"hello", "otherHello"}
        /\ ~(Accepted(f) /\ HasRoom(f.worker))
        /\ Reads(c, [conn[c] EXCEPT !.phase = "ack"])
        /\ UNCHANGED << workers, given >>
        /\ Untouched

NotAHello(c) ==
    /\ conn[c].phase = "hello"
    /\ conn[c].inbox.kind \notin {"none", "hello", "otherHello"}
    /\ Reads(c, ToFinish(conn[c], FALSE))
    /\ UNCHANGED << workers, given >>
    /\ Untouched

SendAck(c) ==
    /\ conn[c].phase = "ack" /\ ~conn[c].cut
    /\ IF conn[c].worker = NoWorker
       THEN /\ conn' = [conn EXCEPT ![c] = ToFinish(@, FALSE)]
            /\ UNCHANGED given
       ELSE /\ Moves(c, "ack", "loop")
            /\ granted' = granted \cup {[epoch |-> epoch, life |-> life]}
            /\ UNCHANGED inherited
    /\ UNCHANGED workers
    /\ Untouched

CheckRunning(c) ==
    /\ conn[c].phase = "loop"
    /\ conn' = [conn EXCEPT ![c] = IF running THEN [@ EXCEPT !.phase = "receive"]
                                              ELSE ToFinish(@, FALSE)]
    /\ UNCHANGED << workers, given >>
    /\ Untouched

(* Evidence of the epoch in force reaches the governor and is acknowledged;*)
(* a heartbeat of that epoch only marks the worker's tick.                 *)
HandleWork(c) ==
    LET f == conn[c].inbox
    IN  /\ conn[c].phase = "receive"
        /\ f.kind \in {"heartbeat", "evidence"} /\ f.authority.epoch = epoch
        /\ Reads(c, [conn[c] EXCEPT !.phase = IF f.kind = "evidence" THEN "reply" ELSE "loop"])
        /\ Honour(f.authority)
        /\ UNCHANGED << workers, granted >>
        /\ Untouched

(* Work of another epoch is fenced; anything unexpected is an error.  A    *)
(* notice is due, except for a goodbye.                                    *)
HandleOther(c) ==
    LET f == conn[c].inbox
    IN  /\ conn[c].phase = "receive" /\ f.kind # "none"
        /\ ~(f.kind \in {"heartbeat", "evidence"} /\ f.authority.epoch = epoch)
        /\ Reads(c, IF f.kind = "goodbye" THEN ToFinish(conn[c], TRUE)
                    ELSE [conn[c] EXCEPT !.phase = "notice"])
        /\ UNCHANGED << workers, given >>
        /\ Untouched

(* A fence or an error: the session ends, also when it cannot be sent.     *)
SendNotice(c) ==
    /\ conn[c].phase = "notice" /\ ~conn[c].cut
    /\ conn' = [conn EXCEPT ![c] = ToFinish(@, FALSE)]
    /\ UNCHANGED << workers, given >>
    /\ Untouched

SendReply(c) ==
    /\ ~conn[c].cut
    /\ Moves(c, "reply", "loop")
    /\ UNCHANGED << workers, given >>
    /\ Untouched

(* A socket operation fails once the peer is gone or stop() has cut it.    *)
(* Mutant: only stop() ends it.                                            *)
LostWhenCut(c) == conn[c].cut

Lost(c) == conn[c].cut \/ ~conn[c].peer

IoFails(c) ==
    /\ Lost(c)
    /\ \/ conn[c].phase \in {"hello", "receive"} /\ conn[c].inbox.kind = "none"
       \/ conn[c].phase \in {"ack", "reply", "notice"}
    /\ conn' = [conn EXCEPT ![c] = ToFinish(@, FALSE)]
    /\ UNCHANGED << workers, given >>
    /\ Untouched

(* finish(): the record of the worker, whoever is on it by now, and the    *)
(* channel.  Mutant: a graceful end is not put on record.                  *)
FinishFencesOnly(c) ==
    LET w == conn[c].worker
    IN  /\ conn[c].phase = "finish"
        /\ workers' = IF w = NoWorker \/ conn[c].graceful THEN workers
                      ELSE [workers EXCEPT ![w].connected = FALSE, ![w].fenced = TRUE]
        /\ conn' = [conn EXCEPT ![c] = [Free EXCEPT !.phase = "retire"]]
        /\ UNCHANGED given
        /\ Untouched

Finish(c) ==
    LET w == conn[c].worker
    IN  /\ conn[c].phase = "finish"
        /\ workers' = IF w = NoWorker THEN workers
                      ELSE [workers EXCEPT ![w].connected = FALSE,
                                           ![w].fenced = ~conn[c].graceful]
        /\ conn' = [conn EXCEPT ![c] = [Free EXCEPT !.phase = "retire"]]
        /\ UNCHANGED given
        /\ Untouched

(* Mutant: the channel is forgotten, the session still counts.             *)
RetireUncounted(c) ==
    /\ Moves(c, "retire", "free")
    /\ channels' = channels \ {c}
    /\ UNCHANGED << owned, accepting, active, workers, authority, given >>

Retire(c) ==
    /\ Moves(c, "retire", "free")
    /\ active' = IF active > 0 THEN active - 1 ELSE 0
    /\ channels' = channels \ {c}
    /\ UNCHANGED << owned, accepting, workers, authority, given >>

(* What a session thread does without waiting for its peer.                *)
SessionProceeds(c) ==
    \/ Claim(c) \/ Refuse(c) \/ NotAHello(c)
    \/ CheckRunning(c) \/ HandleWork(c) \/ HandleOther(c)
    \/ IoFails(c) \/ Finish(c) \/ Retire(c)

-----------------------------------------------------------------------------
(* The other end.                                                          *)

Connect(c) ==
    /\ listening /\ conn[c].phase = "free" /\ c \notin toCut
    /\ conn' = [conn EXCEPT ![c] = [Free EXCEPT !.phase = "backlog", !.peer = TRUE]]
    /\ UNCHANGED << owned, accepting, registry, workers, authority, given >>

(* A worker knows the authorities it was granted; the current one it may   *)
(* also have been told by its operator.                                    *)
Known == granted \cup {[epoch |-> epoch, life |-> life]}

Greetings ==
    [kind : {"hello"}, worker : Workers, authority : Known]
    \cup [kind : {"otherHello", "bad"}, worker : {NoWorker}, authority : {Nobody}]

Messages ==
    [kind : {"heartbeat", "evidence"}, worker : {NoWorker}, authority : Known]
    \cup [kind : {"goodbye", "bad"}, worker : {NoWorker}, authority : {Nobody}]

(* What is sent before the session waits for it arrives when it does.      *)
Send(c) ==
    /\ conn[c].peer /\ conn[c].inbox = NoFrame
    /\ conn[c].phase \in {"hello", "receive"}
    /\ \E f \in IF conn[c].phase = "hello" THEN Greetings ELSE Messages :
          conn' = [conn EXCEPT ![c].inbox = f]
    /\ UNCHANGED << owned, accepting, registry, workers, authority, given >>

Disconnect(c) ==
    /\ conn[c].peer /\ conn[c].phase \in Sessions
    /\ conn' = [conn EXCEPT ![c].peer = FALSE]
    /\ UNCHANGED << owned, accepting, registry, workers, authority, given >>

-----------------------------------------------------------------------------
Next ==
    \/ Bind \/ Listen \/ ListenFails
    \/ OwnerStops
    \/ Crash
    \/ AcceptorProceeds \/ AcceptFails
    \/ \E c \in Connections : SessionProceeds(c) \/ SendAck(c) \/ SendReply(c) \/ SendNotice(c)
    \/ \E c \in Connections : Connect(c) \/ Send(c) \/ Disconnect(c)

Spec == Init /\ [][Next]_vars

(* Threads that can run do.  Calling stop(), and everything that waits for *)
(* a peer, is up to others.                                                *)
FairSpec ==
    /\ Spec
    /\ WF_vars(OwnerStops /\ owner # "up")
    /\ WF_vars(AcceptorProceeds)
    /\ \A c \in Connections : WF_vars(SessionProceeds(c))

-----------------------------------------------------------------------------
(* Properties.                                                             *)

InSession == {c \in Connections : conn[c].phase \in Sessions}

(* Every variable stays in its range; the accept loop holds a connection   *)
(* exactly while it has one to decide about.                               *)
TypeOK ==
    /\ owner \in {"down", "bound", "up", "stopping", "joining", "interrupting"}
    /\ running \in BOOLEAN /\ listening \in BOOLEAN
    /\ acceptor \in {"none", "loop", "accept", "accepted", "admitting", "registering", "ended"}
    /\ held \in Connections \cup {NoConnection}
    /\ \A c \in Connections : (held = c) = (conn[c].phase = "held")
    /\ conn \in [Connections -> Connection]
    /\ active \in Nat /\ channels \subseteq Connections /\ toCut \subseteq Connections
    /\ workers \in [Workers -> WorkerRecord]
    /\ epoch \in 0 .. MaxEpoch /\ durable \in 0 .. MaxEpoch /\ life \in 0 .. MaxLives
    /\ granted \subseteq Authority /\ unwritten \in BOOLEAN /\ inherited \in BOOLEAN

(* The sessions are counted once each, never exceed the worker bound, and  *)
(* every one of them is among the channels stop() interrupts.              *)
SessionsAccounted ==
    /\ active = Cardinality(InSession) /\ channels = InSession
    /\ active <= MaxWorkers

(* When stop() has returned, or a start has not come to listening, nothing *)
(* runs: no session is left, no worker is on record as connected.          *)
StoppedIsQuiet ==
    owner \in {"down", "bound"} =>
        /\ InSession = {} /\ held = NoConnection /\ acceptor = "none"
        /\ \A w \in Workers : ~workers[w].connected

(* A worker on record as connected is one whose last session to claim it   *)
(* is still there to take that back.                                       *)
ConnectedHasSession ==
    \A w \in Workers : workers[w].connected =>
        \E c \in Connections : /\ workers[w].by = c /\ conn[c].worker = w
                               /\ conn[c].phase \in {"ack", "finish"} \cup Serving

(* A restarted coordinator never accepts work that was authorised by the   *)
(* previous incarnation, as long as every start could journal its epoch.   *)
NothingInherited == inherited => unwritten

(* stop() returns, whatever the peers do.                                  *)
StopReturns == owner = "stopping" ~> owner = "down"

(* A session whose peer is gone ends.                                      *)
LossEndsSession ==
    \A c \in Connections :
        (conn[c].phase \in Sessions /\ ~conn[c].peer) ~> conn[c].phase = "free"

(* Claimed: fencing is of a specific process, so a worker whose process on *)
(* record is being served is neither disconnected nor fenced.              *)
ServedIsConnected ==
    \A w \in Workers, c \in Connections :
        (workers[w].by = c /\ conn[c].worker = w /\ conn[c].phase \in Serving)
            => workers[w].connected /\ ~workers[w].fenced
=============================================================================
