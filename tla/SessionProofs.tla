---------------------------- MODULE SessionProofs ----------------------------
(***************************************************************************)
(* What Session guarantees for any number of connections, frames, restarts *)
(* and damaged frames.  The worker compares no sequences, so that an       *)
(* acknowledgement is its own rests on what may be under way at once: the  *)
(* inductive invariant says that a channel on which every call has awaited *)
(* its reply carries at most one request, the last frame of its stream and *)
(* the one the worker waits for, and at most one reply, never both.        *)
(***************************************************************************)
EXTENDS Session, SequenceTheorems, TLAPS

Wire == conn[worker.channel]

Serving(c) == c = worker.channel /\ worker.open

(* The counters bound each other; a call is on an open channel.            *)
Bounded ==
    /\ ~Idle => worker.open
    /\ worker.seq <= sent + 1
    /\ worker.channel <= made /\ severed \subseteq 1 .. made

(* The two ends of a connection: only the worker's open channel is read.   *)
ShapeOf(c) ==
    /\ c > made <=> conn[c].session = "unused"
    /\ conn[c].session = "unused" => conn[c] = Unused
    /\ conn[c].over <=> conn[c].session = "over"
    /\ conn[c].over => conn[c].up = << >>
    /\ ~Serving(c) \/ conn[c].session \in {"backlog", "hello"} => conn[c].down = << >>
    /\ conn[c].left <=> conn[c].session # "unused" /\ ~Serving(c)
Shape == \A c \in Connections : ShapeOf(c)

(* A request under way is the one the worker waits for, behind everything  *)
(* else it sent.                                                           *)
RequestsOf(c) ==
    \A i \in DOMAIN conn[c].up :
        LET f == conn[c].up[i]
        IN  f.type \in {"hello", "evidence"} =>
                /\ c = worker.channel /\ i = Len(conn[c].up)
                /\ f.type = worker.call
                /\ f.seq = worker.seq
Requests == \A c \in Connections \ severed : RequestsOf(c)

(* What a reply under way may say.                                         *)
Answers(r) ==
    /\ Idle => Wire.over /\ r.type = "fence"
    /\ r.type = "evidenceAck" =>
           worker.call = "evidence" /\ r.seq = worker.seq /\ Batch \in ingested
    /\ (r.type = "helloAck" /\ r.status = "accepted" /\ ~Wire.over) =>
           r.epoch = epoch /\ Wire.session = "loop"

(* As long as no call failed without awaiting its reply, a reply is alone  *)
(* on the channel.                                                         *)
Replies ==
    (worker.open /\ worker.channel \notin severed /\ Wire.down # << >>) =>
        Len(Wire.down) = 1 /\ Wire.up = << >> /\ Answers(Head(Wire.down))

(* On any channel an acknowledgement under way is of a batch ingested from *)
(* it, not of a later one than the worker has sent.                        *)
Numbered ==
    worker.open =>
        /\ \A i \in DOMAIN Wire.up : Wire.up[i].seq <= worker.seq
        /\ \A i \in DOMAIN Wire.down :
               Wire.down[i].type = "evidenceAck" =>
                   /\ << worker.channel, Wire.down[i].seq >> \in ingested
                   /\ Wire.down[i].seq <= worker.seq

(* A channel that was out of step has had its answer to the hello.         *)
Late ==
    (worker.open /\ (worker.rest # "none" \/ worker.channel \in severed)) =>
        /\ Wire.session \in {"loop", "over"}
        /\ \A i \in DOMAIN Wire.down : Wire.down[i].type # "helloAck"

(* An accepted worker sends work of the epoch of its session.              *)
Served ==
    worker.shook =>
        /\ worker.open
        /\ \A i \in DOMAIN Wire.down : Wire.down[i].type # "fence"
        /\ ~Wire.over =>
               /\ worker.granted = epoch /\ Wire.session = "loop"
               /\ \A i \in DOMAIN Wire.up :
                      Wire.up[i].type \in {"heartbeat", "evidence"} => Wire.up[i].epoch = epoch

IInv == /\ TypeOK /\ Bounded /\ Shape /\ Requests /\ Replies /\ Numbered /\ Late
        /\ Served /\ AckNamesBatch

-----------------------------------------------------------------------------
(* The records of the model are of their types.                            *)

(* The bounds are small naturals, and what starts is of its type.          *)
LEMMA Records ==
    /\ Unused \in Connection /\ NewWorker \in Worker
    /\ << >> \in Seq(Request) /\ << >> \in Seq(Reply)
    /\ Connections \subseteq Nat \ {0} /\ None \notin Connections
<1>1. << >> \in Seq(Request) /\ << >> \in Seq(Reply)
  OBVIOUS
<1>2. Unused \in Connection
  BY <1>1 DEF Unused, Connection
<1>3. NewWorker \in Worker
  BY SessionAssumption DEF NewWorker, Worker, Claims, Rests
<1> QED
  BY <1>1, <1>2, <1>3 DEF Connections, None

(* Reading the head of a stream.                                           *)
LEMMA ReadOne ==
    ASSUME NEW S, NEW s \in Seq(S), s # << >>
    PROVE  /\ Head(s) \in S /\ Tail(s) \in Seq(S) /\ Head(s) = s[1]
           /\ 1 \in DOMAIN s /\ Len(Tail(s)) = Len(s) - 1
           /\ \A i \in DOMAIN Tail(s) : i + 1 \in DOMAIN s /\ Tail(s)[i] = s[i + 1]
           /\ (Len(s) = 1 <=> Tail(s) = << >>)
<1>1. s = << >> <=> Len(s) = 0
  OBVIOUS
<1>2. /\ Len(s) \in Nat \ {0} /\ DOMAIN s = 1 .. Len(s)
      /\ \A i \in DOMAIN s : s[i] \in S
  BY <1>1
<1>3. Head(s) = s[1] /\ Head(s) \in S /\ 1 \in DOMAIN s
  BY <1>2
<1>4. Tail(s) \in Seq(S) /\ Len(Tail(s)) = Len(s) - 1
  BY <1>1
<1>5. \A i \in DOMAIN Tail(s) : i + 1 \in DOMAIN s /\ Tail(s)[i] = s[i + 1]
  BY <1>1, <1>2, <1>4
<1>6. Tail(s) = << >> <=> Len(Tail(s)) = 0
  BY <1>4, EmptySeq
<1> QED
  BY <1>2, <1>3, <1>4, <1>5, <1>6

(* Adding a frame to a stream.                                             *)
LEMMA SendOne ==
    ASSUME NEW S, NEW s \in Seq(S), NEW e \in S
    PROVE  /\ Append(s, e) \in Seq(S) /\ Append(s, e) # << >>
           /\ Len(Append(s, e)) = Len(s) + 1 /\ Len(s) \in Nat
           /\ DOMAIN Append(s, e) = 1 .. Len(s) + 1 /\ DOMAIN s = 1 .. Len(s)
           /\ \A i \in DOMAIN s : Append(s, e)[i] = s[i]
           /\ Append(s, e)[Len(s) + 1] = e
           /\ (s = << >> => Head(Append(s, e)) = e /\ Len(s) = 0)
  OBVIOUS

(* What the coordinator makes of a connection is one: closed,              *)
LEMMA ClosedIs ==
    ASSUME NEW k \in Connection, NEW lost \in BOOLEAN
    PROVE  LET z == Closed(k, lost)
           IN  /\ z \in Connection /\ z.session = "over" /\ z.over
               /\ z.up = << >> /\ z.left = k.left
               /\ z.down \in {k.down, << >>}
  BY Records DEF Closed, Connection

(* answered,                                                               *)
LEMMA RepliedIs ==
    ASSUME NEW k \in Connection, NEW r \in Reply
    PROVE  LET z == Replied(k, r)
           IN  /\ z \in Connection /\ z.session = k.session
               /\ z.up = k.up /\ z.left = k.left /\ z.over = k.over
               /\ z.down = IF k.left THEN k.down ELSE Append(k.down, r)
<1>1. Append(k.down, r) \in Seq(Reply)
  BY SendOne DEF Connection
<1> QED
  BY <1>1 DEF Replied, Connection

(* in another state of its session,                                        *)
LEMMA MovedIs ==
    ASSUME NEW k \in Connection, NEW p \in {"hello", "loop"}
    PROVE  LET z == [k EXCEPT !.session = p]
           IN  /\ z \in Connection /\ z.session = p
               /\ z.up = k.up /\ z.left = k.left /\ z.over = k.over
               /\ z.down = k.down
  BY DEF Connection

(* or read by one frame.                                                   *)
LEMMA ReadIs ==
    ASSUME NEW k \in Connection, k.up # << >>
    PROVE  LET z == [k EXCEPT !.up = Tail(@)]
           IN  /\ z \in Connection /\ z.session = k.session
               /\ z.up = Tail(k.up) /\ z.left = k.left /\ z.over = k.over
               /\ z.down = k.down
<1>1. Tail(k.up) \in Seq(Request)
  BY ReadOne DEF Connection
<1> QED
  BY <1>1 DEF Connection

(* Reading a frame and answering it.                                       *)
LEMMA AnsweredIs ==
    ASSUME NEW k \in Connection, k.up # << >>, NEW r \in Reply
    PROVE  LET z == Replied([k EXCEPT !.up = Tail(@)], r)
           IN  /\ z \in Connection /\ z.session = k.session
               /\ z.up = Tail(k.up) /\ z.left = k.left /\ z.over = k.over
               /\ z.down = IF k.left THEN k.down ELSE Append(k.down, r)
<1> DEFINE read == [k EXCEPT !.up = Tail(@)]
<1>1. /\ read \in Connection /\ read.session = k.session
      /\ read.up = Tail(k.up) /\ read.left = k.left /\ read.over = k.over
      /\ read.down = k.down
  BY ReadIs
<1> HIDE DEF read
<1>2. LET z == Replied(read, r)
      IN  /\ z \in Connection /\ z.session = k.session
          /\ z.up = Tail(k.up) /\ z.left = k.left /\ z.over = k.over
          /\ z.down = IF k.left THEN k.down ELSE Append(k.down, r)
  BY <1>1, RepliedIs
<1> QED
  BY <1>2 DEF read

-----------------------------------------------------------------------------
(* The shape of the steps.                                                 *)

(* What the frame f a session reads is answered with.                      *)
ReplyTo(c, f, r, k) ==
    \/ /\ f.type = "evidence" /\ r.type = "evidenceAck" /\ r.seq = f.seq
       /\ << c, f.seq >> \in ingested'
    \/ /\ f.type \in {"heartbeat", "evidence"} /\ f.epoch # epoch
       /\ conn[c].session = "loop" /\ k.over /\ r.type = "fence"
    \/ /\ f.type = "hello" /\ r.type = "helloAck" /\ conn[c].session = "hello"
       /\ k.over \/ (f.epoch = epoch /\ r.epoch = epoch /\ k.session = "loop")
    \/ f.type = "hello" /\ r.type = "error" /\ k.over

(* A session moves on: its stream is left alone, read by one frame or      *)
(* dropped, and what was read may be answered.                             *)
MovesOn(c, k) ==
    /\ k \in Connection /\ k.left = conn[c].left
    /\ conn[c].session \notin {"unused", "over"} /\ k.session # "unused"
    /\ conn[c].session = "loop" /\ ~k.over => k.session = "loop"
    /\ k.session \in {"backlog", "hello"} => conn[c].session = "backlog" /\ k.down = conn[c].down
    /\ k.over <=> k.session = "over"
    /\ k.over => k.up = << >>
    /\ \/ k.up = << >>
       \/ k.up = conn[c].up
       \/ conn[c].up # << >> /\ k.up = Tail(conn[c].up)
    /\ \/ k.down \in {conn[c].down, << >>}
       \/ /\ ~conn[c].left /\ conn[c].up # << >>
          /\ k.over \/ k.up = Tail(conn[c].up)
          /\ \E r \in Reply : /\ k.down = Append(conn[c].down, r)
                              /\ ReplyTo(c, Head(conn[c].up), r, k)

(* Every step of a session is of that shape, and touches nothing else but  *)
(* the governor's batches.                                                 *)
LEMMA SessionShape ==
    ASSUME TypeOK, Shape, NEW c \in Connections, SessionProceeds(c)
    PROVE  /\ UNCHANGED << coordinator, made, worker, history, sent >>
           /\ ingested \subseteq ingested'
           /\ ingested' \subseteq Connections \X (0 .. MaxFrames + 1)
           /\ damaged' \in 0 .. MaxDamage
           /\ \E k : MovesOn(c, k) /\ conn' = [conn EXCEPT ![c] = k]
<1>1. /\ conn[c] \in Connection /\ conn \in [Connections -> Connection]
      /\ conn[c].up \in Seq(Request) /\ conn[c].down \in Seq(Reply)
      /\ ingested \subseteq Connections \X (0 .. MaxFrames + 1)
      /\ damaged \in 0 .. MaxDamage /\ epoch \in 0 .. MaxEpoch
      /\ conn[c].over <=> conn[c].session = "over"
  BY DEF TypeOK, Shape, ShapeOf, Connection
<1> DEFINE Moves(k) == MovesOn(c, k) /\ conn' = [conn EXCEPT ![c] = k]
           f == Head(conn[c].up)
           read == [conn[c] EXCEPT !.up = Tail(@)]
<1>2. /\ UNCHANGED << coordinator, made, worker, history, sent >>
      /\ ingested' = ingested \/ (Reads(c, "loop") /\ ingested' = ingested \cup {<< c, f.seq >>})
      /\ damaged' \in {damaged, damaged + 1} /\ (damaged' # damaged => damaged < MaxDamage)
  BY DEF SessionProceeds, Accept, TurnAway, ReadHello, ReadHeartbeat, ReadEvidence, ReadOther,
         ReadDamaged, PeerGone, Nothing, Others, Read
<1>3. ASSUME conn[c].up # << >>
      PROVE  /\ f \in Request /\ Tail(conn[c].up) \in Seq(Request)
             /\ read \in Connection /\ read.session = conn[c].session
             /\ read.up = Tail(conn[c].up) /\ read.down = conn[c].down
             /\ read.left = conn[c].left /\ read.over = conn[c].over
  BY <1>1, <1>3, ReadOne, ReadIs
<1>4. /\ ingested \subseteq ingested' /\ damaged' \in 0 .. MaxDamage
      /\ ingested' \subseteq Connections \X (0 .. MaxFrames + 1)
  <2>1. Reads(c, "loop") => f.seq \in 0 .. MaxFrames + 1
    BY <1>3 DEF Reads, Request
  <2> QED
    BY <1>1, <1>2, <2>1, SessionAssumption
<1>5. ASSUME NEW lost \in BOOLEAN, conn[c].session \notin {"unused", "over"},
             NEW k \in Connection, k.left = conn[c].left, k.down = conn[c].down,
             conn' = [conn EXCEPT ![c] = Closed(k, lost)]
      PROVE  Moves(Closed(k, lost))
  BY <1>5, ClosedIs DEF MovesOn
<1>6. ASSUME NEW lost \in BOOLEAN, conn[c].session \notin {"unused", "over"},
             conn[c].up # << >>, NEW r \in Reply,
             \A z : z.over => ReplyTo(c, f, r, z),
             conn' = [conn EXCEPT ![c] = Closed(Replied(read, r), lost)]
      PROVE  Moves(Closed(Replied(read, r), lost))
  <2> DEFINE k == Replied(read, r)
             z == Closed(k, lost)
  <2>1. /\ k \in Connection /\ k.left = conn[c].left
        /\ k.down = IF conn[c].left THEN conn[c].down ELSE Append(conn[c].down, r)
    BY <1>1, <1>6, AnsweredIs
  <2>2. /\ z \in Connection /\ z.session = "over" /\ z.over /\ z.up = << >>
        /\ z.left = k.left /\ z.down \in {k.down, << >>}
    BY <2>1, ClosedIs
  <2> HIDE DEF k, z
  <2>3. MovesOn(c, z)
    BY <1>6, <2>1, <2>2 DEF MovesOn
  <2> QED
    BY <1>6, <2>3 DEF k, z
<1>7. ASSUME NEW status \in Statuses PROVE HelloAck(status) \in Reply
  BY <1>1, SessionAssumption DEF HelloAck, Reply
<1>8. ASSUME conn[c].up # << >>, NEW type \in {"evidenceAck", "fence", "error"}
      PROVE  /\ Response(type, f) \in Reply /\ Response(type, f).type = type
             /\ Response(type, f).seq = f.seq
  BY <1>1, <1>3, <1>8 DEF Response, Reply, Request, Statuses
<1>10. CASE Accept(c)
  <2> DEFINE k == [conn[c] EXCEPT !.session = "hello"]
  <2>1. Moves(k)
    BY <1>1, <1>10, MovedIs DEF Accept, MovesOn
  <2> QED
    BY <1>2, <1>4, <2>1
<1>11. CASE TurnAway(c) \/ PeerGone(c)
  <2>1. PICK lost \in BOOLEAN : conn' = [conn EXCEPT ![c] = Closed(conn[c], lost)]
    BY <1>11 DEF TurnAway, PeerGone, Ends
  <2>2. Moves(Closed(conn[c], lost))
    BY <1>1, <1>5, <1>11, <2>1 DEF TurnAway, PeerGone, Live
  <2> QED
    BY <1>2, <1>4, <2>2
<1>12. CASE ReadHello(c)
  <2>0. conn[c].session = "hello" /\ conn[c].up # << >> /\ f.type = "hello"
    BY <1>12 DEF ReadHello, Reads, Read
  <2> DEFINE status == Verdict(f.epoch)
             k == Replied(read, HelloAck(status))
  <2>1. status \in Statuses /\ (status = "accepted" => f.epoch = epoch)
    <3>1. f.epoch \in 0 .. MaxEpoch
      BY <1>3, <2>0 DEF Request, Claims
    <3> QED
      BY <1>1, <3>1 DEF Verdict, Statuses
  <2>2. /\ HelloAck(status) \in Reply /\ HelloAck(status).type = "helloAck"
        /\ HelloAck(status).epoch = epoch
    BY <1>7, <2>1 DEF HelloAck
  <2>3. CASE status = "accepted" /\ conn' = [conn EXCEPT ![c] = [k EXCEPT !.session = "loop"]]
    <3> DEFINE z == [k EXCEPT !.session = "loop"]
    <3>1. /\ k \in Connection /\ k.up = Tail(conn[c].up) /\ k.left = conn[c].left
          /\ k.over = conn[c].over
          /\ k.down = IF conn[c].left THEN conn[c].down
                                      ELSE Append(conn[c].down, HelloAck(status))
      BY <1>1, <2>0, <2>2, AnsweredIs
    <3>2. /\ z \in Connection /\ z.session = "loop" /\ z.up = k.up /\ z.left = k.left
          /\ z.over = k.over /\ z.down = k.down
      BY <3>1, MovedIs
    <3> HIDE DEF k, z
    <3>3. ReplyTo(c, f, HelloAck(status), z)
      BY <2>0, <2>1, <2>2, <2>3, <3>2 DEF ReplyTo
    <3>4. MovesOn(c, z)
      BY <1>1, <2>0, <2>2, <3>1, <3>2, <3>3 DEF MovesOn
    <3> QED
      BY <1>2, <1>4, <2>3, <3>4 DEF z
  <2>4. CASE Ends(c, k)
    <3>1. PICK lost \in BOOLEAN : conn' = [conn EXCEPT ![c] = Closed(k, lost)]
      BY <2>4 DEF Ends
    <3>2. \A z : z.over => ReplyTo(c, f, HelloAck(status), z)
      BY <2>0, <2>2 DEF ReplyTo
    <3>3. Moves(Closed(k, lost))
      BY <1>6, <2>0, <2>2, <3>1, <3>2
    <3> QED
      BY <1>2, <1>4, <3>3
  <2>5. CASE Ends(c, read)
    <3>1. PICK lost \in BOOLEAN : conn' = [conn EXCEPT ![c] = Closed(read, lost)]
      BY <2>5 DEF Ends
    <3>2. Moves(Closed(read, lost))
      BY <1>3, <1>5, <2>0, <3>1
    <3> QED
      BY <1>2, <1>4, <3>2
  <2> QED
    BY <1>12, <2>3, <2>4, <2>5 DEF ReadHello, AfterRead, Read
<1>13. CASE ReadHeartbeat(c)
  <2>1. /\ conn[c].session = "loop" /\ conn[c].up # << >>
        /\ conn' = [conn EXCEPT ![c] = read]
    BY <1>13 DEF ReadHeartbeat, Reads, AfterRead
  <2>2. Moves(read)
    BY <1>1, <1>3, <2>1 DEF MovesOn
  <2> QED
    BY <1>2, <1>4, <2>2
<1>14. CASE ReadEvidence(c)
  <2>0. /\ conn[c].session = "loop" /\ conn[c].up # << >> /\ f.type = "evidence"
        /\ ingested' = ingested \cup {<< c, f.seq >>}
    BY <1>14 DEF ReadEvidence, Reads, Read
  <2> DEFINE r == Response("evidenceAck", f)
             k == Replied(read, r)
  <2>1. r \in Reply /\ r.type = "evidenceAck" /\ r.seq = f.seq
    BY <1>8, <2>0
  <2>2. CASE conn' = [conn EXCEPT ![c] = k]
    <3>1. /\ k \in Connection /\ k.up = Tail(conn[c].up) /\ k.left = conn[c].left
          /\ k.over = conn[c].over /\ k.session = conn[c].session
          /\ k.down = IF conn[c].left THEN conn[c].down ELSE Append(conn[c].down, r)
      BY <1>1, <2>0, <2>1, AnsweredIs
    <3>2. ReplyTo(c, f, r, k)
      BY <2>0, <2>1 DEF ReplyTo
    <3> HIDE DEF k, r
    <3>3. MovesOn(c, k)
      BY <1>1, <2>0, <2>1, <3>1, <3>2 DEF MovesOn
    <3> QED
      BY <1>2, <1>4, <2>2, <3>3 DEF k, r
  <2>3. CASE Ends(c, read)
    <3>1. PICK lost \in BOOLEAN : conn' = [conn EXCEPT ![c] = Closed(read, lost)]
      BY <2>3 DEF Ends
    <3>2. Moves(Closed(read, lost))
      BY <1>3, <1>5, <2>0, <3>1
    <3> QED
      BY <1>2, <1>4, <3>2
  <2> QED
    BY <1>14, <2>2, <2>3 DEF ReadEvidence, AfterRead, Read
<1>15. CASE ReadOther(c)
  <2>0. conn[c].session \in {"hello", "loop"} /\ conn[c].up # << >>
    BY <1>15 DEF ReadOther, Reads
  <2>1. CASE Ends(c, read)
    <3>1. PICK lost \in BOOLEAN : conn' = [conn EXCEPT ![c] = Closed(read, lost)]
      BY <2>1 DEF Ends
    <3>2. Moves(Closed(read, lost))
      BY <1>3, <1>5, <2>0, <3>1
    <3> QED
      BY <1>2, <1>4, <3>2
  <2>2. ASSUME NEW type \in {"fence", "error"}, Ends(c, Replied(read, Response(type, f))),
               \A z : z.over => ReplyTo(c, f, Response(type, f), z)
        PROVE  \E k : Moves(k)
    <3>1. PICK lost \in BOOLEAN :
              conn' = [conn EXCEPT ![c] = Closed(Replied(read, Response(type, f)), lost)]
      BY <2>2 DEF Ends
    <3>2. Moves(Closed(Replied(read, Response(type, f)), lost))
      BY <1>6, <1>8, <2>0, <2>2, <3>1
    <3> QED
      BY <3>2
  <2>3. ASSUME NEW type \in {"fence", "error"}
        PROVE  Response(type, f).type = type
    BY <1>8, <2>0
  <2>4. CASE /\ conn[c].session = "loop" /\ f.type \in {"heartbeat", "evidence"}
             /\ f.epoch # epoch /\ Ends(c, Replied(read, Response("fence", f)))
    <3>1. \A z : z.over => ReplyTo(c, f, Response("fence", f), z)
      BY <2>3, <2>4 DEF ReplyTo
    <3> QED
      BY <1>2, <1>4, <2>2, <2>4, <3>1
  <2>5. CASE f.type = "hello" /\ Ends(c, Replied(read, Response("error", f)))
    <3>1. \A z : z.over => ReplyTo(c, f, Response("error", f), z)
      BY <2>3, <2>5 DEF ReplyTo
    <3> QED
      BY <1>2, <1>4, <2>2, <2>5, <3>1
  <2> QED
    BY <1>15, <2>1, <2>4, <2>5 DEF ReadOther, AfterRead, Read, Reads
<1>16. CASE ReadDamaged(c)
  <2>0. conn[c].session \in {"hello", "loop"} /\ conn[c].up # << >>
    BY <1>16 DEF ReadDamaged, Live
  <2>1. PICK k \in {conn[c], read}, lost \in BOOLEAN :
            conn' = [conn EXCEPT ![c] = Closed(k, lost)]
    BY <1>16 DEF ReadDamaged, AfterRead, Ends
  <2>2. Moves(Closed(k, lost))
    BY <1>1, <1>3, <1>5, <2>0, <2>1
  <2> QED
    BY <1>2, <1>4, <2>2
<1> QED
  BY <1>10, <1>11, <1>12, <1>13, <1>14, <1>15, <1>16 DEF SessionProceeds

-----------------------------------------------------------------------------
(* The invariant is inductive.                                             *)

(* What the invariant says of the streams of one connection.               *)
LEMMA Streams ==
    ASSUME TypeOK, NEW c \in Connections
    PROVE  /\ conn[c] \in Connection /\ conn \in [Connections -> Connection]
           /\ conn[c].up \in Seq(Request) /\ conn[c].down \in Seq(Reply)
           /\ conn[c].left \in BOOLEAN /\ conn[c].over \in BOOLEAN
           /\ DOMAIN conn[c].up = 1 .. Len(conn[c].up) /\ Len(conn[c].up) \in Nat
           /\ DOMAIN conn[c].down = 1 .. Len(conn[c].down) /\ Len(conn[c].down) \in Nat
           /\ \A i \in DOMAIN conn[c].up : conn[c].up[i] \in Request
           /\ \A i \in DOMAIN conn[c].down : conn[c].down[i] \in Reply
  BY DEF TypeOK, Connection

(* A session keeps the shape of its connection and the requests on it.     *)
LEMMA SessionKeepsStreams ==
    ASSUME IInv, NEW c \in Connections, NEW k, MovesOn(c, k), conn' = [conn EXCEPT ![c] = k],
           UNCHANGED << made, worker, severed >>
    PROVE  Shape' /\ Requests'
<1>1. conn'[c] = k /\ \A d \in Connections \ {c} : conn'[d] = conn[d]
  BY DEF IInv, TypeOK
<1>2. ASSUME NEW d \in Connections PROVE ShapeOf(d)'
  <2>1. ShapeOf(d) /\ ShapeOf(c)
    BY DEF IInv, Shape
  <2>2. CASE d # c
    BY <1>1, <2>1, <2>2 DEF ShapeOf, Serving
  <2>3. CASE d = c
    BY <1>1, <2>1, <2>3, Streams DEF IInv, ShapeOf, Serving, MovesOn
  <2> QED
    BY <2>2, <2>3
<1>3. ASSUME NEW d \in Connections \ severed PROVE RequestsOf(d)'
  <2>1. RequestsOf(d)
    BY DEF IInv, Requests
  <2>2. CASE d # c
    BY <1>1, <2>1, <2>2 DEF RequestsOf
  <2>3. CASE d = c /\ k.up \in {conn[c].up, << >>}
    BY <1>1, <2>1, <2>3 DEF RequestsOf
  <2>4. CASE d = c /\ conn[c].up # << >> /\ k.up = Tail(conn[c].up)
    <3>1. /\ \A i \in DOMAIN k.up : i + 1 \in DOMAIN conn[c].up /\ k.up[i] = conn[c].up[i + 1]
          /\ Len(k.up) = Len(conn[c].up) - 1 /\ DOMAIN k.up = 1 .. Len(k.up)
          /\ Len(k.up) \in Nat
      BY <2>4, ReadOne, Streams DEF IInv, MovesOn, Connection
    <3>2. ASSUME NEW i \in DOMAIN k.up, k.up[i].type \in {"hello", "evidence"}
          PROVE  /\ c = worker.channel /\ i = Len(k.up) /\ k.up[i].type = worker.call
                 /\ k.up[i].seq = worker.seq
      <4>1. i + 1 \in DOMAIN conn[c].up /\ k.up[i] = conn[c].up[i + 1] /\ i \in Nat
        BY <3>1
      <4> QED
        BY <2>1, <2>4, <3>1, <3>2, <4>1, Streams DEF RequestsOf, IInv
    <3> QED
      BY <1>1, <2>4, <3>2 DEF RequestsOf
  <2> QED
    BY <2>2, <2>3, <2>4 DEF MovesOn
<1> QED
  BY <1>2, <1>3 DEF Shape, Requests

(* A session replies to one request at a time, for a worker that waits.    *)
LEMMA SessionKeepsReplies ==
    ASSUME IInv, NEW c \in Connections, NEW k, MovesOn(c, k), conn' = [conn EXCEPT ![c] = k],
           UNCHANGED << worker, severed, epoch >>, ingested \subseteq ingested'
    PROVE  Replies'
<1> SUFFICES ASSUME worker.open, worker.channel \notin severed
             PROVE  Replies'
  BY DEF Replies
<1>0. worker.channel \in Connections
  BY DEF IInv, TypeOK, Worker
<1>1. conn'[c] = k /\ \A d \in Connections \ {c} : conn'[d] = conn[d]
  BY DEF IInv, TypeOK
<1>2. Wire.down # << >> =>
          Len(Wire.down) = 1 /\ Wire.up = << >> /\ Answers(Head(Wire.down))
  BY DEF IInv, Replies
<1>3. CASE worker.channel # c
  <2>1. Wire' = Wire
    BY <1>0, <1>1, <1>3 DEF Wire
  <2>2. ASSUME NEW r, Answers(r) PROVE Answers(r)'
    BY <2>1, <2>2 DEF Answers, Idle, Batch
  <2> QED
    BY <1>2, <2>1, <2>2 DEF Replies
<1>4. CASE worker.channel = c
  <2>1. Wire' = k /\ Wire = conn[c]
    BY <1>1, <1>4 DEF Wire
  <2>2. CASE k.down = << >>
    BY <1>2, <2>1, <2>2 DEF Replies
  <2>3. CASE k.down = conn[c].down /\ k.down # << >>
    <3>1. Len(k.down) = 1 /\ conn[c].up = << >> /\ Answers(Head(k.down))
      BY <1>2, <2>1, <2>3
    <3>2. k.up = << >>
      BY <3>1 DEF MovesOn
    <3>3. (conn[c].over => k.over) /\ (conn[c].session = "loop" /\ ~k.over => k.session = "loop")
      BY DEF MovesOn, IInv, Shape, ShapeOf
    <3>4. Answers(Head(k.down))'
      BY <2>1, <3>1, <3>3 DEF Answers, Idle, Batch
    <3> QED
      BY <1>2, <2>1, <2>3, <3>1, <3>2, <3>4 DEF Replies
  <2>4. ASSUME NEW r \in Reply, conn[c].up # << >>, k.over \/ k.up = Tail(conn[c].up),
               k.down = Append(conn[c].down, r), ReplyTo(c, Head(conn[c].up), r, k)
        PROVE  Replies'
    <3> DEFINE f == Head(conn[c].up)
    <3>1. conn[c].down = << >>
      BY <1>2, <2>1, <2>4
    <3>2. k.down = << r >> /\ Len(k.down) = 1 /\ Head(k.down) = r
      BY <2>4, <3>1
    <3>3. /\ f \in Request /\ f = conn[c].up[1] /\ 1 \in DOMAIN conn[c].up
          /\ Len(conn[c].up) = 1 <=> Tail(conn[c].up) = << >>
      BY <2>4, Streams, ReadOne DEF IInv
    <3>4. f.type \in {"hello", "evidence"} =>
              /\ Tail(conn[c].up) = << >> /\ f.type = worker.call
              /\ f.seq = worker.seq
      <4>1. RequestsOf(c)
        BY <1>2, <1>4 DEF IInv, Requests
      <4> QED
        BY <3>3, <4>1 DEF RequestsOf
    <3>5. k.over => k.up = << >>
      BY DEF MovesOn
    <3> HIDE DEF f
    <3>6. k.up = << >>
      BY <2>4, <3>4, <3>5 DEF ReplyTo, f
    <3>7. Answers(r)'
      BY <1>4, <2>1, <2>4, <3>4 DEF ReplyTo, Answers, Idle, Batch, f
    <3> QED
      BY <1>2, <2>1, <3>2, <3>6, <3>7 DEF Replies
  <2> QED
    BY <2>2, <2>3, <2>4 DEF MovesOn
<1> QED
  BY <1>3, <1>4

(* A session fences only work of another epoch, which it is not sent by a  *)
(* worker it accepted.                                                     *)
LEMMA SessionKeepsServed ==
    ASSUME IInv, NEW c \in Connections, NEW k, MovesOn(c, k), conn' = [conn EXCEPT ![c] = k],
           UNCHANGED << worker, epoch >>
    PROVE  Served'
<1> SUFFICES ASSUME worker.shook PROVE Served'
  BY DEF Served
<1>0. worker.open /\ worker.channel \in Connections
  BY DEF IInv, Served, TypeOK, Worker
<1>1. conn'[c] = k /\ \A d \in Connections \ {c} : conn'[d] = conn[d]
  BY DEF IInv, TypeOK
<1>2. CASE worker.channel # c
  <2>1. Wire' = Wire
    BY <1>0, <1>1, <1>2 DEF Wire
  <2> QED
    BY <2>1 DEF IInv, Served
<1>3. CASE worker.channel = c
  <2>1. Wire' = k /\ Wire = conn[c] /\ (conn[c].over => k.over)
    BY <1>1, <1>3 DEF Wire, MovesOn, IInv, Shape, ShapeOf
  <2>2. ~k.over => /\ worker.granted = epoch /\ k.session = "loop"
                   /\ \A i \in DOMAIN k.up :
                          k.up[i].type \in {"heartbeat", "evidence"} => k.up[i].epoch = epoch
    <3>1. CASE k.up = conn[c].up
      BY <2>1, <3>1 DEF IInv, Served, MovesOn
    <3>2. CASE k.up = << >>
      BY <2>1, <3>2 DEF IInv, Served, MovesOn
    <3>3. CASE conn[c].up # << >> /\ k.up = Tail(conn[c].up)
      <4>1. \A i \in DOMAIN k.up : i + 1 \in DOMAIN conn[c].up /\ k.up[i] = conn[c].up[i + 1]
        BY <3>3, ReadOne, Streams DEF IInv
      <4> QED
        BY <2>1, <3>3, <4>1 DEF IInv, Served, MovesOn
    <3> QED
      BY <3>1, <3>2, <3>3 DEF MovesOn
  <2>3. \A i \in DOMAIN k.down : k.down[i].type # "fence"
    <3>1. CASE k.down \in {conn[c].down, << >>}
      BY <2>1, <3>1 DEF IInv, Served
    <3>2. ASSUME NEW r \in Reply, conn[c].up # << >>, k.down = Append(conn[c].down, r),
                 ReplyTo(c, Head(conn[c].up), r, k)
          PROVE  \A i \in DOMAIN k.down : k.down[i].type # "fence"
      <4>1. Head(conn[c].up) = conn[c].up[1] /\ 1 \in DOMAIN conn[c].up
        BY <3>2, ReadOne, Streams DEF IInv
      <4>2. ~conn[c].over
        BY <3>2 DEF IInv, Shape, ShapeOf
      <4>3. r.type # "fence"
        BY <2>1, <3>2, <4>1, <4>2 DEF IInv, Served, ReplyTo
      <4>4. /\ DOMAIN k.down = 1 .. Len(conn[c].down) + 1
            /\ DOMAIN conn[c].down = 1 .. Len(conn[c].down) /\ Len(conn[c].down) \in Nat
            /\ \A i \in DOMAIN conn[c].down : k.down[i] = conn[c].down[i]
            /\ k.down[Len(conn[c].down) + 1] = r
        BY <3>2, SendOne, Streams DEF IInv
      <4> QED
        BY <2>1, <4>3, <4>4 DEF IInv, Served
    <3> QED
      BY <3>1, <3>2 DEF MovesOn
  <2> QED
    BY <1>0, <2>1, <2>2, <2>3 DEF Served
<1> QED
  BY <1>2, <1>3

(* A step of a session acknowledges what it has ingested, and answers one  *)
(* hello, as its first frame.                                              *)
LEMMA SessionKeepsNumbered ==
    ASSUME IInv, NEW c \in Connections, NEW k, MovesOn(c, k), conn' = [conn EXCEPT ![c] = k],
           UNCHANGED << worker, severed >>, ingested \subseteq ingested'
    PROVE  Numbered' /\ Late'
<1> SUFFICES ASSUME worker.open PROVE Numbered' /\ Late'
  BY DEF Numbered, Late
<1>0. worker.channel \in Connections
  BY DEF IInv, TypeOK, Worker
<1>1. conn'[c] = k /\ \A d \in Connections \ {c} : conn'[d] = conn[d]
  BY DEF IInv, TypeOK
<1>2. Numbered /\ Late
  BY DEF IInv
<1>3. CASE worker.channel # c
  <2>1. Wire' = Wire
    BY <1>0, <1>1, <1>3 DEF Wire
  <2> QED
    BY <1>2, <2>1 DEF Numbered, Late
<1>4. CASE worker.channel = c
  <2>1. Wire' = k /\ Wire = conn[c]
    BY <1>1, <1>4 DEF Wire
  <2>2. \A i \in DOMAIN k.up : k.up[i].seq <= worker.seq
    <3>1. CASE k.up \in {conn[c].up, << >>}
      BY <1>2, <2>1, <3>1 DEF Numbered
    <3>2. CASE conn[c].up # << >> /\ k.up = Tail(conn[c].up)
      <4>1. \A i \in DOMAIN k.up : i + 1 \in DOMAIN conn[c].up /\ k.up[i] = conn[c].up[i + 1]
        BY <3>2, ReadOne, Streams DEF IInv
      <4> QED
        BY <1>2, <2>1, <4>1 DEF Numbered
    <3> QED
      BY <3>1, <3>2 DEF MovesOn
  <2> DEFINE Fits(r) == r.type = "evidenceAck" =>
                            << c, r.seq >> \in ingested' /\ r.seq <= worker.seq
             out == worker.rest # "none" \/ c \in severed
  <2>3. \A i \in DOMAIN conn[c].down :
            Fits(conn[c].down[i]) /\ (out => conn[c].down[i].type # "helloAck")
    BY <1>2, <1>4, <2>1 DEF Numbered, Late
  <2>4. \A i \in DOMAIN k.down : Fits(k.down[i]) /\ (out => k.down[i].type # "helloAck")
    <3>1. CASE k.down \in {conn[c].down, << >>}
      BY <2>3, <3>1
    <3>2. ASSUME NEW r \in Reply, conn[c].up # << >>, k.down = Append(conn[c].down, r),
                 ReplyTo(c, Head(conn[c].up), r, k)
          PROVE  \A i \in DOMAIN k.down :
                     Fits(k.down[i]) /\ (out => k.down[i].type # "helloAck")
      <4>1. Head(conn[c].up) = conn[c].up[1] /\ 1 \in DOMAIN conn[c].up
        BY <3>2, ReadOne, Streams DEF IInv
      <4>2. Head(conn[c].up).seq <= worker.seq
        BY <1>2, <2>1, <4>1 DEF Numbered
      <4>3. Fits(r)
        BY <3>2, <4>2 DEF ReplyTo
      <4>4. out => r.type # "helloAck"
        BY <1>2, <1>4, <2>1, <3>2 DEF ReplyTo, Late
      <4>5. \A i \in DOMAIN k.down :
                \/ k.down[i] = r
                \/ i \in DOMAIN conn[c].down /\ k.down[i] = conn[c].down[i]
        BY <3>2, SendOne, Streams DEF IInv
      <4> HIDE DEF Fits, out
      <4> QED
        BY <2>3, <4>3, <4>4, <4>5
    <3> QED
      BY <3>1, <3>2 DEF MovesOn
  <2>5. out => k.session \in {"loop", "over"}
    BY <1>2, <1>4, <2>1 DEF Late, MovesOn, IInv, Shape, ShapeOf, Connection
  <2> QED
    BY <1>4, <2>1, <2>2, <2>4, <2>5 DEF Numbered, Late
<1> QED
  BY <1>3, <1>4

(* Every step of a session keeps the invariant.                            *)
LEMMA SessionKeeps ==
    ASSUME IInv, NEW c \in Connections, SessionProceeds(c) PROVE IInv'
<1>1. /\ UNCHANGED << epoch, deaf, made, worker, acked, severed, sent >>
      /\ ingested \subseteq ingested'
      /\ ingested' \subseteq Connections \X (0 .. MaxFrames + 1)
      /\ damaged' \in 0 .. MaxDamage
  BY SessionShape DEF IInv, coordinator, history
<1>2. PICK k : MovesOn(c, k) /\ conn' = [conn EXCEPT ![c] = k]
  BY SessionShape DEF IInv
<1>3. TypeOK'
  BY <1>1, <1>2 DEF IInv, TypeOK, Idle, MovesOn
<1>4. Bounded' /\ AckNamesBatch'
  BY <1>1 DEF IInv, Bounded, Idle, AckNamesBatch
<1> QED
  BY <1>1, <1>2, <1>3, <1>4, SessionKeepsStreams, SessionKeepsReplies, SessionKeepsServed,
     SessionKeepsNumbered DEF IInv

(* The worker's end of a channel closes.                                   *)
LEMMA LeaveIs ==
    ASSUME NEW cs \in [Connections -> Connection], NEW lost \in BOOLEAN
    PROVE  /\ Leave(cs, lost) \in [Connections -> Connection]
           /\ \A c \in Connections \ {worker.channel} : Leave(cs, lost)[c] = cs[c]
           /\ \A c \in Connections :
                  c = worker.channel =>
                      LET z == Leave(cs, lost)[c]
                      IN  /\ z \in Connection /\ z.left /\ z.down = << >>
                          /\ z.session = cs[c].session /\ z.over = cs[c].over
                          /\ z.up \in {cs[c].up, << >>}
<1> DEFINE away(c) == [cs[c] EXCEPT !.left = TRUE, !.down = << >>,
                          !.up = IF lost /\ cs[c].down # << >> THEN << >> ELSE @]
<1>1. ASSUME NEW c \in Connections
      PROVE  /\ away(c) \in Connection /\ away(c).left /\ away(c).down = << >>
             /\ away(c).session = cs[c].session /\ away(c).over = cs[c].over
             /\ away(c).up \in {cs[c].up, << >>}
  BY Records DEF Connection
<1>2. Leave(cs, lost) = [c \in Connections |-> IF c # worker.channel THEN cs[c] ELSE away(c)]
  BY DEF Leave
<1> HIDE DEF away
<1> QED
  BY <1>1, <1>2

(* A frame is sent, or lost when the other end is over.                    *)
LEMMA SentIs ==
    ASSUME TypeOK, worker.channel \in Connections, NEW f \in Request
    PROVE  LET wire == conn[worker.channel]
               cs   == Sent(f.type, f.seq, f.epoch)
               z    == cs[worker.channel]
           IN  /\ cs \in [Connections -> Connection]
               /\ \A c \in Connections \ {worker.channel} : cs[c] = conn[c]
               /\ z.session = wire.session /\ z.over = wire.over
               /\ z.left = wire.left /\ z.down = wire.down
               /\ z.up = IF wire.over THEN wire.up ELSE Append(wire.up, f)
<1> DEFINE c == worker.channel
           g == [type |-> f.type, seq |-> f.seq, epoch |-> f.epoch]
           z == [conn[c] EXCEPT !.up = IF conn[c].over THEN @ ELSE Append(@, g)]
<1>1. g = f
  BY DEF Request
<1>2. Append(conn[c].up, f) \in Seq(Request)
  BY Streams, SendOne
<1>3. /\ z \in Connection /\ z.session = conn[c].session /\ z.over = conn[c].over
      /\ z.left = conn[c].left /\ z.down = conn[c].down
      /\ z.up = IF conn[c].over THEN conn[c].up ELSE Append(conn[c].up, f)
  BY <1>1, <1>2, Streams DEF Connection
<1>4. Sent(f.type, f.seq, f.epoch) = [conn EXCEPT ![c] = z]
  BY DEF Sent
<1> HIDE DEF z
<1> QED
  BY <1>3, <1>4, Streams

(* Outside a call, and off its channel, nothing the worker waits for is    *)
(* under way.                                                              *)
LEMMA NothingAsked ==
    ASSUME IInv, NEW c \in Connections \ severed, c # worker.channel \/ Idle
    PROVE  \A i \in DOMAIN conn[c].up : conn[c].up[i].type \notin {"hello", "evidence"}
<1>1. RequestsOf(c)
  BY DEF IInv, Requests
<1> QED
  BY <1>1 DEF RequestsOf, Idle

(* What becomes of a connection when the worker leaves its channel.        *)
Parted(c) ==
    /\ c # worker.channel => conn'[c] = conn[c]
    /\ c = worker.channel =>
           /\ conn'[c].left /\ conn'[c].down = << >>
           /\ conn'[c].session = conn[c].session /\ conn'[c].over = conn[c].over
           /\ \/ conn'[c].up \in {conn[c].up, << >>}
              \/ /\ ~conn[c].over
                 /\ \E f \in Request : /\ f.type \notin {"hello", "evidence"}
                                      /\ conn'[c].up = Append(conn[c].up, f)

(* The worker leaves its channel outside a call, for a new one or for      *)
(* none, or dies.                                                          *)
LEMMA LeavingKeeps ==
    ASSUME IInv, worker' \in Worker, ~worker'.shook, Idle',
           conn' \in [Connections -> Connection],
           UNCHANGED << epoch, deaf, ingested, acked, damaged >>,
           sent' \in 0 .. MaxFrames, worker'.seq <= sent' + 1,
           \/ severed' = severed
           \/ ~worker'.open /\ severed' = severed \cup ({worker.channel} \ {None}),
           Idle \/ worker.channel \in severed' \cup {None},
           \/ /\ made' = made /\ ~worker'.open
              /\ worker'.channel \in {None, worker.channel}
              /\ \A c \in Connections : Parted(c)
           \/ /\ made' = made + 1 /\ made' \in Connections
              /\ worker'.channel = made' /\ worker'.open /\ worker'.rest = "none"
              /\ conn'[made'] = [Unused EXCEPT !.session = "backlog"]
              /\ \A c \in Connections \ {made'} : Parted(c)
    PROVE  IInv'
<1>0. /\ worker \in Worker /\ made \in 0 .. MaxConnections /\ made' \in 0 .. MaxConnections
      /\ worker.channel <= made /\ severed \subseteq 1 .. made
      /\ worker.channel \in {None} \cup Connections
  BY SessionAssumption DEF IInv, TypeOK, Bounded, Worker, Connections
<1>1. TypeOK'
  <2>1. severed' \subseteq Connections
    BY <1>0 DEF IInv, TypeOK
  <2>2. worker'.open => worker'.channel # None
    BY Records
  <2> QED
    BY <1>0, <2>1, <2>2 DEF IInv, TypeOK, Idle
<1>2. Bounded'
  BY <1>0, SessionAssumption DEF IInv, Bounded, Idle, None, Connections
<1>3. ASSUME NEW c \in Connections PROVE ShapeOf(c)'
  <2>1. ShapeOf(c)
    BY DEF IInv, Shape
  <2>2. CASE made' = made + 1 /\ c = made'
    <3>1. /\ conn'[c].session = "backlog" /\ ~conn'[c].over /\ ~conn'[c].left
          /\ conn'[c].up = << >> /\ conn'[c].down = << >>
      BY <2>2, <1>0 DEF Unused
    <3> QED
      BY <2>2, <1>0, <3>1 DEF ShapeOf, Serving
  <2>3. CASE Parted(c) /\ ~(made' = made + 1 /\ c = made')
    <3>1. (c > made) <=> (c > made')
      BY <1>0, <2>3 DEF Connections
    <3>2. ~Serving(c)' /\ (c # worker.channel => ~Serving(c))
      BY <1>0, <2>3 DEF Serving, None, Connections
    <3>3. CASE c # worker.channel
      BY <2>1, <2>3, <3>1, <3>2, <3>3 DEF ShapeOf, Parted
    <3>4. CASE c = worker.channel
      <4>1. conn[c].session # "unused" /\ c <= made
        BY <1>0, <2>1, <3>4 DEF ShapeOf, Connections
      <4> QED
        BY <2>1, <2>3, <3>1, <3>2, <3>4, <4>1 DEF ShapeOf, Parted
    <3> QED
      BY <3>3, <3>4
  <2> QED
    BY <2>2, <2>3
<1>4. ASSUME NEW c \in Connections \ severed' PROVE RequestsOf(c)'
  <2>1. CASE made' = made + 1 /\ c = made'
    <3>1. conn'[c].up = << >>
      BY <1>0, <2>1 DEF Unused
    <3> QED
      BY <3>1 DEF RequestsOf
  <2>2. CASE Parted(c) /\ ~(made' = made + 1 /\ c = made')
    <3>1. \A i \in DOMAIN conn[c].up : conn[c].up[i].type \notin {"hello", "evidence"}
      BY <1>0, NothingAsked DEF None, Connections
    <3>2. CASE conn'[c].up \in {conn[c].up, << >>}
      BY <3>1, <3>2 DEF RequestsOf
    <3>3. ASSUME NEW f \in Request, f.type \notin {"hello", "evidence"},
                 conn'[c].up = Append(conn[c].up, f)
          PROVE  RequestsOf(c)'
      <4>1. \A i \in DOMAIN conn'[c].up :
                conn'[c].up[i] = f \/ (i \in DOMAIN conn[c].up /\ conn'[c].up[i] = conn[c].up[i])
        BY <3>3, Streams, SendOne DEF IInv
      <4> QED
        BY <3>1, <3>3, <4>1 DEF RequestsOf
    <3> QED
      BY <2>2, <3>2, <3>3 DEF Parted
  <2> QED
    BY <2>1, <2>2
<1>5. Replies' /\ Numbered' /\ Late'
  <2>1. CASE ~worker'.open
    BY <2>1 DEF Replies, Numbered, Late
  <2>2. CASE made' = made + 1 /\ worker'.channel = made' /\ worker'.open
    <3>1. Wire'.down = << >> /\ Wire'.up = << >> /\ made' \notin severed'
      BY <1>0, <2>2 DEF Wire, Unused
    <3> QED
      BY <2>2, <3>1 DEF Replies, Numbered, Late
  <2> QED
    BY <2>1, <2>2
<1>6. Served' /\ AckNamesBatch'
  BY DEF IInv, Served, AckNamesBatch
<1> QED
  BY <1>1, <1>2, <1>3, <1>4, <1>5, <1>6 DEF IInv, Shape, Requests

(* Every way a worker leaves its channel keeps the invariant.              *)
LEMMA PartingKeeps ==
    ASSUME IInv, Connect \/ SayGoodbye \/ Close \/ Killed PROVE IInv'
<1>0. /\ worker \in Worker /\ conn \in [Connections -> Connection]
      /\ made \in 0 .. MaxConnections /\ epoch \in 1 .. MaxEpoch
      /\ sent \in 0 .. MaxFrames /\ worker.seq <= sent + 1
  BY DEF IInv, TypeOK, Bounded
<1>1. CASE Connect
  <2>1. PICK claim \in Configured :
            worker' = [worker EXCEPT !.claim = claim, !.channel = made + 1, !.open = TRUE,
                                     !.seq = 1, !.rest = "none", !.shook = FALSE]
    BY <1>1 DEF Connect
  <2>a. Idle /\ made < MaxConnections /\ made' = made + 1
    BY <1>1 DEF Connect
  <2>2. made' = made + 1 /\ made' \in Connections
    BY <1>0, <2>a, SessionAssumption DEF Connections
  <2>3. /\ worker' \in Worker /\ worker'.channel = made' /\ worker'.open /\ ~worker'.shook
        /\ worker'.seq = 1 /\ worker'.call = worker.call /\ worker'.rest = "none"
    <3> DEFINE w == [worker EXCEPT !.claim = claim, !.channel = made + 1, !.open = TRUE,
                                   !.seq = 1, !.rest = "none", !.shook = FALSE]
    <3>1. claim \in Claims /\ made + 1 \in Connections /\ 1 \in 0 .. MaxFrames + 1
      BY <1>0, <2>2, SessionAssumption DEF Configured, Claims
    <3>2. /\ w \in Worker /\ w.channel = made + 1 /\ w.open /\ ~w.shook
          /\ w.seq = 1 /\ w.call = worker.call /\ w.rest = "none"
      BY <1>0, <3>1 DEF Worker, Rests
    <3> HIDE DEF w
    <3>3. worker' = w
      BY <2>1 DEF w
    <3> QED
      BY <2>2, <3>2, <3>3
  <2> DEFINE fresh == [Unused EXCEPT !.session = "backlog"]
  <2>4. PICK lost \in BOOLEAN : conn' = [Leave(conn, lost) EXCEPT ![made'] = fresh]
    BY <1>1, <2>2 DEF Connect
  <2>5. fresh \in Connection
    BY Records DEF Unused, Connection
  <2> HIDE DEF fresh
  <2>6. /\ conn' \in [Connections -> Connection] /\ conn'[made'] = fresh
        /\ \A c \in Connections \ {made'} : Parted(c)
    BY <1>0, <2>2, <2>4, <2>5, LeaveIs DEF Parted
  <2>7. UNCHANGED << epoch, deaf, ingested, acked, severed, sent, damaged >>
    BY <1>1 DEF Connect, coordinator, history, bounds
  <2>8. sent' \in 0 .. MaxFrames /\ worker'.seq <= sent' + 1 /\ Idle'
    BY <1>0, <2>a, <2>3, <2>7, SessionAssumption DEF Idle
  <2> QED
    BY <2>a, <2>2, <2>3, <2>6, <2>7, <2>8, LeavingKeeps DEF fresh
<1>2. CASE SayGoodbye
  <2> DEFINE f == [type |-> "goodbye", seq |-> worker.seq + 1, epoch |-> 0]
             cs == Sent(f.type, f.seq, f.epoch)
  <2>1. f \in Request /\ worker.channel \in Connections
    BY <1>0, <1>2, SessionAssumption DEF SayGoodbye, Worker, Request, IInv, TypeOK, Claims
  <2>2. /\ worker' \in Worker /\ worker'.channel = worker.channel /\ ~worker'.open
        /\ ~worker'.shook /\ worker'.seq = worker.seq + 1 /\ worker'.call = worker.call
    <3> DEFINE w == [worker EXCEPT !.seq = @ + 1, !.open = FALSE, !.shook = FALSE]
    <3>1. worker.seq + 1 \in 0 .. MaxFrames + 1
      BY <2>1 DEF Request
    <3>2. /\ w \in Worker /\ w.channel = worker.channel /\ ~w.open /\ ~w.shook
          /\ w.seq = worker.seq + 1 /\ w.call = worker.call
      BY <1>0, <3>1 DEF Worker
    <3> HIDE DEF w
    <3>3. worker' = w
      BY <1>2 DEF SayGoodbye, w
    <3> QED
      BY <3>2, <3>3
  <2>3. PICK lost \in BOOLEAN : conn' = Leave(cs, lost)
    BY <1>2 DEF SayGoodbye
  <2>4. /\ cs \in [Connections -> Connection]
        /\ \A c \in Connections \ {worker.channel} : cs[c] = conn[c]
        /\ LET z == cs[worker.channel]
           IN  /\ z.session = Wire.session /\ z.over = Wire.over
               /\ z.up = IF Wire.over THEN Wire.up ELSE Append(Wire.up, f)
    BY <2>1, SentIs DEF Wire, IInv
  <2>5. f.type \notin {"hello", "evidence"}
    OBVIOUS
  <2> HIDE DEF f, cs
  <2>6. /\ conn' \in [Connections -> Connection]
        /\ \A c \in Connections : Parted(c)
    <3> DEFINE left == Leave(cs, lost)
               wc   == worker.channel
    <3>1. /\ left \in [Connections -> Connection]
          /\ \A c \in Connections \ {wc} : left[c] = cs[c]
          /\ left[wc].left /\ left[wc].down = << >>
          /\ left[wc].session = cs[wc].session /\ left[wc].over = cs[wc].over
          /\ left[wc].up \in {cs[wc].up, << >>}
      BY <2>1, <2>4, LeaveIs, ZenonT(30)
    <3>2. conn' = left
      BY <2>3
    <3> HIDE DEF left
    <3>3. \A c \in Connections \ {wc} : Parted(c)
      BY <2>4, <3>1, <3>2 DEF Parted
    <3>4. \/ conn'[wc].up \in {conn[wc].up, << >>}
          \/ ~conn[wc].over /\ conn'[wc].up = Append(conn[wc].up, f)
      BY <2>4, <3>1, <3>2 DEF Wire
    <3>5. Parted(wc)
      BY <2>1, <2>4, <2>5, <3>1, <3>2, <3>4 DEF Parted, Wire
    <3> QED
      BY <3>1, <3>2, <3>3, <3>5
  <2>7. /\ Idle /\ sent < MaxFrames /\ sent' = sent + 1
        /\ UNCHANGED << epoch, deaf, made, ingested, acked, severed, damaged >>
    BY <1>2 DEF SayGoodbye, coordinator, history
  <2>8. sent' \in 0 .. MaxFrames /\ worker'.seq <= sent' + 1 /\ Idle'
    <3>1. worker.seq \in Nat
      BY <1>0, SessionAssumption DEF Worker
    <3> QED
      BY <1>0, <2>2, <2>7, <3>1, SessionAssumption DEF Idle
  <2> QED
    BY <2>2, <2>6, <2>7, <2>8, LeavingKeeps
<1>3. CASE Close
  <2>1. PICK lost \in BOOLEAN : conn' = Leave(conn, lost)
    BY <1>3 DEF Close
  <2>2. /\ worker' \in Worker /\ worker'.channel = None /\ ~worker'.open
        /\ ~worker'.shook /\ worker'.seq = worker.seq /\ worker'.call = worker.call
    BY <1>0, <1>3 DEF Close, Worker
  <2>3. /\ conn' \in [Connections -> Connection]
        /\ \A c \in Connections : Parted(c)
    BY <1>0, <2>1, LeaveIs DEF Parted
  <2> QED
    BY <1>0, <1>3, <2>2, <2>3, LeavingKeeps DEF Close, coordinator, history, bounds, Idle
<1>4. CASE Killed
  <2>1. PICK lost \in BOOLEAN : conn' = Leave(conn, lost)
    BY <1>4 DEF Killed
  <2>2. /\ worker' \in Worker /\ worker'.channel = None /\ ~worker'.open
        /\ ~worker'.shook /\ worker'.seq = 1 /\ worker'.call = "none"
    BY <1>4, Records DEF Killed, NewWorker
  <2>3. /\ conn' \in [Connections -> Connection]
        /\ \A c \in Connections : Parted(c)
    BY <1>0, <2>1, LeaveIs DEF Parted
  <2>4. \/ Idle /\ severed' = severed
        \/ /\ severed' = severed \cup ({worker.channel} \ {None})
           /\ worker.channel \in severed'
    BY <1>4 DEF Killed, IInv, TypeOK
  <2>5. /\ UNCHANGED << epoch, deaf, made, ingested, acked, sent, damaged >>
        /\ worker'.seq <= sent' + 1 /\ sent' \in 0 .. MaxFrames
    BY <1>0, <1>4, <2>2 DEF Killed, coordinator, bounds
  <2> QED
    BY <1>0, <2>2, <2>3, <2>4, <2>5, LeavingKeeps DEF Idle
<1> QED
  BY <1>1, <1>2, <1>3, <1>4

(* A frame sent on the open channel keeps the invariant: a request opens a *)
(* call, anything else leaves the worker outside one.                      *)
LEMMA SendingKeeps ==
    ASSUME IInv, NEW f \in Request, Idle, worker.open,
           worker' \in Worker, worker'.channel = worker.channel, worker'.open,
           worker'.granted = worker.granted, worker'.rest = worker.rest,
           worker'.shook => worker.shook, worker.seq <= worker'.seq,
           conn' = Sent(f.type, f.seq, f.epoch), f.seq = worker'.seq,
           \/ f.type = "heartbeat" /\ Idle' /\ f.epoch = HeartbeatEpoch
           \/ /\ f.type \in {"hello", "evidence"}
              /\ worker'.call = f.type \/ (Wire.over /\ Idle'),
           f.type = "evidence" /\ worker'.shook => f.epoch = worker.granted,
           UNCHANGED << epoch, deaf, made, ingested, acked, severed, damaged >>,
           sent' \in 0 .. MaxFrames, worker'.seq <= sent' + 1
    PROVE  IInv'
<1> DEFINE wc == worker.channel
<1>0. /\ wc \in Connections /\ wc # None /\ worker.call = "none"
      /\ conn \in [Connections -> Connection]
  BY DEF IInv, TypeOK, Worker, Idle
<1>1. /\ conn' \in [Connections -> Connection]
      /\ \A c \in Connections \ {wc} : conn'[c] = conn[c]
      /\ conn'[wc].session = conn[wc].session /\ conn'[wc].over = conn[wc].over
      /\ conn'[wc].left = conn[wc].left /\ conn'[wc].down = conn[wc].down
      /\ conn'[wc].up = IF conn[wc].over THEN conn[wc].up ELSE Append(conn[wc].up, f)
  BY <1>0, SentIs DEF IInv
<1>2. TypeOK' /\ Bounded'
  BY <1>0, <1>1 DEF IInv, TypeOK, Bounded, Idle
<1>3. ASSUME NEW c \in Connections PROVE ShapeOf(c)'
  <2>1. ShapeOf(c) /\ (Serving(c)' <=> Serving(c))
    BY DEF IInv, Shape, Serving
  <2>2. CASE c # wc
    BY <1>1, <2>1, <2>2 DEF ShapeOf
  <2>3. CASE c = wc
    <3>1. conn[wc].session # "unused"
      BY <1>0, <2>1, <2>3 DEF IInv, Bounded, ShapeOf, TypeOK, Connections
    <3> QED
      BY <1>1, <2>1, <2>3, <3>1 DEF ShapeOf
  <2> QED
    BY <2>2, <2>3
<1>4. /\ \A i \in DOMAIN conn'[wc].up :
             \/ i \in DOMAIN conn[wc].up /\ conn'[wc].up[i] = conn[wc].up[i]
             \/ ~conn[wc].over /\ conn'[wc].up[i] = f /\ i = Len(conn'[wc].up)
      /\ conn[wc].over => conn'[wc].up = << >>
  <2>1. conn[wc].over => conn[wc].up = << >>
    BY <1>0 DEF IInv, Shape, ShapeOf
  <2>2. /\ DOMAIN Append(conn[wc].up, f) = 1 .. Len(conn[wc].up) + 1
        /\ Len(Append(conn[wc].up, f)) = Len(conn[wc].up) + 1 /\ Len(conn[wc].up) \in Nat
        /\ DOMAIN conn[wc].up = 1 .. Len(conn[wc].up)
        /\ \A i \in DOMAIN conn[wc].up : Append(conn[wc].up, f)[i] = conn[wc].up[i]
        /\ Append(conn[wc].up, f)[Len(conn[wc].up) + 1] = f
    BY <1>0, Streams, SendOne, SMTT(30) DEF IInv
  <2>3. CASE conn[wc].over
    BY <1>1, <2>1, <2>3
  <2>4. CASE ~conn[wc].over
    <3>1. conn'[wc].up = Append(conn[wc].up, f)
      BY <1>1, <2>4
    <3>2. ASSUME NEW i \in 1 .. Len(conn[wc].up) + 1
          PROVE  i \in 1 .. Len(conn[wc].up) \/ i = Len(conn[wc].up) + 1
      BY <2>2
    <3> QED
      BY <2>2, <2>4, <3>1, <3>2
  <2> QED
    BY <2>3, <2>4
<1>5. ASSUME NEW c \in Connections \ severed PROVE RequestsOf(c)'
  <2>1. \A i \in DOMAIN conn[c].up : conn[c].up[i].type \notin {"hello", "evidence"}
    BY NothingAsked
  <2>2. CASE c # wc
    BY <1>1, <2>1, <2>2 DEF RequestsOf
  <2>3. CASE c = wc
    BY <1>4, <2>1, <2>3 DEF RequestsOf, Wire
  <2> QED
    BY <2>2, <2>3
<1>6. Replies'
  <2>1. SUFFICES ASSUME wc \notin severed PROVE Replies'
    BY DEF Replies
  <2>2. Wire.down # << >> =>
            Len(Wire.down) = 1 /\ Wire.over /\ Head(Wire.down).type = "fence"
    BY <1>0, <2>1 DEF IInv, Replies, Answers, Idle
  <2>3. /\ Wire'.down = Wire.down /\ Wire'.over = Wire.over
        /\ Wire.over => Wire'.up = << >>
    BY <1>1, <1>4 DEF Wire
  <2> QED
    BY <2>2, <2>3 DEF Replies, Answers
<1>9. Numbered' /\ Late'
  <2>1. Wire'.down = Wire.down /\ Wire'.session = Wire.session
    BY <1>1 DEF Wire
  <2>2. Numbered /\ Late /\ worker.seq \in Int /\ worker'.seq \in Int
    BY DEF IInv, TypeOK, Worker
  <2>3. \A i \in DOMAIN Wire.down : Wire.down[i].seq \in Int
    BY <1>0, Streams DEF IInv, Reply, Wire
  <2>4. \A i \in DOMAIN Wire.up : Wire.up[i].seq \in Int
    BY <1>0, Streams DEF IInv, Request, Wire
  <2>5. \A i \in DOMAIN Wire'.up : Wire'.up[i].seq <= worker'.seq
    BY <1>4, <2>2, <2>4 DEF Numbered, Wire
  <2>6. \A i \in DOMAIN Wire.down :
            Wire.down[i].type = "evidenceAck" =>
                << wc, Wire.down[i].seq >> \in ingested /\ Wire.down[i].seq <= worker'.seq
    BY <2>2, <2>3 DEF Numbered
  <2> QED
    BY <2>1, <2>2, <2>5, <2>6 DEF Numbered, Late
<1>7. Served'
  <2>1. SUFFICES ASSUME worker'.shook PROVE Served'
    BY DEF Served
  <2>2. /\ Wire'.down = Wire.down /\ Wire'.over = Wire.over /\ Wire'.session = Wire.session
    BY <1>1 DEF Wire
  <2>3. ~Wire.over =>
            /\ worker.granted = epoch /\ Wire.session = "loop"
            /\ \A i \in DOMAIN Wire.up :
                  Wire.up[i].type \in {"heartbeat", "evidence"} => Wire.up[i].epoch = epoch
    BY <2>1 DEF IInv, Served
  <2>4. ~Wire.over /\ f.type \in {"heartbeat", "evidence"} => f.epoch = epoch
    <3>1. epoch # 0
      BY SessionAssumption DEF IInv, TypeOK
    <3> QED
      BY <2>1, <2>3, <3>1 DEF HeartbeatEpoch
  <2>5. ~Wire.over => \A i \in DOMAIN Wire'.up :
            Wire'.up[i].type \in {"heartbeat", "evidence"} => Wire'.up[i].epoch = epoch
    BY <1>4, <2>3, <2>4 DEF Wire
  <2> QED
    BY <2>1, <2>2, <2>3, <2>5 DEF Served, IInv
<1>8. AckNamesBatch'
  BY DEF IInv, AckNamesBatch
<1> QED
  BY <1>2, <1>3, <1>5, <1>6, <1>7, <1>8, <1>9 DEF IInv, Shape, Requests

(* Handshakes, heartbeats and evidence are sent so.                        *)
LEMMA CallingKeeps ==
    ASSUME IInv, Handshake \/ SendHeartbeat \/ SendEvidence PROVE IInv'
<1>0. /\ worker \in Worker /\ worker.seq \in Nat /\ worker.seq <= sent + 1
      /\ worker.claim \in Claims /\ worker.granted \in Claims /\ sent \in 0 .. MaxFrames
      /\ worker.shook \in BOOLEAN
  BY SessionAssumption DEF IInv, TypeOK, Bounded, Worker, Claims
<1>1. /\ Idle /\ worker.open /\ sent < MaxFrames /\ sent' = sent + 1
      /\ UNCHANGED << epoch, deaf, made, ingested, acked, severed, damaged >>
  BY DEF Handshake, SendHeartbeat, SendEvidence, coordinator, history
<1>2. /\ sent' \in 0 .. MaxFrames /\ worker.seq + 1 <= sent' + 1
      /\ worker.seq \in 0 .. MaxFrames + 1 /\ worker.seq + 1 \in 0 .. MaxFrames + 1
  BY <1>0, <1>1, SessionAssumption
<1> DEFINE asks(type, n, e) == [type |-> type, seq |-> n, epoch |-> e]
           w(n, call, s) == [worker EXCEPT !.seq = n, !.call = call, !.shook = s]
<1>3. ASSUME NEW type \in {"hello", "heartbeat", "evidence"},
             NEW n \in {worker.seq, worker.seq + 1}, NEW e \in Claims
      PROVE  asks(type, n, e) \in Request
  BY <1>2 DEF Request
<1>4. ASSUME NEW n \in {worker.seq, worker.seq + 1}, NEW s \in BOOLEAN,
             NEW call \in {"none", "hello", "evidence"}
      PROVE  /\ w(n, call, s) \in Worker /\ w(n, call, s).channel = worker.channel
             /\ w(n, call, s).open = worker.open
             /\ w(n, call, s).granted = worker.granted /\ w(n, call, s).rest = worker.rest
             /\ w(n, call, s).shook = s /\ w(n, call, s).seq = n
             /\ w(n, call, s).call = call
  BY <1>0, <1>2 DEF Worker
<1>5. CASE Handshake
  <2> DEFINE f == asks("hello", worker.seq, worker.claim)
  <2>1. f \in Request /\ f.type = "hello" /\ f.seq = worker.seq
    BY <1>0, <1>3
  <2>2. worker' = w(worker.seq, "hello", worker.shook)
    BY <1>0, <1>5 DEF Handshake, Worker
  <2>3. conn' = Sent(f.type, f.seq, f.epoch)
    BY <1>5 DEF Handshake
  <2> HIDE DEF f, w
  <2>4. /\ worker' \in Worker /\ worker'.channel = worker.channel /\ worker'.open
        /\ worker'.granted = worker.granted
        /\ worker'.rest = worker.rest /\ worker'.shook = worker.shook
        /\ worker'.seq = worker.seq /\ worker'.call = "hello"
    BY <1>0, <1>1, <1>4, <2>2
  <2>5. worker'.seq <= sent' + 1
    BY <1>0, <1>1, <2>4
  <2> QED
    BY <1>1, <1>2, <2>1, <2>3, <2>4, <2>5, SendingKeeps
<1>6. CASE SendHeartbeat
  <2> DEFINE f == asks("heartbeat", worker.seq + 1, HeartbeatEpoch)
  <2>1. f \in Request /\ f.type = "heartbeat" /\ f.seq = worker.seq + 1 /\ f.epoch = HeartbeatEpoch
    BY <1>0, <1>3 DEF HeartbeatEpoch
  <2>2. worker' = w(worker.seq + 1, "none", worker.shook)
    BY <1>0, <1>1, <1>6 DEF SendHeartbeat, Worker, Idle
  <2>3. conn' = Sent(f.type, f.seq, f.epoch)
    BY <1>6 DEF SendHeartbeat
  <2> HIDE DEF f, w
  <2>4. Idle'
    BY <1>0, <1>4, <2>2 DEF Idle
  <2>5. /\ worker' \in Worker /\ worker'.channel = worker.channel /\ worker'.open
        /\ worker'.granted = worker.granted
        /\ worker'.rest = worker.rest /\ worker'.shook = worker.shook
        /\ worker'.seq = worker.seq + 1
    BY <1>0, <1>1, <1>4, <2>2
  <2> QED
    BY <1>1, <1>2, <2>1, <2>3, <2>4, <2>5, SendingKeeps
<1>7. CASE SendEvidence
  <2>0. PICK e \in Configured :
            LET z == [worker EXCEPT !.seq = @ + 1, !.shook = @ /\ e = worker.granted]
            IN  /\ conn' = Sent("evidence", worker.seq + 1, e)
                /\ \/ worker' = [z EXCEPT !.call = "evidence"]
                   \/ conn[worker.channel].over /\ worker' = z
    BY <1>7 DEF SendEvidence
  <2> DEFINE f == asks("evidence", worker.seq + 1, e)
             s == worker.shook /\ e = worker.granted
  <2>1. f \in Request /\ f.type = "evidence" /\ f.seq = worker.seq + 1 /\ f.epoch = e
    <3>1. e \in Claims
      BY <1>1, <2>0, SessionAssumption DEF Configured, Claims, IInv, TypeOK
    <3> QED
      BY <1>3, <3>1
  <2>2. \/ worker' = w(worker.seq + 1, "evidence", s)
        \/ Wire.over /\ worker' = w(worker.seq + 1, "none", s)
    BY <1>0, <1>1, <2>0, ZenonT(40) DEF Worker, Idle, Wire
  <2>3. conn' = Sent(f.type, f.seq, f.epoch)
    BY <2>0
  <2>a. s \in BOOLEAN /\ (s => worker.shook) /\ (s => e = worker.granted)
    OBVIOUS
  <2> HIDE DEF f, w, s
  <2>b. ASSUME NEW call \in {"none", "evidence"}
        PROVE  LET z == w(worker.seq + 1, call, s)
               IN  /\ z \in Worker /\ z.channel = worker.channel /\ z.open = worker.open
                   /\ z.granted = worker.granted /\ z.rest = worker.rest
                   /\ z.shook = s /\ z.seq = worker.seq + 1 /\ z.call = call
    BY <1>4, <2>a
  <2>4. worker'.call = "evidence" \/ (Wire.over /\ Idle')
    BY <2>b, <2>2 DEF Idle
  <2>5. /\ worker' \in Worker /\ worker'.channel = worker.channel /\ worker'.open
        /\ worker'.granted = worker.granted
        /\ worker'.rest = worker.rest /\ worker'.shook = s
        /\ worker'.seq = worker.seq + 1
    BY <1>1, <2>b, <2>2
  <2>6. f.type = "evidence" /\ worker'.shook => f.epoch = worker.granted
    BY <2>a, <2>1, <2>5
  <2> QED
    BY <1>0, <1>1, <1>2, <2>a, <2>1, <2>3, <2>4, <2>5, <2>6, SendingKeeps
<1> QED
  BY <1>5, <1>6, <1>7

(* A call returns: on its reply, which is taken off the stream, because    *)
(* the stream is over, or because it is out of step.                       *)
LEMMA ReturningKeeps ==
    ASSUME IInv, ~Idle, worker' \in Worker, Idle',
           worker'.channel = worker.channel, worker'.open = worker.open,
           worker'.seq = worker.seq,
           UNCHANGED << epoch, deaf, made, ingested, sent >>, damaged' \in 0 .. MaxDamage,
           \/ /\ severed' = severed
              /\ (Arrived /\ Takes) \/ (~Arrived /\ Wire.over /\ conn' = conn)
           \/ /\ worker.rest = "long" /\ conn' = conn
              /\ severed' = severed \cup {worker.channel},
           \/ worker'.shook = worker.shook /\ worker'.granted = worker.granted
           \/ ~worker'.shook
           \/ /\ Answered /\ Takes /\ Answer.type = "helloAck" /\ Answer.status = "accepted"
              /\ worker'.granted = Answer.epoch,
           acked' = acked \/ (/\ Answered /\ Answer.type = "evidenceAck"
                              /\ acked' = {[batch |-> Batch, seq |-> Answer.seq,
                                           torn |-> worker.channel \in severed]})
    PROVE  IInv'
<1> DEFINE wc == worker.channel
<1>0. /\ wc \in Connections /\ wc # None /\ worker.open /\ worker \in Worker
      /\ conn \in [Connections -> Connection] /\ wc <= made /\ wc \in 1 .. made
  BY SessionAssumption DEF IInv, TypeOK, Worker, Bounded, None, Connections
<1>1. ASSUME Arrived
      PROVE  /\ Wire.down # << >> /\ Answer \in Reply /\ Answer = Wire.down[1]
             /\ 1 \in DOMAIN Wire.down
             /\ Tail(Wire.down) \in Seq(Reply)
             /\ \A i \in DOMAIN Tail(Wire.down) :
                    i + 1 \in DOMAIN Wire.down /\ Tail(Wire.down)[i] = Wire.down[i + 1]
             /\ wc \notin severed =>
                    /\ Len(Wire.down) = 1 /\ Wire.up = << >> /\ Answers(Answer)
                    /\ Tail(Wire.down) = << >>
             /\ Wire.session \in {"loop", "over"}
  <2>1. Wire.down # << >> /\ Wire.down \in Seq(Reply) /\ Wire \in Connection
    BY <1>0, <1>1, Streams DEF Arrived, Wire, IInv
  <2>2. wc \notin severed => Len(Wire.down) = 1 /\ Wire.up = << >> /\ Answers(Answer)
    BY <1>0, <2>1 DEF IInv, Replies, Answer, Wire
  <2>3. Wire.session \in {"loop", "over"}
    BY <1>0, <2>1 DEF IInv, Shape, ShapeOf, Wire, Connection, Unused
  <2>4. Answer = Head(Wire.down)
    BY DEF Answer, Wire
  <2> QED
    BY <2>1, <2>2, <2>3, <2>4, ReadOne
<1>2. /\ conn' \in [Connections -> Connection]
      /\ \A c \in Connections \ {wc} : conn'[c] = conn[c]
      /\ Wire'.session = Wire.session /\ Wire'.over = Wire.over
      /\ Wire'.left = Wire.left /\ Wire'.up = Wire.up
      /\ Arrived /\ Takes => Wire'.down = Tail(Wire.down)
      /\ ~(Arrived /\ Takes) => Wire'.down = Wire.down
  <2>1. CASE conn' = conn /\ ~(Arrived /\ Takes)
    BY <1>0, <2>1 DEF Wire
  <2>2. CASE Arrived /\ Takes
    <3> DEFINE z == [conn[wc] EXCEPT !.down = Tail(@)]
    <3>1. conn' = [conn EXCEPT ![wc] = z]
      BY <2>2 DEF Takes
    <3>2. /\ z \in Connection /\ z.session = conn[wc].session /\ z.over = conn[wc].over
          /\ z.left = conn[wc].left /\ z.up = conn[wc].up /\ z.down = Tail(conn[wc].down)
      BY <1>0, <1>1, <2>2 DEF Connection, Wire
    <3> HIDE DEF z
    <3> QED
      BY <1>0, <2>2, <3>1, <3>2 DEF Wire
  <2> QED
    BY <2>1, <2>2
<1>a. \A i \in DOMAIN Wire'.down : \E j \in DOMAIN Wire.down : Wire'.down[i] = Wire.down[j]
  <2>1. CASE Arrived /\ Takes
    BY <1>1, <1>2, <2>1, ZenonT(40)
  <2>2. CASE ~(Arrived /\ Takes)
    BY <1>2, <2>2
  <2> QED
    BY <2>1, <2>2
<1>b. wc \notin severed' => Wire'.down = << >>
  BY <1>0, <1>1, <1>2 DEF Arrived, Wire
<1>3. acked' \subseteq [batch : Connections \X (0 .. MaxFrames + 1), seq : 0 .. MaxFrames + 1,
                        torn : BOOLEAN]
      /\ AckNamesBatch'
  <2>1. CASE acked' = acked
    BY <2>1 DEF IInv, TypeOK, AckNamesBatch
  <2>2. CASE /\ Answered /\ Answer.type = "evidenceAck"
             /\ acked' = {[batch |-> Batch, seq |-> Answer.seq,
                           torn |-> worker.channel \in severed]}
    <3>0. Arrived
      BY <2>2 DEF Answered
    <3>1. /\ << wc, Answer.seq >> \in ingested /\ Answer.seq <= worker.seq
          /\ wc \notin severed => Answer.seq = worker.seq
      BY <1>0, <1>1, <2>2, <3>0 DEF IInv, Numbered, Answers
    <3>2. /\ Batch \in Connections \X (0 .. MaxFrames + 1) /\ Answer.seq \in 0 .. MaxFrames + 1
          /\ Batch[1] = wc /\ Batch[2] = worker.seq
      BY <1>0, <1>1, <3>0 DEF Worker, Batch, Reply
    <3> DEFINE torn == wc \in severed
               a    == [batch |-> Batch, seq |-> Answer.seq, torn |-> torn]
    <3>3. torn \in BOOLEAN
      OBVIOUS
    <3>4. a.batch = Batch /\ a.seq = Answer.seq /\ a.torn = torn
      OBVIOUS
    <3>5. a \in [batch : Connections \X (0 .. MaxFrames + 1), seq : 0 .. MaxFrames + 1,
                 torn : BOOLEAN]
      BY <3>2, <3>3
    <3>6. /\ << a.batch[1], a.seq >> \in ingested' /\ a.seq <= a.batch[2]
          /\ ~a.torn => a.seq = a.batch[2]
      BY <3>1, <3>2, <3>4
    <3>7. acked' = {a}
      BY <2>2
    <3> HIDE DEF a
    <3> QED
      BY <3>5, <3>6, <3>7 DEF AckNamesBatch
  <2> QED
    BY <2>1, <2>2
<1>4. TypeOK' /\ Bounded'
  BY <1>0, <1>2, <1>3 DEF IInv, TypeOK, Bounded, Idle
<1>5. ASSUME NEW c \in Connections PROVE ShapeOf(c)'
  <2>1. ShapeOf(c) /\ (Serving(c)' <=> Serving(c))
    BY DEF IInv, Shape, Serving
  <2>2. CASE c # wc
    BY <1>2, <2>1, <2>2 DEF ShapeOf
  <2>3. CASE c = wc
    <3>1. conn[wc].session # "unused" /\ Serving(wc)
      BY <1>0, <2>1, <2>3 DEF IInv, TypeOK, ShapeOf, Serving, Connections
    <3> QED
      BY <1>1, <1>2, <2>1, <2>3, <3>1 DEF ShapeOf, Wire, Arrived
  <2> QED
    BY <2>2, <2>3
<1>6. ASSUME NEW c \in Connections \ severed' PROVE RequestsOf(c)'
  <2>1. CASE c # wc
    <3>1. \A i \in DOMAIN conn[c].up : conn[c].up[i].type \notin {"hello", "evidence"}
      BY <2>1, NothingAsked
    <3> QED
      BY <1>2, <2>1, <3>1 DEF RequestsOf
  <2>2. CASE c = wc
    <3>1. Wire.up = << >>
      BY <1>0, <1>1, <2>2 DEF IInv, Shape, ShapeOf, Wire
    <3> QED
      BY <1>2, <2>2, <3>1 DEF RequestsOf, Wire
  <2> QED
    BY <2>1, <2>2
<1>7. Replies' /\ Numbered' /\ Late'
  <2>1. Replies'
    BY <1>b DEF Replies
  <2>2. Numbered'
    BY <1>2, <1>a DEF IInv, Numbered
  <2>3. Wire.session \in {"loop", "over"}
    <3>1. CASE Arrived
      BY <1>1, <3>1
    <3>2. CASE Wire.over
      BY <1>0, <3>2 DEF IInv, Shape, ShapeOf, Wire
    <3>3. CASE worker.rest = "long"
      BY <1>0, <3>3 DEF IInv, Late
    <3> QED
      BY <3>1, <3>2, <3>3
  <2>4. \A i \in DOMAIN Wire'.down : Wire'.down[i].type # "helloAck"
    <3>1. CASE wc \notin severed'
      BY <1>b, <3>1
    <3>2. CASE wc \in severed \/ worker.rest = "long"
      BY <1>0, <1>a, <3>2 DEF IInv, Late
    <3> QED
      BY <3>1, <3>2
  <2> QED
    BY <1>2, <2>1, <2>2, <2>3, <2>4 DEF Late
<1>8. Served'
  <2>1. CASE worker'.shook = worker.shook /\ worker'.granted = worker.granted
    BY <1>0, <1>2, <1>a, <2>1 DEF IInv, Served
  <2>2. CASE ~worker'.shook
    BY <2>2 DEF Served
  <2>3. CASE /\ Answered /\ Takes /\ Answer.type = "helloAck" /\ Answer.status = "accepted"
             /\ worker'.granted = Answer.epoch
    <3>0. Arrived
      BY <2>3 DEF Answered
    <3>1. wc \notin severed
      BY <1>0, <1>1, <2>3, <3>0 DEF IInv, Late
    <3>2. Wire'.down = << >> /\ Wire'.up = << >>
      BY <1>1, <1>2, <2>3, <3>0, <3>1
    <3>3. ~Wire.over => worker'.granted = epoch /\ Wire.session = "loop"
      BY <1>1, <2>3, <3>0, <3>1 DEF Answers
    <3> QED
      BY <1>0, <1>2, <3>2, <3>3 DEF Served
  <2> QED
    BY <2>1, <2>2, <2>3
<1> QED
  BY <1>3, <1>4, <1>5, <1>6, <1>7, <1>8 DEF IInv, Shape, Requests

(* The answer received is all that a returning call changes.               *)
LEMMA ReceivingKeeps ==
    ASSUME IInv, WorkerReceives PROVE IInv'
<1>0. /\ worker \in Worker /\ damaged \in 0 .. MaxDamage
      /\ worker.channel \in Connections \cup {None}
  BY DEF IInv, TypeOK, Worker
<1>1. /\ ~Idle /\ UNCHANGED << epoch, deaf, made, ingested, sent >>
  BY DEF WorkerReceives, ReceiveHelloAck, ReceiveFence, ReceiveAck, ReceiveOther, ReceiveDamaged,
         ReceiveAcross, ReceiveGarbage, ReceiveEnd, Answered, coordinator, bounds
<1>2. Answered => Arrived /\ worker.channel \in Connections /\ Answer \in Reply
  <2>1. ~Idle => worker.channel \in Connections
    BY <1>0 DEF IInv, TypeOK
  <2> QED
    BY <2>1, ReadOne, Streams DEF Answered, Arrived, Answer, IInv
<1> DEFINE w(g, f, s, a) == [worker EXCEPT !.granted = g, !.fenced = f, !.shook = s,
                                           !.rest = a, !.call = "none"]
<1>3. ASSUME NEW g \in 0 .. MaxEpoch, NEW f \in BOOLEAN, NEW s \in BOOLEAN, NEW a \in Rests
      PROVE  /\ w(g, f, s, a) \in Worker /\ w(g, f, s, a).channel = worker.channel
             /\ w(g, f, s, a).open = worker.open /\ w(g, f, s, a).claim = worker.claim
             /\ w(g, f, s, a).seq = worker.seq /\ w(g, f, s, a).granted = g
             /\ w(g, f, s, a).shook = s /\ w(g, f, s, a).rest = a
             /\ w(g, f, s, a).call = "none"
  BY <1>0 DEF Worker
<1>4. /\ worker.granted \in 0 .. MaxEpoch /\ worker.fenced \in BOOLEAN
      /\ worker.shook \in BOOLEAN /\ worker.rest \in Rests
  BY <1>0 DEF Worker
<1> DEFINE Back(g, s, a) ==
              /\ worker' \in Worker /\ Idle'
              /\ worker'.channel = worker.channel /\ worker'.open = worker.open
              /\ worker'.claim = worker.claim /\ worker'.seq = worker.seq
              /\ worker'.granted = g /\ worker'.shook = s /\ worker'.rest = a
<1>5. ASSUME NEW g \in 0 .. MaxEpoch, NEW f \in BOOLEAN, NEW s \in BOOLEAN, NEW a \in Rests,
             worker' = w(g, f, s, a)
      PROVE  Back(g, s, a)
  <2> HIDE DEF w
  <2> QED
    BY <1>3, <1>5 DEF Idle
<1>6. CASE ReceiveHelloAck
  <2> DEFINE r == Answer
             ok == r.status = "accepted"
             f  == IF ok THEN worker.fenced ELSE r.status = "staleEpoch"
  <2>1. r.epoch \in 0 .. MaxEpoch /\ ok \in BOOLEAN /\ f \in BOOLEAN /\ Answered
    BY <1>2, <1>4, <1>6 DEF ReceiveHelloAck, Reply
  <2>2. worker' = w(r.epoch, f, ok, worker.rest)
    BY <1>0, <1>6 DEF ReceiveHelloAck, Returns, AfterHello, Worker
  <2>3. Back(r.epoch, ok, worker.rest)
    <3> HIDE DEF r, ok, f, w, Back
    <3> QED
      BY <1>4, <1>5, <2>1, <2>2, ZenonT(30)
  <2>4. Takes /\ severed' = severed /\ acked' = acked /\ damaged' = damaged
        /\ Answer.type = "helloAck"
    BY <1>6 DEF ReceiveHelloAck, history, bounds
  <2> HIDE DEF f, w
  <2> QED
    BY <1>0, <1>1, <1>2, <2>1, <2>3, <2>4, ReturningKeeps
<1>7. CASE ReceiveFence
  <2>1. worker' = w(worker.granted, TRUE, worker.shook, worker.rest)
    BY <1>0, <1>7 DEF ReceiveFence, Returns, Worker
  <2>2. Back(worker.granted, worker.shook, worker.rest)
    BY <1>4, <1>5, <2>1
  <2>3. Answered /\ Takes /\ severed' = severed /\ acked' = acked /\ damaged' = damaged
    BY <1>7 DEF ReceiveFence, history, bounds
  <2> QED
    BY <1>0, <1>1, <1>2, <2>2, <2>3, ReturningKeeps
<1>8. ASSUME worker' = [worker EXCEPT !.call = "none"]
      PROVE  Back(worker.granted, worker.shook, worker.rest)
  BY <1>0, <1>8 DEF Worker, Idle
<1>9. CASE ReceiveAck \/ ReceiveOther
  <2>1. Back(worker.granted, worker.shook, worker.rest)
    BY <1>8, <1>9 DEF ReceiveAck, ReceiveOther, Returns
  <2>2. Answered /\ Takes /\ severed' = severed /\ damaged' = damaged
    BY <1>9 DEF ReceiveAck, ReceiveOther, history, bounds
  <2>3. acked' = acked \/ (/\ Answered /\ Answer.type = "evidenceAck"
                           /\ acked' = {[batch |-> Batch, seq |-> Answer.seq,
                                        torn |-> worker.channel \in severed]})
    BY <1>9 DEF ReceiveAck, ReceiveOther, history
  <2> QED
    BY <1>0, <1>1, <1>2, <2>1, <2>2, <2>3, ReturningKeeps
<1>10. CASE ReceiveDamaged
  <2>1. PICK a \in Rests : worker' = [[worker EXCEPT !.rest = a] EXCEPT !.call = "none"]
    BY <1>10 DEF ReceiveDamaged, Returns, Rests
  <2>2. worker' = w(worker.granted, worker.fenced, worker.shook, a)
    BY <1>0, <2>1 DEF Worker
  <2>3. Back(worker.granted, worker.shook, a)
    BY <1>4, <1>5, <2>2
  <2>4. /\ Answered /\ Takes /\ severed' = severed /\ acked' = acked
        /\ damaged < MaxDamage /\ damaged' = damaged + 1
    BY <1>10 DEF ReceiveDamaged, history
  <2>5. damaged' \in 0 .. MaxDamage
    BY <1>0, <2>4, SessionAssumption
  <2> QED
    BY <1>1, <1>2, <2>3, <2>4, <2>5, ReturningKeeps
<1>11. CASE ReceiveAcross \/ ReceiveGarbage
  <2>1. PICK a \in Rests : worker' = [[worker EXCEPT !.rest = a] EXCEPT !.call = "none"]
    BY <1>11 DEF ReceiveAcross, ReceiveGarbage, Returns, Rests
  <2>2. worker' = w(worker.granted, worker.fenced, worker.shook, a)
    BY <1>0, <2>1 DEF Worker
  <2>3. Back(worker.granted, worker.shook, a)
    BY <1>4, <1>5, <2>2
  <2>4. /\ acked' = acked /\ damaged' = damaged
        /\ \/ Arrived /\ Takes /\ severed' = severed
           \/ /\ worker.rest = "long" /\ conn' = conn
              /\ severed' = severed \cup {worker.channel}
    BY <1>11 DEF ReceiveAcross, ReceiveGarbage, history, bounds
  <2> QED
    BY <1>0, <1>1, <2>3, <2>4, ReturningKeeps
<1>12. CASE ReceiveEnd
  <2>1. Back(worker.granted, worker.shook, worker.rest)
    BY <1>8, <1>12 DEF ReceiveEnd, Returns
  <2>2. /\ conn' = conn /\ severed' = severed /\ acked' = acked
        /\ damaged' = damaged /\ ~Arrived /\ Wire.over
    BY <1>12 DEF ReceiveEnd, history, bounds, Wire
  <2> QED
    BY <1>0, <1>1, <2>1, <2>2, ReturningKeeps
<1> QED
  BY <1>6, <1>7, <1>9, <1>10, <1>11, <1>12 DEF WorkerReceives

(* Configuring an epoch and failing to connect keeps the invariant: there  *)
(* is no reply under way but a fence.                                      *)
LEMMA RefusalKeeps ==
    ASSUME IInv, ConnectFails PROVE IInv'
<1>1. PICK claim \in Configured : worker' = [worker EXCEPT !.claim = claim]
  BY DEF ConnectFails
<1>2. /\ Idle
      /\ UNCHANGED << epoch, deaf, conn, made, ingested, acked, severed, sent, damaged >>
  BY DEF ConnectFails, coordinator, history, bounds
<1>3. claim \in Claims /\ worker \in Worker
  BY SessionAssumption DEF Configured, Claims, IInv, TypeOK
<1>4. /\ worker' \in Worker /\ worker'.channel = worker.channel /\ worker'.open = worker.open
      /\ worker'.seq = worker.seq /\ worker'.call = worker.call
      /\ worker'.shook = worker.shook /\ worker'.granted = worker.granted
      /\ worker'.rest = worker.rest
  BY <1>1, <1>3 DEF Worker
<1>5. TypeOK' /\ Bounded'
  BY <1>2, <1>4 DEF IInv, TypeOK, Bounded, Idle
<1>6. Shape' /\ AckNamesBatch' /\ Served'
  BY <1>2, <1>4 DEF IInv, Shape, ShapeOf, Serving, AckNamesBatch, Served, Wire
<1>7. Requests'
  <2> SUFFICES ASSUME NEW c \in Connections \ severed PROVE RequestsOf(c)'
    BY <1>2 DEF Requests
  <2> QED
    BY <1>2, NothingAsked DEF RequestsOf
<1>8. Replies' /\ Numbered' /\ Late'
  BY <1>2, <1>4 DEF IInv, Replies, Numbered, Late, Answers, Batch, Wire, Idle
<1> QED
  BY <1>5, <1>6, <1>7, <1>8 DEF IInv

(* A restart ends every connection, and what was not read yet with it.     *)
LEMMA RestartKeeps ==
    ASSUME IInv, Restart PROVE IInv'
<1>1. PICK lost \in SUBSET Connections :
          conn' = [c \in Connections |->
                      IF conn[c].session = "unused" THEN Unused ELSE Closed(conn[c], c \in lost)]
  BY DEF Restart
<1>2. /\ epoch < MaxEpoch /\ epoch' = epoch + 1 /\ deaf' = FALSE
      /\ UNCHANGED << made, worker, ingested, acked, severed, sent, damaged >>
  BY DEF Restart, history, bounds
<1>3. ASSUME NEW c \in Connections
      PROVE  /\ conn'[c] \in Connection
             /\ conn[c].session = "unused" => conn'[c] = conn[c]
             /\ conn[c].session # "unused" =>
                    /\ conn'[c].session = "over" /\ conn'[c].over /\ conn'[c].up = << >>
                    /\ conn'[c].left = conn[c].left /\ conn'[c].down \in {conn[c].down, << >>}
  <2>1. CASE conn[c].session = "unused"
    <3>1. conn[c] = Unused
      BY <2>1 DEF IInv, Shape, ShapeOf
    <3> QED
      BY <1>1, <2>1, <3>1, Records
  <2>2. CASE conn[c].session # "unused"
    <3> DEFINE b == c \in lost
    <3>1. conn'[c] = Closed(conn[c], b) /\ conn[c] \in Connection /\ b \in BOOLEAN
      BY <1>1, <2>2 DEF IInv, TypeOK
    <3> HIDE DEF b
    <3> QED
      BY <2>2, <3>1, ClosedIs
  <2> QED
    BY <2>1, <2>2
<1>4. TypeOK' /\ Bounded' /\ AckNamesBatch'
  <2>1. conn' \in [Connections -> Connection]
    BY <1>1, <1>3
  <2>2. epoch' \in 1 .. MaxEpoch
    BY <1>2, SessionAssumption DEF IInv, TypeOK
  <2> QED
    BY <1>2, <2>1, <2>2 DEF IInv, TypeOK, Bounded, AckNamesBatch, Idle
<1>5. Shape'
  <2> SUFFICES ASSUME NEW c \in Connections PROVE ShapeOf(c)'
    BY DEF Shape
  <2>1. ShapeOf(c) /\ (Serving(c)' <=> Serving(c))
    BY <1>2 DEF IInv, Shape, Serving
  <2>2. CASE conn[c].session = "unused"
    BY <1>2, <1>3, <2>1, <2>2 DEF ShapeOf
  <2>3. CASE conn[c].session # "unused"
    BY <1>2, <1>3, <2>1, <2>3 DEF ShapeOf
  <2> QED
    BY <2>2, <2>3
<1>6. \A c \in Connections : conn'[c].up = << >>
  BY <1>3 DEF IInv, Shape, ShapeOf, Unused
<1>7. Requests'
  BY <1>6 DEF Requests, RequestsOf
<1>8. worker.channel # None =>
          /\ worker.channel \in Connections /\ Wire'.over
          /\ Wire'.session = "over" /\ Wire'.up = << >>
          /\ Wire'.down \in {Wire.down, << >>}
  <2> SUFFICES ASSUME worker.channel # None
               PROVE  /\ worker.channel \in Connections /\ Wire'.over
                      /\ Wire'.session = "over" /\ Wire'.up = << >>
                      /\ Wire'.down \in {Wire.down, << >>}
    OBVIOUS
  <2>1. worker.channel \in Connections /\ worker.channel <= made /\ made \in Nat
    BY DEF IInv, TypeOK, Worker, Bounded
  <2>2. conn[worker.channel].session # "unused"
    BY <2>1 DEF IInv, Shape, ShapeOf, Connections
  <2> QED
    BY <1>2, <1>3, <2>1, <2>2 DEF Wire
<1>9. Replies'
  <2> SUFFICES ASSUME worker.open, worker.channel \notin severed, Wire'.down # << >>
               PROVE  Replies'
    BY <1>2 DEF Replies
  <2>0. worker.channel # None
    BY DEF IInv, TypeOK
  <2>1. Wire'.down = Wire.down /\ Len(Wire.down) = 1 /\ Answers(Head(Wire.down))
    BY <1>8, <2>0 DEF IInv, Replies
  <2>2. Answers(Head(Wire.down))'
    BY <1>2, <1>8, <2>0, <2>1 DEF Answers, Idle, Batch
  <2> QED
    BY <1>2, <1>8, <2>0, <2>1, <2>2 DEF Replies
<1>11. Numbered' /\ Late'
  <2>1. worker.open => worker.channel # None
    BY DEF IInv, TypeOK
  <2> QED
    BY <1>2, <1>8, <2>1 DEF IInv, Numbered, Late
<1>10. Served'
  BY <1>2, <1>8 DEF IInv, Served, TypeOK
<1> QED
  BY <1>4, <1>5, <1>7, <1>9, <1>10, <1>11 DEF IInv

(* Nothing is connected at first.                                          *)
LEMMA StartsWell ==
    Init => IInv
<1> SUFFICES ASSUME Init PROVE IInv
  OBVIOUS
<1>1. /\ worker.channel = None /\ ~worker.open /\ worker.call = "none" /\ ~worker.shook
      /\ worker.seq = 1 /\ worker \in Worker
  BY Records DEF Init, NewWorker
<1>2. TypeOK
  <2>1. conn \in [Connections -> Connection]
    BY Records DEF Init
  <2>2. /\ epoch \in 1 .. MaxEpoch /\ deaf \in BOOLEAN /\ made \in 0 .. MaxConnections
        /\ ingested = {} /\ acked = {} /\ severed = {}
        /\ sent \in 0 .. MaxFrames /\ damaged \in 0 .. MaxDamage
    <3>1. /\ 1 \in 1 .. MaxEpoch /\ 0 \in 0 .. MaxConnections
          /\ 0 \in 0 .. MaxFrames /\ 0 \in 0 .. MaxDamage
      BY SessionAssumption
    <3>2. /\ epoch = 1 /\ deaf = FALSE /\ made = 0 /\ sent = 0 /\ damaged = 0
          /\ ingested = {} /\ acked = {} /\ severed = {}
      BY Zenon DEF Init
    <3> QED
      BY <3>1, <3>2
  <2> QED
    BY <1>1, <2>1, <2>2 DEF TypeOK, Idle
<1>a. Bounded
  BY <1>1 DEF Init, Bounded, Idle, None
<1>3. \A c \in Connections : conn[c] = Unused /\ c > 0
  BY DEF Init, Connections
<1>4. Shape /\ Requests
  BY <1>1, <1>3 DEF Shape, ShapeOf, Requests, RequestsOf, Unused, Serving, Init
<1>5. Replies /\ Numbered /\ Late /\ Served /\ AckNamesBatch
  BY <1>1 DEF Replies, Numbered, Late, Served, AckNamesBatch, Init
<1> QED
  BY <1>2, <1>a, <1>4, <1>5 DEF IInv

(* Every step keeps the invariant.                                         *)
LEMMA EveryStepKeeps ==
    IInv /\ [Next]_vars => IInv'
<1> SUFFICES ASSUME IInv, [Next]_vars PROVE IInv'
  OBVIOUS
<1>1. CASE WorkerCalls
  BY <1>1, PartingKeeps, RefusalKeeps, CallingKeeps DEF WorkerCalls
<1>2. CASE Killed
  BY <1>2, PartingKeeps
<1>3. CASE WorkerReceives
  BY <1>3, ReceivingKeeps
<1>4. CASE \E c \in Connections : SessionProceeds(c)
  BY <1>4, SessionKeeps
<1>5. CASE AcceptFails
  <2>1. /\ deaf' = TRUE
        /\ UNCHANGED << epoch, conn, made, worker, ingested, acked, severed, sent, damaged >>
    BY <1>5 DEF AcceptFails, history, bounds
  <2> QED
    BY <2>1 DEF IInv, TypeOK, Bounded, Shape, ShapeOf, Serving, Requests, RequestsOf, Replies,
                Answers, Numbered, Late, Served, AckNamesBatch, Idle, Batch, Wire
<1>6. CASE Restart
  BY <1>6, RestartKeeps
<1>7. CASE UNCHANGED vars
  <2>1. UNCHANGED << epoch, deaf, conn, made, worker, ingested, acked, severed, sent, damaged >>
    BY <1>7 DEF vars, coordinator, history, bounds
  <2> QED
    BY <2>1 DEF IInv, TypeOK, Bounded, Shape, ShapeOf, Serving, Requests, RequestsOf, Replies,
                Answers, Numbered, Late, Served, AckNamesBatch, Idle, Batch, Wire
<1> QED
  BY <1>1, <1>2, <1>3, <1>4, <1>5, <1>6, <1>7 DEF Next

(* The invariant holds throughout.                                         *)
LEMMA Throughout ==
    Spec => []IInv
BY StartsWell, EveryStepKeeps, PTL DEF Spec

-----------------------------------------------------------------------------
(* The theorems.                                                           *)

(* Type correctness: a call in progress has a channel, whatever is lost,   *)
(* damaged or restarted (Worker and CoordinatorDaemon::run_session()).     *)
THEOREM TypeCorrect ==
    Spec => []TypeOK
<1>1. IInv => TypeOK
  BY DEF IInv
<1> QED
  BY <1>1, Throughout, PTL

(* What send_evidence() reports as an acknowledgement is that of a batch   *)
(* ingested from the same channel, and of this one unless an earlier call  *)
(* on it failed without awaiting its reply, although no sequences are      *)
(* compared (Worker::send_evidence(), FramedChannel::receive()).           *)
THEOREM AcknowledgedIsIngested ==
    Spec => []AckNamesBatch
<1>1. IInv => AckNamesBatch
  BY DEF IInv
<1> QED
  BY <1>1, Throughout, PTL

(* Evidence that a live session can still ingest is the batch the worker   *)
(* waits for, unless a call on that channel has not awaited its reply.     *)
THEOREM NothingBehindTheBack ==
    Spec => []NoLateEvidence
<1>1. IInv => NoLateEvidence
  BY DEF IInv, Requests, RequestsOf, NoLateEvidence, Batch
<1> QED
  BY <1>1, Throughout, PTL

(* No fence is under way to a worker that was accepted on its channel and  *)
(* has been handed batches of the epoch it was granted only: handshake()   *)
(* leaves its heartbeats with the epoch its session compares with.         *)
THEOREM AcceptedIsNotFenced ==
    Spec => []ServedIsNotFenced
<1>1. IInv => ServedIsNotFenced
  BY DEF IInv, Served, ServedIsNotFenced, Wire
<1> QED
  BY <1>1, Throughout, PTL
=============================================================================
