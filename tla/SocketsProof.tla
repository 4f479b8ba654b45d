---------------------------- MODULE SocketsProof -----------------------------
(***************************************************************************)
(* Proofs about Sockets.tla for any set of connections: the types, the     *)
(* life of a descriptor, the order of the events about a connection, and   *)
(* how many of them the queue may hold.                                    *)
(*                                                                         *)
(* Three threads end a connection.  What keeps them apart is who may have  *)
(* the descriptor: the resolver until it attaches it, the record while it  *)
(* is listed, and nobody once the I/O thread took the record out.  Sound   *)
(* says so per connection, InHand says what the I/O thread may rely on     *)
(* between two of its sections, and Reports says who may still speak of a  *)
(* connection.                                                             *)
(*                                                                         *)
(* That the events are bounded is an account over all of the connections:  *)
(* what a connection may still push before the poll set is built again is  *)
(* two events at most, a queue that is short when it is built starts the   *)
(* account afresh, and a paused one asks for no reads (Owed, BInv).        *)
(***************************************************************************)
EXTENDS Sockets, FiniteSetTheorems, TLAPS

-------------------------------------------------------------------------------
(* The inductive invariant                                                   *)

Alive == {"handshake", "up", "fin", "ended"}

\* Who has c's descriptor.
Sound(c) ==
    /\ resolver[c] \in {"dial", "fail", "report"} => sock[c] = "none"
    /\ resolver[c] = "attach" => sock[c] \in Alive
    /\ conn[c].state \in {"unused", "resolving"} =>
          sock[c] = "none" /\ resolver[c] = "none" /\ ~conn[c].fd
    /\ conn[c].fd => /\ Listed(c) /\ sock[c] \in Alive
                     /\ resolver[c] \in {"leave", "none"}
    /\ sock[c] \in Alive => conn[c].fd \/ resolver[c] = "attach"
    /\ io.poll[c] # {} => conn[c].fd \/ conn[c].state = "gone"

\* What the I/O thread relies on of the connection in its hands.
InHand ==
    /\ io.at \in {"claimed", "connect", "connected", "flush", "recv", "data",
                  "hup", "closed"} => io.c \in Conns
    /\ io.at = "claimed" =>
          /\ conn[io.c].state = "connecting" /\ ~conn[io.c].fd
          /\ sock[io.c] = "none" /\ resolver[io.c] = "none"
    /\ io.at = "connect" => conn[io.c].state = "connecting" /\ conn[io.c].fd
    /\ io.at \in {"connected", "flush", "recv", "data", "hup"} =>
          conn[io.c].state = "open" /\ conn[io.c].fd
    /\ io.at = "closed" => conn[io.c].state = "gone" /\ resolver[io.c] # "report"

\* The threads that are over once stop has joined or awaited them.
Joined ==
    /\ broker \in {"joined", "quiet", "freed"} => io.at = "gone"
    /\ broker \in {"quiet", "freed"} => \A c \in Conns : resolver[c] = "none"

Unheard(c) == heard[c] = "nothing" /\ \A i \in DOMAIN queue : queue[i].c # c

Unclosed(c) ==
    /\ heard[c] # "closed"
    /\ \A i \in DOMAIN queue : queue[i].c = c => queue[i].kind # "closed"

\* A connection not connected yet has been spoken of by nobody; one that is
\* listed, or about to be reported closed, has not been reported closed.
Reports(c) ==
    /\ conn[c].state \in {"unused", "resolving", "connecting"} => Unheard(c)
    /\ io.at = "connected" /\ io.c = c => Unheard(c)
    /\ Listed(c) \/ resolver[c] = "report" \/ (io.at = "closed" /\ io.c = c) =>
          Unclosed(c)
    /\ resolver[c] = "report" => conn[c].state = "gone"

IInv ==
    /\ TypeOK
    /\ \A c \in Conns : Sound(c)
    /\ InHand
    /\ Joined
    /\ \A c \in Conns : Reports(c)
    /\ EventsInOrder

-------------------------------------------------------------------------------
(* Facts of the records, the queue, and who may still speak of a connection  *)

\* A step that pushes and delivers nothing.
LEMMA Silent ==
    ASSUME UNCHANGED <<queue, heard>>
    PROVE  /\ EventsInOrder => EventsInOrder'
           /\ \A c \in Conns : Unheard(c) => Unheard(c)'
           /\ \A c \in Conns : Unclosed(c) => Unclosed(c)'
  BY DEF EventsInOrder, Unheard, Unclosed

\* What a handler writes into a record leaves it a record.
LEMMA RecordUpdates ==
    /\ Gone \in Records
    /\ \A r \in Records :
         /\ [r EXCEPT !.fd = TRUE] \in Records
         /\ [r EXCEPT !.closing = TRUE] \in Records
         /\ \A b \in BOOLEAN : [r EXCEPT !.closing = b] \in Records
         /\ \A n \in 0..MaxOut : [r EXCEPT !.out = n] \in Records
         /\ \A s \in {"resolving", "connecting", "open"} :
              [r EXCEPT !.state = s] \in Records
<1>1. 0 \in 0..MaxOut
  BY SocketConstants
<1>2. Gone \in Records
  BY <1>1 DEF Gone, Records
<1> QED BY <1>2 DEF Records

\* flushConn writes no more than there is, and no more than the kernel takes.
LEMMA WrittenFits ==
    ASSUME TypeOK, NEW c \in Conns
    PROVE  conn[c].out - Written(c) \in 0..MaxOut /\ room[c] - Written(c) \in 0..MaxRoom
<1>1. conn[c].out \in 0..MaxOut /\ room[c] \in 0..MaxRoom
  BY DEF TypeOK, Records
<1> QED BY <1>1, SocketConstants DEF Written

LEMMA UnheardIsUnclosed == \A c \in Conns : Unheard(c) => Unclosed(c)
  BY DEF Unheard, Unclosed

\* The I/O thread takes a record out, reapClosing without a word, serviceOne
\* about to report it.
LEMMA TakeDownKeeps ==
    ASSUME IInv, NEW a \in Conns, TakeDown(a), Listed(a),
           UNCHANGED <<resolver, queue, wake, others>>,
           \/ io' = io /\ io.at = "reap"
           \/ io.c = a /\ io.at # "gone" /\ io' = [io EXCEPT !.at = "closed"]
    PROVE  IInv'
<1>1. conn' = [conn EXCEPT ![a] = Gone] /\ conn' \in [Conns -> Records]
  BY RecordUpdates DEF IInv, TypeOK, TakeDown
<1>2. /\ sock' = IF conn[a].fd THEN [sock EXCEPT ![a] = "closed"] ELSE sock
      /\ unread' = IF conn[a].fd THEN [unread EXCEPT ![a] = 0] ELSE unread
      /\ room' = room
  BY DEF TakeDown, kernel
<1>3. TypeOK'
  <2>1. sock' \in [Conns -> {"none", "handshake", "up", "fin", "ended", "closed"}]
    BY <1>2 DEF IInv, TypeOK
  <2>2. unread' \in [Conns -> 0..MaxUnread]
    BY <1>2, SocketConstants DEF IInv, TypeOK
  <2>3. TypeOK /\ UNCHANGED <<resolver, queue, wake, heard, broker>>
    BY DEF IInv, others
  <2>4. CASE io' = io
    BY <1>1, <1>2, <2>1, <2>2, <2>3, <2>4 DEF TypeOK
  <2>5. CASE io' = [io EXCEPT !.at = "closed"]
    BY <1>1, <1>2, <2>1, <2>2, <2>3, <2>5 DEF TypeOK
  <2> QED BY <2>4, <2>5
<1>4. conn'[a] = Gone /\ \A c \in Conns : c # a => conn'[c] = conn[c] /\ sock'[c] = sock[c]
  BY <1>1, <1>2 DEF IInv, TypeOK
<1>5. io'.poll = io.poll /\ io'.c = io.c
  BY DEF IInv, TypeOK
<1>6. ASSUME NEW c \in Conns PROVE Sound(c)'
  <2>1. CASE c # a
    BY <1>4, <1>5, <2>1 DEF IInv, Sound, Listed
  <2>2. CASE c = a /\ conn[a].fd
    <3>1. sock'[a] = "closed" /\ resolver'[a] \in {"leave", "none"}
      BY <1>2, <2>2 DEF IInv, TypeOK, Sound
    <3> QED BY <1>4, <2>2, <3>1 DEF Sound, Alive, Gone
  <2>3. CASE c = a /\ ~conn[a].fd
    BY <1>2, <1>4, <2>3 DEF IInv, Sound, Gone
  <2> QED BY <2>1, <2>2, <2>3
<1>7. resolver[a] # "report"
  BY DEF IInv, Reports, Listed
<1>8. InHand'
  <2>1. CASE io' = io /\ io.at = "reap"
    BY <2>1 DEF InHand
  <2>2. CASE io.c = a /\ io' = [io EXCEPT !.at = "closed"]
    <3>1. io'.at = "closed" /\ io'.c = a
      BY <2>2 DEF IInv, TypeOK
    <3> QED BY <1>4, <1>7, <3>1 DEF InHand, Gone
  <2> QED BY <2>1, <2>2
<1>9. Joined'
  BY DEF IInv, TypeOK, Joined, others
<1>10. ASSUME NEW c \in Conns PROVE Reports(c)'
  <2>1. (Unheard(c) => Unheard(c)') /\ (Unclosed(c) => Unclosed(c)')
    BY Silent DEF others
  <2>2. io'.at = "connected" => FALSE
    BY DEF IInv, TypeOK
  <2>3. CASE c = a
    BY <1>4, <1>7, <2>1, <2>2, <2>3 DEF IInv, Reports, Gone
  <2>4. CASE c # a
    <3>1. ~(io'.at = "closed" /\ io'.c = c)
      BY <2>4 DEF IInv, TypeOK
    <3> QED BY <1>4, <2>1, <2>2, <2>4, <3>1 DEF IInv, Reports, Listed
  <2> QED BY <2>3, <2>4
<1> QED BY <1>3, <1>6, <1>8, <1>9, <1>10, Silent DEF IInv, others

\* What push does to the queue: nothing, or one event behind the others.
LEMMA Pushed ==
    ASSUME TypeOK, NEW kind, NEW c, [kind |-> kind, c |-> c] \in Events, Push(kind, c)
    PROVE  /\ queue' \in Seq(Events) /\ Len(queue') <= MaxQueued
           /\ \A i \in DOMAIN queue' :
                \/ i \in DOMAIN queue /\ queue'[i] = queue[i]
                \/ /\ i \notin DOMAIN queue /\ i = Len(queue) + 1
                   /\ queue'[i] = [kind |-> kind, c |-> c]
<1> DEFINE event == [kind |-> kind, c |-> c]
<1>0. queue \in Seq(Events) /\ Len(queue) \in Nat /\ MaxQueued \in Nat
      /\ Len(queue) <= MaxQueued
  BY SocketConstants DEF TypeOK
<1>1. CASE queue' = queue
  BY <1>0, <1>1
<1>2. CASE Len(queue) < MaxQueued /\ queue' = Append(queue, event)
  BY <1>0, <1>2
<1>3. queue' = queue \/ (Len(queue) < MaxQueued /\ queue' = Append(queue, event))
  BY <1>0 DEF Push
<1> QED BY <1>1, <1>2, <1>3

\* An event of c may be pushed when none closed it, and its connection event
\* when nothing was said of it at all.
LEMMA PushedInOrder ==
    ASSUME IInv, NEW kind, NEW a, [kind |-> kind, c |-> a] \in Events,
           Push(kind, a), heard' = heard,
           a \in Conns => Unclosed(a), kind = "connected" => Unheard(a)
    PROVE  /\ EventsInOrder'
           /\ \A c \in Conns \ {a} : /\ Unheard(c) => Unheard(c)'
                                     /\ Unclosed(c) => Unclosed(c)'
           /\ a \in Conns /\ kind # "closed" => Unclosed(a)'
<1>1. \A i \in DOMAIN queue' :
        \/ i \in DOMAIN queue /\ queue'[i] = queue[i]
        \/ /\ i \notin DOMAIN queue /\ i = Len(queue) + 1
           /\ queue'[i] = [kind |-> kind, c |-> a]
  BY Pushed DEF IInv
<1>2. ASSUME NEW c \in Conns \ {a}
      PROVE  (Unheard(c) => Unheard(c)') /\ (Unclosed(c) => Unclosed(c)')
  BY <1>1, <1>2 DEF Unheard, Unclosed
<1>3. ASSUME a \in Conns, kind # "closed" PROVE Unclosed(a)'
  BY <1>1, <1>3 DEF Unclosed
<1>4. EventsInOrder'
  <2>0. DOMAIN queue = 1..Len(queue) /\ Len(queue) \in Nat /\ queue \in Seq(Events)
    BY DEF IInv, TypeOK
  <2>1. SUFFICES ASSUME NEW i \in DOMAIN queue', queue'[i].c # NoConn
                 PROVE  LET c == queue'[i].c IN
                          /\ heard[c] # "closed"
                          /\ queue'[i].kind = "connected" => heard[c] = "nothing"
                          /\ \A j \in 1..(i - 1) : queue'[j].c = c =>
                                /\ queue'[j].kind # "closed"
                                /\ queue'[i].kind # "connected"
    BY DEF EventsInOrder
  <2>2. \A j \in 1..(i - 1) : j \in DOMAIN queue /\ j \in DOMAIN queue' /\ queue'[j] = queue[j]
    <3>1. queue' \in Seq(Events)
      BY Pushed DEF IInv
    <3>2. DOMAIN queue' = 1..Len(queue') /\ Len(queue') \in Nat
      BY <3>1
    <3>3. i \in Nat /\ i <= Len(queue) + 1
      BY <1>1, <2>0, <3>2
    <3> QED BY <1>1, <2>0, <3>2, <3>3
  <2>3. CASE i \in DOMAIN queue /\ queue'[i] = queue[i]
    BY <2>1, <2>2, <2>3 DEF IInv, EventsInOrder
  <2>4. CASE queue'[i] = [kind |-> kind, c |-> a]
    <3>1. a \in Conns
      BY <2>1, <2>4 DEF Events
    <3> QED BY <2>2, <2>4, <3>1 DEF Unclosed, Unheard
  <2> QED BY <1>1, <2>3, <2>4
<1> QED BY <1>2, <1>3, <1>4

\* What taking the first event off leaves.
LEMMA Popped ==
    ASSUME queue \in Seq(Events), queue # <<>>, queue' = Tail(queue)
    PROVE  /\ queue' \in Seq(Events) /\ Len(queue') = Len(queue) - 1
           /\ DOMAIN queue' = 1..Len(queue') /\ Len(queue') \in Nat
           /\ Head(queue) = queue[1] /\ 1 \in DOMAIN queue /\ Head(queue) \in Events
           /\ \A i \in DOMAIN queue' : i \in Nat /\ i + 1 \in DOMAIN queue /\ queue'[i] = queue[i + 1]
  OBVIOUS

-------------------------------------------------------------------------------
(* Steps of one kind                                                         *)

\* A step that moves the I/O thread and nothing else.
LEMMA IoOnly ==
    ASSUME IInv, TypeOK', InHand', io.at # "gone",
           UNCHANGED <<conn, kernel, resolver, queue, others>>,
           io'.at \notin {"connected", "closed"},
           \A c \in Conns : io'.poll[c] # {} => io.poll[c] # {} \/ conn[c].fd
    PROVE  IInv'
<1>1. ASSUME NEW c \in Conns PROVE Sound(c)'
  BY DEF IInv, Sound, Listed, kernel
<1>2. Joined'
  BY DEF IInv, Joined, others
<1>3. ASSUME NEW c \in Conns PROVE Reports(c)'
  BY Silent DEF IInv, Reports, Listed, others
<1> QED BY <1>1, <1>2, <1>3, Silent DEF IInv, others

\* A step of a peer or of the kernel: what was alive stays alive.
LEMMA KernelOnly ==
    ASSUME IInv, TypeOK', UNCHANGED <<conn, resolver, queue, io, others>>,
           \A c \in Conns : sock'[c] # sock[c] => {sock[c], sock'[c]} \subseteq Alive
    PROVE  IInv'
<1>1. ASSUME NEW c \in Conns PROVE Sound(c)'
  BY DEF IInv, Sound, Listed, Alive
<1>2. InHand'
  BY DEF IInv, InHand, Alive
<1>3. Joined'
  BY DEF IInv, Joined, others
<1>4. ASSUME NEW c \in Conns PROVE Reports(c)'
  BY Silent DEF IInv, Reports, Listed, others
<1> QED BY <1>1, <1>2, <1>3, <1>4, Silent DEF IInv, others

\* A native that leaves every connection where it is.
LEMMA MarksOnly ==
    ASSUME IInv, TypeOK', UNCHANGED <<kernel, resolver, queue, io, others>>,
           \A c \in Conns : conn'[c].state = conn[c].state /\ conn'[c].fd = conn[c].fd
    PROVE  IInv'
<1>1. ASSUME NEW c \in Conns PROVE Sound(c)'
  BY DEF IInv, Sound, Listed, kernel
<1>2. InHand'
  BY DEF IInv, InHand, kernel
<1>3. Joined'
  BY DEF IInv, Joined, others
<1>4. ASSUME NEW c \in Conns PROVE Reports(c)'
  BY Silent DEF IInv, Reports, Listed, others
<1> QED BY <1>1, <1>2, <1>3, <1>4, Silent DEF IInv, others

\* A step of stop.
LEMMA BrokerOnly ==
    ASSUME IInv, TypeOK', Joined', UNCHANGED <<conn, kernel, resolver, queue, heard, io>>
    PROVE  IInv'
<1>1. ASSUME NEW c \in Conns PROVE Sound(c)'
  BY DEF IInv, Sound, Listed, kernel
<1>2. InHand'
  BY DEF IInv, InHand, kernel
<1>3. ASSUME NEW c \in Conns PROVE Reports(c)'
  BY Silent DEF IInv, Reports, Listed
<1> QED BY <1>1, <1>2, <1>3, Silent DEF IInv

-------------------------------------------------------------------------------
(* One step of each kind of thread                                           *)

LEMMA OpenKeeps == ASSUME IInv, NEW a \in Conns, Open(a) PROVE IInv'
<1>1. TypeOK'
  <2>1. conn' \in [Conns -> Records]
    BY RecordUpdates DEF IInv, TypeOK, InHand, Open
  <2> QED BY <2>1 DEF IInv, TypeOK, kernel, others, Open
<1>2. ASSUME NEW c \in Conns PROVE Sound(c)'
  BY DEF IInv, Sound, Listed, kernel, Open
<1>3. InHand'
  <2>1. \A c \in Conns : conn[c].state # "unused" => conn'[c] = conn[c]
    BY DEF IInv, TypeOK, Open
  <2> QED BY <2>1 DEF IInv, InHand, kernel, Open
<1>4. Joined'
  BY DEF Joined, others, Open
<1>5. ASSUME NEW c \in Conns PROVE Reports(c)'
  BY Silent, UnheardIsUnclosed DEF IInv, Reports, Listed, others, Open
<1>6. EventsInOrder'
  BY Silent DEF IInv, kernel, others, Open
<1> QED BY <1>1, <1>2, <1>3, <1>4, <1>5, <1>6 DEF IInv

LEMMA SendKeeps == ASSUME IInv, NEW a \in Conns, Send(a) PROVE IInv'
<1>1. conn[a] \in Records /\ conn[a].out + 1 \in 0..MaxOut
  BY SocketConstants DEF IInv, TypeOK, Records, Send
<1>2. conn' = [conn EXCEPT ![a] = [conn[a] EXCEPT !.out = conn[a].out + 1]]
  BY DEF Send
<1>3. conn' \in [Conns -> Records]
  BY <1>1, <1>2, RecordUpdates DEF IInv, TypeOK
<1>4. TypeOK'
  BY <1>3 DEF IInv, TypeOK, kernel, others, Send
<1>5. \A c \in Conns : conn'[c].state = conn[c].state /\ conn'[c].fd = conn[c].fd
  BY <1>1, <1>2 DEF IInv, TypeOK, Records
<1> QED BY <1>4, <1>5, MarksOnly DEF Send

LEMMA RequestCloseKeeps == ASSUME IInv, NEW a \in Conns, RequestClose(a) PROVE IInv'
<1>1. conn' \in [Conns -> Records]
  BY RecordUpdates DEF IInv, TypeOK, RequestClose
<1>2. TypeOK'
  BY <1>1 DEF IInv, TypeOK, kernel, others, RequestClose
<1>3. \A c \in Conns : conn'[c].state = conn[c].state /\ conn'[c].fd = conn[c].fd
  <2>1. conn \in [Conns -> Records]
    BY DEF IInv, TypeOK
  <2> QED BY <2>1 DEF Records, RequestClose
<1> QED BY <1>2, <1>3, MarksOnly DEF RequestClose

LEMMA HandshakeDoneKeeps == ASSUME IInv, NEW a \in Conns, HandshakeDone(a) PROVE IInv'
<1>1. TypeOK'
  BY DEF IInv, TypeOK, others, HandshakeDone
<1> QED BY <1>1, KernelOnly DEF Alive, HandshakeDone

LEMMA PeerSendsKeeps == ASSUME IInv, NEW a \in Conns, PeerSends(a) PROVE IInv'
<1>1. TypeOK'
  BY SocketConstants DEF IInv, TypeOK, others, PeerSends
<1> QED BY <1>1, KernelOnly DEF PeerSends

LEMMA PeerReadsKeeps == ASSUME IInv, NEW a \in Conns, PeerReads(a) PROVE IInv'
<1>1. TypeOK'
  BY SocketConstants DEF IInv, TypeOK, others, PeerReads
<1> QED BY <1>1, KernelOnly DEF PeerReads

LEMMA PeerEndsKeeps == ASSUME IInv, NEW a \in Conns, PeerEnds(a) PROVE IInv'
<1>1. TypeOK'
  BY DEF IInv, TypeOK, others, PeerEnds
<1> QED BY <1>1, KernelOnly DEF Alive, PeerEnds

LEMMA DialKeeps == ASSUME IInv, NEW a \in Conns, Dial(a) PROVE IInv'
<1>1. TypeOK'
  <2>1. sock' \in [Conns -> {"none", "handshake", "up", "fin", "ended", "closed"}]
    BY DEF IInv, TypeOK, Dial
  <2>2. resolver' \in [Conns -> {"none", "dial", "attach", "fail", "report", "leave"}]
    BY DEF IInv, TypeOK, Dial
  <2> QED BY <2>1, <2>2 DEF IInv, TypeOK, others, Dial
<1>2. ASSUME NEW c \in Conns PROVE Sound(c)'
  BY DEF IInv, TypeOK, Sound, Alive, Listed, Dial
<1>3. InHand'
  BY DEF IInv, TypeOK, InHand, Dial
<1>4. Joined'
  BY DEF IInv, Joined, others, Dial
<1>5. ASSUME NEW c \in Conns PROVE Reports(c)'
  BY Silent DEF IInv, TypeOK, Reports, Listed, others, Dial
<1>6. EventsInOrder'
  BY Silent DEF IInv, kernel, others, Dial
<1> QED BY <1>1, <1>2, <1>3, <1>4, <1>5, <1>6 DEF IInv

LEMMA AttachKeeps == ASSUME IInv, NEW a \in Conns, Attach(a) PROVE IInv'
<1>1. resolver[a] = "attach" /\ resolver' = [resolver EXCEPT ![a] = "leave"]
  BY DEF Attach
<1>2. CASE Listed(a)
  <2>1. conn' = [conn EXCEPT ![a].fd = TRUE] /\ sock' = sock
    BY <1>2 DEF Attach
  <2>2. conn' \in [Conns -> Records]
    BY <2>1, RecordUpdates DEF IInv, TypeOK
  <2>3. /\ conn'[a].state = conn[a].state /\ conn'[a].fd = TRUE
        /\ \A c \in Conns : c # a => conn'[c] = conn[c] /\ resolver'[c] = resolver[c]
        /\ resolver'[a] = "leave"
    BY <1>1, <2>1 DEF IInv, TypeOK, Records
  <2>4. TypeOK'
    BY <1>1, <2>1, <2>2 DEF IInv, TypeOK, others, Attach
  <2>5. ASSUME NEW c \in Conns PROVE Sound(c)'
    BY <1>1, <1>2, <2>1, <2>3 DEF IInv, Sound, Listed, Attach
  <2>6. InHand'
    BY <1>1, <2>1, <2>3 DEF IInv, InHand, Attach
  <2>7. ASSUME NEW c \in Conns PROVE Reports(c)'
    BY <2>3, Silent DEF IInv, Reports, Listed, others, Attach
  <2> QED BY <1>1, <2>3, <2>4, <2>5, <2>6, <2>7, Silent DEF IInv, Joined, others, Attach
<1>3. CASE ~Listed(a)
  <2>1. conn' = conn /\ sock' = [sock EXCEPT ![a] = "closed"]
    BY <1>3 DEF Attach
  <2>2. /\ \A c \in Conns : c # a => sock'[c] = sock[c] /\ resolver'[c] = resolver[c]
        /\ resolver'[a] = "leave" /\ sock'[a] = "closed"
    BY <1>1, <2>1 DEF IInv, TypeOK
  <2>3. TypeOK'
    BY <1>1, <2>1 DEF IInv, TypeOK, others, Attach
  <2>4. ASSUME NEW c \in Conns PROVE Sound(c)'
    BY <2>2 DEF IInv, Sound, Alive, Listed, Attach
  <2>5. InHand'
    BY <1>1, <1>3, <2>1, <2>2 DEF IInv, InHand, Sound, Attach
  <2>6. ASSUME NEW c \in Conns PROVE Reports(c)'
    BY <2>1, Silent DEF IInv, Reports, Listed, others, Attach
  <2> QED BY <1>1, <2>2, <2>3, <2>4, <2>5, <2>6, Silent DEF IInv, Joined, others, Attach
<1> QED BY <1>2, <1>3

LEMMA FailKeeps == ASSUME IInv, NEW a \in Conns, Fail(a) PROVE IInv'
<1>1. resolver[a] = "fail" /\ ~conn[a].fd /\ sock[a] = "none"
  BY DEF IInv, Sound, Fail
<1>2. /\ conn' = IF Listed(a) THEN [conn EXCEPT ![a] = Gone] ELSE conn
      /\ resolver' = [resolver EXCEPT ![a] = IF Listed(a) THEN "report" ELSE "leave"]
  BY DEF Fail
<1>3. conn' \in [Conns -> Records]
  BY <1>2, RecordUpdates DEF IInv, TypeOK
<1>4. TypeOK'
  BY <1>2, <1>3 DEF IInv, TypeOK, kernel, others, Fail
<1>5. /\ \A c \in Conns : c # a => conn'[c] = conn[c] /\ resolver'[c] = resolver[c]
      /\ conn'[a] = IF Listed(a) THEN Gone ELSE conn[a]
      /\ resolver'[a] = IF Listed(a) THEN "report" ELSE "leave"
  BY <1>2 DEF IInv, TypeOK
<1>6. conn[a].state \notin {"unused", "resolving"}
  BY <1>1 DEF IInv, Sound
<1>7. ASSUME NEW c \in Conns PROVE Sound(c)'
  <2>1. CASE c # a
    BY <1>5, <2>1 DEF IInv, Sound, Listed, kernel, Fail
  <2>2. CASE c = a /\ Listed(a)
    BY <1>1, <1>5, <2>2 DEF Sound, Alive, Gone, kernel, Fail
  <2>3. CASE c = a /\ ~Listed(a)
    BY <1>5, <2>3 DEF IInv, Sound, kernel, Fail
  <2> QED BY <2>1, <2>2, <2>3
<1>8. InHand'
  <2>1. io.at \in {"claimed", "connect", "connected", "flush", "recv", "data", "hup"} => io.c # a
    BY <1>1 DEF IInv, InHand
  <2>2. io.at = "closed" => ~(io.c = a /\ Listed(a))
    BY DEF IInv, InHand, Listed
  <2> QED BY <1>5, <2>1, <2>2 DEF IInv, InHand, kernel, Fail
<1>9. ASSUME NEW c \in Conns PROVE Reports(c)'
  <2>1. (Unheard(c) => Unheard(c)') /\ (Unclosed(c) => Unclosed(c)')
    BY Silent DEF others, Fail
  <2>2. CASE c = a /\ Listed(a)
    BY <1>5, <2>1, <2>2 DEF IInv, Reports, Gone, Fail
  <2>3. CASE ~(c = a /\ Listed(a))
    <3>1. conn'[c] = conn[c] /\ (resolver'[c] = "report" => resolver[c] = "report")
      BY <1>5, <2>3
    <3> QED BY <2>1, <3>1 DEF IInv, Reports, Listed, Fail
  <2> QED BY <2>2, <2>3
<1>10. Joined'
  BY <1>1 DEF IInv, Joined, others, Fail
<1> QED BY <1>4, <1>7, <1>8, <1>9, <1>10, Silent DEF IInv, others, Fail

LEMMA LeaveKeeps == ASSUME IInv, NEW a \in Conns, Leave(a) PROVE IInv'
<1>1. TypeOK'
  BY DEF IInv, TypeOK, kernel, others, Leave
<1>2. ASSUME NEW c \in Conns PROVE Sound(c)'
  BY DEF IInv, Sound, Listed, kernel, Leave
<1>3. InHand'
  BY DEF IInv, InHand, kernel, Leave
<1>4. Joined'
  BY DEF IInv, Joined, others, Leave
<1>5. ASSUME NEW c \in Conns PROVE Reports(c)'
  BY Silent DEF IInv, Reports, Listed, others, Leave
<1>6. EventsInOrder'
  BY Silent DEF IInv, kernel, others, Leave
<1> QED BY <1>1, <1>2, <1>3, <1>4, <1>5, <1>6 DEF IInv

LEMMA ClaimKeeps == ASSUME IInv, NEW a \in Conns, Claim(a) PROVE IInv'
<1>1. TypeOK'
  <2>1. conn' \in [Conns -> Records]
    BY RecordUpdates DEF IInv, TypeOK, InHand, Claim
  <2> QED BY <2>1 DEF IInv, TypeOK, kernel, others, Claim
<1>2. ASSUME NEW c \in Conns PROVE Sound(c)'
  BY DEF IInv, Sound, Listed, kernel, Claim
<1>3. InHand'
  BY DEF IInv, TypeOK, Sound, InHand, kernel, Claim
<1>4. Joined'
  BY DEF IInv, Joined, others, Claim
<1>5. ASSUME NEW c \in Conns PROVE Reports(c)'
  BY Silent DEF IInv, Reports, Listed, others, Claim
<1>6. EventsInOrder'
  BY Silent DEF IInv, kernel, others, Claim
<1> QED BY <1>1, <1>2, <1>3, <1>4, <1>5, <1>6 DEF IInv

LEMMA LookKeeps == ASSUME IInv, NEW a \in Conns, Look(a) PROVE IInv'
<1>1. CASE Listed(a) /\ ~conn[a].closing
  <2>1. conn[a].fd /\ conn[a].state \in {"connecting", "open"}
    BY <1>1 DEF IInv, TypeOK, Records, Sound, Listed, Look
  <2>2. /\ io'.c = a /\ io'.poll = io.poll
        /\ io'.at = IF conn[a].state = "connecting" THEN "connect" ELSE From("flush", a)
    BY <1>1 DEF IInv, TypeOK, Look
  <2>3. From("flush", a) \in {"flush", "recv", "hup"}
    BY DEF From
  <2>4. TypeOK'
    BY <2>3 DEF IInv, TypeOK, kernel, others, Look
  <2>5. InHand'
    BY <2>1, <2>2, <2>3 DEF InHand, Look
  <2> QED BY <2>2, <2>3, <2>4, <2>5, IoOnly DEF Look
<1>2. CASE ~(Listed(a) /\ ~conn[a].closing)
  <2>1. io.at = "service" /\ io' = [io EXCEPT !.poll[a] = {}]
    BY <1>2 DEF Look
  <2>2. io'.at = "service" /\ \A c \in Conns : io'.poll[c] # {} => io.poll[c] # {}
    BY <2>1 DEF IInv, TypeOK
  <2>3. TypeOK'
    <3> DEFINE rest == [io.poll EXCEPT ![a] = {}]
    <3>1. rest \in [Conns -> SUBSET {"in", "out", "hup"}]
      BY DEF IInv, TypeOK
    <3>2. io' = [io EXCEPT !.poll = rest]
      BY <2>1
    <3>3. UNCHANGED <<conn, sock, unread, room, resolver, queue, heard, wake, broker>>
      BY DEF kernel, others, Look
    <3> HIDE DEF rest
    <3> QED BY <3>1, <3>2, <3>3 DEF IInv, TypeOK
  <2>4. InHand'
    BY <2>2 DEF InHand
  <2> QED BY <2>1, <2>2, <2>3, <2>4, IoOnly DEF Look
<1> QED BY <1>1, <1>2

LEMMA ReapKeeps == ASSUME IInv, NEW a \in Conns, Reap(a) PROVE IInv'
  BY TakeDownKeeps DEF Reap

LEMMA SpawnOkKeeps == ASSUME IInv, SpawnOk PROVE IInv'
<1>1. TypeOK'
  BY DEF IInv, TypeOK, kernel, others, SpawnOk
<1>2. ASSUME NEW c \in Conns PROVE Sound(c)'
  BY DEF IInv, Sound, InHand, Listed, kernel, SpawnOk
<1>3. InHand'
  BY DEF InHand, SpawnOk
<1>4. Joined'
  BY DEF IInv, Joined, others, SpawnOk
<1>5. ASSUME NEW c \in Conns PROVE Reports(c)'
  BY Silent DEF IInv, Reports, Listed, others, SpawnOk
<1>6. EventsInOrder'
  BY Silent DEF IInv, kernel, others, SpawnOk
<1> QED BY <1>1, <1>2, <1>3, <1>4, <1>5, <1>6 DEF IInv

LEMMA SpawnFailsKeeps == ASSUME IInv, SpawnFails PROVE IInv'
<1>1. TypeOK'
  <2>1. conn' \in [Conns -> Records]
    BY RecordUpdates DEF IInv, TypeOK, InHand, SpawnFails
  <2> QED BY <2>1 DEF IInv, TypeOK, kernel, others, SpawnFails
<1>2. ASSUME NEW c \in Conns PROVE Sound(c)'
  BY DEF IInv, Sound, InHand, Listed, Gone, kernel, SpawnFails
<1>3. InHand'
  BY DEF IInv, TypeOK, InHand, Gone, SpawnFails
<1>4. Joined'
  BY DEF IInv, Joined, others, SpawnFails
<1>5. ASSUME NEW c \in Conns PROVE Reports(c)'
  BY Silent DEF IInv, InHand, Reports, Listed, others, SpawnFails
<1>6. EventsInOrder'
  BY Silent DEF IInv, kernel, others, SpawnFails
<1> QED BY <1>1, <1>2, <1>3, <1>4, <1>5, <1>6 DEF IInv

LEMMA NonePendingKeeps == ASSUME IInv, NonePending PROVE IInv'
<1>1. TypeOK' /\ InHand'
  BY DEF IInv, TypeOK, InHand, kernel, others, NonePending
<1> QED BY <1>1, IoOnly DEF NonePending

LEMMA BuildKeeps == ASSUME IInv, Build PROVE IInv'
<1>1. TypeOK'
  BY DEF IInv, TypeOK, kernel, others, Asked, Build
<1>2. io'.at = "poll" /\ \A c \in Conns : io'.poll[c] # {} => conn[c].fd
  BY DEF Asked, Polled, Build
<1>3. InHand'
  BY <1>2 DEF InHand
<1> QED BY <1>1, <1>2, <1>3, IoOnly DEF others, Build

LEMMA PollKeeps == ASSUME IInv, Poll PROVE IInv'
<1>1. TypeOK'
  BY DEF IInv, TypeOK, kernel, others, Found, Poll
<1>2. io'.at \in {"drain", "timers"} /\ \A c \in Conns : io'.poll[c] = Found(c)
  BY DEF IInv, TypeOK, Poll
<1>3. InHand'
  BY <1>2 DEF InHand
<1>4. \A c \in Conns : Found(c) \subseteq io.poll[c]
  BY DEF Found
<1> QED BY <1>1, <1>2, <1>3, <1>4, IoOnly DEF others, Poll

LEMMA DrainKeeps == ASSUME IInv, Drain PROVE IInv'
<1>1. TypeOK' /\ InHand'
  BY DEF IInv, TypeOK, InHand, kernel, others, Drain
<1> QED BY <1>1, IoOnly DEF Drain

LEMMA ConnectKeeps == ASSUME IInv, Connect PROVE IInv'
<1>1. /\ io.at = "connect" /\ io.c \in Conns /\ Listed(io.c)
      /\ conn[io.c].state = "connecting" /\ conn[io.c].fd
  BY DEF IInv, InHand, Listed, Connect
<1>2. CASE sock[io.c] = "ended"
  BY <1>1, <1>2, TakeDownKeeps DEF Connect
<1>3. CASE sock[io.c] # "ended"
  <2>1. /\ conn' = [conn EXCEPT ![io.c].state = "open"]
        /\ io' = [io EXCEPT !.at = "connected"] /\ UNCHANGED kernel
    BY <1>3 DEF Connect
  <2>2. conn' \in [Conns -> Records]
    BY <1>1, <2>1, RecordUpdates DEF IInv, TypeOK
  <2>3. io'.at = "connected" /\ io'.c = io.c /\ io'.poll = io.poll
    BY <2>1 DEF IInv, TypeOK
  <2>4. /\ conn'[io.c].state = "open" /\ conn'[io.c].fd
        /\ \A c \in Conns : c # io.c => conn'[c] = conn[c]
    BY <1>1, <2>1 DEF IInv, TypeOK, Records
  <2>5. TypeOK'
    BY <2>1, <2>2 DEF IInv, TypeOK, kernel, others, Connect
  <2>6. ASSUME NEW c \in Conns PROVE Sound(c)'
    BY <2>1, <2>4 DEF IInv, Sound, Listed, kernel, Connect
  <2>7. InHand'
    BY <1>1, <2>3, <2>4 DEF InHand
  <2>8. ASSUME NEW c \in Conns PROVE Reports(c)'
    BY <1>1, <2>3, <2>4, Silent DEF IInv, Reports, Listed, others, Connect
  <2> QED BY <1>1, <2>5, <2>6, <2>7, <2>8, Silent DEF IInv, Joined, others, Connect
<1> QED BY <1>2, <1>3

LEMMA FlushKeeps == ASSUME IInv, Flush PROVE IInv'
<1>0. io.c \in Conns /\ conn \in [Conns -> Records]
  BY DEF IInv, TypeOK, InHand, Flush
<1>7. /\ conn' = [conn EXCEPT ![io.c] = [conn[io.c] EXCEPT !.out = conn[io.c].out - Written(io.c)]]
      /\ room' = [room EXCEPT ![io.c] = room[io.c] - Written(io.c)]
  BY DEF Flush
<1>8. \A c \in Conns : conn'[c].state = conn[c].state /\ conn'[c].fd = conn[c].fd
  BY <1>0, <1>7 DEF Records
<1>1. TypeOK'
  <2>1. conn' \in [Conns -> Records] /\ room' \in [Conns -> 0..MaxRoom]
    BY <1>0, <1>7, RecordUpdates, WrittenFits DEF IInv, TypeOK
  <2> QED BY <2>1 DEF IInv, TypeOK, others, Flush, From
<1>2. ASSUME NEW c \in Conns PROVE Sound(c)'
  BY <1>8 DEF IInv, Sound, Listed, Flush
<1>3. InHand'
  BY <1>8 DEF IInv, InHand, Flush, From
<1>4. Joined'
  BY DEF IInv, Joined, others, Flush
<1>5. ASSUME NEW c \in Conns PROVE Reports(c)'
  BY <1>8, Silent DEF IInv, Reports, Listed, others, Flush, From
<1>6. EventsInOrder'
  BY Silent DEF IInv, others, Flush
<1> QED BY <1>1, <1>2, <1>3, <1>4, <1>5, <1>6 DEF IInv

LEMMA RecvKeeps == ASSUME IInv, Recv PROVE IInv'
<1>1. io.at = "recv" /\ io.c \in Conns /\ Listed(io.c) /\ unread[io.c] \in 0..MaxUnread
  BY DEF IInv, TypeOK, InHand, Listed, Recv
<1>2. CASE unread[io.c] = 0
  <2>1. TakeDown(io.c) /\ io' = [io EXCEPT !.at = "closed"]
    BY <1>2 DEF Recv
  <2> QED BY <1>1, <2>1, TakeDownKeeps DEF Recv
<1>3. CASE unread[io.c] # 0
  <2>1. /\ unread' = [unread EXCEPT ![io.c] = @ - 1]
        /\ io' = [io EXCEPT !.at = "data"] /\ UNCHANGED <<conn, sock>>
    BY <1>1, <1>3, SocketConstants DEF Recv
  <2>2. unread' \in [Conns -> 0..MaxUnread]
    BY <1>1, <1>3, <2>1, SocketConstants DEF IInv, TypeOK
  <2>3. io'.at = "data" /\ io'.c = io.c /\ io'.poll = io.poll
    BY <2>1 DEF IInv, TypeOK
  <2>4. TypeOK'
    BY <2>1, <2>2 DEF IInv, TypeOK, others, Recv
  <2>5. ASSUME NEW c \in Conns PROVE Sound(c)'
    BY <2>1, <2>3 DEF IInv, Sound, Listed, Recv
  <2>6. InHand'
    BY <1>1, <2>1, <2>3 DEF IInv, InHand, Recv
  <2>7. ASSUME NEW c \in Conns PROVE Reports(c)'
    BY <2>1, Silent DEF IInv, Reports, Listed, others, Recv
  <2> QED BY <1>1, <2>4, <2>5, <2>6, <2>7, Silent DEF IInv, Joined, others, Recv
<1> QED BY <1>2, <1>3

LEMMA HangUpKeeps == ASSUME IInv, HangUp PROVE IInv'
<1>1. io.at = "hup" /\ io.c \in Conns /\ Listed(io.c)
  BY DEF IInv, InHand, Listed, HangUp
<1>2. CASE "hup" \in io.poll[io.c]
  BY <1>1, <1>2, TakeDownKeeps DEF HangUp
<1>3. CASE "hup" \notin io.poll[io.c]
  <2>1. io' = NextSocket /\ UNCHANGED <<conn, kernel>>
    BY <1>3 DEF HangUp
  <2>2. io'.at = "service" /\ \A c \in Conns : io'.poll[c] # {} => io.poll[c] # {}
    BY <1>1, <2>1 DEF IInv, TypeOK, NextSocket
  <2>3. TypeOK' /\ InHand'
    BY <2>1 DEF IInv, TypeOK, InHand, kernel, others, NextSocket, HangUp
  <2> QED BY <1>1, <2>1, <2>2, <2>3, IoOnly DEF HangUp
<1> QED BY <1>2, <1>3

LEMMA ServedKeeps == ASSUME IInv, Served PROVE IInv'
<1>1. TypeOK' /\ InHand'
  BY DEF IInv, TypeOK, InHand, kernel, others, Served
<1> QED BY <1>1, IoOnly DEF Served

LEMMA ReapedKeeps == ASSUME IInv, Reaped PROVE IInv'
<1>1. TypeOK' /\ InHand'
  BY DEF IInv, TypeOK, InHand, kernel, others, Reaped
<1> QED BY <1>1, IoOnly DEF Reaped

LEMMA StopKeeps == ASSUME IInv, Stop PROVE IInv'
<1>1. TypeOK' /\ Joined'
  BY DEF IInv, TypeOK, Joined, kernel, Stop
<1> QED BY <1>1, BrokerOnly DEF Stop

LEMMA JoinIoKeeps == ASSUME IInv, JoinIo PROVE IInv'
<1>1. TypeOK' /\ Joined'
  BY DEF IInv, TypeOK, Joined, kernel, JoinIo
<1> QED BY <1>1, BrokerOnly DEF JoinIo

LEMMA CloseWakeKeeps == ASSUME IInv, CloseWake PROVE IInv'
<1>1. TypeOK' /\ Joined'
  BY DEF IInv, TypeOK, Joined, kernel, CloseWake
<1> QED BY <1>1, BrokerOnly DEF CloseWake

LEMMA DropPluginKeeps == ASSUME IInv, DropPlugin PROVE IInv'
<1>1. TypeOK'
  <2>0. \A c \in Conns : (conn[c].closing \/ Listed(c)) \in BOOLEAN /\ conn[c] \in Records
    BY DEF IInv, TypeOK
  <2>1. conn' \in [Conns -> Records]
    BY <2>0, RecordUpdates DEF DropPlugin
  <2>2. sock' \in [Conns -> {"none", "handshake", "up", "fin", "ended", "closed"}]
    BY DEF IInv, TypeOK, DropPlugin
  <2> QED BY <2>1, <2>2, SocketConstants DEF IInv, TypeOK, others, DropPlugin
<1>2. ASSUME NEW c \in Conns PROVE Sound(c)'
  <2>1. /\ conn'[c].state = conn[c].state /\ conn'[c].fd = conn[c].fd
        /\ sock'[c] = sock[c] \/ (conn[c].fd /\ sock'[c] = "ended")
    BY DEF IInv, TypeOK, Records, DropPlugin
  <2> QED BY <2>1 DEF IInv, Sound, Alive, Listed, DropPlugin
<1>3. InHand'
  <2>1. \A c \in Conns : /\ conn'[c].state = conn[c].state /\ conn'[c].fd = conn[c].fd
                         /\ sock'[c] = sock[c] \/ (conn[c].fd /\ sock'[c] = "ended")
    BY DEF IInv, TypeOK, Records, DropPlugin
  <2> QED BY <2>1 DEF IInv, InHand, others, DropPlugin
<1>4. Joined'
  BY DEF Joined, others, DropPlugin
<1>5. ASSUME NEW c \in Conns PROVE Reports(c)'
  <2>1. /\ conn'[c].state = conn[c].state /\ conn'[c].fd = conn[c].fd
        /\ sock'[c] = sock[c] \/ (conn[c].fd /\ sock'[c] = "ended")
    BY DEF IInv, TypeOK, Records, DropPlugin
  <2>2. (Unheard(c) => Unheard(c)') /\ (Unclosed(c) => Unclosed(c)')
    BY DEF Unheard, Unclosed, others, DropPlugin
  <2> QED BY <2>1, <2>2 DEF IInv, Reports, Listed, DropPlugin
<1>6. EventsInOrder'
  BY DEF EventsInOrder, DropPlugin
<1> QED BY <1>1, <1>2, <1>3, <1>4, <1>5, <1>6 DEF IInv

LEMMA ReportKeeps == ASSUME IInv, NEW a \in Conns, Report(a) PROVE IInv'
<1>1. TypeOK'
  <2>1. queue' \in Seq(Events) /\ Len(queue') <= MaxQueued
    BY Pushed DEF IInv, Events, Report
  <2> QED BY <2>1 DEF IInv, TypeOK, kernel, others, Report
<1>2. ASSUME NEW c \in Conns PROVE Sound(c)'
  BY DEF IInv, Sound, Listed, kernel, Report
<1>3. InHand'
  BY DEF IInv, InHand, kernel, Report
<1>4. Joined'
  BY DEF IInv, Joined, others, Report
<1>5. ASSUME NEW c \in Conns PROVE Reports(c)'
  <2>1. Unclosed(a) /\ conn[a].state = "gone"
    BY DEF IInv, Reports, Report
  <2>2. CASE c = a
    <3>1. ~(io.at \in {"connected", "closed"} /\ io.c = a)
      BY <2>1 DEF IInv, InHand, Report
    <3>2. resolver'[a] = "leave"
      BY DEF IInv, TypeOK, Report
    <3> QED BY <2>1, <2>2, <3>1, <3>2 DEF Reports, Listed, Report
  <2>3. CASE c # a
    <3>1. resolver'[c] = resolver[c]
      BY <2>3 DEF IInv, TypeOK, Report
    <3>2. (Unheard(c) => Unheard(c)') /\ (Unclosed(c) => Unclosed(c)')
      BY <2>1, <2>3, PushedInOrder DEF Events, others, Report
    <3> QED BY <3>1, <3>2 DEF IInv, Reports, Listed, Report
  <2> QED BY <2>2, <2>3
<1>6. EventsInOrder'
  BY PushedInOrder DEF IInv, Reports, Events, others, Report
<1> QED BY <1>1, <1>2, <1>3, <1>4, <1>5, <1>6 DEF IInv

LEMMA PushDataKeeps == ASSUME IInv, PushData PROVE IInv'
<1>1. TypeOK'
  <2>1. queue' \in Seq(Events) /\ Len(queue') <= MaxQueued
    BY Pushed DEF IInv, InHand, Events, PushData
  <2> QED BY <2>1 DEF IInv, TypeOK, kernel, others, PushData
<1>2. ASSUME NEW c \in Conns PROVE Sound(c)'
  BY DEF IInv, Sound, Listed, kernel, PushData
<1>3. InHand'
  BY DEF IInv, InHand, PushData
<1>4. Joined'
  BY DEF IInv, Joined, others, PushData
<1>5. ASSUME NEW c \in Conns PROVE Reports(c)'
  <2>1. io.c \in Conns /\ conn[io.c].state = "open" /\ Unclosed(io.c)
    BY DEF IInv, InHand, Reports, Listed, PushData
  <2>2. /\ \A d \in Conns \ {io.c} : (Unheard(d) => Unheard(d)') /\ (Unclosed(d) => Unclosed(d)')
        /\ Unclosed(io.c)'
    BY <2>1, PushedInOrder DEF Events, others, PushData
  <2>3. io'.at = "hup" /\ io'.c = io.c
    BY DEF IInv, TypeOK, PushData
  <2>4. CASE c = io.c
    BY <2>1, <2>2, <2>3, <2>4 DEF IInv, Reports, PushData
  <2>5. CASE c # io.c
    BY <2>2, <2>3, <2>5 DEF IInv, Reports, Listed, PushData
  <2> QED BY <2>4, <2>5
<1>6. EventsInOrder'
  <2>1. io.c \in Conns /\ Unclosed(io.c)
    BY DEF IInv, InHand, Reports, Listed, PushData
  <2> QED BY <2>1, PushedInOrder DEF Events, others, PushData
<1> QED BY <1>1, <1>2, <1>3, <1>4, <1>5, <1>6 DEF IInv

LEMMA PushOutcomeKeeps == ASSUME IInv, PushOutcome PROVE IInv'
<1>1. PICK a \in Conns : a = io.c
  BY DEF IInv, InHand, PushOutcome
<1>2. /\ io.at \in {"connected", "closed"} /\ Push(io.at, a)
      /\ io' = [NextSocket EXCEPT !.at = io.back]
      /\ UNCHANGED <<conn, sock, unread, room, resolver, heard, broker>>
  BY <1>1 DEF kernel, others, PushOutcome
<1>3. /\ io'.at \in {"service", "pending"} /\ io'.c = NoConn
      /\ io'.poll = [io.poll EXCEPT ![a] = {}]
  BY <1>1, <1>2 DEF IInv, TypeOK, NextSocket
<1>4. /\ [kind |-> io.at, c |-> a] \in Events
      /\ Unclosed(a) /\ (io.at = "connected" => Unheard(a))
  BY <1>1, <1>2 DEF IInv, InHand, Reports, Listed, Events
<1>5. TypeOK'
  <2>1. queue' \in Seq(Events) /\ Len(queue') <= MaxQueued
    BY <1>2, <1>4, Pushed DEF IInv
  <2> QED BY <2>1 DEF IInv, TypeOK, kernel, others, NextSocket, PushOutcome
<1>6. ASSUME NEW c \in Conns PROVE Sound(c)'
  <2>1. io'.poll[c] # {} => io.poll[c] # {}
    BY <1>3 DEF IInv, TypeOK
  <2> QED BY <1>2, <2>1 DEF IInv, Sound, Listed
<1>7. InHand' /\ Joined'
  <2>1. io.at # "gone"
    BY <1>2
  <2> QED BY <1>2, <1>3, <2>1 DEF IInv, InHand, Joined
<1>8. /\ EventsInOrder'
      /\ \A c \in Conns \ {a} : (Unheard(c) => Unheard(c)') /\ (Unclosed(c) => Unclosed(c)')
      /\ io.at # "closed" => Unclosed(a)'
  <2>1. heard' = heard
    BY <1>2
  <2> QED BY <1>2, <1>4, <2>1, PushedInOrder
<1>9. ASSUME NEW c \in Conns PROVE Reports(c)'
  <2>1. CASE c = a /\ io.at = "connected"
    <3>1. conn[c].state = "open" /\ resolver[c] # "report"
      BY <1>1, <2>1 DEF IInv, InHand, Reports
    <3> QED BY <1>2, <1>3, <1>8, <2>1, <3>1 DEF Reports, Listed
  <2>2. CASE c = a /\ io.at = "closed"
    <3>1. conn[c].state = "gone" /\ resolver[c] # "report"
      BY <1>1, <2>2 DEF IInv, InHand
    <3> QED BY <1>2, <1>3, <3>1 DEF Reports, Listed
  <2>3. CASE c # a
    BY <1>2, <1>3, <1>8, <2>3 DEF IInv, Reports, Listed
  <2> QED BY <1>2, <2>1, <2>2, <2>3
<1> QED BY <1>5, <1>6, <1>7, <1>8, <1>9 DEF IInv

LEMMA TickKeeps == ASSUME IInv, Tick PROVE IInv'
<1>1. TypeOK'
  <2>1. queue' \in Seq(Events) /\ Len(queue') <= MaxQueued
    BY Pushed DEF IInv, TypeOK, Events, Tick
  <2> QED BY <2>1 DEF IInv, TypeOK, kernel, others, Tick
<1>2. ASSUME NEW c \in Conns PROVE Sound(c)'
  BY DEF IInv, Sound, Listed, kernel, Tick
<1>3. InHand'
  BY DEF InHand, Tick
<1>4. Joined'
  BY DEF IInv, Joined, others, Tick
<1>5. ASSUME NEW c \in Conns PROVE Reports(c)'
  <2>1. /\ EventsInOrder'
        /\ \A d \in Conns : (Unheard(d) => Unheard(d)') /\ (Unclosed(d) => Unclosed(d)')
    <3>1. CASE Push("tick", NoConn)
      BY <3>1, PushedInOrder, SocketConstants DEF Events, others, Tick
    <3>2. CASE queue' = queue
      BY <3>2, Silent DEF IInv, others, Tick
    <3> QED BY <3>1, <3>2 DEF Tick
  <2>2. io'.at \in {"pending", "gone"}
    BY DEF IInv, TypeOK, Tick
  <2> QED BY <2>1 DEF IInv, Reports, Listed, Tick
<1>6. EventsInOrder'
  <2>1. CASE Push("tick", NoConn)
    BY <2>1, PushedInOrder, SocketConstants DEF Events, others, Tick
  <2>2. CASE queue' = queue
    BY <2>2, Silent DEF IInv, others, Tick
  <2> QED BY <2>1, <2>2 DEF Tick
<1> QED BY <1>1, <1>2, <1>3, <1>4, <1>5, <1>6 DEF IInv

LEMMA DeliverKeeps == ASSUME IInv, Deliver PROVE IInv'
<1>1. TypeOK'
  <2>1. queue' \in Seq(Events) /\ Len(queue') <= MaxQueued
    BY Popped, SocketConstants DEF IInv, TypeOK, Deliver
  <2>2. heard' \in [Conns -> {"nothing", "open", "closed"}]
    BY DEF IInv, TypeOK, Deliver
  <2> QED BY <2>1, <2>2 DEF IInv, TypeOK, kernel, Deliver
<1>2. ASSUME NEW c \in Conns PROVE Sound(c)'
  BY DEF IInv, Sound, Listed, kernel, Deliver
<1>3. InHand'
  BY DEF IInv, InHand, kernel, Deliver
<1>4. Joined'
  BY DEF Joined, Deliver
<1>5. ASSUME NEW c \in Conns PROVE Reports(c)'
  <2>1. /\ 1 \in DOMAIN queue /\ Head(queue) = queue[1]
        /\ \A i \in DOMAIN queue' : i + 1 \in DOMAIN queue /\ queue'[i] = queue[i + 1]
    BY Popped DEF IInv, TypeOK, Deliver
  <2>2. Unheard(c) => Unheard(c)'
    BY <2>1 DEF IInv, TypeOK, Unheard, Deliver
  <2>3. Unclosed(c) => Unclosed(c)'
    BY <2>1 DEF IInv, TypeOK, Unclosed, Deliver
  <2> QED BY <2>2, <2>3 DEF IInv, Reports, Listed, Deliver
<1>6. EventsInOrder'
  <2>1. /\ 1 \in DOMAIN queue /\ Head(queue) = queue[1] /\ Head(queue) \in Events
        /\ \A i \in DOMAIN queue' : /\ i \in Nat /\ i + 1 \in DOMAIN queue
                                    /\ queue'[i] = queue[i + 1]
        /\ \A i \in DOMAIN queue : queue[i] \in Events /\ i \in Nat /\ i >= 1
        /\ \A i \in DOMAIN queue' : i >= 1
    BY Popped DEF IInv, TypeOK, Deliver
  <2>2. SUFFICES ASSUME NEW i \in DOMAIN queue', queue'[i].c # NoConn
                 PROVE  LET c == queue'[i].c IN
                          /\ heard'[c] # "closed"
                          /\ queue'[i].kind = "connected" => heard'[c] = "nothing"
                          /\ \A j \in 1..(i - 1) : queue'[j].c = c =>
                                /\ queue'[j].kind # "closed"
                                /\ queue'[i].kind # "connected"
    BY DEF EventsInOrder
  <2> DEFINE d == queue[i + 1].c
  <2>3. d \in Conns /\ queue[i + 1] = queue'[i] /\ i + 1 \in DOMAIN queue
    BY <2>1, <2>2 DEF Events
  <2>4. /\ heard[d] # "closed" /\ (queue[i + 1].kind = "connected" => heard[d] = "nothing")
        /\ \A j \in 1..i : queue[j].c = d =>
              queue[j].kind # "closed" /\ queue[i + 1].kind # "connected"
    <3>1. (i + 1) - 1 = i
      BY <2>1
    <3> QED BY <2>2, <2>3, <3>1 DEF IInv, EventsInOrder
  <2>5. Head(queue).c = d => Head(queue).kind # "closed" /\ queue[i + 1].kind # "connected"
    BY <2>1, <2>4
  <2>6. heard'[d] # "closed" /\ (queue[i + 1].kind = "connected" => heard'[d] = "nothing")
    BY <2>3, <2>4, <2>5 DEF IInv, TypeOK, Deliver
  <2>7. \A j \in 1..(i - 1) : queue'[j].c = d =>
              queue'[j].kind # "closed" /\ queue'[i].kind # "connected"
    <3>1. \A j \in 1..(i - 1) : j \in DOMAIN queue' /\ j + 1 \in 1..i /\ queue'[j] = queue[j + 1]
      <4>1. DOMAIN queue' = 1..Len(queue') /\ Len(queue') \in Nat
        <5>1. queue \in Seq(Events) /\ queue # <<>> /\ queue' = Tail(queue)
          BY DEF IInv, TypeOK, Deliver
        <5> QED BY <5>1, Popped
      <4>2. i \in 1..Len(queue')
        BY <2>2, <4>1
      <4>3. ASSUME NEW j \in 1..(i - 1) PROVE j \in 1..Len(queue') /\ j + 1 \in 1..i
        BY <4>1, <4>2
      <4>4. ASSUME NEW j \in 1..(i - 1) PROVE j \in DOMAIN queue'
        BY <4>1, <4>3
      <4>5. ASSUME NEW j \in 1..(i - 1) PROVE queue'[j] = queue[j + 1]
        BY <2>1, <4>4
      <4> QED BY <4>3, <4>4, <4>5
    <3> QED BY <2>3, <2>4, <3>1
  <2> QED BY <2>3, <2>6, <2>7
<1> QED BY <1>1, <1>2, <1>3, <1>4, <1>5, <1>6 DEF IInv

LEMMA FreeKeeps == ASSUME IInv, Free PROVE IInv'
<1>1. TypeOK'
  <2>1. conn' \in [Conns -> Records]
    BY RecordUpdates DEF Free
  <2>2. sock' \in [Conns -> {"none", "handshake", "up", "fin", "ended", "closed"}]
    BY DEF IInv, TypeOK, Free
  <2> QED BY <2>1, <2>2, SocketConstants DEF IInv, TypeOK, Free
<1>2. ASSUME NEW c \in Conns PROVE Sound(c)'
  <2>1. conn'[c] = Gone /\ resolver'[c] = "none" /\ sock'[c] \notin Alive
    BY DEF IInv, Joined, Sound, Alive, Free
  <2> QED BY <2>1 DEF Sound, Gone, Listed
<1>3. InHand'
  BY DEF IInv, Joined, InHand, Free
<1>4. Joined'
  BY DEF IInv, Joined, Free
<1>5. ASSUME NEW c \in Conns PROVE Reports(c)'
  <2>1. conn'[c] = Gone /\ resolver'[c] = "none" /\ io'.at = "gone"
    BY DEF IInv, Joined, Free
  <2> QED BY <2>1 DEF Reports, Gone, Listed
<1>6. EventsInOrder'
  BY DEF EventsInOrder, Free
<1> QED BY <1>1, <1>2, <1>3, <1>4, <1>5, <1>6 DEF IInv

-------------------------------------------------------------------------------
(* The inductive invariant, and what follows from it                         *)

-------------------------------------------------------------------------------
(* Every step, and what follows                                              *)

LEMMA InitIInv == ASSUME Init PROVE IInv
<1>1. TypeOK
  <2>1. conn \in [Conns -> Records] /\ room \in [Conns -> 0..MaxRoom]
    BY SocketConstants DEF Init, Records
  <2>2. queue \in Seq(Events) /\ Len(queue) = 0 /\ 0 <= MaxQueued
    BY SocketConstants DEF Init
  <2>3. unread \in [Conns -> 0..MaxUnread]
    BY SocketConstants DEF Init
  <2>4. io.at = "pending" /\ io \in [at : {"pending"}, c : {NoConn}, back : {"service"},
                                    woken : {FALSE}, poll : [Conns -> {{}}]]
    BY DEF Init
  <2>5. io.poll \in [Conns -> SUBSET {"in", "out", "hup"}]
    BY <2>4
  <2> QED BY <2>1, <2>2, <2>3, <2>4, <2>5 DEF Init, TypeOK
<1>2. \A c \in Conns : Sound(c) /\ Reports(c)
  BY DEF Init, Sound, Alive, Listed, Reports, Unheard
<1>3. InHand /\ Joined /\ EventsInOrder
  BY DEF Init, InHand, Joined, EventsInOrder
<1> QED BY <1>1, <1>2, <1>3 DEF IInv

LEMMA NativeSteps ==
    ASSUME IInv, (\E c \in Conns : Native(c)) \/ DropPlugin \/ Deliver PROVE IInv'
  BY OpenKeeps, SendKeeps, RequestCloseKeeps, DropPluginKeeps, DeliverKeeps DEF Native

LEMMA PeerSteps == ASSUME IInv, NEW c \in Conns, Peer(c) PROVE IInv'
  BY HandshakeDoneKeeps, PeerSendsKeeps, PeerReadsKeeps, PeerEndsKeeps DEF Peer

LEMMA ResolverSteps == ASSUME IInv, NEW c \in Conns, Resolve(c) PROVE IInv'
  BY DialKeeps, AttachKeeps, FailKeeps, ReportKeeps, LeaveKeeps DEF Resolve

LEMMA IoSteps == ASSUME IInv, IoThread \/ SpawnFails PROVE IInv'
  BY SpawnOkKeeps, SpawnFailsKeeps, NonePendingKeeps, BuildKeeps, PollKeeps,
     DrainKeeps, ConnectKeeps, FlushKeeps, RecvKeeps, HangUpKeeps, PushDataKeeps,
     PushOutcomeKeeps, ServedKeeps, ReapedKeeps, TickKeeps, ClaimKeeps, LookKeeps,
     ReapKeeps DEF IoThread

LEMMA StopSteps == ASSUME IInv, Stop \/ JoinIo \/ CloseWake \/ Free PROVE IInv'
  BY StopKeeps, JoinIoKeeps, CloseWakeKeeps, FreeKeeps

LEMMA NextIInv == ASSUME IInv, [Next]_vars PROVE IInv'
<1>1. CASE UNCHANGED vars
  <2>1. UNCHANGED <<conn, sock, unread, room, resolver, queue, heard, io, wake, broker>>
    BY <1>1 DEF vars
  <2>2. TypeOK' /\ Joined'
    BY <2>1 DEF IInv, TypeOK, Joined
  <2> QED BY <2>1, <2>2, BrokerOnly DEF kernel
<1>2. CASE Ended
  BY <1>1, <1>2 DEF Ended
<1>3. CASE Next
  BY <1>2, <1>3, NativeSteps, PeerSteps, ResolverSteps, IoSteps, StopSteps DEF Next
<1> QED BY <1>1, <1>3

\* The inductive invariant holds in every reachable state, for any connections.
THEOREM IInvHolds == Spec => []IInv
  BY InitIInv, NextIInv, PTL DEF Spec

\* Every variable keeps its type; the queue stays within its cap (push,
\* broker.zig).
THEOREM TypeHolds == Spec => []TypeOK
<1>1. IInv => TypeOK
  BY DEF IInv
<1> QED BY <1>1, IInvHolds, PTL

\* Events about one connection reach the plugin in order, though three threads
\* report them in sections of their own behind what they report (finishConn,
\* serviceOne, broker.zig).
THEOREM OrderHolds == Spec => []EventsInOrder
<1>1. IInv => EventsInOrder
  BY DEF IInv
<1> QED BY <1>1, IInvHolds, PTL

\* serviceOne uses its copy of the descriptor outside the lock, and nobody
\* closes it meanwhile, whatever the plugin, its drop and the resolvers do.
THEOREM DescriptorsHold == Spec => []NoStaleDescriptor
<1>1. IInv => NoStaleDescriptor
  BY DEF IInv, InHand, Sound, Alive, NoStaleDescriptor
<1> QED BY <1>1, IInvHolds, PTL

\* No descriptor is left open behind a record that is gone (finishConn, closeConn,
\* reapClosing, deinit).
THEOREM NoLeak == Spec => []NothingLeaked
<1>1. IInv => NothingLeaked
  BY DEF IInv, Sound, Alive, NothingLeaked
<1> QED BY <1>1, IInvHolds, PTL

\* stop closes the wake pipe, and deinit frees, behind every thread that could
\* write to the one or into the other.
THEOREM QuietHolds == Spec => []NobodyAfterStop
<1>1. IInv => NobodyAfterStop
  BY DEF IInv, Joined, NobodyAfterStop
<1> QED BY <1>1, IInvHolds, PTL

\* The four together: a connection is sound, whichever thread ends it
\* (finishConn, closeConn, serviceOne, stop, broker.zig).
THEOREM ConnectionHolds == Spec => []ConnectionIsSound
<1>1. EventsInOrder /\ NoStaleDescriptor /\ NothingLeaked /\ NobodyAfterStop
          => ConnectionIsSound
  BY DEF ConnectionIsSound
<1> QED BY <1>1, OrderHolds, DescriptorsHold, NoLeak, QuietHolds, PTL

-------------------------------------------------------------------------------
(* The account of the events: SocketEventsBounded                            *)

\* The events of a queue that are about a connection.
Spoken(q) == {i \in DOMAIN q : q[i].c # NoConn}

\* The connections that may still be reported closed.
Endings == {c \in Conns :
    conn[c].state # "gone" \/ resolver[c] = "report" \/ (io.at = "closed" /\ io.c = c)}

\* A read of c was asked for, and its chunk has not been pushed.
MayRead(c) ==
    conn[c].state = "open" /\ "in" \in io.poll[c] /\ ~(io.at = "hup" /\ io.c = c)

\* Those that may be reported connected, or push a chunk, before the poll set is built
\* again: one event each, for a connect and a read of the same round exclude each other.
Openings == {c \in Conns :
    \/ conn[c].state \in {"unused", "resolving", "connecting"}
    \/ io.at = "connected" /\ io.c = c
    \/ MayRead(c)}

\* What is queued, with what may still be queued, is within the bound.
Owed(n, A, B) == n + Cardinality(A) + Cardinality(B) <= PauseAt - 1 + 2 * Cardinality(Conns)

\* A read follows a poll that asked for it.
ReadsWereAsked == io.at \in {"recv", "data"} => "in" \in io.poll[io.c]

\* The inductive invariant of the budget, beside IInv.
BInv ==
    /\ IInv /\ ReadsWereAsked
    /\ Owed(Cardinality(Spoken(queue)), Endings, Openings)

-------------------------------------------------------------------------------
\* Sets of connections have cardinalities.
LEMMA ConnsCounted ==
    \A A \in SUBSET Conns :
        /\ IsFiniteSet(A) /\ Cardinality(A) \in Nat /\ Cardinality(A) <= Cardinality(Conns)
        /\ \A B \in SUBSET A : Cardinality(B) <= Cardinality(A)
        /\ \A c \in A : Cardinality(A \ {c}) = Cardinality(A) - 1
<1>1. ASSUME NEW A \in SUBSET Conns
      PROVE  IsFiniteSet(A) /\ Cardinality(A) \in Nat /\ Cardinality(A) <= Cardinality(Conns)
    BY SocketConstants, FS_Subset, FS_CardinalityType
<1>2. ASSUME NEW A \in SUBSET Conns, NEW B \in SUBSET A PROVE Cardinality(B) <= Cardinality(A)
    BY <1>1, FS_Subset
<1>3. ASSUME NEW A \in SUBSET Conns, NEW c \in A
      PROVE  Cardinality(A \ {c}) = Cardinality(A) - 1
    BY <1>1, FS_RemoveElement
<1> QED
    BY <1>1, <1>2, <1>3

\* An event pushed pays for one owed; a short queue needs no account.
LEMMA Paying ==
    ASSUME NEW A \in SUBSET Conns, NEW B \in SUBSET Conns, NEW n \in Nat, Owed(n, A, B),
           NEW A2 \in SUBSET Conns, NEW B2 \in SUBSET Conns, NEW n2 \in Nat,
           \/ n2 <= n /\ A2 \subseteq A /\ B2 \subseteq B
           \/ n2 <= n + 1 /\ \E c \in A : A2 \subseteq A \ {c} /\ B2 \subseteq B
           \/ n2 <= n + 1 /\ \E c \in B : A2 \subseteq A /\ B2 \subseteq B \ {c}
           \/ n2 <= PauseAt - 1
    PROVE  Owed(n2, A2, B2)
<1> DEFINE k == Cardinality(Conns)
<1>1. /\ k \in Nat /\ PauseAt \in Nat
      /\ Cardinality(A) \in Nat /\ Cardinality(B) \in Nat
      /\ Cardinality(A2) \in Nat /\ Cardinality(B2) \in Nat
      /\ Cardinality(A2) <= k /\ Cardinality(B2) <= k
    BY ConnsCounted, SocketConstants
<1>2. CASE n2 <= n /\ A2 \subseteq A /\ B2 \subseteq B
    <2>1. Cardinality(A2) <= Cardinality(A) /\ Cardinality(B2) <= Cardinality(B)
        BY <1>2, ConnsCounted
    <2> QED
        BY <1>1, <1>2, <2>1 DEF Owed
<1>3. ASSUME NEW c \in A, n2 <= n + 1, A2 \subseteq A \ {c}, B2 \subseteq B PROVE Owed(n2, A2, B2)
    <2>1. Cardinality(A \ {c}) = Cardinality(A) - 1 /\ Cardinality(B2) <= Cardinality(B)
        BY <1>3, ConnsCounted
    <2>2. A \ {c} \in SUBSET Conns
        OBVIOUS
    <2>3. Cardinality(A2) <= Cardinality(A \ {c})
        BY <1>3, <2>2, ConnsCounted
    <2> QED
        BY <1>1, <1>3, <2>1, <2>3 DEF Owed
<1>4. ASSUME NEW c \in B, n2 <= n + 1, A2 \subseteq A, B2 \subseteq B \ {c} PROVE Owed(n2, A2, B2)
    <2>1. Cardinality(B \ {c}) = Cardinality(B) - 1 /\ Cardinality(A2) <= Cardinality(A)
        BY <1>4, ConnsCounted
    <2>2. B \ {c} \in SUBSET Conns
        OBVIOUS
    <2>3. Cardinality(B2) <= Cardinality(B \ {c})
        BY <1>4, <2>2, ConnsCounted
    <2> QED
        BY <1>1, <1>4, <2>1, <2>3 DEF Owed
<1>5. CASE n2 <= PauseAt - 1
    BY <1>1, <1>5 DEF Owed
<1> QED
    BY <1>2, <1>3, <1>4, <1>5

\* A queue speaks at most as often as it is long.
LEMMA SpokenCounted ==
    ASSUME NEW q \in Seq(Events)
    PROVE  /\ IsFiniteSet(Spoken(q)) /\ Cardinality(Spoken(q)) \in Nat
           /\ Cardinality(Spoken(q)) <= Len(q)
<1>1. Len(q) \in Nat /\ DOMAIN q = 1..Len(q) /\ Spoken(q) \in SUBSET (1..Len(q))
    BY DEF Spoken
<1>2. IsFiniteSet(1..Len(q)) /\ Cardinality(1..Len(q)) = Len(q)
    <2>1. CASE Len(q) = 0
        BY <1>1, <2>1, FS_Interval
    <2>2. CASE Len(q) > 0
        BY <1>1, <2>2, FS_Interval
    <2> QED
        BY <1>1, <2>1, <2>2
<1> QED
    BY <1>1, <1>2, FS_Subset, FS_CardinalityType

\* A push adds one event at most, and a tick none.
LEMMA SpokenPushed ==
    ASSUME NEW q \in Seq(Events), NEW e \in Events
    PROVE  /\ Cardinality(Spoken(Append(q, e))) <= Cardinality(Spoken(q)) + 1
           /\ e.c = NoConn => Spoken(Append(q, e)) = Spoken(q)
<1>1. Spoken(Append(q, e)) = Spoken(q) \cup (IF e.c = NoConn THEN {} ELSE {Len(q) + 1})
    BY DEF Spoken
<1>2. IsFiniteSet(Spoken(q)) /\ Cardinality(Spoken(q)) \in Nat
    BY SpokenCounted
<1>3. CASE e.c = NoConn
    BY <1>1, <1>2, <1>3
<1>4. CASE e.c # NoConn
    <2>1. Spoken(Append(q, e)) = Spoken(q) \cup {Len(q) + 1}
        BY <1>1, <1>4
    <2>2. Len(q) + 1 \notin Spoken(q)
        BY DEF Spoken
    <2>3. Cardinality(Spoken(q) \cup {Len(q) + 1}) = Cardinality(Spoken(q)) + 1
        BY <1>2, <2>2, FS_AddElement
    <2> QED
        BY <1>2, <1>4, <2>1, <2>3
<1> QED
    BY <1>3, <1>4

\* A delivery adds none.
LEMMA SpokenPopped ==
    ASSUME NEW q \in Seq(Events), q # <<>>
    PROVE  Cardinality(Spoken(Tail(q))) <= Cardinality(Spoken(q))
<1> DEFINE t == Tail(q)
           f == [i \in Spoken(t) |-> i + 1]
<1>1. t \in Seq(Events) /\ Len(t) = Len(q) - 1 /\ \A i \in 1..Len(t) : t[i] = q[i + 1]
    OBVIOUS
<1>2. \A i \in Spoken(t) : i \in Nat /\ i + 1 \in Spoken(q)
    BY <1>1 DEF Spoken
<1>3. f \in Injection(Spoken(t), Spoken(q))
    <2>1. f \in [Spoken(t) -> Spoken(q)]
        BY <1>2
    <2>2. \A i, j \in Spoken(t) : f[i] = f[j] => i = j
        BY <1>2
    <2> QED
        BY <2>1, <2>2 DEF Injection, IsInjective
<1>4. IsFiniteSet(Spoken(q))
    BY SpokenCounted
<1> QED
    BY <1>3, <1>4, FS_Injection

\* A step that pushes nothing and owes no more, or pays for what it pushes.
LEMMA Spending ==
    ASSUME BInv, IInv', ReadsWereAsked',
           \/ UNCHANGED queue /\ Endings' \subseteq Endings /\ Openings' \subseteq Openings
           \/ /\ \E e \in Events : queue' \in {queue, Append(queue, e)} /\ e.c \in Conns
              /\ \/ \E c \in Endings : Endings' \subseteq Endings \ {c} /\ Openings' \subseteq Openings
                 \/ \E c \in Openings : Endings' \subseteq Endings /\ Openings' \subseteq Openings \ {c}
    PROVE  BInv'
<1> DEFINE n == Cardinality(Spoken(queue))
<1>1. queue \in Seq(Events) /\ queue' \in Seq(Events)
    BY DEF BInv, IInv, TypeOK
<1>2. n \in Nat /\ Cardinality(Spoken(queue')) \in Nat
    BY <1>1, SpokenCounted
<1>3. /\ Endings \in SUBSET Conns /\ Openings \in SUBSET Conns
      /\ Endings' \in SUBSET Conns /\ Openings' \in SUBSET Conns
    BY DEF Endings, Openings
<1>4. Owed(n, Endings, Openings)
    BY DEF BInv
<1>5. Owed(Cardinality(Spoken(queue')), Endings', Openings')
    <2>1. CASE UNCHANGED queue /\ Endings' \subseteq Endings /\ Openings' \subseteq Openings
        <3>1. Cardinality(Spoken(queue')) <= n
            BY <1>2, <2>1
        <3> QED
            BY <1>2, <1>3, <1>4, <2>1, <3>1, Paying
    <2>2. CASE /\ \E e \in Events : queue' \in {queue, Append(queue, e)} /\ e.c \in Conns
               /\ \/ \E c \in Endings : Endings' \subseteq Endings \ {c} /\ Openings' \subseteq Openings
                  \/ \E c \in Openings : Endings' \subseteq Endings /\ Openings' \subseteq Openings \ {c}
        <3>1. Cardinality(Spoken(queue')) <= n + 1
            <4>1. PICK e \in Events : queue' \in {queue, Append(queue, e)}
                BY <2>2
            <4>2. CASE queue' = queue
                BY <1>2, <4>2
            <4>3. CASE queue' = Append(queue, e)
                BY <1>1, <4>3, SpokenPushed
            <4> QED
                BY <4>1, <4>2, <4>3
        <3> QED
            BY <1>2, <1>3, <1>4, <2>2, <3>1, Paying
    <2> QED
        BY <2>1, <2>2
<1> QED
    BY <1>5 DEF BInv

\* A queue that is short, or was emptied, needs nothing of what went before.
LEMMA Resetting ==
    ASSUME BInv, IInv', ReadsWereAsked', Len(queue') <= PauseAt - 1
    PROVE  BInv'
<1>1. queue \in Seq(Events) /\ queue' \in Seq(Events)
    BY DEF BInv, IInv, TypeOK
<1>2. /\ Cardinality(Spoken(queue)) \in Nat /\ Cardinality(Spoken(queue')) \in Nat
      /\ Cardinality(Spoken(queue')) <= Len(queue')
    BY <1>1, SpokenCounted
<1>3. Cardinality(Spoken(queue')) <= PauseAt - 1
    BY <1>1, <1>2, SocketConstants
<1>4. /\ Endings \in SUBSET Conns /\ Openings \in SUBSET Conns
      /\ Endings' \in SUBSET Conns /\ Openings' \in SUBSET Conns
    BY DEF Endings, Openings
<1>5. Owed(Cardinality(Spoken(queue)), Endings, Openings)
    BY DEF BInv
<1>6. Owed(Cardinality(Spoken(queue')), Endings', Openings')
    BY <1>2, <1>3, <1>4, <1>5, Paying
<1> QED
    BY <1>6 DEF BInv

-------------------------------------------------------------------------------
\* A step of another than the I/O thread that pushes nothing.
LEMMA OutsideKeepsBudget ==
    ASSUME BInv, IInv', UNCHANGED <<queue, io>>,
           \A c \in Conns :
              /\ resolver'[c] = "report" => resolver[c] = "report" \/ conn[c].state # "gone"
              /\ conn'[c].state # "gone" => conn[c].state # "gone"
              /\ conn'[c].state \in {"unused", "resolving", "connecting"} =>
                    conn[c].state \in {"unused", "resolving", "connecting"}
              /\ conn'[c].state = "open" => conn[c].state = "open"
    PROVE  BInv'
<1>1. ReadsWereAsked'
    BY DEF BInv, ReadsWereAsked
<1>2. Endings' \subseteq Endings
    BY DEF Endings
<1>3. Openings' \subseteq Openings
    BY DEF Openings, MayRead
<1> QED
    BY <1>1, <1>2, <1>3, Spending

\* The plugin's natives.
LEMMA NativesKeepBudget == ASSUME BInv, IInv', NEW c \in Conns, Native(c) PROVE BInv'
<1>1. UNCHANGED <<queue, io, resolver>>
    BY DEF Native, Open, Send, RequestClose
<1>2. \A d \in Conns : \/ conn'[d].state = conn[d].state
                       \/ conn[d].state = "unused" /\ conn'[d].state = "resolving"
    <2>1. conn \in [Conns -> Records]
        BY DEF BInv, IInv, TypeOK
    <2>2. \A d \in Conns \ {c} : conn'[d] = conn[d]
        BY <2>1 DEF Native, Open, Send, RequestClose
    <2>3. conn[c] \in Records
        BY <2>1
    <2>4. \/ conn'[c].state = conn[c].state
          \/ conn[c].state = "unused" /\ conn'[c].state = "resolving"
        BY <2>1, <2>3 DEF Native, Open, Send, RequestClose, Records
    <2> QED
        BY <2>2, <2>4
<1> QED
    BY <1>1, <1>2, OutsideKeepsBudget

\* The peers.
LEMMA PeersKeepBudget == ASSUME BInv, IInv', NEW c \in Conns, Peer(c) PROVE BInv'
BY OutsideKeepsBudget DEF Peer, HandshakeDone, PeerSends, PeerReads, PeerEnds

\* The resolvers: a connect that fails owes its close, and reports it once.
LEMMA ResolversKeepBudget == ASSUME BInv, IInv', NEW c \in Conns, Resolve(c) PROVE BInv'
<1>0. conn \in [Conns -> Records] /\ resolver \in [Conns -> {"none", "dial", "attach", "fail",
                                                            "report", "leave"}]
    BY DEF BInv, IInv, TypeOK
<1>1. CASE Dial(c) \/ Attach(c) \/ Leave(c)
    <2>1. UNCHANGED <<queue, io>>
        BY <1>1 DEF Dial, Attach, Leave
    <2>2. \A d \in Conns : conn'[d].state = conn[d].state
        BY <1>0, <1>1 DEF Dial, Attach, Leave, Records
    <2>3. \A d \in Conns : resolver'[d] = "report" => resolver[d] = "report"
        BY <1>0, <1>1 DEF Dial, Attach, Leave
    <2> QED
        BY <2>1, <2>2, <2>3, OutsideKeepsBudget
<1>3. CASE Fail(c)
    <2>1. UNCHANGED <<queue, io>>
        BY <1>3 DEF Fail
    <2>2. \A d \in Conns : conn'[d] = conn[d] \/ conn'[d].state = "gone"
        BY <1>0, <1>3 DEF Fail, Gone
    <2>3. \A d \in Conns :
              resolver'[d] = "report" => resolver[d] = "report" \/ conn[d].state # "gone"
        BY <1>0, <1>3 DEF Fail, Listed
    <2> QED
        BY <2>1, <2>2, <2>3, OutsideKeepsBudget
<1>4. CASE Report(c)
    <2>1. UNCHANGED <<io, conn>> /\ resolver' = [resolver EXCEPT ![c] = "leave"]
        BY <1>4 DEF Report
    <2>2. conn[c].state = "gone" /\ resolver[c] = "report"
        BY <1>4 DEF Report, BInv, IInv, Reports
    <2>3. ~(io.at = "closed" /\ io.c = c)
        BY <2>2 DEF BInv, IInv, InHand
    <2>4. c \in Endings /\ Endings' \subseteq Endings \ {c}
        BY <2>1, <2>2, <2>3 DEF Endings, BInv, IInv, TypeOK
    <2>5. Openings' \subseteq Openings
        BY <2>1 DEF Openings, MayRead
    <2>6. [kind |-> "closed", c |-> c] \in Events /\ queue' \in {queue, Append(queue, [kind |-> "closed", c |-> c])}
        BY <1>4 DEF Report, Push, Events
    <2>7. ReadsWereAsked'
        BY <2>1 DEF BInv, ReadsWereAsked
    <2> QED
        BY <2>4, <2>5, <2>6, <2>7, Spending
<1> QED
    BY <1>1, <1>3, <1>4 DEF Resolve

\* A step of the I/O thread that pushes nothing, and takes no record out.
LEMMA IoKeepsBudget ==
    ASSUME BInv, IInv', UNCHANGED <<queue, resolver>>, ReadsWereAsked',
           \A c \in Conns :
              /\ conn'[c].state = conn[c].state
              /\ io'.at = "closed" /\ io'.c = c => c \in Endings
              /\ io'.at = "connected" /\ io'.c = c => c \in Openings
              /\ MayRead(c)' => c \in Openings
    PROVE  BInv'
<1>1. Endings' \subseteq Endings
    BY DEF Endings
<1>2. Openings' \subseteq Openings
    BY DEF Openings
<1> QED
    BY <1>1, <1>2, Spending

\* A connect is claimed.
LEMMA ClaimKeepsBudget == ASSUME BInv, IInv', NEW c \in Conns, Claim(c) PROVE BInv'
<1>1. /\ UNCHANGED <<queue, resolver>> /\ io'.at = "claimed" /\ io'.poll = io.poll
      /\ io.at = "pending"
    BY DEF Claim, BInv, IInv, TypeOK
<1>2. /\ conn[c].state = "resolving" /\ conn'[c].state = "connecting"
      /\ \A d \in Conns \ {c} : conn'[d] = conn[d]
    BY DEF Claim, BInv, IInv, TypeOK, Records
<1>3. Endings' \subseteq Endings
    BY <1>1, <1>2 DEF Endings
<1>4. Openings' \subseteq Openings
    BY <1>1, <1>2 DEF Openings, MayRead
<1>5. ReadsWereAsked'
    BY <1>1 DEF ReadsWereAsked
<1> QED
    BY <1>1, <1>3, <1>4, <1>5, Spending

\* A socket poll reported is looked at.
LEMMA LookKeepsBudget == ASSUME BInv, IInv', NEW c \in Conns, Look(c) PROVE BInv'
<1>1. UNCHANGED <<queue, resolver, conn>> /\ io.at = "service"
    BY DEF Look
<1>2. /\ io'.at \in {"service", "connect", "flush", "recv", "hup"}
      /\ \A d \in Conns : io'.poll[d] \in {io.poll[d], {}}
      /\ io'.at = "recv" => "in" \in io'.poll[io'.c]
    BY DEF Look, From, BInv, IInv, TypeOK
<1>3. ReadsWereAsked'
    BY <1>2 DEF ReadsWereAsked
<1>4. \A d \in Conns : MayRead(d)' => MayRead(d)
    BY <1>1, <1>2 DEF MayRead
<1> QED
    BY <1>1, <1>2, <1>3, <1>4, IoKeepsBudget DEF Openings

\* A record is taken out, without a word or about to be reported.
LEMMA TakeDownKeepsBudget ==
    ASSUME BInv, IInv', NEW a \in Conns, TakeDown(a), Listed(a), UNCHANGED <<queue, resolver>>,
           (io' = io /\ io.at = "reap") \/ (io.c = a /\ io' = [io EXCEPT !.at = "closed"])
    PROVE  BInv'
<1>1. conn'[a].state = "gone" /\ \A d \in Conns \ {a} : conn'[d] = conn[d]
    BY DEF TakeDown, Gone, BInv, IInv, TypeOK
<1>2. io'.poll = io.poll /\ io'.c = io.c /\ io'.at \in {"reap", "closed"}
    BY DEF BInv, IInv, TypeOK
<1>3. conn[a].state # "gone"
    BY DEF Listed
<1>4. Endings' \subseteq Endings
    <2>1. a \in Endings
        BY <1>3 DEF Endings
    <2>2. \A d \in Conns \ {a} : d \in Endings' => d \in Endings
        BY <1>1, <1>2 DEF Endings
    <2> QED
        BY <2>1, <2>2 DEF Endings
<1>5. Openings' \subseteq Openings
    <2>1. a \notin Openings'
        BY <1>1, <1>2 DEF Openings, MayRead
    <2>2. \A d \in Conns \ {a} : d \in Openings' => d \in Openings
        BY <1>1, <1>2 DEF Openings, MayRead, BInv, IInv, TypeOK
    <2> QED
        BY <2>1, <2>2 DEF Openings
<1>6. ReadsWereAsked'
    BY <1>2 DEF ReadsWereAsked
<1> QED
    BY <1>4, <1>5, <1>6, Spending

\* A closing connection is reaped.
LEMMA ReapKeepsBudget == ASSUME BInv, IInv', NEW c \in Conns, Reap(c) PROVE BInv'
BY TakeDownKeepsBudget DEF Reap

\* A resolver begins.
LEMMA SpawnOkKeepsBudget == ASSUME BInv, IInv', SpawnOk PROVE BInv'
<1>1. /\ UNCHANGED <<queue, conn>> /\ io'.at = "pending" /\ io'.poll = io.poll
      /\ io.at = "claimed"
    BY DEF SpawnOk, BInv, IInv, TypeOK
<1>2. \A c \in Conns : resolver'[c] = "report" => resolver[c] = "report"
    BY DEF SpawnOk, BInv, IInv, TypeOK
<1>3. Endings' \subseteq Endings
    BY <1>1, <1>2 DEF Endings
<1>4. Openings' \subseteq Openings
    BY <1>1 DEF Openings, MayRead
<1>5. ReadsWereAsked'
    BY <1>1 DEF ReadsWereAsked
<1> QED
    BY <1>1, <1>3, <1>4, <1>5, Spending

\* A resolver cannot begin: the close is owed.
LEMMA SpawnFailsKeepsBudget == ASSUME BInv, IInv', SpawnFails PROVE BInv'
<1>1. /\ io.c \in Conns /\ conn[io.c].state = "connecting" /\ io.at = "claimed"
    BY DEF SpawnFails, BInv, IInv, InHand
<1>2. /\ UNCHANGED <<queue, resolver>> /\ io'.at = "closed" /\ io'.poll = io.poll /\ io'.c = io.c
    BY DEF SpawnFails, BInv, IInv, TypeOK
<1>3. conn'[io.c].state = "gone" /\ \A c \in Conns \ {io.c} : conn'[c] = conn[c]
    BY <1>1 DEF SpawnFails, Gone, BInv, IInv, TypeOK
<1>4. \A c \in Conns : c \in Endings' => c \in Endings
    BY <1>1, <1>2, <1>3 DEF Endings
<1>5. \A c \in Conns : c \in Openings' => c \in Openings
    <2>1. io.c \notin Openings'
        BY <1>2, <1>3 DEF Openings, MayRead
    <2>2. \A c \in Conns \ {io.c} : c \in Openings' => c \in Openings
        BY <1>1, <1>2, <1>3 DEF Openings, MayRead
    <2> QED
        BY <2>1, <2>2
<1>6. Endings' \subseteq Endings /\ Openings' \subseteq Openings
    BY <1>4, <1>5 DEF Endings, Openings
<1>7. ReadsWereAsked'
    BY <1>2 DEF ReadsWereAsked
<1> QED
    BY <1>2, <1>6, <1>7, Spending

\* buildPollSet: where reads are asked for, the queue is short.
LEMMA BuildKeepsBudget == ASSUME BInv, IInv', Build PROVE BInv'
<1>1. UNCHANGED <<queue, resolver, conn>> /\ io'.at = "poll" /\ io.at = "build"
    BY DEF Build, BInv, IInv, TypeOK
<1>2. ReadsWereAsked'
    BY <1>1 DEF ReadsWereAsked
<1>3. CASE Paused
    <2>1. \A c \in Conns : "in" \notin io'.poll[c]
        BY <1>3 DEF Build, Asked, BInv, IInv, TypeOK
    <2>2. \A c \in Conns : ~MayRead(c)'
        BY <2>1 DEF MayRead
    <2> QED
        BY <1>1, <1>2, <2>2, IoKeepsBudget
<1>4. CASE ~Paused
    <2>1. Len(queue') <= PauseAt - 1
        BY <1>1, <1>4, SocketConstants DEF Paused, BInv, IInv, TypeOK
    <2> QED
        BY <1>2, <2>1, Resetting
<1> QED
    BY <1>3, <1>4

\* poll finds no more than was asked.
LEMMA PollKeepsBudget == ASSUME BInv, IInv', Poll PROVE BInv'
<1>1. UNCHANGED <<queue, resolver, conn>> /\ io'.at \in {"drain", "timers"} /\ io.at = "poll"
    <2>1. \A x, w : /\ [io EXCEPT !.poll = x, !.woken = w, !.at = "drain"].at = "drain"
                    /\ [io EXCEPT !.poll = x, !.woken = w, !.at = "timers"].at = "timers"
        BY DEF BInv, IInv, TypeOK
    <2> QED
        BY <2>1 DEF Poll
<1>2. \A c \in Conns : io'.poll[c] \subseteq io.poll[c]
    BY DEF Poll, Found, BInv, IInv, TypeOK
<1>3. \A c \in Conns : MayRead(c)' => MayRead(c)
    BY <1>1, <1>2 DEF MayRead
<1>4. ReadsWereAsked'
    BY <1>1 DEF ReadsWereAsked
<1> QED
    BY <1>1, <1>3, <1>4, IoKeepsBudget DEF Openings

\* The places between which the I/O thread leaves the connections alone.
LEMMA WalksKeepBudget ==
    ASSUME BInv, IInv', NonePending \/ Drain \/ Served \/ Reaped
    PROVE  BInv'
<1>1. /\ UNCHANGED <<queue, resolver, conn>> /\ io'.at \in {"build", "service", "reap", "timers"}
      /\ io'.poll = io.poll /\ io.at \in {"pending", "drain", "service", "reap"}
    <2>1. CASE NonePending
        BY <2>1 DEF NonePending, BInv, IInv, TypeOK
    <2>2. CASE Drain
        BY <2>2 DEF Drain, BInv, IInv, TypeOK
    <2>3. CASE Served
        BY <2>3 DEF Served, BInv, IInv, TypeOK
    <2>4. CASE Reaped
        BY <2>4 DEF Reaped, BInv, IInv, TypeOK
    <2> QED
        BY <2>1, <2>2, <2>3, <2>4
<1>2. \A c \in Conns : MayRead(c)' => MayRead(c)
    BY <1>1 DEF MayRead
<1>3. ReadsWereAsked'
    BY <1>1 DEF ReadsWereAsked
<1> QED
    BY <1>1, <1>2, <1>3, IoKeepsBudget DEF Openings

\* The verdict on a handshake.
LEMMA ConnectKeepsBudget == ASSUME BInv, IInv', Connect PROVE BInv'
<1>1. io.c \in Conns /\ conn[io.c].state = "connecting" /\ Listed(io.c) /\ io.at = "connect"
    BY DEF Connect, BInv, IInv, InHand, Listed
<1>2. CASE TakeDown(io.c) /\ io' = [io EXCEPT !.at = "closed"]
    BY <1>1, <1>2, TakeDownKeepsBudget DEF Connect
<1>3. CASE conn' = [conn EXCEPT ![io.c].state = "open"] /\ io' = [io EXCEPT !.at = "connected"]
    <2>1. io'.at = "connected" /\ io'.c = io.c /\ io'.poll = io.poll
        BY <1>3 DEF BInv, IInv, TypeOK
    <2>2. \A c \in Conns \ {io.c} : conn'[c] = conn[c]
        BY <1>3 DEF BInv, IInv, TypeOK
    <2>3. UNCHANGED <<queue, resolver>>
        BY DEF Connect
    <2>4. io.c \in Endings /\ io.c \in Openings
        BY <1>1 DEF Endings, Openings
    <2>5. \A c \in Conns \ {io.c} :
              (c \in Endings' => c \in Endings) /\ (c \in Openings' => c \in Openings)
        BY <1>1, <2>1, <2>2, <2>3 DEF Endings, Openings, MayRead
    <2>6. Endings' \subseteq Endings /\ Openings' \subseteq Openings
        <3>1. \A c \in Conns : c \in Endings' => c \in Endings
            BY <2>4, <2>5
        <3>2. \A c \in Conns : c \in Openings' => c \in Openings
            BY <2>4, <2>5
        <3> QED
            BY <3>1, <3>2 DEF Endings, Openings
    <2>7. ReadsWereAsked'
        BY <2>1 DEF ReadsWereAsked
    <2> QED
        BY <2>3, <2>6, <2>7, Spending
<1> QED
    BY <1>2, <1>3 DEF Connect

\* A flush.
LEMMA FlushKeepsBudget == ASSUME BInv, IInv', Flush PROVE BInv'
<1>1. io.c \in Conns /\ conn[io.c].state = "open" /\ io.at = "flush"
    BY DEF Flush, BInv, IInv, InHand
<1>2. /\ UNCHANGED <<queue, resolver>> /\ io'.poll = io.poll /\ io'.c = io.c
      /\ io'.at \in {"recv", "hup"} /\ (io'.at = "recv" => "in" \in io.poll[io.c])
    BY DEF Flush, From, BInv, IInv, TypeOK
<1>3. \A c \in Conns : conn'[c].state = conn[c].state
    <2>1. conn \in [Conns -> Records]
        BY DEF BInv, IInv, TypeOK
    <2> QED
        BY <1>1, <2>1 DEF Flush, Records
<1>4. \A c \in Conns : MayRead(c)' => MayRead(c)
    BY <1>1, <1>2, <1>3 DEF MayRead
<1>5. ReadsWereAsked'
    BY <1>2 DEF ReadsWereAsked
<1> QED
    BY <1>2, <1>3, <1>4, <1>5, IoKeepsBudget DEF Openings

\* A read, or the end of the stream.
LEMMA RecvKeepsBudget == ASSUME BInv, IInv', Recv PROVE BInv'
<1>1. io.c \in Conns /\ conn[io.c].state = "open" /\ Listed(io.c) /\ io.at = "recv"
    BY DEF Recv, BInv, IInv, InHand, Listed
<1>2. CASE TakeDown(io.c) /\ io' = [io EXCEPT !.at = "closed"]
    BY <1>1, <1>2, TakeDownKeepsBudget DEF Recv
<1>3. CASE io' = [io EXCEPT !.at = "data"] /\ UNCHANGED conn
    <2>1. io'.at = "data" /\ io'.c = io.c /\ io'.poll = io.poll /\ UNCHANGED <<queue, resolver>>
        BY <1>3 DEF Recv, BInv, IInv, TypeOK
    <2>2. \A c \in Conns : MayRead(c)' => MayRead(c)
        BY <1>1, <1>3, <2>1 DEF MayRead
    <2>3. ReadsWereAsked'
        BY <1>1, <2>1 DEF BInv, ReadsWereAsked
    <2> QED
        BY <1>3, <2>1, <2>2, <2>3, IoKeepsBudget DEF Openings
<1> QED
    BY <1>2, <1>3 DEF Recv

\* A hang-up, or the next socket.
LEMMA HangUpKeepsBudget == ASSUME BInv, IInv', HangUp PROVE BInv'
<1>1. io.c \in Conns /\ conn[io.c].state = "open" /\ Listed(io.c) /\ io.at = "hup"
    BY DEF HangUp, BInv, IInv, InHand, Listed
<1>2. CASE TakeDown(io.c) /\ io' = [io EXCEPT !.at = "closed"]
    BY <1>1, <1>2, TakeDownKeepsBudget DEF HangUp
<1>3. CASE io' = NextSocket /\ UNCHANGED conn
    <2>1. /\ io'.at = "service" /\ UNCHANGED <<queue, resolver>> /\ io'.poll[io.c] = {}
          /\ \A c \in Conns \ {io.c} : io'.poll[c] = io.poll[c]
        BY <1>1, <1>3 DEF HangUp, NextSocket, BInv, IInv, TypeOK
    <2>2. \A c \in Conns : MayRead(c)' => MayRead(c)
        BY <1>3, <2>1 DEF MayRead
    <2>3. ReadsWereAsked'
        BY <2>1 DEF ReadsWereAsked
    <2> QED
        BY <1>3, <2>1, <2>2, <2>3, IoKeepsBudget DEF Openings
<1> QED
    BY <1>2, <1>3 DEF HangUp

\* The push of a chunk: it was owed while the read was.
LEMMA PushDataKeepsBudget == ASSUME BInv, IInv', PushData PROVE BInv'
<1> DEFINE e == [kind |-> "data", c |-> io.c]
<1>1. /\ io.c \in Conns /\ conn[io.c].state = "open" /\ io.at = "data" /\ "in" \in io.poll[io.c]
    BY DEF PushData, BInv, IInv, InHand, ReadsWereAsked
<1>2. /\ UNCHANGED <<conn, resolver>> /\ io'.at = "hup" /\ io'.c = io.c /\ io'.poll = io.poll
    BY DEF PushData, BInv, IInv, TypeOK
<1>3. e \in Events /\ e.c \in Conns /\ queue' \in {queue, Append(queue, e)}
    BY <1>1 DEF PushData, Push, Events
<1>4. Endings' \subseteq Endings
    BY <1>2 DEF Endings
<1>5. io.c \in Openings /\ Openings' \subseteq Openings \ {io.c}
    <2>1. io.c \in Openings /\ io.c \notin Openings'
        BY <1>1, <1>2 DEF Openings, MayRead
    <2>2. Openings' \subseteq Openings
        BY <1>1, <1>2 DEF Openings, MayRead
    <2> QED
        BY <2>1, <2>2
<1>6. ReadsWereAsked'
    BY <1>2 DEF ReadsWereAsked
<1> QED
    BY <1>3, <1>4, <1>5, <1>6, Spending

\* The push of an outcome: a connect was owed until now, or a close is owed no more.
LEMMA PushOutcomeKeepsBudget == ASSUME BInv, IInv', PushOutcome PROVE BInv'
<1> DEFINE e == [kind |-> io.at, c |-> io.c]
<1>1. io.c \in Conns /\ io.at \in {"connected", "closed"}
    BY DEF PushOutcome, BInv, IInv, InHand
<1>2. /\ UNCHANGED <<conn, resolver>> /\ io'.at \in {"service", "pending"} /\ io'.poll[io.c] = {}
      /\ \A c \in Conns \ {io.c} : io'.poll[c] = io.poll[c]
    BY <1>1 DEF PushOutcome, NextSocket, BInv, IInv, TypeOK
<1>3. e \in Events /\ e.c \in Conns /\ queue' \in {queue, Append(queue, e)}
    BY <1>1 DEF PushOutcome, Push, Events
<1>4. Endings' \subseteq Endings
    BY <1>2 DEF Endings
<1>5. Openings' \subseteq Openings
    BY <1>1, <1>2 DEF Openings, MayRead
<1>6. ReadsWereAsked'
    BY <1>2 DEF ReadsWereAsked
<1>7. CASE io.at = "connected"
    <2>1. conn[io.c].state = "open"
        BY <1>7 DEF BInv, IInv, InHand
    <2>2. io.c \in Openings /\ io.c \notin Openings'
        BY <1>1, <1>2, <1>7, <2>1 DEF Openings, MayRead
    <2>3. Openings' \subseteq Openings \ {io.c}
        BY <1>5, <2>2
    <2> QED
        BY <1>3, <1>4, <1>6, <2>2, <2>3, Spending
<1>8. CASE io.at = "closed"
    <2>1. conn[io.c].state = "gone" /\ resolver[io.c] # "report"
        BY <1>8 DEF BInv, IInv, InHand
    <2>2. io.c \in Endings /\ io.c \notin Endings'
        BY <1>1, <1>2, <1>8, <2>1 DEF Endings
    <2>3. Endings' \subseteq Endings \ {io.c}
        BY <1>4, <2>2
    <2> QED
        BY <1>3, <1>5, <1>6, <2>2, <2>3, Spending
<1> QED
    BY <1>1, <1>7, <1>8

\* A tick, or an event delivered: no more is said of the connections.
LEMMA LessSaid ==
    ASSUME BInv, IInv', ReadsWereAsked', Endings' \subseteq Endings, Openings' \subseteq Openings,
           Cardinality(Spoken(queue')) <= Cardinality(Spoken(queue))
    PROVE  BInv'
<1>1. queue \in Seq(Events) /\ queue' \in Seq(Events)
    BY DEF BInv, IInv, TypeOK
<1>2. Cardinality(Spoken(queue)) \in Nat /\ Cardinality(Spoken(queue')) \in Nat
    BY <1>1, SpokenCounted
<1>3. /\ Endings \in SUBSET Conns /\ Openings \in SUBSET Conns
      /\ Endings' \in SUBSET Conns /\ Openings' \in SUBSET Conns
    BY DEF Endings, Openings
<1>4. Owed(Cardinality(Spoken(queue)), Endings, Openings)
    BY DEF BInv
<1>5. Owed(Cardinality(Spoken(queue')), Endings', Openings')
    BY <1>2, <1>3, <1>4, Paying
<1> QED
    BY <1>5 DEF BInv

\* A tick.
LEMMA TickKeepsBudget == ASSUME BInv, IInv', Tick PROVE BInv'
<1> DEFINE e == [kind |-> "tick", c |-> NoConn]
<1>1. /\ UNCHANGED <<conn, resolver>> /\ io'.at \in {"pending", "gone"} /\ io'.poll = io.poll
      /\ io.at = "timers"
    BY DEF Tick, BInv, IInv, TypeOK
<1>2. queue' \in {queue, Append(queue, e)}
    BY DEF Tick, Push
<1>3. queue \in Seq(Events) /\ e \in Events /\ e.c = NoConn
    BY DEF BInv, IInv, TypeOK, Events
<1>4. Cardinality(Spoken(queue')) <= Cardinality(Spoken(queue))
    <2>1. Cardinality(Spoken(queue)) \in Nat
        BY <1>3, SpokenCounted
    <2>2. Spoken(queue') = Spoken(queue)
        <3>1. CASE queue' = queue
            BY <3>1
        <3>2. CASE queue' = Append(queue, e)
            BY <1>3, <3>2, SpokenPushed
        <3> QED
            BY <1>2, <3>1, <3>2
    <2> QED
        BY <2>1, <2>2
<1>5. Endings' \subseteq Endings
    BY <1>1 DEF Endings
<1>6. Openings' \subseteq Openings
    BY <1>1 DEF Openings, MayRead
<1>7. ReadsWereAsked'
    BY <1>1 DEF ReadsWereAsked
<1> QED
    BY <1>4, <1>5, <1>6, <1>7, LessSaid

\* A delivery.
LEMMA DeliverKeepsBudget == ASSUME BInv, IInv', Deliver PROVE BInv'
<1>1. UNCHANGED <<conn, resolver, io>> /\ queue' = Tail(queue) /\ queue # <<>>
    BY DEF Deliver
<1>2. queue \in Seq(Events)
    BY DEF BInv, IInv, TypeOK
<1>3. Cardinality(Spoken(queue')) <= Cardinality(Spoken(queue))
    BY <1>1, <1>2, SpokenPopped
<1>4. Endings' \subseteq Endings /\ Openings' \subseteq Openings
    BY <1>1 DEF Endings, Openings, MayRead
<1>5. ReadsWereAsked'
    BY <1>1 DEF BInv, ReadsWereAsked
<1> QED
    BY <1>3, <1>4, <1>5, LessSaid

\* The queue is emptied.
LEMMA EmptiedKeepsBudget == ASSUME BInv, IInv', DropPlugin \/ Free PROVE BInv'
<1>1. queue' = <<>> /\ io' = io
    BY DEF DropPlugin, Free
<1>2. Len(queue') <= PauseAt - 1
    BY <1>1, SocketConstants
<1>3. ReadsWereAsked'
    BY <1>1 DEF BInv, ReadsWereAsked
<1> QED
    BY <1>2, <1>3, Resetting

\* Nothing the account is of changes.
LEMMA StandingKeepsBudget ==
    ASSUME BInv, IInv', UNCHANGED <<conn, resolver, queue, io>>
    PROVE  BInv'
BY OutsideKeepsBudget

\* A broker just started owes two events for every connection to come.
LEMMA InitBInv == ASSUME Init PROVE BInv
<1>1. IInv
    BY InitIInv
<1>2. ReadsWereAsked
    BY DEF Init, ReadsWereAsked
<1>3. Endings \in SUBSET Conns /\ Openings \in SUBSET Conns
    BY DEF Endings, Openings
<1>4. Cardinality(Spoken(queue)) = 0
    <2>1. Spoken(queue) = {}
        BY DEF Init, Spoken
    <2> QED
        BY <2>1, FS_EmptySet
<1>5. /\ Cardinality(Endings) \in Nat /\ Cardinality(Openings) \in Nat
      /\ Cardinality(Endings) <= Cardinality(Conns) /\ Cardinality(Openings) <= Cardinality(Conns)
      /\ Cardinality(Conns) \in Nat
    BY <1>3, ConnsCounted
<1>6. Owed(Cardinality(Spoken(queue)), Endings, Openings)
    BY <1>4, <1>5, SocketConstants DEF Owed
<1> QED
    BY <1>1, <1>2, <1>6 DEF BInv

\* Every step keeps the budget.
LEMMA NextBInv == ASSUME BInv, [Next]_vars PROVE BInv'
<1>1. IInv'
    BY NextIInv DEF BInv
<1>2. ASSUME NEW c \in Conns, Native(c) \/ Peer(c) \/ Resolve(c) PROVE BInv'
    BY <1>1, <1>2, NativesKeepBudget, PeersKeepBudget, ResolversKeepBudget
<1>3. CASE DropPlugin \/ Free
    BY <1>1, <1>3, EmptiedKeepsBudget
<1>4. CASE Deliver
    BY <1>1, <1>4, DeliverKeepsBudget
<1>5. CASE IoThread \/ SpawnFails
    <2>1. ASSUME NEW c \in Conns, Claim(c) \/ Look(c) \/ Reap(c) PROVE BInv'
        BY <1>1, <2>1, ClaimKeepsBudget, LookKeepsBudget, ReapKeepsBudget
    <2>2. CASE SpawnOk \/ SpawnFails \/ Build \/ Poll \/ NonePending \/ Drain \/ Served \/ Reaped
        BY <1>1, <2>2, SpawnOkKeepsBudget, SpawnFailsKeepsBudget, BuildKeepsBudget,
           PollKeepsBudget, WalksKeepBudget
    <2>3. CASE Connect \/ Flush \/ Recv \/ HangUp \/ PushData \/ PushOutcome \/ Tick
        BY <1>1, <2>3, ConnectKeepsBudget, FlushKeepsBudget, RecvKeepsBudget, HangUpKeepsBudget,
           PushDataKeepsBudget, PushOutcomeKeepsBudget, TickKeepsBudget
    <2> QED
        BY <1>5, <2>1, <2>2, <2>3 DEF IoThread
<1>6. CASE Stop \/ JoinIo \/ CloseWake \/ Ended \/ UNCHANGED vars
    BY <1>1, <1>6, StandingKeepsBudget DEF Stop, JoinIo, CloseWake, Ended, vars
<1> QED
    BY <1>2, <1>3, <1>4, <1>5, <1>6 DEF Next

\* What sockets push into a queue nobody empties stops short of the cap, but for two
\* events of each connection (pausedLocked, buildPollSet, push, broker.zig).
THEOREM BudgetHolds == Spec => []SocketEventsBounded
<1>1. BInv => SocketEventsBounded
    <2> SUFFICES ASSUME BInv PROVE SocketEventsBounded
        OBVIOUS
    <2>1. Endings \in SUBSET Conns /\ Openings \in SUBSET Conns /\ queue \in Seq(Events)
        BY DEF Endings, Openings, BInv, IInv, TypeOK
    <2>2. /\ Cardinality(Endings) \in Nat /\ Cardinality(Openings) \in Nat
          /\ Cardinality(Conns) \in Nat /\ Cardinality(Spoken(queue)) \in Nat /\ PauseAt \in Nat
        BY <2>1, ConnsCounted, SpokenCounted, SocketConstants
    <2>3. Cardinality(Spoken(queue)) <= PauseAt - 1 + 2 * Cardinality(Conns)
        BY <2>2 DEF BInv, Owed
    <2> QED
        BY <2>3 DEF SocketEventsBounded, Spoken
<1> QED
    BY <1>1, InitBInv, NextBInv, PTL DEF Spec
===============================================================================
