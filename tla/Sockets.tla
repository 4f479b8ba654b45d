------------------------------- MODULE Sockets -------------------------------
(***************************************************************************)
(* One plugin's TCP connections in the broker, src/src/plugin/broker.zig:  *)
(* the natives its dispatch thread calls, the resolver thread each connect *)
(* gets, the I/O thread's loop over poll, the plugin's event queue with    *)
(* its cap and its back pressure, and the broker's stop and deinit.        *)
(*                                                                         *)
(* Every section under the broker's mutex is one step, and so is every     *)
(* system call made outside it.  The kernel is the environment: sock says  *)
(* what became of a connection's descriptor, and poll reports a hang-up    *)
(* whether or not it was asked for, as the POSIX build relies on.          *)
(*                                                                         *)
(* The I/O thread (io.at) is at one of                                     *)
(*    pending   startPending       claimed   a connect claimed, no thread  *)
(*    build     buildPollSet       poll      in poll                       *)
(*    drain     drainWake          service   serviceSockets' walk          *)
(*    connect   serviceOne, connecting       connected  about to report it *)
(*    flush, recv, data, hup       serviceOne, open                        *)
(*    closed    about to report a close      reap       reapClosing        *)
(*    timers    fireTimers, fanout           gone       returned           *)
(***************************************************************************)
EXTENDS Naturals, Sequences, FiniteSets

CONSTANTS Conns,      \* connection ids; next_id never gives one out twice
          NoConn,     \* what a timer event is about
          MaxQueued,  \* max_queued
          PauseAt,    \* pause_reads_at
          MaxUnread,  \* bound: chunks a socket's receive buffer holds
          MaxOut,     \* bound: chunks of a connection the plugin has handed in
          MaxRoom     \* bound: chunks a socket's send buffer holds

ASSUME SocketConstants ==
    /\ IsFiniteSet(Conns) /\ NoConn \notin Conns
    /\ MaxQueued \in Nat \ {0} /\ PauseAt \in 1..MaxQueued
    /\ MaxUnread \in Nat \ {0} /\ MaxOut \in Nat \ {0} /\ MaxRoom \in Nat \ {0}

VARIABLES
    conn,      \* the connection records: state, closing, fd, and out, the chunks the
               \* plugin handed in that are not written
    sock,      \* what became of the descriptor the resolver dialled
    unread,    \* chunks the kernel holds of what the peer sent
    room,      \* chunks the kernel takes before a write would block
    resolver,  \* the resolver thread of each connection
    queue,     \* the plugin's event queue
    heard,     \* how far the events delivered have taken each connection
    io,        \* the I/O thread: its place, its connection, the poll set
    wake,      \* a byte is in the wake pipe
    broker     \* "up", "stopping", "joined", "quiet" or "freed"

vars == <<conn, sock, unread, room, resolver, queue, heard, io, wake, broker>>

kernel == <<sock, unread, room>>
others == <<heard, broker>>

Listed(c) == conn[c].state \notin {"unused", "gone"}

\* A record taken out of the list.
Gone == [state |-> "gone", closing |-> FALSE, fd |-> FALSE, out |-> 0]

Init ==
    /\ conn = [c \in Conns |-> [state |-> "unused", closing |-> FALSE,
                                fd |-> FALSE, out |-> 0]]
    /\ sock = [c \in Conns |-> "none"]
    /\ unread = [c \in Conns |-> 0]
    /\ room = [c \in Conns |-> MaxRoom]
    /\ resolver = [c \in Conns |-> "none"]
    /\ queue = <<>>
    /\ heard = [c \in Conns |-> "nothing"]
    /\ io = [at |-> "pending", c |-> NoConn, back |-> "service",
             woken |-> FALSE, poll |-> [c \in Conns |-> {}]]
    /\ wake = FALSE
    /\ broker = "up"

\* A push that does not look at the cap.
PushUncapped(kind, c) == queue' = Append(queue, [kind |-> kind, c |-> c])

\* push: over the cap the event is dropped, and the plugin is never told which.
Push(kind, c) ==
    queue' = IF Len(queue) >= MaxQueued THEN queue
             ELSE Append(queue, [kind |-> kind, c |-> c])

-------------------------------------------------------------------------------
(* The plugin's dispatch thread                                              *)

\* openConn
Open(c) ==
    /\ broker = "up"
    /\ conn[c].state = "unused"
    /\ conn' = [conn EXCEPT ![c].state = "resolving"]
    /\ wake' = TRUE
    /\ UNCHANGED <<kernel, resolver, queue, io, others>>

\* sendConn
Send(c) ==
    /\ broker = "up"
    /\ Listed(c) /\ ~conn[c].closing /\ conn[c].out < MaxOut
    /\ conn' = [conn EXCEPT ![c].out = @ + 1]
    /\ wake' = TRUE
    /\ UNCHANGED <<kernel, resolver, queue, io, others>>

\* requestClose: mark it; the I/O thread reaps it without an event.
RequestClose(c) ==
    /\ broker = "up"
    /\ Listed(c)
    /\ conn' = [conn EXCEPT ![c].closing = TRUE]
    /\ wake' = TRUE
    /\ UNCHANGED <<kernel, resolver, queue, io, others>>

\* dropPlugin: the queue is cleared, every connection marked and shut down.
DropPlugin ==
    /\ broker = "up"
    /\ queue' = <<>>
    /\ conn' = [c \in Conns |-> [conn[c] EXCEPT !.closing = @ \/ Listed(c)]]
    /\ sock' = [c \in Conns |->
                  IF Listed(c) /\ ~conn[c].closing /\ conn[c].fd
                  THEN "ended" ELSE sock[c]]
    /\ wake' = TRUE
    /\ UNCHANGED <<unread, room, resolver, io, others>>

\* popFor, and the plugin's handler with it.
Deliver ==
    /\ broker = "up"
    /\ queue # <<>>
    /\ queue' = Tail(queue)
    /\ LET event == Head(queue) IN
         heard' = CASE event.kind = "connected" -> [heard EXCEPT ![event.c] = "open"]
                    [] event.kind = "closed"    -> [heard EXCEPT ![event.c] = "closed"]
                    [] OTHER                    -> heard
    /\ UNCHANGED <<conn, kernel, resolver, io, wake, broker>>

-------------------------------------------------------------------------------
(* The kernel and the peers                                                  *)

HandshakeDone(c) ==
    /\ sock[c] = "handshake"
    /\ \E s \in {"up", "ended"} : sock' = [sock EXCEPT ![c] = s]
    /\ UNCHANGED <<conn, unread, room, resolver, queue, io, wake, others>>

PeerSends(c) ==
    /\ sock[c] = "up"
    /\ unread[c] < MaxUnread
    /\ unread' = [unread EXCEPT ![c] = @ + 1]
    /\ UNCHANGED <<conn, sock, room, resolver, queue, io, wake, others>>

\* The peer takes what was written to it, and the kernel has room for more.
PeerReads(c) ==
    /\ sock[c] \in {"up", "fin"}
    /\ room[c] < MaxRoom
    /\ room' = [room EXCEPT ![c] = @ + 1]
    /\ UNCHANGED <<conn, sock, unread, resolver, queue, io, wake, others>>

\* The peer ends its half in order, which is an end of file behind what it sent,
\* or resets the connection or goes away, which poll reports by itself.
PeerEnds(c) ==
    /\ sock[c] \in {"up", "fin"}
    /\ \E s \in {"fin", "ended"} : sock' = [sock EXCEPT ![c] = s]
    /\ UNCHANGED <<conn, unread, room, resolver, queue, io, wake, others>>

-------------------------------------------------------------------------------
(* The resolver threads: resolveMain                                         *)

\* net.dial: a descriptor mid-handshake, or an error.
Dial(c) ==
    /\ resolver[c] = "dial"
    /\ \/ /\ sock' = [sock EXCEPT ![c] = "handshake"]
          /\ resolver' = [resolver EXCEPT ![c] = "attach"]
       \/ /\ sock' = sock
          /\ resolver' = [resolver EXCEPT ![c] = "fail"]
    /\ UNCHANGED <<conn, unread, room, queue, io, wake, others>>

\* finishConn with a descriptor: attach it, or close it if nobody wants it.
Attach(c) ==
    /\ resolver[c] = "attach"
    /\ IF Listed(c)
       THEN conn' = [conn EXCEPT ![c].fd = TRUE] /\ sock' = sock
       ELSE conn' = conn /\ sock' = [sock EXCEPT ![c] = "closed"]
    /\ resolver' = [resolver EXCEPT ![c] = "leave"]
    /\ UNCHANGED <<unread, room, queue, io, wake, others>>

\* finishConn with none: take the record out, then report the close.
Fail(c) ==
    /\ resolver[c] = "fail"
    /\ IF Listed(c)
       THEN /\ conn' = [conn EXCEPT ![c] = Gone]
            /\ resolver' = [resolver EXCEPT ![c] = "report"]
       ELSE conn' = conn /\ resolver' = [resolver EXCEPT ![c] = "leave"]
    /\ UNCHANGED <<kernel, queue, io, wake, others>>

Report(c) ==
    /\ resolver[c] = "report"
    /\ Push("closed", c)
    /\ resolver' = [resolver EXCEPT ![c] = "leave"]
    /\ UNCHANGED <<conn, kernel, io, wake, others>>

\* The thread's last acts: wake the I/O thread, then count itself out of the
\* workers stop waits for.
Leave(c) ==
    /\ resolver[c] = "leave"
    /\ wake' = TRUE
    /\ resolver' = [resolver EXCEPT ![c] = "none"]
    /\ UNCHANGED <<conn, kernel, queue, io, others>>

Resolve(c) == Dial(c) \/ Attach(c) \/ Fail(c) \/ Report(c) \/ Leave(c)

-------------------------------------------------------------------------------
(* The I/O thread: connects, the poll set and poll                           *)

\* startPending claims a connect before it lets go of the lock.
Claim(c) ==
    /\ io.at = "pending"
    /\ conn[c].state = "resolving" /\ ~conn[c].closing
    /\ conn' = [conn EXCEPT ![c].state = "connecting"]
    /\ io' = [io EXCEPT !.at = "claimed", !.c = c]
    /\ UNCHANGED <<kernel, resolver, queue, wake, others>>

SpawnOk ==
    /\ io.at = "claimed"
    /\ resolver' = [resolver EXCEPT ![io.c] = "dial"]
    /\ io' = [io EXCEPT !.at = "pending", !.c = NoConn]
    /\ UNCHANGED <<conn, kernel, queue, wake, others>>

\* No thread for the resolver: finishConn without a descriptor.
SpawnFails ==
    /\ io.at = "claimed"
    /\ conn' = [conn EXCEPT ![io.c] = Gone]
    /\ io' = [io EXCEPT !.at = "closed", !.back = "pending"]
    /\ UNCHANGED <<kernel, resolver, queue, wake, others>>

NonePending ==
    /\ io.at = "pending"
    /\ \A c \in Conns : conn[c].state = "resolving" => conn[c].closing
    /\ io' = [io EXCEPT !.at = "build", !.back = "service"]
    /\ UNCHANGED <<conn, kernel, resolver, queue, wake, others>>

\* pausedLocked
Paused == Len(queue) >= PauseAt

Polled(c) == Listed(c) /\ conn[c].fd /\ ~conn[c].closing

\* A poll that looks for room to write in while a connect is under way, and not
\* for what a write left.
AskedOnce(c, reads) ==
    IF ~Polled(c) THEN {}
    ELSE {"hup"} \cup (IF reads THEN {"in"} ELSE {})
         \cup (IF conn[c].state = "connecting" THEN {"out"} ELSE {})

Asked(c, reads) ==
    IF ~Polled(c) THEN {}
    ELSE {"hup"} \cup (IF reads THEN {"in"} ELSE {})
         \cup (IF conn[c].state = "connecting" \/ conn[c].out > 0 THEN {"out"} ELSE {})

\* A poll set that never pauses anybody.
BuildUnpaused ==
    /\ io.at = "build"
    /\ io' = [io EXCEPT !.at = "poll", !.poll = [c \in Conns |-> Asked(c, TRUE)]]
    /\ UNCHANGED <<conn, kernel, resolver, queue, wake, others>>

\* buildPollSet
Build ==
    /\ io.at = "build"
    /\ io' = [io EXCEPT !.at = "poll", !.poll = [c \in Conns |-> Asked(c, ~Paused)]]
    /\ UNCHANGED <<conn, kernel, resolver, queue, wake, others>>

\* What poll finds of what was asked.
Found(c) ==
    {r \in io.poll[c] :
        CASE r = "in"  -> unread[c] > 0 \/ sock[c] \in {"fin", "ended"}
          [] r = "out" -> \/ sock[c] \in {"up", "fin"} /\ room[c] > 0
                          \/ sock[c] = "ended"
          [] r = "hup" -> sock[c] = "ended"}

\* poll, which comes back with nothing only when the tick is due.
Poll ==
    /\ io.at = "poll"
    /\ LET found == [c \in Conns |-> Found(c)]
           any == wake \/ \E c \in Conns : found[c] # {}
       IN io' = [io EXCEPT !.poll = found, !.woken = wake,
                           !.at = IF any THEN "drain" ELSE "timers"]
    /\ UNCHANGED <<conn, kernel, resolver, queue, wake, others>>

Drain ==
    /\ io.at = "drain"
    /\ wake' = (wake /\ ~io.woken)
    /\ io' = [io EXCEPT !.at = "service", !.woken = FALSE]
    /\ UNCHANGED <<conn, kernel, resolver, queue, others>>

-------------------------------------------------------------------------------
(* The I/O thread: the sockets poll reported                                 *)

\* Done with io.c, on to the next.
NextSocket == [io EXCEPT !.at = "service", !.poll[io.c] = {}, !.c = NoConn]

\* The rest of serviceOne for connection c, from the given place on: what poll
\* did not report is passed over.
From(place, c) ==
    CASE place = "flush" /\ "out" \in io.poll[c] -> "flush"
      [] place \in {"flush", "recv"} /\ "in" \in io.poll[c]
                         /\ ~(place = "flush" /\ "out" \in io.poll[c]) -> "recv"
      [] OTHER -> "hup"

\* serviceOne's first section: a connection taken out or closing is passed by.
Look(c) ==
    /\ io.at = "service"
    /\ io.poll[c] # {}
    /\ io' = IF Listed(c) /\ ~conn[c].closing
             THEN [io EXCEPT !.c = c, !.back = "service",
                             !.at = IF conn[c].state = "connecting"
                                    THEN "connect" ELSE From("flush", c)]
             ELSE [io EXCEPT !.poll[c] = {}]
    /\ UNCHANGED <<conn, kernel, resolver, queue, wake, others>>

\* closeConn up to its push: out of the list, and the descriptor closed with
\* whatever the kernel still held.
TakeDown(c) ==
    /\ conn' = [conn EXCEPT ![c] = Gone]
    /\ IF conn[c].fd
       THEN /\ sock' = [sock EXCEPT ![c] = "closed"] /\ unread' = [unread EXCEPT ![c] = 0]
            /\ UNCHANGED room
       ELSE UNCHANGED kernel

\* The verdict on a handshake: SO_ERROR, or what poll reported.
Connect ==
    /\ io.at = "connect"
    /\ IF sock[io.c] = "ended"
       THEN TakeDown(io.c) /\ io' = [io EXCEPT !.at = "closed"]
       ELSE /\ conn' = [conn EXCEPT ![io.c].state = "open"]
            /\ io' = [io EXCEPT !.at = "connected"]
            /\ UNCHANGED kernel
    /\ UNCHANGED <<resolver, queue, wake, others>>

\* What writes of c's output take before one would block, or fails.
Written(c) == IF sock[c] \notin {"up", "fin"} THEN 0
              ELSE IF conn[c].out <= room[c] THEN conn[c].out ELSE room[c]

\* flushConn: what was not taken stays, and so does a connection that is broken.
Flush ==
    /\ io.at = "flush"
    /\ conn' = [conn EXCEPT ![io.c].out = @ - Written(io.c)]
    /\ room' = [room EXCEPT ![io.c] = @ - Written(io.c)]
    /\ io' = [io EXCEPT !.at = From("recv", io.c)]
    /\ UNCHANGED <<sock, unread, resolver, queue, wake, others>>

\* One recv: a chunk, or the end of the stream, which takes it down.
Recv ==
    /\ io.at = "recv"
    /\ IF unread[io.c] > 0
       THEN /\ unread' = [unread EXCEPT ![io.c] = @ - 1]
            /\ io' = [io EXCEPT !.at = "data"]
            /\ UNCHANGED <<conn, sock, room>>
       ELSE TakeDown(io.c) /\ io' = [io EXCEPT !.at = "closed"]
    /\ UNCHANGED <<resolver, queue, wake, others>>

\* The push of a chunk read, in a section of its own behind the read.
PushData ==
    /\ io.at = "data"
    /\ Push("data", io.c)
    /\ io' = [io EXCEPT !.at = "hup"]
    /\ UNCHANGED <<conn, kernel, resolver, wake, others>>

\* A hang-up that is reported with the connection left in the list.
HangUpReportOnly ==
    /\ io.at = "hup"
    /\ io' = IF "hup" \in io.poll[io.c] THEN [io EXCEPT !.at = "closed"] ELSE NextSocket
    /\ UNCHANGED <<conn, kernel, resolver, queue, wake, others>>

\* The hang-up or error poll reported beside it, or by itself.
HangUp ==
    /\ io.at = "hup"
    /\ IF "hup" \in io.poll[io.c]
       THEN TakeDown(io.c) /\ io' = [io EXCEPT !.at = "closed"]
       ELSE UNCHANGED <<conn, kernel>> /\ io' = NextSocket
    /\ UNCHANGED <<resolver, queue, wake, others>>

\* The push of an outcome, in a section of its own behind what it reports.
PushOutcome ==
    /\ io.at \in {"connected", "closed"}
    /\ Push(io.at, io.c)
    /\ io' = [NextSocket EXCEPT !.at = io.back]
    /\ UNCHANGED <<conn, kernel, resolver, wake, others>>

Served ==
    /\ io.at = "service"
    /\ \A c \in Conns : io.poll[c] = {}
    /\ io' = [io EXCEPT !.at = "reap"]
    /\ UNCHANGED <<conn, kernel, resolver, queue, wake, others>>

\* reapClosing: closeConn without an event, and it is the only thread to do it.
Reap(c) ==
    /\ io.at = "reap"
    /\ Listed(c) /\ conn[c].closing
    /\ TakeDown(c)
    /\ UNCHANGED <<resolver, queue, io, wake, others>>

Reaped ==
    /\ io.at = "reap"
    /\ \A c \in Conns : Listed(c) => ~conn[c].closing
    /\ io' = [io EXCEPT !.at = "timers"]
    /\ UNCHANGED <<conn, kernel, resolver, queue, wake, others>>

\* fireTimers and fanout, which push whatever the depth of the queue, and the
\* loop's test of stopping behind them.
Tick ==
    /\ io.at = "timers"
    /\ \/ Push("tick", NoConn)
       \/ queue' = queue
    /\ io' = [io EXCEPT !.at = IF broker = "up" THEN "pending" ELSE "gone"]
    /\ UNCHANGED <<conn, kernel, resolver, wake, others>>

IoThread ==
    \/ SpawnOk \/ NonePending \/ Build \/ Poll \/ Drain \/ Connect
    \/ Flush \/ Recv \/ HangUp \/ PushData \/ PushOutcome \/ Served \/ Reaped \/ Tick
    \/ \E c \in Conns : Claim(c) \/ Look(c) \/ Reap(c)

-------------------------------------------------------------------------------
(* stop and deinit, behind the join of every dispatch thread                 *)

Stop ==
    /\ broker = "up"
    /\ broker' = "stopping"
    /\ wake' = TRUE
    /\ UNCHANGED <<conn, kernel, resolver, queue, heard, io>>

JoinIo ==
    /\ broker = "stopping" /\ io.at = "gone"
    /\ broker' = "joined"
    /\ UNCHANGED <<conn, kernel, resolver, queue, heard, io, wake>>

\* awaitWorkers, then the wake pipe is closed.
CloseWake ==
    /\ broker = "joined"
    /\ \A c \in Conns : resolver[c] = "none"
    /\ broker' = "quiet"
    /\ UNCHANGED <<conn, kernel, resolver, queue, heard, io, wake>>

\* deinit closes what is still listed.
Free ==
    /\ broker = "quiet"
    /\ conn' = [c \in Conns |-> Gone]
    /\ sock' = [c \in Conns |-> IF Listed(c) /\ conn[c].fd THEN "closed" ELSE sock[c]]
    /\ queue' = <<>>
    /\ broker' = "freed"
    /\ UNCHANGED <<unread, room, resolver, heard, io, wake>>

Ended == broker = "freed" /\ UNCHANGED vars

Native(c) == Open(c) \/ Send(c) \/ RequestClose(c)
Peer(c) == HandshakeDone(c) \/ PeerSends(c) \/ PeerReads(c) \/ PeerEnds(c)

Next ==
    \/ \E c \in Conns : Native(c) \/ Peer(c) \/ Resolve(c)
    \/ DropPlugin \/ Deliver \/ IoThread \/ SpawnFails
    \/ Stop \/ JoinIo \/ CloseWake \/ Free \/ Ended

Spec == Init /\ [][Next]_vars

\* The I/O thread runs and poll times out with the tick; a resolver comes back
\* (getaddrinfo gives up in the end) and so does a handshake; stop goes on.
Fairness ==
    /\ WF_vars(IoThread)
    /\ \A c \in Conns : WF_vars(Resolve(c)) /\ WF_vars(HandshakeDone(c))
    /\ WF_vars(JoinIo) /\ WF_vars(CloseWake) /\ WF_vars(Free)

FairSpec == Spec /\ Fairness

-------------------------------------------------------------------------------
Events == [kind : {"connected", "data", "closed"}, c : Conns]
          \cup [kind : {"tick"}, c : {NoConn}]

Records == [state : {"unused", "resolving", "connecting", "open", "gone"},
            closing : BOOLEAN, fd : BOOLEAN, out : 0..MaxOut]

TypeOK ==
    /\ conn \in [Conns -> Records]
    /\ sock \in [Conns -> {"none", "handshake", "up", "fin", "ended", "closed"}]
    /\ unread \in [Conns -> 0..MaxUnread]
    /\ room \in [Conns -> 0..MaxRoom]
    /\ resolver \in [Conns -> {"none", "dial", "attach", "fail", "report", "leave"}]
    /\ queue \in Seq(Events) /\ Len(queue) <= MaxQueued
    /\ heard \in [Conns -> {"nothing", "open", "closed"}]
    /\ io \in [at : {"pending", "claimed", "build", "poll", "drain", "service",
                     "connect", "connected", "flush", "recv", "data", "hup", "closed",
                     "reap", "timers", "gone"},
               c : Conns \cup {NoConn}, back : {"service", "pending"},
               woken : BOOLEAN, poll : [Conns -> SUBSET {"in", "out", "hup"}]]
    /\ wake \in BOOLEAN
    /\ broker \in {"up", "stopping", "joined", "quiet", "freed"}

\* What the plugin sees of a connection is in order whatever was dropped on the
\* way: nothing behind its TCP_CLOSED, no TCP_CONNECTED behind anything of it.
EventsInOrder ==
    \A i \in DOMAIN queue : queue[i].c # NoConn =>
        LET c == queue[i].c IN
          /\ heard[c] # "closed"
          /\ queue[i].kind = "connected" => heard[c] = "nothing"
          /\ \A j \in 1..(i - 1) : queue[j].c = c =>
                /\ queue[j].kind # "closed"
                /\ queue[i].kind # "connected"

\* The I/O thread reads and writes no descriptor another thread closed behind
\* its look: the number could be another connection's by then.
NoStaleDescriptor ==
    io.at \in {"connect", "flush", "recv", "hup"} => sock[io.c] # "closed"

\* A descriptor still open is in a record the broker lists, or on its way there
\* in a resolver's hands: a connection closed while it resolves leaks none.
NothingLeaked ==
    \A c \in Conns : sock[c] \in {"handshake", "up", "fin", "ended"} =>
        (Listed(c) /\ conn[c].fd) \/ resolver[c] = "attach"

\* Nobody writes to the wake pipe or into the broker once stop has closed the
\* one and deinit is to free the other.
NobodyAfterStop ==
    broker \in {"quiet", "freed"} =>
        io.at = "gone" /\ \A c \in Conns : resolver[c] = "none"

\* "No data is lost": what sockets contribute to a queue nobody empties stops
\* short of the cap, but for a connect and a close each may still report.
SocketEventsBounded ==
    Cardinality({i \in DOMAIN queue : queue[i].c # NoConn})
        <= PauseAt - 1 + 2 * Cardinality(Conns)

\* "The backlog waits in the kernel buffer ... No data is lost": a connection of
\* a paused plugin is not taken down with chunks of it unread.
PausedLosesNothing ==
    [][\A c \in Conns :
         Paused /\ broker = "up" /\ conn[c].state = "open" /\ ~conn[c].closing
         /\ conn'[c].state = "gone" => unread[c] = 0]_vars

\* "the outcome arrives as TCP_CONNECTED or TCP_CLOSED": no connect stays
\* undecided.
ConnectIsDecided ==
    \A c \in Conns : conn[c].state \in {"resolving", "connecting"}
        ~> conn[c].state \in {"open", "gone"} \/ broker # "up"

\* A connection the plugin closed, or left behind, gives its descriptor back.
CloseIsReaped == \A c \in Conns : conn[c].closing ~> conn[c].state = "gone"

\* What tcp_send took is written in its turn, or the connection ends: while the
\* peer goes on reading no output stands for ever, whatever a write left of it.
SentIsWritten ==
    \A c \in Conns :
        []<>(room[c] > 0) /\ <>[](conn[c].out > 0 /\ broker = "up")
            => []<><<conn'[c].out < conn[c].out>>_vars

\* stop returns, whatever connects are in progress.
StopReturns == broker = "stopping" ~> broker = "freed"

\* A connection is sound whoever ends it: its events queue in order, its
\* descriptor is neither used closed nor leaked, and nobody writes behind stop.
ConnectionIsSound == EventsInOrder /\ NoStaleDescriptor /\ NothingLeaked /\ NobodyAfterStop

\* What is asked of a connection is done: a connect is decided, a close reaped,
\* a send written, and stop returns.
AskedIsDone == ConnectIsDecided /\ CloseIsReaped /\ SentIsWritten /\ StopReturns
===============================================================================
