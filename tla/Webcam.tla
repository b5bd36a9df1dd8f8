------------------------------- MODULE Webcam -------------------------------
(***************************************************************************)
(* The webcam demo: a client (gui/src/webcam.c) sends frames over TCP and  *)
(* gets each one back filtered, either from the board (linux/webcam_demo.c *)
(* with ethernet.c and two filter hardware threads), or from the program   *)
(* that stands in for it (gui/src/receiveSendVideo.c).  peer says which.   *)
(* A TCP connection carries units in order, in chunks of any size; a       *)
(* header is HeaderLen units, a frame Lines units, each <<frame, stage>>.  *)
(* Picture processing is left out but for the stage of each line.          *)
(***************************************************************************)
EXTENDS Integers, Sequences

CONSTANTS Lines, HeaderLen,  \* bounds: units of a frame and of the header
          Window,            \* bound: units on their way in one direction
          MaxFrames,         \* bound: frames that one client sends
          MaxClients         \* bound: clients that come one after the other

ASSUME SizesAssumption ==
  /\ {Lines, HeaderLen, Window, MaxFrames, MaxClients} \subseteq Nat \ {0}

Ends == {"client", "server"}
Other(e) == IF e = "client" THEN "server" ELSE "client"
Stages == <<"raw", "mirrored", "filtered">>
Frame(k, stage) == [l \in 1 .. Lines |-> <<k, stage>>]
Header == [l \in 1 .. HeaderLen |-> <<0, "header">>]

VARIABLES peer,                  \* "board" or "video", chosen once
          link, pending, closed, \* the connection; ends that owe an error report;
                                 \* ends that have closed their socket
          net,                   \* units on their way to each end
          pc, pos,               \* per end: where it is, units moved in this call
          k, clients,            \* the client's frame number; clients so far
          got,                   \* the client's receive buffer
          buffer,                \* the video server's byte_stream
          memory, cache,         \* the board's framebuffer, and its cached lines
          jobs, filter, line,    \* mailboxes; the filters' states and lines,
          flying                 \* and the line that each has on its way to memory

sockets == <<link, pending, closed, net>>
board == <<memory, cache, jobs, filter, line, flying>>
vars == <<peer, sockets, pc, pos, k, clients, got, buffer, board>>

NotCached == [unit |-> <<-1, "raw">>, dirty |-> FALSE]
Filters == {1, 2}
NoLine == [line |-> 0, unit |-> <<-1, "raw">>]

Init ==
  /\ peer \in {"board", "video"}
  /\ link = "none" /\ pending = {} /\ closed = {} /\ net = [e \in Ends |-> <<>>]
  /\ pc = [client |-> "start", server |-> "listen"] /\ pos = [e \in Ends |-> 0]
  /\ k = 1 /\ clients = 0
  /\ got = Frame(0, "raw") /\ buffer = Frame(0, "raw")
  /\ memory = Frame(0, "raw") /\ cache = [l \in 1 .. Lines |-> NotCached]
  /\ jobs = [m \in {"start_1", "start_2", "done"} |-> 0]
  /\ filter = [f \in Filters |-> "get"] /\ line = [f \in Filters |-> 1]
  /\ flying = [f \in Filters |-> NoLine]

-----------------------------------------------------------------------------
(* Sockets: what read and write may return *)

Broken == link = "reset"

\* An end reports the loss once as an error; then a read finds the end of the
\* stream, and a write raises SIGPIPE, which no program here handles.
ReadFails(e) == Broken /\ e \in pending /\ pending' = pending \ {e}
ReadEnds(e) == \/ Broken /\ e \notin pending
               \/ ~Broken /\ Other(e) \in closed /\ net[e] = <<>>
WriteFails(e) == ReadFails(e)
WriteKills(e) == Broken /\ e \notin pending

\* One read of at most n units; each of one write of units from `units`.
Read(e, n, taken) ==
  /\ ~Broken /\ taken \in 1 .. (IF n < Len(net[e]) THEN n ELSE Len(net[e]))
  /\ net' = [net EXCEPT ![e] = SubSeq(@, taken + 1, Len(@))]
  /\ UNCHANGED <<link, pending, closed>>

\* To an end that has closed its socket nothing arrives but a reset comes back.
Write(e, units) ==
  /\ ~Broken
  /\ \/ /\ Other(e) \notin closed /\ Len(units) + Len(net[Other(e)]) <= Window
        /\ net' = [net EXCEPT ![Other(e)] = @ \o units]
        /\ UNCHANGED <<link, pending>>
     \/ /\ Other(e) \in closed
        /\ link' = "reset" /\ pending' = {e} /\ net' = [x \in Ends |-> <<>>]
  /\ UNCHANGED closed

\* The network, or the other machine, drops the connection.
Lose ==
  /\ link = "open"
  /\ link' = "reset" /\ pending' = Ends \ closed /\ net' = [e \in Ends |-> <<>>]
  /\ UNCHANGED <<peer, closed, pc, pos, k, clients, got, buffer, board>>

Close(e) ==
  /\ closed' = closed \cup {e}
  /\ IF closed' = Ends THEN link' = "none" /\ net' = [x \in Ends |-> <<>>] /\ pending' = {}
     ELSE UNCHANGED <<link, net, pending>>

Goto(e, to) == pc' = [pc EXCEPT ![e] = to] /\ pos' = [pos EXCEPT ![e] = 0]

\* tcp_send, tcp_write_2: write until the message is out, then go on at `next`.
SendSome(e, message, next) ==
  \E m \in 1 .. Len(message) - pos[e] :
    /\ Write(e, SubSeq(message, pos[e] + 1, pos[e] + m))
    /\ IF pos[e] + m = Len(message) THEN Goto(e, next)
       ELSE pos' = [pos EXCEPT ![e] = @ + m] /\ UNCHANGED pc

\* tcp_receive, tcp_read_2: m more units of a message of len, then `next`.
ReceiveSome(e, len, m, next) ==
  /\ Read(e, len - pos[e], m)
  /\ IF pos[e] + m = len THEN Goto(e, next)
     ELSE pos' = [pos EXCEPT ![e] = @ + m] /\ UNCHANGED pc

\* A buffer after m units from the network were put behind the first pos[e].
Filled(b, e, m) == [l \in 1 .. Lines |->
                      IF l \in pos[e] + 1 .. pos[e] + m THEN net[e][l - pos[e]] ELSE b[l]]

-----------------------------------------------------------------------------
(* The client: main of gui/src/webcam.c *)

\* The server's half: tcp_accept, or the end of accept_connection.
tcp_accept ==
  /\ pc.server = "accept" /\ link = "none"
  /\ link' = "open" /\ closed' = {} /\ pending' = {}

tcp_connection_create ==
  /\ pc.client = "start" /\ clients < MaxClients
  /\ clients' = clients + 1 /\ k' = 1
  /\ \/ /\ tcp_accept
        /\ pc' = [client |-> "header", server |-> "header"] /\ pos' = [e \in Ends |-> 0]
     \/ /\ pc.server \in {"listen", "ended"}
        /\ Goto("client", "ended") /\ UNCHANGED <<link, closed, pending>>
  /\ UNCHANGED <<peer, net, got, buffer, board>>

netimage_send_header ==
  /\ pc.client = "header"
  /\ \/ SendSome("client", Header, "send")
     \/ WriteFails("client") /\ Goto("client", "exit") /\ UNCHANGED <<link, closed, net>>
     \/ WriteKills("client") /\ Goto("client", "exit") /\ UNCHANGED sockets
  /\ UNCHANGED <<peer, k, clients, got, buffer, board>>

\* The result of tcp_send is not looked at.
SendFrame ==
  /\ pc.client = "send"
  /\ \/ SendSome("client", Frame(k, "raw"), "receive")
     \/ WriteFails("client") /\ Goto("client", "receive") /\ UNCHANGED <<link, closed, net>>
     \/ WriteKills("client") /\ Goto("client", "exit") /\ UNCHANGED sockets
  /\ got' = Frame(0, "raw")                                        \* bzero in tcp_receive
  /\ UNCHANGED <<peer, k, clients, buffer, board>>

\* Nor is that of tcp_receive: what has arrived is shown.
ReceiveFrame ==
  /\ pc.client = "receive"
  /\ \/ \E m \in 1 .. Lines : ReceiveSome("client", Lines, m, "show") /\ got' = Filled(got, "client", m)
     \/ ReadFails("client") /\ Goto("client", "show") /\ UNCHANGED <<link, closed, net, got>>
     \/ ReadEnds("client") /\ Goto("client", "show") /\ UNCHANGED <<sockets, got>>
  /\ UNCHANGED <<peer, k, clients, buffer, board>>

\* Next frame, or 'q' and the end: tcp_connection_destroy.
Show ==
  /\ pc.client = "show"
  /\ \/ k < MaxFrames /\ k' = k + 1 /\ Goto("client", "send") /\ UNCHANGED sockets
     \/ UNCHANGED <<k, sockets>> /\ Goto("client", "exit")
  /\ UNCHANGED <<peer, clients, got, buffer, board>>

\* The end of the process closes its socket, however it comes.
ClientExit ==
  /\ pc.client = "exit"
  /\ Close("client") /\ Goto("client", "ended")
  /\ UNCHANGED <<peer, k, clients, got, buffer, board>>

NextClient ==
  /\ pc.client = "ended" /\ clients < MaxClients /\ Goto("client", "start")
  /\ UNCHANGED <<peer, sockets, k, clients, got, buffer, board>>

-----------------------------------------------------------------------------
(* The video server: main of gui/src/receiveSendVideo.c, started to repeat *)

\* If the port cannot be bound it is exit( 1 ).
tcp_server_create ==
  /\ peer = "video" /\ pc.server = "listen"
  /\ Goto("server", "accept") \/ Goto("server", "ended")
  /\ UNCHANGED <<peer, sockets, k, clients, got, buffer, board>>

\* Without a header the server ends, whoever it was that connected.  A part of
\* one counts as one: the image cannot be created, or anything is.
VideoHeader ==
  /\ peer = "video" /\ pc.server = "header"
  /\ \/ \E m \in 1 .. HeaderLen : ReceiveSome("server", HeaderLen, m, "frame")
     \/ ReadFails("server") /\ Goto("server", "break") /\ UNCHANGED <<link, closed, net>>
     \/ /\ ReadEnds("server")
        /\ Goto("server", "break") \/ (pos["server"] > 0 /\ Goto("server", "frame"))
        /\ UNCHANGED sockets
  /\ buffer' = Frame(0, "raw")
  /\ UNCHANGED <<peer, k, clients, got, board>>

\* Mutant: at the end of the stream a part of a frame is waited for for ever.
VideoReceiveWaits ==
  /\ peer = "video" /\ pc.server = "frame"
  /\ \E m \in 1 .. Lines : ReceiveSome("server", Lines, m, "convert") /\ buffer' = Filled(buffer, "server", m)
  /\ UNCHANGED <<peer, k, clients, got, board>>

\* tcp_receive returns what it has at the end of the stream: with a part of a
\* frame the server goes on.
VideoReceive ==
  /\ peer = "video" /\ pc.server = "frame"
  /\ \/ \E m \in 1 .. Lines : ReceiveSome("server", Lines, m, "convert") /\ buffer' = Filled(buffer, "server", m)
     \/ ReadFails("server") /\ Goto("server", "destroy") /\ UNCHANGED <<link, closed, net, buffer>>
     \/ /\ ReadEnds("server") /\ UNCHANGED <<sockets, buffer>>
        /\ Goto("server", IF pos["server"] > 0 THEN "convert" ELSE "destroy")
  /\ UNCHANGED <<peer, k, clients, got, board>>

\* The filter; a pressed 'q' does not keep the frame from being sent back.
Convert ==
  /\ pc.server = "convert"
  /\ buffer' = [l \in 1 .. Lines |-> <<buffer[l][1], "filtered">>]
  /\ Goto("server", "reply")
  /\ UNCHANGED <<peer, sockets, k, clients, got, board>>

VideoReply ==
  /\ peer = "video" /\ pc.server = "reply"
  /\ \/ SendSome("server", buffer, "frame") \/ SendSome("server", buffer, "destroy")
     \/ WriteFails("server") /\ Goto("server", "destroy") /\ UNCHANGED <<link, closed, net>>
     \/ WriteKills("server") /\ Goto("server", "break") /\ UNCHANGED sockets
  /\ buffer' = IF pc'["server"] = "frame" THEN Frame(0, "raw") ELSE buffer
  /\ UNCHANGED <<peer, k, clients, got, board>>

VideoDestroy ==
  /\ pc.server \in {"destroy", "break"}
  /\ Close("server")
  /\ Goto("server", IF pc.server = "destroy" THEN "accept" ELSE "ended")
  /\ UNCHANGED <<peer, k, clients, got, buffer, board>>

-----------------------------------------------------------------------------
(* The board: linux/webcam_demo.c and ethernet.c *)

\* Until the port can be bound establish_connection is called again.
accept_connection ==
  /\ peer = "board" /\ pc.server = "listen"
  /\ Goto("server", "accept")
  /\ UNCHANGED <<peer, sockets, k, clients, got, buffer, board>>

\* recv_header.  tcp_read_2 takes the end of the stream for a read of no bytes
\* and reads again for ever; after an error establish_connection is called again,
\* but the port is still bound, and bind fails for ever.
BoardHeader ==
  /\ peer = "board" /\ pc.server = "header"
  /\ \/ \E m \in 1 .. HeaderLen : ReceiveSome("server", HeaderLen, m, "frame")
     \/ ReadFails("server") /\ Goto("server", "rebind") /\ UNCHANGED <<link, closed, net>>
     \/ ReadEnds("server") /\ Goto("server", "spin") /\ UNCHANGED sockets
  /\ UNCHANGED <<peer, k, clients, got, buffer, board>>

\* read_frame, through the cache.  An error is ignored, the old frame goes on.
ReadFrame ==
  /\ peer = "board" /\ pc.server = "frame"
  /\ \/ \E m \in 1 .. Lines :
          /\ ReceiveSome("server", Lines, m, "flush")
          /\ cache' = [l \in 1 .. Lines |->
                         IF l \in pos["server"] + 1 .. pos["server"] + m
                         THEN [unit |-> net["server"][l - pos["server"]], dirty |-> TRUE]
                         ELSE cache[l]]
     \/ ReadFails("server") /\ Goto("server", "flush") /\ UNCHANGED <<link, closed, net, cache>>
     \/ ReadEnds("server") /\ Goto("server", "spin") /\ UNCHANGED <<sockets, cache>>
  /\ UNCHANGED <<peer, k, clients, got, buffer, memory, jobs, filter, line, flying>>

Dirty(l) == cache[l] # NotCached /\ cache[l].dirty
WrittenBack(lines) == [l \in 1 .. Lines |-> IF l \in lines /\ Dirty(l) THEN cache[l].unit ELSE memory[l]]

\* The cache replaces lines when it likes.
Evict ==
  \E l \in 1 .. Lines :
    /\ cache[l] # NotCached
    /\ memory' = WrittenBack({l}) /\ cache' = [cache EXCEPT ![l] = NotCached]
    /\ UNCHANGED <<peer, sockets, pc, pos, k, clients, got, buffer, jobs, filter, line, flying>>

\* Mutant: cache_flush is not called before the filters start.
FlushSkipped ==
  /\ pc.server = "flush"
  /\ jobs' = [jobs EXCEPT !.start_1 = @ + 1]
  /\ Goto("server", "wait")
  /\ UNCHANGED <<peer, sockets, k, clients, got, buffer, memory, cache, filter, line, flying>>

\* cache_flush and mbox_put.
FlushAndStart ==
  /\ pc.server = "flush"
  /\ memory' = WrittenBack(1 .. Lines) /\ cache' = [l \in 1 .. Lines |-> NotCached]
  /\ jobs' = [jobs EXCEPT !.start_1 = @ + 1]
  /\ Goto("server", "wait")
  /\ UNCHANGED <<peer, sockets, k, clients, got, buffer, filter, line, flying>>

\* mbox_get and cache_flush.
Filtered ==
  /\ pc.server = "wait" /\ jobs.done > 0
  /\ jobs' = [jobs EXCEPT !.done = @ - 1]
  /\ memory' = WrittenBack(1 .. Lines) /\ cache' = [l \in 1 .. Lines |-> NotCached]
  /\ Goto("server", "reply")
  /\ UNCHANGED <<peer, sockets, k, clients, got, buffer, filter, line, flying>>

\* write_frame: what the processor sees of the frame buffer; errors are ignored.
Seen == [l \in 1 .. Lines |-> IF cache[l] = NotCached THEN memory[l] ELSE cache[l].unit]
WriteFrame ==
  /\ peer = "board" /\ pc.server = "reply"
  /\ \/ SendSome("server", Seen, "frame")
     \/ WriteFails("server") /\ Goto("server", "frame") /\ UNCHANGED <<link, closed, net>>
     \/ WriteKills("server") /\ Goto("server", "break") /\ UNCHANGED sockets
  /\ cache' = [l \in 1 .. Lines |-> IF cache[l] = NotCached THEN [unit |-> memory[l], dirty |-> FALSE] ELSE cache[l]]
  /\ UNCHANGED <<peer, k, clients, got, buffer, memory, jobs, filter, line, flying>>

\* A filter takes a job, loads and stores line after line in main memory, and
\* passes the job on.
From == <<"start_1", "start_2">>

\* Mutant: the second filter has the first one's mailboxes.
ToTwice == <<"start_2", "start_2">>

To == <<"start_2", "done">>

FilterGet(f) ==
  /\ filter[f] = "get" /\ jobs[From[f]] > 0
  /\ jobs' = [jobs EXCEPT ![From[f]] = @ - 1]
  /\ filter' = [filter EXCEPT ![f] = "line"] /\ line' = [line EXCEPT ![f] = 1]
  /\ UNCHANGED <<peer, sockets, pc, pos, k, clients, got, buffer, memory, cache, flying>>

\* memif_read asks behind the words that the line before has in the FIFO; and
\* memif_write is done with the last word in the FIFO, the line on its way.
FilterLine(f) ==
  /\ filter[f] = "line" /\ flying[f].line = 0
  /\ LET l == line[f]
         u == memory[l]
     IN  flying' = [flying EXCEPT ![f] =
                      [line |-> l, unit |-> <<u[1], IF u[2] = Stages[f] THEN Stages[f + 1] ELSE "spoilt">>]]
  /\ line' = [line EXCEPT ![f] = @ + 1]
  /\ filter' = [filter EXCEPT ![f] = IF line[f] = Lines THEN "ack" ELSE "line"]
  /\ UNCHANGED <<peer, sockets, pc, pos, k, clients, got, buffer, memory, cache, jobs>>

\* Arbiter, MMU and memory controller carry the words out.
Arrive(f) ==
  /\ flying[f].line > 0
  /\ memory' = [memory EXCEPT ![flying[f].line] = flying[f].unit]
  /\ flying' = [flying EXCEPT ![f] = NoLine]
  /\ UNCHANGED <<peer, sockets, pc, pos, k, clients, got, buffer, cache, jobs, filter, line>>

FilterAck(f) ==
  /\ filter[f] = "ack"
  /\ jobs' = [jobs EXCEPT ![To[f]] = @ + 1]
  /\ filter' = [filter EXCEPT ![f] = "get"]
  /\ UNCHANGED <<peer, sockets, pc, pos, k, clients, got, buffer, memory, cache, line, flying>>

-----------------------------------------------------------------------------
Client == \/ tcp_connection_create \/ netimage_send_header \/ SendFrame
          \/ ReceiveFrame \/ Show \/ ClientExit \/ NextClient
VideoServer == VideoHeader \/ VideoReceive \/ Convert \/ VideoReply \/ VideoDestroy
ethernet_function == BoardHeader \/ ReadFrame \/ FlushAndStart \/ Filtered \/ WriteFrame
HwFilter(f) == FilterGet(f) \/ FilterLine(f) \/ FilterAck(f)

Next == \/ Client \/ tcp_server_create \/ accept_connection \/ VideoServer \/ ethernet_function
        \/ \E f \in Filters : HwFilter(f) \/ Arrive(f)
        \/ Lose \/ Evict

Spec == Init /\ [][Next]_vars

\* The programs run and the hardware, the way to memory included, does not stop;
\* nobody has to quit, to lose the connection or to evict a line.
FairSpec ==
  /\ Spec
  /\ WF_vars(Client) /\ WF_vars(VideoServer) /\ WF_vars(ethernet_function)
  /\ \A f \in Filters : WF_vars(HwFilter(f) \/ Arrive(f))

-----------------------------------------------------------------------------
(* Properties *)

\* The premise of what follows: a filter's last line is in memory before the job
\* leaves the mailbox.  Nothing in the code waits for that: the mailbox word goes
\* through two delegates or a delegate and a thread, the line through the arbiter.
LandsFirst ==
  \A f \in Filters : flying[f].line > 0 => filter[f] \in {"line", "ack"} \/ jobs[To[f]] > 0

\* What the client shows after it sent frame k is frame k, every line filtered
\* once by each filter, unless the connection was lost or ended: no message is
\* taken apart at the wrong place, and neither cache nor memory holds an old line.
ShowsFrame ==
  pc.client = "show" /\ link = "open" /\ "server" \notin closed => got = Frame(k, "filtered")
FrameReturned == []LandsFirst => []ShowsFrame

\* Every frame comes back, unless the connection is lost or closed.
FrameComesBack ==
  pc.client = "send" ~> (pc.client \in {"show", "exit", "ended"} \/ Broken)

\* The video server waits for the next client after every one that has gone, or
\* it has ended.  (The board does not: see BoardHeader and ReadFrame.)
ServesAgain ==
  peer = "video" /\ pc.client = "exit" ~> (pc.server \in {"accept", "ended"} \/ pc.client = "header")

=============================================================================
