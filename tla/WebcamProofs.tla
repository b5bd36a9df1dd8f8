---------------------------- MODULE WebcamProofs ----------------------------
(***************************************************************************)
(* For any frames, headers and windows, and any number of frames and       *)
(* clients: what the client shows is the frame it sent, filtered, if every *)
(* line is in memory before its job leaves the mailbox.  The inductive     *)
(* invariant says where the frame is while the connection lives.           *)
(***************************************************************************)
EXTENDS Webcam, SequenceTheorems, TLAPS

\* There is a header, and a frame has lines.
LEMMA Sizes == Lines \in Nat /\ Lines > 0 /\ HeaderLen \in Nat /\ HeaderLen > 0
BY SizesAssumption

USE Sizes

\* What a line or a piece of the header can be.
Marks == {"header", "raw", "mirrored", "filtered", "spoilt"}
Units == Int \X Marks
Mailboxes == {"start_1", "start_2", "done"}
Cached == [unit : Units, dirty : BOOLEAN]
OnTheWay == [line : Nat, unit : Units]
Spots == {"start", "header", "send", "receive", "show", "exit", "ended", "listen", "accept", "frame", "reply",
          "break", "flush", "wait", "rebind", "spin", "convert", "destroy"}

Typed ==
  /\ pc \in [Ends -> Spots] /\ pos \in [Ends -> Nat]
  /\ net \in [Ends -> Seq(Units)]
  /\ k \in Nat
  /\ got \in [1 .. Lines -> Units] /\ buffer \in [1 .. Lines -> Units]
  /\ memory \in [1 .. Lines -> Units] /\ cache \in [1 .. Lines -> Cached]
  /\ jobs \in [Mailboxes -> Nat]
  /\ filter \in [Filters -> {"get", "line", "ack"}] /\ line \in [Filters -> Nat]
  /\ \A f \in Filters : filter[f] = "line" => line[f] \in 1 .. Lines
  /\ flying \in [Filters -> OnTheWay]

\* Each program is at one of its own places.
Places ==
  /\ pc["client"] \in {"start", "header", "send", "receive", "show", "exit", "ended"}
  /\ pc["server"] \in {"listen", "accept", "header", "frame", "reply", "break", "ended"}
                      \cup (IF peer = "board" THEN {"flush", "wait", "rebind", "spin"} ELSE {"convert", "destroy"})
  /\ peer \in {"board", "video"}

\* An end without a connection, or that has closed its socket, uses none.
Apart ==
  /\ closed \subseteq Ends
  /\ "client" \in closed => pc["client"] \in {"start", "ended"}
  /\ "server" \in closed => pc["server"] \in {"accept", "ended"}
  /\ link = "none" => /\ pc["client"] \in {"start", "ended"}
                      /\ pc["server"] \in {"listen", "accept", "ended"}
                      /\ \A e \in Ends : net[e] = <<>>
  /\ pc["client"] \in {"start", "ended"} => link = "none" \/ "client" \in closed

\* The board's job is in one mailbox or with one filter while the program waits.
Busy(f) == IF filter[f] = "get" THEN 0 ELSE 1
OneJob ==
  jobs["start_1"] + Busy(1) + jobs["start_2"] + Busy(2) + jobs["done"] = IF pc["server"] = "wait" THEN 1 ELSE 0

-----------------------------------------------------------------------------
\* Units of the header and of frame k that the client has written and the server read.
Sent ==
  IF pc["client"] = "header" THEN pos["client"]
  ELSE IF pc["client"] = "send" THEN HeaderLen + pos["client"]
  ELSE HeaderLen + Lines
Taken == IF pc["server"] = "header" THEN pos["server"] ELSE HeaderLen + pos["server"]

\* A line of the frame where the server has it.
Held(l) == IF Dirty(l) THEN cache[l].unit ELSE memory[l]
Stored(l) == IF peer = "board" THEN Held(l) ELSE buffer[l]

\* The frame is on its way to the server,
Asking ==
  /\ pc["client"] \in {"header", "send", "receive"} /\ pc["server"] \in {"header", "frame"}
  /\ pc["client"] = "receive" => pos["client"] = 0
  /\ pc["client"] = "header" => pos["client"] < HeaderLen
  /\ pc["client"] = "send" => pos["client"] < Lines
  /\ IF pc["server"] = "header" THEN pos["server"] < HeaderLen ELSE pos["server"] < Lines
  /\ net["client"] = <<>>
  /\ Len(net["server"]) = Sent - Taken
  /\ \A i \in 1 .. Len(net["server"]) : Taken + i > HeaderLen => net["server"][i] = <<k, "raw">>
  /\ pc["server"] = "frame" => \A l \in 1 .. pos["server"] : Stored(l) = <<k, "raw">>

\* A line as it is in memory when what is on its way has arrived.
Landed(l) == IF flying[1].line = l THEN flying[1].unit
             ELSE IF flying[2].line = l THEN flying[2].unit ELSE memory[l]

\* goes through the filters,
Filtering ==
  /\ jobs["start_1"] = 1 => \A l \in 1 .. Lines : Landed(l) = <<k, "raw">>
  /\ filter[1] = "line" =>
       \A l \in 1 .. Lines : Landed(l) = <<k, IF l < line[1] THEN "mirrored" ELSE "raw">>
  /\ filter[1] = "ack" \/ jobs["start_2"] = 1 => \A l \in 1 .. Lines : Landed(l) = <<k, "mirrored">>
  /\ filter[2] = "line" =>
       \A l \in 1 .. Lines : Landed(l) = <<k, IF l < line[2] THEN "filtered" ELSE "mirrored">>
  /\ filter[2] = "ack" \/ jobs["done"] = 1 => \A l \in 1 .. Lines : Landed(l) = <<k, "filtered">>

Working ==
  /\ pc["client"] = "receive" /\ pos["client"] = 0
  /\ net["client"] = <<>> /\ net["server"] = <<>>
  /\ \/ pc["server"] \in {"convert", "flush"} /\ \A l \in 1 .. Lines : Stored(l) = <<k, "raw">>
     \/ pc["server"] = "wait" /\ Filtering /\ \A l \in 1 .. Lines : cache[l] = NotCached

\* comes back,
Coming ==
  /\ pc["client"] = "receive" /\ net["server"] = <<>>
  /\ pos["client"] < Lines
  /\ \A i \in 1 .. Len(net["client"]) : net["client"][i] = <<k, "filtered">>
  /\ \A l \in 1 .. pos["client"] : got[l] = <<k, "filtered">>

Answering ==
  /\ pc["server"] = "reply" /\ pos["server"] < Lines
  /\ Coming /\ pos["client"] + Len(net["client"]) = pos["server"]
  /\ IF peer = "board"
     THEN \A l \in 1 .. Lines :
            /\ memory[l] = <<k, "filtered">>
            /\ cache[l] # NotCached => cache[l] = [unit |-> memory[l], dirty |-> FALSE]
     ELSE \A l \in 1 .. Lines : buffer[l] = <<k, "filtered">>

\* is there;
Answered ==
  /\ pc["server"] \in {"frame", "destroy"} /\ pos["server"] = 0
  /\ \/ Coming /\ pos["client"] + Len(net["client"]) = Lines
     \/ /\ pc["client"] = "show"
        /\ net["client"] = <<>> /\ net["server"] = <<>>
        /\ got = Frame(k, "filtered")

\* or the server takes no more, or the client is going.
Leaving ==
  \/ /\ pc["server"] = "destroy" /\ pc["client"] \in {"send", "receive"}
     /\ net["client"] = <<>>
     /\ pos["client"] < Lines
     /\ pc["client"] = "receive" => pos["client"] = 0
  \/ pc["client"] = "exit"

Live == link = "open" /\ closed = {}
\* While the connection lives the frame is in one of these places.
Round == Live => Asking \/ Working \/ Answering \/ Answered \/ Leaving

IInv == Typed /\ Places /\ Apart /\ OneJob /\ Round

-----------------------------------------------------------------------------
\* A frame, like the header, is a message of as many units.
LEMMA Messages ==
  ASSUME NEW n \in Nat, NEW m \in [1 .. n -> Units]
  PROVE  m \in Seq(Units) /\ Len(m) = n
<1>1. m \in Seq(Units)
  BY SeqDef
<1>2. DOMAIN m = 1 .. n /\ DOMAIN m = 1 .. Len(m) /\ Len(m) \in Nat
  BY <1>1, LenProperties
<1> QED
  BY <1>1, <1>2

\* The constants of the model are units.
LEMMA FrameTyped ==
  ASSUME NEW f \in Int, NEW stage \in Marks
  PROVE  Frame(f, stage) \in [1 .. Lines -> Units]
BY DEF Frame, Units

LEMMA HeaderTyped ==
  Header \in Seq(Units) /\ Len(Header) = HeaderLen
<1>1. <<0, "header">> \in Units
  BY DEF Units, Marks
<1>2. Header \in [1 .. HeaderLen -> Units]
  BY <1>1 DEF Header
<1> QED
  BY <1>2, Messages

\* A piece of a message.
LEMMA Chunk ==
  ASSUME NEW s \in Seq(Units), NEW p \in Nat, NEW m \in Nat \ {0}, p + m <= Len(s)
  PROVE  /\ SubSeq(s, p + 1, p + m) \in Seq(Units) /\ Len(SubSeq(s, p + 1, p + m)) = m
         /\ \A i \in 1 .. m : SubSeq(s, p + 1, p + m)[i] = s[p + i]
<1> DEFINE a == p + 1
           b == p + m
<1>1. a \in Int /\ b \in Int /\ a <= b /\ b - a + 1 = m /\ (\A i \in 1 .. m : a + i - 1 = p + i)
      /\ \A i \in a .. b : i \in 1 .. Len(s)
  OBVIOUS
<1>2. \A i \in a .. b : s[i] \in Units
  BY <1>1, ElementOfSeq
<1> HIDE DEF a, b
<1>3. /\ SubSeq(s, a, b) \in Seq(Units)
      /\ Len(SubSeq(s, a, b)) = b - a + 1
      /\ \A i \in 1 .. b - a + 1 : SubSeq(s, a, b)[i] = s[a + i - 1]
  BY <1>1, <1>2, SubSeqProperties
<1>4. SubSeq(s, a, b) \in Seq(Units) /\ Len(SubSeq(s, a, b)) = m /\ \A i \in 1 .. m : SubSeq(s, a, b)[i] = s[p + i]
  BY <1>1, <1>3
<1> QED
  BY <1>4 DEF a, b

\* What is left of one after m units,
LEMMA Rest ==
  ASSUME NEW s \in Seq(Units), NEW m \in 1 .. Len(s)
  PROVE  /\ SubSeq(s, m + 1, Len(s)) \in Seq(Units) /\ Len(SubSeq(s, m + 1, Len(s))) = Len(s) - m
         /\ \A i \in 1 .. Len(s) - m : SubSeq(s, m + 1, Len(s))[i] = s[i + m]
<1>1. Len(s) \in Nat
  OBVIOUS
<1>2. CASE m < Len(s)
  <2> DEFINE n == Len(s) - m
  <2>1. n \in Nat \ {0} /\ m + n = Len(s) /\ m \in Nat
    BY <1>1, <1>2
  <2> HIDE DEF n
  <2>2. /\ SubSeq(s, m + 1, m + n) \in Seq(Units) /\ Len(SubSeq(s, m + 1, m + n)) = n
        /\ \A i \in 1 .. n : SubSeq(s, m + 1, m + n)[i] = s[m + i]
    BY <2>1, Chunk
  <2>3. \A i \in 1 .. n : m + i = i + m
    BY <2>1
  <2>4. /\ SubSeq(s, m + 1, Len(s)) \in Seq(Units) /\ Len(SubSeq(s, m + 1, Len(s))) = n
        /\ \A i \in 1 .. n : SubSeq(s, m + 1, Len(s))[i] = s[i + m]
    BY <2>1, <2>2, <2>3
  <2> QED
    BY <2>4 DEF n
<1>3. CASE m = Len(s)
  <2>1. SubSeq(s, m + 1, Len(s)) = <<>>
    BY <1>1, <1>3, SubSeqEmpty
  <2> QED
    BY <1>1, <1>3, <2>1, EmptySeq
<1> QED
  BY <1>1, <1>2, <1>3

\* or of two.
LEMMA Joined ==
  ASSUME NEW s \in Seq(Units), NEW u \in Seq(Units)
  PROVE  /\ s \o u \in Seq(Units) /\ Len(s \o u) = Len(s) + Len(u)
         /\ \A i \in 1 .. Len(s) : (s \o u)[i] = s[i]
         /\ \A i \in 1 .. Len(u) : (s \o u)[Len(s) + i] = u[i]
BY ConcatProperties

\* m units leave the front of what is on its way to e,
Took(e, m) ==
  /\ m \in 1 .. Len(net[e])
  /\ Len(net'[e]) = Len(net[e]) - m
  /\ \A i \in 1 .. Len(net[e]) - m : net'[e][i] = net[e][i + m]
  /\ net'[Other(e)] = net[Other(e)]

\* or m units of a message are put behind what is on its way to the other end.
Gave(e, message, m) ==
  /\ Len(net'[Other(e)]) = Len(net[Other(e)]) + m
  /\ \A i \in 1 .. Len(net[Other(e)]) : net'[Other(e)][i] = net[Other(e)][i]
  /\ \A i \in 1 .. m : net'[Other(e)][Len(net[Other(e)]) + i] = message[pos[e] + i]
  /\ net'[e] = net[e]

\* The call goes on after m units, or is over after len of them.
Went(e, m, len, next) ==
  IF pos[e] + m = len THEN Goto(e, next) ELSE pos' = [pos EXCEPT ![e] = @ + m] /\ UNCHANGED pc

\* What is received leaves the network, in order.
LEMMA ReceiveTakes ==
  ASSUME Typed, NEW e \in Ends, NEW len \in Nat, NEW m \in Nat, NEW next, ReceiveSome(e, len, m, next)
  PROVE  /\ Took(e, m) /\ m \in 1 .. len - pos[e] /\ Went(e, m, len, next)
         /\ net' \in [Ends -> Seq(Units)]
         /\ link' = link /\ closed' = closed
<1>1. m \in 1 .. (IF len - pos[e] < Len(net[e]) THEN len - pos[e] ELSE Len(net[e]))
      /\ net' = [net EXCEPT ![e] = SubSeq(@, m + 1, Len(@))] /\ link' = link /\ closed' = closed
      /\ Went(e, m, len, next)
  BY DEF ReceiveSome, Read, Went
<1>2. net[e] \in Seq(Units) /\ Len(net[e]) \in Nat /\ pos[e] \in Nat /\ net \in [Ends -> Seq(Units)]
      /\ Other(e) \in Ends /\ Other(e) # e
  BY DEF Typed, Ends, Other
<1>3. SubSeq(net[e], m + 1, Len(net[e])) \in Seq(Units)
      /\ Len(SubSeq(net[e], m + 1, Len(net[e]))) = Len(net[e]) - m
      /\ \A i \in 1 .. Len(net[e]) - m : SubSeq(net[e], m + 1, Len(net[e]))[i] = net[e][i + m]
  BY <1>1, <1>2, Rest
<1> QED
  BY <1>1, <1>2, <1>3 DEF Took

\* What is sent arrives, unless the connection is or gets lost.
LEMMA SendGives ==
  ASSUME Typed, NEW e \in Ends, NEW message \in Seq(Units), NEW next, SendSome(e, message, next)
  PROVE  /\ net' \in [Ends -> Seq(Units)] /\ closed' = closed
         /\ \E m \in 1 .. Len(message) - pos[e] :
              /\ Went(e, m, Len(message), next)
              /\ Live' => Gave(e, message, m) /\ link' = link
<1>1. PICK m \in 1 .. Len(message) - pos[e] :
        Write(e, SubSeq(message, pos[e] + 1, pos[e] + m)) /\ Went(e, m, Len(message), next)
  BY DEF SendSome, Went
<1> DEFINE chunk == SubSeq(message, pos[e] + 1, pos[e] + m)
<1>2. pos[e] \in Nat /\ net \in [Ends -> Seq(Units)] /\ Other(e) \in Ends /\ Other(e) # e /\ Len(message) \in Nat
  BY DEF Typed, Ends, Other
<1>3. chunk \in Seq(Units) /\ Len(chunk) = m /\ \A i \in 1 .. m : chunk[i] = message[pos[e] + i]
  <2>1. m \in Nat \ {0} /\ pos[e] + m <= Len(message)
    BY <1>2
  <2> QED
    BY <1>2, <2>1, Chunk
<1> HIDE DEF chunk
<1>4. closed' = closed
  BY <1>1 DEF Write
<1>5. CASE Other(e) \notin closed /\ net' = [net EXCEPT ![Other(e)] = @ \o chunk] /\ link' = link
  <2>1. /\ net[Other(e)] \o chunk \in Seq(Units)
        /\ Len(net[Other(e)] \o chunk) = Len(net[Other(e)]) + m
        /\ \A i \in 1 .. Len(net[Other(e)]) : (net[Other(e)] \o chunk)[i] = net[Other(e)][i]
        /\ \A i \in 1 .. m : (net[Other(e)] \o chunk)[Len(net[Other(e)]) + i] = chunk[i]
    <3>1. net[Other(e)] \in Seq(Units)
      BY <1>2
    <3> QED
      BY <1>3, <3>1, Joined
  <2>2. Gave(e, message, m)
    BY <1>2, <1>3, <1>5, <2>1 DEF Gave
  <2> QED
    BY <1>1, <1>2, <1>4, <1>5, <2>1, <2>2
<1>6. CASE Other(e) \in closed /\ net' = [x \in Ends |-> <<>>]
  <2>1. ~Live'
    BY <1>4, <1>6 DEF Live
  <2>2. <<>> \in Seq(Units)
    OBVIOUS
  <2> QED
    BY <1>1, <1>4, <1>6, <2>1, <2>2
<1> QED
  BY <1>1, <1>5, <1>6 DEF Write, chunk

-----------------------------------------------------------------------------
(* Types *)

\* Types over the socket calls.
LEMMA WentTyped ==
  ASSUME Typed, NEW e \in Ends, NEW m \in Nat, NEW len, NEW next \in Spots, Went(e, m, len, next)
  PROVE  pc' \in [Ends -> Spots] /\ pos' \in [Ends -> Nat]
<1>1. CASE Goto(e, next)
  BY <1>1 DEF Typed, Goto
<1>2. CASE pos' = [pos EXCEPT ![e] = @ + m] /\ pc' = pc
  BY <1>2 DEF Typed
<1> QED
  BY <1>1, <1>2 DEF Went

LEMMA SendTyped ==
  ASSUME Typed, NEW e \in Ends, NEW message \in Seq(Units), NEW next \in Spots, SendSome(e, message, next)
  PROVE  pc' \in [Ends -> Spots] /\ pos' \in [Ends -> Nat] /\ net' \in [Ends -> Seq(Units)]
<1>1. PICK m \in 1 .. Len(message) - pos[e] : Went(e, m, Len(message), next)
  BY SendGives
<1>2. m \in Nat /\ net' \in [Ends -> Seq(Units)]
  BY SendGives
<1> QED
  BY <1>1, <1>2, WentTyped

LEMMA ReceiveTyped ==
  ASSUME Typed, NEW e \in Ends, NEW len \in Nat, NEW m \in Nat, NEW next \in Spots, ReceiveSome(e, len, m, next)
  PROVE  pc' \in [Ends -> Spots] /\ pos' \in [Ends -> Nat] /\ net' \in [Ends -> Seq(Units)]
BY ReceiveTakes, WentTyped

LEMMA FilledTyped ==
  ASSUME Typed, NEW b \in [1 .. Lines -> Units], NEW e \in Ends, NEW m \in Nat, m <= Len(net[e])
  PROVE  Filled(b, e, m) \in [1 .. Lines -> Units]
<1>1. ASSUME NEW l \in 1 .. Lines, l \in pos[e] + 1 .. pos[e] + m PROVE net[e][l - pos[e]] \in Units
  <2>1. pos[e] \in Nat /\ net[e] \in Seq(Units)
    BY DEF Typed
  <2>2. l - pos[e] \in 1 .. Len(net[e])
    BY <1>1, <2>1
  <2> QED
    BY <2>1, <2>2, ElementOfSeq
<1> QED
  BY <1>1 DEF Filled

LEMMA GotoTyped ==
  ASSUME Typed, NEW e \in Ends, NEW to \in Spots, Goto(e, to)
  PROVE  pc' \in [Ends -> Spots] /\ pos' \in [Ends -> Nat]
BY DEF Typed, Goto

\* What a closed or lost connection carries is nothing.
LEMMA CloseTyped ==
  ASSUME Typed, NEW e \in Ends, Close(e)
  PROVE  net' \in [Ends -> Seq(Units)]
<1>1. [x \in Ends |-> <<>>] \in [Ends -> Seq(Units)]
  OBVIOUS
<1> QED
  BY <1>1 DEF Close, Typed

\* Types over the client's steps,
LEMMA ClientTyped ==
  ASSUME Typed, Client
  PROVE  Typed'
<1> USE DEF board, sockets
<1>0. "client" \in Ends /\ "server" \in Ends
  BY DEF Ends
<1>1. CASE tcp_connection_create
  <2>1. pos' \in [Ends -> Nat] /\ pc' \in [Ends -> Spots]
    BY <1>1 DEF tcp_connection_create, Typed, Goto, Ends, Spots
  <2> QED
    BY <1>1, <2>1 DEF tcp_connection_create, Typed
<1>2. CASE netimage_send_header
  <2>1. CASE SendSome("client", Header, "send")
    BY <1>0, <1>2, <2>1, HeaderTyped, SendTyped DEF netimage_send_header, Typed, Spots
  <2>2. CASE Goto("client", "exit") /\ net' = net
    BY <1>0, <1>2, <2>2, GotoTyped DEF netimage_send_header, Typed, Spots
  <2> QED
    BY <1>2, <2>1, <2>2 DEF netimage_send_header
<1>3. CASE SendFrame
  <2>1. got' \in [1 .. Lines -> Units]
    BY <1>3, FrameTyped DEF SendFrame, Marks
  <2>2. CASE SendSome("client", Frame(k, "raw"), "receive")
    <3>1. Frame(k, "raw") \in Seq(Units)
      BY FrameTyped, Messages DEF Typed, Marks
    <3> QED
      BY <1>0, <1>3, <2>1, <2>2, <3>1, SendTyped DEF SendFrame, Typed, Spots
  <2>3. CASE (Goto("client", "receive") \/ Goto("client", "exit")) /\ net' = net
    BY <1>0, <1>3, <2>1, <2>3, GotoTyped DEF SendFrame, Typed, Spots
  <2> QED
    BY <1>3, <2>2, <2>3 DEF SendFrame
<1>4. CASE ReceiveFrame
  <2>1. ASSUME NEW m \in 1 .. Lines, ReceiveSome("client", Lines, m, "show"), got' = Filled(got, "client", m) PROVE Typed'
    <3>1. Took("client", m) /\ Went("client", m, Lines, "show") /\ net' \in [Ends -> Seq(Units)]
      BY <1>0, <2>1, ReceiveTakes
    <3>2. got' \in [1 .. Lines -> Units]
      <4>1. m \in Nat /\ m <= Len(net["client"]) /\ got \in [1 .. Lines -> Units]
        BY <3>1 DEF Took, Typed
      <4> QED
        BY <1>0, <2>1, <4>1, FilledTyped
    <3> QED
      BY <1>0, <1>4, <3>1, <3>2, WentTyped, SMTT(30) DEF ReceiveFrame, Typed, Spots
  <2>2. CASE Goto("client", "show") /\ net' = net /\ got' = got
    BY <1>0, <1>4, <2>2, GotoTyped DEF ReceiveFrame, Typed, Spots
  <2> QED
    BY <1>4, <2>1, <2>2 DEF ReceiveFrame
<1>5. CASE Show
  BY <1>0, <1>5, GotoTyped, SMTT(30) DEF Show, Typed, Spots
<1>6. CASE ClientExit
  BY <1>0, <1>6, GotoTyped, CloseTyped DEF ClientExit, Typed, Spots
<1>7. CASE NextClient
  BY <1>0, <1>7, GotoTyped DEF NextClient, Typed, Spots
<1> QED
  BY <1>1, <1>2, <1>3, <1>4, <1>5, <1>6, <1>7 DEF Client

\* over the video server's,
LEMMA VideoTyped ==
  ASSUME Typed, VideoServer
  PROVE  Typed'
<1> USE DEF board, sockets
<1>0. "client" \in Ends /\ "server" \in Ends
  BY DEF Ends
<1>1. CASE VideoHeader
  <2>1. buffer' \in [1 .. Lines -> Units]
    BY <1>1, FrameTyped DEF VideoHeader, Marks
  <2>2. ASSUME NEW m \in 1 .. HeaderLen, ReceiveSome("server", HeaderLen, m, "frame") PROVE Typed'
    BY <1>0, <1>1, <2>1, <2>2, ReceiveTyped, SMTT(30) DEF VideoHeader, Typed, Spots
  <2>3. CASE (Goto("server", "break") \/ Goto("server", "frame")) /\ net' = net
    BY <1>0, <1>1, <2>1, <2>3, GotoTyped DEF VideoHeader, Typed, Spots
  <2> QED
    BY <1>1, <2>2, <2>3 DEF VideoHeader
<1>2. CASE VideoReceive
  <2>1. ASSUME NEW m \in 1 .. Lines, ReceiveSome("server", Lines, m, "convert"), buffer' = Filled(buffer, "server", m)
        PROVE Typed'
    <3>1. Took("server", m) /\ Went("server", m, Lines, "convert") /\ net' \in [Ends -> Seq(Units)]
      BY <1>0, <2>1, ReceiveTakes
    <3>2. buffer' \in [1 .. Lines -> Units]
      <4>1. m \in Nat /\ m <= Len(net["server"]) /\ buffer \in [1 .. Lines -> Units]
        BY <3>1 DEF Took, Typed
      <4> QED
        BY <1>0, <2>1, <4>1, FilledTyped
    <3> QED
      <4>1. pc' \in [Ends -> Spots] /\ pos' \in [Ends -> Nat]
        BY <1>0, <3>1, WentTyped DEF Spots
      <4> QED
        BY <1>2, <3>1, <3>2, <4>1 DEF VideoReceive, Typed
  <2>2. CASE (Goto("server", "convert") \/ Goto("server", "destroy")) /\ net' = net /\ buffer' = buffer
    BY <1>0, <1>2, <2>2, GotoTyped DEF VideoReceive, Typed, Spots
  <2> QED
    BY <1>2, <2>1, <2>2 DEF VideoReceive
<1>3. CASE Convert
  <2>1. buffer' \in [1 .. Lines -> Units]
    BY <1>3 DEF Convert, Typed, Units, Marks
  <2> QED
    BY <1>0, <1>3, <2>1, GotoTyped DEF Convert, Typed, Spots
<1>4. CASE VideoReply
  <2>1. buffer' \in [1 .. Lines -> Units]
    BY <1>4, FrameTyped DEF VideoReply, Typed, Marks
  <2>2. ASSUME NEW next \in {"frame", "destroy"}, SendSome("server", buffer, next) PROVE Typed'
    <3>1. buffer \in Seq(Units) /\ next \in Spots
      BY Messages DEF Typed, Spots
    <3> QED
      BY <1>0, <1>4, <2>1, <2>2, <3>1, SendTyped DEF VideoReply, Typed
  <2>3. CASE (Goto("server", "destroy") \/ Goto("server", "break")) /\ net' = net
    BY <1>0, <1>4, <2>1, <2>3, GotoTyped DEF VideoReply, Typed, Spots
  <2> QED
    BY <1>4, <2>2, <2>3 DEF VideoReply
<1>5. CASE VideoDestroy
  BY <1>0, <1>5, GotoTyped, CloseTyped DEF VideoDestroy, Typed, Spots
<1> QED
  BY <1>1, <1>2, <1>3, <1>4, <1>5 DEF VideoServer

LEMMA LineTyped ==
  ASSUME Typed
  PROVE  /\ NotCached \in Cached
         /\ \A lines : WrittenBack(lines) \in [1 .. Lines -> Units]
<1>1. <<-1, "raw">> \in Units
  BY DEF Units, Marks
<1>2. NotCached \in Cached
  BY <1>1 DEF NotCached, Cached
<1>3. \A l \in 1 .. Lines : cache[l].unit \in Units
  BY DEF Typed, Cached
<1> QED
  BY <1>2, <1>3 DEF WrittenBack, Typed

\* over the board's
LEMMA BoardTyped ==
  ASSUME Typed, ethernet_function
  PROVE  Typed'
<1> USE DEF board, sockets
<1>0. "client" \in Ends /\ "server" \in Ends
  BY DEF Ends
<1>1. CASE BoardHeader
  <2>1. ASSUME NEW m \in 1 .. HeaderLen, ReceiveSome("server", HeaderLen, m, "frame") PROVE Typed'
    <3>1. pc' \in [Ends -> Spots] /\ pos' \in [Ends -> Nat] /\ net' \in [Ends -> Seq(Units)]
      <4>1. m \in Nat /\ "frame" \in Spots
        BY DEF Spots
      <4> QED
        BY <1>0, <2>1, <4>1, ReceiveTyped
    <3> QED
      BY <1>1, <3>1 DEF BoardHeader, Typed
  <2>2. CASE (Goto("server", "rebind") \/ Goto("server", "spin")) /\ net' = net
    BY <1>0, <1>1, <2>2, GotoTyped DEF BoardHeader, Typed, Spots
  <2> QED
    BY <1>1, <2>1, <2>2 DEF BoardHeader
<1>2. CASE ReadFrame
  <2>1. ASSUME NEW m \in 1 .. Lines, ReceiveSome("server", Lines, m, "flush"),
               cache' = [l \in 1 .. Lines |->
                           IF l \in pos["server"] + 1 .. pos["server"] + m
                           THEN [unit |-> net["server"][l - pos["server"]], dirty |-> TRUE]
                           ELSE cache[l]]
        PROVE Typed'
    <3>4. m \in Nat
      OBVIOUS
    <3>1. Took("server", m) /\ Went("server", m, Lines, "flush") /\ net' \in [Ends -> Seq(Units)]
      BY <1>0, <2>1, <3>4, ReceiveTakes
    <3>2. ASSUME NEW l \in 1 .. Lines, l \in pos["server"] + 1 .. pos["server"] + m
          PROVE  [unit |-> net["server"][l - pos["server"]], dirty |-> TRUE] \in Cached
      <4>1. pos["server"] \in Nat /\ net["server"] \in Seq(Units) /\ m <= Len(net["server"])
        BY <1>0, <3>1 DEF Took, Typed
      <4>2. l - pos["server"] \in 1 .. Len(net["server"])
        BY <3>2, <4>1
      <4>3. net["server"][l - pos["server"]] \in Units
        BY <4>1, <4>2, ElementOfSeq
      <4> QED
        BY <4>3 DEF Cached
    <3>3. cache' \in [1 .. Lines -> Cached]
      BY <2>1, <3>2 DEF Typed
    <3> QED
      BY <1>0, <1>2, <3>1, <3>3, WentTyped, SMTT(30) DEF ReadFrame, Typed, Spots
  <2>2. CASE (Goto("server", "flush") \/ Goto("server", "spin")) /\ net' = net /\ cache' = cache
    BY <1>0, <1>2, <2>2, GotoTyped DEF ReadFrame, Typed, Spots
  <2> QED
    BY <1>2, <2>1, <2>2 DEF ReadFrame
<1>3. CASE FlushAndStart
  <2>1. memory' \in [1 .. Lines -> Units] /\ cache' \in [1 .. Lines -> Cached]
    BY <1>3, LineTyped DEF FlushAndStart
  <2>2. jobs' \in [Mailboxes -> Nat]
    <3>1. jobs' = [jobs EXCEPT !["start_1"] = jobs["start_1"] + 1]
      BY <1>3 DEF FlushAndStart
    <3>2. jobs["start_1"] + 1 \in Nat
      BY DEF Typed, Mailboxes
    <3> QED
      BY <3>1, <3>2 DEF Typed
  <2> QED
    BY <1>0, <1>3, <2>1, <2>2, GotoTyped DEF FlushAndStart, Typed, Spots
<1>4. CASE Filtered
  <2>1. memory' \in [1 .. Lines -> Units] /\ cache' \in [1 .. Lines -> Cached]
    BY <1>4, LineTyped DEF Filtered
  <2>2. jobs' \in [Mailboxes -> Nat]
    <3>1. jobs' = [jobs EXCEPT !["done"] = jobs["done"] - 1] /\ jobs["done"] > 0
      BY <1>4 DEF Filtered
    <3>2. jobs["done"] - 1 \in Nat
      BY <3>1 DEF Typed, Mailboxes
    <3> QED
      BY <3>1, <3>2 DEF Typed
  <2> QED
    BY <1>0, <1>4, <2>1, <2>2, GotoTyped DEF Filtered, Typed, Spots
<1>5. CASE WriteFrame
  <2>1. cache' \in [1 .. Lines -> Cached]
    BY <1>5 DEF WriteFrame, Typed, Cached
  <2>2. Seen \in Seq(Units)
    <3>1. Seen \in [1 .. Lines -> Units]
      BY DEF Seen, Typed, Cached
    <3> QED
      BY <3>1, Messages
  <2>3. CASE SendSome("server", Seen, "frame")
    BY <1>0, <1>5, <2>1, <2>2, <2>3, SendTyped DEF WriteFrame, Typed, Spots
  <2>4. CASE (Goto("server", "frame") \/ Goto("server", "break")) /\ net' = net
    BY <1>0, <1>5, <2>1, <2>4, GotoTyped DEF WriteFrame, Typed, Spots
  <2> QED
    BY <1>5, <2>3, <2>4 DEF WriteFrame
<1> QED
  BY <1>1, <1>2, <1>3, <1>4, <1>5 DEF ethernet_function

\* and the filters'.
LEMMA FilterTyped ==
  ASSUME Typed, NEW f \in Filters, HwFilter(f)
  PROVE  Typed'
<1> USE DEF sockets
<1>1. From[f] \in Mailboxes /\ To[f] \in Mailboxes
  BY DEF From, To, Filters, Mailboxes
<1>2. CASE FilterGet(f)
  <2>1. jobs' \in [Mailboxes -> Nat]
    BY <1>1, <1>2 DEF FilterGet, Typed
  <2>2. filter' \in [Filters -> {"get", "line", "ack"}] /\ line' \in [Filters -> Nat]
        /\ \A g \in Filters : filter'[g] = "line" => line'[g] \in 1 .. Lines
    BY <1>2 DEF FilterGet, Typed
  <2> QED
    BY <1>2, <2>1, <2>2 DEF FilterGet, Typed
<1>3. CASE FilterLine(f)
  <2>1. flying' \in [Filters -> OnTheWay]
    <3> DEFINE sent == [line |-> line[f],
                        unit |-> <<memory[line[f]][1],
                                   IF memory[line[f]][2] = Stages[f] THEN Stages[f + 1] ELSE "spoilt">>]
    <3>1. line[f] \in 1 .. Lines
      BY <1>3 DEF FilterLine, Typed
    <3>2. sent \in OnTheWay
      <4>1. memory[line[f]] \in Units
        BY <3>1 DEF Typed
      <4>2. <<memory[line[f]][1], IF memory[line[f]][2] = Stages[f] THEN Stages[f + 1] ELSE "spoilt">> \in Units
        BY <4>1 DEF Units, Marks, Stages, Filters
      <4> QED
        BY <3>1, <4>2 DEF OnTheWay
    <3>3. flying' = [flying EXCEPT ![f] = sent]
      BY <1>3 DEF FilterLine
    <3> HIDE DEF sent
    <3> QED
      BY <3>2, <3>3 DEF Typed
  <2>2. filter' \in [Filters -> {"get", "line", "ack"}] /\ line' \in [Filters -> Nat]
        /\ \A g \in Filters : filter'[g] = "line" => line'[g] \in 1 .. Lines
    BY <1>3 DEF FilterLine, Typed
  <2> QED
    BY <1>3, <2>1, <2>2 DEF FilterLine, Typed
<1>4. CASE FilterAck(f)
  <2>1. jobs' \in [Mailboxes -> Nat]
    BY <1>1, <1>4 DEF FilterAck, Typed
  <2> QED
    BY <1>4, <2>1 DEF FilterAck, Typed
<1> QED
  BY <1>2, <1>3, <1>4 DEF HwFilter

\* A line that arrives is a unit.
LEMMA ArriveTyped ==
  ASSUME Typed, NEW f \in Filters, Arrive(f)
  PROVE  Typed'
<1>1. flying[f].unit \in Units /\ NoLine \in OnTheWay
  BY DEF Typed, OnTheWay, NoLine, Units, Marks
<1>2. memory' \in [1 .. Lines -> Units] /\ flying' \in [Filters -> OnTheWay]
  BY <1>1 DEF Arrive, Typed
<1> QED
  BY <1>2 DEF Arrive, Typed, sockets

\* So over all.
LEMMA TypedStep ==
  ASSUME Typed, [Next]_vars
  PROVE  Typed'
<1> USE DEF board, sockets
<1>0. "client" \in Ends /\ "server" \in Ends
  BY DEF Ends
<1>1. CASE tcp_server_create \/ accept_connection
  BY <1>0, <1>1, GotoTyped DEF tcp_server_create, accept_connection, Typed, Spots
<1>2. CASE Lose
  <2>1. net' \in [Ends -> Seq(Units)]
    BY <1>2 DEF Lose
  <2> QED
    BY <1>2, <2>1 DEF Lose, Typed
<1>3. CASE Evict
  BY <1>3, LineTyped DEF Evict, Typed
<1>4. CASE UNCHANGED vars
  BY <1>4 DEF vars, Typed
<1> QED
  BY <1>1, <1>2, <1>3, <1>4, ClientTyped, VideoTyped, BoardTyped, FilterTyped, ArriveTyped DEF Next

-----------------------------------------------------------------------------
(* Places, sockets and jobs *)

Side == Places /\ Apart /\ OneJob

\* A send leaves the sockets as they are or resets the connection.
LEMMA SendKeeps ==
  ASSUME NEW e, NEW message, NEW next, SendSome(e, message, next)
  PROVE  /\ closed' = closed /\ (link' = link \/ link' = "reset")
         /\ Goto(e, next) \/ pc' = pc
BY DEF SendSome, Write

LEMMA ReceiveKeeps ==
  ASSUME NEW e, NEW len, NEW m, NEW next, ReceiveSome(e, len, m, next)
  PROVE  /\ closed' = closed /\ link' = link
         /\ Goto(e, next) \/ pc' = pc
BY DEF ReceiveSome, Read

\* An end that is in the middle of its work goes on with it.
LEMMA ApartKept ==
  ASSUME Typed, Places, Apart, NEW e \in Ends, NEW to \in Spots, closed' = closed, link' = link \/ link' = "reset",
         pc[e] \notin {"start", "ended", "listen", "accept"}, to \notin {"start", "ended", "listen", "accept"},
         Goto(e, to) \/ pc' = pc
  PROVE  Apart'
<1>1. link # "none" /\ e \notin closed /\ link' # "none"
  BY DEF Apart, Ends
<1>2. e \in {"client", "server"} /\ pc \in [Ends -> Spots]
  BY DEF Ends, Typed
<1>3. /\ closed' \subseteq Ends
      /\ "client" \in closed' => pc'["client"] \in {"start", "ended"}
      /\ "server" \in closed' => pc'["server"] \in {"accept", "ended"}
  BY <1>1, <1>2 DEF Apart, Goto, Ends
<1>4. pc'["client"] \in {"start", "ended"} => "client" \in closed'
  BY <1>1, <1>2 DEF Apart, Goto, Ends
<1> QED
  BY <1>1, <1>3, <1>4 DEF Apart

\* A step of one end keeps both at their places.
LEMMA PlacesClient ==
  ASSUME Typed, Places, NEW to \in {"start", "header", "send", "receive", "show", "exit", "ended"},
         Goto("client", to) \/ pc' = pc, peer' = peer
  PROVE  Places' /\ pc'["server"] = pc["server"]
BY DEF Typed, Places, Goto, Ends

LEMMA PlacesServer ==
  ASSUME Typed, Places, peer' = peer, NEW to, Goto("server", to) \/ pc' = pc,
         to \in {"listen", "accept", "header", "frame", "reply", "break", "ended"}
                \cup (IF peer = "board" THEN {"flush", "wait", "rebind", "spin"} ELSE {"convert", "destroy"})
  PROVE  Places'
<1>1. pc'["client"] = pc["client"] /\ (pc'["server"] = pc["server"] \/ pc'["server"] = to)
  BY DEF Typed, Goto, Ends
<1> QED
  BY <1>1 DEF Places

\* A step that leaves the mailboxes and the filters alone keeps the job where it is.
LEMMA OneJobKept ==
  ASSUME OneJob, jobs' = jobs, filter' = filter, pc'["server"] = "wait" <=> pc["server"] = "wait"
  PROVE  OneJob'
BY DEF OneJob, Busy

\* Places and the job over the client's steps,
LEMMA ClientSide ==
  ASSUME Typed, Side, Client
  PROVE  Side'
<1> USE DEF board, sockets
<1>0. "client" \in Ends /\ "server" \in Ends
  BY DEF Ends
<1>1. CASE tcp_connection_create
  <2>1. CASE tcp_accept /\ pc' = [client |-> "header", server |-> "header"]
    <3>1. pc'["client"] = "header" /\ pc'["server"] = "header"
      BY <2>1
    <3>2. Places'
      BY <1>1, <3>1 DEF tcp_connection_create, Places, Side
    <3>3. Apart'
      BY <2>1, <3>1 DEF tcp_accept, Apart
    <3>4. OneJob'
      BY <1>1, <2>1, <3>1, OneJobKept DEF tcp_connection_create, tcp_accept, Side
    <3> QED
      BY <3>2, <3>3, <3>4 DEF Side
  <2>2. CASE Goto("client", "ended") /\ UNCHANGED <<link, closed, pending>>
    <3>1. pc["client"] = "start" /\ pc'["client"] = "ended" /\ pc'["server"] = pc["server"]
      BY <1>0, <1>1, <2>2 DEF tcp_connection_create, Goto, Typed
    <3>2. Places' /\ Apart'
      BY <1>1, <2>2, <3>1 DEF tcp_connection_create, Places, Apart, Side
    <3>3. OneJob'
      BY <1>1, <3>1, OneJobKept DEF tcp_connection_create, Side
    <3> QED
      BY <3>2, <3>3 DEF Side
  <2> QED
    BY <1>1, <2>1, <2>2 DEF tcp_connection_create
<1>2. ASSUME NEW to \in {"send", "receive", "show", "exit"}, Goto("client", to) \/ pc' = pc,
             closed' = closed, link' = link \/ link' = "reset", UNCHANGED <<peer, jobs, filter>>,
             pc["client"] \in {"header", "send", "receive", "show"}
      PROVE  Side'
  <2>1. Places' /\ pc'["server"] = pc["server"]
    BY <1>2, PlacesClient DEF Side
  <2>2. Apart'
    <3>1. to \in Spots /\ to \notin {"start", "ended", "listen", "accept"}
      BY <1>2 DEF Spots
    <3> QED
      BY <1>0, <1>2, <3>1, ApartKept DEF Side
  <2>3. OneJob'
    BY <1>2, <2>1, OneJobKept DEF Side
  <2> QED
    BY <2>1, <2>2, <2>3 DEF Side
<1>3. CASE netimage_send_header
  <2>1. closed' = closed /\ (link' = link \/ link' = "reset")
        /\ \E to \in {"send", "exit"} : Goto("client", to) \/ pc' = pc
    BY <1>3, SendKeeps DEF netimage_send_header
  <2> QED
    BY <1>2, <1>3, <2>1 DEF netimage_send_header
<1>4. CASE SendFrame
  <2>1. closed' = closed /\ (link' = link \/ link' = "reset")
        /\ \E to \in {"receive", "exit"} : Goto("client", to) \/ pc' = pc
    BY <1>4, SendKeeps DEF SendFrame
  <2> QED
    BY <1>2, <1>4, <2>1 DEF SendFrame
<1>5. CASE ReceiveFrame
  <2>1. closed' = closed /\ link' = link /\ (Goto("client", "show") \/ pc' = pc)
    BY <1>5, ReceiveKeeps DEF ReceiveFrame
  <2> QED
    BY <1>2, <1>5, <2>1 DEF ReceiveFrame
<1>6. CASE Show
  BY <1>2, <1>6 DEF Show
<1>7. CASE ClientExit
  <2>1. Places' /\ pc'["server"] = pc["server"] /\ pc["client"] = "exit" /\ pc'["client"] = "ended"
    BY <1>0, <1>7, PlacesClient DEF ClientExit, Side, Goto, Typed
  <2>2. Apart'
    <3>1. closed' = closed \cup {"client"} /\ closed' \subseteq Ends
      BY <1>0, <1>7 DEF ClientExit, Close, Apart, Side
    <3>2. "server" \in closed => pc["server"] \in {"accept", "ended"}
      BY DEF Apart, Side
    <3>3. CASE closed' = Ends
      BY <1>0, <1>7, <2>1, <3>1, <3>2, <3>3 DEF ClientExit, Close, Apart
    <3>4. CASE closed' # Ends
      <4>1. link' = link /\ link # "none"
        BY <1>7, <2>1, <3>4 DEF ClientExit, Close, Apart, Side
      <4> QED
        BY <2>1, <3>1, <3>2, <4>1 DEF Apart
    <3> QED
      BY <3>3, <3>4
  <2>3. OneJob'
    BY <1>7, <2>1, OneJobKept DEF ClientExit, Side
  <2> QED
    BY <2>1, <2>2, <2>3 DEF Side
<1>8. CASE NextClient
  <2>1. Places' /\ pc'["server"] = pc["server"] /\ pc["client"] = "ended" /\ pc'["client"] = "start"
    BY <1>0, <1>8, PlacesClient DEF NextClient, Side, Goto, Typed
  <2>2. Apart'
    BY <1>8, <2>1 DEF NextClient, Side, Apart
  <2>3. OneJob'
    BY <1>8, <2>1, OneJobKept DEF NextClient, Side
  <2> QED
    BY <2>1, <2>2, <2>3 DEF Side
<1> QED
  BY <1>1, <1>3, <1>4, <1>5, <1>6, <1>7, <1>8 DEF Client

\* The server's steps within a connection.
LEMMA ServerKept ==
  ASSUME Typed, Side, NEW to \in Spots, Goto("server", to) \/ pc' = pc, peer' = peer,
         closed' = closed, link' = link \/ link' = "reset",
         pc["server"] \notin {"listen", "accept", "ended"}, to \notin {"start", "listen", "accept", "ended"},
         to \in {"header", "frame", "reply", "break"}
                \cup (IF peer = "board" THEN {"flush", "wait", "rebind", "spin"} ELSE {"convert", "destroy"})
  PROVE  Places' /\ Apart' /\ pc'["server"] \in {pc["server"], to}
<1>1. Places'
  BY PlacesServer DEF Side
<1>2. Apart'
  <2>1. "server" \in Ends /\ pc["server"] # "start"
    BY DEF Ends, Side, Places
  <2> QED
    BY <2>1, ApartKept DEF Side
<1>3. pc'["server"] \in {pc["server"], to}
  BY DEF Goto, Typed, Ends
<1> QED
  BY <1>1, <1>2, <1>3

\* over the video server's
LEMMA VideoSide ==
  ASSUME Typed, Side, VideoServer
  PROVE  Side'
<1> USE DEF board, sockets
<1>1. ASSUME NEW to \in {"frame", "reply", "break", "convert", "destroy"}, Goto("server", to) \/ pc' = pc,
             closed' = closed, link' = link \/ link' = "reset", UNCHANGED <<peer, jobs, filter>>,
             pc["server"] \in {"header", "frame", "convert", "reply"}, peer = "video"
      PROVE  Side'
  <2>1. Places' /\ Apart' /\ pc'["server"] \in {pc["server"], to}
    BY <1>1, ServerKept DEF Spots
  <2>2. OneJob'
    BY <1>1, <2>1, OneJobKept DEF Side
  <2> QED
    BY <2>1, <2>2 DEF Side
<1>2. CASE VideoHeader
  <2>1. closed' = closed /\ link' = link
        /\ \E to \in {"frame", "break"} : Goto("server", to) \/ pc' = pc
    BY <1>2, ReceiveKeeps DEF VideoHeader
  <2> QED
    BY <1>1, <1>2, <2>1 DEF VideoHeader
<1>3. CASE VideoReceive
  <2>1. closed' = closed /\ link' = link
        /\ \E to \in {"convert", "destroy"} : Goto("server", to) \/ pc' = pc
    BY <1>3, ReceiveKeeps DEF VideoReceive
  <2> QED
    BY <1>1, <1>3, <2>1 DEF VideoReceive
<1>4. CASE Convert
  <2>1. peer = "video"
    BY <1>4 DEF Convert, Side, Places
  <2> QED
    BY <1>1, <1>4, <2>1 DEF Convert
<1>5. CASE VideoReply
  <2>1. closed' = closed /\ (link' = link \/ link' = "reset")
        /\ \E to \in {"frame", "destroy", "break"} : Goto("server", to) \/ pc' = pc
    BY <1>5, SendKeeps DEF VideoReply
  <2> QED
    BY <1>1, <1>5, <2>1 DEF VideoReply
<1>6. CASE VideoDestroy
  <2>1. PICK to \in {"accept", "ended"} : Goto("server", to)
    BY <1>6 DEF VideoDestroy
  <2>2. Places' /\ pc["server"] \in {"destroy", "break"} /\ pc'["client"] = pc["client"] /\ pc'["server"] = to
    BY <1>6, <2>1, PlacesServer DEF VideoDestroy, Side, Goto, Typed, Ends
  <2>3. Apart'
    <3>1. closed' = closed \cup {"server"} /\ closed' \subseteq Ends
      BY <1>6 DEF VideoDestroy, Close, Apart, Side, Ends
    <3>2. "client" \in closed => pc["client"] \in {"start", "ended"}
      BY DEF Apart, Side
    <3>3. CASE closed' = Ends
      <4>1. "client" \in closed
        BY <3>1, <3>3 DEF Ends
      <4>2. link' = "none" /\ net' = [x \in Ends |-> <<>>]
        BY <1>6, <3>1, <3>3 DEF VideoDestroy, Close
      <4> QED
        BY <2>2, <3>1, <3>2, <4>1, <4>2 DEF Apart
    <3>4. CASE closed' # Ends
      <4>1. link' = link /\ link # "none"
        BY <1>6, <2>2, <3>4 DEF VideoDestroy, Close, Apart, Side
      <4> QED
        BY <2>2, <3>1, <3>2, <4>1 DEF Apart, Side
    <3> QED
      BY <3>3, <3>4
  <2>4. OneJob'
    BY <1>6, <2>2, OneJobKept DEF VideoDestroy, Side
  <2> QED
    BY <2>2, <2>3, <2>4 DEF Side
<1> QED
  BY <1>2, <1>3, <1>4, <1>5, <1>6 DEF VideoServer

\* and over the board's.
LEMMA BoardSide ==
  ASSUME Typed, Side, ethernet_function
  PROVE  Side'
<1> USE DEF board, sockets
<1>1. ASSUME NEW to \in {"frame", "flush", "rebind", "spin", "break"}, Goto("server", to) \/ pc' = pc,
             closed' = closed, link' = link \/ link' = "reset", UNCHANGED <<peer, jobs, filter>>,
             pc["server"] \in {"header", "frame", "reply"}, peer = "board"
      PROVE  Side'
  <2>1. Places' /\ Apart' /\ pc'["server"] \in {pc["server"], to}
    BY <1>1, ServerKept DEF Spots
  <2>2. OneJob'
    BY <1>1, <2>1, OneJobKept DEF Side
  <2> QED
    BY <2>1, <2>2 DEF Side
<1>2. CASE BoardHeader
  <2>1. closed' = closed /\ link' = link
        /\ \E to \in {"frame", "rebind", "spin"} : Goto("server", to) \/ pc' = pc
    BY <1>2, ReceiveKeeps DEF BoardHeader
  <2> QED
    BY <1>1, <1>2, <2>1 DEF BoardHeader
<1>3. CASE ReadFrame
  <2>1. closed' = closed /\ link' = link
        /\ \E to \in {"flush", "spin"} : Goto("server", to) \/ pc' = pc
    BY <1>3, ReceiveKeeps DEF ReadFrame
  <2> QED
    BY <1>1, <1>3, <2>1 DEF ReadFrame
<1>4. CASE WriteFrame
  <2>1. closed' = closed /\ (link' = link \/ link' = "reset")
        /\ \E to \in {"frame", "break"} : Goto("server", to) \/ pc' = pc
    BY <1>4, SendKeeps DEF WriteFrame
  <2> QED
    BY <1>1, <1>4, <2>1 DEF WriteFrame
<1>5. CASE FlushAndStart
  <2>1. peer = "board" /\ pc["server"] = "flush" /\ Goto("server", "wait")
    BY <1>5 DEF FlushAndStart, Side, Places
  <2>2. Places' /\ Apart'
    BY <1>5, <2>1, ServerKept DEF FlushAndStart, Spots
  <2>3. pc'["server"] = "wait"
    BY <2>1 DEF Goto, Typed, Ends
  <2>4. /\ jobs'["start_1"] = jobs["start_1"] + 1 /\ jobs'["start_2"] = jobs["start_2"] /\ jobs'["done"] = jobs["done"]
        /\ filter' = filter
    BY <1>5 DEF FlushAndStart, Typed, Mailboxes
  <2>5. OneJob'
    <3>1. Busy(1)' = Busy(1) /\ Busy(2)' = Busy(2) /\ Busy(1) \in Nat /\ Busy(2) \in Nat
      BY <2>4 DEF Busy
    <3>2. jobs["start_1"] \in Nat /\ jobs["start_2"] \in Nat /\ jobs["done"] \in Nat
      BY DEF Typed, Mailboxes
    <3>3. jobs["start_1"] + Busy(1) + jobs["start_2"] + Busy(2) + jobs["done"] = 0
      BY <2>1 DEF OneJob, Side
    <3> QED
      BY <2>3, <2>4, <3>1, <3>2, <3>3 DEF OneJob
  <2> QED
    BY <2>2, <2>5 DEF Side
<1>6. CASE Filtered
  <2>1. peer = "board" /\ pc["server"] = "wait" /\ Goto("server", "reply")
    BY <1>6 DEF Filtered, Side, Places
  <2>2. Places' /\ Apart'
    BY <1>6, <2>1, ServerKept DEF Filtered, Spots
  <2>3. pc'["server"] = "reply"
    BY <2>1 DEF Goto, Typed, Ends
  <2>4. /\ jobs'["start_1"] = jobs["start_1"] /\ jobs'["start_2"] = jobs["start_2"] /\ jobs'["done"] = jobs["done"] - 1
        /\ filter' = filter
    BY <1>6 DEF Filtered, Typed, Mailboxes
  <2>5. OneJob'
    BY <2>1, <2>3, <2>4, SMTT(30) DEF OneJob, Busy, Side, Typed, Mailboxes
  <2> QED
    BY <2>2, <2>5 DEF Side
<1> QED
  BY <1>2, <1>3, <1>4, <1>5, <1>6 DEF ethernet_function

\* A filter's step passes the job on.
LEMMA JobPassed ==
  ASSUME Typed, OneJob, NEW f \in Filters, HwFilter(f), pc' = pc
  PROVE  OneJob'
<1>1. /\ jobs["start_1"] \in Nat /\ jobs["start_2"] \in Nat /\ jobs["done"] \in Nat
      /\ DOMAIN jobs = Mailboxes /\ filter \in [Filters -> {"get", "line", "ack"}] /\ f \in {1, 2}
  BY DEF Typed, Mailboxes, Filters
<1>2. CASE FilterGet(f)
  <2>1. CASE f = 1
    BY <1>1, <1>2, <2>1 DEF FilterGet, From, OneJob, Busy, Mailboxes, Filters
  <2>2. CASE f = 2
    BY <1>1, <1>2, <2>2 DEF FilterGet, From, OneJob, Busy, Mailboxes, Filters
  <2> QED
    BY <1>1, <2>1, <2>2
<1>3. CASE FilterLine(f)
  BY <1>1, <1>3 DEF FilterLine, OneJob, Busy, Filters
<1>4. CASE FilterAck(f)
  <2>1. CASE f = 1
    <3>1. /\ jobs'["start_1"] = jobs["start_1"] /\ jobs'["start_2"] = jobs["start_2"] + 1 /\ jobs'["done"] = jobs["done"]
          /\ filter[1] = "ack" /\ filter'[1] = "get" /\ filter'[2] = filter[2]
      BY <1>1, <1>4, <2>1 DEF FilterAck, To, Mailboxes, Filters
    <3> QED
      BY <1>1, <3>1 DEF OneJob, Busy
  <2>2. CASE f = 2
    <3>1. /\ jobs'["start_1"] = jobs["start_1"] /\ jobs'["start_2"] = jobs["start_2"] /\ jobs'["done"] = jobs["done"] + 1
          /\ filter[2] = "ack" /\ filter'[2] = "get" /\ filter'[1] = filter[1]
      BY <1>1, <1>4, <2>2 DEF FilterAck, To, Mailboxes, Filters
    <3> QED
      BY <1>1, <3>1 DEF OneJob, Busy
  <2> QED
    BY <1>1, <2>1, <2>2
<1> QED
  BY <1>2, <1>3, <1>4 DEF HwFilter

\* So over all.
LEMMA SideStep ==
  ASSUME Typed, Side, [Next]_vars
  PROVE  Side'
<1> USE DEF board, sockets
<1>1. CASE tcp_server_create \/ accept_connection
  <2>1. PICK to \in {"accept", "ended"} : Goto("server", to)
    BY <1>1 DEF tcp_server_create, accept_connection
  <2>2. Places' /\ pc["server"] = "listen" /\ pc'["client"] = pc["client"] /\ pc'["server"] = to
    BY <1>1, <2>1, PlacesServer DEF tcp_server_create, accept_connection, Side, Goto, Typed, Ends
  <2>3. Apart'
    BY <1>1, <2>2 DEF tcp_server_create, accept_connection, Side, Apart
  <2>4. OneJob'
    BY <1>1, <2>2, OneJobKept DEF tcp_server_create, accept_connection, Side
  <2> QED
    BY <2>2, <2>3, <2>4 DEF Side
<1>2. CASE Lose
  <2>1. Places' /\ OneJob'
    BY <1>2, OneJobKept DEF Lose, Side, Places
  <2>2. Apart'
    BY <1>2 DEF Lose, Side, Apart
  <2> QED
    BY <2>1, <2>2 DEF Side
<1>3. CASE Evict \/ \E f \in Filters : Arrive(f)
  BY <1>3, OneJobKept DEF Evict, Arrive, Side, Places, Apart
<1>4. CASE UNCHANGED vars
  BY <1>4, OneJobKept DEF vars, Side, Places, Apart
<1>5. ASSUME NEW f \in Filters, HwFilter(f) PROVE Side'
  <2>1. UNCHANGED <<peer, sockets, pc>>
    BY <1>5 DEF HwFilter, FilterGet, FilterLine, FilterAck
  <2>2. Places' /\ Apart'
    BY <2>1 DEF Side, Places, Apart
  <2> QED
    BY <1>5, <2>1, <2>2, JobPassed DEF Side
<1> QED
  BY <1>1, <1>2, <1>3, <1>4, <1>5, ClientSide, VideoSide, BoardSide DEF Next

-----------------------------------------------------------------------------
(* Where the frame is *)

\* On a living connection no socket call fails.
LEMMA NoLoss ==
  ASSUME Live, NEW e
  PROVE  ~ReadFails(e) /\ ~ReadEnds(e) /\ ~WriteFails(e) /\ ~WriteKills(e)
BY DEF Live, Broken, ReadFails, ReadEnds, WriteFails, WriteKills

\* Connections are not made by those who use them.
LEMMA LiveBefore ==
  ASSUME Live', closed' = closed, link' = link \/ link' = "reset"
  PROVE  Live
BY DEF Live

\* What the arithmetic needs of the types.
LEMMA Positions ==
  ASSUME Typed
  PROVE  /\ pos["client"] \in Nat /\ pos["server"] \in Nat
         /\ net["client"] \in Seq(Units) /\ net["server"] \in Seq(Units)
         /\ Len(net["client"]) \in Nat /\ Len(net["server"]) \in Nat
BY DEF Typed, Ends

LEMMA WentClient ==
  ASSUME Typed, NEW m, NEW len, NEW next, Went("client", m, len, next)
  PROVE  /\ pc'["server"] = pc["server"] /\ pos'["server"] = pos["server"]
         /\ IF pos["client"] + m = len THEN pc'["client"] = next /\ pos'["client"] = 0
            ELSE pc'["client"] = pc["client"] /\ pos'["client"] = pos["client"] + m
BY DEF Typed, Went, Goto, Ends

LEMMA WentServer ==
  ASSUME Typed, NEW m, NEW len, NEW next, Went("server", m, len, next)
  PROVE  /\ pc'["client"] = pc["client"] /\ pos'["client"] = pos["client"]
         /\ IF pos["server"] + m = len THEN pc'["server"] = next /\ pos'["server"] = 0
            ELSE pc'["server"] = pc["server"] /\ pos'["server"] = pos["server"] + m
BY DEF Typed, Went, Goto, Ends

\* The client puts the next m units of header and frame on their way.
LEMMA ClientWrites ==
  ASSUME Typed, Asking, NEW message \in Seq(Units), NEW m \in 1 .. Len(message) - pos["client"],
         Gave("client", message, m), NEW next, Went("client", m, Len(message), next),
         UNCHANGED <<k, peer, buffer, memory, cache>>,
         \/ pc["client"] = "header" /\ Len(message) = HeaderLen /\ next = "send"
         \/ /\ pc["client"] = "send" /\ Len(message) = Lines /\ next = "receive"
            /\ \A l \in 1 .. Lines : message[l] = <<k, "raw">>
  PROVE  Asking'
<1>1. /\ pc'["server"] = pc["server"] /\ pos'["server"] = pos["server"]
      /\ IF pos["client"] + m = Len(message) THEN pc'["client"] = next /\ pos'["client"] = 0
         ELSE pc'["client"] = pc["client"] /\ pos'["client"] = pos["client"] + m
  BY WentClient
<1>0. m \in Nat /\ m >= 1 /\ pos["client"] + m <= Len(message)
  BY Positions
<1>2. Sent' = Sent + m /\ Taken' = Taken /\ Sent \in Nat /\ Taken \in Nat
  <2>1. Taken' = Taken /\ Taken \in Nat
    BY <1>1, Positions DEF Taken
  <2>2. CASE pc["client"] = "header"
    <3>1. Sent = pos["client"] /\ Len(message) = HeaderLen
      BY <2>2 DEF Sent
    <3>2. Sent' = pos["client"] + m
      BY <1>0, <1>1, <2>2, <3>1, Positions DEF Sent
    <3> QED
      BY <2>1, <3>1, <3>2, Positions
  <2>3. CASE pc["client"] = "send"
    <3>1. Sent = HeaderLen + pos["client"] /\ Len(message) = Lines
      BY <2>3 DEF Sent
    <3>2. Sent' = HeaderLen + (pos["client"] + m)
      BY <1>0, <1>1, <2>3, <3>1, Positions DEF Sent
    <3> QED
      BY <1>0, <2>1, <3>1, <3>2, Positions, SMTT(30)
  <2> QED
    BY <2>1, <2>2, <2>3
<1>3. /\ Len(net'["server"]) = Len(net["server"]) + m
      /\ \A i \in 1 .. Len(net["server"]) : net'["server"][i] = net["server"][i]
      /\ \A i \in 1 .. m : net'["server"][Len(net["server"]) + i] = message[pos["client"] + i]
      /\ net'["client"] = net["client"]
  BY DEF Gave, Other
<1>4. ASSUME NEW i \in 1 .. Len(net'["server"]), Taken' + i > HeaderLen PROVE net'["server"][i] = <<k, "raw">>
  <2>1. CASE i <= Len(net["server"])
    <3>1. i \in 1 .. Len(net["server"]) /\ Taken + i > HeaderLen
      BY <1>2, <1>4, <2>1, Positions
    <3>2. net["server"][i] = <<k, "raw">>
      BY <3>1 DEF Asking
    <3> QED
      BY <1>3, <3>1, <3>2
  <2>2. CASE i > Len(net["server"])
    <3> DEFINE j == i - Len(net["server"])
    <3>1. j \in 1 .. m /\ i = Len(net["server"]) + j
      BY <1>3, <2>2, Positions
    <3>2. Sent + j > HeaderLen
      BY <1>2, <1>4, <3>1, Positions DEF Asking
    <3> HIDE DEF j
    <3>3. pc["client"] = "send"
      BY <1>2, <3>1, <3>2, Positions DEF Sent
    <3>4. pos["client"] + j \in 1 .. Lines
      BY <3>1, <3>3, Positions, SMTT(30)
    <3> QED
      BY <1>3, <3>1, <3>3, <3>4
  <2> QED
    BY <2>1, <2>2, Positions
<1>5. pc'["server"] = "frame" => \A l \in 1 .. pos'["server"] : Stored(l)' = <<k, "raw">>
  BY <1>1 DEF Asking, Stored, Held, Dirty
<1>6. Len(net'["server"]) = Sent' - Taken'
  BY <1>2, <1>3, Positions DEF Asking
<1>7. /\ pc'["client"] \in {"header", "send", "receive"}
      /\ pc'["client"] = "receive" => pos'["client"] = 0
      /\ pc'["client"] = "header" => pos'["client"] < HeaderLen
      /\ pc'["client"] = "send" => pos'["client"] < Lines
  BY <1>1, Positions
<1> QED
  BY <1>1, <1>3, <1>4, <1>5, <1>6, <1>7 DEF Asking

\* The server reads m of them; of the frame it stores the lines.
LEMMA ServerReads ==
  ASSUME Typed, Asking, NEW m \in Nat, Took("server", m), net' \in [Ends -> Seq(Units)], UNCHANGED <<k, peer>>,
         NEW len, NEW next, Went("server", m, len, next),
         m \in 1 .. len - pos["server"],
         \/ pc["server"] = "header" /\ len = HeaderLen /\ next = "frame"
         \/ /\ pc["server"] = "frame" /\ len = Lines
            /\ \A l \in 1 .. Lines :
                 Stored(l)' = IF l \in pos["server"] + 1 .. pos["server"] + m
                              THEN net["server"][l - pos["server"]] ELSE Stored(l)
  PROVE  IF pc["server"] = "frame" /\ pos["server"] + m = Lines
         THEN /\ pc'["client"] = "receive" /\ pos'["client"] = 0 /\ pc'["server"] = next
              /\ net'["client"] = <<>> /\ net'["server"] = <<>>
              /\ \A l \in 1 .. Lines : Stored(l)' = <<k, "raw">>
         ELSE Asking'
<1>1. /\ pc'["client"] = pc["client"] /\ pos'["client"] = pos["client"]
      /\ IF pos["server"] + m = len THEN pc'["server"] = next /\ pos'["server"] = 0
         ELSE pc'["server"] = pc["server"] /\ pos'["server"] = pos["server"] + m
  BY WentServer
<1>2. /\ m \in 1 .. Len(net["server"])
      /\ Len(net'["server"]) = Len(net["server"]) - m
      /\ \A i \in 1 .. Len(net["server"]) - m : net'["server"][i] = net["server"][i + m]
      /\ net'["client"] = net["client"]
  BY DEF Took, Other
<1>0. m >= 1 /\ m <= Len(net["server"]) /\ pos["server"] + m <= len
      /\ (len = HeaderLen \/ len = Lines) /\ (pc["server"] = "frame" => len = Lines)
  BY Positions DEF Took
<1>3. Sent' = Sent /\ Sent \in Nat /\ Taken \in Nat
  BY <1>1, Positions DEF Sent, Taken
<1>4. ASSUME pc["server"] = "frame" PROVE \A l \in 1 .. pos["server"] + m : l \in 1 .. Lines /\ Stored(l)' = <<k, "raw">>
  <2> TAKE l \in 1 .. pos["server"] + m
  <2>1. l \in 1 .. Lines /\ len = Lines
    BY <1>4, Positions
  <2>2. CASE l <= pos["server"]
    BY <1>4, <2>1, <2>2, Positions, SMTT(30) DEF Asking
  <2>3. CASE l > pos["server"]
    <3>0. Taken = HeaderLen + pos["server"]
      BY <1>4 DEF Taken
    <3>1. l - pos["server"] \in 1 .. Len(net["server"]) /\ Taken + (l - pos["server"]) > HeaderLen
          /\ l \in pos["server"] + 1 .. pos["server"] + m
      <4>1. pos["server"] \in Nat /\ Len(net["server"]) \in Nat /\ l \in Nat /\ l <= pos["server"] + m
        BY <2>1, Positions
      <4>2. l - pos["server"] >= 1 /\ l - pos["server"] <= m /\ l - pos["server"] \in Nat
        BY <2>3, <4>1
      <4> QED
        BY <1>0, <2>3, <3>0, <4>1, <4>2, SMTT(30)
    <3>2. net["server"][l - pos["server"]] = <<k, "raw">>
      BY <3>1 DEF Asking
    <3> QED
      BY <1>4, <2>1, <3>1, <3>2
  <2> QED
    BY <2>2, <2>3, Positions
<1>5. CASE pc["server"] = "frame" /\ pos["server"] + m = Lines
  <2>1. Taken = HeaderLen + pos["server"] /\ Sent - Taken >= m
    BY <1>2, <1>5, Positions DEF Taken, Asking
  <2>2. Sent >= HeaderLen + Lines
    BY <1>3, <1>5, <2>1, Positions, SMTT(30)
  <2>3. pc["client"] = "receive" /\ pos["client"] = 0 /\ Sent = HeaderLen + Lines
    BY <2>2, Positions DEF Sent, Asking
  <2>4. Len(net'["server"]) = 0
    <3>1. Len(net["server"]) = Sent - Taken
      BY DEF Asking
    <3> QED
      BY <1>0, <1>2, <1>5, <2>1, <2>3, <3>1, Positions
  <2>5. net'["server"] = <<>>
    BY <2>4 DEF Ends
  <2> QED
    BY <1>1, <1>2, <1>4, <1>5, <2>3, <2>5 DEF Asking
<1>6. CASE ~(pc["server"] = "frame" /\ pos["server"] + m = Lines)
  <2>1. Taken' = Taken + m
    BY <1>1, <1>6, Positions DEF Taken, Asking
  <2>2. ASSUME NEW i \in 1 .. Len(net'["server"]), Taken' + i > HeaderLen PROVE net'["server"][i] = <<k, "raw">>
    <3>1. i + m \in 1 .. Len(net["server"]) /\ Taken + (i + m) > HeaderLen /\ i \in 1 .. Len(net["server"]) - m
      <4>1. i \in Nat /\ i >= 1 /\ i <= Len(net["server"]) - m
        BY <1>2, <2>2, Positions
      <4>2. Taken + (i + m) > HeaderLen
        BY <1>3, <2>1, <2>2, <4>1
      <4> QED
        BY <1>0, <4>1, <4>2, Positions
    <3> QED
      BY <1>2, <3>1 DEF Asking
  <2>3. Len(net'["server"]) = Sent' - Taken'
    BY <1>2, <1>3, <2>1, Positions DEF Asking
  <2>4. /\ pc'["server"] \in {"header", "frame"}
        /\ IF pc'["server"] = "header" THEN pos'["server"] < HeaderLen ELSE pos'["server"] < Lines
    <3>1. CASE pc["server"] = "header"
      <4>1. len = HeaderLen /\ next = "frame"
        BY <3>1
      <4>2. CASE pos["server"] + m = len
        BY <1>1, <4>1, <4>2
      <4>3. CASE pos["server"] + m # len
        BY <1>0, <1>1, <3>1, <4>1, <4>3, Positions
      <4> QED
        BY <4>2, <4>3
    <3>2. CASE pc["server"] = "frame"
      <4>1. len = Lines /\ pos["server"] + m # len
        BY <1>6, <3>2
      <4>2. pc'["server"] = "frame" /\ pos'["server"] = pos["server"] + m
        BY <1>1, <3>2, <4>1
      <4>3. pos["server"] + m < Lines
        <5> DEFINE now == pos["server"] + m
        <5>1. now \in Nat
          BY Positions
        <5>2. now <= Lines /\ ~(now = Lines)
          BY <1>0, <4>1
        <5> HIDE DEF now
        <5>3. now < Lines
          BY <5>1, <5>2
        <5> QED
          BY <5>3 DEF now
      <4> QED
        BY <4>2, <4>3
    <3> QED
      BY <3>1, <3>2
  <2>5. pc'["server"] = "frame" => \A l \in 1 .. pos'["server"] : Stored(l)' = <<k, "raw">>
    BY <1>1, <1>4, <1>6, Positions
  <2> QED
    BY <1>1, <1>2, <1>6, <2>2, <2>3, <2>4, <2>5 DEF Asking
<1> QED
  BY <1>5, <1>6

\* The client reads m units of the answer.
LEMMA ClientReads ==
  ASSUME Typed, Coming, NEW m \in 1 .. Lines - pos["client"], Took("client", m), net' \in [Ends -> Seq(Units)],
         Went("client", m, Lines, "show"), got' = Filled(got, "client", m), k' = k,
         pos["client"] + Len(net["client"]) <= Lines
  PROVE  /\ pos["client"] + m = Lines =>
              /\ pos["client"] + Len(net["client"]) = Lines
              /\ pc'["client"] = "show" /\ net'["client"] = <<>> /\ net'["server"] = <<>>
              /\ \A l \in 1 .. Lines : got'[l] = <<k, "filtered">>
         /\ pos["client"] + m < Lines =>
              Coming' /\ pos'["client"] + Len(net'["client"]) = pos["client"] + Len(net["client"])
         /\ pc'["server"] = pc["server"] /\ pos'["server"] = pos["server"]
<1>1. /\ pc'["server"] = pc["server"] /\ pos'["server"] = pos["server"]
      /\ IF pos["client"] + m = Lines THEN pc'["client"] = "show" /\ pos'["client"] = 0
         ELSE pc'["client"] = pc["client"] /\ pos'["client"] = pos["client"] + m
  BY WentClient
<1>2. /\ m \in Nat /\ m >= 1 /\ m <= Len(net["client"]) /\ pos["client"] + m <= Lines
      /\ Len(net'["client"]) = Len(net["client"]) - m
      /\ \A i \in 1 .. Len(net["client"]) - m : net'["client"][i] = net["client"][i + m]
      /\ net'["server"] = net["server"]
  <2>1. m \in Nat /\ m >= 1 /\ pos["client"] + m <= Lines
    BY Positions
  <2>2. m <= Len(net["client"])
    BY Positions DEF Took
  <2> QED
    BY <2>1, <2>2 DEF Took, Other
<1>3. \A l \in 1 .. pos["client"] + m : l \in 1 .. Lines /\ got'[l] = <<k, "filtered">>
  <2> TAKE l \in 1 .. pos["client"] + m
  <2>1. l \in 1 .. Lines /\ pos["client"] \in Nat
    BY <1>2, Positions
  <2>2. CASE l <= pos["client"]
    <3>1. got'[l] = got[l]
      BY <2>1, <2>2 DEF Filled
    <3> QED
      BY <2>1, <2>2, <3>1 DEF Coming
  <2>3. CASE l > pos["client"]
    <3>1. l \in pos["client"] + 1 .. pos["client"] + m /\ l - pos["client"] \in 1 .. Len(net["client"])
      <4>1. l \in Nat /\ l >= pos["client"] + 1 /\ l <= pos["client"] + m
        BY <1>2, <2>1, <2>3
      <4>2. l - pos["client"] \in Nat /\ l - pos["client"] >= 1 /\ l - pos["client"] <= m
        BY <1>2, <2>1, <4>1, SMTT(30)
      <4> QED
        BY <1>2, <2>1, <4>1, <4>2, Positions
    <3>2. got'[l] = net["client"][l - pos["client"]]
      BY <2>1, <3>1 DEF Filled
    <3> QED
      BY <2>1, <3>1, <3>2 DEF Coming
  <2> QED
    BY <2>1, <2>2, <2>3
<1>4. CASE pos["client"] + m = Lines
  <2>1. pos["client"] + Len(net["client"]) = Lines /\ Len(net'["client"]) = 0
    BY <1>2, <1>4, Positions
  <2>2. net'["client"] = <<>>
    BY <2>1 DEF Ends
  <2>3. net'["server"] = <<>>
    BY <1>2 DEF Coming
  <2> QED
    BY <1>1, <1>3, <1>4, <2>1, <2>2, <2>3
<1>5. CASE pos["client"] + m < Lines
  <2>1. pc'["client"] = pc["client"] /\ pos'["client"] = pos["client"] + m
    BY <1>1, <1>5
  <2>2. \A i \in 1 .. Len(net'["client"]) : net'["client"][i] = <<k, "filtered">>
    <3> TAKE i \in 1 .. Len(net'["client"])
    <3>1. i + m \in 1 .. Len(net["client"]) /\ i \in 1 .. Len(net["client"]) - m
      BY <1>2, Positions
    <3> QED
      BY <1>2, <3>1 DEF Coming
  <2>3. pos'["client"] < Lines /\ pos'["client"] + Len(net'["client"]) = pos["client"] + Len(net["client"])
    <3>1. pos'["client"] < Lines
      BY <1>5, <2>1
    <3>2. Len(net'["client"]) = Len(net["client"]) - m /\ m \in Nat
      BY <1>2
    <3> QED
      BY <2>1, <3>1, <3>2, Positions
  <2> QED
    BY <1>1, <1>2, <1>3, <1>5, <2>1, <2>2, <2>3 DEF Coming
<1> QED
  BY <1>1, <1>2, <1>4, <1>5, Positions

\* The server puts m units of the answer on their way.
LEMMA ServerWrites ==
  ASSUME Typed, Answering, NEW message \in Seq(Units), Len(message) = Lines,
         \A l \in 1 .. Lines : message[l] = <<k, "filtered">>,
         NEW m \in 1 .. Lines - pos["server"], Gave("server", message, m), UNCHANGED <<k, peer, got, memory>>,
         NEW next \in {"frame", "destroy"}, Went("server", m, Lines, next),
         pos["server"] + m < Lines =>
           IF peer = "board"
           THEN \A l \in 1 .. Lines : cache'[l] # NotCached => cache'[l] = [unit |-> memory[l], dirty |-> FALSE]
           ELSE buffer' = buffer
  PROVE  Answering' \/ Answered'
<1>1. /\ pc'["client"] = pc["client"] /\ pos'["client"] = pos["client"]
      /\ IF pos["server"] + m = Lines THEN pc'["server"] = next /\ pos'["server"] = 0
         ELSE pc'["server"] = pc["server"] /\ pos'["server"] = pos["server"] + m
  BY WentServer
<1>2. /\ Len(net'["client"]) = Len(net["client"]) + m
      /\ \A i \in 1 .. Len(net["client"]) : net'["client"][i] = net["client"][i]
      /\ \A i \in 1 .. m : net'["client"][Len(net["client"]) + i] = message[pos["server"] + i]
      /\ net'["server"] = net["server"]
  BY DEF Gave, Other
<1>3. m \in Nat /\ m >= 1 /\ pos["server"] + m <= Lines
  BY Positions
<1>4. \A i \in 1 .. Len(net'["client"]) : net'["client"][i] = <<k, "filtered">>
  <2> TAKE i \in 1 .. Len(net'["client"])
  <2>1. CASE i <= Len(net["client"])
    <3>1. i \in 1 .. Len(net["client"])
      BY <2>1, Positions
    <3> QED
      BY <1>2, <3>1 DEF Answering, Coming
  <2>2. CASE i > Len(net["client"])
    <3> DEFINE j == i - Len(net["client"])
    <3>1. j \in 1 .. m /\ i = Len(net["client"]) + j
      BY <1>2, <1>3, <2>2, Positions
    <3> HIDE DEF j
    <3>2. pos["server"] + j \in 1 .. Lines
      BY <1>3, <3>1, Positions, SMTT(30)
    <3> QED
      BY <1>2, <3>1, <3>2
  <2> QED
    BY <2>1, <2>2, Positions
<1>5. Coming' /\ pos'["client"] + Len(net'["client"]) = pos["server"] + m
  <2>1. pos'["client"] + Len(net'["client"]) = pos["server"] + m
    <3>1. pos["client"] + Len(net["client"]) = pos["server"]
      BY DEF Answering
    <3> QED
      BY <1>1, <1>2, <1>3, <3>1, Positions
  <2> QED
    BY <1>1, <1>2, <1>4, <2>1 DEF Answering, Coming
<1>6. CASE pos["server"] + m = Lines
  BY <1>1, <1>5, <1>6 DEF Answered
<1>7. CASE pos["server"] + m < Lines
  <2>1. pc'["server"] = "reply" /\ pos'["server"] = pos["server"] + m
    BY <1>1, <1>7 DEF Answering
  <2>2. pos'["server"] < Lines
    BY <1>3, <1>7, <2>1, Positions
  <2> QED
    BY <1>5, <1>7, <2>1, <2>2 DEF Answering
<1> QED
  BY <1>3, <1>6, <1>7, Positions

-----------------------------------------------------------------------------
\* The client's steps move the frame as Round says,
LEMMA ClientRound ==
  ASSUME Typed, Side, Round, Client, Live'
  PROVE  Round'
<1> USE DEF board, sockets
<1>0. "client" \in Ends /\ "server" \in Ends
  BY DEF Ends
<1> SUFFICES Asking' \/ Working' \/ Answering' \/ Answered' \/ Leaving'
  BY DEF Round
<1>1. CASE tcp_connection_create
  <2>1. CASE tcp_accept /\ pc' = [client |-> "header", server |-> "header"] /\ pos' = [e \in Ends |-> 0]
    <3>1. pc'["client"] = "header" /\ pc'["server"] = "header" /\ pos'["client"] = 0 /\ pos'["server"] = 0
      BY <1>0, <2>1
    <3>2. net'["client"] = <<>> /\ net'["server"] = <<>>
      BY <1>0, <1>1, <2>1 DEF tcp_connection_create, tcp_accept, Side, Apart
    <3>3. Sent' = 0 /\ Taken' = 0 /\ Len(net'["server"]) = 0
      BY <3>1, <3>2 DEF Sent, Taken
    <3> QED
      BY <3>1, <3>2, <3>3 DEF Asking
  <2>2. CASE UNCHANGED <<link, closed>>
    BY <1>1, <2>2 DEF tcp_connection_create, Side, Apart, Live
  <2> QED
    BY <1>1, <2>1, <2>2 DEF tcp_connection_create
<1>2. CASE netimage_send_header
  <2>1. Live
    BY <1>2, SendKeeps, LiveBefore DEF netimage_send_header
  <2>2. SendSome("client", Header, "send") /\ pc["client"] = "header"
    BY <1>2, <2>1, NoLoss DEF netimage_send_header
  <2>3. PICK m \in 1 .. HeaderLen - pos["client"] : Went("client", m, HeaderLen, "send") /\ Gave("client", Header, m)
    BY <1>0, <2>2, HeaderTyped, SendGives
  <2>4. Asking
    BY <2>1, <2>2 DEF Round, Working, Answering, Answered, Coming, Leaving
  <2> QED
    BY <1>2, <2>2, <2>3, <2>4, HeaderTyped, ClientWrites DEF netimage_send_header
<1>3. CASE SendFrame
  <2>1. Live
    BY <1>3, SendKeeps, LiveBefore DEF SendFrame
  <2>2. SendSome("client", Frame(k, "raw"), "receive") /\ pc["client"] = "send"
    BY <1>3, <2>1, NoLoss DEF SendFrame
  <2>3. Frame(k, "raw") \in Seq(Units) /\ Len(Frame(k, "raw")) = Lines /\ \A l \in 1 .. Lines : Frame(k, "raw")[l] = <<k, "raw">>
    <3>1. Frame(k, "raw") \in [1 .. Lines -> Units]
      BY FrameTyped DEF Typed, Marks
    <3>2. \A l \in 1 .. Lines : Frame(k, "raw")[l] = <<k, "raw">>
      BY DEF Frame
    <3> QED
      BY <3>1, <3>2, Messages
  <2>4. PICK m \in 1 .. Lines - pos["client"] :
          Went("client", m, Lines, "receive") /\ Gave("client", Frame(k, "raw"), m)
    BY <1>0, <2>2, <2>3, SendGives
  <2>5. CASE Asking
    BY <1>3, <2>2, <2>3, <2>4, <2>5, ClientWrites DEF SendFrame
  <2>6. CASE Leaving
    <3>1. /\ pc'["server"] = pc["server"]
          /\ IF pos["client"] + m = Lines THEN pc'["client"] = "receive" /\ pos'["client"] = 0
             ELSE pc'["client"] = pc["client"] /\ pos'["client"] = pos["client"] + m
      BY <2>4, WentClient
    <3>2. net'["client"] = net["client"]
      BY <2>4 DEF Gave
    <3>3. pos'["client"] < Lines
      <4>1. m \in Nat /\ pos["client"] + m <= Lines
        BY Positions
      <4> QED
        BY <3>1, <4>1, Positions, SMTT(30)
    <3> QED
      BY <2>2, <2>6, <3>1, <3>2, <3>3 DEF Leaving
  <2> QED
    BY <2>1, <2>2, <2>5, <2>6 DEF Round, Working, Answering, Answered, Coming
<1>4. CASE ReceiveFrame
  <2>1. Live
    BY <1>4, ReceiveKeeps, LiveBefore DEF ReceiveFrame
  <2>2. PICK m \in 1 .. Lines : ReceiveSome("client", Lines, m, "show") /\ got' = Filled(got, "client", m)
    BY <1>4, <2>1, NoLoss DEF ReceiveFrame
  <2>3. pc["client"] = "receive" /\ UNCHANGED <<peer, k, buffer, memory, cache>>
    BY <1>4 DEF ReceiveFrame
  <2>4. m \in Nat
    OBVIOUS
  <2>5. /\ Took("client", m) /\ m \in 1 .. Lines - pos["client"] /\ Went("client", m, Lines, "show")
        /\ net' \in [Ends -> Seq(Units)]
    BY <1>0, <2>2, <2>4, ReceiveTakes
  <2>6. net["client"] # <<>>
    BY <2>5 DEF Took
  <2>7. Coming /\ pos["client"] + Len(net["client"]) <= Lines /\ (Answering \/ Answered)
    <3>1. Answering \/ Answered
      BY <2>1, <2>3, <2>6 DEF Round, Asking, Working, Leaving
    <3>2. Answering => Coming /\ pos["client"] + Len(net["client"]) <= Lines
      BY Positions DEF Answering
    <3>3. Answered => Coming /\ pos["client"] + Len(net["client"]) <= Lines
      BY <2>3, Positions DEF Answered
    <3> QED
      BY <3>1, <3>2, <3>3
  <2>8. /\ pos["client"] + m = Lines =>
             /\ pos["client"] + Len(net["client"]) = Lines
             /\ pc'["client"] = "show" /\ net'["client"] = <<>> /\ net'["server"] = <<>>
             /\ \A l \in 1 .. Lines : got'[l] = <<k, "filtered">>
        /\ pos["client"] + m < Lines =>
             Coming' /\ pos'["client"] + Len(net'["client"]) = pos["client"] + Len(net["client"])
        /\ pc'["server"] = pc["server"] /\ pos'["server"] = pos["server"]
    BY <2>2, <2>3, <2>5, <2>7, ClientReads
  <2>9. CASE pos["client"] + m = Lines
    <3>1. Answered
      BY <2>7, <2>8, <2>9, Positions DEF Answering
    <3>2. got' = Frame(k, "filtered")
      BY <2>2, <2>8, <2>9 DEF Filled, Frame
    <3> QED
      BY <2>3, <2>8, <2>9, <3>1, <3>2 DEF Answered
  <2>10. CASE pos["client"] + m < Lines
    <3>1. CASE Answering
      BY <2>3, <2>8, <2>10, <3>1 DEF Answering
    <3>2. CASE Answered
      BY <2>3, <2>8, <2>10, <3>2 DEF Answered
    <3> QED
      BY <2>7, <3>1, <3>2
  <2>11. pos["client"] + m <= Lines
    BY <2>4, <2>5, Positions
  <2> QED
    BY <2>4, <2>9, <2>10, <2>11, Positions
<1>5. CASE Show
  <2>1. Live /\ pc["client"] = "show" /\ net' = net
    BY <1>5, LiveBefore DEF Show
  <2>2. pc["server"] \in {"frame", "destroy"} /\ pos["server"] = 0 /\ net["client"] = <<>> /\ net["server"] = <<>>
    BY <2>1 DEF Round, Asking, Working, Answering, Answered, Coming, Leaving
  <2>3. CASE Goto("client", "send")
    <3>1. pc'["client"] = "send" /\ pos'["client"] = 0 /\ pc'["server"] = pc["server"] /\ pos'["server"] = pos["server"]
      BY <1>0, <2>3 DEF Goto, Typed, Ends
    <3>2. CASE pc["server"] = "frame"
      <4>1. Sent' = HeaderLen /\ Taken' = HeaderLen /\ Len(net'["server"]) = 0
        BY <2>1, <2>2, <3>1, <3>2 DEF Sent, Taken
      <4> QED
        BY <2>1, <2>2, <3>1, <3>2, <4>1 DEF Asking
    <3>3. CASE pc["server"] = "destroy"
      BY <2>1, <2>2, <3>1, <3>3 DEF Leaving
    <3> QED
      BY <2>2, <3>2, <3>3
  <2>4. CASE Goto("client", "exit")
    BY <1>0, <2>4 DEF Goto, Typed, Leaving
  <2> QED
    BY <1>5, <2>3, <2>4 DEF Show
<1>6. CASE ClientExit
  BY <1>6 DEF ClientExit, Close, Live
<1>7. CASE NextClient
  BY <1>7 DEF NextClient, Live, Side, Apart
<1> QED
  BY <1>1, <1>2, <1>3, <1>4, <1>5, <1>6, <1>7 DEF Client

\* and so do the video server's
LEMMA VideoRound ==
  ASSUME Typed, Side, Round, VideoServer, Live'
  PROVE  Round'
<1> USE DEF board, sockets
<1>0. "client" \in Ends /\ "server" \in Ends
  BY DEF Ends
<1> SUFFICES Asking' \/ Working' \/ Answering' \/ Answered' \/ Leaving'
  BY DEF Round
<1>1. CASE VideoHeader
  <2>1. Live
    BY <1>1, ReceiveKeeps, LiveBefore DEF VideoHeader
  <2>2. PICK m \in 1 .. HeaderLen : ReceiveSome("server", HeaderLen, m, "frame")
    BY <1>1, <2>1, NoLoss DEF VideoHeader
  <2>3. pc["server"] = "header" /\ UNCHANGED <<peer, k>>
    BY <1>1 DEF VideoHeader
  <2>4. m \in Nat
    OBVIOUS
  <2>5. /\ Took("server", m) /\ m \in 1 .. HeaderLen - pos["server"] /\ Went("server", m, HeaderLen, "frame")
        /\ net' \in [Ends -> Seq(Units)]
    BY <1>0, <2>2, <2>4, ReceiveTakes
  <2>6. CASE Asking
    BY <2>3, <2>4, <2>5, <2>6, ServerReads
  <2>7. CASE pc["client"] = "exit"
    BY <2>5, <2>7, WentServer DEF Leaving
  <2> QED
    BY <2>1, <2>3, <2>6, <2>7 DEF Round, Working, Answering, Answered, Leaving
<1>2. CASE VideoReceive
  <2>1. Live
    BY <1>2, ReceiveKeeps, LiveBefore DEF VideoReceive
  <2>2. PICK m \in 1 .. Lines : ReceiveSome("server", Lines, m, "convert") /\ buffer' = Filled(buffer, "server", m)
    BY <1>2, <2>1, NoLoss DEF VideoReceive
  <2>3. pc["server"] = "frame" /\ UNCHANGED <<peer, k>> /\ peer = "video"
    BY <1>2 DEF VideoReceive
  <2>4. m \in Nat
    OBVIOUS
  <2>5. /\ Took("server", m) /\ m \in 1 .. Lines - pos["server"] /\ Went("server", m, Lines, "convert")
        /\ net' \in [Ends -> Seq(Units)]
    BY <1>0, <2>2, <2>4, ReceiveTakes
  <2>6. \A l \in 1 .. Lines :
          Stored(l)' = IF l \in pos["server"] + 1 .. pos["server"] + m
                       THEN net["server"][l - pos["server"]] ELSE Stored(l)
    BY <2>2, <2>3 DEF Stored, Filled
  <2>7. CASE Asking
    <3>1. IF pos["server"] + m = Lines
          THEN /\ pc'["client"] = "receive" /\ pos'["client"] = 0 /\ pc'["server"] = "convert"
               /\ net'["client"] = <<>> /\ net'["server"] = <<>>
               /\ \A l \in 1 .. Lines : Stored(l)' = <<k, "raw">>
          ELSE Asking'
      BY <2>3, <2>4, <2>5, <2>6, <2>7, ServerReads
    <3> QED
      BY <2>3, <3>1 DEF Working
  <2>8. CASE pc["client"] = "exit"
    BY <2>5, <2>8, WentServer DEF Leaving
  <2>9. ~Answered
    BY <2>5 DEF Took, Answered, Coming
  <2> QED
    BY <2>1, <2>3, <2>7, <2>8, <2>9 DEF Round, Working, Answering, Leaving
<1>3. CASE Convert
  <2>1. Live /\ peer = "video"
    BY <1>3, LiveBefore DEF Convert, Side, Places
  <2>2. /\ pc["server"] = "convert" /\ pc'["server"] = "reply" /\ pos'["server"] = 0
        /\ pc'["client"] = pc["client"] /\ pos'["client"] = pos["client"]
        /\ UNCHANGED <<peer, k, net, got>>
    BY <1>0, <1>3 DEF Convert, Goto, Typed, Ends
  <2>3. CASE Working
    <3>1. \A l \in 1 .. Lines : buffer'[l] = <<k, "filtered">>
      BY <1>3, <2>1, <2>2, <2>3 DEF Convert, Working, Stored
    <3>2. Len(net'["client"]) = 0
      BY <2>2, <2>3 DEF Working
    <3> QED
      BY <2>1, <2>2, <2>3, <3>1, <3>2 DEF Working, Answering, Coming
  <2>4. CASE pc["client"] = "exit"
    BY <2>2, <2>4 DEF Leaving
  <2> QED
    BY <2>1, <2>2, <2>3, <2>4 DEF Round, Asking, Answering, Answered, Leaving
<1>4. CASE VideoReply
  <2>1. Live
    BY <1>4, SendKeeps, LiveBefore DEF VideoReply
  <2>2. PICK next \in {"frame", "destroy"} : SendSome("server", buffer, next)
    BY <1>4, <2>1, NoLoss DEF VideoReply
  <2>3. pc["server"] = "reply" /\ UNCHANGED <<peer, k, got, memory>> /\ peer = "video"
        /\ buffer' = IF pc'["server"] = "frame" THEN Frame(0, "raw") ELSE buffer
    BY <1>4 DEF VideoReply
  <2>4. buffer \in Seq(Units) /\ Len(buffer) = Lines
    BY Messages DEF Typed
  <2>5. PICK m \in 1 .. Lines - pos["server"] : Went("server", m, Lines, next) /\ Gave("server", buffer, m)
    BY <1>0, <2>2, <2>4, SendGives
  <2>6. CASE Answering
    <3>1. \A l \in 1 .. Lines : buffer[l] = <<k, "filtered">>
      BY <2>3, <2>6 DEF Answering
    <3>2. pos["server"] + m < Lines => buffer' = buffer
      BY <2>3, <2>5, WentServer, Positions
    <3> QED
      BY <2>3, <2>4, <2>5, <2>6, <3>1, <3>2, ServerWrites
  <2>7. CASE pc["client"] = "exit"
    BY <2>5, <2>7, WentServer DEF Leaving
  <2> QED
    BY <2>1, <2>3, <2>6, <2>7 DEF Round, Asking, Working, Answered, Leaving
<1>5. CASE VideoDestroy
  BY <1>5 DEF VideoDestroy, Close, Live
<1> QED
  BY <1>1, <1>2, <1>3, <1>4, <1>5 DEF VideoServer

\* The job is in one place, if it is in any.
LEMMA JobPlaces ==
  ASSUME Typed, OneJob
  PROVE  /\ pc["server"] # "wait" =>
              /\ jobs["start_1"] = 0 /\ jobs["start_2"] = 0 /\ jobs["done"] = 0
              /\ filter[1] = "get" /\ filter[2] = "get"
         /\ jobs["start_1"] > 0 \/ filter[1] # "get" \/ jobs["start_2"] > 0 \/ filter[2] # "get" \/ jobs["done"] > 0 =>
              pc["server"] = "wait"
         /\ jobs["start_1"] > 0 =>
              jobs["start_1"] = 1 /\ filter[1] = "get" /\ jobs["start_2"] = 0 /\ filter[2] = "get" /\ jobs["done"] = 0
         /\ filter[1] # "get" =>
              jobs["start_1"] = 0 /\ jobs["start_2"] = 0 /\ filter[2] = "get" /\ jobs["done"] = 0
         /\ jobs["start_2"] > 0 =>
              jobs["start_1"] = 0 /\ filter[1] = "get" /\ jobs["start_2"] = 1 /\ filter[2] = "get" /\ jobs["done"] = 0
         /\ filter[2] # "get" =>
              jobs["start_1"] = 0 /\ filter[1] = "get" /\ jobs["start_2"] = 0 /\ jobs["done"] = 0
         /\ jobs["done"] > 0 =>
              jobs["start_1"] = 0 /\ filter[1] = "get" /\ jobs["start_2"] = 0 /\ filter[2] = "get" /\ jobs["done"] = 1
<1> DEFINE n == IF pc["server"] = "wait" THEN 1 ELSE 0
           a == jobs["start_1"]
           b == Busy(1)
           c == jobs["start_2"]
           d == Busy(2)
           e == jobs["done"]
<1>1. a \in Nat /\ c \in Nat /\ e \in Nat
  BY DEF Typed, Mailboxes
<1>2. /\ b \in Nat /\ d \in Nat
      /\ (filter[1] # "get" => b > 0) /\ (filter[2] # "get" => d > 0)
      /\ (b = 0 => filter[1] = "get") /\ (d = 0 => filter[2] = "get")
  BY DEF Busy
<1>3. a + b + c + d + e = n
  BY DEF OneJob
<1>4. n \in {0, 1} /\ (n = 1 => pc["server"] = "wait") /\ (pc["server"] # "wait" => n = 0)
  OBVIOUS
<1> HIDE DEF n, a, b, c, d, e
<1>5. /\ n = 0 => a = 0 /\ b = 0 /\ c = 0 /\ d = 0 /\ e = 0
      /\ a > 0 => n = 1 /\ a = 1 /\ b = 0 /\ c = 0 /\ d = 0 /\ e = 0
      /\ b > 0 => n = 1 /\ a = 0 /\ b = 1 /\ c = 0 /\ d = 0 /\ e = 0
      /\ c > 0 => n = 1 /\ a = 0 /\ b = 0 /\ c = 1 /\ d = 0 /\ e = 0
      /\ d > 0 => n = 1 /\ a = 0 /\ b = 0 /\ c = 0 /\ d = 1 /\ e = 0
      /\ e > 0 => n = 1 /\ a = 0 /\ b = 0 /\ c = 0 /\ d = 0 /\ e = 1
  BY <1>1, <1>2, <1>3, <1>4
<1> QED
  BY <1>2, <1>4, <1>5 DEF a, c, e

\* Only for the filter that has the job, or has just passed it on, is a line on its way.
LEMMA Grounded ==
  ASSUME Typed, Side, LandsFirst
  PROVE  /\ pc["server"] # "wait" => flying[1].line = 0 /\ flying[2].line = 0
         /\ jobs["start_1"] > 0 => flying[1].line = 0 /\ flying[2].line = 0
         /\ filter[1] # "get" => flying[2].line = 0
         /\ filter[2] # "get" \/ jobs["done"] > 0 => flying[1].line = 0
<1>1. \A f \in {1, 2} : flying[f].line \in Nat
  BY DEF Typed, OnTheWay, Filters
<1>2. /\ flying[1].line > 0 => filter[1] # "get" \/ jobs["start_2"] > 0
      /\ flying[2].line > 0 => filter[2] # "get" \/ jobs["done"] > 0
  BY DEF LandsFirst, To, Filters
<1> QED
  BY <1>1, <1>2, JobPlaces DEF Side

\* and the board's.
LEMMA BoardRound ==
  ASSUME Typed, Side, Round, LandsFirst, LandsFirst', ethernet_function, Live'
  PROVE  Round'
<1> USE DEF board, sockets
<1>0. "client" \in Ends /\ "server" \in Ends
  BY DEF Ends
<1> SUFFICES Asking' \/ Working' \/ Answering' \/ Answered' \/ Leaving'
  BY DEF Round
<1>1. CASE BoardHeader
  <2>1. Live
    BY <1>1, ReceiveKeeps, LiveBefore DEF BoardHeader
  <2>2. PICK m \in 1 .. HeaderLen : ReceiveSome("server", HeaderLen, m, "frame")
    BY <1>1, <2>1, NoLoss DEF BoardHeader
  <2>3. pc["server"] = "header" /\ UNCHANGED <<peer, k>>
    BY <1>1 DEF BoardHeader
  <2>4. m \in Nat
    OBVIOUS
  <2>5. /\ Took("server", m) /\ m \in 1 .. HeaderLen - pos["server"] /\ Went("server", m, HeaderLen, "frame")
        /\ net' \in [Ends -> Seq(Units)]
    BY <1>0, <2>2, <2>4, ReceiveTakes
  <2>6. CASE Asking
    BY <2>3, <2>4, <2>5, <2>6, ServerReads
  <2>7. CASE pc["client"] = "exit"
    BY <2>5, <2>7, WentServer DEF Leaving
  <2> QED
    BY <2>1, <2>3, <2>6, <2>7 DEF Round, Working, Answering, Answered, Leaving
<1>2. CASE ReadFrame
  <2>1. Live
    BY <1>2, ReceiveKeeps, LiveBefore DEF ReadFrame
  <2>2. PICK m \in 1 .. Lines :
          /\ ReceiveSome("server", Lines, m, "flush")
          /\ cache' = [l \in 1 .. Lines |->
                         IF l \in pos["server"] + 1 .. pos["server"] + m
                         THEN [unit |-> net["server"][l - pos["server"]], dirty |-> TRUE]
                         ELSE cache[l]]
    BY <1>2, <2>1, NoLoss DEF ReadFrame
  <2>3. pc["server"] = "frame" /\ UNCHANGED <<peer, k, memory>> /\ peer = "board"
    BY <1>2 DEF ReadFrame
  <2>4. m \in Nat
    OBVIOUS
  <2>5. /\ Took("server", m) /\ m \in 1 .. Lines - pos["server"] /\ Went("server", m, Lines, "flush")
        /\ net' \in [Ends -> Seq(Units)]
    BY <1>0, <2>2, <2>4, ReceiveTakes
  <2>6. \A l \in 1 .. Lines :
          Stored(l)' = IF l \in pos["server"] + 1 .. pos["server"] + m
                       THEN net["server"][l - pos["server"]] ELSE Stored(l)
    <3> TAKE l \in 1 .. Lines
    <3>1. CASE l \in pos["server"] + 1 .. pos["server"] + m
      <4>1. cache'[l] = [unit |-> net["server"][l - pos["server"]], dirty |-> TRUE]
        BY <2>2, <3>1
      <4>2. cache'[l].dirty /\ ~NotCached.dirty /\ cache'[l].unit = net["server"][l - pos["server"]]
        BY <4>1 DEF NotCached
      <4>3. Dirty(l)'
        BY <4>2 DEF Dirty, NotCached
      <4> QED
        BY <2>3, <3>1, <4>2, <4>3 DEF Stored, Held
    <3>2. CASE l \notin pos["server"] + 1 .. pos["server"] + m
      <4>1. cache'[l] = cache[l] /\ memory' = memory
        BY <2>2, <2>3, <3>2
      <4> QED
        BY <2>3, <3>2, <4>1 DEF Stored, Held, Dirty, NotCached
    <3> QED
      BY <3>1, <3>2
  <2>7. CASE Asking
    <3>1. IF pos["server"] + m = Lines
          THEN /\ pc'["client"] = "receive" /\ pos'["client"] = 0 /\ pc'["server"] = "flush"
               /\ net'["client"] = <<>> /\ net'["server"] = <<>>
               /\ \A l \in 1 .. Lines : Stored(l)' = <<k, "raw">>
          ELSE Asking'
      BY <2>3, <2>4, <2>5, <2>6, <2>7, ServerReads
    <3> QED
      BY <2>3, <3>1 DEF Working
  <2>8. CASE pc["client"] = "exit"
    BY <2>5, <2>8, WentServer DEF Leaving
  <2>9. ~Answered
    BY <2>5 DEF Took, Answered, Coming
  <2> QED
    BY <2>1, <2>3, <2>7, <2>8, <2>9 DEF Round, Working, Answering, Leaving
<1>3. CASE FlushAndStart
  <2>1. Live /\ peer = "board"
    BY <1>3, LiveBefore DEF FlushAndStart, Side, Places
  <2>2. /\ pc["server"] = "flush" /\ pc'["server"] = "wait"
        /\ pc'["client"] = pc["client"] /\ pos'["client"] = pos["client"]
        /\ UNCHANGED <<peer, k, net, filter>>
        /\ cache' = [l \in 1 .. Lines |-> NotCached]
    BY <1>0, <1>3 DEF FlushAndStart, Goto, Typed, Ends
  <2>3. CASE Working
    <3>1. \A l \in 1 .. Lines : memory'[l] = <<k, "raw">>
      BY <1>3, <2>1, <2>2, <2>3 DEF FlushAndStart, WrittenBack, Working, Stored, Held
    <3>2. filter'[1] = "get" /\ filter'[2] = "get" /\ jobs'["start_2"] = 0 /\ jobs'["done"] = 0
      BY <1>3, <2>2, JobPlaces DEF FlushAndStart, Side, Typed, Mailboxes
    <3>3. flying'[1].line = 0 /\ flying'[2].line = 0
      BY <1>3, <2>2, Grounded DEF FlushAndStart
    <3>4. \A l \in 1 .. Lines : Landed(l)' = <<k, "raw">>
      BY <3>1, <3>3 DEF Landed
    <3>5. Filtering'
      BY <2>2, <3>2, <3>4 DEF Filtering
    <3> QED
      BY <2>2, <2>3, <3>5 DEF Working
  <2>4. CASE pc["client"] = "exit"
    BY <2>2, <2>4 DEF Leaving
  <2> QED
    BY <2>1, <2>2, <2>3, <2>4 DEF Round, Asking, Answering, Answered, Leaving
<1>4. CASE Filtered
  <2>1. Live /\ peer = "board"
    BY <1>4, LiveBefore DEF Filtered, Side, Places
  <2>2. /\ pc["server"] = "wait" /\ pc'["server"] = "reply" /\ pos'["server"] = 0
        /\ pc'["client"] = pc["client"] /\ pos'["client"] = pos["client"]
        /\ UNCHANGED <<peer, k, net, got>>
        /\ cache' = [l \in 1 .. Lines |-> NotCached]
    BY <1>0, <1>4 DEF Filtered, Goto, Typed, Ends
  <2>3. CASE Working
    <3>1. jobs["done"] = 1
      BY <1>4, JobPlaces DEF Filtered, Side
    <3>2. \A l \in 1 .. Lines : memory'[l] = <<k, "filtered">>
      <4>1. \A l \in 1 .. Lines : memory'[l] = memory[l]
        BY <1>4, <2>2, <2>3 DEF Filtered, WrittenBack, Working, Dirty
      <4>2. flying[1].line = 0 /\ flying[2].line = 0
        <5>1. flying' = flying /\ filter' = filter /\ filter[2] = "get" /\ jobs'["done"] = 0
          BY <1>4, <3>1, JobPlaces DEF Filtered, Side, Typed, Mailboxes
        <5>2. ~(flying[2].line > 0)
          BY <5>1 DEF LandsFirst, To, Filters
        <5>3. flying[2].line \in Nat /\ flying[1].line = 0
          BY <3>1, Grounded DEF Typed, OnTheWay, Filters
        <5> QED
          BY <5>2, <5>3
      <4>3. \A l \in 1 .. Lines : Landed(l) = memory[l]
        BY <4>2 DEF Landed
      <4> QED
        BY <2>2, <2>3, <3>1, <4>1, <4>3 DEF Working, Filtering
    <3>3. Len(net'["client"]) = 0
      BY <2>2, <2>3 DEF Working
    <3>4. \A l \in 1 .. Lines : cache'[l] = NotCached'
      BY <2>2 DEF NotCached
    <3> QED
      BY <2>1, <2>2, <2>3, <3>2, <3>3, <3>4 DEF Working, Answering, Coming
  <2>4. CASE pc["client"] = "exit"
    BY <2>2, <2>4 DEF Leaving
  <2> QED
    BY <2>1, <2>2, <2>3, <2>4 DEF Round, Asking, Answering, Answered, Leaving
<1>5. CASE WriteFrame
  <2>1. Live
    BY <1>5, SendKeeps, LiveBefore DEF WriteFrame
  <2>2. SendSome("server", Seen, "frame")
    BY <1>5, <2>1, NoLoss DEF WriteFrame
  <2>3. /\ pc["server"] = "reply" /\ UNCHANGED <<peer, k, got, memory>> /\ peer = "board"
        /\ cache' = [l \in 1 .. Lines |->
                       IF cache[l] = NotCached THEN [unit |-> memory[l], dirty |-> FALSE] ELSE cache[l]]
    BY <1>5 DEF WriteFrame
  <2>4. Seen \in Seq(Units) /\ Len(Seen) = Lines
    <3>1. Seen \in [1 .. Lines -> Units]
      BY DEF Seen, Typed, Cached
    <3> QED
      BY <3>1, Messages
  <2>5. PICK m \in 1 .. Lines - pos["server"] : Went("server", m, Lines, "frame") /\ Gave("server", Seen, m)
    BY <1>0, <2>2, <2>4, SendGives
  <2>6. CASE Answering
    <3>1. \A l \in 1 .. Lines : /\ memory[l] = <<k, "filtered">>
                                /\ cache[l] # NotCached => cache[l] = [unit |-> memory[l], dirty |-> FALSE]
      BY <2>3, <2>6 DEF Answering
    <3>2. \A l \in 1 .. Lines : Seen[l] = <<k, "filtered">>
      <4> TAKE l \in 1 .. Lines
      <4>1. cache[l] # NotCached => cache[l].unit = memory[l]
        <5>1. [unit |-> memory[l], dirty |-> FALSE].unit = memory[l]
          OBVIOUS
        <5> QED
          BY <3>1, <5>1, Zenon
      <4> QED
        BY <3>1, <4>1 DEF Seen
    <3>3. \A l \in 1 .. Lines : cache'[l] = [unit |-> memory[l], dirty |-> FALSE]
      BY <2>3, <3>1
    <3> QED
      BY <2>3, <2>4, <2>5, <2>6, <3>2, <3>3, ServerWrites
  <2>7. CASE pc["client"] = "exit"
    BY <2>5, <2>7, WentServer DEF Leaving
  <2> QED
    BY <2>1, <2>3, <2>6, <2>7 DEF Round, Asking, Working, Answered, Leaving
<1> QED
  BY <1>1, <1>2, <1>3, <1>4, <1>5 DEF ethernet_function

\* A filter moves the job, and the lines, one step on.
LEMMA FilterRound ==
  ASSUME Typed, Side, LandsFirst, Working, pc["server"] = "wait", NEW f \in Filters, HwFilter(f)
  PROVE  Working'
<1>0. UNCHANGED <<peer, sockets, pc, pos, k, cache>>
  BY DEF HwFilter, FilterGet, FilterLine, FilterAck
<1>1. /\ jobs["start_1"] \in Nat /\ jobs["start_2"] \in Nat /\ jobs["done"] \in Nat
      /\ DOMAIN jobs = Mailboxes /\ filter \in [Filters -> {"get", "line", "ack"}] /\ f \in {1, 2}
      /\ line \in [Filters -> Nat] /\ memory \in [1 .. Lines -> Units]
  BY DEF Typed, Mailboxes, Filters
<1>2. Filtering
  BY DEF Working
<1>7. ASSUME UNCHANGED <<memory, flying>> PROVE \A l : Landed(l)' = Landed(l)
  BY <1>7 DEF Landed
<1>3. ASSUME FilterGet(f) PROVE Filtering'
  <2>1. CASE f = 1
    <3>1. jobs["start_1"] > 0 /\ jobs'["start_1"] = jobs["start_1"] - 1
          /\ jobs'["start_2"] = jobs["start_2"] /\ jobs'["done"] = jobs["done"]
          /\ filter'[1] = "line" /\ filter'[2] = filter[2] /\ line'[1] = 1
      BY <1>1, <1>3, <2>1 DEF FilterGet, From, Mailboxes, Filters
    <3>2. jobs["start_1"] = 1 /\ jobs["start_2"] = 0 /\ filter[2] = "get" /\ jobs["done"] = 0
      BY <3>1, JobPlaces DEF Side
    <3>3. \A l : Landed(l)' = Landed(l)
      BY <1>3, <1>7 DEF FilterGet
    <3> QED
      BY <1>0, <1>2, <3>1, <3>2, <3>3 DEF Filtering
  <2>2. CASE f = 2
    <3>1. jobs["start_2"] > 0 /\ jobs'["start_2"] = jobs["start_2"] - 1
          /\ jobs'["start_1"] = jobs["start_1"] /\ jobs'["done"] = jobs["done"]
          /\ filter'[2] = "line" /\ filter'[1] = filter[1] /\ line'[2] = 1
      BY <1>1, <1>3, <2>2 DEF FilterGet, From, Mailboxes, Filters
    <3>2. jobs["start_2"] = 1 /\ jobs["start_1"] = 0 /\ filter[1] = "get" /\ jobs["done"] = 0
      BY <3>1, JobPlaces DEF Side
    <3>3. \A l : Landed(l)' = Landed(l)
      BY <1>3, <1>7 DEF FilterGet
    <3> QED
      BY <1>0, <1>2, <3>1, <3>2, <3>3 DEF Filtering
  <2> QED
    BY <1>1, <2>1, <2>2
<1>4. ASSUME FilterLine(f) PROVE Filtering'
  <2>1. CASE f = 1
    <3>1. jobs' = jobs /\ filter[1] = "line" /\ filter'[1] = (IF line[1] = Lines THEN "ack" ELSE "line")
          /\ filter'[2] = filter[2] /\ line'[1] = line[1] + 1
          /\ memory' = memory /\ flying[1].line = 0 /\ flying'[2] = flying[2]
          /\ flying'[1] = [line |-> line[1],
                           unit |-> <<memory[line[1]][1], IF memory[line[1]][2] = "raw" THEN "mirrored" ELSE "spoilt">>]
      BY <1>1, <1>4, <2>1 DEF FilterLine, Stages, Filters, Typed
    <3>2. jobs["start_1"] = 0 /\ jobs["start_2"] = 0 /\ filter[2] = "get" /\ jobs["done"] = 0
      BY <3>1, JobPlaces DEF Side
    <3>5. line[1] \in 1 .. Lines /\ flying[2].line = 0
      BY <3>1, Grounded DEF Typed, Filters
    <3>6. \A l \in 1 .. Lines : Landed(l) = memory[l]
      BY <3>1, <3>5 DEF Landed
    <3>7. flying'[1].line = line[1] /\ flying'[2].line = 0
      BY <3>1, <3>5
    <3>8. \A l \in 1 .. Lines : Landed(l)' = IF l = line[1] THEN flying'[1].unit ELSE memory[l]
      BY <3>1, <3>7 DEF Landed
    <3>3. \A l \in 1 .. Lines : memory[l] = <<k, IF l < line[1] THEN "mirrored" ELSE "raw">>
      BY <1>2, <3>1, <3>6 DEF Filtering
    <3>4. \A l \in 1 .. Lines : Landed(l)' = <<k, IF l < line[1] + 1 THEN "mirrored" ELSE "raw">>
      <4> TAKE l \in 1 .. Lines
      <4>1. CASE l = line[1]
        <5>1. memory[l] = <<k, "raw">>
          BY <3>3, <4>1
        <5>2. Landed(l)' = <<memory[l][1], IF memory[l][2] = "raw" THEN "mirrored" ELSE "spoilt">>
          BY <3>1, <3>8, <4>1
        <5>3. Landed(l)' = <<k, "mirrored">>
          BY <5>1, <5>2
        <5> QED
          BY <3>5, <4>1, <5>3
      <4>2. CASE l < line[1]
        <5>1. ~(l = line[1]) /\ l < line[1] + 1
          BY <3>5, <4>2
        <5>2. Landed(l)' = memory[l]
          BY <3>8, <5>1
        <5> QED
          BY <3>3, <4>2, <5>1, <5>2
      <4>3. CASE line[1] < l
        <5>1. ~(l = line[1]) /\ ~(l < line[1]) /\ ~(l < line[1] + 1)
          BY <3>5, <4>3
        <5>2. Landed(l)' = memory[l]
          BY <3>8, <5>1
        <5> QED
          BY <3>3, <5>1, <5>2
      <4> QED
        BY <3>5, <4>1, <4>2, <4>3
    <3> QED
      BY <1>0, <3>1, <3>2, <3>4, <3>5 DEF Filtering
  <2>2. CASE f = 2
    <3>1. jobs' = jobs /\ filter[2] = "line" /\ filter'[2] = (IF line[2] = Lines THEN "ack" ELSE "line")
          /\ filter'[1] = filter[1] /\ line'[2] = line[2] + 1
          /\ memory' = memory /\ flying[2].line = 0 /\ flying'[1] = flying[1]
          /\ flying'[2] = [line |-> line[2],
                           unit |-> <<memory[line[2]][1], IF memory[line[2]][2] = "mirrored" THEN "filtered" ELSE "spoilt">>]
      BY <1>1, <1>4, <2>2 DEF FilterLine, Stages, Filters, Typed
    <3>2. jobs["start_1"] = 0 /\ jobs["start_2"] = 0 /\ filter[1] = "get" /\ jobs["done"] = 0
      BY <3>1, JobPlaces DEF Side
    <3>5. line[2] \in 1 .. Lines /\ flying[1].line = 0
      BY <3>1, Grounded DEF Typed, Filters
    <3>6. \A l \in 1 .. Lines : Landed(l) = memory[l]
      BY <3>1, <3>5 DEF Landed
    <3>7. flying'[2].line = line[2] /\ flying'[1].line = 0
      BY <3>1, <3>5
    <3>8. \A l \in 1 .. Lines : Landed(l)' = IF l = line[2] THEN flying'[2].unit ELSE memory[l]
      BY <3>1, <3>7 DEF Landed
    <3>3. \A l \in 1 .. Lines : memory[l] = <<k, IF l < line[2] THEN "filtered" ELSE "mirrored">>
      BY <1>2, <3>1, <3>6 DEF Filtering
    <3>4. \A l \in 1 .. Lines : Landed(l)' = <<k, IF l < line[2] + 1 THEN "filtered" ELSE "mirrored">>
      <4> TAKE l \in 1 .. Lines
      <4>1. CASE l = line[2]
        <5>1. memory[l] = <<k, "mirrored">>
          BY <3>3, <4>1
        <5>2. Landed(l)' = <<memory[l][1], IF memory[l][2] = "mirrored" THEN "filtered" ELSE "spoilt">>
          BY <3>1, <3>8, <4>1
        <5>3. Landed(l)' = <<k, "filtered">>
          BY <5>1, <5>2
        <5> QED
          BY <3>5, <4>1, <5>3
      <4>2. CASE l < line[2]
        <5>1. ~(l = line[2]) /\ l < line[2] + 1
          BY <3>5, <4>2
        <5>2. Landed(l)' = memory[l]
          BY <3>8, <5>1
        <5> QED
          BY <3>3, <4>2, <5>1, <5>2
      <4>3. CASE line[2] < l
        <5>1. ~(l = line[2]) /\ ~(l < line[2]) /\ ~(l < line[2] + 1)
          BY <3>5, <4>3
        <5>2. Landed(l)' = memory[l]
          BY <3>8, <5>1
        <5> QED
          BY <3>3, <5>1, <5>2
      <4> QED
        BY <3>5, <4>1, <4>2, <4>3
    <3> QED
      BY <1>0, <3>1, <3>2, <3>4, <3>5 DEF Filtering
  <2> QED
    BY <1>1, <2>1, <2>2
<1>5. ASSUME FilterAck(f) PROVE Filtering'
  <2>1. CASE f = 1
    <3>1. filter[1] = "ack" /\ filter'[1] = "get" /\ filter'[2] = filter[2]
          /\ jobs'["start_1"] = jobs["start_1"] /\ jobs'["start_2"] = jobs["start_2"] + 1 /\ jobs'["done"] = jobs["done"]
      BY <1>1, <1>5, <2>1 DEF FilterAck, To, Mailboxes, Filters
    <3>2. jobs["start_1"] = 0 /\ jobs["start_2"] = 0 /\ filter[2] = "get" /\ jobs["done"] = 0
      BY <3>1, JobPlaces DEF Side
    <3>3. \A l : Landed(l)' = Landed(l)
      BY <1>5, <1>7 DEF FilterAck
    <3> QED
      BY <1>0, <1>2, <3>1, <3>2, <3>3 DEF Filtering
  <2>2. CASE f = 2
    <3>1. filter[2] = "ack" /\ filter'[2] = "get" /\ filter'[1] = filter[1]
          /\ jobs'["start_1"] = jobs["start_1"] /\ jobs'["start_2"] = jobs["start_2"] /\ jobs'["done"] = jobs["done"] + 1
      BY <1>1, <1>5, <2>2 DEF FilterAck, To, Mailboxes, Filters
    <3>2. jobs["start_1"] = 0 /\ jobs["start_2"] = 0 /\ filter[1] = "get" /\ jobs["done"] = 0
      BY <3>1, JobPlaces DEF Side
    <3>3. \A l : Landed(l)' = Landed(l)
      BY <1>5, <1>7 DEF FilterAck
    <3> QED
      BY <1>0, <1>2, <3>1, <3>2, <3>3 DEF Filtering
  <2> QED
    BY <1>1, <2>1, <2>2
<1>6. Filtering'
  BY <1>3, <1>4, <1>5 DEF HwFilter
<1> QED
  BY <1>0, <1>6 DEF Working, sockets

\* What arrives was counted as there.
LEMMA ArriveRound ==
  ASSUME Typed, Side, LandsFirst, Round, NEW f \in Filters, Arrive(f), Live'
  PROVE  Round'
<1>0. UNCHANGED <<peer, sockets, pc, pos, k, cache, jobs, filter, line>> /\ Live
  BY DEF Arrive, Live, sockets
<1>1. /\ flying[f].line > 0 /\ memory' = [memory EXCEPT ![flying[f].line] = flying[f].unit]
      /\ flying' = [flying EXCEPT ![f] = NoLine] /\ f \in {1, 2} /\ flying \in [{1, 2} -> OnTheWay]
  BY DEF Arrive, Typed, Filters
<1>2. pc["server"] = "wait" /\ \A g \in {1, 2} : g # f => flying[g].line = 0
  <2>1. CASE f = 1
    <3>1. filter[1] # "get" \/ jobs["start_2"] > 0
      BY <1>1, <2>1 DEF LandsFirst, To, Filters
    <3> QED
      <4>1. pc["server"] = "wait" /\ filter[2] = "get" /\ jobs["done"] = 0
        BY <3>1, JobPlaces DEF Side
      <4>2. ~(flying[2].line > 0)
        BY <4>1 DEF LandsFirst, To, Filters
      <4>3. flying[2].line \in Nat
        BY <1>1 DEF OnTheWay
      <4> QED
        BY <2>1, <4>1, <4>2, <4>3
  <2>2. CASE f = 2
    <3>1. filter[2] # "get" \/ jobs["done"] > 0
      BY <1>1, <2>2 DEF LandsFirst, To, Filters
    <3>2. flying[1].line = 0
      BY <3>1, Grounded
    <3>3. pc["server"] = "wait"
      BY <3>1, JobPlaces DEF Side
    <3> QED
      BY <2>2, <3>2, <3>3
  <2> QED
    BY <1>1, <2>1, <2>2
<1>3. CASE Working
  <2>1. \A l \in 1 .. Lines : Landed(l)' = Landed(l)
    <3> TAKE l \in 1 .. Lines
    <3>1. \A g \in {1, 2} : flying'[g].line = 0
      BY <1>1, <1>2 DEF NoLine
    <3>2. Landed(l)' = memory'[l]
      BY <3>1 DEF Landed
    <3>3. Landed(l) = IF flying[f].line = l THEN flying[f].unit ELSE memory[l]
      BY <1>1, <1>2 DEF Landed
    <3>4. memory'[l] = IF flying[f].line = l THEN flying[f].unit ELSE memory[l]
      BY <1>1 DEF Typed
    <3> QED
      BY <3>2, <3>3, <3>4
  <2>2. Filtering'
    BY <1>0, <1>2, <1>3, <2>1 DEF Working, Filtering
  <2> QED
    BY <1>0, <1>2, <1>3, <2>2 DEF Working, Round, sockets
<1>4. CASE pc["client"] = "exit"
  BY <1>0, <1>4 DEF Round, Leaving
<1> QED
  BY <1>0, <1>2, <1>3, <1>4 DEF Round, Asking, Answering, Answered, Leaving

\* A line that the cache gives up is found in memory.
LEMMA EvictRound ==
  ASSUME Typed, Round, Evict, Live'
  PROVE  Round'
<1>0. UNCHANGED <<peer, sockets, pc, pos, k, got, buffer, jobs, filter, line>> /\ Live
  BY DEF Evict, sockets, Live
<1> SUFFICES Asking' \/ Working' \/ Answering' \/ Answered' \/ Leaving'
  BY DEF Round
<1>1. PICK e \in 1 .. Lines :
        cache[e] # NotCached /\ memory' = WrittenBack({e}) /\ cache' = [cache EXCEPT ![e] = NotCached]
  BY DEF Evict
<1>2. \A l \in 1 .. Lines : /\ cache'[l] = IF l = e THEN NotCached ELSE cache[l]
                            /\ memory'[l] = IF l = e THEN Held(l) ELSE memory[l]
  BY <1>1 DEF Typed, WrittenBack, Held
<1>3. \A l \in 1 .. Lines : Stored(l)' = Stored(l)
  <2> TAKE l \in 1 .. Lines
  <2>1. Held(l)' = Held(l)
    <3>1. CASE l = e
      <4>1. ~Dirty(l)' /\ memory'[l] = Held(l)
        BY <1>2, <3>1 DEF Dirty, NotCached
      <4> QED
        BY <4>1 DEF Held
    <3>2. CASE l # e
      <4>1. cache'[l] = cache[l] /\ memory'[l] = memory[l]
        BY <1>2, <3>2
      <4> QED
        BY <4>1 DEF Held, Dirty, NotCached
    <3> QED
      BY <3>1, <3>2
  <2> QED
    BY <1>0, <2>1 DEF Stored
<1>4. CASE Asking
  <2>1. pc["server"] = "frame" => 1 .. pos["server"] \subseteq 1 .. Lines
    BY <1>4, Positions DEF Asking
  <2> QED
    BY <1>0, <1>3, <1>4, <2>1 DEF Asking, Sent, Taken, sockets
<1>5. CASE Working
  <2>1. pc["server"] # "wait"
    BY <1>1, <1>5 DEF Working
  <2> QED
    BY <1>0, <1>3, <1>5, <2>1 DEF Working, sockets
<1>6. CASE Answering
  <2>1. CASE peer = "board"
    <3>1. cache[e] = [unit |-> memory[e], dirty |-> FALSE]
      BY <1>1, <1>6, <2>1 DEF Answering
    <3>2. ~[unit |-> memory[e], dirty |-> FALSE].dirty
      OBVIOUS
    <3>3. Held(e) = memory[e]
      BY <3>1, <3>2 DEF Held, Dirty
    <3>4. \A l \in 1 .. Lines : memory'[l] = memory[l]
      BY <1>2, <3>3
    <3>5. \A l \in 1 .. Lines : cache'[l] # NotCached => cache'[l] = [unit |-> memory'[l], dirty |-> FALSE]
      BY <1>2, <1>6, <2>1, <3>4 DEF Answering
    <3> QED
      BY <1>0, <1>6, <2>1, <3>4, <3>5 DEF Answering, Coming, sockets, NotCached
  <2>2. CASE peer # "board"
    BY <1>0, <1>6, <2>2 DEF Answering, Coming, sockets
  <2> QED
    BY <2>1, <2>2
<1>7. CASE Answered \/ Leaving
  BY <1>0, <1>7 DEF Answered, Leaving, Coming, sockets, Frame
<1> QED
  BY <1>0, <1>4, <1>5, <1>6, <1>7 DEF Round

\* So do all.
LEMMA RoundStep ==
  ASSUME Typed, Side, LandsFirst, LandsFirst', Round, [Next]_vars
  PROVE  Round'
<1> USE DEF board, sockets
<1> SUFFICES ASSUME Live' PROVE Round'
  BY DEF Round
<1>1. CASE tcp_server_create \/ accept_connection
  <2>1. Live /\ pc["server"] = "listen" /\ pc'["client"] = pc["client"]
    BY <1>1, LiveBefore DEF tcp_server_create, accept_connection, Goto, Typed, Ends
  <2>2. pc["client"] = "exit"
    BY <2>1 DEF Round, Asking, Working, Answering, Answered, Leaving
  <2> QED
    BY <2>1, <2>2 DEF Round, Leaving
<1>2. CASE Lose
  BY <1>2 DEF Lose, Live
<1>3. CASE UNCHANGED vars
  <2>1. /\ \A l : Landed(l)' = Landed(l) /\ Stored(l)' = Stored(l)
        /\ Sent' = Sent /\ Taken' = Taken /\ (Live' <=> Live)
    BY <1>3 DEF vars, Landed, Stored, Held, Dirty, NotCached, Sent, Taken, Live
  <2>2. Filtering => Filtering'
    BY <1>3, <2>1 DEF vars, Filtering
  <2>3. Asking \/ Working => Asking' \/ Working'
    BY <1>3, <2>1, <2>2 DEF vars, Asking, Working, NotCached
  <2>4. Answering \/ Answered \/ Leaving => Answering' \/ Answered' \/ Leaving'
    BY <1>3 DEF vars, Answering, Answered, Leaving, Coming, NotCached, Frame
  <2> QED
    BY <2>1, <2>3, <2>4 DEF Round
<1>4. ASSUME NEW f \in Filters, HwFilter(f) PROVE Round'
  <2>1. UNCHANGED <<sockets, pc>> /\ Live
    BY <1>4 DEF HwFilter, FilterGet, FilterLine, FilterAck, Live
  <2>2. pc["server"] = "wait"
    <3>1. \/ f = 1 /\ (jobs["start_1"] > 0 \/ filter[1] # "get")
          \/ f = 2 /\ (jobs["start_2"] > 0 \/ filter[2] # "get")
      BY <1>4 DEF HwFilter, FilterGet, FilterLine, FilterAck, From, Filters
    <3> QED
      BY <3>1, JobPlaces DEF Side
  <2>3. CASE Working
    BY <1>4, <2>2, <2>3, FilterRound DEF Round
  <2>4. CASE pc["client"] = "exit"
    BY <2>1, <2>4 DEF Round, Leaving
  <2> QED
    BY <2>1, <2>2, <2>3, <2>4 DEF Round, Asking, Answering, Answered, Leaving
<1> QED
  BY <1>1, <1>2, <1>3, <1>4, ClientRound, VideoRound, BoardRound, EvictRound, ArriveRound DEF Next

-----------------------------------------------------------------------------
\* Before the first client nothing is on its way and nothing works.
LEMMA InitIInv ==
  Init => IInv
<1> SUFFICES ASSUME Init PROVE IInv
  OBVIOUS
<1>1. Typed
  <2>1. got \in [1 .. Lines -> Units] /\ buffer \in [1 .. Lines -> Units] /\ memory \in [1 .. Lines -> Units]
    BY FrameTyped DEF Init, Marks
  <2>2. cache \in [1 .. Lines -> Cached]
    <3>1. <<-1, "raw">> \in Units
      BY DEF Units, Marks
    <3> QED
      BY <3>1 DEF Init, NotCached, Cached
  <2>3. pc \in [Ends -> Spots] /\ pos \in [Ends -> Nat]
    BY DEF Init, Ends, Spots
  <2>4. net \in [Ends -> Seq(Units)]
    BY DEF Init
  <2>5. jobs \in [Mailboxes -> Nat] /\ filter \in [Filters -> {"get", "line", "ack"}] /\ line \in [Filters -> Nat] /\ k \in Nat
        /\ \A f \in Filters : filter[f] # "line"
    BY DEF Init, Mailboxes
  <2>6. flying \in [Filters -> OnTheWay]
    <3>1. NoLine \in OnTheWay
      BY DEF NoLine, OnTheWay, Units, Marks
    <3> QED
      BY <3>1 DEF Init
  <2> QED
    BY <2>1, <2>2, <2>3, <2>4, <2>5, <2>6 DEF Typed
<1>2. pc["client"] = "start" /\ pc["server"] = "listen"
  BY DEF Init
<1>3. Places /\ Apart /\ Round
  BY <1>2 DEF Init, Places, Apart, Round, Live, Ends
<1>4. OneJob
  BY <1>2 DEF Init, OneJob, Busy, Filters
<1> QED
  BY <1>1, <1>3, <1>4 DEF IInv

\* If no job leaves its mailbox before its last line is in memory, the client's
\* buffer holds its frame filtered whenever it is shown and the connection is still
\* there.
THEOREM FramesReturn ==
  Spec => FrameReturned
<1>1. IInv /\ LandsFirst /\ LandsFirst' /\ [Next]_vars => IInv'
  BY TypedStep, SideStep, RoundStep DEF IInv, Side
<1>2. IInv => ShowsFrame
  <2> SUFFICES ASSUME IInv, pc["client"] = "show", link = "open", "server" \notin closed
               PROVE  got = Frame(k, "filtered")
    BY DEF ShowsFrame
  <2>1. Live
    BY DEF IInv, Apart, Live, Ends
  <2> QED
    BY <2>1 DEF IInv, Round, Asking, Working, Answering, Answered, Leaving, Coming
<1> QED
  BY InitIInv, <1>1, <1>2, PTL DEF Spec, FrameReturned
=============================================================================
