------------------------------ MODULE Arbiter ------------------------------
(***************************************************************************)
(* The way of the hardware threads to the memory: the FIFOs of the slots,  *)
(* the arbiter (fifo32_arbiter.vhd with rr_arbiter.vhd), which lets one    *)
(* slot through for the length of one request, and the burst converter     *)
(* (fifo32_burst_converter.vhd), which cuts that request into chunks the   *)
(* MMU and the memory controller can carry out.  All run from one clock:   *)
(* one step is one clock edge, every register takes the value computed     *)
(* from the registers before it.                                           *)
(*                                                                         *)
(* No signal says who is being served or where a request ends: the arbiter,*)
(* the converter and the memory each count the words on their own.         *)
(*                                                                         *)
(* Sizes and addresses are in words.  In a slot's FIFO a word is known by  *)
(* its request and its place in it; on the wires, besides what the         *)
(* hardware sees, it carries the slot it comes from and, if it is data,    *)
(* the address it is meant for.                                            *)
(***************************************************************************)
EXTENDS Integers, Sequences

CONSTANTS
  Ports,      \* FIFO32_PORTS
  Depth,      \* C_FIFO32_DEPTH of a slot's FIFO
  Page,       \* C_PAGE_SIZE, in words
  Burst,      \* C_BURST_SIZE, in words
  Requests    \* of each slot: the requests its thread may make

ASSUME ArbiterAssumption ==
  /\ Ports \in Nat \ {0} /\ Depth \in Nat /\ Page \in Nat \ {0} /\ Burst \in Nat \ {0}
  /\ \A s \in 0 .. Ports - 1 : \A q \in Requests[s] :
       /\ q.mode \in {"read", "write"}
       /\ q.addr \in Nat /\ q.size \in Nat \ {0}
       /\ q.mode = "write" => q.size < Depth

VARIABLES
  thread,        \* of each slot: its request, the words sent and received
  fifo,          \* of each slot: the words on their way to the memory
  last_served,   \* rr_arbiter's register; sel2fsm holds the same
  sel2mux,       \* the slot that is let through
  fsm,           \* the arbiter's state, transfer_mode and transfer_size
  conv,          \* the converter's registers
  srv            \* the MMU and the memory controller, as one server

vars == <<thread, fifo, last_served, sel2mux, fsm, conv, srv>>

Slots == 0 .. Ports - 1
Idle == [mode |-> "none", addr |-> 0, size |-> 0]
Word(s, is, v) == [slot |-> s, is |-> is, v |-> v]
NoWord == Word(0, "none", 0)

\* What the word at place w.pos of request w.req looks like.
WordAt(s, w) ==
  IF w.pos = 0 THEN Word(s, w.req.mode, w.req.size)
  ELSE IF w.pos = 1 THEN Word(s, "address", w.req.addr)
  ELSE Word(s, "data", w.req.addr + w.pos - 2)

Init ==
  /\ thread = [s \in Slots |-> [req |-> Idle, sent |-> 0, got |-> 0]]
  /\ fifo = [s \in Slots |-> << >>]
  /\ last_served = 0
  /\ sel2mux = 0
  /\ fsm = [state |-> "MODE_LENGTH", mode |-> "read", size |-> 0]
  /\ conv = [state |-> "IDLE", slot |-> 0, mode |-> "read", remaining |-> 0, next |-> 0,
             size |-> 0, addr |-> 0, rd |-> FALSE, data |-> NoWord, fill |-> 0,
             mux_sel |-> TRUE]
  /\ srv = [at |-> "header", slot |-> 0, mode |-> "read", n |-> 0, addr |-> 0]

-----------------------------------------------------------------------------
\* The wires between the edges.  go says whether the memory moves a word, or
\* takes up what it waits for, at the coming edge.
IN_S_Fill == Len(fifo[sel2mux])
IN_S_Data == IF fifo[sel2mux] = << >> THEN NoWord ELSE WordAt(sel2mux, Head(fifo[sel2mux]))
OUT_S_Fill == IF conv.mux_sel THEN conv.fill ELSE IN_S_Fill
OUT_S_Data == IF conv.mux_sel THEN conv.data ELSE IN_S_Data
OUT_S_Rd(go) == srv.at \in {"cmd", "address"} \/ (srv.at = "write" /\ go)
IN_S_Rd(go) == IF conv.mux_sel THEN conv.rd ELSE OUT_S_Rd(go)
OUT_M_Wr(go) == srv.at = "read" /\ go

-----------------------------------------------------------------------------
\* The threads and the FIFOs.  A thread sends the header, the address and, to
\* write, the data, pausing where it likes; having asked to read, it waits
\* for the data.  memif sees to it that no FIFO overflows.
Total(q) == IF q.mode = "write" THEN q.size + 2 ELSE 2
Sends(s) ==
  LET t == thread[s] IN t.req # Idle /\ t.sent < Total(t.req) /\ Len(fifo[s]) < Depth - 1
WordOf(t) == [req |-> t.req, pos |-> t.sent]

Finished(t) == t.sent = Total(t.req) /\ (t.req.mode = "read" => t.got = t.req.size)

\* What a thread is after the edge: it sends, it receives, and when its
\* request is complete it is free for another.
Moved(old, sends, receives) ==
  LET t == [old EXCEPT !.sent = IF sends THEN @ + 1 ELSE @,
                       !.got = IF receives THEN @ + 1 ELSE @]
  IN IF t.req # Idle /\ Finished(t) THEN [req |-> Idle, sent |-> 0, got |-> 0] ELSE t

Threads(pushing, go) ==
  thread' = [s \in Slots |-> Moved(thread[s], s \in pushing, s = sel2mux /\ OUT_M_Wr(go))]

Popped(s, go) ==
  IF s = sel2mux /\ IN_S_Rd(go) /\ fifo[s] # << >> THEN Tail(fifo[s]) ELSE fifo[s]
Fifos(pushing, go) ==
  fifo' = [s \in Slots |->
             IF s \in pushing THEN Append(Popped(s, go), WordOf(thread[s])) ELSE Popped(s, go)]

-----------------------------------------------------------------------------
\* rr_arbiter.vhd: a slot is asked for while its FIFO holds more than one word.
requests(s) == Len(fifo[s]) > 1

\* Mutant: the search starts at the lowest slot.
next_servedLowest ==
  IF requests(last_served) \/ \A s \in Slots : ~requests(s) THEN last_served
  ELSE CHOOSE s \in Slots : requests(s) /\ \A u \in Slots : requests(u) => s <= u

next_served ==
  LET Nth(o) == (last_served + o) % Ports
      asking == {o \in 1 .. Ports : requests(Nth(o))}
  IN IF requests(last_served) \/ asking = {} THEN last_served
     ELSE Nth(CHOOSE o \in asking : \A u \in asking : o <= u)

-----------------------------------------------------------------------------
\* fsm_p of fifo32_arbiter.vhd.
\* Mutant: the count ends at one.
CountShort(moves) ==
  LET size == fsm.size - (IF moves THEN 1 ELSE 0)
  IN fsm' = [fsm EXCEPT !.size = size, !.state = IF size <= 1 THEN "MODE_LENGTH" ELSE @]
Count(moves) ==
  LET size == fsm.size - (IF moves THEN 1 ELSE 0)
  IN fsm' = [fsm EXCEPT !.size = size, !.state = IF size = 0 THEN "MODE_LENGTH" ELSE @]

TakeHeader(go) ==
  fsm' = [state |-> IF IN_S_Rd(go) THEN "ADDRESS" ELSE "MODE_LENGTH",
          mode |-> IF IN_S_Data.is = "read" THEN "read" ELSE "write",
          size |-> IN_S_Data.v]
TakeAddress ==
  fsm' = [fsm EXCEPT !.state = IF fsm.mode = "read" THEN "DATA_READ" ELSE "DATA_WRITE"]

FsmStep(go) ==
  \/ fsm.state = "MODE_LENGTH" /\ TakeHeader(go)
  \/ fsm.state = "ADDRESS" /\ TakeAddress
  \/ fsm.state = "DATA_READ" /\ Count(OUT_M_Wr(go))
  \/ fsm.state = "DATA_WRITE" /\ Count(IN_S_Rd(go))

\* Mutant: the selection follows the round robin at every edge.
ArbiterFsmLoose(go) == sel2mux' = last_served /\ FsmStep(go)

ArbiterFsm(go) ==
  /\ sel2mux' = IF fsm.state = "MODE_LENGTH" THEN last_served ELSE sel2mux
  /\ FsmStep(go)

-----------------------------------------------------------------------------
\* fsm_p of fifo32_burst_converter.vhd.
Least(a, b) == IF b < a THEN b ELSE a

\* Mutant: bursts only, pages forgotten.
calc_transfer_sizeBurst(offset, length) == Least(Burst, length)
calc_transfer_size(offset, length) == Least(Least(Page - offset, Burst), length)

\* A step that shows no data downstream.
Quiet(c, state) == [c EXCEPT !.state = state, !.rd = FALSE, !.data = NoWord, !.fill = 0]
Header(c) == Word(c.slot, c.mode, c.size)
Address(c) == Word(c.slot, "address", c.addr)
Show(c, state, word, more) ==
  [c EXCEPT !.state = state, !.rd = FALSE, !.data = word, !.fill = IN_S_Fill + more]

AfterCalc ==
  LET n == calc_transfer_size(conv.next % Page, conv.remaining)
      c == [conv EXCEPT !.size = n, !.addr = conv.next, !.next = conv.next + n]
  IN Show(c, "WRITE_MODE_LENGTH", Header(c), 2)

AfterWord(moves, c) ==
  LET d == [c EXCEPT !.remaining = @ - (IF moves THEN 1 ELSE 0),
                     !.size = @ - (IF moves THEN 1 ELSE 0)]
  IN IF d.remaining = 0 THEN Quiet([d EXCEPT !.mux_sel = TRUE], "IDLE")
     ELSE IF d.size = 0 THEN Quiet([d EXCEPT !.mux_sel = TRUE], "CALC")
     ELSE Quiet(d, c.state)

Converter(go) ==
  \/ /\ conv.state = "IDLE"
     /\ conv' = IF IN_S_Fill > 1 THEN [Quiet(conv, "MODE_LENGTH") EXCEPT !.rd = TRUE]
                ELSE Quiet(conv, "IDLE")
  \/ /\ conv.state = "MODE_LENGTH"
     /\ conv' = [Quiet(conv, "ADDRESS") EXCEPT !.rd = TRUE,
                   !.slot = IN_S_Data.slot, !.mode = IN_S_Data.is, !.remaining = IN_S_Data.v,
                   !.size = 0, !.addr = 0, !.next = 0]
  \/ conv.state = "ADDRESS" /\ conv' = [Quiet(conv, "CALC") EXCEPT !.next = IN_S_Data.v]
  \/ conv.state = "CALC" /\ conv' = AfterCalc
  \/ /\ conv.state = "WRITE_MODE_LENGTH"
     /\ conv' = IF OUT_S_Rd(go) THEN Show(conv, "WRITE_ADDRESS", Address(conv), 1)
                ELSE Show(conv, "WRITE_MODE_LENGTH", Header(conv), 2)
  \/ /\ conv.state = "WRITE_ADDRESS"
     /\ conv' = IF ~OUT_S_Rd(go) THEN Show(conv, "WRITE_ADDRESS", Address(conv), 1)
                ELSE IF conv.mode = "write"
                     THEN [Show(conv, "DATA_WRITE", IN_S_Data, 0) EXCEPT !.mux_sel = FALSE]
                     ELSE Show(conv, "DATA_READ", IN_S_Data, 0)
  \/ conv.state = "DATA_READ" /\ conv' = AfterWord(OUT_M_Wr(go), conv)
  \/ conv.state = "DATA_WRITE" /\ conv' = AfterWord(OUT_S_Rd(go), conv)

-----------------------------------------------------------------------------
\* The MMU and the memory controller: the header and the address are taken at
\* two edges in a row once two words are there; a write waits until all its
\* words are there, a read until there is room for them.
Moves(next) == [srv EXCEPT !.n = @ - 1, !.addr = @ + 1, !.at = IF srv.n = 1 THEN next ELSE @]

Server(go) ==
  \/ /\ srv.at = "header"
     /\ srv' = IF go /\ OUT_S_Fill > 1 THEN [srv EXCEPT !.at = "cmd"] ELSE srv
  \/ /\ srv.at = "cmd"
     /\ srv' = [at |-> "address", slot |-> OUT_S_Data.slot, mode |-> OUT_S_Data.is,
                n |-> OUT_S_Data.v, addr |-> 0]
  \/ /\ srv.at = "address"
     /\ srv' = [srv EXCEPT !.addr = OUT_S_Data.v, !.at = IF srv.mode = "read" THEN "read" ELSE "fill"]
  \/ /\ srv.at = "fill"
     /\ srv' = IF go /\ OUT_S_Fill >= srv.n THEN [srv EXCEPT !.at = "write"] ELSE srv
  \/ srv.at \in {"read", "write"} /\ srv' = IF go THEN Moves("complete") ELSE srv
  \/ /\ srv.at = "complete"
     /\ srv' = IF go THEN [srv EXCEPT !.at = "header", !.n = 0, !.addr = 0] ELSE srv

-----------------------------------------------------------------------------
Clock(pushing, go) ==
  /\ Threads(pushing, go)
  /\ Fifos(pushing, go)
  /\ last_served' = next_served
  /\ ArbiterFsm(go)
  /\ Converter(go)
  /\ Server(go)

\* A thread begins a request; that its first word needs room is in Sends.
Ask(s) ==
  /\ thread[s].req = Idle
  /\ \E q \in Requests[s] : thread' = [thread EXCEPT ![s].req = q]
  /\ UNCHANGED <<fifo, last_served, sel2mux, fsm, conv, srv>>

Pushers == {s \in Slots : Sends(s)}

Next ==
  \/ \E go \in BOOLEAN, pushing \in SUBSET Pushers : Clock(pushing, go)
  \/ \E s \in Slots : Ask(s)

Spec == Init /\ [][Next]_vars

\* The clock runs, the memory does not pause for ever, and a thread that has
\* begun a request sends it.
Fairness ==
  /\ WF_vars(\E pushing \in SUBSET Pushers : Clock(pushing, TRUE))
  /\ \A s \in Slots :
       WF_vars(\E go \in BOOLEAN, pushing \in SUBSET Pushers : s \in pushing /\ Clock(pushing, go))

FairSpec == Spec /\ Fairness

-----------------------------------------------------------------------------
\* The three counts agree: the memory gets a header, its address and its data
\* one after the other from one slot, every word of data goes to the address
\* it was meant for, and no word is taken from an empty FIFO.
Framed ==
  /\ conv.mux_sel /\ conv.rd => fifo[sel2mux] # << >>
  /\ srv.at = "cmd" => OUT_S_Data.is \in {"read", "write"}
  /\ srv.at = "address" => OUT_S_Data.is = "address" /\ OUT_S_Data.slot = srv.slot
  /\ srv.at = "write" => OUT_S_Fill > 0 /\ OUT_S_Data = Word(srv.slot, "data", srv.addr)

\* What is read goes to the thread that asked for it, in the order it asked.
Returned ==
  srv.at = "read" =>
    LET t == thread[srv.slot] IN
      /\ sel2mux = srv.slot
      /\ t.req.mode = "read"
      /\ srv.addr = t.req.addr + t.got
      /\ t.got + srv.n <= t.req.size

\* No chunk crosses a page, whose neighbour may lie anywhere in memory, and
\* none is longer than a burst.
ChunkFits ==
  srv.at \in {"fill", "read", "write"} =>
    srv.n \in 1 .. Burst /\ (srv.addr % Page) + srv.n <= Page

\* Every request a thread begins is carried out, unless the slot whose turn it
\* is keeps its request line up for ever: the round robin waits for it to fall.
LineFalls == []<>~requests(last_served)
Served == LineFalls => \A s \in Slots : (thread[s].req # Idle) ~> (thread[s].req = Idle)
=============================================================================
