------------------------------- MODULE Memif -------------------------------
(***************************************************************************)
(* A hardware thread's memory transfers: the procedures memif_write,       *)
(* memif_read, memif_write_word and memif_read_word of reconos_pkg.vhd,    *)
(* which the thread's state machine calls at every clock edge, and the two *)
(* FIFOs (fifo32.vhd) to and from the memory system.                       *)
(*                                                                         *)
(* A FIFO guards nothing: a word written to a full one, or read from an    *)
(* empty one, moves its pointers past each other.  The procedures check    *)
(* the FIFO's fill before a block, one or two clocks ahead of their own    *)
(* registered words, and that is what keeps the pointers apart, or not.    *)
(*                                                                         *)
(* The memory system behind the FIFOs (arbiter, converter, MMU, controller)*)
(* is a server that carries out one request after the other and may pause  *)
(* at any clock, as it does while it serves another thread.                *)
(***************************************************************************)
EXTENDS Naturals, FiniteSets

CONSTANTS
  Depth,      \* C_FIFO32_DEPTH, a power of two
  BlockSize,  \* C_BLOCK_SIZE
  Words,      \* words of the main memory and of the local one
  Ops,        \* operations the thread may ask for
  MaxOps,     \* bound on how many
  Drained     \* whether the thread waits, before a block write, until all it
              \* wrote has left its FIFO

ASSUME MemifAssumption ==
  /\ Depth \in Nat \ {0, 1}
  /\ BlockSize \in Nat \ {0}
  /\ Words \in Nat \ {0}
  /\ MaxOps \in Nat
  /\ Drained \in BOOLEAN
  /\ \A o \in Ops : /\ o.op \in {"write", "read", "write_word", "read_word"}
                    /\ o.local \in Nat /\ o.remote \in Nat /\ o.len \in Nat
                    /\ o.local + o.len <= Words /\ o.remote + o.len <= Words

VARIABLES
  op,           \* the operation under way, or Idle
  r,            \* o_memif and o_ram, the thread's registers
  ramData,      \* the local memory's output register
  ram, mem,     \* the local memory and the main memory
  out, in,      \* the FIFOs to and from the memory system
  srv,          \* the server: what it is at, of which request
  ops,          \* operations so far
  wantRam, wantMem   \* what the memories have to hold once all is done

vars == <<op, r, ramData, ram, mem, out, in, srv, ops, wantRam, wantMem>>

NoValue == <<"none", 0>>
Idle == [op |-> "none", local |-> 0, remote |-> 0, len |-> 0]
Word(is, n, v) == [is |-> is, n |-> n, v |-> v]
NoWord == Word("none", 0, NoValue)

-----------------------------------------------------------------------------
\* fifo32.vhd.
Fill(f) == IF f.wrptr >= f.rdptr THEN f.wrptr - f.rdptr ELSE (Depth + f.wrptr) - f.rdptr
Remainder(f) == (Depth - 1) - Fill(f)
S_Data(f) == f.mem[f.rdptr]

FifoEdge(f, wr, data, rd) ==
  [mem |-> IF wr THEN [f.mem EXCEPT ![f.wrptr] = data] ELSE f.mem,
   wrptr |-> IF wr THEN (f.wrptr + 1) % Depth ELSE f.wrptr,
   rdptr |-> IF rd THEN (f.rdptr + 1) % Depth ELSE f.rdptr]

-----------------------------------------------------------------------------
\* The procedures: what the registers are after the edge.  Every call first
\* takes back m_wr, s_rd and, where the local memory is used, we.
quiet == [r EXCEPT !.m_wr = FALSE, !.s_rd = FALSE, !.we = FALSE]
Push(x, word, next) == [x EXCEPT !.m_wr = TRUE, !.m_data = word, !.step = next]
Done == [quiet EXCEPT !.step = 0]
Smaller(a, b) == IF a > b THEN b ELSE a

memif_write_word ==
  IF r.step = 0 THEN [quiet EXCEPT !.step = IF Remainder(out) > 2 THEN 1 ELSE 0]
  ELSE IF r.step = 1 THEN Push(quiet, Word("write", 1, NoValue), 2)
  ELSE IF r.step = 2 THEN Push(quiet, Word("address", op.remote, NoValue), 3)
  ELSE IF r.step = 3 THEN Push(quiet, Word("data", 0, ram[op.local]), 4)
  ELSE Done

\* Mutant: the word is taken without waiting for it.
memif_read_wordEager ==
  IF r.step = 0 THEN [quiet EXCEPT !.step = IF Remainder(out) > 1 THEN 1 ELSE 0]
  ELSE IF r.step = 1 THEN Push(quiet, Word("read", 1, NoValue), 2)
  ELSE IF r.step = 2 THEN Push(quiet, Word("address", op.remote, NoValue), 4)
  ELSE IF r.step = 4 THEN [quiet EXCEPT !.s_rd = TRUE, !.step = 5]
  ELSE Done

\* Mutant: it waits for two.
memif_read_wordLate ==
  IF r.step = 0 THEN [quiet EXCEPT !.step = IF Remainder(out) > 1 THEN 1 ELSE 0]
  ELSE IF r.step = 1 THEN Push(quiet, Word("read", 1, NoValue), 2)
  ELSE IF r.step = 2 THEN Push(quiet, Word("address", op.remote, NoValue), 3)
  ELSE IF r.step = 3 THEN [quiet EXCEPT !.step = IF Fill(in) > 1 THEN 4 ELSE 3]
  ELSE IF r.step = 4 THEN [quiet EXCEPT !.s_rd = TRUE, !.step = 5]
  ELSE Done

memif_read_word ==
  IF r.step = 0 THEN [quiet EXCEPT !.step = IF Remainder(out) > 1 THEN 1 ELSE 0]
  ELSE IF r.step = 1 THEN Push(quiet, Word("read", 1, NoValue), 2)
  ELSE IF r.step = 2 THEN Push(quiet, Word("address", op.remote, NoValue), 3)
  ELSE IF r.step = 3 THEN [quiet EXCEPT !.step = IF Fill(in) > 0 THEN 4 ELSE 3]
  ELSE IF r.step = 4 THEN [quiet EXCEPT !.s_rd = TRUE, !.step = 5]
  ELSE Done

\* Mutant: the remote address is that of the operation before.
BlockStale(cmd) ==
  IF r.step = 0 THEN [quiet EXCEPT !.remainder = op.len, !.addr = op.local, !.step = 1]
  ELSE IF r.step = 1
       THEN [quiet EXCEPT !.count = Smaller(r.remainder, BlockSize),
                          !.step = IF r.remainder = 0 THEN 15 ELSE IF Remainder(out) > 1 THEN 2 ELSE 1]
  ELSE IF r.step = 2 THEN Push(quiet, Word(cmd, r.count, NoValue), 3)
  ELSE Push(quiet, Word("address", r.remote_addr, NoValue), 4)

\* Steps 0 to 3 of both: the operation's registers, and a block's header.
Block(cmd) ==
  IF r.step = 0 THEN [quiet EXCEPT !.remainder = op.len, !.addr = op.local, !.remote_addr = op.remote, !.step = 1]
  ELSE IF r.step = 1
       THEN [quiet EXCEPT !.count = Smaller(r.remainder, BlockSize),
                          !.step = IF r.remainder = 0 THEN 15 ELSE IF Remainder(out) > 1 THEN 2 ELSE 1]
  ELSE IF r.step = 2 THEN Push(quiet, Word(cmd, r.count, NoValue), 3)
  ELSE Push(quiet, Word("address", r.remote_addr, NoValue), 4)

memif_write ==
  IF r.step < 4 THEN Block("write")
  ELSE IF r.step = 4
       THEN IF r.count <= Remainder(out)
            THEN [quiet EXCEPT !.addr = @ + 1, !.remote_addr = @ + 1, !.step = 5] ELSE quiet
  ELSE IF r.step = 5
       THEN IF r.count = 0 THEN [quiet EXCEPT !.step = 1]
            ELSE [Push(quiet, Word("data", 0, ramData), 5) EXCEPT
                    !.remainder = @ - 1, !.count = @ - 1,
                    !.addr = IF r.count > 1 THEN @ + 1 ELSE @,
                    !.remote_addr = IF r.count > 1 THEN @ + 1 ELSE @]
  ELSE Done

memif_read ==
  IF r.step < 4 THEN Block("read")
  ELSE IF r.step = 4
       THEN IF r.count <= Fill(in) THEN [quiet EXCEPT !.s_rd = TRUE, !.step = 5] ELSE quiet
  ELSE IF r.step = 5
       THEN [quiet EXCEPT !.s_rd = TRUE, !.data = S_Data(in).v, !.we = TRUE,
                          !.remainder = @ - 1, !.count = @ - 1, !.step = 6]
  ELSE IF r.step = 6
       THEN IF r.count = 0 THEN [quiet EXCEPT !.addr = @ + 1, !.remote_addr = @ + 1, !.step = 1]
            ELSE [quiet EXCEPT !.s_rd = r.count > 1, !.data = S_Data(in).v, !.we = TRUE,
                               !.remainder = @ - 1, !.count = @ - 1, !.addr = @ + 1, !.remote_addr = @ + 1]
  ELSE Done

\* The step in which each says it is done.
Last == [write_word |-> 4, read_word |-> 5, write |-> 15, read |-> 15]
Finished == op # Idle /\ r.step = Last[op.op]

\* The procedure that the state calls, if any.
Called ==
  \/ op.op = "write_word" /\ r' = memif_write_word
  \/ op.op = "read_word" /\ r' = memif_read_word
  \/ op.op = "write" /\ r' = memif_write
  \/ op.op = "read" /\ r' = memif_read
  \/ op = Idle /\ UNCHANGED r

-----------------------------------------------------------------------------
\* The server.  A read's words go out once the FIFO has room for all of them,
\* a write's are taken once all of them are there, as xps_mem does.
Cell(a) == a % Words
Enough == IF srv.req.is = "write" THEN Fill(out) >= srv.req.n ELSE Remainder(in) >= srv.req.n

ServerTakes ==
  \/ srv.at = "header" /\ Fill(out) > 1
  \/ srv.at = "address"
  \/ srv.at = "data" /\ srv.req.is = "write"
ServerGives == srv.at = "data" /\ srv.req.is # "write"

ServerStep ==
  \/ srv.at = "header" /\ Fill(out) > 1 /\ srv' = [srv EXCEPT !.at = "address", !.req = S_Data(out)]
  \/ srv.at = "header" /\ Fill(out) <= 1 /\ UNCHANGED srv
  \/ srv.at = "address" /\ srv' = [srv EXCEPT !.at = "wait", !.addr = S_Data(out).n]
  \/ srv.at = "wait" /\ srv' = [srv EXCEPT !.at = IF Enough THEN "data" ELSE @]
  \/ srv.at = "data" /\ srv' = [srv EXCEPT !.req.n = @ - 1, !.addr = @ + 1,
                                           !.at = IF srv.req.n <= 1 THEN "header" ELSE @]

-----------------------------------------------------------------------------
\* The thread's state machine goes on to a state that calls a procedure.
Start(o) ==
  /\ op = Idle
  /\ ops < MaxOps
  /\ Drained /\ o.op = "write" => Fill(out) = 0 /\ srv.at = "header"
  /\ ops' = ops + 1
  /\ op' = o
  /\ IF o.op \in {"write", "write_word"}
     THEN /\ wantMem' = [a \in DOMAIN mem |-> IF a \in o.remote .. o.remote + o.len - 1
                                              THEN wantRam[o.local + (a - o.remote)] ELSE wantMem[a]]
          /\ UNCHANGED wantRam
     ELSE /\ wantRam' = [a \in DOMAIN ram |-> IF a \in o.local .. o.local + o.len - 1
                                              THEN wantMem[o.remote + (a - o.local)] ELSE wantRam[a]]
          /\ UNCHANGED wantMem
  /\ UNCHANGED <<r, ramData, ram, mem, out, in, srv>>

\* A clock edge; the server moves or pauses.
Clock(go) ==
  LET takes == go /\ ServerTakes
      gives == go /\ ServerGives
  IN  /\ Called
      /\ op' = IF Finished THEN Idle ELSE op
      /\ IF go THEN ServerStep ELSE UNCHANGED srv
      /\ out' = FifoEdge(out, r.m_wr, r.m_data, takes)
      /\ in' = FifoEdge(in, gives, Word("data", 0, mem[Cell(srv.addr)]), r.s_rd)
      /\ mem' = IF srv.at = "data" /\ takes THEN [mem EXCEPT ![Cell(srv.addr)] = S_Data(out).v] ELSE mem
      /\ ram' = IF r.we THEN [ram EXCEPT ![Cell(r.addr)] = r.data]
                ELSE IF op.op = "read_word" /\ r.step = 4 THEN [ram EXCEPT ![op.local] = S_Data(in).v]
                ELSE ram
      /\ ramData' = ram[Cell(r.addr)]
      /\ UNCHANGED <<ops, wantRam, wantMem>>

Init ==
  /\ op = Idle
  /\ r = [step |-> 0, m_wr |-> FALSE, s_rd |-> FALSE, m_data |-> NoWord,
          we |-> FALSE, data |-> NoValue, addr |-> 0, remote_addr |-> 0, remainder |-> 0, count |-> 0]
  /\ ram = [a \in 0 .. Words - 1 |-> <<"local", a>>] /\ wantRam = ram
  /\ mem = [a \in 0 .. Words - 1 |-> <<"main", a>>] /\ wantMem = mem
  /\ ramData = ram[0]
  /\ out = [mem |-> [i \in 0 .. Depth - 1 |-> NoWord], wrptr |-> 0, rdptr |-> 0]
  /\ in = out
  /\ srv = [at |-> "header", req |-> NoWord, addr |-> 0]
  /\ ops = 0

Next ==
  \/ \E o \in Ops : Start(o)
  \/ \E go \in BOOLEAN : Clock(go)

Spec == Init /\ [][Next]_vars

\* The clock runs, and the server does not pause for ever.
FairSpec == Spec /\ WF_vars(Clock(TRUE))

-----------------------------------------------------------------------------
\* The types of the state.
TypeOK ==
  /\ op \in Ops \cup {Idle}
  /\ r.step \in 0 .. 15 /\ r.count \in 0 .. BlockSize /\ r.remainder \in 0 .. Words
  /\ \A f \in {out, in} : f.wrptr \in 0 .. Depth - 1 /\ f.rdptr \in 0 .. Depth - 1
  /\ srv.at \in {"header", "address", "wait", "data"}

\* No word is written to a full FIFO, which would make it an empty one.
NoOverrun ==
  /\ r.m_wr => Remainder(out) > 0
  /\ srv.at = "data" /\ srv.req.is = "read" => Remainder(in) > 0

\* No word is read from an empty FIFO, which would make it a full one.
NoUnderrun ==
  /\ r.s_rd => Fill(in) > 0
  /\ srv.at = "address" \/ (srv.at = "data" /\ srv.req.is = "write") => Fill(out) > 0

\* The server takes headers for headers, addresses for addresses, data for data.
Framed ==
  /\ srv.at = "header" /\ Fill(out) > 0 => S_Data(out).is \in {"write", "read"}
  /\ srv.at = "address" /\ Fill(out) > 0 => S_Data(out).is = "address"
  /\ srv.at = "data" /\ srv.req.is = "write" => S_Data(out).is = "data"

\* The FIFOs are sound: no pointer overtakes the other, and both ends agree on
\* where a request begins.
FifosSound == TypeOK /\ NoOverrun /\ NoUnderrun /\ Framed

\* When the thread has its "done", its local memory holds what it read; when the
\* FIFO has drained as well, the main memory holds what it wrote.
DataArrived ==
  op = Idle =>
    /\ ram = wantRam /\ Fill(in) = 0
    /\ Fill(out) = 0 /\ ~r.m_wr /\ srv.at = "header" => mem = wantMem

\* What the procedures have to keep the FIFOs sound, and do not: memif_write looks
\* for a block's room while the block's address is still in its registers, and the
\* room that it finds is one word less.  This says that it never matters: what it
\* finds is not just the block.
RoomForAddress == op.op = "write" /\ r.step = 4 /\ r.m_wr => r.count # Remainder(out)

\* That check is all that is wrong.  With operations of any number of blocks, one
\* behind the other or not, the FIFOs stay sound, the data arrives and every
\* operation ends, as long as the check never finds just the room of the block.
SoundWithRoom == []RoomForAddress => []FifosSound
ArrivedWithRoom == []RoomForAddress => []DataArrived
OpEnds == []RoomForAddress => (op # Idle ~> op = Idle)

\* Without that premise: what memif_write was asked to "write from local memory to
\* main memory" (reconos_pkg.vhd) is there when it is done and the FIFO is empty.
WriteArrived == op = Idle /\ Fill(out) = 0 /\ ~r.m_wr => mem = wantMem
=============================================================================
