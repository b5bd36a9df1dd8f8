-------------------------------- MODULE Mmu --------------------------------
(***************************************************************************)
(* The MMU between the hardware threads' memory FIFO and the memory        *)
(* controller: the walker of mmu.vhd, its TLB (tlb.vhd) and the command    *)
(* loop of xps_mem (user_logic.vhd), clock edge by clock edge.             *)
(*                                                                         *)
(* The walker takes a header and a virtual address from the FIFO, asks the *)
(* controller for the directory entry and the table entry of the page,     *)
(* offers it the header with the physical address, and then connects it to *)
(* the FIFO until the words of the request have gone by.                   *)
(*                                                                         *)
(* Around them: the burst converter, which has one request under way at a  *)
(* time and none that crosses a page; Linux' page table, which maps pages  *)
(* of its own and on a page fault; proc_control, which raises retry; the   *)
(* PLB, which makes the controller's data phases take any time.            *)
(***************************************************************************)
EXTENDS Naturals, Sequences, FiniteSets

CONSTANTS
  Dirs,       \* entries of the page directory
  Tables,     \* entries of a page table
  Frames,     \* physical pages
  MayMap,     \* bound: which frames Linux picks for which entry of a table
  Unmapped,   \* an entry that maps nothing, all zero
  TlbSize,    \* C_TLB_SIZE
  Lens,       \* words of a request
  Resets      \* bound on the ReconOS resets

ASSUME MmuAssumption ==
  /\ Dirs # {} /\ Tables # {}
  /\ Unmapped \notin Frames
  /\ MayMap \subseteq Tables \X Frames
  /\ TlbSize \in Nat \ {0}
  /\ Lens \subseteq Nat \ {0}
  /\ Resets \in Nat

VARIABLES
  hq,         \* FIFO from the thread
  ask,        \* words of its request that are not in the FIFO yet
  asked,      \* its request, or NoWord
  moved,      \* data words of that request that have gone by
  w,          \* the walker's registers
  retry,      \* proc_control: the page is there
  tlb, wptr,  \* the TLB's entries and write pointer
  m,          \* the controller's registers
  pt,         \* Linux' page table
  resets      \* ReconOS resets so far

vars == <<hq, ask, asked, moved, w, retry, tlb, wptr, m, pt, resets>>

Pages == Dirs \X Tables
Ways == 0 .. TlbSize - 1
WalkerStates ==
  {"WAIT_HEADER", "READ_CMD", "READ_ADDR", "READ_PGDE_0", "READ_PGDE_1", "READ_PGDE_2", "READ_PTE_0",
   "READ_PTE_1", "READ_PTE_2", "WRITE_HEADER_0", "WRITE_HEADER_1", "COPY", "PAGE_FAULT"}
ControllerStates ==
  {"WAIT_HEADER", "READ_CMD", "READ_ADDR", "WAIT_FIFO_REM", "WAIT_FIFO_FILL", "READ_REQ", "READ",
   "WRITE_REQ", "WRITE", "WAIT_COMPLETE"}

\* A word of a FIFO: a header, an address or data.
Header(c, n) == [is |-> "header", cmd |-> c, len |-> n]
Address(kind, x) == [is |-> kind, at |-> x]
Data == [is |-> "data"]
NoWord == [is |-> "none"]

\* What the registers hold after power-up or a reset: cmd and len are zero.
WalkerReset ==
  [state |-> "WAIT_HEADER", cmd |-> "read", len |-> 0, vaddr |-> CHOOSE p \in Pages : TRUE, pte |-> Unmapped,
   HWT_S_Rd |-> FALSE, MEM_S_Fill |-> 0, MEM_S_Data |-> NoWord,
   copy |-> FALSE, counter |-> 0, page_fault |-> FALSE, tlb_we |-> FALSE]

-----------------------------------------------------------------------------
\* The burst converter offers the next request: header, address and, for a
\* write, the data, which come from the thread as it produces them.
Request(c, n, p) ==
  /\ asked = NoWord
  /\ asked' = [cmd |-> c, len |-> n, page |-> p]
  /\ moved' = 0
  /\ ask' = <<Header(c, n), Address("virtual", p)>> \o [i \in 1 .. IF c = "write" THEN n ELSE 0 |-> Data]
  /\ UNCHANGED <<hq, w, retry, tlb, wptr, m, pt, resets>>

\* Linux maps a page, on its own or to serve a fault.
Map(p, f) ==
  /\ pt[p] = Unmapped
  /\ <<p[2], f>> \in MayMap
  /\ pt' = [pt EXCEPT ![p] = f]
  /\ UNCHANGED <<hq, ask, asked, moved, w, retry, tlb, wptr, m, resets>>

\* proc_control has heard from the control thread that the page is mapped.
PageReady ==
  /\ w.page_fault
  /\ ~retry
  /\ pt[w.vaddr] # Unmapped
  /\ retry' = TRUE
  /\ UNCHANGED <<hq, ask, asked, moved, w, tlb, wptr, m, pt, resets>>

-----------------------------------------------------------------------------
\* fifo_mux: the FIFO the controller sees.
HwtWord == IF hq = << >> THEN NoWord ELSE Head(hq)
MemFill == IF w.copy THEN Len(hq) ELSE w.MEM_S_Fill
MemWord == IF w.copy THEN HwtWord ELSE w.MEM_S_Data

\* tlb.vhd: the valid entries with the tag; their data are or-ed, which is no
\* entry's when there are two.
Matches(tag) == {i \in Ways : tlb[i] # NoWord /\ tlb[i].tag = tag}
tlb_do(tag) == IF Cardinality(Matches(tag)) = 1 THEN tlb[CHOOSE i \in Matches(tag) : TRUE].data ELSE Unmapped

write_proc ==
  IF w.tlb_we
  THEN /\ tlb' = [tlb EXCEPT ![wptr] = [tag |-> w.vaddr, data |-> w.pte]]
       /\ wptr' = (wptr + 1) % TlbSize
  ELSE UNCHANGED <<tlb, wptr>>

-----------------------------------------------------------------------------
\* pt_walk.  rd and wr are the controller's S_Rd and M_Wr in this cycle.
WaitHeader ==
  /\ w.state = "WAIT_HEADER"
  /\ w' = IF Len(hq) > 1 THEN [w EXCEPT !.HWT_S_Rd = TRUE, !.state = "READ_CMD"] ELSE w

ReadCmd ==
  /\ w.state = "READ_CMD"
  /\ w' = [w EXCEPT !.cmd = HwtWord.cmd, !.len = HwtWord.len, !.state = "READ_ADDR"]

ReadAddr ==
  /\ w.state = "READ_ADDR"
  /\ w' = [w EXCEPT !.vaddr = HwtWord.at, !.HWT_S_Rd = FALSE, !.state = "READ_PGDE_0"]

\* A header is offered until the controller takes it, then the address.
Offered(r, header, address, next, rd) ==
  IF rd THEN [r EXCEPT !.MEM_S_Fill = 1, !.MEM_S_Data = address, !.state = next]
  ELSE [r EXCEPT !.MEM_S_Fill = 2, !.MEM_S_Data = header]

\* Mutant: the TLB is not consulted.
ReadPgde0Walks(rd) ==
  /\ w.state = "READ_PGDE_0"
  /\ w' = Offered(w, Header("read", 1), Address("directory", w.vaddr), "READ_PGDE_1", rd)

\* Mutant: a hit leaves the entry of the page before.
ReadPgde0Stale(rd) ==
  /\ w.state = "READ_PGDE_0"
  /\ w' = IF Matches(w.vaddr) # {} THEN [w EXCEPT !.state = "WRITE_HEADER_0"]
          ELSE Offered(w, Header("read", 1), Address("directory", w.vaddr), "READ_PGDE_1", rd)

ReadPgde0(rd) ==
  /\ w.state = "READ_PGDE_0"
  /\ w' = IF Matches(w.vaddr) # {} THEN [w EXCEPT !.pte = tlb_do(w.vaddr), !.state = "WRITE_HEADER_0"]
          ELSE Offered(w, Header("read", 1), Address("directory", w.vaddr), "READ_PGDE_1", rd)

ReadPte0(rd) ==
  /\ w.state = "READ_PTE_0"
  /\ w' = Offered(w, Header("read", 1), Address("table", w.vaddr), "READ_PTE_1", rd)

WriteHeader0(rd) ==
  /\ w.state = "WRITE_HEADER_0"
  /\ w' = Offered([w EXCEPT !.tlb_we = FALSE], Header(w.cmd, w.len), Address("frame", w.pte), "WRITE_HEADER_1", rd)

AddressTaken(from, next, rd) ==
  /\ w.state = from
  /\ w' = IF rd THEN [w EXCEPT !.MEM_S_Fill = 0, !.state = next] ELSE w

ReadPgde1(rd) == AddressTaken("READ_PGDE_1", "READ_PGDE_2", rd)
ReadPte1(rd) == AddressTaken("READ_PTE_1", "READ_PTE_2", rd)

WriteHeader1(rd) ==
  /\ w.state = "WRITE_HEADER_1"
  /\ w' = IF rd THEN [w EXCEPT !.MEM_S_Fill = 0, !.copy = TRUE, !.counter = 0, !.state = "COPY"] ELSE w

ReadPgde2(wr) ==
  /\ w.state = "READ_PGDE_2"
  /\ w' = IF ~wr THEN w
          ELSE [w EXCEPT !.state = IF m.M_Data = Unmapped THEN "PAGE_FAULT" ELSE "READ_PTE_0"]

ReadPte2(wr) ==
  /\ w.state = "READ_PTE_2"
  /\ w' = IF ~wr THEN w
          ELSE IF m.M_Data = Unmapped THEN [w EXCEPT !.pte = m.M_Data, !.state = "PAGE_FAULT"]
          ELSE [w EXCEPT !.pte = m.M_Data, !.tlb_we = TRUE, !.state = "WRITE_HEADER_0"]

Copy(rd, wr) ==
  /\ w.state = "COPY"
  /\ w' = [w EXCEPT !.counter = IF wr \/ rd THEN @ + 1 ELSE @,
                    !.copy = (w.counter # w.len),
                    !.state = IF w.counter = w.len THEN "WAIT_HEADER" ELSE @]

\* Mutant: proc_control does not hear of the fault.
PageFaultSilent ==
  /\ w.state = "PAGE_FAULT"
  /\ w' = [w EXCEPT !.state = IF retry THEN "READ_PGDE_0" ELSE @]

PageFault ==
  /\ w.state = "PAGE_FAULT"
  /\ w' = [w EXCEPT !.page_fault = ~retry, !.state = IF retry THEN "READ_PGDE_0" ELSE @]

pt_walk(rd, wr) ==
  \/ WaitHeader \/ ReadCmd \/ ReadAddr
  \/ ReadPgde0(rd) \/ ReadPgde1(rd) \/ ReadPgde2(wr)
  \/ ReadPte0(rd) \/ ReadPte1(rd) \/ ReadPte2(wr)
  \/ WriteHeader0(rd) \/ WriteHeader1(rd) \/ Copy(rd, wr) \/ PageFault

-----------------------------------------------------------------------------
\* What a read of the controller finds: a directory entry is there once a page
\* under it is mapped.
Contents(a) ==
  IF a.is = "table" THEN pt[a.at]
  ELSE IF a.is = "directory" /\ \A i \in Tables : pt[<<a.at[1], i>>] = Unmapped THEN Unmapped
  ELSE Data

\* The bus takes words in the data phase of a write only, and none in its first
\* cycle, before fifo_burst.
Bus2IP_MstWr_dst_rdy(ready) == m.state = "WRITE" /\ m.fifo_burst /\ ready

\* WR_BURST_PROC: in a burst the bus itself takes the words.
S_Rd(ready) == IF m.fifo_burst THEN Bus2IP_MstWr_dst_rdy(ready) ELSE m.S_Rd

\* cmd_proc.  ready: the bus moves a word, or completes, in this cycle.
ControllerStep(ready) ==
  LET base == [m EXCEPT !.S_Rd = FALSE, !.M_Wr = FALSE]
      Counted(next) == [base EXCEPT !.counter = IF m.counter + 1 = m.cmd.len THEN 0 ELSE m.counter + 1,
                                    !.state = IF m.counter + 1 = m.cmd.len THEN "WAIT_COMPLETE" ELSE next]
  IN  \/ m.state = "WAIT_HEADER" /\ m' = [base EXCEPT !.S_Rd = MemFill >= 2,
                                                      !.state = IF MemFill >= 2 THEN "READ_CMD" ELSE @]
      \/ m.state = "READ_CMD" /\ m' = [base EXCEPT !.S_Rd = TRUE, !.cmd = MemWord, !.state = "READ_ADDR"]
      \/ m.state = "READ_ADDR" /\ m' = [base EXCEPT !.addr = MemWord, !.state =
                                          IF m.cmd.cmd = "read" THEN "WAIT_FIFO_REM" ELSE "WAIT_FIFO_FILL"]
      \* the FIFO to the thread has room in time; the walker has it for one entry
      \/ m.state = "WAIT_FIFO_REM"
         /\ m' = [base EXCEPT !.state = IF (IF w.copy THEN ready ELSE m.cmd.len <= 1) THEN "READ_REQ" ELSE @]
      \/ m.state = "WAIT_FIFO_FILL" /\ m' = [base EXCEPT !.state = IF MemFill >= m.cmd.len THEN "WRITE_REQ" ELSE @]
      \/ m.state \in {"READ_REQ", "WRITE_REQ"}
         /\ m' = [base EXCEPT !.counter = 0, !.state = IF m.state = "READ_REQ" THEN "READ" ELSE "WRITE"]
      \* (a read of no words, which only a reset can make, brings none)
      \/ m.state = "READ" /\ m' = IF ready /\ m.cmd.len > 0
                                  THEN [Counted("READ") EXCEPT !.M_Wr = TRUE, !.M_Data = Contents(m.addr)]
                                  ELSE base
      \/ m.state = "WRITE"
         /\ m' = [(IF Bus2IP_MstWr_dst_rdy(ready) THEN Counted("WRITE") ELSE base) EXCEPT !.fifo_burst = TRUE]
      \/ m.state = "WAIT_COMPLETE" /\ m' = [base EXCEPT !.fifo_burst = m.fifo_burst /\ ~ready,
                                                        !.state = IF ready THEN "WAIT_HEADER" ELSE @]

\* A clock edge, at which the converter also brings k more words.
Clock(ready, k) ==
  LET rd == S_Rd(ready)
      pop == IF w.copy THEN rd ELSE w.HWT_S_Rd
      new == SubSeq(ask, 1, k)
      goes == (w.copy /\ m.M_Wr) \/ (w.copy /\ rd)
      last == goes /\ asked # NoWord /\ moved + 1 = asked.len
  IN  /\ k <= Len(ask)
      /\ pt_walk(rd, m.M_Wr)
      /\ ControllerStep(ready)
      /\ write_proc
      /\ retry' = (retry /\ w.page_fault)
      /\ hq' = (IF pop /\ hq # << >> THEN Tail(hq) ELSE hq) \o new
      /\ ask' = SubSeq(ask, k + 1, Len(ask))
      /\ moved' = IF goes /\ ~last THEN moved + 1 ELSE IF last THEN 0 ELSE moved
      /\ asked' = IF last THEN NoWord ELSE asked
      /\ UNCHANGED <<pt, resets>>

-----------------------------------------------------------------------------
\* The controller is not connected to the reset and goes on while it lasts: a
\* data phase ends,
Finishes(r) ==
  m' = [r EXCEPT !.state = "WAIT_HEADER", !.S_Rd = FALSE, !.M_Wr = FALSE, !.fifo_burst = FALSE, !.counter = 0]

\* a write waits for data; a read waits for more room than the walker's one word
\* or reads; a read of no words may never end.
Rests(r) ==
  LET In(state) == [r EXCEPT !.state = state, !.S_Rd = FALSE, !.M_Wr = FALSE, !.counter = 0] IN
  \/ r.cmd.cmd = "write" /\ m' = In("WAIT_FIFO_FILL")
  \/ r.cmd.cmd = "read" /\ r.cmd.len > 1 /\ m' = In("WAIT_FIFO_REM")
  \/ r.cmd.cmd = "read" /\ r.cmd.len <= 1 /\ Finishes(r)
  \/ r.cmd.cmd = "read" /\ r.cmd.len = 0 /\ m' = In("READ")

\* At the reset's first edge it may still get what the walker or the FIFO has for
\* it; from then on every word is zero: a read of no words, at address zero.
ZeroHeader == Header("read", 0)
GoesOn ==
  \/ m.state \in {"WAIT_HEADER", "READ_REQ", "READ", "WRITE_REQ", "WRITE", "WAIT_COMPLETE"} /\ Finishes(m)
  \/ m.state = "WAIT_HEADER" /\ MemFill >= 2 /\ Rests([m EXCEPT !.cmd = ZeroHeader, !.addr = NoWord])
  \/ m.state = "READ_CMD" /\ \E c \in {MemWord, ZeroHeader} : Rests([m EXCEPT !.cmd = c, !.addr = NoWord])
  \/ m.state = "READ_ADDR" /\ \E a \in {MemWord, NoWord} : Rests([m EXCEPT !.addr = a])
  \/ m.state = "WAIT_FIFO_REM" /\ (Rests(m) \/ (w.copy /\ Finishes(m)))
  \/ m.state = "WAIT_FIFO_FILL" /\ (Rests(m) \/ (MemFill >= m.cmd.len /\ Finishes(m)))
  \/ m.state = "READ" /\ m.cmd.len = 0 /\ Rests(m)

\* Mutant: the TLB survives the reset.
ResetKeepsTlb ==
  /\ resets < Resets
  /\ resets' = resets + 1
  /\ GoesOn
  /\ w' = WalkerReset
  /\ hq' = << >> /\ ask' = << >> /\ asked' = NoWord /\ moved' = 0
  /\ retry' = FALSE
  /\ pt' = [p \in Pages |-> Unmapped]
  /\ UNCHANGED <<tlb, wptr>>

\* A ReconOS reset, at any time, clears the MMU, the FIFOs and the TLB's valid
\* bits, but neither the TLB's write pointer nor the controller.  It lasts 4096
\* cycles, which is one step here, and comes with a process that has a page
\* table of its own.
Reset ==
  /\ resets < Resets
  /\ resets' = resets + 1
  /\ GoesOn
  /\ w' = WalkerReset
  /\ tlb' = [i \in Ways |-> NoWord]
  /\ hq' = << >> /\ ask' = << >> /\ asked' = NoWord /\ moved' = 0
  /\ retry' = FALSE
  /\ pt' = [p \in Pages |-> Unmapped]
  /\ UNCHANGED wptr

Init ==
  /\ hq = << >> /\ ask = << >> /\ asked = NoWord /\ moved = 0
  /\ w = WalkerReset
  /\ retry = FALSE
  /\ tlb = [i \in Ways |-> NoWord] /\ wptr = 0
  /\ m = [state |-> "WAIT_HEADER", cmd |-> NoWord, addr |-> NoWord, counter |-> 0,
          S_Rd |-> FALSE, M_Wr |-> FALSE, M_Data |-> Unmapped, fifo_burst |-> FALSE]
  /\ pt = [p \in Pages |-> Unmapped]
  /\ resets = 0

Next ==
  \/ \E c \in {"read", "write"}, n \in Lens, p \in Pages : Request(c, n, p)
  \/ \E p \in Pages, f \in Frames : Map(p, f)
  \/ PageReady
  \/ \E ready \in BOOLEAN, k \in 0 .. 2 : Clock(ready, k)
  \/ Reset

Spec == Init /\ [][Next]_vars

\* The bus makes progress, the thread produces its data, and a fault is served.
FairSpec ==
  /\ Spec
  /\ WF_vars(Clock(TRUE, 2)) /\ WF_vars(Clock(TRUE, 1)) /\ WF_vars(Clock(TRUE, 0))
  /\ WF_vars(PageReady)
  /\ WF_vars(w.page_fault /\ \E f \in Frames : Map(w.vaddr, f))

-----------------------------------------------------------------------------
\* The types of the state; only frames get into the TLB, within its size.
TypeOK ==
  /\ w.state \in WalkerStates
  /\ m.state \in ControllerStates
  /\ w.vaddr \in Pages
  /\ w.pte \in Frames \cup {Unmapped}
  /\ wptr \in Ways
  /\ pt \in [Pages -> Frames \cup {Unmapped}]
  /\ \A i \in Ways : tlb[i] = NoWord \/ (tlb[i].tag \in Pages /\ tlb[i].data \in Frames)

\* No page is in two entries of the TLB: their frames would be or-ed into an
\* address that is neither's (the "single_match" that tlb.vhd leaves to do).
TlbUnique == \A i, j \in Ways : tlb[i] # NoWord /\ tlb[j] # NoWord /\ tlb[i].tag = tlb[j].tag => i = j

\* As long as Linux unmaps nothing, an entry is what the page table says.
TlbCurrent == \A i \in Ways : tlb[i] # NoWord => pt[tlb[i].tag] = tlb[i].data

\* The controller takes headers for headers, addresses for addresses and data
\* for data, whoever feeds it: walker and FIFO change over between two words.
\* (A reset does not reach the controller, which may then wait for room or for
\* data that never come.)
TakesCommands ==
  resets = 0 =>
    /\ m.state = "READ_CMD" => MemWord.is = "header" /\ m.S_Rd
    /\ m.state = "READ_ADDR" => MemWord.is \in {"directory", "table", "frame"} /\ m.S_Rd
    /\ \A ready \in BOOLEAN : m.fifo_burst /\ S_Rd(ready) => w.copy /\ HwtWord = Data

\* Its data phase is the thread's request at the frame of the thread's page; it
\* moves exactly the words the request has left.
ServesRequest ==
  resets = 0 /\ m.state \in {"READ", "WRITE"} /\ w.copy =>
    /\ asked # NoWord
    /\ m.cmd = Header(asked.cmd, asked.len)
    /\ m.addr = Address("frame", pt[asked.page])
    /\ m.counter = moved + (IF m.M_Wr THEN 1 ELSE 0)

\* The controller carries out what the thread asked for, and nothing else.
RequestsSound == TypeOK /\ TakesCommands /\ ServesRequest

\* Every request is carried out, through page faults if need be, as long as no
\* reset has left the controller in the middle of one.
Served == asked # NoWord ~> (asked = NoWord \/ resets > 0)
=============================================================================
