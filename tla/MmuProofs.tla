----------------------------- MODULE MmuProofs -----------------------------
(***************************************************************************)
(* For any page table, any size of the TLB, any requests and any number of *)
(* resets: no page has two entries in the TLB, every entry is what Linux'  *)
(* page table says, and until the first reset the memory controller does   *)
(* what the hardware thread asked for and nothing else.  The invariant has *)
(* three clocked machines in step: walker, controller and the FIFO between *)
(* them and the thread.  After a reset that leaves the controller waiting  *)
(* for data or for room it says where they all get stuck.                  *)
(***************************************************************************)
EXTENDS Mmu, FiniteSetTheorems, SequenceTheorems, TLAPS

USE MmuAssumption

Fields ==
  /\ DOMAIN w = {"state", "cmd", "len", "vaddr", "pte", "HWT_S_Rd", "MEM_S_Fill", "MEM_S_Data", "copy",
                 "counter", "page_fault", "tlb_we"}
  /\ DOMAIN m = {"state", "cmd", "addr", "counter", "S_Rd", "M_Wr", "M_Data", "fifo_burst"}

-----------------------------------------------------------------------------
\* The words of a request, in the order in which the converter brings them.
Asks == [cmd : {"read", "write"}, len : Lens, page : Pages]
Words == {Header(c, n) : c \in {"read", "write"}, n \in Lens} \union {Address("virtual", p) : p \in Pages} \union {Data}
Total(r) == 2 + (IF r.cmd = "write" THEN r.len ELSE 0)
WordAt(r, i) == IF i = 1 THEN Header(r.cmd, r.len) ELSE IF i = 2 THEN Address("virtual", r.page) ELSE Data

\* FIFO h and rest a hold what is left of request r after its first off words.
Stream(h, a, r, off) ==
  /\ r \in Asks /\ h \in Seq(Words) /\ a \in Seq(Words)
  /\ off + Len(h) + Len(a) = Total(r)
  /\ \A i \in 1 .. Len(h) : h[i] = WordAt(r, off + i)
  /\ \A i \in 1 .. Len(a) : a[i] = WordAt(r, off + Len(h) + i)

Idle == asked = NoWord /\ hq = << >> /\ ask = << >>

WalkStates ==
  {"READ_PGDE_0", "READ_PGDE_1", "READ_PGDE_2", "READ_PTE_0", "READ_PTE_1", "READ_PTE_2", "WRITE_HEADER_0",
   "WRITE_HEADER_1", "PAGE_FAULT"}

\* Up to the copying the walker knows of the request what it has read of it.
Following ==
  /\ w.state # "COPY" => moved = 0
  /\ w.state = "WAIT_HEADER" => ~w.HWT_S_Rd /\ (Idle \/ Stream(hq, ask, asked, 0))
  /\ w.state = "READ_CMD" => w.HWT_S_Rd /\ Stream(hq, ask, asked, 0) /\ Len(hq) >= 2
  /\ w.state = "READ_ADDR" => /\ w.HWT_S_Rd /\ Stream(hq, ask, asked, 1) /\ Len(hq) >= 1
                              /\ w.cmd = asked.cmd /\ w.len = asked.len
  /\ w.state \in WalkStates => /\ ~w.HWT_S_Rd /\ Stream(hq, ask, asked, 2)
                               /\ w.cmd = asked.cmd /\ w.len = asked.len /\ w.vaddr = asked.page

-----------------------------------------------------------------------------
\* The controller waits for a command, or for the bus to finish the last one.
Quiet ==
  /\ m.state \in {"WAIT_HEADER", "WAIT_COMPLETE"} /\ ~m.S_Rd /\ ~m.M_Wr
  /\ m.state = "WAIT_HEADER" => ~m.fifo_burst

TakingHeader == m.state = "READ_CMD" /\ m.S_Rd /\ ~m.M_Wr /\ ~m.fifo_burst
TakingAddress == m.state = "READ_ADDR" /\ m.S_Rd /\ ~m.M_Wr /\ ~m.fifo_burst

TheHeader == IF w.state \in {"WRITE_HEADER_0", "WRITE_HEADER_1"} THEN Header(w.cmd, w.len) ELSE Header("read", 1)
TheAddress ==
  IF w.state \in {"WRITE_HEADER_0", "WRITE_HEADER_1"} THEN Address("frame", w.pte)
  ELSE IF w.state \in {"READ_PTE_0", "READ_PTE_1", "READ_PTE_2"} THEN Address("table", w.vaddr)
  ELSE Address("directory", w.vaddr)

\* The walker has nothing for the controller.
Silent ==
  w.state \in {"WAIT_HEADER", "READ_CMD", "READ_ADDR", "PAGE_FAULT"} => ~w.copy /\ w.MEM_S_Fill = 0 /\ Quiet

\* It offers a header, until the controller takes it,
Offering ==
  w.state \in {"READ_PGDE_0", "READ_PTE_0", "WRITE_HEADER_0"} =>
    /\ ~w.copy
    /\ \/ w.MEM_S_Fill = 0 /\ Quiet
       \/ w.MEM_S_Fill = 2 /\ w.MEM_S_Data = TheHeader /\ (Quiet \/ TakingHeader)

\* then the address,
Addressing ==
  w.state \in {"READ_PGDE_1", "READ_PTE_1", "WRITE_HEADER_1"} =>
    /\ ~w.copy /\ w.MEM_S_Fill = 1 /\ w.MEM_S_Data = TheAddress
    /\ TakingAddress /\ m.cmd = TheHeader

\* and waits for the entry.
Waiting ==
  w.state \in {"READ_PGDE_2", "READ_PTE_2"} =>
    /\ ~w.copy /\ w.MEM_S_Fill = 0
    /\ m.cmd = TheHeader /\ m.addr = TheAddress /\ ~m.S_Rd /\ ~m.fifo_burst
    /\ \/ m.state \in {"WAIT_FIFO_REM", "READ_REQ"} /\ ~m.M_Wr
       \/ m.state = "READ" /\ m.counter = 0 /\ ~m.M_Wr
       \/ m.state = "WAIT_COMPLETE" /\ m.M_Wr
            /\ (w.state = "READ_PTE_2" => m.M_Data = Unmapped \/ (m.M_Data = pt[w.vaddr] /\ m.M_Data \in Frames))

\* The controller's data phase is what is left of the request.
Moving ==
  /\ Stream(hq, ask, asked, IF asked.cmd = "write" THEN 2 + moved ELSE 2)
  /\ w.len = asked.len /\ w.pte \in Frames /\ w.pte = pt[asked.page] /\ w.counter = moved /\ moved \in 0 .. asked.len - 1
  /\ m.cmd = Header(asked.cmd, asked.len) /\ m.addr = Address("frame", w.pte) /\ ~m.S_Rd
  /\ asked.cmd = "read" =>
       /\ ~m.fifo_burst
       /\ \/ m.state \in {"WAIT_FIFO_REM", "READ_REQ"} /\ moved = 0 /\ ~m.M_Wr
          \/ m.state = "READ" /\ m.counter = moved + (IF m.M_Wr THEN 1 ELSE 0) /\ m.counter < asked.len
          \/ m.state = "WAIT_COMPLETE" /\ m.M_Wr /\ moved + 1 = asked.len
  /\ asked.cmd = "write" =>
       /\ ~m.M_Wr
       /\ \/ m.state = "WAIT_FIFO_FILL" /\ moved = 0 /\ ~m.fifo_burst
          \/ m.state = "WRITE_REQ" /\ moved = 0 /\ ~m.fifo_burst /\ Len(hq) >= asked.len
          \/ m.state = "WRITE" /\ m.counter = moved /\ Len(hq) + moved >= asked.len

\* All words have gone by; the FIFO is still the controller's for one cycle, and
\* nothing can be in it yet.
Moved ==
  /\ w.counter = w.len /\ Quiet /\ moved = 0 /\ hq = << >>
  /\ Idle \/ Stream(hq, ask, asked, 0)

Copying == w.state = "COPY" => w.copy /\ ~w.HWT_S_Rd /\ w.MEM_S_Fill = 0 /\ (Moving \/ Moved)

InStep == Silent /\ Offering /\ Addressing /\ Waiting /\ Copying

-----------------------------------------------------------------------------
\* A reset has left the controller waiting, for the data of a write, for room that
\* the walker does not have, or for words of a read of none.
Waits ==
  /\ ~m.fifo_burst
  /\ \/ m.state = "WAIT_FIFO_FILL" /\ m.cmd.len > 0
     \/ m.state = "WAIT_FIFO_REM" /\ m.cmd.len > 1
     \/ m.state = "READ" /\ m.cmd.len = 0 /\ m.cmd.cmd = "read"

\* Then the walker offers its first header for ever, or the controller takes the
\* walker's words for data, and the walker never hears of its entry.
Stuck ==
  /\ resets > 0
  /\ \A i \in Ways : tlb[i] = NoWord
  /\ ~w.copy /\ ~w.tlb_we /\ ~m.S_Rd /\ ~m.M_Wr
  /\ m.cmd.len \in Nat
  /\ \/ /\ Waits
        /\ \/ w.state \in {"WAIT_HEADER", "READ_CMD", "READ_ADDR"} /\ w.MEM_S_Fill = 0
           \/ w.state = "READ_PGDE_0" /\ w.MEM_S_Fill \in {0, 2}
     \/ /\ m.state \in {"WRITE_REQ", "WRITE"} /\ w.state = "READ_PGDE_0" /\ w.MEM_S_Fill = 2 /\ m.cmd.len \in {1, 2}
        /\ IF m.state = "WRITE" THEN m.counter = 0 ELSE ~m.fifo_burst
     \/ /\ m.state = "WRITE" /\ w.state = "READ_PGDE_1" /\ w.MEM_S_Fill = 1
        /\ m.counter = 1 /\ m.cmd.len = 2 /\ m.fifo_burst
     \/ /\ m.state \in {"WAIT_COMPLETE", "WAIT_HEADER"} /\ (m.state = "WAIT_HEADER" => ~m.fifo_burst)
        /\ \/ w.state = "READ_PGDE_1" /\ w.MEM_S_Fill = 1
           \/ w.state = "READ_PGDE_2" /\ w.MEM_S_Fill = 0

-----------------------------------------------------------------------------
Missing == \A i \in Ways : tlb[i] # NoWord => tlb[i].tag # w.vaddr

\* From the lookup to the write of the new entry the page is in no entry, and what
\* is written is the page table's.
Missed ==
  /\ w.state \in {"READ_PGDE_1", "READ_PGDE_2", "READ_PTE_0", "READ_PTE_1", "READ_PTE_2", "PAGE_FAULT"} => Missing
  /\ w.state = "READ_PGDE_0" /\ w.MEM_S_Fill # 0 => Missing
  /\ w.tlb_we => w.state = "WRITE_HEADER_0" /\ Missing
  /\ w.state \in {"WRITE_HEADER_0", "WRITE_HEADER_1"} => w.pte \in Frames /\ w.pte = pt[w.vaddr]

Types ==
  /\ w.state \in WalkerStates
  /\ w.vaddr \in Pages
  /\ w.pte \in Frames \union {Unmapped}
  /\ wptr \in Ways
  /\ pt \in [Pages -> Frames \union {Unmapped}]
  /\ DOMAIN tlb = Ways
  /\ \A i \in Ways : tlb[i] = NoWord \/ (tlb[i].tag \in Pages /\ tlb[i].data \in Frames)
  /\ resets \in Nat

IInv == Fields /\ Types /\ TlbUnique /\ TlbCurrent /\ Missed /\ Following /\ (InStep \/ Stuck) /\ (resets = 0 => InStep)

-----------------------------------------------------------------------------
LEMMA WordsFollow ==
  ASSUME NEW g \in Seq(Words), NEW n \in Seq(Words)
  PROVE  /\ g \o n \in Seq(Words) /\ Len(g \o n) = Len(g) + Len(n)
         /\ \A i \in 1 .. Len(g) + Len(n) : (g \o n)[i] = IF i <= Len(g) THEN g[i] ELSE n[i - Len(g)]
OBVIOUS

\* A clock edge moves k words of the request into the FIFO, and may pop one.
Split(a, k, n, b) ==
  /\ n \in Seq(Words) /\ Len(n) = k /\ \A i \in 1 .. k : n[i] = a[i]
  /\ b \in Seq(Words) /\ Len(b) = Len(a) - k /\ \A i \in 1 .. Len(a) - k : b[i] = a[k + i]

LEMMA SplitAt ==
  ASSUME NEW a \in Seq(Words), NEW k \in 0 .. Len(a)
  PROVE  Split(a, k, SubSeq(a, 1, k), SubSeq(a, k + 1, Len(a)))
BY DEF Split

LEMMA StreamMoves ==
  ASSUME NEW h, NEW a, NEW r, NEW off \in Nat, NEW k \in 0 .. Len(a), NEW n, NEW b, Stream(h, a, r, off), Split(a, k, n, b)
  PROVE  /\ Len(h) \in Nat /\ Len(a) \in Nat
         /\ Stream(h \o n, b, r, off) /\ Len(h \o n) = Len(h) + k
         /\ h # << >> => /\ Len(h) > 0 /\ Head(h) = WordAt(r, off + 1)
                         /\ Stream(Tail(h) \o n, b, r, off + 1) /\ Len(Tail(h) \o n) = Len(h) - 1 + k
<1>1. h \in Seq(Words) /\ a \in Seq(Words) /\ Len(h) \in Nat /\ Len(a) \in Nat /\ k \in Nat
  BY DEF Stream
<1>2. n \in Seq(Words) /\ Len(n) = k /\ \A i \in 1 .. k : n[i] = a[i]
  BY DEF Split
<1>3. b \in Seq(Words) /\ Len(b) = Len(a) - k /\ \A i \in 1 .. Len(a) - k : b[i] = a[k + i]
  BY DEF Split
<1>4. ASSUME NEW g \in Seq(Words), NEW o \in Nat, o + Len(g) = off + Len(h), \A i \in 1 .. Len(g) : g[i] = WordAt(r, o + i)
      PROVE  Stream(g \o n, b, r, o) /\ Len(g \o n) = Len(g) + k
  <2>1. g \o n \in Seq(Words) /\ Len(g \o n) = Len(g) + k /\ Len(g) \in Nat
    BY <1>2
  <2> DEFINE lg == Len(g)  lh == Len(h)
  <2>2. lg \in Nat /\ lh \in Nat /\ k \in Nat /\ o + lg = off + lh
    BY <1>1, <1>4, <2>1
  <2>3. \A i \in 1 .. lg + k : (g \o n)[i] = IF i <= lg THEN g[i] ELSE n[i - lg]
    BY <1>2, <2>1
  <2> HIDE DEF lg, lh
  <2>4. ASSUME NEW i \in 1 .. lg + k PROVE (g \o n)[i] = WordAt(r, o + i)
    <3>1. CASE i <= lg
      BY <3>1, <2>2, <2>3, <1>4 DEF lg
    <3>2. CASE ~(i <= lg)
      <4>1. i - lg \in 1 .. k /\ lh + (i - lg) \in Int /\ off + lh + (i - lg) = o + i
        BY <3>2, <2>2
      <4>2. n[i - lg] = a[i - lg] /\ i - lg \in 1 .. Len(a)
        BY <4>1, <1>1, <1>2
      <4>3. a[i - lg] = WordAt(r, off + lh + (i - lg))
        BY <4>2 DEF Stream, lh
      <4> QED
        BY <4>1, <4>2, <4>3, <3>2, <2>3
    <3> QED
      BY <3>1, <3>2
  <2>5. ASSUME NEW i \in 1 .. Len(b) PROVE b[i] = WordAt(r, o + Len(g \o n) + i)
    <3>1. b[i] = a[k + i] /\ k + i \in 1 .. Len(a) /\ i \in Nat
      BY <1>1, <1>3
    <3>2. a[k + i] = WordAt(r, off + lh + (k + i))
      BY <3>1 DEF Stream, lh
    <3>3. off + lh + (k + i) = o + (lg + k) + i
      BY <3>1, <2>2
    <3> QED
      BY <3>1, <3>2, <3>3, <2>1 DEF lg
  <2>6. o + Len(g \o n) + Len(b) = Total(r)
    <3>1. off + lh + Len(a) = Total(r)
      BY DEF Stream, lh
    <3>2. o + (lg + k) + (Len(a) - k) = off + lh + Len(a)
      BY <1>1, <2>2
    <3> QED
      BY <3>1, <3>2, <2>1, <1>3 DEF lg
  <2> QED
    BY <1>3, <2>1, <2>4, <2>5, <2>6 DEF Stream, lg
<1>5. Stream(h \o n, b, r, off) /\ Len(h \o n) = Len(h) + k
  BY <1>1, <1>4 DEF Stream
<1>6. ASSUME h # << >>
      PROVE  /\ Len(h) > 0 /\ Head(h) = WordAt(r, off + 1)
             /\ Stream(Tail(h) \o n, b, r, off + 1) /\ Len(Tail(h) \o n) = Len(h) - 1 + k
  <2>1. Len(h) \in Nat \ {0} /\ Head(h) = h[1] /\ Tail(h) \in Seq(Words) /\ Len(Tail(h)) = Len(h) - 1
        /\ \A i \in 1 .. Len(h) - 1 : Tail(h)[i] = h[i + 1]
    BY <1>1, <1>6
  <2>2. h[1] = WordAt(r, off + 1)
    BY <2>1 DEF Stream
  <2>3. ASSUME NEW i \in 1 .. Len(Tail(h)) PROVE Tail(h)[i] = WordAt(r, (off + 1) + i)
    <3>1. Tail(h)[i] = h[i + 1] /\ i + 1 \in 1 .. Len(h) /\ off + (i + 1) = (off + 1) + i
      BY <2>1
    <3> QED
      BY <3>1 DEF Stream
  <2>4. off + 1 \in Nat /\ (off + 1) + Len(Tail(h)) = off + Len(h)
    BY <2>1
  <2>5. Stream(Tail(h) \o n, b, r, off + 1) /\ Len(Tail(h) \o n) = Len(Tail(h)) + k
    BY <2>1, <2>3, <2>4, <1>4
  <2> QED
    BY <2>1, <2>2, <2>5
<1> QED
  BY <1>1, <1>5, <1>6

-----------------------------------------------------------------------------
\* The controller in each of the phases, at a clock edge.
LEMMA QuietStep ==
  ASSUME Fields, Quiet, NEW ready \in BOOLEAN, ControllerStep(ready)
  PROVE  /\ ~S_Rd(ready) /\ DOMAIN m' = DOMAIN m
         /\ (MemFill >= 2) => Quiet' \/ TakingHeader'
         /\ ~(MemFill >= 2) => Quiet'
BY DEF Fields, Quiet, ControllerStep, S_Rd, Bus2IP_MstWr_dst_rdy, TakingHeader

LEMMA TakeHeaderStep ==
  ASSUME Fields, TakingHeader, NEW ready \in BOOLEAN, ControllerStep(ready)
  PROVE  S_Rd(ready) /\ DOMAIN m' = DOMAIN m /\ TakingAddress' /\ m'.cmd = MemWord
BY DEF Fields, TakingHeader, TakingAddress, ControllerStep, S_Rd, Bus2IP_MstWr_dst_rdy

LEMMA TakeAddressStep ==
  ASSUME Fields, TakingAddress, NEW ready \in BOOLEAN, ControllerStep(ready)
  PROVE  /\ S_Rd(ready) /\ DOMAIN m' = DOMAIN m
         /\ m'.cmd = m.cmd /\ m'.addr = MemWord /\ ~m'.S_Rd /\ ~m'.M_Wr /\ ~m'.fifo_burst
         /\ m'.state = IF m.cmd.cmd = "read" THEN "WAIT_FIFO_REM" ELSE "WAIT_FIFO_FILL"
BY DEF Fields, TakingAddress, ControllerStep, S_Rd, Bus2IP_MstWr_dst_rdy

\* A data phase that reads: REM, REQ, READ until the last word.
LEMMA ReadStep ==
  ASSUME Fields, ~m.S_Rd, ~m.fifo_burst, NEW ready \in BOOLEAN, ControllerStep(ready),
         m.state \in {"WAIT_FIFO_REM", "READ_REQ", "READ"}
  PROVE  /\ ~S_Rd(ready) /\ DOMAIN m' = DOMAIN m /\ ~m'.S_Rd /\ ~m'.fifo_burst /\ m'.cmd = m.cmd /\ m'.addr = m.addr
         /\ m.state = "WAIT_FIFO_REM" => m'.state \in {"WAIT_FIFO_REM", "READ_REQ"} /\ ~m'.M_Wr
         /\ m.state = "READ_REQ" => m'.state = "READ" /\ m'.counter = 0 /\ ~m'.M_Wr
         /\ m.state = "READ" =>
              \/ ~m'.M_Wr /\ m'.state = "READ" /\ m'.counter = m.counter
              \/ /\ m'.M_Wr /\ m'.M_Data = Contents(m.addr)
                 /\ IF m.counter + 1 = m.cmd.len THEN m'.state = "WAIT_COMPLETE"
                    ELSE m'.state = "READ" /\ m'.counter = m.counter + 1
<1>1. CASE m.state = "WAIT_FIFO_REM"
  BY <1>1, ZenonT(60) DEF Fields, ControllerStep, S_Rd
<1>2. CASE m.state = "READ_REQ"
  BY <1>2 DEF Fields, ControllerStep, S_Rd
<1>3. CASE m.state = "READ"
  <2>1. ~S_Rd(ready)
    BY DEF S_Rd
  <2>2. CASE ~(ready /\ m.cmd.len > 0)
    <3>1. m' = [m EXCEPT !.S_Rd = FALSE, !.M_Wr = FALSE]
      BY <1>3, <2>2 DEF ControllerStep
    <3> QED
      BY <1>3, <2>1, <3>1 DEF Fields
  <2>3. CASE ready /\ m.cmd.len > 0
    <3>1. m' = [m EXCEPT !.S_Rd = FALSE, !.M_Wr = TRUE, !.M_Data = Contents(m.addr),
                         !.counter = IF m.counter + 1 = m.cmd.len THEN 0 ELSE m.counter + 1,
                         !.state = IF m.counter + 1 = m.cmd.len THEN "WAIT_COMPLETE" ELSE "READ"]
      BY <1>3, <2>3 DEF ControllerStep, Fields
    <3> QED
      BY <1>3, <2>1, <3>1 DEF Fields
  <2> QED
    BY <2>2, <2>3
<1> QED
  BY <1>1, <1>2, <1>3

\* A data phase that writes.
LEMMA WriteStep ==
  ASSUME Fields, ~m.S_Rd, ~m.M_Wr, NEW ready \in BOOLEAN, ControllerStep(ready),
         m.state \in {"WAIT_FIFO_FILL", "WRITE_REQ", "WRITE"}, m.state # "WRITE" => ~m.fifo_burst
  PROVE  /\ DOMAIN m' = DOMAIN m /\ ~m'.S_Rd /\ ~m'.M_Wr /\ m'.cmd = m.cmd /\ m'.addr = m.addr
         /\ m.state = "WAIT_FIFO_FILL" =>
              ~S_Rd(ready) /\ ~m'.fifo_burst /\ m'.state = IF MemFill >= m.cmd.len THEN "WRITE_REQ" ELSE m.state
         /\ m.state = "WRITE_REQ" => ~S_Rd(ready) /\ ~m'.fifo_burst /\ m'.state = "WRITE" /\ m'.counter = 0
         /\ m.state = "WRITE" =>
              /\ m'.fifo_burst
              /\ ~S_Rd(ready) => m'.state = "WRITE" /\ m'.counter = m.counter
              /\ S_Rd(ready) => /\ m.fifo_burst
                               /\ IF m.counter + 1 = m.cmd.len THEN m'.state = "WAIT_COMPLETE"
                                  ELSE m'.state = "WRITE" /\ m'.counter = m.counter + 1
BY ZenonT(60) DEF Fields, ControllerStep, S_Rd, Bus2IP_MstWr_dst_rdy

LEMMA LastReadStep ==
  ASSUME Fields, m.state = "WAIT_COMPLETE", ~m.S_Rd, NEW ready \in BOOLEAN, ControllerStep(ready)
  PROVE  ~S_Rd(ready) /\ DOMAIN m' = DOMAIN m /\ (~m.fifo_burst => Quiet')
BY DEF Fields, Quiet, ControllerStep, S_Rd, Bus2IP_MstWr_dst_rdy

-----------------------------------------------------------------------------
\* The TLB's write port, with what the invariant says of the walker's registers.
LEMMA TlbStep ==
  ASSUME IInv, NEW ready \in BOOLEAN, NEW k \in 0 .. 2, Clock(ready, k)
  PROVE  /\ TlbUnique' /\ TlbCurrent' /\ DOMAIN tlb' = Ways /\ wptr' \in Ways /\ pt' = pt /\ resets' = resets
         /\ \A i \in Ways : tlb'[i] = NoWord \/ (tlb'[i].tag \in Pages /\ tlb'[i].data \in Frames)
         /\ ~w.tlb_we => tlb' = tlb
<1>1. pt' = pt /\ resets' = resets /\ write_proc
  BY DEF Clock
<1>2. CASE ~w.tlb_we
  BY <1>1, <1>2 DEF write_proc, IInv, Types, TlbUnique, TlbCurrent
<1>3. CASE w.tlb_we
  <2>1. /\ tlb' = [tlb EXCEPT ![wptr] = [tag |-> w.vaddr, data |-> w.pte]] /\ wptr' = (wptr + 1) % TlbSize
    BY <1>1, <1>3 DEF write_proc
  <2>2. wptr \in Ways /\ wptr' \in Ways
    BY <2>1 DEF IInv, Types, Ways
  <2>3. tlb'[wptr].tag = w.vaddr /\ tlb'[wptr].data = w.pte /\ (\A i \in Ways \ {wptr} : tlb'[i] = tlb[i]) /\ DOMAIN tlb' = Ways
    BY <2>1, <2>2 DEF IInv, Types
  <2>4. Missing /\ w.pte \in Frames /\ w.pte = pt[w.vaddr] /\ w.vaddr \in Pages
    BY <1>3 DEF IInv, Missed, Types
  <2>5. TlbUnique'
    BY <2>2, <2>3, <2>4 DEF IInv, TlbUnique, Missing
  <2>6. TlbCurrent'
    BY <1>1, <2>2, <2>3, <2>4 DEF IInv, TlbCurrent
  <2> QED
    BY <1>1, <1>3, <2>2, <2>3, <2>4, <2>5, <2>6 DEF IInv, Types
<1> QED
  BY <1>2, <1>3

\* The FIFO at a clock edge.
Pops(ready) == IF w.copy THEN S_Rd(ready) ELSE w.HWT_S_Rd

LEMMA FifoMoves ==
  ASSUME NEW ready \in BOOLEAN, NEW k \in 0 .. 2, Clock(ready, k), NEW off \in Nat, Stream(hq, ask, asked, off)
  PROVE  /\ Len(hq) \in Nat /\ Len(hq') \in Nat
         /\ ~Pops(ready) => Stream(hq', ask', asked, off) /\ Len(hq') >= Len(hq)
         /\ Pops(ready) /\ Len(hq) > 0 =>
              /\ HwtWord = WordAt(asked, off + 1)
              /\ Stream(hq', ask', asked, off + 1) /\ Len(hq') >= Len(hq) - 1
<1> DEFINE new == SubSeq(ask, 1, k)  rest == SubSeq(ask, k + 1, Len(ask))
<1>1. k <= Len(ask) /\ hq' = (IF Pops(ready) /\ hq # << >> THEN Tail(hq) ELSE hq) \o new /\ ask' = rest
  BY DEF Clock, Pops
<1>2. k \in 0 .. Len(ask) /\ k \in Nat
  BY <1>1 DEF Stream
<1> HIDE DEF new, rest
<1>3. ask \in Seq(Words) /\ Split(ask, k, new, rest)
  <2>1. ask \in Seq(Words)
    BY DEF Stream
  <2>2. k \in 0 .. Len(ask)
    BY <1>2
  <2>3. Split(ask, k, SubSeq(ask, 1, k), SubSeq(ask, k + 1, Len(ask)))
    BY <2>1, <2>2, SplitAt
  <2> QED
    BY <2>1, <2>3 DEF new, rest
<1> HIDE DEF new, rest
<1>4. /\ Len(hq) \in Nat /\ Stream(hq \o new, rest, asked, off) /\ Len(hq \o new) = Len(hq) + k
      /\ hq # << >> => /\ Len(hq) > 0 /\ Head(hq) = WordAt(asked, off + 1)
                       /\ Stream(Tail(hq) \o new, rest, asked, off + 1) /\ Len(Tail(hq) \o new) = Len(hq) - 1 + k
  BY <1>2, <1>3, StreamMoves
<1>5. CASE Pops(ready) /\ hq # << >>
  <2>1. hq' = Tail(hq) \o new
    BY <1>1, <1>5
  <2>2. Stream(hq', ask', asked, off + 1) /\ Len(hq') = Len(hq) - 1 + k /\ Len(hq) > 0 /\ HwtWord = WordAt(asked, off + 1)
    BY <1>1, <1>4, <1>5, <2>1 DEF HwtWord
  <2> QED
    BY <1>2, <1>4, <1>5, <2>2
<1>6. CASE ~(Pops(ready) /\ hq # << >>)
  <2>1. hq' = hq \o new
    BY <1>1, <1>6
  <2>2. Stream(hq', ask', asked, off) /\ Len(hq') = Len(hq) + k
    BY <1>1, <1>4, <2>1
  <2>3. Len(hq) > 0 => hq # << >>
    OBVIOUS
  <2> QED
    BY <1>2, <1>4, <1>6, <2>2, <2>3
<1> QED
  BY <1>5, <1>6

\* The rest of a clock edge while the FIFO is the walker's.
LEMMA FifoStep ==
  ASSUME NEW ready \in BOOLEAN, NEW k \in 0 .. 2, Clock(ready, k), ~w.copy
  PROVE  /\ asked' = asked /\ moved' = moved
         /\ Idle => Idle'
         /\ \A off \in Nat : Stream(hq, ask, asked, off) =>
              /\ Len(hq) \in Nat /\ Len(hq') \in Nat
              /\ ~w.HWT_S_Rd => Stream(hq', ask', asked, off) /\ Len(hq') >= Len(hq)
              /\ w.HWT_S_Rd /\ Len(hq) > 0 =>
                   /\ HwtWord = WordAt(asked, off + 1)
                   /\ Stream(hq', ask', asked, off + 1) /\ Len(hq') >= Len(hq) - 1
<1>1. /\ k <= Len(ask) /\ hq' = (IF w.HWT_S_Rd /\ hq # << >> THEN Tail(hq) ELSE hq) \o SubSeq(ask, 1, k)
      /\ ask' = SubSeq(ask, k + 1, Len(ask)) /\ asked' = asked /\ moved' = moved
  BY DEF Clock
<1>2. Idle => Idle'
  <2> SUFFICES ASSUME Idle PROVE Idle'
    OBVIOUS
  <2>1. k = 0 /\ Len(ask) = 0
    BY <1>1 DEF Idle
  <2>2. SubSeq(ask, 1, 0) = << >> /\ SubSeq(ask, 1, Len(ask)) = << >> /\ << >> \o << >> = << >>
    BY <2>1 DEF Idle
  <2> QED
    BY <1>1, <2>1, <2>2 DEF Idle
<1> QED
  BY <1>1, <1>2, FifoMoves DEF Pops

-----------------------------------------------------------------------------
-----------------------------------------------------------------------------
\* What a clock edge has to keep when the three are in step.
LEMMA ClockKeeps ==
  ASSUME IInv, NEW ready \in BOOLEAN, NEW k \in 0 .. 2, Clock(ready, k),
         DOMAIN w' = DOMAIN w, DOMAIN m' = DOMAIN m, w'.state \in WalkerStates, w'.vaddr \in Pages,
         w'.pte \in Frames \union {Unmapped}, Missed', Following', InStep' \/ Stuck'
  PROVE  IInv'
<1>1. Fields'
  BY DEF IInv, Fields
<1>2. Types'
  BY TlbStep DEF IInv, Types
<1>3. Stuck' => resets' # 0
  BY <1>2 DEF Stuck, Types
<1> QED
  BY <1>1, <1>2, <1>3, TlbStep DEF IInv

\* The walker reads the request's header and address.
LEMMA FetchFollows ==
  ASSUME IInv, NEW ready \in BOOLEAN, NEW k \in 0 .. 2, Clock(ready, k), ~w.copy,
         w.state \in {"WAIT_HEADER", "READ_CMD", "READ_ADDR"}
  PROVE  /\ DOMAIN w' = DOMAIN w /\ ~w'.copy /\ w'.MEM_S_Fill = w.MEM_S_Fill /\ ~w'.tlb_we /\ w'.pte = w.pte
         /\ Following' /\ w'.vaddr \in Pages /\ w'.state \in {"WAIT_HEADER", "READ_CMD", "READ_ADDR", "READ_PGDE_0"}
<1>1. Fields /\ ~w.tlb_we /\ ~w.copy
  BY DEF IInv, Missed
<1>2. WaitHeader \/ ReadCmd \/ ReadAddr
  BY DEF Clock, pt_walk, ReadPgde0, ReadPgde1, ReadPgde2, ReadPte0, ReadPte1, ReadPte2, WriteHeader0, WriteHeader1,
     AddressTaken, Copy, PageFault
<1>3. DOMAIN w' = DOMAIN w /\ ~w'.copy /\ w'.MEM_S_Fill = w.MEM_S_Fill /\ ~w'.tlb_we /\ w'.pte = w.pte
  BY <1>1, <1>2 DEF Fields, WaitHeader, ReadCmd, ReadAddr
<1>4. Following' /\ w'.vaddr \in Pages /\ w'.state \in {"WAIT_HEADER", "READ_CMD", "READ_ADDR", "READ_PGDE_0"}
  <2>1. moved' = 0 /\ asked' = asked
    BY <1>1, FifoStep DEF IInv, Following
  <2>2. CASE WaitHeader
    <3>1. Idle' \/ (Stream(hq', ask', asked', 0) /\ Len(hq) \in Nat /\ Len(hq') \in Nat /\ Len(hq') >= Len(hq))
      BY <1>1, <2>1, <2>2, FifoStep DEF WaitHeader, IInv, Following
    <3>2. CASE Len(hq) > 1
      <4>1. ~Idle
        BY <3>2 DEF Idle
      <4>2. Stream(hq', ask', asked', 0) /\ Len(hq') >= 2
        BY <1>1, <2>1, <2>2, <3>2, <4>1, FifoStep DEF WaitHeader, IInv, Following
      <4>3. w'.state = "READ_CMD" /\ w'.HWT_S_Rd /\ w'.vaddr = w.vaddr
        BY <1>1, <2>2, <3>2 DEF WaitHeader, Fields
      <4> QED
        BY <2>1, <4>2, <4>3 DEF Following, WalkStates, IInv, Types
    <3>3. CASE ~(Len(hq) > 1)
      <4>1. w' = w
        BY <2>2, <3>3 DEF WaitHeader
      <4> QED
        BY <2>1, <2>2, <3>1, <4>1 DEF WaitHeader, Following, WalkStates, IInv, Types
    <3> QED
      BY <3>2, <3>3
  <2>3. CASE ReadCmd
    <3>1. w.HWT_S_Rd /\ Stream(hq, ask, asked, 0) /\ Len(hq) >= 2
      BY <2>3 DEF ReadCmd, IInv, Following
    <3>2. HwtWord = WordAt(asked, 1) /\ Stream(hq', ask', asked, 1) /\ Len(hq') >= 1
      BY <1>1, <3>1, FifoStep
    <3>3. HwtWord.cmd = asked.cmd /\ HwtWord.len = asked.len
      BY <3>2 DEF WordAt, Header
    <3>4. w'.state = "READ_ADDR" /\ w'.HWT_S_Rd /\ w'.vaddr = w.vaddr /\ w'.cmd = asked.cmd /\ w'.len = asked.len
      BY <1>1, <2>3, <3>1, <3>3 DEF ReadCmd, Fields
    <3> QED
      BY <2>1, <3>2, <3>4 DEF Following, WalkStates, IInv, Types
  <2>4. CASE ReadAddr
    <3>1. w.HWT_S_Rd /\ Stream(hq, ask, asked, 1) /\ Len(hq) >= 1 /\ w.cmd = asked.cmd /\ w.len = asked.len
      BY <2>4 DEF ReadAddr, IInv, Following
    <3>2. HwtWord = WordAt(asked, 2) /\ Stream(hq', ask', asked, 2)
      BY <1>1, <3>1, FifoStep
    <3>3. HwtWord.at = asked.page /\ asked.page \in Pages
      BY <3>1, <3>2 DEF WordAt, Address, Stream, Asks
    <3>4. w'.state = "READ_PGDE_0" /\ ~w'.HWT_S_Rd /\ w'.vaddr = asked.page /\ w'.cmd = asked.cmd /\ w'.len = asked.len
      BY <1>1, <2>4, <3>1, <3>3 DEF ReadAddr, Fields
    <3> QED
      BY <2>1, <3>2, <3>3, <3>4 DEF Following, WalkStates
  <2> QED
    BY <1>2, <2>2, <2>3, <2>4
<1> QED
  BY <1>3, <1>4

LEMMA FetchStep ==
  ASSUME IInv, InStep, NEW ready \in BOOLEAN, NEW k \in 0 .. 2, Clock(ready, k),
         w.state \in {"WAIT_HEADER", "READ_CMD", "READ_ADDR"}
  PROVE  IInv' /\ InStep'
<1>1. ~w.copy /\ w.MEM_S_Fill = 0 /\ Quiet /\ Fields /\ Types
  BY DEF IInv, InStep, Silent
<1>2. Quiet' /\ DOMAIN m' = DOMAIN m
  BY <1>1, QuietStep DEF Clock, MemFill
<1>3. /\ DOMAIN w' = DOMAIN w /\ ~w'.copy /\ w'.MEM_S_Fill = 0 /\ ~w'.tlb_we /\ w'.pte = w.pte
      /\ Following' /\ w'.vaddr \in Pages /\ w'.state \in {"WAIT_HEADER", "READ_CMD", "READ_ADDR", "READ_PGDE_0"}
  BY <1>1, FetchFollows
<1>4. Missed'
  BY <1>3 DEF Missed
<1>5. InStep'
  BY <1>2, <1>3 DEF InStep, Silent, Offering, Addressing, Waiting, Copying
<1> QED
  BY <1>1, <1>2, <1>3, <1>4, <1>5, ClockKeeps DEF Types, WalkerStates

\* From the lookup to the frame the request does not change.
LEMMA WalkStep ==
  ASSUME IInv, NEW ready \in BOOLEAN, NEW k \in 0 .. 2, Clock(ready, k), w.state \in WalkStates, ~w.copy
  PROVE  /\ DOMAIN w' = DOMAIN w /\ w'.cmd = w.cmd /\ w'.len = w.len /\ w'.vaddr = w.vaddr /\ ~w'.HWT_S_Rd
         /\ w'.state \in WalkStates \union {"COPY"} /\ w'.state \in WalkerStates /\ w'.vaddr \in Pages
         /\ w'.state \in WalkStates => w'.copy = w.copy
         /\ Following' /\ asked' = asked /\ moved' = 0 /\ pt' = pt
         /\ Stream(hq, ask, asked, 2) /\ Stream(hq', ask', asked, 2)
         /\ w.cmd = asked.cmd /\ w.len = asked.len /\ w.vaddr = asked.page
<1>1. /\ ~w.HWT_S_Rd /\ Stream(hq, ask, asked, 2) /\ w.cmd = asked.cmd /\ w.len = asked.len /\ w.vaddr = asked.page
      /\ moved = 0 /\ w.vaddr \in Pages /\ Fields
  BY DEF IInv, Following, Types, WalkStates
<1>2. asked' = asked /\ moved' = 0 /\ Stream(hq', ask', asked, 2) /\ pt' = pt
  BY <1>1, FifoStep DEF Clock
<1>3. /\ DOMAIN w' = DOMAIN w /\ w'.cmd = w.cmd /\ w'.len = w.len /\ w'.vaddr = w.vaddr /\ w'.HWT_S_Rd = w.HWT_S_Rd
      /\ w'.state \in WalkStates \union {"COPY"} /\ (w'.state \in WalkStates => w'.copy = w.copy)
  <2> DEFINE rd == S_Rd(ready)
  <2>1. ReadPgde0(rd) \/ ReadPte0(rd) \/ WriteHeader0(rd) \/ ReadPgde1(rd) \/ ReadPte1(rd) \/ WriteHeader1(rd)
        \/ ReadPgde2(m.M_Wr) \/ ReadPte2(m.M_Wr) \/ PageFault
    BY DEF Clock, pt_walk, WaitHeader, ReadCmd, ReadAddr, Copy, WalkStates
  <2> HIDE DEF rd
  <2>2. CASE ReadPgde0(rd)
    BY <1>1, <2>2 DEF ReadPgde0, Offered, Fields, WalkStates
  <2>3. CASE ReadPte0(rd)
    BY <1>1, <2>3, SMTT(20) DEF ReadPte0, Offered, Fields, WalkStates
  <2>4. CASE WriteHeader0(rd)
    BY <1>1, <2>4, SMTT(20) DEF WriteHeader0, Offered, Fields, WalkStates
  <2>7. CASE ReadPgde1(rd)
    BY <1>1, <2>7, SMTT(20) DEF ReadPgde1, AddressTaken, Fields, WalkStates
  <2>8. CASE ReadPte1(rd)
    BY <1>1, <2>8, SMTT(20) DEF ReadPte1, AddressTaken, Fields, WalkStates
  <2>9. CASE WriteHeader1(rd)
    BY <1>1, <2>9, SMTT(20) DEF WriteHeader1, Fields, WalkStates
  <2>5. CASE ReadPgde2(m.M_Wr) \/ PageFault
    BY <1>1, <2>5, ZenonT(60) DEF ReadPgde2, PageFault, Fields, WalkStates
  <2>6. CASE ReadPte2(m.M_Wr)
    BY <1>1, <2>6 DEF ReadPte2, Fields, WalkStates
  <2> QED
    BY <2>1, <2>2, <2>3, <2>4, <2>5, <2>6, <2>7, <2>8, <2>9
<1>4. w'.state \in WalkerStates
  BY <1>3 DEF WalkStates, WalkerStates
<1>5. Following'
  BY <1>1, <1>2, <1>3 DEF Following, WalkStates
<1> QED
  BY <1>1, <1>2, <1>3, <1>4, <1>5

\* With unique entries a hit finds the page's.
LEMMA HitFinds ==
  ASSUME Types, TlbUnique, TlbCurrent, NEW p, Matches(p) # {}
  PROVE  tlb_do(p) \in Frames /\ tlb_do(p) = pt[p]
<1>1. PICK i \in Ways : tlb[i] # NoWord /\ tlb[i].tag = p
  BY DEF Matches
<1>2. Matches(p) = {i}
  BY <1>1 DEF Matches, TlbUnique
<1>3. Cardinality(Matches(p)) = 1 /\ (CHOOSE j \in Matches(p) : TRUE) = i
  BY <1>2, FS_Singleton
<1>4. tlb_do(p) = tlb[i].data
  BY <1>3 DEF tlb_do
<1> QED
  BY <1>1, <1>4 DEF Types, TlbCurrent

\* The walker looks the page up, or offers a header.
LEMMA OfferStep ==
  ASSUME IInv, InStep, NEW ready \in BOOLEAN, NEW k \in 0 .. 2, Clock(ready, k),
         w.state \in {"READ_PGDE_0", "READ_PTE_0", "WRITE_HEADER_0"}
  PROVE  IInv' /\ InStep'
<1> DEFINE rd == S_Rd(ready)
<1>1. /\ ~w.copy /\ Fields /\ Types /\ w.state \in WalkStates /\ ControllerStep(ready) /\ MemFill = w.MEM_S_Fill /\ MemWord = w.MEM_S_Data
      /\ \/ w.MEM_S_Fill = 0 /\ Quiet
         \/ w.MEM_S_Fill = 2 /\ w.MEM_S_Data = TheHeader /\ (Quiet \/ TakingHeader)
  BY DEF IInv, InStep, Offering, WalkStates, Clock, MemFill, MemWord
<1>2. /\ DOMAIN w' = DOMAIN w /\ w'.cmd = w.cmd /\ w'.len = w.len /\ w'.vaddr = w.vaddr
      /\ w'.state \in WalkerStates /\ w'.vaddr \in Pages /\ Following' /\ pt' = pt
  BY <1>1, WalkStep
<1>3. ReadPgde0(rd) \/ ReadPte0(rd) \/ WriteHeader0(rd)
  BY DEF Clock, pt_walk, WaitHeader, ReadCmd, ReadAddr, ReadPgde1, ReadPgde2, ReadPte1, ReadPte2, WriteHeader1,
     AddressTaken, Copy, PageFault
<1>4. \/ ~rd /\ Quiet' /\ DOMAIN m' = DOMAIN m
      \/ w.MEM_S_Fill = 2 /\ w.MEM_S_Data = TheHeader /\ ~rd /\ TakingHeader' /\ DOMAIN m' = DOMAIN m
      \/ w.MEM_S_Fill = 2 /\ w.MEM_S_Data = TheHeader /\ rd /\ TakingAddress' /\ m'.cmd = TheHeader /\ DOMAIN m' = DOMAIN m
  BY <1>1, QuietStep, TakeHeaderStep
<1>5. CASE w.state = "READ_PGDE_0" /\ Matches(w.vaddr) # {}
  <2>1. ~Missing
    BY <1>5 DEF Missing, Matches
  <2>2. w.MEM_S_Fill = 0 /\ Quiet /\ ~w.tlb_we
    BY <1>1, <1>5, <2>1 DEF IInv, Missed
  <2>3. Quiet' /\ DOMAIN m' = DOMAIN m
    BY <1>1, <2>2, QuietStep
  <2>4. w' = [w EXCEPT !.pte = tlb_do(w.vaddr), !.state = "WRITE_HEADER_0"]
    BY <1>3, <1>5 DEF ReadPgde0, ReadPte0, WriteHeader0
  <2>5. tlb_do(w.vaddr) \in Frames /\ tlb_do(w.vaddr) = pt[w.vaddr]
    BY <1>5, HitFinds DEF IInv
  <2> DEFINE hit == tlb_do(w.vaddr)
  <2>6. w'.state = "WRITE_HEADER_0" /\ w'.pte = hit /\ w'.MEM_S_Fill = 0 /\ ~w'.copy /\ ~w'.tlb_we
    BY <1>1, <2>2, <2>4 DEF Fields
  <2>7. w'.pte \in Frames /\ w'.pte = pt'[w'.vaddr]
    BY <1>2, <2>5, <2>6
  <2>8. Missed'
    BY <2>6, <2>7 DEF Missed
  <2>9. InStep'
    BY <2>3, <2>6 DEF InStep, Silent, Offering, Addressing, Waiting, Copying
  <2> QED
    BY <1>2, <2>3, <2>7, <2>8, <2>9, ClockKeeps
<1>6. CASE ~(w.state = "READ_PGDE_0" /\ Matches(w.vaddr) # {})
  <2>1. /\ w'.pte = w.pte /\ ~w'.copy /\ ~w'.tlb_we
        /\ ~rd => w'.state = w.state /\ w'.MEM_S_Fill = 2 /\ w'.MEM_S_Data = TheHeader
        /\ rd => /\ w'.MEM_S_Fill = 1 /\ w'.MEM_S_Data = TheAddress
                 /\ w.state = "READ_PGDE_0" => w'.state = "READ_PGDE_1"
                 /\ w.state = "READ_PTE_0" => w'.state = "READ_PTE_1"
                 /\ w.state = "WRITE_HEADER_0" => w'.state = "WRITE_HEADER_1"
    <3>1. w.tlb_we => w.state = "WRITE_HEADER_0"
      BY DEF IInv, Missed
    <3> HIDE DEF rd
    <3>2. CASE ReadPgde0(rd)
      BY <1>1, <1>6, <3>1, <3>2 DEF ReadPgde0, Offered, TheHeader, TheAddress, Fields
    <3>3. CASE ReadPte0(rd)
      BY <1>1, <3>1, <3>3 DEF ReadPte0, Offered, TheHeader, TheAddress, Fields
    <3>4. CASE WriteHeader0(rd)
      BY <1>1, <3>1, <3>4 DEF WriteHeader0, Offered, TheHeader, TheAddress, Fields
    <3> QED
      BY <1>3, <3>2, <3>3, <3>4 DEF rd
  <2>2. TheHeader' = TheHeader /\ (rd => TheAddress' = TheAddress)
    BY <1>2, <2>1 DEF TheHeader, TheAddress
  <2>3. Missed'
    <3>1. w.state \in {"READ_PGDE_0", "READ_PTE_0"} => Missing /\ ~w.tlb_we
      BY <1>6 DEF IInv, Missed, Missing, Matches
    <3>2. w.state \in {"READ_PGDE_0", "READ_PTE_0"} => Missing'
      BY <1>2, <3>1, TlbStep DEF Missing
    <3>3. w.state = "WRITE_HEADER_0" => w'.pte \in Frames /\ w'.pte = pt'[w'.vaddr]
      BY <1>2, <2>1 DEF IInv, Missed
    <3> QED
      BY <2>1, <3>2, <3>3 DEF Missed
  <2>4. InStep'
    <3>1. CASE rd
      BY <1>4, <2>1, <2>2, <3>1 DEF InStep, Silent, Offering, Addressing, Waiting, Copying
    <3>2. CASE ~rd
      BY <1>4, <2>1, <2>2, <3>2 DEF InStep, Silent, Offering, Addressing, Waiting, Copying
    <3> QED
      BY <3>1, <3>2
  <2>5. w'.pte \in Frames \union {Unmapped}
    BY <1>1, <2>1 DEF Types
  <2> QED
    BY <1>2, <1>4, <2>3, <2>4, <2>5, ClockKeeps
<1> QED
  BY <1>5, <1>6

\* The controller takes the address and starts.
LEMMA AddressStep ==
  ASSUME IInv, InStep, NEW ready \in BOOLEAN, NEW k \in 0 .. 2, Clock(ready, k),
         w.state \in {"READ_PGDE_1", "READ_PTE_1", "WRITE_HEADER_1"}
  PROVE  IInv' /\ InStep'
<1> DEFINE rd == S_Rd(ready)
<1>1. /\ ~w.copy /\ Fields /\ Types /\ w.state \in WalkStates /\ ControllerStep(ready) /\ MemWord = w.MEM_S_Data
      /\ w.MEM_S_Data = TheAddress /\ TakingAddress /\ m.cmd = TheHeader /\ ~w.tlb_we
  BY DEF IInv, InStep, Addressing, WalkStates, Clock, MemWord, Missed
<1>2. /\ DOMAIN w' = DOMAIN w /\ w'.cmd = w.cmd /\ w'.len = w.len /\ w'.vaddr = w.vaddr /\ ~w'.HWT_S_Rd
      /\ w'.state \in WalkerStates /\ w'.vaddr \in Pages /\ Following' /\ pt' = pt /\ asked' = asked /\ moved' = 0
      /\ Stream(hq', ask', asked, 2) /\ w.cmd = asked.cmd /\ w.len = asked.len /\ w.vaddr = asked.page
  BY <1>1, WalkStep
<1>3. /\ rd /\ DOMAIN m' = DOMAIN m
      /\ m'.cmd = TheHeader /\ m'.addr = TheAddress /\ ~m'.S_Rd /\ ~m'.M_Wr /\ ~m'.fifo_burst
      /\ m'.state = IF m.cmd.cmd = "read" THEN "WAIT_FIFO_REM" ELSE "WAIT_FIFO_FILL"
  BY <1>1, TakeAddressStep
<1>4. ReadPgde1(rd) \/ ReadPte1(rd) \/ WriteHeader1(rd)
  BY DEF Clock, pt_walk, WaitHeader, ReadCmd, ReadAddr, ReadPgde0, ReadPgde2, ReadPte0, ReadPte2, WriteHeader0,
     Copy, PageFault
<1> HIDE DEF rd
<1>5. w'.pte = w.pte /\ w'.MEM_S_Fill = 0 /\ ~w'.tlb_we
  BY <1>1, <1>3, <1>4, ZenonT(60) DEF ReadPgde1, ReadPte1, WriteHeader1, AddressTaken, Fields
<1>6. CASE w.state \in {"READ_PGDE_1", "READ_PTE_1"}
  <2>1. /\ w.state = "READ_PGDE_1" => w'.state = "READ_PGDE_2"
        /\ w.state = "READ_PTE_1" => w'.state = "READ_PTE_2"
        /\ ~w'.copy
    BY <1>1, <1>3, <1>4, <1>6 DEF ReadPgde1, ReadPte1, WriteHeader1, AddressTaken, Fields
  <2>2. TheHeader' = TheHeader /\ TheAddress' = TheAddress /\ m.cmd.cmd = "read"
    BY <1>1, <1>2, <1>6, <2>1 DEF TheHeader, TheAddress, Header
  <2>3. InStep'
    BY <1>3, <1>5, <1>6, <2>1, <2>2 DEF InStep, Silent, Offering, Addressing, Waiting, Copying
  <2>4. Missing'
    BY <1>1, <1>2, <1>6, TlbStep DEF Missing, Missed, IInv
  <2>5. Missed'
    BY <1>5, <1>6, <2>1, <2>4 DEF Missed
  <2>6. w'.pte \in Frames \union {Unmapped}
    BY <1>1, <1>5 DEF Types
  <2> QED
    BY <1>2, <1>3, <2>3, <2>5, <2>6, ClockKeeps
<1>7. CASE w.state = "WRITE_HEADER_1"
  <2>1. w'.state = "COPY" /\ w'.copy /\ w'.counter = 0
    BY <1>1, <1>3, <1>4, <1>7 DEF ReadPgde1, ReadPte1, WriteHeader1, AddressTaken, Fields
  <2>2. m.cmd = Header(asked.cmd, asked.len) /\ TheAddress = Address("frame", w.pte) /\ m.cmd.cmd = asked.cmd
    BY <1>1, <1>2, <1>7 DEF TheHeader, TheAddress, Header
  <2>3. w.pte \in Frames /\ w.pte = pt[asked.page]
    BY <1>2, <1>7 DEF IInv, Missed
  <2>4. asked.cmd \in {"read", "write"} /\ asked.len \in Nat \ {0}
    BY <1>2 DEF Stream, Asks
  <2>5. 0 \in 0 .. asked.len - 1 /\ (IF asked.cmd = "write" THEN 2 + 0 ELSE 2) = 2
    BY <2>4
  <2>6. Stream(hq', ask', asked', IF asked'.cmd = "write" THEN 2 + moved' ELSE 2)
    BY <1>2, <2>5
  <2>7. Moving'
    BY <1>1, <1>2, <1>3, <1>5, <2>1, <2>2, <2>3, <2>4, <2>5, <2>6 DEF Moving
  <2>8. InStep'
    BY <1>2, <1>5, <2>1, <2>7 DEF InStep, Silent, Offering, Addressing, Waiting, Copying
  <2>9. Missed'
    BY <1>5, <2>1 DEF Missed
  <2> QED
    BY <1>2, <1>3, <1>5, <2>3, <2>8, <2>9, ClockKeeps
<1> QED
  BY <1>6, <1>7

\* The walker gets a directory or a table entry.
LEMMA EntryStep ==
  ASSUME IInv, InStep, NEW ready \in BOOLEAN, NEW k \in 0 .. 2, Clock(ready, k), w.state \in {"READ_PGDE_2", "READ_PTE_2"}
  PROVE  IInv' /\ InStep'
<1>1. /\ ~w.copy /\ Fields /\ Types /\ w.state \in WalkStates /\ ControllerStep(ready) /\ w.MEM_S_Fill = 0 /\ ~w.tlb_we
      /\ m.cmd = TheHeader /\ m.addr = TheAddress /\ ~m.S_Rd /\ ~m.fifo_burst /\ Missing
      /\ \/ m.state \in {"WAIT_FIFO_REM", "READ_REQ"} /\ ~m.M_Wr
         \/ m.state = "READ" /\ m.counter = 0 /\ ~m.M_Wr
         \/ m.state = "WAIT_COMPLETE" /\ m.M_Wr
              /\ (w.state = "READ_PTE_2" => m.M_Data = Unmapped \/ (m.M_Data = pt[w.vaddr] /\ m.M_Data \in Frames))
  BY DEF IInv, InStep, Waiting, WalkStates, Clock, Missed
<1>2. /\ DOMAIN w' = DOMAIN w /\ w'.cmd = w.cmd /\ w'.len = w.len /\ w'.vaddr = w.vaddr /\ ~w'.HWT_S_Rd
      /\ w'.state \in WalkerStates /\ w'.vaddr \in Pages /\ Following' /\ pt' = pt
  BY <1>1, WalkStep
<1>3. ReadPgde2(m.M_Wr) \/ ReadPte2(m.M_Wr)
  BY DEF Clock, pt_walk, WaitHeader, ReadCmd, ReadAddr, ReadPgde0, ReadPgde1, ReadPte0, ReadPte1, WriteHeader0, WriteHeader1,
     AddressTaken, Copy, PageFault
<1>4. Missing'
  BY <1>1, <1>2, TlbStep DEF Missing
<1>5. CASE ~m.M_Wr
  <2>1. w' = w
    BY <1>3, <1>5 DEF ReadPgde2, ReadPte2
  <2>2. m.cmd = Header("read", 1) /\ TheHeader' = TheHeader /\ TheAddress' = TheAddress
        /\ (w.state = "READ_PTE_2" => TheAddress = Address("table", w.vaddr))
    BY <1>1, <2>1 DEF TheHeader, TheAddress
  <2>3. m.cmd.len = 1 /\ (w.state = "READ_PTE_2" => Contents(m.addr) = pt[w.vaddr])
    BY <1>1, <2>2 DEF Header, Address, Contents
  <2>4. pt[w.vaddr] = Unmapped \/ pt[w.vaddr] \in Frames
    BY <1>1 DEF Types
  <2>5. /\ DOMAIN m' = DOMAIN m /\ ~m'.S_Rd /\ ~m'.fifo_burst /\ m'.cmd = m.cmd /\ m'.addr = m.addr
        /\ \/ m'.state \in {"WAIT_FIFO_REM", "READ_REQ"} /\ ~m'.M_Wr
           \/ m'.state = "READ" /\ m'.counter = 0 /\ ~m'.M_Wr
           \/ m'.state = "WAIT_COMPLETE" /\ m'.M_Wr /\ m'.M_Data = Contents(m.addr)
    <3>1. m.state = "READ" => m.counter + 1 = m.cmd.len
      BY <1>1, <1>5, <2>3
    <3> QED
      BY <1>1, <1>5, <3>1, ReadStep
  <2>6. InStep'
    BY <1>1, <1>2, <2>1, <2>2, <2>3, <2>4, <2>5 DEF InStep, Silent, Offering, Addressing, Waiting, Copying
  <2>7. Missed'
    BY <1>1, <1>4, <2>1 DEF Missed
  <2> QED
    BY <1>1, <1>2, <2>1, <2>5, <2>6, <2>7, ClockKeeps DEF Types
<1>6. CASE m.M_Wr
  <2>1. Quiet' /\ DOMAIN m' = DOMAIN m
    BY <1>1, <1>6, LastReadStep
  <2>2. /\ ~w'.copy /\ w'.MEM_S_Fill = 0
        /\ \/ w'.state \in {"PAGE_FAULT", "READ_PTE_0"} /\ ~w'.tlb_we /\ w'.pte \in {w.pte, Unmapped}
           \/ w'.state = "WRITE_HEADER_0" /\ w'.pte = m.M_Data /\ m.M_Data # Unmapped /\ w.state = "READ_PTE_2"
    <3>1. CASE ReadPgde2(m.M_Wr)
      BY <1>1, <1>6, <3>1 DEF ReadPgde2, Fields
    <3>2. CASE ReadPte2(m.M_Wr)
      BY <1>1, <1>6, <3>2 DEF ReadPte2, Fields
    <3> QED
      BY <1>3, <3>1, <3>2
  <2>3. InStep'
    BY <2>1, <2>2 DEF InStep, Silent, Offering, Addressing, Waiting, Copying
  <2>4. w'.state = "WRITE_HEADER_0" => w'.pte \in Frames /\ w'.pte = pt'[w'.vaddr]
    BY <1>1, <1>2, <1>6, <2>2
  <2>5. Missed'
    BY <1>4, <2>2, <2>4 DEF Missed
  <2>6. w'.pte \in Frames \union {Unmapped}
    BY <1>1, <2>2, <2>4 DEF Types
  <2> QED
    BY <1>2, <2>1, <2>3, <2>5, <2>6, ClockKeeps
<1> QED
  BY <1>5, <1>6

\* The walker waits for a page to be mapped and looks it up again.
LEMMA FaultStep ==
  ASSUME IInv, InStep, NEW ready \in BOOLEAN, NEW k \in 0 .. 2, Clock(ready, k), w.state = "PAGE_FAULT"
  PROVE  IInv' /\ InStep'
<1>1. /\ ~w.copy /\ Fields /\ Types /\ w.state \in WalkStates /\ ControllerStep(ready) /\ w.MEM_S_Fill = 0 /\ ~w.tlb_we
      /\ Quiet /\ Missing
  BY DEF IInv, InStep, Silent, WalkStates, Clock, Missed
<1>2. /\ DOMAIN w' = DOMAIN w /\ w'.vaddr = w.vaddr
      /\ w'.state \in WalkerStates /\ w'.vaddr \in Pages /\ Following'
  BY <1>1, WalkStep
<1>3. PageFault
  BY DEF Clock, pt_walk, WaitHeader, ReadCmd, ReadAddr, ReadPgde0, ReadPgde1, ReadPgde2, ReadPte0, ReadPte1, ReadPte2,
     WriteHeader0, WriteHeader1, AddressTaken, Copy
<1>4. w'.state \in {"PAGE_FAULT", "READ_PGDE_0"} /\ ~w'.copy /\ w'.MEM_S_Fill = 0 /\ ~w'.tlb_we /\ w'.pte = w.pte
  BY <1>1, <1>3 DEF PageFault, Fields
<1>5. Quiet' /\ DOMAIN m' = DOMAIN m
  BY <1>1, QuietStep DEF MemFill
<1>6. InStep'
  BY <1>4, <1>5 DEF InStep, Silent, Offering, Addressing, Waiting, Copying
<1>7. Missing'
  BY <1>1, <1>2, TlbStep DEF Missing
<1>8. Missed'
  BY <1>4, <1>7 DEF Missed
<1> QED
  BY <1>1, <1>2, <1>4, <1>5, <1>6, <1>8, ClockKeeps DEF Types

-----------------------------------------------------------------------------
LEMMA StreamEnds ==
  ASSUME NEW h, NEW a, NEW r, NEW off, Stream(h, a, r, off), off = Total(r)
  PROVE  h = << >> /\ a = << >>
<1>1. h \in Seq(Words) /\ a \in Seq(Words) /\ off + Len(h) + Len(a) = off /\ off \in Nat
  <2>1. r.len \in Nat
    BY DEF Stream, Asks
  <2> QED
    BY <2>1 DEF Stream, Total
<1>2. Len(h) = 0 /\ Len(a) = 0
  BY <1>1
<1> QED
  BY <1>1, <1>2

LEMMA AsksTypes ==
  ASSUME NEW r \in Asks
  PROVE  r.len \in Nat \ {0} /\ r.cmd \in {"read", "write"} /\ r.page \in Pages /\ r # NoWord
<1>1. DOMAIN r = {"cmd", "len", "page"} /\ DOMAIN NoWord = {"is"}
  BY DEF Asks, NoWord
<1>2. r # NoWord
  BY <1>1
<1> QED
  BY <1>2 DEF Asks

LEMMA IdleStays ==
  ASSUME NEW ready \in BOOLEAN, NEW k \in 0 .. 2, Clock(ready, k), Idle
  PROVE  Idle' /\ asked' = asked
<1>1. k = 0 /\ Len(ask) = 0
  BY DEF Clock, Idle
<1>2. SubSeq(ask, 1, 0) = << >> /\ SubSeq(ask, 1, Len(ask)) = << >> /\ << >> \o << >> = << >>
  BY <1>1 DEF Idle
<1>3. hq' = << >> \o SubSeq(ask, 1, k) /\ ask' = SubSeq(ask, k + 1, Len(ask)) /\ asked' = NoWord
  BY DEF Clock, Idle
<1> QED
  BY <1>1, <1>2, <1>3 DEF Idle

\* Walker and thread at an edge while the controller has the FIFO.
LEMMA CopyEdge ==
  ASSUME Fields, NEW ready \in BOOLEAN, NEW k \in 0 .. 2, Clock(ready, k), w.state = "COPY", w.copy
  PROVE  /\ DOMAIN w' = DOMAIN w /\ w'.len = w.len /\ w'.vaddr = w.vaddr /\ w'.pte = w.pte
         /\ w'.HWT_S_Rd = w.HWT_S_Rd /\ w'.MEM_S_Fill = w.MEM_S_Fill /\ w'.tlb_we = w.tlb_we
         /\ w'.copy = (w.counter # w.len) /\ w'.state = IF w.counter = w.len THEN "WAIT_HEADER" ELSE "COPY"
         /\ ~(m.M_Wr \/ S_Rd(ready)) => w'.counter = w.counter /\ moved' = moved /\ asked' = asked
         /\ m.M_Wr \/ S_Rd(ready) =>
              /\ w'.counter = w.counter + 1
              /\ asked # NoWord /\ moved + 1 = asked.len => moved' = 0 /\ asked' = NoWord
              /\ ~(asked # NoWord /\ moved + 1 = asked.len) => moved' = moved + 1 /\ asked' = asked
         /\ pt' = pt /\ ControllerStep(ready)
<1>1. Copy(S_Rd(ready), m.M_Wr)
  BY DEF Clock, pt_walk, WaitHeader, ReadCmd, ReadAddr, ReadPgde0, ReadPgde1, ReadPgde2, ReadPte0, ReadPte1, ReadPte2,
     WriteHeader0, WriteHeader1, AddressTaken, PageFault
<1> DEFINE rd == S_Rd(ready)
<1>2. /\ moved' = IF (m.M_Wr \/ rd) /\ ~(asked # NoWord /\ moved + 1 = asked.len) THEN moved + 1
                  ELSE IF (m.M_Wr \/ rd) /\ asked # NoWord /\ moved + 1 = asked.len THEN 0 ELSE moved
      /\ asked' = IF (m.M_Wr \/ rd) /\ asked # NoWord /\ moved + 1 = asked.len THEN NoWord ELSE asked
      /\ pt' = pt /\ ControllerStep(ready)
  BY DEF Clock
<1> HIDE DEF rd
<1>3. w' = [w EXCEPT !.counter = IF m.M_Wr \/ rd THEN @ + 1 ELSE @,
                     !.copy = (w.counter # w.len),
                     !.state = IF w.counter = w.len THEN "WAIT_HEADER" ELSE @]
  BY <1>1 DEF Copy, rd
<1>4. /\ DOMAIN w' = DOMAIN w /\ w'.len = w.len /\ w'.vaddr = w.vaddr /\ w'.pte = w.pte
      /\ w'.HWT_S_Rd = w.HWT_S_Rd /\ w'.MEM_S_Fill = w.MEM_S_Fill /\ w'.tlb_we = w.tlb_we
      /\ w'.copy = (w.counter # w.len) /\ w'.state = IF w.counter = w.len THEN "WAIT_HEADER" ELSE "COPY"
      /\ w'.counter = IF m.M_Wr \/ rd THEN w.counter + 1 ELSE w.counter
  BY <1>3 DEF Fields
<1> QED
  BY <1>2, <1>4 DEF rd

\* A read: the FIFO from the thread is empty, the words go the other way.
LEMMA ReadMoves ==
  ASSUME Fields, NEW ready \in BOOLEAN, NEW k \in 0 .. 2, Clock(ready, k), w.state = "COPY", w.copy, Moving,
         asked.cmd = "read"
  PROVE  DOMAIN m' = DOMAIN m /\ (Moving' \/ Moved')
<1>1. /\ Stream(hq, ask, asked, 2) /\ w.len = asked.len /\ w.pte \in Frames /\ w.pte = pt[asked.page] /\ w.counter = moved
      /\ moved \in 0 .. asked.len - 1 /\ m.cmd = Header(asked.cmd, asked.len) /\ m.cmd.len = asked.len
      /\ m.addr = Address("frame", w.pte) /\ ~m.S_Rd /\ ~m.fifo_burst
      /\ \/ m.state \in {"WAIT_FIFO_REM", "READ_REQ"} /\ moved = 0 /\ ~m.M_Wr
         \/ m.state = "READ" /\ m.counter = moved + (IF m.M_Wr THEN 1 ELSE 0) /\ m.counter < asked.len
         \/ m.state = "WAIT_COMPLETE" /\ m.M_Wr /\ moved + 1 = asked.len
  BY DEF Moving, Header
<1>2. asked.len \in Nat \ {0} /\ asked # NoWord /\ Total(asked) = 2
  BY <1>1, AsksTypes DEF Stream, Total
<1>3. hq = << >> /\ ask = << >>
  BY <1>1, <1>2, StreamEnds
<1>4. ~S_Rd(ready)
  BY <1>1 DEF S_Rd
<1>5. Stream(hq', ask', asked, 2)
  BY <1>1, <1>4, FifoMoves DEF Pops
<1>6. /\ w'.len = w.len /\ w'.pte = w.pte /\ pt' = pt /\ ControllerStep(ready)
      /\ ~m.M_Wr => w'.counter = w.counter /\ moved' = moved /\ asked' = asked
      /\ m.M_Wr => /\ w'.counter = w.counter + 1
                   /\ moved + 1 = asked.len => moved' = 0 /\ asked' = NoWord
                   /\ ~(moved + 1 = asked.len) => moved' = moved + 1 /\ asked' = asked
  BY <1>2, <1>4, CopyEdge
<1>7. CASE m.state = "WAIT_COMPLETE"
  <2>1. Quiet' /\ DOMAIN m' = DOMAIN m
    BY <1>1, <1>6, <1>7, LastReadStep
  <2>2. hq' = << >> /\ ask' = << >>
    BY <1>2, <1>5, StreamEnds
  <2>3. moved' = 0 /\ asked' = NoWord /\ w'.counter = w'.len
    BY <1>1, <1>6, <1>7
  <2> QED
    BY <2>1, <2>2, <2>3 DEF Moved, Idle
<1>8. CASE m.state # "WAIT_COMPLETE"
  <2>1. /\ DOMAIN m' = DOMAIN m /\ ~m'.S_Rd /\ ~m'.fifo_burst /\ m'.cmd = m.cmd /\ m'.addr = m.addr
        /\ m.state = "WAIT_FIFO_REM" => m'.state \in {"WAIT_FIFO_REM", "READ_REQ"} /\ ~m'.M_Wr
        /\ m.state = "READ_REQ" => m'.state = "READ" /\ m'.counter = 0 /\ ~m'.M_Wr
        /\ m.state = "READ" =>
             \/ ~m'.M_Wr /\ m'.state = "READ" /\ m'.counter = m.counter
             \/ /\ m'.M_Wr
                /\ IF m.counter + 1 = m.cmd.len THEN m'.state = "WAIT_COMPLETE"
                   ELSE m'.state = "READ" /\ m'.counter = m.counter + 1
    BY <1>1, <1>6, <1>8, ReadStep
  <2>2. moved + 1 # asked.len \/ ~m.M_Wr
    BY <1>1, <1>2, <1>8
  <2>3. /\ asked' = asked /\ w'.counter = moved' /\ moved' \in 0 .. asked.len - 1
        /\ moved' = moved + (IF m.M_Wr THEN 1 ELSE 0)
    BY <1>1, <1>2, <1>6, <2>2
  <2>4. \/ m'.state \in {"WAIT_FIFO_REM", "READ_REQ"} /\ moved' = 0 /\ ~m'.M_Wr
        \/ m'.state = "READ" /\ m'.counter = moved' + (IF m'.M_Wr THEN 1 ELSE 0) /\ m'.counter < asked.len
        \/ m'.state = "WAIT_COMPLETE" /\ m'.M_Wr /\ moved' + 1 = asked.len
    <3>1. CASE m.state = "READ"
      BY <1>1, <1>2, <2>1, <2>3, <3>1
    <3>2. CASE m.state # "READ"
      BY <1>1, <1>2, <1>8, <2>1, <2>3, <3>2
    <3> QED
      BY <3>1, <3>2
  <2>5. asked.cmd # "write"
    OBVIOUS
  <2>6. Moving'
    BY <1>1, <1>5, <1>6, <2>1, <2>3, <2>4, <2>5 DEF Moving
  <2> QED
    BY <2>1, <2>6
<1> QED
  BY <1>7, <1>8

\* A write: the controller pops the words.
LEMMA WriteMoves ==
  ASSUME Fields, NEW ready \in BOOLEAN, NEW k \in 0 .. 2, Clock(ready, k), w.state = "COPY", w.copy, Moving,
         asked.cmd = "write"
  PROVE  DOMAIN m' = DOMAIN m /\ (Moving' \/ Moved')
<1>1. /\ Stream(hq, ask, asked, 2 + moved) /\ w.len = asked.len /\ w.pte \in Frames /\ w.pte = pt[asked.page] /\ w.counter = moved
      /\ moved \in 0 .. asked.len - 1 /\ m.cmd = Header(asked.cmd, asked.len) /\ m.cmd.len = asked.len
      /\ m.addr = Address("frame", w.pte) /\ ~m.S_Rd /\ ~m.M_Wr
      /\ \/ m.state = "WAIT_FIFO_FILL" /\ moved = 0 /\ ~m.fifo_burst
         \/ m.state = "WRITE_REQ" /\ moved = 0 /\ ~m.fifo_burst /\ Len(hq) >= asked.len
         \/ m.state = "WRITE" /\ m.counter = moved /\ Len(hq) + moved >= asked.len
  BY DEF Moving, Header
<1>2. asked.len \in Nat \ {0} /\ asked # NoWord /\ Total(asked) = 2 + asked.len /\ moved \in Nat /\ 2 + moved \in Nat
  <2>1. asked.len \in Nat \ {0} /\ asked # NoWord /\ Total(asked) = 2 + asked.len
    BY <1>1, AsksTypes DEF Stream, Total
  <2>2. moved \in Nat
    BY <1>1, <2>1
  <2> QED
    BY <2>1, <2>2
<1>3. /\ Len(hq) \in Nat /\ Len(hq') \in Nat
      /\ ~S_Rd(ready) => Stream(hq', ask', asked, 2 + moved) /\ Len(hq') >= Len(hq)
      /\ S_Rd(ready) /\ Len(hq) > 0 => Stream(hq', ask', asked, (2 + moved) + 1) /\ Len(hq') >= Len(hq) - 1
  BY <1>1, <1>2, FifoMoves DEF Pops
<1>4. /\ w'.len = w.len /\ w'.pte = w.pte /\ pt' = pt /\ ControllerStep(ready)
      /\ ~S_Rd(ready) => w'.counter = w.counter /\ moved' = moved /\ asked' = asked
      /\ S_Rd(ready) => /\ w'.counter = w.counter + 1
                        /\ moved + 1 = asked.len => moved' = 0 /\ asked' = NoWord
                        /\ ~(moved + 1 = asked.len) => moved' = moved + 1 /\ asked' = asked
  BY <1>1, <1>2, CopyEdge
<1>5. /\ DOMAIN m' = DOMAIN m /\ ~m'.S_Rd /\ ~m'.M_Wr /\ m'.cmd = m.cmd /\ m'.addr = m.addr
      /\ m.state = "WAIT_FIFO_FILL" =>
           ~S_Rd(ready) /\ ~m'.fifo_burst /\ m'.state = IF Len(hq) >= m.cmd.len THEN "WRITE_REQ" ELSE m.state
      /\ m.state = "WRITE_REQ" => ~S_Rd(ready) /\ ~m'.fifo_burst /\ m'.state = "WRITE" /\ m'.counter = 0
      /\ m.state = "WRITE" =>
           /\ m'.fifo_burst
           /\ ~S_Rd(ready) => m'.state = "WRITE" /\ m'.counter = m.counter
           /\ S_Rd(ready) => IF m.counter + 1 = m.cmd.len THEN m'.state = "WAIT_COMPLETE"
                             ELSE m'.state = "WRITE" /\ m'.counter = m.counter + 1
  <2>1. MemFill = Len(hq)
    BY DEF MemFill
  <2>2. m.state \in {"WAIT_FIFO_FILL", "WRITE_REQ", "WRITE"} /\ (m.state # "WRITE" => ~m.fifo_burst)
    BY <1>1
  <2> QED
    BY <1>1, <1>4, <2>1, <2>2, WriteStep
<1> DEFINE rd == S_Rd(ready)  fill == Len(hq)  fill2 == Len(hq')
<1>6. fill \in Nat /\ fill2 \in Nat
  BY <1>3
<1>7. CASE ~rd
  <2>1. /\ asked' = asked /\ moved' = moved /\ w'.counter = moved' /\ fill2 >= fill /\ Stream(hq', ask', asked, 2 + moved')
    BY <1>1, <1>3, <1>4, <1>7
  <2>2. \/ m'.state = "WAIT_FIFO_FILL" /\ moved' = 0 /\ ~m'.fifo_burst
        \/ m'.state = "WRITE_REQ" /\ moved' = 0 /\ ~m'.fifo_burst /\ fill2 >= asked.len
        \/ m'.state = "WRITE" /\ m'.counter = moved' /\ fill2 + moved' >= asked.len
    BY <1>1, <1>2, <1>5, <1>6, <1>7, <2>1
  <2>3. Moving'
    BY <1>1, <1>4, <1>5, <2>1, <2>2 DEF Moving
  <2> QED
    BY <1>5, <2>3
<1>8. CASE rd
  <2>1. m.state = "WRITE" /\ fill > 0 /\ fill + moved >= asked.len /\ m.counter = moved
    BY <1>1, <1>2, <1>5, <1>6, <1>8
  <2>2. Stream(hq', ask', asked, (2 + moved) + 1) /\ fill2 >= fill - 1
    BY <1>3, <1>8, <2>1
  <2>3. CASE moved + 1 = asked.len
    <3>1. (2 + moved) + 1 = Total(asked)
      BY <1>2, <2>3
    <3>2. hq' = << >> /\ ask' = << >>
      BY <2>2, <3>1, StreamEnds
    <3>3. moved' = 0 /\ asked' = NoWord /\ w'.counter = w'.len /\ m'.state = "WAIT_COMPLETE"
      BY <1>1, <1>4, <1>5, <1>8, <2>1, <2>3
    <3> QED
      BY <1>5, <3>2, <3>3 DEF Moved, Idle, Quiet
  <2>4. CASE moved + 1 # asked.len
    <3>1. asked' = asked /\ moved' = moved + 1 /\ w'.counter = moved' /\ m'.state = "WRITE" /\ m'.counter = moved'
      BY <1>1, <1>4, <1>5, <1>8, <2>1, <2>4
    <3>2. (2 + moved) + 1 = 2 + moved' /\ moved' \in 0 .. asked.len - 1 /\ fill2 + moved' >= asked.len
      <4>1. moved \in Nat /\ asked.len \in Nat /\ moved < asked.len
        BY <1>1, <1>2
      <4> HIDE DEF fill, fill2
      <4>2. (2 + moved) + 1 = 2 + moved' /\ moved' \in 0 .. asked.len - 1
        BY <2>4, <3>1, <4>1
      <4> QED
        BY <1>6, <2>1, <2>2, <3>1, <4>1, <4>2
    <3>3. Moving'
      BY <1>1, <1>4, <1>5, <2>2, <3>1, <3>2 DEF Moving
    <3> QED
      BY <1>5, <3>3
  <2> QED
    BY <2>3, <2>4
<1> QED
  BY <1>7, <1>8

\* The words of the request go by.
LEMMA CopyStep ==
  ASSUME IInv, InStep, NEW ready \in BOOLEAN, NEW k \in 0 .. 2, Clock(ready, k), w.state = "COPY"
  PROVE  IInv' /\ InStep'
<1>1. /\ w.copy /\ ~w.HWT_S_Rd /\ w.MEM_S_Fill = 0 /\ ~w.tlb_we /\ Fields /\ Types /\ (Moving \/ Moved)
  BY DEF IInv, InStep, Copying, Missed
<1>2. /\ DOMAIN w' = DOMAIN w /\ w'.len = w.len /\ w'.vaddr = w.vaddr /\ w'.pte = w.pte
      /\ ~w'.HWT_S_Rd /\ w'.MEM_S_Fill = 0 /\ ~w'.tlb_we /\ ControllerStep(ready)
      /\ w'.copy = (w.counter # w.len) /\ w'.state = IF w.counter = w.len THEN "WAIT_HEADER" ELSE "COPY"
  BY <1>1, CopyEdge
<1>3. Missed' /\ w'.state \in WalkerStates /\ w'.vaddr \in Pages /\ w'.pte \in Frames \union {Unmapped}
  BY <1>1, <1>2 DEF Missed, WalkerStates, Types
<1>4. CASE Moved
  <2>1. w.counter = w.len /\ Quiet /\ moved = 0 /\ hq = << >> /\ (Idle \/ Stream(hq, ask, asked, 0))
    BY <1>4 DEF Moved
  <2>2. MemFill = 0
    BY <1>1, <2>1 DEF MemFill
  <2>3. Quiet' /\ ~S_Rd(ready) /\ DOMAIN m' = DOMAIN m
    BY <1>1, <1>2, <2>1, <2>2, QuietStep
  <2>4. moved' = 0 /\ asked' = asked
    BY <1>1, <2>1, <2>3, CopyEdge DEF Quiet
  <2>5. Idle' \/ Stream(hq', ask', asked', 0)
    BY <1>1, <2>1, <2>3, <2>4, IdleStays, FifoMoves DEF Pops
  <2>6. w'.state = "WAIT_HEADER" /\ ~w'.copy
    BY <1>2, <2>1
  <2>7. Following'
    BY <1>2, <2>4, <2>5, <2>6 DEF Following, WalkStates
  <2>8. InStep'
    BY <1>2, <2>3, <2>6 DEF InStep, Silent, Offering, Addressing, Waiting, Copying
  <2> QED
    BY <1>2, <1>3, <2>3, <2>7, <2>8, ClockKeeps
<1>5. CASE Moving
  <2>1. w.len = asked.len /\ w.counter = moved /\ moved \in 0 .. asked.len - 1 /\ asked.len \in Nat /\ asked.cmd \in {"read", "write"}
    BY <1>5 DEF Moving, Stream, Asks
  <2>2. w'.state = "COPY" /\ w'.copy
    <3>1. w.counter # w.len
      BY <2>1
    <3> QED
      BY <1>2, <3>1
  <2>3. DOMAIN m' = DOMAIN m /\ (Moving' \/ Moved')
    BY <1>1, <1>5, <2>1, ReadMoves, WriteMoves
  <2>4. Following'
    BY <2>2 DEF Following, WalkStates
  <2>5. InStep'
    BY <1>2, <2>2, <2>3 DEF InStep, Silent, Offering, Addressing, Waiting, Copying
  <2> QED
    BY <1>2, <1>3, <2>3, <2>4, <2>5, ClockKeeps
<1> QED
  BY <1>1, <1>4, <1>5

-----------------------------------------------------------------------------
\* After a reset that the controller has missed.
LEMMA StuckStep ==
  ASSUME IInv, Stuck, NEW ready \in BOOLEAN, NEW k \in 0 .. 2, Clock(ready, k)
  PROVE  IInv'
<1> DEFINE rd == S_Rd(ready)  len == m.cmd.len
<1>1. /\ Fields /\ Types /\ ~w.copy /\ ~w.tlb_we /\ ~m.S_Rd /\ ~m.M_Wr /\ len \in Nat
      /\ resets > 0 /\ resets' = resets /\ (\A i \in Ways : tlb'[i] = NoWord) /\ ControllerStep(ready)
      /\ MemFill = w.MEM_S_Fill
  BY TlbStep DEF IInv, Stuck, Clock, MemFill
<1>2. Missing'
  BY <1>1 DEF Missing
<1>3. ASSUME DOMAIN w' = DOMAIN w, DOMAIN m' = DOMAIN m, Following', ~w'.copy, ~w'.tlb_we, w'.pte = w.pte,
             w'.vaddr \in Pages, ~m'.S_Rd, ~m'.M_Wr, m'.cmd = m.cmd,
             \/ /\ Waits'
                /\ \/ w'.state \in {"WAIT_HEADER", "READ_CMD", "READ_ADDR"} /\ w'.MEM_S_Fill = 0
                   \/ w'.state = "READ_PGDE_0" /\ w'.MEM_S_Fill \in {0, 2}
             \/ /\ m'.state \in {"WRITE_REQ", "WRITE"} /\ w'.state = "READ_PGDE_0" /\ w'.MEM_S_Fill = 2 /\ len \in {1, 2}
                /\ IF m'.state = "WRITE" THEN m'.counter = 0 ELSE ~m'.fifo_burst
             \/ /\ m'.state = "WRITE" /\ w'.state = "READ_PGDE_1" /\ w'.MEM_S_Fill = 1
                /\ m'.counter = 1 /\ len = 2 /\ m'.fifo_burst
             \/ /\ m'.state \in {"WAIT_COMPLETE", "WAIT_HEADER"} /\ (m'.state = "WAIT_HEADER" => ~m'.fifo_burst)
                /\ \/ w'.state = "READ_PGDE_1" /\ w'.MEM_S_Fill = 1
                   \/ w'.state = "READ_PGDE_2" /\ w'.MEM_S_Fill = 0
      PROVE  IInv'
  <2>1. Stuck'
    BY <1>1, <1>3 DEF Stuck
  <2>2. w'.state \in {"WAIT_HEADER", "READ_CMD", "READ_ADDR", "READ_PGDE_0", "READ_PGDE_1", "READ_PGDE_2"}
    BY <1>3
  <2>3. Missed' /\ w'.state \in WalkerStates
    BY <1>2, <1>3, <2>2 DEF Missed, WalkerStates
  <2> QED
    BY <1>1, <1>3, <2>1, <2>3, ClockKeeps DEF Types
<1>4. w.state \in WalkStates =>
        DOMAIN w' = DOMAIN w /\ w'.vaddr = w.vaddr /\ w'.vaddr \in Pages /\ Following'
  BY <1>1, WalkStep
<1>5. w.state = "READ_PGDE_0" =>
        /\ ~w'.copy /\ ~w'.tlb_we /\ w'.pte = w.pte
        /\ ~rd => w'.state = w.state /\ w'.MEM_S_Fill = 2
        /\ rd => w'.state = "READ_PGDE_1" /\ w'.MEM_S_Fill = 1
  <2> SUFFICES ASSUME w.state = "READ_PGDE_0"
               PROVE  /\ ~w'.copy /\ ~w'.tlb_we /\ w'.pte = w.pte
                      /\ ~rd => w'.state = w.state /\ w'.MEM_S_Fill = 2
                      /\ rd => w'.state = "READ_PGDE_1" /\ w'.MEM_S_Fill = 1
    OBVIOUS
  <2>1. Matches(w.vaddr) = {}
    BY DEF Matches, Stuck
  <2>2. ReadPgde0(rd)
    BY DEF Clock, pt_walk, WaitHeader, ReadCmd, ReadAddr, ReadPgde1, ReadPgde2, ReadPte0, ReadPte1, ReadPte2,
       WriteHeader0, WriteHeader1, AddressTaken, Copy, PageFault
  <2> HIDE DEF rd
  <2> QED
    BY <1>1, <2>1, <2>2 DEF ReadPgde0, Offered, Fields
<1>6. w.state = "READ_PGDE_1" =>
        /\ ~w'.copy /\ ~w'.tlb_we /\ w'.pte = w.pte
        /\ ~rd => w'.state = w.state /\ w'.MEM_S_Fill = w.MEM_S_Fill
        /\ rd => w'.state = "READ_PGDE_2" /\ w'.MEM_S_Fill = 0
  <2> SUFFICES ASSUME w.state = "READ_PGDE_1"
               PROVE  /\ ~w'.copy /\ ~w'.tlb_we /\ w'.pte = w.pte
                      /\ ~rd => w'.state = w.state /\ w'.MEM_S_Fill = w.MEM_S_Fill
                      /\ rd => w'.state = "READ_PGDE_2" /\ w'.MEM_S_Fill = 0
    OBVIOUS
  <2>1. ReadPgde1(rd)
    BY DEF Clock, pt_walk, WaitHeader, ReadCmd, ReadAddr, ReadPgde0, ReadPgde2, ReadPte0, ReadPte1, ReadPte2,
       WriteHeader0, WriteHeader1, AddressTaken, Copy, PageFault
  <2> HIDE DEF rd
  <2> QED
    BY <1>1, <2>1 DEF ReadPgde1, AddressTaken, Fields
<1>7. w.state = "READ_PGDE_2" => w' = w
  BY <1>1 DEF Clock, pt_walk, WaitHeader, ReadCmd, ReadAddr, ReadPgde0, ReadPgde1, ReadPgde2, ReadPte0, ReadPte1, ReadPte2,
     WriteHeader0, WriteHeader1, AddressTaken, Copy, PageFault
<1>8. m.state \in {"WAIT_FIFO_FILL", "WRITE_REQ", "WRITE"} /\ (m.state # "WRITE" => ~m.fifo_burst) =>
      /\ DOMAIN m' = DOMAIN m /\ ~m'.S_Rd /\ ~m'.M_Wr /\ m'.cmd = m.cmd
      /\ m.state = "WAIT_FIFO_FILL" =>
           ~rd /\ ~m'.fifo_burst /\ m'.state = IF w.MEM_S_Fill >= len THEN "WRITE_REQ" ELSE m.state
      /\ m.state = "WRITE_REQ" => ~rd /\ ~m'.fifo_burst /\ m'.state = "WRITE" /\ m'.counter = 0
      /\ m.state = "WRITE" =>
           /\ m'.fifo_burst
           /\ ~rd => m'.state = "WRITE" /\ m'.counter = m.counter
           /\ rd => IF m.counter + 1 = len THEN m'.state = "WAIT_COMPLETE"
                    ELSE m'.state = "WRITE" /\ m'.counter = m.counter + 1
  BY <1>1, WriteStep
<1> HIDE DEF rd
<1>9. CASE Waits /\ m.state # "WAIT_FIFO_FILL"
  <2>1. /\ ~rd /\ DOMAIN m' = DOMAIN m /\ m'.cmd = m.cmd /\ m'.state = m.state
        /\ ~m'.S_Rd /\ ~m'.M_Wr /\ ~m'.fifo_burst
    <3>1. m.state \in {"WAIT_FIFO_REM", "READ"} /\ ~m.fifo_burst
      BY <1>9 DEF Waits
    <3>2. m' = [m EXCEPT !.S_Rd = FALSE, !.M_Wr = FALSE]
      <4>1. CASE m.state = "WAIT_FIFO_REM"
        <5>1. ~(m.cmd.len <= 1)
          BY <1>1, <1>9, <4>1 DEF Waits
        <5>2. m' = [m EXCEPT !.S_Rd = FALSE, !.M_Wr = FALSE, !.state = m.state]
          BY <1>1, <4>1, <5>1 DEF ControllerStep
        <5> QED
          BY <1>1, <5>2 DEF Fields
      <4>2. CASE m.state = "READ"
        <5>1. ~(m.cmd.len > 0)
          BY <1>1, <1>9, <4>2 DEF Waits
        <5> QED
          BY <1>1, <4>2, <5>1 DEF ControllerStep
      <4> QED
        BY <3>1, <4>1, <4>2
    <3> QED
      BY <1>1, <3>1, <3>2 DEF Fields, rd, S_Rd
  <2>2. Waits'
    BY <1>9, <2>1 DEF Waits
  <2>3. CASE w.state \in {"WAIT_HEADER", "READ_CMD", "READ_ADDR"}
    <3>1. w.MEM_S_Fill = 0
      BY <1>9, <2>3 DEF Stuck, Waits
    <3> QED
      BY <1>1, <1>3, <2>1, <2>2, <2>3, <3>1, FetchFollows
  <2>4. CASE w.state = "READ_PGDE_0"
    BY <1>3, <1>4, <1>5, <2>1, <2>2, <2>4 DEF WalkStates
  <2> QED
    BY <1>9, <2>3, <2>4 DEF Stuck, Waits
<1>10. CASE m.state = "WAIT_FIFO_FILL"
  <2>1. ~m.fifo_burst /\ len > 0
    BY <1>10 DEF Stuck, Waits
  <2>2. CASE w.state \in {"WAIT_HEADER", "READ_CMD", "READ_ADDR"}
    <3>1. w.MEM_S_Fill = 0
      BY <1>10, <2>2 DEF Stuck
    <3>2. /\ DOMAIN w' = DOMAIN w /\ ~w'.copy /\ w'.MEM_S_Fill = 0 /\ ~w'.tlb_we /\ w'.pte = w.pte
          /\ Following' /\ w'.vaddr \in Pages /\ w'.state \in {"WAIT_HEADER", "READ_CMD", "READ_ADDR", "READ_PGDE_0"}
      BY <1>1, <2>2, <3>1, FetchFollows
    <3>3. ~(0 >= len)
      BY <1>1, <2>1
    <3>4. Waits'
      BY <1>8, <1>10, <2>1, <3>1, <3>3 DEF Waits
    <3> QED
      BY <1>3, <1>8, <1>10, <2>1, <3>1, <3>2, <3>4
  <2>3. CASE w.state = "READ_PGDE_0"
    <3>1. w.MEM_S_Fill \in {0, 2} /\ w.state \in WalkStates
      BY <1>10, <2>3 DEF Stuck, WalkStates
    <3>2. w.MEM_S_Fill >= len => len \in {1, 2}
      BY <1>1, <2>1, <3>1
    <3>3. ~(w.MEM_S_Fill >= len) => Waits'
      BY <1>8, <1>10, <2>1 DEF Waits
    <3> QED
      BY <1>3, <1>4, <1>5, <1>8, <1>10, <2>1, <2>3, <3>1, <3>2, <3>3
  <2> QED
    BY <1>10, <2>2, <2>3 DEF Stuck
<1>11. CASE m.state \in {"WRITE_REQ", "WRITE"} /\ w.state = "READ_PGDE_0"
  <2>1. /\ w.MEM_S_Fill = 2 /\ len \in {1, 2} /\ (IF m.state = "WRITE" THEN m.counter = 0 ELSE ~m.fifo_burst)
        /\ w.state \in WalkStates
    BY <1>11 DEF Stuck, Waits, WalkStates
  <2>2. 0 + 1 = len \/ len = 2
    BY <2>1
  <2> QED
    BY <1>3, <1>4, <1>5, <1>8, <1>11, <2>1, <2>2
<1>12. CASE m.state = "WRITE" /\ w.state = "READ_PGDE_1"
  <2>1. w.MEM_S_Fill = 1 /\ m.counter = 1 /\ len = 2 /\ m.fifo_burst /\ w.state \in WalkStates
    BY <1>12 DEF Stuck, Waits, WalkStates
  <2> QED
    BY <1>3, <1>4, <1>6, <1>8, <1>12, <2>1
<1>13. CASE m.state \in {"WAIT_COMPLETE", "WAIT_HEADER"}
  <2>1. /\ m.state = "WAIT_HEADER" => ~m.fifo_burst
        /\ \/ w.state = "READ_PGDE_1" /\ w.MEM_S_Fill = 1
           \/ w.state = "READ_PGDE_2" /\ w.MEM_S_Fill = 0
        /\ w.state \in WalkStates
    BY <1>13 DEF Stuck, Waits, Waits, WalkStates
  <2>2. ~rd
    BY <1>1, <1>13 DEF rd, S_Rd, Bus2IP_MstWr_dst_rdy
  <2>3. w'.state = w.state /\ w'.MEM_S_Fill = w.MEM_S_Fill /\ ~w'.copy /\ ~w'.tlb_we /\ w'.pte = w.pte
    BY <1>1, <1>6, <1>7, <2>1, <2>2
  <2>4. ~(MemFill >= 2)
    BY <1>1, <2>1
  <2>5. /\ DOMAIN m' = DOMAIN m /\ ~m'.S_Rd /\ ~m'.M_Wr /\ m'.cmd = m.cmd
        /\ m'.state \in {"WAIT_COMPLETE", "WAIT_HEADER"} /\ (m'.state = "WAIT_HEADER" => ~m'.fifo_burst)
    BY <1>1, <1>13, <2>1, <2>4, ZenonT(60) DEF Fields, ControllerStep
  <2> QED
    BY <1>3, <1>4, <2>1, <2>3, <2>5
<1> QED
  BY SMTT(60), <1>9, <1>10, <1>11, <1>12, <1>13 DEF Stuck, Waits

-----------------------------------------------------------------------------
\* In which states of the walker the controller is in the middle of a command.
LEMMA Phases ==
  ASSUME IInv
  PROVE  /\ m.state \in ControllerStates
         /\ InStep /\ m.state = "WAIT_FIFO_FILL" => w.state = "COPY" /\ Moving /\ asked.cmd = "write"
         /\ InStep /\ m.state = "READ_CMD" => ~w.copy /\ w.MEM_S_Data = TheHeader /\ m.S_Rd
         /\ InStep /\ m.state = "READ_ADDR" => ~w.copy /\ w.MEM_S_Data = TheAddress /\ m.S_Rd
         /\ InStep /\ m.state = "WRITE" => w.state = "COPY" /\ w.copy /\ Moving /\ asked.cmd = "write"
         /\ InStep /\ m.state = "READ" /\ w.copy => w.state = "COPY" /\ Moving /\ asked.cmd = "read"
<1>1. CASE Stuck /\ ~InStep
  BY <1>1 DEF Stuck, Waits, ControllerStates
<1>2. CASE InStep /\ w.state \in {"WAIT_HEADER", "READ_CMD", "READ_ADDR", "PAGE_FAULT"}
  BY <1>2 DEF InStep, Silent, Quiet, ControllerStates
<1>3. CASE InStep /\ w.state \in {"READ_PGDE_0", "READ_PTE_0", "WRITE_HEADER_0"}
  BY <1>3 DEF InStep, Offering, Quiet, TakingHeader, ControllerStates
<1>4. CASE InStep /\ w.state \in {"READ_PGDE_1", "READ_PTE_1", "WRITE_HEADER_1"}
  BY <1>4 DEF InStep, Addressing, TakingAddress, ControllerStates
<1>5. CASE InStep /\ w.state \in {"READ_PGDE_2", "READ_PTE_2"}
  BY <1>5 DEF InStep, Waiting, ControllerStates
<1>6. CASE InStep /\ w.state = "COPY"
  <2>1. w.copy /\ (Moving \/ Moved)
    BY <1>6 DEF InStep, Copying
  <2>2. CASE Moved
    BY <1>6, <2>2 DEF Moved, Quiet, ControllerStates
  <2>3. CASE Moving
    <3>1. asked.cmd \in {"read", "write"}
      BY <2>3, AsksTypes DEF Moving, Stream
    <3>2. CASE asked.cmd = "read"
      <4>1. m.state \in {"WAIT_FIFO_REM", "READ_REQ", "READ", "WAIT_COMPLETE"}
        BY <2>3, <3>2 DEF Moving
      <4> QED
        BY <1>6, <2>1, <2>3, <3>2, <4>1 DEF ControllerStates
    <3>3. CASE asked.cmd = "write"
      <4>1. m.state \in {"WAIT_FIFO_FILL", "WRITE_REQ", "WRITE"}
        BY <2>3, <3>3 DEF Moving
      <4> QED
        BY <1>6, <2>1, <2>3, <3>3, <4>1 DEF ControllerStates
    <3> QED
      BY <3>1, <3>2, <3>3
  <2> QED
    BY <2>1, <2>2, <2>3
<1> QED
  BY <1>1, <1>2, <1>3, <1>4, <1>5, <1>6 DEF IInv, Types, WalkerStates

\* After power-up and after a reset.
Cleared ==
  /\ w = WalkerReset /\ asked = NoWord /\ hq = << >> /\ ask = << >> /\ moved = 0
  /\ tlb = [i \in Ways |-> NoWord] /\ pt = [p \in Pages |-> Unmapped] /\ wptr \in Ways /\ resets \in Nat
  /\ DOMAIN m = {"state", "cmd", "addr", "counter", "S_Rd", "M_Wr", "M_Data", "fifo_burst"}

Fresh ==
  /\ Fields /\ Types /\ TlbUnique /\ TlbCurrent /\ Missed /\ Following
  /\ w.state = "WAIT_HEADER" /\ ~w.copy /\ ~w.tlb_we /\ w.MEM_S_Fill = 0 /\ \A i \in Ways : tlb[i] = NoWord

LEMMA ClearedIsFresh == Cleared => Fresh
<1> SUFFICES ASSUME Cleared PROVE Fresh
  OBVIOUS
<1>1. (CHOOSE p \in Pages : TRUE) \in Pages
  <2>1. PICK d \in Dirs, t \in Tables : TRUE
    OBVIOUS
  <2>2. <<d, t>> \in Pages
    BY DEF Pages
  <2>3. \E p : p \in Pages /\ TRUE
    BY <2>2
  <2> QED
    BY <2>3, Zenon
<1> DEFINE any == CHOOSE p \in Pages : TRUE
<1>2. /\ DOMAIN w = {"state", "cmd", "len", "vaddr", "pte", "HWT_S_Rd", "MEM_S_Fill", "MEM_S_Data", "copy",
                     "counter", "page_fault", "tlb_we"}
      /\ w.state = "WAIT_HEADER" /\ w.vaddr = any /\ w.pte = Unmapped /\ ~w.HWT_S_Rd /\ w.MEM_S_Fill = 0 /\ ~w.copy /\ ~w.tlb_we
  BY DEF Cleared, WalkerReset
<1> HIDE DEF any
<1>3. any \in Pages
  BY <1>1 DEF any
<1>4. \A i \in Ways : tlb[i] = NoWord
  BY DEF Cleared
<1>5. Types /\ Fields
  BY <1>2, <1>3, <1>4 DEF Cleared, Types, Fields, WalkerStates
<1> QED
  BY <1>2, <1>4, <1>5 DEF Cleared, Fresh, TlbUnique, TlbCurrent, Missed, Following, WalkStates, Idle

LEMMA InitIInv == Init => IInv
<1> SUFFICES ASSUME Init PROVE IInv
  OBVIOUS
<1>1. /\ m.state = "WAIT_HEADER" /\ ~m.S_Rd /\ ~m.M_Wr /\ ~m.fifo_burst
      /\ DOMAIN m = {"state", "cmd", "addr", "counter", "S_Rd", "M_Wr", "M_Data", "fifo_burst"}
  BY DEF Init
<1>2. wptr \in Ways
  BY DEF Init, Ways
<1>3. /\ Fields /\ Types /\ TlbUnique /\ TlbCurrent /\ Missed /\ Following
      /\ w.state = "WAIT_HEADER" /\ ~w.copy /\ ~w.tlb_we /\ w.MEM_S_Fill = 0
  BY <1>1, <1>2, ClearedIsFresh DEF Init, Cleared, Fresh
<1>4. InStep
  BY <1>1, <1>3 DEF InStep, Silent, Offering, Addressing, Waiting, Copying, Quiet
<1> QED
  BY <1>3, <1>4 DEF IInv

\* Where it may rest.
LEMMA RestsThere ==
  ASSUME NEW r, DOMAIN r = {"state", "cmd", "addr", "counter", "S_Rd", "M_Wr", "M_Data", "fifo_burst"},
         ~r.fifo_burst, r.cmd.len \in Nat, r.cmd.len = 0 => r.cmd.cmd = "read", Rests(r) \/ Finishes(r)
  PROVE  /\ DOMAIN m' = DOMAIN r /\ ~m'.S_Rd /\ ~m'.M_Wr /\ ~m'.fifo_burst /\ m'.cmd = r.cmd
         /\ m'.state = "WAIT_HEADER" \/ Waits'
<1>1. CASE Finishes(r)
  BY <1>1 DEF Finishes
<1>2. CASE r.cmd.cmd = "write" /\ m' = [r EXCEPT !.state = "WAIT_FIFO_FILL", !.S_Rd = FALSE, !.M_Wr = FALSE, !.counter = 0]
  <2>1. r.cmd.len > 0
    BY <1>2
  <2> QED
    BY <1>2, <2>1 DEF Waits
<1>3. CASE r.cmd.len > 1 /\ m' = [r EXCEPT !.state = "WAIT_FIFO_REM", !.S_Rd = FALSE, !.M_Wr = FALSE, !.counter = 0]
  BY <1>3 DEF Waits
<1>4. CASE /\ r.cmd.cmd = "read" /\ r.cmd.len = 0
           /\ m' = [r EXCEPT !.state = "READ", !.S_Rd = FALSE, !.M_Wr = FALSE, !.counter = 0]
  BY <1>4 DEF Waits
<1> QED
  BY <1>1, <1>2, <1>3, <1>4 DEF Rests

LEMMA HeaderKnown ==
  ASSUME IInv, w.state \in WalkStates
  PROVE  TheHeader.cmd \in {"read", "write"} /\ TheHeader.len \in Nat \ {0}
<1>1. w.cmd \in {"read", "write"} /\ w.len \in Nat \ {0}
  BY AsksTypes DEF IInv, Following, Stream
<1> QED
  BY <1>1 DEF TheHeader, Header

\* Between two words of a command the invariant knows the command.
LEMMA CommandKnown ==
  ASSUME IInv, InStep, m.state \in {"READ_CMD", "READ_ADDR", "WAIT_FIFO_REM", "WAIT_FIFO_FILL", "READ"}
  PROVE  /\ ~m.fifo_burst
         /\ IF m.state = "READ_CMD" THEN MemWord.cmd \in {"read", "write"} /\ MemWord.len \in Nat \ {0}
            ELSE m.cmd.cmd \in {"read", "write"} /\ m.cmd.len \in Nat \ {0}
<1>1. w.state \in WalkerStates
  BY DEF IInv, Types
<1>2. CASE w.state \in {"WAIT_HEADER", "READ_CMD", "READ_ADDR", "PAGE_FAULT"}
  BY <1>2 DEF InStep, Silent, Quiet
<1>3. CASE w.state \in {"READ_PGDE_0", "READ_PTE_0", "WRITE_HEADER_0"}
  <2>1. TakingHeader /\ w.MEM_S_Data = TheHeader /\ ~w.copy /\ w.state \in WalkStates
    BY <1>3 DEF InStep, Offering, Quiet, WalkStates
  <2> QED
    BY <2>1, HeaderKnown DEF TakingHeader, MemWord
<1>4. CASE w.state \in {"READ_PGDE_1", "READ_PTE_1", "WRITE_HEADER_1"}
  <2>1. TakingAddress /\ m.cmd = TheHeader /\ w.state \in WalkStates
    BY <1>4 DEF InStep, Addressing, WalkStates
  <2> QED
    BY <2>1, HeaderKnown DEF TakingAddress
<1>5. CASE w.state \in {"READ_PGDE_2", "READ_PTE_2"}
  <2>1. m.cmd = TheHeader /\ ~m.fifo_burst /\ m.state # "READ_CMD" /\ w.state \in WalkStates
    BY <1>5 DEF InStep, Waiting, WalkStates
  <2> QED
    BY <2>1, HeaderKnown
<1>6. CASE w.state = "COPY"
  <2>1. Moving
    BY <1>6 DEF InStep, Copying, Moved, Quiet
  <2>2. asked \in Asks /\ m.cmd = Header(asked.cmd, asked.len)
    BY <2>1 DEF Moving, Stream
  <2>3. asked.cmd \in {"read", "write"} /\ asked.len \in Nat \ {0}
    BY <2>2, AsksTypes
  <2>4. ~m.fifo_burst /\ m.state # "READ_CMD"
    BY <2>1, <2>3 DEF Moving
  <2> QED
    BY <2>2, <2>3, <2>4 DEF Header
<1> QED
  BY <1>1, <1>2, <1>3, <1>4, <1>5, <1>6 DEF WalkerStates

LEMMA HeaderWait ==
  ASSUME IInv, InStep, m.state = "WAIT_HEADER"
  PROVE  ~m.fifo_burst
<1>1. w.state \in WalkerStates
  BY DEF IInv, Types
<1>2. w.state # "COPY" => ~m.fifo_burst
  BY <1>1 DEF WalkerStates, InStep, Silent, Offering, Addressing, Waiting, Quiet, TakingHeader, TakingAddress
<1>3. ASSUME w.state = "COPY" PROVE ~m.fifo_burst
  <2>1. CASE Moved
    BY <2>1 DEF Moved, Quiet
  <2>2. CASE Moving
    <3>1. asked.cmd \in {"read", "write"}
      BY <2>2, AsksTypes DEF Moving, Stream
    <3> QED
      BY <2>2, <3>1 DEF Moving
  <2> QED
    BY <1>3, <2>1, <2>2 DEF InStep, Copying
<1> QED
  BY <1>2, <1>3

LEMMA GoesOnThere ==
  ASSUME IInv, GoesOn
  PROVE  /\ DOMAIN m' = DOMAIN m /\ ~m'.S_Rd /\ ~m'.M_Wr /\ ~m'.fifo_burst
         /\ m'.state = "WAIT_HEADER" \/ (Waits' /\ m'.cmd.len \in Nat)
<1>1. Fields
  BY DEF IInv
<1>2. ASSUME NEW c, NEW a, c.len \in Nat, c.len = 0 => c.cmd = "read", ~m.fifo_burst,
             Rests([m EXCEPT !.cmd = c, !.addr = a])
      PROVE  /\ DOMAIN m' = DOMAIN m /\ ~m'.S_Rd /\ ~m'.M_Wr /\ ~m'.fifo_burst
             /\ m'.state = "WAIT_HEADER" \/ (Waits' /\ m'.cmd.len \in Nat)
  <2> DEFINE r == [m EXCEPT !.cmd = c, !.addr = a]
  <2>1. DOMAIN r = DOMAIN m /\ r.cmd = c /\ ~r.fifo_burst
    BY <1>1, <1>2 DEF Fields
  <2>2. Rests(r)
    BY <1>2
  <2> HIDE DEF r
  <2> QED
    BY <1>1, <1>2, <2>1, <2>2, RestsThere DEF Fields
<1>3. ZeroHeader.len = 0 /\ ZeroHeader.cmd = "read"
  BY DEF ZeroHeader, Header
<1>4. CASE Finishes(m)
  BY <1>1, <1>4 DEF Finishes, Fields
<1>5. CASE m.state = "WAIT_HEADER" /\ MemFill >= 2 /\ Rests([m EXCEPT !.cmd = ZeroHeader, !.addr = NoWord])
  <2>1. ~m.fifo_burst
    <3>1. Stuck => ~m.fifo_burst
      BY <1>5 DEF Stuck, Waits
    <3>2. InStep => ~m.fifo_burst
      BY <1>5, HeaderWait
    <3> QED
      BY <3>1, <3>2 DEF IInv
  <2>2. ZeroHeader.len \in Nat /\ (ZeroHeader.len = 0 => ZeroHeader.cmd = "read")
    BY <1>3
  <2>3. Rests([m EXCEPT !.cmd = ZeroHeader, !.addr = NoWord])
    BY <1>5
  <2> QED
    BY <1>2, <2>1, <2>2, <2>3
<1>6. CASE m.state = "READ_CMD" /\ \E c \in {MemWord, ZeroHeader} : Rests([m EXCEPT !.cmd = c, !.addr = NoWord])
  <2>1. InStep
    BY <1>6 DEF IInv, Stuck, Waits
  <2>2. ~m.fifo_burst /\ MemWord.len \in Nat \ {0}
    BY <1>6, <2>1, CommandKnown
  <2>3. PICK c \in {MemWord, ZeroHeader} : Rests([m EXCEPT !.cmd = c, !.addr = NoWord])
    BY <1>6
  <2>4. c.len \in Nat /\ (c.len = 0 => c.cmd = "read")
    BY <1>3, <2>2, <2>3
  <2> QED
    BY <1>2, <2>2, <2>3, <2>4
<1>7. CASE m.state = "READ_ADDR" /\ \E a \in {MemWord, NoWord} : Rests([m EXCEPT !.addr = a])
  <2>1. InStep
    BY <1>7 DEF IInv, Stuck, Waits
  <2>2. ~m.fifo_burst /\ m.cmd.len \in Nat \ {0}
    BY <1>7, <2>1, CommandKnown
  <2>3. PICK a \in {MemWord, NoWord} : Rests([m EXCEPT !.addr = a])
    BY <1>7
  <2>4. [m EXCEPT !.addr = a] = [m EXCEPT !.cmd = m.cmd, !.addr = a]
    BY <1>1 DEF Fields
  <2>5. Rests([m EXCEPT !.cmd = m.cmd, !.addr = a])
    BY <2>3, <2>4
  <2>6. m.cmd.len \in Nat /\ (m.cmd.len = 0 => m.cmd.cmd = "read")
    BY <2>2
  <2> QED
    BY <1>2, <2>2, <2>5, <2>6
<1>8. CASE /\ m.state \in {"WAIT_FIFO_REM", "WAIT_FIFO_FILL"} \/ (m.state = "READ" /\ m.cmd.len = 0)
           /\ Rests(m)
  <2>1. ~m.fifo_burst /\ m.cmd.len \in Nat /\ (m.cmd.len = 0 => m.cmd.cmd = "read")
    <3>1. CASE InStep
      BY <1>8, <3>1, CommandKnown
    <3>2. CASE Stuck
      <4>1. Waits /\ m.cmd.len \in Nat
        BY <1>8, <3>2 DEF Stuck
      <4> QED
        BY <4>1 DEF Waits
    <3> QED
      BY <3>1, <3>2 DEF IInv
  <2> QED
    BY <1>1, <1>8, <2>1, RestsThere DEF Fields
<1> QED
  BY <1>4, <1>5, <1>6, <1>7, <1>8 DEF GoesOn

LEMMA ResetStep ==
  ASSUME IInv, Reset
  PROVE  IInv'
<1>1. /\ w' = WalkerReset /\ asked' = NoWord /\ hq' = << >> /\ ask' = << >> /\ moved' = 0
      /\ tlb' = [i \in Ways |-> NoWord] /\ pt' = [p \in Pages |-> Unmapped] /\ wptr' \in Ways
      /\ resets' \in Nat /\ resets' > 0
  BY DEF Reset, IInv, Types
<1>2. /\ DOMAIN m' = DOMAIN m /\ ~m'.S_Rd /\ ~m'.M_Wr /\ ~m'.fifo_burst
      /\ m'.state = "WAIT_HEADER" \/ (Waits' /\ m'.cmd.len \in Nat)
  BY GoesOnThere DEF Reset
<1>3. /\ (Fields /\ Types /\ TlbUnique /\ TlbCurrent /\ Missed /\ Following)'
      /\ w'.state = "WAIT_HEADER" /\ ~w'.copy /\ ~w'.tlb_we /\ w'.MEM_S_Fill = 0 /\ \A i \in Ways : tlb'[i] = NoWord
  <2>1. Cleared'
    BY <1>1, <1>2 DEF Cleared, IInv, Fields
  <2>2. Cleared' => Fresh'
    BY ClearedIsFresh, PTL
  <2> QED
    BY <2>1, <2>2 DEF Fresh
<1>4. CASE m'.state = "WAIT_HEADER"
  <2>1. InStep'
    BY <1>2, <1>3, <1>4 DEF InStep, Silent, Offering, Addressing, Waiting, Copying, Quiet
  <2> QED
    BY <1>3, <2>1 DEF IInv
<1>5. CASE Waits' /\ m'.cmd.len \in Nat
  <2>1. Stuck'
    BY <1>1, <1>2, <1>3, <1>5 DEF Stuck
  <2> QED
    BY <1>1, <1>3, <2>1 DEF IInv
<1> QED
  BY <1>2, <1>4, <1>5

\* The converter offers a request while the walker waits for one.
LEMMA RequestStep ==
  ASSUME IInv, NEW c \in {"read", "write"}, NEW n \in Lens, NEW p \in Pages, Request(c, n, p)
  PROVE  IInv'
<1> DEFINE r == [cmd |-> c, len |-> n, page |-> p]
           data == [i \in 1 .. (IF c = "write" THEN n ELSE 0) |-> Data]
<1>1. /\ asked = NoWord /\ asked' = r /\ moved' = 0 /\ ask' = <<Header(c, n), Address("virtual", p)>> \o data
      /\ hq' = hq /\ w' = w /\ tlb' = tlb /\ wptr' = wptr /\ m' = m /\ pt' = pt /\ resets' = resets
  BY DEF Request
<1>2. r \in Asks /\ r.cmd = c /\ r.len = n /\ r.page = p
  BY DEF Asks
<1>3. \A h, a, off : ~Stream(h, a, asked, off)
  BY <1>1, AsksTypes DEF Stream
<1>4. w.state \in {"WAIT_HEADER", "COPY"} /\ (w.state = "WAIT_HEADER" => Idle)
  BY <1>3 DEF IInv, Following, WalkStates, Types, WalkerStates
<1>5. ~Moving
  BY <1>3 DEF Moving
<1>6. Stream(<< >>, ask', r, 0)
  <2> DEFINE d == IF c = "write" THEN n ELSE 0
  <2>1. n \in Nat \ {0} /\ d \in Nat
    OBVIOUS
  <2> HIDE DEF d
  <2>2. data \in Seq(Words) /\ Len(data) = d /\ \A i \in 1 .. d : data[i] = Data
    <3>1. data = [i \in 1 .. d |-> Data]
      BY DEF d
    <3>2. Data \in Words
      BY DEF Words
    <3> HIDE DEF data
    <3> QED
      BY <2>1, <3>1, <3>2
  <2> HIDE DEF data, r
  <2> DEFINE two == <<Header(c, n), Address("virtual", p)>>
  <2>3. two \in Seq(Words) /\ Len(two) = 2 /\ two[1] = Header(c, n) /\ two[2] = Address("virtual", p)
    <3>1. Header(c, n) \in Words /\ Address("virtual", p) \in Words
      BY DEF Words
    <3> QED
      BY <3>1
  <2> HIDE DEF two
  <2>4. ask' = two \o data
    BY <1>1 DEF two
  <2>5. /\ ask' \in Seq(Words) /\ Len(ask') = 2 + d
        /\ \A i \in 1 .. 2 + d : ask'[i] = IF i <= 2 THEN two[i] ELSE data[i - 2]
    <3> DEFINE cat == two \o data
    <3>1. /\ cat \in Seq(Words) /\ Len(cat) = Len(two) + Len(data)
          /\ \A i \in 1 .. Len(two) + Len(data) : cat[i] = IF i <= Len(two) THEN two[i] ELSE data[i - Len(two)]
      BY <2>2, <2>3, WordsFollow DEF cat
    <3>2. ask' = cat
      BY <2>4 DEF cat
    <3> HIDE DEF cat
    <3> QED
      BY <2>2, <2>3, <3>1, <3>2
  <2>6. Total(r) = 2 + d
    BY <1>2 DEF Total, d
  <2>7. ASSUME NEW i \in 1 .. 2 + d PROVE ask'[i] = WordAt(r, i)
    <3>1. CASE i <= 2
      BY <1>2, <2>1, <2>3, <2>5, <3>1 DEF WordAt
    <3>2. CASE ~(i <= 2)
      <4>1. i - 2 \in 1 .. d /\ i # 1 /\ i # 2
        BY <2>1, <3>2
      <4> QED
        BY <2>2, <2>5, <3>2, <4>1 DEF WordAt
    <3> QED
      BY <3>1, <3>2
  <2>8. /\ << >> \in Seq(Words) /\ Len(<< >>) = 0
        /\ \A i \in 1 .. Len(ask') : 0 + 0 + i = i
    BY <2>1, <2>5
  <2>9. 0 + Len(<< >>) + Len(ask') = Total(r)
    BY <2>1, <2>5, <2>6, <2>8
  <2>10. \A i \in 1 .. Len(ask') : ask'[i] = WordAt(r, 0 + Len(<< >>) + i)
    BY <2>5, <2>7, <2>8
  <2> QED
    BY <1>2, <2>5, <2>8, <2>9, <2>10 DEF Stream
<1> HIDE DEF r, data
<1>7. w.state = "WAIT_HEADER" => Following'
  BY <1>1, <1>4, <1>6 DEF IInv, Following, WalkStates, Idle
<1>8. w.state = "COPY" => Following'
  BY <1>1 DEF Following, WalkStates
<1>9. InStep => InStep'
  <2> SUFFICES ASSUME InStep PROVE InStep'
    OBVIOUS
  <2>1. CASE w.state = "WAIT_HEADER"
    BY <1>1, <2>1 DEF InStep, Silent, Offering, Addressing, Waiting, Copying, Quiet
  <2>2. CASE w.state = "COPY"
    <3>1. w.copy /\ ~w.HWT_S_Rd /\ w.MEM_S_Fill = 0 /\ Moved /\ Idle
      BY <1>3, <1>5, <2>2 DEF InStep, Copying, Moved
    <3>2. Moved'
      BY <1>1, <1>6, <3>1 DEF Moved, Idle, Quiet
    <3> QED
      BY <1>1, <2>2, <3>1, <3>2 DEF InStep, Silent, Offering, Addressing, Waiting, Copying
  <2> QED
    BY <1>4, <2>1, <2>2
<1>10. Stuck => Stuck'
  BY <1>1 DEF Stuck, Waits
<1>11. (Fields /\ Types /\ TlbUnique /\ TlbCurrent /\ Missed)'
  BY <1>1 DEF IInv, Fields, Types, TlbUnique, TlbCurrent, Missed, Missing
<1> QED
  BY <1>1, <1>4, <1>7, <1>8, <1>9, <1>10, <1>11 DEF IInv

\* Linux maps a page that was not mapped: what has been read stays right.
LEMMA MapStep ==
  ASSUME IInv, NEW p \in Pages, NEW f \in Frames, Map(p, f)
  PROVE  IInv'
<1>1. /\ hq' = hq /\ ask' = ask /\ asked' = asked /\ moved' = moved /\ w' = w /\ tlb' = tlb /\ wptr' = wptr /\ m' = m
      /\ resets' = resets
  BY DEF Map
<1>2. pt' \in [Pages -> Frames \union {Unmapped}] /\ \A q \in Pages : pt[q] \in Frames => pt'[q] = pt[q]
  BY DEF Map, IInv, Types
<1>3. (Fields /\ Types /\ TlbUnique /\ Following)'
  BY <1>1, <1>2 DEF IInv, Fields, Types, TlbUnique, Following, Idle
<1>4. TlbCurrent'
  BY <1>1, <1>2 DEF IInv, TlbCurrent, Types
<1>5. Missed'
  BY <1>1, <1>2 DEF IInv, Missed, Missing, Types
<1>6. InStep => InStep'
  <2> SUFFICES ASSUME InStep PROVE InStep'
    OBVIOUS
  <2>1. TheHeader' = TheHeader /\ TheAddress' = TheAddress
    BY <1>1 DEF TheHeader, TheAddress
  <2>2. (Silent /\ Offering /\ Addressing)'
    BY <1>1, <2>1 DEF InStep, Silent, Offering, Addressing, Quiet, TakingHeader, TakingAddress
  <2>3. Waiting'
    <3>1. w.vaddr \in Pages
      BY DEF IInv, Types
    <3>2. m.M_Data = pt[w.vaddr] /\ m.M_Data \in Frames => m.M_Data = pt'[w.vaddr]
      BY <1>2, <3>1
    <3> QED
      BY <1>1, <2>1, <3>2 DEF InStep, Waiting
  <2>4. Moving => Moving'
    <3> SUFFICES ASSUME Moving PROVE Moving'
      OBVIOUS
    <3>1. asked.page \in Pages
      BY AsksTypes DEF Moving, Stream
    <3>2. pt'[asked.page] = pt[asked.page]
      BY <1>2, <3>1 DEF Moving
    <3> QED
      BY <1>1, <3>2 DEF Moving
  <2>5. Moved => Moved'
    BY <1>1 DEF Moved, Quiet, Idle
  <2>6. Copying'
    BY <1>1, <2>4, <2>5 DEF InStep, Copying
  <2> QED
    BY <2>2, <2>3, <2>6 DEF InStep
<1>7. Stuck => Stuck'
  BY <1>1 DEF Stuck, Waits
<1> QED
  BY <1>1, <1>3, <1>4, <1>5, <1>6, <1>7 DEF IInv

\* retry is the walker's only input that the invariant does not speak of.
LEMMA QuietChange ==
  ASSUME IInv, UNCHANGED <<hq, ask, asked, moved, w, tlb, wptr, m, pt, resets>>
  PROVE  IInv'
<1>1. (Fields /\ Types /\ TlbUnique /\ TlbCurrent /\ Missed /\ Following)'
  BY DEF IInv, Fields, Types, TlbUnique, TlbCurrent, Missed, Missing, Following, Idle
<1>2. TheHeader' = TheHeader /\ TheAddress' = TheAddress /\ Quiet' = Quiet /\ Idle' = Idle
  BY DEF TheHeader, TheAddress, Quiet, Idle
<1>3. Moving => Moving'
  BY DEF Moving
<1>4. Moved => Moved'
  BY <1>2 DEF Moved
<1>5. InStep => InStep'
  BY <1>2, <1>3, <1>4 DEF InStep, Silent, Offering, Addressing, Waiting, Copying, TakingHeader, TakingAddress
<1>6. Stuck => Stuck'
  BY DEF Stuck, Waits
<1> QED
  BY <1>1, <1>5, <1>6 DEF IInv

LEMMA NextIInv == IInv /\ [Next]_vars => IInv'
<1> SUFFICES ASSUME IInv, [Next]_vars PROVE IInv'
  OBVIOUS
<1>1. ASSUME NEW c \in {"read", "write"}, NEW n \in Lens, NEW p \in Pages, Request(c, n, p) PROVE IInv'
  BY <1>1, RequestStep
<1>2. ASSUME NEW p \in Pages, NEW f \in Frames, Map(p, f) PROVE IInv'
  BY <1>2, MapStep
<1>3. CASE PageReady
  BY <1>3, QuietChange DEF PageReady
<1>4. ASSUME NEW ready \in BOOLEAN, NEW k \in 0 .. 2, Clock(ready, k) PROVE IInv'
  <2>1. CASE Stuck
    BY <1>4, <2>1, StuckStep
  <2>2. CASE InStep
    <3>1. w.state \in WalkerStates
      BY DEF IInv, Types
    <3>2. CASE w.state \in {"WAIT_HEADER", "READ_CMD", "READ_ADDR"}
      BY <1>4, <2>2, <3>2, FetchStep
    <3>3. CASE w.state \in {"READ_PGDE_0", "READ_PTE_0", "WRITE_HEADER_0"}
      BY <1>4, <2>2, <3>3, OfferStep
    <3>4. CASE w.state \in {"READ_PGDE_1", "READ_PTE_1", "WRITE_HEADER_1"}
      BY <1>4, <2>2, <3>4, AddressStep
    <3>5. CASE w.state \in {"READ_PGDE_2", "READ_PTE_2"}
      BY <1>4, <2>2, <3>5, EntryStep
    <3>6. CASE w.state = "PAGE_FAULT"
      BY <1>4, <2>2, <3>6, FaultStep
    <3>7. CASE w.state = "COPY"
      BY <1>4, <2>2, <3>7, CopyStep
    <3> QED
      BY <3>1, <3>2, <3>3, <3>4, <3>5, <3>6, <3>7 DEF WalkerStates
  <2> QED
    BY <2>1, <2>2 DEF IInv
<1>5. CASE Reset
  BY <1>5, ResetStep
<1>6. CASE UNCHANGED vars
  BY <1>6, QuietChange DEF vars
<1> QED
  BY <1>1, <1>2, <1>3, <1>4, <1>5, <1>6 DEF Next

THEOREM InvariantHolds == Spec => []IInv
<1>1. Init => IInv
  BY InitIInv
<1>2. IInv /\ [Next]_vars => IInv'
  BY NextIInv
<1> QED
  BY <1>1, <1>2, PTL DEF Spec

-----------------------------------------------------------------------------
\* No page is in two entries of the TLB, whatever its size and however it wraps:
\* tlb.vhd or-s the data of all entries that match.
THEOREM OneEntryPerPage == Spec => []TlbUnique
<1>1. IInv => TlbUnique
  BY DEF IInv
<1> QED
  BY <1>1, InvariantHolds, PTL

\* An entry is what Linux' page table says, through page faults and resets.
THEOREM EntriesStayCurrent == Spec => []TlbCurrent
<1>1. IInv => TlbCurrent
  BY DEF IInv
<1> QED
  BY <1>1, InvariantHolds, PTL

\* The controller takes headers for headers, addresses for addresses, data for
\* data, and its data phase is the thread's request at the frame of its page.
THEOREM RequestsStaySound == Spec => []RequestsSound
<1>1. ASSUME IInv PROVE RequestsSound
  <2>1. TypeOK
    <3>1. w.state \in WalkerStates /\ m.state \in ControllerStates
      BY <1>1, Phases DEF IInv, Types
    <3> QED
      BY <1>1, <3>1 DEF IInv, Types, TypeOK
  <2>2. ASSUME resets = 0, w.state = "COPY", Moving, asked.cmd = "write", m.state = "WRITE" PROVE HwtWord = Data
    <3>1. Stream(hq, ask, asked, 2 + moved) /\ moved \in 0 .. asked.len - 1 /\ Len(hq) + moved >= asked.len
      BY <2>2 DEF Moving
    <3>2. asked.len \in Nat /\ moved \in Nat /\ Len(hq) \in Nat /\ hq \in Seq(Words)
      BY <3>1, AsksTypes DEF Stream
    <3>3. Len(hq) > 0
      BY <3>1, <3>2
    <3>4. Head(hq) = hq[1] /\ hq # << >> /\ 1 \in 1 .. Len(hq)
      BY <3>2, <3>3
    <3>5. hq[1] = WordAt(asked, 2 + moved + 1)
      BY <3>1, <3>4 DEF Stream
    <3>6. WordAt(asked, 2 + moved + 1) = Data
      BY <3>2 DEF WordAt
    <3> QED
      BY <3>4, <3>5, <3>6 DEF HwtWord
  <2>3. TakesCommands
    <3> SUFFICES ASSUME resets = 0 PROVE TakesCommands
      BY DEF TakesCommands
    <3>1. InStep
      BY <1>1 DEF IInv
    <3>2. m.state = "READ_CMD" => MemWord.is = "header" /\ m.S_Rd
      BY <1>1, <3>1, Phases DEF MemWord, TheHeader, Header
    <3>3. m.state = "READ_ADDR" => MemWord.is \in {"directory", "table", "frame"} /\ m.S_Rd
      BY <1>1, <3>1, Phases DEF MemWord, TheAddress, Address
    <3>4. ASSUME NEW ready \in BOOLEAN, m.fifo_burst /\ S_Rd(ready) PROVE w.copy /\ HwtWord = Data
      <4>1. m.state = "WRITE"
        BY <3>4 DEF S_Rd, Bus2IP_MstWr_dst_rdy
      <4> QED
        BY <1>1, <2>2, <3>1, <4>1, Phases
    <3> QED
      BY <3>2, <3>3, <3>4 DEF TakesCommands
  <2>4. ServesRequest
    <3> SUFFICES ASSUME resets = 0, m.state \in {"READ", "WRITE"}, w.copy
                 PROVE  /\ asked # NoWord /\ m.cmd = Header(asked.cmd, asked.len)
                        /\ m.addr = Address("frame", pt[asked.page])
                        /\ m.counter = moved + (IF m.M_Wr THEN 1 ELSE 0)
      BY DEF ServesRequest
    <3>1. Moving /\ (m.state = "WRITE" <=> asked.cmd = "write") /\ (m.state = "READ" <=> asked.cmd = "read")
      BY <1>1, Phases DEF IInv
    <3>2. asked \in Asks /\ moved \in 0 .. asked.len - 1 /\ w.pte = pt[asked.page]
          /\ m.cmd = Header(asked.cmd, asked.len) /\ m.addr = Address("frame", w.pte)
      BY <3>1 DEF Moving, Stream
    <3>3. asked # NoWord /\ moved \in Nat
      BY <3>2, AsksTypes
    <3>4. m.counter = moved + (IF m.M_Wr THEN 1 ELSE 0)
      <4>1. CASE m.state = "READ"
        BY <3>1, <4>1 DEF Moving
      <4>2. CASE m.state = "WRITE"
        <5>1. m.counter = moved /\ ~m.M_Wr
          BY <3>1, <4>2 DEF Moving
        <5> QED
          BY <3>3, <5>1
      <4> QED
        BY <4>1, <4>2
    <3> QED
      BY <3>2, <3>3, <3>4
  <2> QED
    BY <2>1, <2>3, <2>4 DEF RequestsSound
<1>2. IInv => RequestsSound
  BY <1>1
<1> QED
  BY <1>2, InvariantHolds, PTL
=============================================================================
