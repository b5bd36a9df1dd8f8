---------------------------- MODULE MemifProofs ----------------------------
(***************************************************************************)
(* The memory transfers of a hardware thread keep their FIFOs sound and    *)
(* bring the data, for any depth, block size, memory and operations, as    *)
(* long as a block never finds just the room that its address still takes. *)
(*                                                                         *)
(* Along the argument the words on their way - those in the FIFO and the   *)
(* one in the thread's registers - are read as a sentence: it leads from   *)
(* what the server expects next to what the thread will send next, and the *)
(* memory it writes on the way is the wanted one but for the words that    *)
(* the thread has not sent.                                                *)
(***************************************************************************)
EXTENDS Memif, SequenceTheorems, TLAPS

USE MemifAssumption

-----------------------------------------------------------------------------
Cells == 0 .. Words - 1
Values == {"none", "local", "main"} \X Nat
FifoWords == [is : {"none", "write", "read", "address", "data"}, n : Nat, v : Values]
Fifos == [mem : [0 .. Depth - 1 -> FifoWords], wrptr : 0 .. Depth - 1, rdptr : 0 .. Depth - 1]

\* The words in a FIFO, the oldest first, and with the one in the thread's
\* registers behind them.
Around(p) == IF p < Depth THEN p ELSE p - Depth
Content(f) == [i \in 1 .. Fill(f) |-> f.mem[Around(f.rdptr + i - 1)]]
Stream(q, x) == IF x.m_wr THEN Append(q, x.m_data) ELSE q

(***************************************************************************)
(* What a reader of the stream expects next, and its memory.               *)
(***************************************************************************)
Rest(m) == [at |-> "header", is |-> "none", n |-> 0, addr |-> 0, mem |-> m]
Address(is, n, m) == [at |-> "address", is |-> is, n |-> n, addr |-> 0, mem |-> m]
Taking(n, a, m) == IF n = 0 THEN Rest(m) ELSE [at |-> "data", is |-> "write", n |-> n, addr |-> a, mem |-> m]
Owing(n, a, m) == IF n = 0 THEN Rest(m) ELSE [at |-> "owing", is |-> "read", n |-> n, addr |-> a, mem |-> m]

Fits(p, w) ==
  \/ p.at = "header" /\ w.is \in {"write", "read"} /\ w.n > 0
  \/ p.at = "address" /\ w.is = "address" /\ w.n + p.n <= Words
  \/ p.at = "data" /\ w.is = "data"
After(p, w) ==
  IF p.at = "header" THEN Address(w.is, w.n, p.mem)
  ELSE IF p.at = "address" THEN IF p.is = "write" THEN Taking(p.n, w.n, p.mem) ELSE Owing(p.n, w.n, p.mem)
  ELSE Taking(p.n - 1, p.addr + 1, [p.mem EXCEPT ![p.addr] = w.v])

\* Reading q leads from expecting a to expecting b.
Parsed(q, a, b) ==
  \E e : /\ e[0] = a /\ e[Len(q)] = b
         /\ \A i \in 1 .. Len(q) : Fits(e[i - 1], q[i]) /\ e[i] = After(e[i - 1], q[i])

\* What the server expects, and what is expected behind the last word of the
\* thread when k words of a read have not been given yet.
ServerAt(s, m) ==
  IF s.at = "header" THEN Rest(m)
  ELSE IF s.at = "address" THEN Address(s.req.is, s.req.n, m)
  ELSE IF s.req.is = "write" THEN Taking(s.req.n, s.addr, m)
  ELSE Owing(s.req.n, s.addr, m)

ThreadAt(o, x, m, k) ==
  IF o.op = "write_word" /\ x.step = 2 THEN Address("write", 1, m)
  ELSE IF o.op = "write_word" /\ x.step = 3 THEN Taking(1, o.remote, m)
  ELSE IF o.op = "read_word" /\ x.step = 2 THEN Address("read", 1, m)
  ELSE IF o.op = "read_word" /\ x.step = 3 THEN Owing(k, o.remote + (1 - k), m)
  ELSE IF o.op = "write" /\ x.step = 3 THEN Address("write", x.count, m)
  ELSE IF o.op = "write" /\ x.step = 4 THEN Taking(x.count, x.remote_addr, m)
  ELSE IF o.op = "write" /\ x.step = 5 THEN Taking(x.count, x.remote_addr - 1, m)
  ELSE IF o.op = "read" /\ x.step = 3 THEN Address("read", x.count, m)
  ELSE IF o.op = "read" /\ x.step = 4 THEN Owing(k, x.remote_addr + (x.count - k), m)
  ELSE Rest(m)

\* Words of the operation done: sent, or read and in the local memory.
Gone(o, x) ==
  IF x.step = 0 THEN 0
  ELSE IF o.op = "read" /\ x.step = 6 THEN o.len - x.remainder - 1
  ELSE o.len - x.remainder
Unsent(o, x) ==
  IF o.op = "write" THEN o.remote + Gone(o, x) .. o.remote + o.len - 1
  ELSE IF o.op = "write_word" /\ x.step < 4 THEN {o.remote} ELSE {}
Unread(o, x) ==
  IF o.op = "read" THEN o.local + Gone(o, x) .. o.local + o.len - 1
  ELSE IF o.op = "read_word" /\ x.step < 5 THEN {o.local} ELSE {}

\* Words the thread waits for, and words it will find.
Awaited(o, x) ==
  IF o.op = "read" /\ x.step = 4 THEN x.count ELSE IF o.op = "read_word" /\ x.step = 3 THEN 1 ELSE 0
Coming(o, x) ==
  IF o.op = "read" /\ x.step \in {4, 5, 6} THEN x.count
  ELSE IF o.op = "read_word" /\ x.step \in {3, 4, 5} THEN 1 ELSE 0
ComesFrom(o, x) ==
  IF o.op = "read_word" THEN o.remote ELSE IF x.step = 6 THEN x.remote_addr + 1 ELSE x.remote_addr

\* Words for which the thread looks for no more room.
Held(x) == IF x.m_wr THEN 1 ELSE 0
Reserved(o, x) ==
  IF o.op = "write_word" THEN IF x.step \in {1, 2} THEN 3 ELSE IF x.step = 3 THEN 2 ELSE IF x.step = 4 THEN 1 ELSE 0
  ELSE IF o.op = "read_word" THEN IF x.step \in {1, 2} THEN 2 ELSE Held(x)
  ELSE IF x.step \in {2, 3} THEN 2
  ELSE IF o.op = "write" /\ x.step = 5 THEN x.count + Held(x)
  ELSE Held(x)

-----------------------------------------------------------------------------
Typed ==
  /\ op \in Ops \union {Idle}
  /\ r \in [step : 0 .. 15, m_wr : BOOLEAN, s_rd : BOOLEAN, m_data : FifoWords, we : BOOLEAN, data : Values,
            addr : Nat, remote_addr : Nat, remainder : 0 .. Words, count : 0 .. BlockSize]
  /\ {ram, mem, wantRam, wantMem} \subseteq [Cells -> Values] /\ ramData \in Values
  /\ out \in Fifos /\ in \in Fifos
  /\ srv \in [at : {"header", "address", "wait", "data"}, req : FifoWords, addr : Nat]

\* The registers of the procedures.
Steps == [none |-> {0}, write_word |-> 0 .. 4, read_word |-> 0 .. 5,
          write |-> 0 .. 5 \union {15}, read |-> 0 .. 6 \union {15}]
WritesAt == [none |-> {}, write_word |-> {2, 3, 4}, read_word |-> {2, 3}, write |-> {3, 4, 5}, read |-> {3, 4}]
Registers ==
  /\ r.step \in Steps[op.op]
  /\ r.m_wr => r.step \in WritesAt[op.op]
  /\ r.s_rd <=> \/ op.op = "read_word" /\ r.step = 5
                \/ op.op = "read" /\ (r.step = 5 \/ (r.step = 6 /\ r.count > 0))
  /\ r.we <=> op.op = "read" /\ r.step = 6

Progress ==
  op.op \in {"write", "read"} /\ r.step > 0 =>
    /\ r.remainder <= op.len
    /\ r.step = 15 => r.remainder = 0
    /\ r.step \in 2 .. 6 => r.count <= r.remainder
    /\ r.step \in 2 .. 4 => r.count > 0
    /\ LET ahead == IF op.op = "write" /\ r.step = 5 /\ r.count > 0 THEN 1 ELSE 0
       IN  r.addr = op.local + Gone(op, r) + ahead /\ r.remote_addr = op.remote + Gone(op, r) + ahead
    /\ op.op = "write" /\ r.step = 5 /\ r.count > 0 => ramData = wantRam[op.local + Gone(op, r)]
    /\ op.op = "read" /\ r.step = 6 => r.remainder < op.len /\ r.data = wantMem[r.remote_addr]
\* The blocks of a read have more than one word.
Lone(n) == \E q \in Nat : n = q * BlockSize + 1
NoLoneWord ==
  op.op = "read" =>
    /\ r.step = 1 => ~Lone(r.remainder)
    /\ r.step \in 2 .. 6 => ~Lone(r.remainder - r.count)
    /\ r.step \in 2 .. 5 => r.count > 1
\* The operations that the procedures can carry out: memif_read takes two words
\* of every block, even of one that has only one.
Transfers ==
  /\ BlockSize > 1
  /\ \A o \in Ops : /\ o.op \in {"write_word", "read_word"} => o.len = 1
                    /\ o.op = "read" => ~Lone(o.len)

Server ==
  /\ srv.at # "header" => srv.req.is \in {"write", "read"} /\ srv.req.n > 0
  /\ srv.at \in {"wait", "data"} => srv.addr + srv.req.n <= Words
  /\ srv.at = "address" => Fill(out) > 0
  /\ srv.at = "data" => IF srv.req.is = "write" THEN Fill(out) >= srv.req.n ELSE Remainder(in) >= srv.req.n

Room == Remainder(out) >= Reserved(op, r)

\* The memories.
Wanted ==
  /\ \A a \in Cells \ Unread(op, r) : ram[a] = wantRam[a]
  /\ op.op \in {"write", "read", "write_word", "read_word"} =>
       \A i \in 0 .. op.len - 1 : wantRam[op.local + i] = wantMem[op.remote + i]

Given(k) ==
  /\ Fill(in) + k = Coming(op, r)
  /\ \A i \in 1 .. Fill(in) : Content(in)[i].v = wantMem[ComesFrom(op, r) + i - 1]
Together ==
  \E m \in [Cells -> Values], k \in 0 .. Awaited(op, r) :
    /\ Parsed(Stream(Content(out), r), ServerAt(srv, mem), ThreadAt(op, r, m, k))
    /\ \A a \in Cells \ Unsent(op, r) : m[a] = wantMem[a]
    /\ Given(k)

\* The inductive invariant.
IInv == Typed /\ Registers /\ Progress /\ NoLoneWord /\ Server /\ Room /\ Wanted /\ Together
-----------------------------------------------------------------------------
(***************************************************************************)
(* A FIFO whose pointers keep apart is a sequence.                         *)
(***************************************************************************)

\* Pointers wrap once at most.
LEMMA NextPlace ==
  ASSUME NEW p \in 0 .. Depth - 1
  PROVE  (p + 1) % Depth = Around(p + 1) /\ Around(p + 1) \in 0 .. Depth - 1
BY DEF Around

\* A FIFO holds less than its depth.
LEMMA FillRange ==
  ASSUME NEW f \in Fifos
  PROVE  Fill(f) \in 0 .. Depth - 1 /\ Remainder(f) = Depth - 1 - Fill(f) /\ Remainder(f) \in 0 .. Depth - 1
BY DEF Fifos, Fill, Remainder

\* Its words are where the pointers say; S_Data is the oldest.
LEMMA ContentPlaces ==
  ASSUME NEW f \in Fifos
  PROVE  /\ Content(f) \in Seq(FifoWords) /\ Len(Content(f)) = Fill(f)
         /\ \A i \in 1 .. Fill(f) : Content(f)[i] = f.mem[Around(f.rdptr + i - 1)]
         /\ Fill(f) > 0 => S_Data(f) = Content(f)[1] /\ S_Data(f) \in FifoWords
<1>1. Fill(f) \in Nat
  BY FillRange
<1>2. \A i \in 1 .. Fill(f) : Around(f.rdptr + i - 1) \in 0 .. Depth - 1
  BY FillRange DEF Around, Fifos
<1>3. \A i \in 1 .. Fill(f) : f.mem[Around(f.rdptr + i - 1)] \in FifoWords
  BY <1>2 DEF Fifos
<1>4. Content(f) \in [1 .. Fill(f) -> FifoWords]
  BY <1>3 DEF Content
<1>5. Content(f) \in Seq(FifoWords) /\ Len(Content(f)) = Fill(f)
  BY <1>1, <1>4
<1>6. Around(f.rdptr + 1 - 1) = f.rdptr
  BY DEF Around, Fifos
<1> QED
  BY <1>1, <1>3, <1>5, <1>6 DEF Content, S_Data, Fifos

Gap(w, p) == IF w >= p THEN w - p ELSE (Depth + w) - p

\* How the distance of the pointers changes with either.
LEMMA GapMoves ==
  ASSUME NEW w \in 0 .. Depth - 1, NEW p \in 0 .. Depth - 1
  PROVE  /\ Depth - 1 - Gap(w, p) > 0 => Gap(Around(w + 1), p) = Gap(w, p) + 1
         /\ Gap(w, p) > 0 => Gap(w, Around(p + 1)) = Gap(w, p) - 1
         /\ Around(p + (Gap(w, p) + 1) - 1) = w
         /\ \A i \in 1 .. Gap(w, p) : Around(p + i - 1) # w /\ Around(p + i - 1) \in 0 .. Depth - 1
BY DEF Gap, Around

\* A word written is the last.
LEMMA Pushed ==
  ASSUME NEW f \in Fifos, NEW d \in FifoWords, Remainder(f) > 0, NEW g,
         g = [mem |-> [f.mem EXCEPT ![f.wrptr] = d], wrptr |-> (f.wrptr + 1) % Depth, rdptr |-> f.rdptr]
  PROVE  g \in Fifos /\ Fill(g) = Fill(f) + 1 /\ Content(g) = Append(Content(f), d)
<1>0. f.wrptr \in 0 .. Depth - 1 /\ f.rdptr \in 0 .. Depth - 1 /\ Depth \in Nat
  BY DEF Fifos
<1>1. g.wrptr = Around(f.wrptr + 1) /\ g.wrptr \in 0 .. Depth - 1 /\ g.rdptr = f.rdptr
  BY NextPlace DEF Fifos
<1>2. g \in Fifos
  BY <1>1 DEF Fifos
<1>3. Fill(g) = Fill(f) + 1
  <2>1. Depth - 1 - Fill(f) > 0
    BY FillRange
  <2>2. Fill(f) = Gap(f.wrptr, f.rdptr) /\ Fill(g) = Gap(Around(f.wrptr + 1), f.rdptr)
    BY <1>1 DEF Fill, Gap
  <2> QED
    BY <1>0, <2>1, <2>2, GapMoves
<1>4. Around(f.rdptr + (Fill(f) + 1) - 1) = f.wrptr
  BY <1>0, GapMoves DEF Fill, Gap
<1>5. ASSUME NEW i \in 1 .. Fill(f)
      PROVE  Around(f.rdptr + i - 1) # f.wrptr /\ Around(f.rdptr + i - 1) \in 0 .. Depth - 1
  <2>1. i \in Nat /\ i >= 1 /\ i <= Fill(f) /\ Fill(f) \in 0 .. Depth - 1
    BY FillRange
  <2> QED
    BY <1>0, <2>1 DEF Fill, Around
<1>6. \A i \in 0 .. Depth - 1 : g.mem[i] = IF i = f.wrptr THEN d ELSE f.mem[i]
  BY DEF Fifos
<1>7. f.wrptr \in 0 .. Depth - 1
  BY DEF Fifos
<1>8. ASSUME NEW i \in 1 .. Fill(f) + 1
      PROVE  Content(g)[i] = Append(Content(f), d)[i]
  <2>1. Content(g)[i] = g.mem[Around(f.rdptr + i - 1)]
    BY <1>1, <1>2, <1>3, ContentPlaces
  <2>2. CASE i = Fill(f) + 1
    <3>1. Append(Content(f), d)[i] = d
      BY <2>2, ContentPlaces, AppendProperties
    <3> QED
      BY <2>1, <2>2, <3>1, <1>4, <1>6, <1>7
  <2>3. CASE i \in 1 .. Fill(f)
    <3>1. Append(Content(f), d)[i] = Content(f)[i] /\ Content(f)[i] = f.mem[Around(f.rdptr + i - 1)]
      BY <2>3, ContentPlaces, AppendProperties
    <3> QED
      BY <2>1, <2>3, <3>1, <1>5, <1>6
  <2>4. Fill(f) \in Nat
    BY FillRange
  <2>5. i = Fill(f) + 1 \/ i \in 1 .. Fill(f)
    BY <2>4
  <2> QED
    BY <2>2, <2>3, <2>5
<1>9. Len(Content(g)) = Len(Append(Content(f), d)) /\ Len(Content(g)) = Fill(f) + 1
      /\ Content(g) \in Seq(FifoWords) /\ Append(Content(f), d) \in Seq(FifoWords)
  BY <1>2, <1>3, ContentPlaces, FillRange
<1> QED
  BY <1>2, <1>3, <1>8, <1>9, SeqEqual

\* A word read was the first.
LEMMA Popped ==
  ASSUME NEW f \in Fifos, Fill(f) > 0, NEW g,
         g = [mem |-> f.mem, wrptr |-> f.wrptr, rdptr |-> (f.rdptr + 1) % Depth]
  PROVE  g \in Fifos /\ Fill(g) = Fill(f) - 1 /\ Content(g) = Tail(Content(f))
<1>1. g.rdptr = Around(f.rdptr + 1) /\ g.rdptr \in 0 .. Depth - 1 /\ g.wrptr = f.wrptr /\ g.mem = f.mem
  BY NextPlace DEF Fifos
<1>2. g \in Fifos
  BY <1>1 DEF Fifos
<1>3. Fill(g) = Fill(f) - 1
  <2>1. f.wrptr \in 0 .. Depth - 1 /\ f.rdptr \in 0 .. Depth - 1 /\ Depth \in Nat /\ f.wrptr # f.rdptr
    BY DEF Fifos, Fill
  <2> QED
    BY <1>1, <2>1 DEF Fill, Around
<1>4. Content(f) \in Seq(FifoWords) /\ Len(Content(f)) = Fill(f) /\ Content(f) # << >>
  BY ContentPlaces
<1>5. Tail(Content(f)) \in Seq(FifoWords) /\ Len(Tail(Content(f))) = Fill(f) - 1
      /\ \A i \in 1 .. Fill(f) - 1 : Tail(Content(f))[i] = Content(f)[i + 1]
  BY <1>4, HeadTailProperties, FillRange
<1>6. ASSUME NEW i \in 1 .. Fill(f) - 1
      PROVE  Content(g)[i] = Tail(Content(f))[i]
  <2>1. Content(g)[i] = f.mem[Around(g.rdptr + i - 1)]
    BY <1>1, <1>2, <1>3, ContentPlaces
  <2>2. Around(g.rdptr + i - 1) = Around(f.rdptr + (i + 1) - 1)
    BY SMTT(30), <1>1, FillRange DEF Around, Fifos
  <2>3. Content(f)[i + 1] = f.mem[Around(f.rdptr + (i + 1) - 1)]
    BY SMTT(30), ContentPlaces, FillRange
  <2> QED
    BY <2>1, <2>2, <2>3, <1>5
<1>7. Content(g) \in Seq(FifoWords) /\ Len(Content(g)) = Fill(f) - 1
  BY <1>2, <1>3, ContentPlaces
<1> QED
  BY <1>2, <1>3, <1>5, <1>6, <1>7, SeqEqual

\* A clock edge at which no pointer overtakes the other.
LEMMA FifoMoves ==
  ASSUME NEW f \in Fifos, NEW wr \in BOOLEAN, NEW rd \in BOOLEAN, NEW d \in FifoWords,
         wr => Remainder(f) > 0, rd => Fill(f) > 0
  PROVE  LET g == FifoEdge(f, wr, d, rd)
             q == IF rd THEN Tail(Content(f)) ELSE Content(f)
         IN  /\ g \in Fifos
             /\ Fill(g) = Fill(f) + (IF wr THEN 1 ELSE 0) - (IF rd THEN 1 ELSE 0)
             /\ Content(g) = IF wr THEN Append(q, d) ELSE q
<1> DEFINE h == IF rd THEN [mem |-> f.mem, wrptr |-> f.wrptr, rdptr |-> (f.rdptr + 1) % Depth] ELSE f
           g == FifoEdge(f, wr, d, rd)
           q == IF rd THEN Tail(Content(f)) ELSE Content(f)
<1>1. h \in Fifos /\ Fill(h) = Fill(f) - (IF rd THEN 1 ELSE 0) /\ Content(h) = q
  <2>1. CASE rd
    BY <2>1, Popped
  <2>2. CASE ~rd
    BY <2>2, FillRange
  <2> QED
    BY <2>1, <2>2
<1>2. h.mem = f.mem /\ h.wrptr = f.wrptr /\ h.rdptr = IF rd THEN (f.rdptr + 1) % Depth ELSE f.rdptr
  OBVIOUS
<1>3. wr => Remainder(h) > 0
  BY <1>1, FillRange
<1>4. CASE wr
  <2>1. g = [mem |-> [h.mem EXCEPT ![h.wrptr] = d], wrptr |-> (h.wrptr + 1) % Depth, rdptr |-> h.rdptr]
    BY <1>2, <1>4 DEF FifoEdge
  <2> HIDE DEF g, h, q
  <2>2. g \in Fifos /\ Fill(g) = Fill(h) + 1 /\ Content(g) = Append(Content(h), d)
    BY <1>1, <1>3, <1>4, <2>1, Pushed
  <2>3. Fill(f) \in Nat /\ Fill(g) = Fill(f) + (IF wr THEN 1 ELSE 0) - (IF rd THEN 1 ELSE 0)
    BY <1>1, <1>4, <2>2, FillRange
  <2> QED
    BY <1>1, <1>4, <2>2, <2>3 DEF g, q
<1>5. CASE ~wr
  <2>1. g = h
    BY <1>2, <1>5 DEF FifoEdge, Fifos
  <2> HIDE DEF g, h, q
  <2>2. Fill(f) \in Nat /\ Fill(g) = Fill(f) + (IF wr THEN 1 ELSE 0) - (IF rd THEN 1 ELSE 0)
    BY <1>1, <1>5, <2>1, FillRange
  <2> QED
    BY <1>1, <1>5, <2>1, <2>2 DEF g, q
<1> QED
  BY <1>4, <1>5

-----------------------------------------------------------------------------
(***************************************************************************)
(* Reading a stream.                                                       *)
(***************************************************************************)

\* No word leads nowhere.
LEMMA ParsedNone ==
  ASSUME NEW a, NEW b
  PROVE  Parsed(<< >>, a, b) <=> a = b
<1>1. ASSUME a = b PROVE Parsed(<< >>, a, b)
  <2> DEFINE e == [i \in {0} |-> a]
  <2>1. e[0] = a /\ Len(<< >>) = 0 /\ 1 .. Len(<< >>) = {}
    OBVIOUS
  <2> HIDE DEF e
  <2> QED
    BY <1>1, <2>1 DEF Parsed
<1>2. ASSUME Parsed(<< >>, a, b) PROVE a = b
  BY <1>2 DEF Parsed
<1> QED
  BY <1>1, <1>2

\* The first word fits what is expected.
LEMMA ParsedFirst ==
  ASSUME NEW S, NEW q \in Seq(S), q # << >>, NEW a, NEW b, Parsed(q, a, b)
  PROVE  Fits(a, Head(q)) /\ Parsed(Tail(q), After(a, Head(q)), b)
<1>1. PICK e : /\ e[0] = a /\ e[Len(q)] = b
               /\ \A i \in 1 .. Len(q) : Fits(e[i - 1], q[i]) /\ e[i] = After(e[i - 1], q[i])
  BY DEF Parsed
<1> DEFINE t == Tail(q)
           c == [i \in 0 .. Len(t) |-> e[i + 1]]
<1>2. /\ t \in Seq(S) /\ Head(q) = q[1] /\ Len(q) \in Nat \ {0} /\ Len(t) = Len(q) - 1
      /\ \A i \in 1 .. Len(t) : t[i] = q[i + 1]
  BY HeadTailProperties, SMT
<1> HIDE DEF t
<1>3. Fits(e[1 - 1], q[1]) /\ e[1] = After(e[1 - 1], q[1])
  BY <1>1, <1>2
<1>4. 1 - 1 = 0 /\ 0 \in 0 .. Len(t) /\ Len(t) \in 0 .. Len(t) /\ c[0] = e[1] /\ c[Len(t)] = e[Len(q)]
  BY <1>2
<1>5. ASSUME NEW i \in 1 .. Len(t) PROVE Fits(c[i - 1], t[i]) /\ c[i] = After(c[i - 1], t[i])
  <2>1. i + 1 \in 1 .. Len(q) /\ (i + 1) - 1 = i /\ c[i - 1] = e[i] /\ c[i] = e[i + 1] /\ t[i] = q[i + 1]
    BY <1>2
  <2>2. Fits(e[(i + 1) - 1], q[i + 1]) /\ e[i + 1] = After(e[(i + 1) - 1], q[i + 1])
    BY <1>1, <2>1
  <2> QED
    BY <2>1, <2>2
<1> HIDE DEF c
<1>6. Parsed(t, After(a, q[1]), b)
  BY <1>1, <1>3, <1>4, <1>5 DEF Parsed
<1> QED
  BY <1>1, <1>2, <1>3, <1>4, <1>6 DEF t

\* A word that fits may follow.
LEMMA ParsedLast ==
  ASSUME NEW S, NEW q \in Seq(S), NEW w \in S, NEW a, NEW b, Parsed(q, a, b), Fits(b, w)
  PROVE  Parsed(Append(q, w), a, After(b, w))
<1>1. PICK e : /\ e[0] = a /\ e[Len(q)] = b
               /\ \A i \in 1 .. Len(q) : Fits(e[i - 1], q[i]) /\ e[i] = After(e[i - 1], q[i])
  BY DEF Parsed
<1> DEFINE t == Append(q, w)
           c == [i \in 0 .. Len(t) |-> IF i = Len(t) THEN After(b, w) ELSE e[i]]
<1>2. /\ t \in Seq(S) /\ Len(q) \in Nat /\ Len(t) = Len(q) + 1 /\ t[Len(q) + 1] = w
      /\ \A i \in 1 .. Len(q) : t[i] = q[i]
  BY AppendProperties, SMT
<1> HIDE DEF t
<1>3. c[0] = a /\ c[Len(t)] = After(b, w)
  BY <1>1, <1>2
<1>4. ASSUME NEW i \in 1 .. Len(t) PROVE Fits(c[i - 1], t[i]) /\ c[i] = After(c[i - 1], t[i])
  <2>1. CASE i \in 1 .. Len(q)
    <3>1. c[i - 1] = e[i - 1] /\ c[i] = e[i] /\ t[i] = q[i]
      BY <1>2, <2>1
    <3> QED
      BY <1>1, <2>1, <3>1
  <2>2. CASE i = Len(t)
    <3>1. c[i - 1] = e[Len(q)] /\ c[i] = After(b, w) /\ t[i] = w
      BY <1>2, <2>2
    <3> QED
      BY <1>1, <3>1
  <2> QED
    BY <1>2, <2>1, <2>2
<1> HIDE DEF c
<1>5. Parsed(t, a, After(b, w))
  BY <1>3, <1>4 DEF Parsed
<1> QED
  BY <1>5 DEF t

\* Nothing comes behind a read that is owed its words.
LEMMA OwingIsLast ==
  ASSUME NEW S, NEW q \in Seq(S), NEW a, NEW b, Parsed(q, a, b), a.at = "owing"
  PROVE  q = << >> /\ b = a
<1>1. q = << >>
  BY ParsedFirst DEF Fits
<1> QED
  BY <1>1, ParsedNone

-----------------------------------------------------------------------------
(***************************************************************************)
(* What a clock edge makes of the registers.                               *)
(***************************************************************************)
RegisterTypes ==
  [step : 0 .. 15, m_wr : BOOLEAN, s_rd : BOOLEAN, m_data : FifoWords, we : BOOLEAN, data : Values,
   addr : Nat, remote_addr : Nat, remainder : 0 .. Words, count : 0 .. BlockSize]
Quiet(y) == ~y.m_wr /\ ~y.s_rd /\ ~y.we
Kept(x, y) == y.remainder = x.remainder /\ y.addr = x.addr /\ y.remote_addr = x.remote_addr
Same(x, y) == Kept(x, y) /\ y.count = x.count /\ y.data = x.data
Sends(y, w) == y.m_wr /\ y.m_data = w /\ ~y.s_rd /\ ~y.we

LEMMA TypedRegisters ==
  ASSUME Typed
  PROVE  r \in RegisterTypes
BY DEF Typed, RegisterTypes

WriteWordEdge ==
  /\ r.step = 0 => /\ Quiet(r') /\ r'.step \in {0, 1}
                   /\ r'.step = 1 => Remainder(out) > 2
  /\ r.step = 1 => Sends(r', Word("write", 1, NoValue)) /\ r'.step = 2
  /\ r.step = 2 => Sends(r', Word("address", op.remote, NoValue)) /\ r'.step = 3
  /\ r.step = 3 => Sends(r', Word("data", 0, ram[op.local])) /\ r'.step = 4
  /\ r.step = 4 => Quiet(r') /\ r'.step = 0
  /\ Same(r, r') /\ (r.step \in {0, 4} => r'.m_data = r.m_data)

LEMMA WriteWordMoves ==
  ASSUME r \in RegisterTypes, r' = memif_write_word
  PROVE  WriteWordEdge
BY DEF WriteWordEdge, memif_write_word, RegisterTypes, Quiet, Same, Kept, Sends, quiet, Push, Done

ReadWordEdge ==
  /\ r.step = 0 => /\ Quiet(r') /\ r'.step \in {0, 1}
                   /\ r'.step = 1 => Remainder(out) > 1
  /\ r.step = 1 => Sends(r', Word("read", 1, NoValue)) /\ r'.step = 2
  /\ r.step = 2 => Sends(r', Word("address", op.remote, NoValue)) /\ r'.step = 3
  /\ r.step = 3 => /\ Quiet(r') /\ r'.step \in {3, 4}
                   /\ r'.step = 4 => Fill(in) > 0
  /\ r.step = 4 => ~r'.m_wr /\ r'.s_rd /\ ~r'.we /\ r'.step = 5
  /\ r.step = 5 => Quiet(r') /\ r'.step = 0
  /\ Same(r, r') /\ (r.step \in {0, 3, 4, 5} => r'.m_data = r.m_data)

LEMMA ReadWordMoves ==
  ASSUME r \in RegisterTypes, r' = memif_read_word
  PROVE  ReadWordEdge
BY DEF ReadWordEdge, memif_read_word, RegisterTypes, Quiet, Same, Kept, Sends, quiet, Push, Done

\* Steps 0 to 3 of both block transfers.
BlockEdge(cmd) ==
  /\ r.step = 0 => /\ Quiet(r') /\ r'.step = 1 /\ r'.m_data = r.m_data /\ r'.count = r.count /\ r'.data = r.data
                   /\ r'.remainder = op.len /\ r'.addr = op.local /\ r'.remote_addr = op.remote
  /\ r.step = 1 => /\ Quiet(r') /\ Kept(r, r') /\ r'.m_data = r.m_data /\ r'.data = r.data
                   /\ r'.count = Smaller(r.remainder, BlockSize)
                   /\ \/ r.remainder = 0 /\ r'.step = 15
                      \/ r.remainder > 0 /\ r'.step = 1
                      \/ r.remainder > 0 /\ r'.step = 2 /\ Remainder(out) > 1
  /\ r.step = 2 => Sends(r', Word(cmd, r.count, NoValue)) /\ Same(r, r') /\ r'.step = 3
  /\ r.step = 3 => Sends(r', Word("address", r.remote_addr, NoValue)) /\ Same(r, r') /\ r'.step = 4

LEMMA BlockMoves ==
  ASSUME r \in RegisterTypes, NEW cmd, r' = Block(cmd), r.step < 4
  PROVE  BlockEdge(cmd)
<1>1. CASE r.step = 0
  BY <1>1 DEF BlockEdge, Block, RegisterTypes, Quiet, quiet
<1>2. CASE r.step = 1
  BY <1>2 DEF BlockEdge, Block, RegisterTypes, Quiet, Kept, quiet
<1>3. CASE r.step = 2
  BY <1>3 DEF BlockEdge, Block, RegisterTypes, Same, Kept, Sends, Push, quiet
<1>4. CASE r.step = 3
  BY <1>4 DEF BlockEdge, Block, RegisterTypes, Same, Kept, Sends, Push, quiet
<1> QED
  BY <1>1, <1>2, <1>3, <1>4 DEF RegisterTypes

WriteEdge ==
  /\ r.step < 4 => BlockEdge("write")
  /\ r.step = 4 => /\ Quiet(r') /\ r'.m_data = r.m_data /\ r'.data = r.data
                   /\ r'.remainder = r.remainder /\ r'.count = r.count
                   /\ \/ r'.step = 4 /\ Kept(r, r')
                      \/ /\ r'.step = 5 /\ r.count <= Remainder(out)
                         /\ r'.addr = r.addr + 1 /\ r'.remote_addr = r.remote_addr + 1
  /\ r.step = 5 /\ r.count = 0 => Quiet(r') /\ Same(r, r') /\ r'.m_data = r.m_data /\ r'.step = 1
  /\ r.step = 5 /\ r.count > 0 =>
       /\ Sends(r', Word("data", 0, ramData)) /\ r'.data = r.data /\ r'.step = 5
       /\ r'.remainder = r.remainder - 1 /\ r'.count = r.count - 1
       /\ r'.addr = IF r.count > 1 THEN r.addr + 1 ELSE r.addr
       /\ r'.remote_addr = IF r.count > 1 THEN r.remote_addr + 1 ELSE r.remote_addr
  /\ r.step = 15 => Quiet(r') /\ Same(r, r') /\ r'.m_data = r.m_data /\ r'.step = 0

LEMMA WriteMoves ==
  ASSUME r \in RegisterTypes, r' = memif_write
  PROVE  WriteEdge
<1>1. CASE r.step < 4
  BY <1>1, BlockMoves DEF WriteEdge, memif_write
<1>2. CASE r.step = 4
  BY <1>2 DEF WriteEdge, memif_write, RegisterTypes, Quiet, Kept, quiet
<1>3. CASE r.step = 5 /\ r.count = 0
  BY <1>3 DEF WriteEdge, memif_write, RegisterTypes, Quiet, Kept, Same, quiet
<1>4. CASE r.step = 5 /\ r.count > 0
  BY <1>4 DEF WriteEdge, memif_write, RegisterTypes, Sends, Push, quiet
<1>5. CASE r.step = 15
  BY <1>5 DEF WriteEdge, memif_write, RegisterTypes, Quiet, Kept, Same, quiet, Done
<1>6. r.step \in Nat /\ r.count \in Nat
  BY DEF RegisterTypes
<1>7. CASE r.step > 5 /\ r.step # 15
  BY <1>7, <1>6 DEF WriteEdge
<1> QED
  BY <1>1, <1>2, <1>3, <1>4, <1>5, <1>6, <1>7

ReadEdge ==
  /\ r.step < 4 => BlockEdge("read")
  /\ r.step = 4 => /\ ~r'.m_wr /\ ~r'.we /\ Same(r, r') /\ r'.m_data = r.m_data
                   /\ \/ r'.step = 4 /\ ~r'.s_rd
                      \/ r'.step = 5 /\ r'.s_rd /\ r.count <= Fill(in)
  /\ r.step = 5 => /\ ~r'.m_wr /\ r'.we /\ r'.s_rd /\ r'.m_data = r.m_data /\ r'.step = 6
                   /\ r'.data = S_Data(in).v /\ r'.addr = r.addr /\ r'.remote_addr = r.remote_addr
                   /\ r'.remainder = r.remainder - 1 /\ r'.count = r.count - 1
  /\ r.step = 6 => /\ ~r'.m_wr /\ r'.m_data = r.m_data
                   /\ r'.addr = r.addr + 1 /\ r'.remote_addr = r.remote_addr + 1
  /\ r.step = 6 /\ r.count = 0 =>
       ~r'.s_rd /\ ~r'.we /\ r'.data = r.data /\ r'.remainder = r.remainder /\ r'.count = 0 /\ r'.step = 1
  /\ r.step = 6 /\ r.count > 0 =>
       /\ r'.we /\ (r'.s_rd <=> r.count > 1) /\ r'.data = S_Data(in).v /\ r'.step = 6
       /\ r'.remainder = r.remainder - 1 /\ r'.count = r.count - 1
  /\ r.step = 15 => Quiet(r') /\ Same(r, r') /\ r'.m_data = r.m_data /\ r'.step = 0

LEMMA ReadMoves ==
  ASSUME r \in RegisterTypes, r' = memif_read
  PROVE  ReadEdge
<1>1. CASE r.step < 4
  BY <1>1, BlockMoves DEF ReadEdge, memif_read
<1>2. CASE r.step = 4
  BY <1>2 DEF ReadEdge, memif_read, RegisterTypes, Kept, Same, quiet
<1>3. CASE r.step = 5
  BY <1>3 DEF ReadEdge, memif_read, RegisterTypes, quiet
<1>4. CASE r.step = 6 /\ r.count = 0
  BY <1>4 DEF ReadEdge, memif_read, RegisterTypes, quiet
<1>5. CASE r.step = 6 /\ r.count > 0
  <2> DEFINE more == r.count > 1
  <2>1. more \in BOOLEAN /\ (more <=> r.count > 1)
    OBVIOUS
  <2>2. r' = [quiet EXCEPT !.s_rd = more, !.data = S_Data(in).v, !.we = TRUE,
                           !.remainder = @ - 1, !.count = @ - 1, !.addr = @ + 1, !.remote_addr = @ + 1]
    <3>1. ~(r.step < 4) /\ r.step # 4 /\ r.step # 5 /\ r.step = 6 /\ r.count # 0
      BY <1>5 DEF RegisterTypes
    <3> QED
      BY <3>1, Zenon DEF memif_read
  <2> HIDE DEF more
  <2>3. /\ r'.s_rd = more /\ r'.we = TRUE /\ r'.data = S_Data(in).v /\ r'.step = 6 /\ r'.m_wr = FALSE
        /\ r'.m_data = r.m_data /\ r'.addr = r.addr + 1 /\ r'.remote_addr = r.remote_addr + 1
        /\ r'.remainder = r.remainder - 1 /\ r'.count = r.count - 1
    BY <1>5, <2>2 DEF RegisterTypes, quiet
  <2> QED
    BY <1>5, <2>1, <2>3 DEF ReadEdge
<1>6. CASE r.step = 15
  BY <1>6 DEF ReadEdge, memif_read, RegisterTypes, Quiet, Kept, Same, quiet, Done
<1>7. r.step \in Nat /\ r.count \in Nat
  BY DEF RegisterTypes
<1>8. CASE r.step > 6 /\ r.step # 15
  BY <1>8, <1>7 DEF ReadEdge
<1> QED
  BY <1>1, <1>2, <1>3, <1>4, <1>5, <1>6, <1>7, <1>8

-----------------------------------------------------------------------------
(***************************************************************************)
(* The FIFOs at a clock edge.                                              *)
(***************************************************************************)

\* No pointer is about to overtake the other.
LEMMA Apart ==
  ASSUME IInv
  PROVE  /\ r.m_wr => Remainder(out) > 0
         /\ r.s_rd => Fill(in) > 0
         /\ ServerTakes => Fill(out) > 0
         /\ ServerGives => Remainder(in) > 0
<1>1. Fill(out) \in Nat /\ Remainder(out) \in Nat /\ Fill(in) \in Nat /\ Remainder(in) \in Nat
  BY FillRange DEF IInv, Typed
<1>2. r.count \in Nat /\ srv.req.n \in Nat /\ op.op \in {"write", "read", "write_word", "read_word", "none"}
      /\ srv.at \in {"header", "address", "wait", "data"}
  BY DEF IInv, Typed, FifoWords, Idle
<1>3. ASSUME r.m_wr PROVE Remainder(out) > 0
  <2>1. Reserved(op, r) \in Nat /\ Reserved(op, r) > 0
    BY <1>2, <1>3 DEF IInv, Registers, WritesAt, Reserved, Held
  <2> QED
    BY <1>1, <2>1 DEF IInv, Room
<1>4. ASSUME r.s_rd PROVE Fill(in) > 0
  <2>1. Awaited(op, r) = 0 /\ Coming(op, r) \in Nat /\ Coming(op, r) > 0
    BY <1>2, <1>4 DEF IInv, Registers, NoLoneWord, Awaited, Coming
  <2>2. PICK k \in 0 .. 0 : Given(k)
    BY <2>1 DEF IInv, Together
  <2> QED
    BY <1>1, <2>1, <2>2 DEF Given
<1>5. ServerTakes => Fill(out) > 0
  BY <1>1, <1>2 DEF ServerTakes, IInv, Server
<1>6. ServerGives => Remainder(in) > 0
  BY <1>1, <1>2 DEF ServerGives, IInv, Server
<1> QED
  BY <1>3, <1>4, <1>5, <1>6

Takes(go) == go /\ ServerTakes
Gives(go) == go /\ ServerGives
GivenWord == Word("data", 0, mem[Cell(srv.addr)])
One(b) == IF b THEN 1 ELSE 0

\* The addresses used are those of words, so wrapping changes none.
LEMMA CellRange ==
  ASSUME NEW a \in Nat
  PROVE  Cell(a) \in Cells /\ (a \in Cells => Cell(a) = a)
BY DEF Cell, Cells

LEMMA GivenWordTyped ==
  ASSUME Typed
  PROVE  GivenWord \in FifoWords /\ GivenWord.v = mem[Cell(srv.addr)]
<1>1. mem[Cell(srv.addr)] \in Values
  BY CellRange DEF Typed
<1> QED
  BY <1>1 DEF GivenWord, Word, FifoWords

\* The FIFO to the memory at a clock edge.
LEMMA OutEdge ==
  ASSUME IInv, NEW go \in BOOLEAN, Clock(go)
  PROVE  /\ out' \in Fifos
         /\ Fill(out') = Fill(out) + One(r.m_wr) - One(Takes(go))
         /\ Content(out') = Stream(IF Takes(go) THEN Tail(Content(out)) ELSE Content(out), r)
<1>1. out' = FifoEdge(out, r.m_wr, r.m_data, Takes(go))
  BY DEF Clock, Takes
<1>2. out \in Fifos /\ r.m_wr \in BOOLEAN /\ r.m_data \in FifoWords /\ Takes(go) \in BOOLEAN
  BY DEF IInv, Typed, Takes, ServerTakes
<1>3. (r.m_wr => Remainder(out) > 0) /\ (Takes(go) => Fill(out) > 0)
  BY Apart DEF Takes
<1> HIDE DEF Takes
<1> QED
  BY ZenonT(60), <1>1, <1>2, <1>3, FifoMoves DEF Stream, One

\* The FIFO from the memory at a clock edge.
LEMMA InEdge ==
  ASSUME IInv, NEW go \in BOOLEAN, Clock(go)
  PROVE  /\ in' \in Fifos
         /\ Fill(in') = Fill(in) + One(Gives(go)) - One(r.s_rd)
         /\ LET q == IF r.s_rd THEN Tail(Content(in)) ELSE Content(in)
            IN  Content(in') = IF Gives(go) THEN Append(q, GivenWord) ELSE q
<1>1. in' = FifoEdge(in, Gives(go), GivenWord, r.s_rd)
  BY DEF Clock, Gives, GivenWord
<1>2. in \in Fifos /\ r.s_rd \in BOOLEAN /\ GivenWord \in FifoWords /\ Gives(go) \in BOOLEAN
  BY GivenWordTyped DEF IInv, Typed, Gives, ServerGives
<1>3. (Gives(go) => Remainder(in) > 0) /\ (r.s_rd => Fill(in) > 0)
  BY Apart DEF Gives
<1> QED
  BY ZenonT(60), <1>1, <1>2, <1>3, FifoMoves DEF One

\* The server's next word is the first of the stream.
LEMMA StreamHead ==
  ASSUME Typed
  PROVE  /\ Stream(Content(out), r) \in Seq(FifoWords)
         /\ Fill(out) > 0 => /\ Stream(Content(out), r) # << >>
                             /\ Head(Stream(Content(out), r)) = S_Data(out)
                             /\ Tail(Stream(Content(out), r)) = Stream(Tail(Content(out)), r)
         /\ Stream(Content(out), r) = << >> => Content(out) = << >> /\ ~r.m_wr
<1> DEFINE q == Content(out)
<1>1. q \in Seq(FifoWords) /\ Len(q) = Fill(out) /\ Fill(out) \in Nat /\ r.m_wr \in BOOLEAN /\ r.m_data \in FifoWords
      /\ (Fill(out) > 0 => S_Data(out) = q[1])
  BY ContentPlaces, FillRange DEF Typed
<1> HIDE DEF q
<1>2. Append(q, r.m_data) \in Seq(FifoWords) /\ Append(q, r.m_data) # << >>
  <2> DEFINE d == r.m_data
  <2> HIDE DEF d
  <2>1. d \in FifoWords
    BY <1>1 DEF d
  <2>2. Append(q, d) \in Seq(FifoWords) /\ Len(Append(q, d)) = Len(q) + 1 /\ Len(q) \in Nat
    BY <1>1, <2>1, AppendProperties
  <2>3. Append(q, d) # << >>
    BY <2>2
  <2> QED
    BY <2>2, <2>3 DEF d
<1>3. ASSUME Fill(out) > 0
      PROVE  /\ q # << >> /\ Head(q) = S_Data(out) /\ Head(Append(q, r.m_data)) = S_Data(out)
             /\ Tail(Append(q, r.m_data)) = Append(Tail(q), r.m_data)
  <2>1. q # << >> /\ Len(q) > 0
    BY <1>1, <1>3
  <2>2. Head(q) = q[1] /\ Head(Append(q, r.m_data)) = q[1]
    BY <1>1, <2>1
  <2>3. Tail(Append(q, r.m_data)) = Append(Tail(q), r.m_data)
    BY <1>1, <2>1
  <2> QED
    BY <1>1, <1>3, <2>1, <2>2, <2>3
<1> QED
  BY <1>1, <1>2, <1>3 DEF Stream, q

\* What the server's next word is.
LEMMA HeadFits ==
  ASSUME IInv, Fill(out) > 0
  PROVE  Fits(ServerAt(srv, mem), S_Data(out))
<1>1. PICK m, k : Parsed(Stream(Content(out), r), ServerAt(srv, mem), ThreadAt(op, r, m, k))
  BY DEF IInv, Together
<1> QED
  BY <1>1, StreamHead, ParsedFirst DEF IInv

-----------------------------------------------------------------------------
(***************************************************************************)
(* The server's side.                                                      *)
(***************************************************************************)

\* A word of data is counted.
LEMMA ServedWord ==
  ASSUME srv \in [at : {"header", "address", "wait", "data"}, req : FifoWords, addr : Nat],
         srv.at = "data", ServerStep
  PROVE  /\ srv'.at = IF srv.req.n <= 1 THEN "header" ELSE "data"
         /\ srv'.req.n = srv.req.n - 1 /\ srv'.req.is = srv.req.is /\ srv'.addr = srv.addr + 1
<1>1. srv' = [srv EXCEPT !.req.n = @ - 1, !.addr = @ + 1, !.at = IF srv.req.n <= 1 THEN "header" ELSE @]
  BY DEF ServerStep
<1> DEFINE q == [srv.req EXCEPT !.n = @ - 1]
<1>2. q.n = srv.req.n - 1 /\ q.is = srv.req.is
  BY DEF FifoWords
<1>3. srv' = [srv EXCEPT !.req = q, !.addr = @ + 1, !.at = IF srv.req.n <= 1 THEN "header" ELSE "data"]
  BY <1>1
<1> HIDE DEF q
<1>4. srv'.req = q /\ srv'.addr = srv.addr + 1 /\ srv'.at = IF srv.req.n <= 1 THEN "header" ELSE "data"
  BY <1>3
<1> QED
  BY <1>2, <1>4

\* One word taken or none: the server expects what comes behind it.
LEMMA ServerExpects ==
  ASSUME IInv, NEW go \in BOOLEAN, Clock(go), ~Gives(go)
  PROVE  ServerAt(srv', mem') = IF Takes(go) THEN After(ServerAt(srv, mem), S_Data(out)) ELSE ServerAt(srv, mem)
<1>1. /\ srv \in [at : {"header", "address", "wait", "data"}, req : FifoWords, addr : Nat]
      /\ mem \in [Cells -> Values] /\ srv.req.n \in Nat
      /\ srv.at # "header" => srv.req.is \in {"write", "read"} /\ srv.req.n > 0
  BY DEF IInv, Typed, Server, FifoWords
<1>2. mem' = IF srv.at = "data" /\ Takes(go) THEN [mem EXCEPT ![Cell(srv.addr)] = S_Data(out).v] ELSE mem
  BY DEF Clock, Takes
<1>3. CASE ~go
  <2>1. srv' = srv /\ mem' = mem /\ ~Takes(go)
    BY <1>2, <1>3 DEF Clock, Takes
  <2> QED
    BY <2>1
<1>4. CASE go
  <2>1. ServerStep
    BY <1>4 DEF Clock
  <2>2. CASE srv.at = "header" /\ Fill(out) > 1
    <3>3. ~(Fill(out) <= 1)
      BY <2>2, FillRange DEF IInv, Typed
    <3>4. srv' = [srv EXCEPT !.at = "address", !.req = S_Data(out)]
      BY <2>1, <2>2, <3>3 DEF ServerStep
    <3>1. srv'.at = "address" /\ srv'.req = S_Data(out) /\ Takes(go) /\ mem' = mem
      BY <1>1, <1>2, <1>4, <2>2, <3>4 DEF Takes, ServerTakes
    <3> QED
      BY <2>2, <3>1 DEF ServerAt, After, Rest, Address
  <2>3. CASE srv.at = "header" /\ Fill(out) <= 1
    <3>0. ~(Fill(out) > 1)
      BY <2>3, FillRange DEF IInv, Typed
    <3>1. srv' = srv /\ ~Takes(go) /\ mem' = mem
      BY <1>1, <1>2, <1>4, <2>1, <2>3, <3>0 DEF ServerStep, Takes, ServerTakes
    <3> QED
      BY <3>1
  <2>4. CASE srv.at = "address"
    <3>1. srv'.at = "wait" /\ srv'.req = srv.req /\ srv'.addr = S_Data(out).n /\ Takes(go) /\ mem' = mem
      BY <1>1, <1>2, <1>4, <2>1, <2>4 DEF ServerStep, Takes, ServerTakes
    <3> QED
      BY <1>1, <2>4, <3>1 DEF ServerAt, After, Address
  <2>5. CASE srv.at = "wait"
    <3>1. srv'.at \in {"wait", "data"} /\ srv'.req = srv.req /\ srv'.addr = srv.addr /\ ~Takes(go) /\ mem' = mem
      BY <1>1, <1>2, <1>4, <2>1, <2>5 DEF ServerStep, Takes, ServerTakes
    <3> QED
      BY <2>5, <3>1 DEF ServerAt
  <2>6. CASE srv.at = "data"
    <3>1. srv.req.is = "write" /\ Takes(go)
      BY <1>1, <1>4, <2>6 DEF Gives, ServerGives, Takes, ServerTakes
    <3>2. /\ srv'.at = IF srv.req.n <= 1 THEN "header" ELSE "data"
          /\ srv'.req.n = srv.req.n - 1 /\ srv'.req.is = srv.req.is /\ srv'.addr = srv.addr + 1
      BY <1>1, <2>1, <2>6, ServedWord
    <3>3. Cell(srv.addr) = srv.addr
      BY <1>1, <2>6, CellRange DEF IInv, Server, Cells
    <3>4. mem' = [mem EXCEPT ![srv.addr] = S_Data(out).v]
      BY <1>2, <2>6, <3>1, <3>3
    <3>5. ServerAt(srv, mem) = [at |-> "data", is |-> "write", n |-> srv.req.n, addr |-> srv.addr, mem |-> mem]
      BY <1>1, <2>6, <3>1 DEF ServerAt, Taking
    <3>6. After(ServerAt(srv, mem), S_Data(out)) = Taking(srv.req.n - 1, srv.addr + 1, mem')
      BY <3>4, <3>5 DEF After
    <3>7. ServerAt(srv', mem') = Taking(srv.req.n - 1, srv.addr + 1, mem')
      BY <1>1, <2>6, <3>1, <3>2 DEF ServerAt, Taking
    <3> QED
      BY <3>1, <3>6, <3>7
  <2> QED
    BY <1>1, <2>2, <2>3, <2>4, <2>5, <2>6, FillRange DEF IInv, Typed
<1> QED
  BY <1>3, <1>4

\* The stream after the edge is read from what the server expects then.
LEMMA ServerReads ==
  ASSUME IInv, NEW go \in BOOLEAN, Clock(go), ~Gives(go),
         NEW b, Parsed(Stream(Content(out), r), ServerAt(srv, mem), b)
  PROVE  Parsed(Content(out'), ServerAt(srv', mem'), b)
<1>1. CASE Takes(go)
  <2>1. Fill(out) > 0
    BY <1>1, Apart DEF Takes
  <2>2. Parsed(Stream(Tail(Content(out)), r), After(ServerAt(srv, mem), S_Data(out)), b)
    BY <2>1, StreamHead, ParsedFirst DEF IInv
  <2> QED
    BY <1>1, <2>2, OutEdge, ServerExpects
<1>2. CASE ~Takes(go)
  BY <1>2, OutEdge, ServerExpects
<1> QED
  BY <1>1, <1>2

\* The server gives a word: it is the one the thread waits for.
LEMMA ServerAnswers ==
  ASSUME IInv, NEW go \in BOOLEAN, Clock(go), Gives(go),
         NEW m \in [Cells -> Values], NEW k \in 0 .. Awaited(op, r),
         Parsed(Stream(Content(out), r), ServerAt(srv, mem), ThreadAt(op, r, m, k))
  PROVE  /\ k > 0 /\ m = mem
         /\ Parsed(Content(out'), ServerAt(srv', mem'), ThreadAt(op, r, m, k - 1))
         /\ Cell(srv.addr) = ComesFrom(op, r) + (Coming(op, r) - k)
<1>1. /\ srv \in [at : {"header", "address", "wait", "data"}, req : FifoWords, addr : Nat]
      /\ mem \in [Cells -> Values] /\ srv.req.n \in Nat /\ srv.req.n > 0
      /\ srv.at = "data" /\ srv.req.is = "read" /\ go /\ ~Takes(go)
  BY DEF IInv, Typed, Server, FifoWords, Gives, ServerGives, Takes, ServerTakes
<1>2. ServerAt(srv, mem) = [at |-> "owing", is |-> "read", n |-> srv.req.n, addr |-> srv.addr, mem |-> mem]
  BY <1>1 DEF ServerAt, Owing
<1>3. Stream(Content(out), r) = << >> /\ ThreadAt(op, r, m, k) = ServerAt(srv, mem)
  BY <1>2, StreamHead, OwingIsLast DEF IInv
<1>4. Content(out') = << >>
  BY <1>1, <1>3, OutEdge, StreamHead DEF IInv, Stream
<1>5. \/ op.op = "read_word" /\ r.step = 3 /\ ThreadAt(op, r, m, k) = Owing(k, op.remote + (1 - k), m)
                            /\ ThreadAt(op, r, m, k - 1) = Owing(k - 1, op.remote + (1 - (k - 1)), m)
                            /\ Coming(op, r) = 1 /\ ComesFrom(op, r) = op.remote
      \/ op.op = "read" /\ r.step = 4 /\ ThreadAt(op, r, m, k) = Owing(k, r.remote_addr + (r.count - k), m)
                            /\ ThreadAt(op, r, m, k - 1) = Owing(k - 1, r.remote_addr + (r.count - (k - 1)), m)
                            /\ Coming(op, r) = r.count /\ ComesFrom(op, r) = r.remote_addr
  <2>1. ThreadAt(op, r, m, k).at = "owing"
    BY <1>2, <1>3
  <2>2. (op.op = "read_word" /\ r.step = 3) \/ (op.op = "read" /\ r.step = 4)
    BY <2>1 DEF ThreadAt, Address, Taking, Rest
  <2> QED
    BY <2>2 DEF ThreadAt, Coming, ComesFrom
<1>6. PICK a : /\ a = ComesFrom(op, r) /\ a \in Nat /\ Coming(op, r) \in Nat
               /\ ThreadAt(op, r, m, k) = Owing(k, a + (Coming(op, r) - k), m)
               /\ ThreadAt(op, r, m, k - 1) = Owing(k - 1, a + (Coming(op, r) - (k - 1)), m)
  <2>1. r.count \in Nat /\ r.remote_addr \in Nat /\ (op.op = "read_word" => op.remote \in Nat)
    BY DEF IInv, Typed, Idle
  <2> QED
    BY <1>5, <2>1
<1>7. k \in Nat
  BY <1>5 DEF Awaited, IInv, Typed
<1>8. k > 0 /\ m = mem /\ k = srv.req.n /\ srv.addr = a + (Coming(op, r) - k)
  BY <1>2, <1>3, <1>6, <1>7 DEF Owing, Rest
<1>9. ServerAt(srv', mem') = Owing(k - 1, srv.addr + 1, mem)
  <2>1. /\ srv'.at = IF srv.req.n <= 1 THEN "header" ELSE "data"
        /\ srv'.req.n = srv.req.n - 1 /\ srv'.req.is = srv.req.is /\ srv'.addr = srv.addr + 1
    BY <1>1, ServedWord DEF Clock
  <2>2. mem' = mem
    BY <1>1 DEF Clock, Takes
  <2> QED
    BY <1>1, <1>8, <2>1, <2>2 DEF ServerAt, Owing
<1>10. ThreadAt(op, r, m, k - 1) = ServerAt(srv', mem')
  <2>1. a + (Coming(op, r) - (k - 1)) = srv.addr + 1
    BY <1>6, <1>7, <1>8
  <2> QED
    BY <1>6, <1>8, <1>9, <2>1
<1>11. Cell(srv.addr) = srv.addr
  BY <1>1, CellRange DEF IInv, Server, Cells
<1> QED
  BY <1>4, <1>6, <1>8, <1>10, <1>11, ParsedNone

\* The words in the thread's FIFO, with those the thread has not seen given.
Come(k) ==
  /\ Fill(in') + One(r.s_rd) + k = Coming(op, r)
  /\ \A i \in 1 .. Fill(in') : Content(in')[i].v = wantMem[ComesFrom(op, r) + One(r.s_rd) + i - 1]

\* The words to come move up by one when the thread takes one.
LEMMA WordsCome ==
  ASSUME IInv, NEW go \in BOOLEAN, Clock(go)
  PROVE  \E m \in [Cells -> Values], k \in 0 .. Awaited(op, r) :
           /\ Parsed(Content(out'), ServerAt(srv', mem'), ThreadAt(op, r, m, k))
           /\ \A a \in Cells \ Unsent(op, r) : m[a] = wantMem[a]
           /\ Come(k)
           /\ Fill(in) + k <= Coming(op, r)
<1>1. PICK m \in [Cells -> Values], k \in 0 .. Awaited(op, r) :
        /\ Parsed(Stream(Content(out), r), ServerAt(srv, mem), ThreadAt(op, r, m, k))
        /\ \A a \in Cells \ Unsent(op, r) : m[a] = wantMem[a]
        /\ Given(k)
  BY DEF IInv, Together
<1>2. Content(in) \in Seq(FifoWords) /\ Len(Content(in)) = Fill(in) /\ Fill(in) \in Nat /\ Fill(in') \in Nat
  BY SMTT(30), ContentPlaces, FillRange, InEdge DEF IInv, Typed
<1>3. r.s_rd \in BOOLEAN /\ r.count \in Nat /\ r.remote_addr \in Nat /\ (op.op = "read_word" => op.remote \in Nat)
  BY DEF IInv, Typed, Idle
<1>4. Awaited(op, r) \in Nat /\ Coming(op, r) \in Nat /\ ComesFrom(op, r) \in Nat /\ k \in Nat
  BY <1>3 DEF Awaited, Coming, ComesFrom
<1>5. CASE Gives(go)
  <2>1. /\ k > 0 /\ m = mem
        /\ Parsed(Content(out'), ServerAt(srv', mem'), ThreadAt(op, r, m, k - 1))
        /\ Cell(srv.addr) = ComesFrom(op, r) + (Coming(op, r) - k)
    BY <1>1, <1>5, ServerAnswers
  <2>2. ~r.s_rd /\ Unsent(op, r) = {}
    <3>1. Awaited(op, r) > 0
      BY <1>4, <2>1
    <3> QED
      BY <3>1 DEF Awaited, Unsent, IInv, Registers
  <2>3. Fill(in') = Fill(in) + 1 /\ Content(in') = Append(Content(in), GivenWord)
    BY <1>2, <1>5, <2>2, InEdge DEF One
  <2>4. GivenWord.v = wantMem[ComesFrom(op, r) + Fill(in)]
    <3>1. GivenWord.v = mem[Cell(srv.addr)] /\ Cell(srv.addr) \in Cells
      BY GivenWordTyped, CellRange DEF IInv, Typed
    <3>2. Cell(srv.addr) = ComesFrom(op, r) + Fill(in)
      BY <1>1, <1>2, <1>4, <2>1 DEF Given
    <3> QED
      BY <1>1, <2>1, <2>2, <3>1, <3>2
  <2>5. ASSUME NEW i \in 1 .. Fill(in') PROVE Content(in')[i].v = wantMem[ComesFrom(op, r) + 0 + i - 1]
    <3>1. CASE i = Fill(in) + 1
      <4>1. Content(in')[i] = GivenWord
        BY <1>2, <2>3, <3>1, AppendProperties, GivenWordTyped DEF IInv
      <4>2. ComesFrom(op, r) + 0 + i - 1 = ComesFrom(op, r) + Fill(in)
        BY <1>2, <1>4, <3>1
      <4> QED
        BY <2>4, <4>1, <4>2
    <3>2. CASE i \in 1 .. Fill(in)
      <4>1. Content(in')[i] = Content(in)[i]
        BY <1>2, <2>3, <3>2, AppendProperties, GivenWordTyped DEF IInv
      <4>2. ComesFrom(op, r) + 0 + i - 1 = ComesFrom(op, r) + i - 1
        BY <1>2, <1>4, <3>2
      <4> QED
        BY <1>1, <3>2, <4>1, <4>2 DEF Given
    <3>3. i = Fill(in) + 1 \/ i \in 1 .. Fill(in)
      BY <1>2, <2>3
    <3> QED
      BY <3>1, <3>2, <3>3
  <2>6. Come(k - 1) /\ Fill(in) + (k - 1) <= Coming(op, r) /\ k - 1 \in 0 .. Awaited(op, r)
    <3>1. Fill(in) + k = Coming(op, r)
      BY <1>1 DEF Given
    <3>2. Fill(in') + 0 + (k - 1) = Coming(op, r) /\ Fill(in) + (k - 1) <= Coming(op, r) /\ k - 1 \in 0 .. Awaited(op,
         r)
      BY <1>2, <1>4, <2>1, <2>3, <3>1
    <3>3. One(r.s_rd) = 0
      BY <2>2 DEF One
    <3> QED
      BY <2>5, <3>2, <3>3 DEF Come
  <2> QED
    BY <1>1, <2>1, <2>6
<1>6. CASE ~Gives(go)
  <2>1. Parsed(Content(out'), ServerAt(srv', mem'), ThreadAt(op, r, m, k))
    BY <1>1, <1>6, ServerReads
  <2>2. CASE r.s_rd
    <3>1. Fill(in') = Fill(in) - 1 /\ Content(in') = Tail(Content(in)) /\ Fill(in) > 0
      BY <1>2, <1>6, <2>2, InEdge, Apart DEF One
    <3>2. ASSUME NEW i \in 1 .. Fill(in') PROVE Content(in')[i].v = wantMem[ComesFrom(op, r) + 1 + i - 1]
      <4>1. Content(in)[i + 1].v = wantMem[ComesFrom(op, r) + (i + 1) - 1]
        BY <1>1, <1>2, <3>1 DEF Given
      <4>2. Content(in')[i] = Content(in)[i + 1]
        BY <1>2, <3>1, HeadTailProperties
      <4>3. ComesFrom(op, r) + (i + 1) - 1 = ComesFrom(op, r) + 1 + i - 1
        BY <1>2, <1>4
      <4> QED
        BY <4>1, <4>2, <4>3
    <3>3. Come(k) /\ Fill(in) + k <= Coming(op, r)
      BY <1>1, <1>2, <1>4, <2>2, <3>1, <3>2 DEF Come, Given, One
    <3> QED
      BY <1>1, <2>1, <3>3
  <2>3. CASE ~r.s_rd
    <3>1. Fill(in') = Fill(in) /\ Content(in') = Content(in)
      BY <1>2, <1>6, <2>3, InEdge DEF One
    <3>2. ASSUME NEW i \in 1 .. Fill(in') PROVE Content(in')[i].v = wantMem[ComesFrom(op, r) + 0 + i - 1]
      <4>1. ComesFrom(op, r) + i - 1 = ComesFrom(op, r) + 0 + i - 1
        BY <1>2, <1>4
      <4> QED
        BY <1>1, <3>1, <4>1 DEF Given
    <3>3. Come(k) /\ Fill(in) + k <= Coming(op, r)
      BY <1>1, <1>2, <1>4, <2>3, <3>1, <3>2 DEF Come, Given, One
    <3> QED
      BY <1>1, <2>1, <3>3
  <2> QED
    BY <1>3, <2>2, <2>3
<1> QED
  BY <1>5, <1>6

-----------------------------------------------------------------------------
(***************************************************************************)
(* The thread's side: the registers.                                       *)
(***************************************************************************)
LEMMA OpTypes ==
  ASSUME IInv
  PROVE  /\ op.op \in {"write", "read", "write_word", "read_word", "none"} /\ op.op = "none" <=> op = Idle
         /\ op # Idle => op \in Ops
         /\ op.local \in Nat /\ op.remote \in Nat /\ op.len \in Nat
         /\ op.local + op.len <= Words /\ op.remote + op.len <= Words
BY DEF IInv, Typed, Idle

\* What a clock edge does to the registers, by operation.
LEMMA Calls ==
  ASSUME IInv, NEW go, Clock(go)
  PROVE  \/ op.op = "write_word" /\ op \in Ops /\ WriteWordEdge /\ op' = IF r.step = 4 THEN Idle ELSE op
         \/ op.op = "read_word" /\ op \in Ops /\ ReadWordEdge /\ op' = IF r.step = 5 THEN Idle ELSE op
         \/ op.op = "write" /\ op \in Ops /\ WriteEdge /\ op' = IF r.step = 15 THEN Idle ELSE op
         \/ op.op = "read" /\ op \in Ops /\ ReadEdge /\ op' = IF r.step = 15 THEN Idle ELSE op
         \/ op = Idle /\ r' = r /\ op' = Idle
<1>1. Called /\ op' = IF Finished THEN Idle ELSE op
  BY DEF Clock
<1>2. r \in RegisterTypes
  BY TypedRegisters DEF IInv
<1>3. ASSUME op # Idle PROVE Finished <=> r.step = Last[op.op]
  BY <1>3 DEF Finished
<1>4. CASE op.op = "write_word" /\ r' = memif_write_word
  BY <1>1, <1>2, <1>3, <1>4, WriteWordMoves, OpTypes DEF Last
<1>5. CASE op.op = "read_word" /\ r' = memif_read_word
  BY <1>1, <1>2, <1>3, <1>5, ReadWordMoves, OpTypes DEF Last
<1>6. CASE op.op = "write" /\ r' = memif_write
  BY <1>1, <1>2, <1>3, <1>6, WriteMoves, OpTypes DEF Last
<1>7. CASE op.op = "read" /\ r' = memif_read
  BY <1>1, <1>2, <1>3, <1>7, ReadMoves, OpTypes DEF Last
<1>8. CASE op = Idle /\ UNCHANGED r
  BY <1>1, <1>8 DEF Finished
<1> QED
  BY <1>1, <1>4, <1>5, <1>6, <1>7, <1>8 DEF Called

\* Each register is up in its steps only.
LEMMA RegistersMove ==
  ASSUME IInv, NEW go, Clock(go)
  PROVE  Registers'
<1>1. Registers /\ r \in RegisterTypes
  BY TypedRegisters DEF IInv
<1>2. CASE op.op = "write_word" /\ WriteWordEdge /\ op' = IF r.step = 4 THEN Idle ELSE op
  BY <1>1, <1>2 DEF Registers, WriteWordEdge, Quiet, Sends, Steps, WritesAt, Idle
<1>3. CASE op.op = "read_word" /\ ReadWordEdge /\ op' = IF r.step = 5 THEN Idle ELSE op
  BY <1>1, <1>3 DEF Registers, ReadWordEdge, Quiet, Sends, Steps, WritesAt, Idle
<1>4. CASE op.op = "write" /\ WriteEdge /\ op' = IF r.step = 15 THEN Idle ELSE op
  BY <1>1, <1>4 DEF Registers, WriteEdge, BlockEdge, Quiet, Sends, Steps, WritesAt, Idle, RegisterTypes
<1>5. CASE op.op = "read" /\ ReadEdge /\ op' = IF r.step = 15 THEN Idle ELSE op
  <2>1. r.step \in 0 .. 6 \/ r.step = 15
    BY <1>1, <1>5 DEF Registers, Steps
  <2>2. CASE r.step < 4
    BY <1>1, <1>5, <2>2 DEF Registers, ReadEdge, BlockEdge, Quiet, Sends, Steps, WritesAt
  <2>3. CASE r.step = 4
    BY <1>1, <1>5, <2>3 DEF Registers, ReadEdge, Steps, WritesAt
  <2>4. CASE r.step = 5
    <3>1. r.count > 1 /\ r.count \in Nat
      BY <1>1, <1>5, <2>4 DEF IInv, NoLoneWord, RegisterTypes
    <3> QED
      BY <1>1, <1>5, <2>4, <3>1 DEF Registers, ReadEdge, Steps, WritesAt
  <2>5. CASE r.step = 6 /\ r.count = 0
    BY <1>1, <1>5, <2>5 DEF Registers, ReadEdge, Steps, WritesAt
  <2>6. CASE r.step = 6 /\ r.count > 0
    <3>1. r.count \in Nat
      BY <1>1 DEF RegisterTypes
    <3> QED
      BY <1>1, <1>5, <2>6, <3>1 DEF Registers, ReadEdge, Steps, WritesAt
  <2>7. CASE r.step = 15
    BY <1>1, <1>5, <2>7 DEF Registers, ReadEdge, Quiet, Steps, WritesAt, Idle
  <2>8. r.step = 6 => r.count = 0 \/ r.count > 0
    BY <1>1 DEF RegisterTypes
  <2> QED
    BY <2>1, <2>2, <2>3, <2>4, <2>5, <2>6, <2>7, <2>8
<1>6. CASE op = Idle /\ r' = r /\ op' = Idle
  BY <1>1, <1>6 DEF Registers
<1> QED
  BY <1>2, <1>3, <1>4, <1>5, <1>6, Calls

\* The room that was seen is there until the words it was seen for are written.
LEMMA RoomMoves ==
  ASSUME IInv, RoomForAddress, NEW go \in BOOLEAN, Clock(go)
  PROVE  Room'
<1>1. Registers /\ r \in RegisterTypes /\ Room
  BY TypedRegisters DEF IInv
<1>2. Remainder(out') \in Nat /\ Remainder(out) \in Nat
  BY FillRange, OutEdge DEF IInv, Typed
<1>3. Remainder(out') >= Remainder(out) - Held(r)
  BY FillRange, OutEdge DEF IInv, Typed, One, Held
<1>4. CASE op.op = "write_word" /\ WriteWordEdge /\ op' = IF r.step = 4 THEN Idle ELSE op
  BY <1>1, <1>2, <1>3, <1>4
     DEF Room, Reserved, Held, Registers, WriteWordEdge, Quiet, Sends, Steps, WritesAt, Idle
<1>5. CASE op.op = "read_word" /\ ReadWordEdge /\ op' = IF r.step = 5 THEN Idle ELSE op
  BY <1>1, <1>2, <1>3, <1>5
     DEF Room, Reserved, Held, Registers, ReadWordEdge, Quiet, Sends, Steps, WritesAt, Idle
<1>6. CASE op.op = "write" /\ WriteEdge /\ op' = IF r.step = 15 THEN Idle ELSE op
  BY <1>1, <1>2, <1>3, <1>6
     DEF Room, Reserved, Held, Registers, WriteEdge, BlockEdge, Quiet, Sends, Steps, WritesAt, Idle,
         RegisterTypes, RoomForAddress
<1>7. CASE op.op = "read" /\ ReadEdge /\ op' = IF r.step = 15 THEN Idle ELSE op
  BY <1>1, <1>2, <1>3, <1>7
     DEF Room, Reserved, Held, Registers, ReadEdge, BlockEdge, Quiet, Sends, Steps, WritesAt, Idle, RegisterTypes
<1>8. CASE op = Idle /\ r' = r /\ op' = Idle
  BY <1>1, <1>2, <1>3, <1>8 DEF Room, Reserved, Held, Registers, Steps, WritesAt, Idle
<1> QED
  BY <1>4, <1>5, <1>6, <1>7, <1>8, Calls

-----------------------------------------------------------------------------
(***************************************************************************)
(* The thread's side: how far the operation is.                            *)
(***************************************************************************)

\* The oldest word given is the one the thread has to put next.
LEMMA HeadComes ==
  ASSUME IInv, Awaited(op, r) = 0, Coming(op, r) > 0
  PROVE  Fill(in) = Coming(op, r) /\ S_Data(in).v = wantMem[ComesFrom(op, r)]
<1>1. PICK k \in 0 .. 0 : Given(k)
  BY DEF IInv, Together
<1>2. Coming(op, r) \in Nat /\ ComesFrom(op, r) \in Nat /\ Fill(in) \in Nat
  BY FillRange DEF IInv, Typed, Coming, ComesFrom, Idle
<1>3. Fill(in) = Coming(op, r) /\ 1 \in 1 .. Fill(in)
  BY <1>1, <1>2 DEF Given
<1>4. S_Data(in) = Content(in)[1]
  BY <1>3, ContentPlaces DEF IInv, Typed
<1>5. ComesFrom(op, r) + 1 - 1 = ComesFrom(op, r)
  BY <1>2
<1> QED
  BY <1>1, <1>3, <1>4, <1>5 DEF Given

\* The local memory's output is the word at the address of the edge before.
LEMMA OutputIsWanted ==
  ASSUME IInv, NEW go, Clock(go), r.addr \in Cells, Unread(op, r) = {}
  PROVE  ramData' = wantRam[r.addr]
<1>1. ramData' = ram[r.addr]
  BY CellRange DEF Clock, Cells
<1> QED
  BY <1>1 DEF IInv, Wanted

\* The counters of a write agree with each other and the words sent.
LEMMA WriteProgress ==
  ASSUME IInv, NEW go, Clock(go), op.op = "write", WriteEdge, op' = op
  PROVE  Progress'
<1>1. /\ Registers /\ Progress /\ r \in RegisterTypes /\ wantRam' = wantRam
      /\ op.local \in Nat /\ op.remote \in Nat /\ op.len \in Nat /\ op.local + op.len <= Words
      /\ op.remote + op.len <= Words
  BY TypedRegisters, OpTypes DEF IInv, Clock
<1>2. r.step \in {0, 1, 2, 3, 4, 5,
     15} /\ r.count \in Nat /\ r.remainder \in Nat /\ r.addr \in Nat /\ r.remote_addr \in Nat
  BY <1>1 DEF Registers, Steps, RegisterTypes
<1>3. Unread(op, r) = {}
  BY DEF Unread
<1>4. CASE r.step = 0
  BY <1>1, <1>4 DEF WriteEdge, BlockEdge, Progress, Gone
<1>5. CASE r.step \in {1, 2, 3}
  BY <1>1, <1>2, <1>5 DEF WriteEdge, BlockEdge, Progress, Gone, Same, Kept, Smaller
<1>6. CASE r.step = 4 /\ r'.step = 4
  BY <1>1, <1>2, <1>6 DEF WriteEdge, Progress, Gone, Kept
<1>7. CASE r.step = 4 /\ r'.step = 5
  <2>1. /\ r.remainder <= op.len /\ r.count > 0 /\ r.count <= r.remainder
        /\ r.addr = op.local + (op.len - r.remainder) /\ r.remote_addr = op.remote + (op.len - r.remainder)
    BY <1>1, <1>2, <1>7 DEF Progress, Gone
  <2>2. r.addr \in Cells
    BY <1>1, <1>2, <2>1 DEF Cells
  <2>3. ramData' = wantRam[op.local + (op.len - r.remainder)]
    BY <1>3, <2>1, <2>2, OutputIsWanted
  <2>4. /\ r'.remainder = r.remainder /\ r'.count = r.count
        /\ r'.addr = r.addr + 1 /\ r'.remote_addr = r.remote_addr + 1
    BY <1>7 DEF WriteEdge
  <2> QED
    BY <1>1, <1>2, <1>7, <2>1, <2>3, <2>4 DEF Progress, Gone
<1>8. CASE r.step = 5 /\ r.count = 0
  BY <1>1, <1>2, <1>8 DEF WriteEdge, Progress, Gone, Same, Kept
<1>9. CASE r.step = 5 /\ r.count > 0
  <2>1. /\ r.remainder <= op.len /\ r.count <= r.remainder
        /\ r.addr = op.local + (op.len - r.remainder) + 1 /\ r.remote_addr = op.remote + (op.len - r.remainder) + 1
    BY <1>1, <1>2, <1>9 DEF Progress, Gone
  <2>2. /\ r'.remainder = r.remainder - 1 /\ r'.count = r.count - 1 /\ r'.step = 5
        /\ r'.addr = IF r.count > 1 THEN r.addr + 1 ELSE r.addr
        /\ r'.remote_addr = IF r.count > 1 THEN r.remote_addr + 1 ELSE r.remote_addr
    BY <1>9 DEF WriteEdge
  <2>3. ASSUME r'.count > 0 PROVE ramData' = wantRam[op.local + (op.len - r'.remainder)]
    <3>1. r.addr \in Cells /\ r.addr = op.local + (op.len - r'.remainder)
      BY <1>1, <1>2, <2>1, <2>2, <2>3 DEF Cells
    <3> QED
      BY <1>3, <3>1, OutputIsWanted
  <2> QED
    BY <1>1, <1>2, <1>9, <2>1, <2>2, <2>3 DEF Progress, Gone
<1>10. CASE r.step = 15
  BY <1>10 DEF WriteEdge, Progress
<1>11. r.step = 4 => r'.step = 4 \/ r'.step = 5
  BY DEF WriteEdge
<1>12. r.step = 5 => r.count = 0 \/ r.count > 0
  BY <1>2
<1> QED
  BY <1>2, <1>4, <1>5, <1>6, <1>7, <1>8, <1>9, <1>10, <1>11, <1>12

\* The counters of a read agree with each other and the words stored.
LEMMA ReadProgress ==
  ASSUME IInv, NEW go, Clock(go), op.op = "read", ReadEdge, op' = op
  PROVE  Progress'
<1>1. /\ Registers /\ Progress /\ r \in RegisterTypes /\ wantMem' = wantMem
      /\ op.local \in Nat /\ op.remote \in Nat /\ op.len \in Nat /\ op.local + op.len <= Words
      /\ op.remote + op.len <= Words
  BY TypedRegisters, OpTypes DEF IInv, Clock
<1>2. r.step \in {0, 1, 2, 3, 4, 5, 6, 15} /\ r.count \in Nat /\ r.remainder \in Nat /\ r.addr \in Nat
      /\ r.remote_addr \in Nat
  BY <1>1 DEF Registers, Steps, RegisterTypes
<1>3. r.step = 5 => r.count > 0
  BY <1>2 DEF IInv, NoLoneWord
<1>4. CASE r.step = 0
  BY <1>1, <1>4 DEF ReadEdge, BlockEdge, Progress, Gone
<1>5. CASE r.step \in {1, 2, 3}
  BY <1>1, <1>2, <1>5 DEF ReadEdge, BlockEdge, Progress, Gone, Same, Kept, Smaller
<1>6. CASE r.step = 4
  BY <1>1, <1>2, <1>6 DEF ReadEdge, Progress, Gone, Same, Kept
<1>7. CASE r.step = 5
  <2>1. r'.data = wantMem[r'.remote_addr]
    <3>1. Awaited(op, r) = 0 /\ Coming(op, r) > 0 /\ ComesFrom(op, r) = r.remote_addr
      BY <1>3, <1>7 DEF Awaited, Coming, ComesFrom
    <3> QED
      BY <1>7, <3>1, HeadComes DEF ReadEdge
  <2>2. /\ r.remainder <= op.len /\ r.count <= r.remainder /\ r.count > 0
        /\ r.addr = op.local + (op.len - r.remainder) /\ r.remote_addr = op.remote + (op.len - r.remainder)
    BY <1>1, <1>2, <1>3, <1>7 DEF Progress, Gone
  <2>3. /\ r'.remainder = r.remainder - 1 /\ r'.count = r.count - 1 /\ r'.step = 6
        /\ r'.addr = r.addr /\ r'.remote_addr = r.remote_addr
    BY <1>7 DEF ReadEdge
  <2> QED
    BY <1>1, <1>2, <2>1, <2>2, <2>3 DEF Progress, Gone
<1>8. CASE r.step = 6 /\ r.count = 0
  BY <1>1, <1>2, <1>8 DEF ReadEdge, Progress, Gone
<1>9. CASE r.step = 6 /\ r.count > 0
  <2>1. r'.data = wantMem[r'.remote_addr]
    <3>1. Awaited(op, r) = 0 /\ Coming(op, r) > 0 /\ ComesFrom(op, r) = r.remote_addr + 1
      BY <1>9 DEF Awaited, Coming, ComesFrom
    <3> QED
      BY <1>9, <3>1, HeadComes DEF ReadEdge
  <2>2. /\ r.remainder <= op.len /\ r.count <= r.remainder
        /\ r.addr = op.local + (op.len - r.remainder - 1) /\ r.remote_addr = op.remote + (op.len - r.remainder - 1)
    BY <1>1, <1>2, <1>9 DEF Progress, Gone
  <2>3. /\ r'.remainder = r.remainder - 1 /\ r'.count = r.count - 1 /\ r'.step = 6
        /\ r'.addr = r.addr + 1 /\ r'.remote_addr = r.remote_addr + 1
    BY <1>9 DEF ReadEdge
  <2> QED
    BY <1>1, <1>2, <1>9, <2>1, <2>2, <2>3 DEF Progress, Gone
<1>10. CASE r.step = 15
  BY <1>10 DEF ReadEdge, Progress
<1>11. r.step = 6 => r.count = 0 \/ r.count > 0
  BY <1>2
<1> QED
  BY <1>2, <1>4, <1>5, <1>6, <1>7, <1>8, <1>9, <1>10, <1>11

LEMMA ProgressMoves ==
  ASSUME IInv, NEW go, Clock(go)
  PROVE  Progress'
<1>1. CASE op.op \in {"write_word", "read_word"} \/ op = Idle \/ op' = Idle
  BY <1>1, Calls DEF Progress, Idle
<1>2. CASE op.op \in {"write", "read"} /\ op' # Idle
  BY <1>2, Calls, WriteProgress, ReadProgress DEF Idle
<1> QED
  BY <1>1, <1>2, OpTypes

\* A block is as long as it can be, or the last: what it leaves is no lone word.
LEMMA LoneLess ==
  ASSUME NEW n \in Nat, n > 0, ~Lone(n), BlockSize > 1
  PROVE  Smaller(n, BlockSize) > 1 /\ ~Lone(n - Smaller(n, BlockSize))
<1>1. CASE n > BlockSize
  <2>1. ASSUME NEW q \in Nat, n - BlockSize = q * BlockSize + 1 PROVE FALSE
    <3>1. n = (q + 1) * BlockSize + 1
      BY <2>1
    <3> QED
      BY <3>1 DEF Lone
  <2> QED
    BY <1>1, <2>1 DEF Lone, Smaller
<1>2. CASE n <= BlockSize
  <2>1. n = 0 * BlockSize + n
    OBVIOUS
  <2>2. n # 1
    BY <2>1 DEF Lone
  <2>3. ASSUME NEW q \in Nat, 0 = q * BlockSize + 1 PROVE FALSE
    <3>1. q * BlockSize \in Nat
      OBVIOUS
    <3> QED
      BY <2>3, <3>1
  <2> QED
    BY <1>2, <2>2, <2>3 DEF Lone, Smaller
<1> QED
  BY <1>1, <1>2

\* A read never comes to a block of one word.
LEMMA NoLoneWordMoves ==
  ASSUME IInv, Transfers, NEW go, Clock(go)
  PROVE  NoLoneWord'
<1>1. CASE op.op # "read" \/ op' = Idle
  BY <1>1, Calls DEF NoLoneWord, Idle
<1>2. CASE op.op = "read" /\ ReadEdge /\ op' = op /\ op \in Ops
  <2>1. r \in RegisterTypes /\ r.step \in {0, 1, 2, 3, 4, 5, 6, 15} /\ NoLoneWord /\ ~Lone(op.len) /\ BlockSize > 1
    BY <1>2, TypedRegisters DEF IInv, Registers, Steps, Transfers
  <2>2. r.count \in Nat /\ r.remainder \in Nat
    BY <2>1 DEF RegisterTypes
  <2>3. CASE r.step = 0
    BY <1>2, <2>1, <2>3 DEF ReadEdge, BlockEdge, NoLoneWord
  <2>4. CASE r.step = 1
    <3>1. r.remainder > 0 => Smaller(r.remainder, BlockSize) > 1 /\ ~Lone(r.remainder - Smaller(r.remainder, BlockSize))
      BY <1>2, <2>1, <2>2, <2>4, LoneLess DEF NoLoneWord
    <3> QED
      BY <1>2, <2>1, <2>2, <2>4, <3>1 DEF ReadEdge, BlockEdge, NoLoneWord, Kept
  <2>5. CASE r.step \in {2, 3}
    BY <1>2, <2>1, <2>5 DEF ReadEdge, BlockEdge, NoLoneWord, Same, Kept
  <2>6. CASE r.step = 4
    BY <1>2, <2>1, <2>6 DEF ReadEdge, NoLoneWord, Same, Kept
  <2>7. CASE r.step = 5 \/ (r.step = 6 /\ r.count > 0)
    <3>2. r'.remainder = r.remainder - 1 /\ r'.count = r.count - 1 /\ r'.step = 6
      BY <1>2, <2>7, Zenon DEF ReadEdge
    <3>1. r'.remainder - r'.count = r.remainder - r.count /\ r'.step = 6
      BY <2>2, <3>2
    <3> QED
      BY <1>2, <2>1, <2>7, <3>1 DEF NoLoneWord
  <2>8. CASE r.step = 6 /\ r.count = 0
    <3>2. r'.remainder = r.remainder /\ r'.step = 1
      BY <1>2, <2>8, Zenon DEF ReadEdge
    <3>1. r.remainder - r.count = r.remainder /\ r'.remainder = r.remainder /\ r'.step = 1
      BY <2>2, <2>8, <3>2
    <3> QED
      BY <1>2, <2>1, <2>8, <3>1 DEF NoLoneWord
  <2>9. CASE r.step = 15
    BY <1>2, <2>9 DEF ReadEdge, NoLoneWord
  <2>10. r.step = 6 => r.count = 0 \/ r.count > 0
    BY <2>2
  <2>11. \/ r.step = 0 \/ r.step = 1 \/ r.step \in {2, 3} \/ r.step = 4 \/ r.step = 5
         \/ (r.step = 6 /\ r.count > 0) \/ (r.step = 6 /\ r.count = 0) \/ r.step = 15
    BY <2>1, <2>10
  <2> QED
    BY <2>3, <2>4, <2>5, <2>6, <2>7, <2>8, <2>9, <2>11
<1> QED
  BY <1>1, <1>2, Calls

-----------------------------------------------------------------------------
(***************************************************************************)
(* The thread's side: the memories.                                        *)
(***************************************************************************)

\* The word written to the local memory is the one wanted there.
LEMMA WantedMoves ==
  ASSUME IInv, Transfers, NEW go, Clock(go)
  PROVE  Wanted'
<1>1. /\ Registers /\ Progress /\ Wanted /\ r \in RegisterTypes /\ wantMem' = wantMem /\ wantRam' = wantRam
      /\ op.local \in Nat /\ op.remote \in Nat /\ op.len \in Nat /\ op.local + op.len <= Words
      /\ ram \in [Cells -> Values]
  BY TypedRegisters, OpTypes DEF IInv, Clock, Typed
<1>2. /\ r.step \in Nat /\ r.count \in Nat /\ r.remainder \in Nat /\ r.addr \in Nat /\ r.remote_addr \in Nat
      /\ r.we \in BOOLEAN
  BY <1>1 DEF RegisterTypes
<1>3. ram' = IF r.we THEN [ram EXCEPT ![Cell(r.addr)] = r.data]
             ELSE IF op.op = "read_word" /\ r.step = 4 THEN [ram EXCEPT ![op.local] = S_Data(in).v] ELSE ram
  BY DEF Clock
<1>4. r.we <=> op.op = "read" /\ r.step = 6
  BY <1>1 DEF Registers
<1>5. op'.op \in {"write", "read", "write_word", "read_word"} =>
        \A i \in 0 .. op'.len - 1 : wantRam[op'.local + i] = wantMem[op'.remote + i]
  BY <1>1, Calls DEF Wanted, Idle
<1>6. ASSUME ram' = ram, Unread(op, r) \subseteq Unread(op', r') PROVE Wanted'
  BY <1>1, <1>5, <1>6 DEF Wanted
<1>7. CASE op.op \in {"write", "write_word"} \/ op = Idle
  BY <1>3, <1>4, <1>6, <1>7 DEF Unread, Idle
<1>8. CASE op.op = "read_word" /\ op \in Ops /\ ReadWordEdge /\ op' = IF r.step = 5 THEN Idle ELSE op
  <2>1. r.step \in 0 .. 5
    BY <1>1, <1>8 DEF Registers, Steps
  <2>2. CASE r.step < 4
    BY <1>3, <1>4, <1>6, <1>8, <2>1, <2>2 DEF Unread, ReadWordEdge
  <2>3. CASE r.step = 4
    <3>1. Unread(op, r) = {op.local} /\ op' = op
      BY <1>8, <2>3 DEF Unread
    <3>2. S_Data(in).v = wantMem[op.remote]
      BY <1>8, <2>3, HeadComes DEF Awaited, Coming, ComesFrom
    <3>3. op.len = 1 /\ op.local \in Cells
      BY <1>1, <1>8 DEF Transfers, Cells
    <3>4. wantRam[op.local] = wantMem[op.remote]
      <4>1. wantRam[op.local + 0] = wantMem[op.remote + 0]
        BY <1>1, <1>8, <3>3 DEF Wanted
      <4> QED
        BY <1>1, <4>1
    <3>5. ram' = [ram EXCEPT ![op.local] = S_Data(in).v]
      BY <1>3, <1>4, <1>8, <2>3
    <3>6. \A a \in Cells : ram'[a] = wantRam[a]
      BY <1>1, <3>1, <3>2, <3>3, <3>4, <3>5 DEF Wanted
    <3> QED
      BY <1>1, <1>5, <3>6 DEF Wanted
  <2>4. CASE r.step = 5
    BY <1>3, <1>4, <1>6, <1>8, <2>4 DEF Unread, Idle
  <2> QED
    BY <2>1, <2>2, <2>3, <2>4
<1>9. CASE op.op = "read" /\ op \in Ops /\ ReadEdge /\ op' = IF r.step = 15 THEN Idle ELSE op
  <2>1. r.step \in 0 .. 6 \/ r.step = 15
    BY <1>1, <1>9 DEF Registers, Steps
  <2>2. CASE r.step \in 0 .. 5
    <3>1. Gone(op, r') = Gone(op, r)
      <4>1. CASE r.step = 0
        BY <1>1, <1>9, <4>1 DEF ReadEdge, BlockEdge, Gone
      <4>2. CASE r.step \in 1 .. 4
        BY <1>1, <1>2, <1>9, <4>2 DEF ReadEdge, BlockEdge, Gone, Same, Kept
      <4>3. CASE r.step = 5
        <5>1. r'.remainder = r.remainder - 1 /\ r'.step = 6
          BY <1>9, <4>3 DEF ReadEdge
        <5> QED
          BY <1>1, <1>2, <1>9, <4>3, <5>1 DEF Gone
      <4> QED
        BY <2>2, <4>1, <4>2, <4>3
    <3> QED
      BY <1>3, <1>4, <1>6, <1>9, <2>2, <3>1 DEF Unread
  <2>3. CASE r.step = 6
    <3>1. /\ r.addr = op.local + Gone(op, r) /\ r.remote_addr = op.remote + Gone(op, r)
          /\ Gone(op, r) \in 0 .. op.len - 1 /\ r.data = wantMem[r.remote_addr]
      BY <1>1, <1>2, <1>9, <2>3 DEF Progress, Gone
    <3>2. r.addr \in Cells /\ Cell(r.addr) = r.addr
      <4>1. r.addr \in Cells
        BY <1>1, <1>2, <3>1 DEF Cells
      <4> QED
        BY <1>2, <4>1, CellRange
    <3>3. ram' = [ram EXCEPT ![r.addr] = r.data]
      BY <1>3, <1>4, <1>9, <2>3, <3>2
    <3>4. r.data = wantRam[r.addr]
      BY <1>1, <1>9, <3>1 DEF Wanted
    <3>5. Gone(op, r') = Gone(op, r) + 1
      <4>1. CASE r.count = 0
        <5>1. r'.remainder = r.remainder /\ r'.step = 1
          BY <1>9, <2>3, <4>1, Zenon DEF ReadEdge
        <5> QED
          BY <1>1, <1>2, <1>9, <2>3, <5>1 DEF Gone
      <4>2. CASE r.count > 0
        <5>1. r'.remainder = r.remainder - 1 /\ r'.step = 6
          BY <1>9, <2>3, <4>2, Zenon DEF ReadEdge
        <5> QED
          BY <1>1, <1>2, <1>9, <2>3, <5>1 DEF Gone
      <4> QED
        BY <1>2, <4>1, <4>2
    <3>6. op' = op /\ \A a \in Cells : a \in Unread(op, r) => a \in Unread(op, r') \/ a = r.addr
      <4>1. op' = op
        BY <1>9, <2>3
      <4>2. /\ Unread(op, r) = op.local + Gone(op, r) .. op.local + op.len - 1
            /\ Unread(op, r') = op.local + (Gone(op, r) + 1) .. op.local + op.len - 1
        BY <1>9, <3>5 DEF Unread
      <4>3. ASSUME NEW a \in Cells, a \in Unread(op, r), a # r.addr PROVE a \in Unread(op, r')
        <5>1. a \in Nat /\ r.addr \in Nat /\ Gone(op, r) \in Nat
          BY <1>2, <3>1, <1>1, <4>3 DEF Cells
        <5>2. a >= op.local + (Gone(op, r) + 1) /\ a <= op.local + op.len - 1
          BY SMTT(30), <1>1, <3>1, <4>2, <4>3, <5>1
        <5> QED
          BY <1>1, <4>2, <5>1, <5>2
      <4> QED
        BY <4>1, <4>3
    <3>7. \A a \in Cells \ Unread(op, r') : ram'[a] = wantRam[a]
      BY <1>1, <3>2, <3>3, <3>4, <3>6 DEF Wanted
    <3> QED
      BY <1>1, <1>5, <3>6, <3>7 DEF Wanted
  <2>4. CASE r.step = 15
    <3>1. Gone(op, r) = op.len
      BY <1>1, <1>2, <1>9, <2>4 DEF Progress, Gone
    <3>2. Unread(op, r) = {}
      BY <1>1, <1>9, <3>1 DEF Unread
    <3> QED
      BY <1>3, <1>4, <1>6, <1>9, <2>4, <3>2
  <2> QED
    BY <2>1, <2>2, <2>3, <2>4
<1> QED
  BY <1>7, <1>8, <1>9, Calls

\* The server's request stays one it can carry out.
LEMMA ServerMoves ==
  ASSUME IInv, NEW go \in BOOLEAN, Clock(go)
  PROVE  Server'
<1>1. /\ srv \in [at : {"header", "address", "wait", "data"}, req : FifoWords, addr : Nat]
      /\ srv.req.n \in Nat /\ Server
  BY DEF IInv, Typed, FifoWords
<1>2. /\ Fill(out) \in Nat /\ Fill(out') \in Nat /\ Remainder(in) \in Nat /\ Remainder(in') \in Nat
      /\ Fill(out') >= Fill(out) - One(Takes(go)) /\ Remainder(in') >= Remainder(in) - One(Gives(go))
  <2>1. out \in Fifos /\ in \in Fifos /\ out' \in Fifos /\ in' \in Fifos
        /\ Fill(out') = Fill(out) + One(r.m_wr) - One(Takes(go)) /\ Fill(in') = Fill(in) + One(Gives(go)) - One(r.s_rd)
    BY OutEdge, InEdge DEF IInv, Typed
  <2>2. \A b : One(b) \in {0, 1}
    BY DEF One
  <2>3. /\ Fill(out) \in Nat /\ Fill(out') \in Nat /\ Fill(in) \in 0 .. Depth - 1 /\ Fill(in') \in 0 .. Depth - 1
        /\ Remainder(in) = Depth - 1 - Fill(in) /\ Remainder(in') = Depth - 1 - Fill(in')
    BY <2>1, FillRange
  <2>4. One(r.m_wr) \in {0, 1} /\ One(r.s_rd) \in {0, 1} /\ One(Takes(go)) \in {0, 1} /\ One(Gives(go)) \in {0, 1}
    BY <2>2
  <2> QED
    BY <2>1, <2>3, <2>4
<1>3. CASE srv' = srv /\ ~Takes(go) /\ ~Gives(go)
  BY <1>1, <1>2, <1>3 DEF Server, One
<1>4. CASE go /\ srv.at = "header" /\ Fill(out) > 1
  <2>1. srv'.at = "address" /\ srv'.req = S_Data(out)
    <3>1. ~(Fill(out) <= 1)
      BY <1>2, <1>4
    <3>2. srv' = [srv EXCEPT !.at = "address", !.req = S_Data(out)]
      BY <1>4, <3>1 DEF Clock, ServerStep
    <3> QED
      BY <1>1, <3>2
  <2>2. S_Data(out).is \in {"write", "read"} /\ S_Data(out).n > 0
    BY <1>2, <1>4, HeadFits DEF Fits, ServerAt, Rest
  <2>3. Fill(out') > 0
    <3> DEFINE t == One(Takes(go))
    <3>1. t \in {0, 1}
      BY DEF One
    <3>2. Fill(out') >= Fill(out) - t
      BY <1>2
    <3> HIDE DEF t
    <3> QED
      BY <1>2, <1>4, <3>1, <3>2
  <2> QED
    BY <2>1, <2>2, <2>3 DEF Server
<1>5. CASE go /\ srv.at = "address"
  <2>1. srv'.at = "wait" /\ srv'.req = srv.req /\ srv'.addr = S_Data(out).n
    BY <1>1, <1>5 DEF Clock, ServerStep
  <2>2. S_Data(out).n + srv.req.n <= Words
    BY <1>1, <1>5, HeadFits DEF Fits, ServerAt, Address, Server
  <2> QED
    BY <1>1, <1>5, <2>1, <2>2 DEF Server
<1>6. CASE go /\ srv.at = "wait"
  <2>1. srv' = [srv EXCEPT !.at = IF Enough THEN "data" ELSE @] /\ ~Takes(go) /\ ~Gives(go)
    BY <1>6 DEF Clock, ServerStep, Takes, ServerTakes, Gives, ServerGives
  <2>2. srv'.at = (IF Enough THEN "data" ELSE "wait") /\ srv'.req = srv.req /\ srv'.addr = srv.addr
    BY <1>1, <1>6, <2>1
  <2>3. Fill(out') >= Fill(out) /\ Remainder(in') >= Remainder(in)
    BY <1>2, <2>1 DEF One
  <2> QED
    BY <1>1, <1>2, <1>6, <2>2, <2>3 DEF Server, Enough
<1>7. CASE go /\ srv.at = "data"
  <2>1. /\ srv'.at = IF srv.req.n <= 1 THEN "header" ELSE "data"
        /\ srv'.req.n = srv.req.n - 1 /\ srv'.req.is = srv.req.is /\ srv'.addr = srv.addr + 1
    BY <1>1, <1>7, ServedWord DEF Clock
  <2>2. /\ srv.req.is = "write" => Fill(out') >= srv.req.n - 1
        /\ srv.req.is = "read" => Remainder(in') >= srv.req.n - 1
    <3>1. One(Takes(go)) \in {0, 1} /\ One(Gives(go)) \in {0, 1}
      BY DEF One
    <3>2. IF srv.req.is = "write" THEN Fill(out) >= srv.req.n ELSE Remainder(in) >= srv.req.n
      BY <1>1, <1>7 DEF Server
    <3> QED
      BY <1>1, <1>2, <3>1, <3>2
  <2> QED
    BY <1>1, <1>2, <1>7, <2>1, <2>2 DEF Server
<1>8. CASE ~go \/ (srv.at = "header" /\ ~(Fill(out) > 1))
  BY <1>3, <1>8 DEF Clock, ServerStep, Takes, ServerTakes, Gives, ServerGives
<1> QED
  BY <1>1, <1>4, <1>5, <1>6, <1>7, <1>8

-----------------------------------------------------------------------------
(***************************************************************************)
(* The thread's side: what is expected behind its words.                   *)
(***************************************************************************)
Expected(b) == Parsed(Content(out'), ServerAt(srv', mem'), b)

\* A thread that sends nothing leaves the end of the stream where it is.
LEMMA SendsNone ==
  ASSUME NEW b, Expected(b), ~r'.m_wr
  PROVE  Parsed(Stream(Content(out'), r'), ServerAt(srv', mem'), b)
BY DEF Expected, Stream

\* A word it sends moves it on.
LEMMA SendsWord ==
  ASSUME IInv, NEW go \in BOOLEAN, Clock(go), NEW b, Expected(b),
         NEW w \in FifoWords, r'.m_wr, r'.m_data = w, Fits(b, w)
  PROVE  Parsed(Stream(Content(out'), r'), ServerAt(srv', mem'), After(b, w))
<1>1. Content(out') \in Seq(FifoWords)
  BY OutEdge, ContentPlaces
<1> QED
  BY <1>1, ParsedLast DEF Expected, Stream

LEMMA WordTyped ==
  ASSUME NEW is \in {"none", "write", "read", "address", "data"}, NEW n \in Nat, NEW v \in Values
  PROVE  Word(is, n, v) \in FifoWords /\ Word(is, n, v).is = is /\ Word(is, n, v).n = n /\ Word(is, n, v).v = v
BY DEF Word, FifoWords

LEMMA NoValueTyped == NoValue \in Values
BY DEF NoValue, Values

\* No word comes to a thread that writes.
LEMMA NothingCame ==
  ASSUME IInv, NEW go \in BOOLEAN, Clock(go), NEW k, k = 0, Come(k), Coming(op, r) = 0, Coming(op', r') = 0
  PROVE  Given(0)'
<1>1. Fill(in') \in Nat /\ One(r.s_rd) \in {0, 1}
  BY InEdge, FillRange DEF One
<1>2. Fill(in') = 0
  BY <1>1 DEF Come
<1> QED
  BY <1>2 DEF Given

\* memif_write: the words it sends belong to the block it announced.
LEMMA WriteTogether ==
  ASSUME IInv, Transfers, NEW go \in BOOLEAN, Clock(go), op.op = "write", WriteEdge,
         op' = IF r.step = 15 THEN Idle ELSE op,
         NEW m \in [Cells -> Values], Expected(ThreadAt(op, r, m, 0)),
         \A a \in Cells \ Unsent(op, r) : m[a] = wantMem[a], Come(0)
  PROVE  Together'
<1>1. /\ Registers /\ Progress /\ Wanted /\ r \in RegisterTypes /\ wantMem' = wantMem
      /\ op.local \in Nat /\ op.remote \in Nat /\ op.len \in Nat /\ op.local + op.len <= Words
      /\ op.remote + op.len <= Words /\ ramData \in Values
  BY TypedRegisters, OpTypes DEF IInv, Clock, Typed
<1>2. r.step \in {0, 1, 2, 3, 4, 5,
     15} /\ r.count \in Nat /\ r.remainder \in Nat /\ r.addr \in Nat /\ r.remote_addr \in Nat
  BY <1>1 DEF Registers, Steps, RegisterTypes
<1>3. Given(0)' /\ Awaited(op', r') = 0
  BY NothingCame DEF Coming, Awaited, Idle
<1>4. ASSUME NEW n \in [Cells -> Values], \A a \in Cells \ Unsent(op', r') : n[a] = wantMem[a],
             Parsed(Stream(Content(out'), r'), ServerAt(srv', mem'), ThreadAt(op', r', n, 0))
      PROVE  Together'
  BY <1>1, <1>3, <1>4 DEF Together
<1>5. CASE r.step \in {0, 1, 15} \/ (r.step = 5 /\ r.count = 0)
  <2>1. ~r'.m_wr /\ r'.step \in {0, 1, 2, 15}
    BY <1>5 DEF WriteEdge, BlockEdge, Quiet
  <2>2. ThreadAt(op, r, m, 0) = Rest(m) /\ ThreadAt(op', r', m, 0) = Rest(m)
    BY <1>1, <1>2, <1>5, <2>1 DEF ThreadAt, Taking, Idle
  <2>3. Unsent(op, r) \subseteq Unsent(op', r')
    <3>1. CASE r.step = 15
      BY <1>1, <1>2, <3>1 DEF Unsent, Progress, Gone
    <3>2. CASE r.step = 0
      BY <1>1, <3>2 DEF Unsent, Gone, WriteEdge, BlockEdge
    <3>3. CASE r.step = 1
      BY <1>1, <3>3 DEF Unsent, Gone, WriteEdge, BlockEdge, Kept
    <3>4. CASE r.step = 5 /\ r.count = 0
      BY <1>1, <3>4 DEF Unsent, Gone, WriteEdge, Same, Kept
    <3> QED
      BY <1>5, <3>1, <3>2, <3>3, <3>4
  <2> QED
    BY <1>4, <2>1, <2>2, <2>3, SendsNone
<1>6. CASE r.step = 2
  <2>1. Sends(r', Word("write", r.count, NoValue)) /\ Same(r, r') /\ r'.step = 3 /\ r.count > 0
    BY <1>1, <1>6 DEF WriteEdge, BlockEdge, Progress
  <2>2. ThreadAt(op, r, m, 0) = Rest(m) /\ ThreadAt(op', r', m, 0) = Address("write", r.count, m)
    BY <1>6, <2>1 DEF ThreadAt, Same
  <2>3. Fits(Rest(m), Word("write", r.count, NoValue))
        /\ After(Rest(m), Word("write", r.count, NoValue)) = Address("write", r.count, m)
    BY <1>2, <2>1, WordTyped, NoValueTyped DEF Fits, After, Rest
  <2>4. Unsent(op', r') = Unsent(op, r)
    BY <1>6, <2>1 DEF Unsent, Gone, Same, Kept
  <2>5. Word("write", r.count, NoValue) \in FifoWords /\ r'.m_wr /\ r'.m_data = Word("write", r.count, NoValue)
    BY <1>2, <2>1, WordTyped, NoValueTyped DEF Sends
  <2>6. Parsed(Stream(Content(out'), r'), ServerAt(srv', mem'), After(Rest(m), Word("write", r.count, NoValue)))
    BY <2>2, <2>3, <2>5, SendsWord
  <2> QED
    BY <1>4, <2>2, <2>3, <2>4, <2>6
<1>7. CASE r.step = 3
  <2>1. Sends(r', Word("address", r.remote_addr, NoValue)) /\ Same(r,
       r') /\ r'.step = 4 /\ r.remote_addr + r.count <= Words
    BY <1>1, <1>2, <1>7 DEF WriteEdge, BlockEdge, Progress, Gone
  <2>2. ThreadAt(op, r, m, 0) = Address("write", r.count, m) /\ ThreadAt(op', r', m, 0) = Taking(r.count,
       r.remote_addr, m)
    BY <1>7, <2>1 DEF ThreadAt, Same, Kept
  <2>3. Fits(Address("write", r.count, m), Word("address", r.remote_addr, NoValue))
        /\ After(Address("write", r.count, m), Word("address", r.remote_addr, NoValue)) = Taking(r.count,
             r.remote_addr, m)
    BY <1>2, <2>1, WordTyped, NoValueTyped DEF Fits, After, Address
  <2>4. Unsent(op', r') = Unsent(op, r)
    BY <1>7, <2>1 DEF Unsent, Gone, Same, Kept
  <2>5. Word("address", r.remote_addr, NoValue) \in FifoWords /\ r'.m_wr /\ r'.m_data = Word("address", r.remote_addr,
       NoValue)
    BY <1>2, <2>1, WordTyped, NoValueTyped DEF Sends
  <2>6. Parsed(Stream(Content(out'), r'), ServerAt(srv', mem'), After(Address("write", r.count, m), Word("address",
       r.remote_addr, NoValue)))
    BY <2>2, <2>3, <2>5, SendsWord
  <2> QED
    BY <1>4, <2>2, <2>3, <2>4, <2>6
<1>8. CASE r.step = 4
  <2>1. /\ ~r'.m_wr /\ r'.remainder = r.remainder /\ r'.count = r.count
        /\ \/ r'.step = 4 /\ r'.remote_addr = r.remote_addr
           \/ r'.step = 5 /\ r'.remote_addr = r.remote_addr + 1
    BY <1>8 DEF WriteEdge, Quiet, Kept
  <2>2. ThreadAt(op', r', m, 0) = ThreadAt(op, r, m, 0)
    <3>1. (r.remote_addr + 1) - 1 = r.remote_addr
      BY <1>2
    <3> QED
      BY <1>8, <2>1, <3>1 DEF ThreadAt
  <2>3. Unsent(op', r') = Unsent(op, r)
    BY <1>8, <2>1 DEF Unsent, Gone
  <2> QED
    BY <1>4, <2>1, <2>2, <2>3, SendsNone
<1>9. CASE r.step = 5 /\ r.count > 0
  <2> DEFINE x == op.remote + Gone(op, r)
             n == [m EXCEPT ![x] = ramData]
             w == Word("data", 0, ramData)
  <2>1. /\ Sends(r', w) /\ r'.step = 5 /\ r'.remainder = r.remainder - 1 /\ r'.count = r.count - 1
        /\ r'.remote_addr = IF r.count > 1 THEN r.remote_addr + 1 ELSE r.remote_addr
        /\ op' = op
    BY <1>9 DEF WriteEdge
  <2>2. /\ Gone(op, r) \in 0 .. op.len - 1 /\ r.remote_addr = x + 1 /\ x \in Cells
        /\ Gone(op, r') = Gone(op, r) + 1 /\ ramData = wantRam[op.local + Gone(op, r)]
    <3>1. /\ r.remainder <= op.len /\ r.count <= r.remainder /\ r.remote_addr = op.remote + Gone(op, r) + 1
          /\ ramData = wantRam[op.local + Gone(op, r)]
      BY <1>1, <1>2, <1>9 DEF Progress
    <3>2. Gone(op, r) = op.len - r.remainder /\ Gone(op, r') = op.len - (r.remainder - 1)
      BY <1>9, <2>1 DEF Gone
    <3>3. Gone(op, r) \in 0 .. op.len - 1 /\ Gone(op, r') = Gone(op, r) + 1
      BY <1>1, <1>2, <1>9, <3>1, <3>2
    <3>4. x \in Cells
      BY <1>1, <3>3 DEF Cells
    <3> QED
      BY <3>1, <3>3, <3>4
  <2>3. ramData = wantMem[x]
    BY <1>1, <2>2 DEF Wanted
  <2>4. ThreadAt(op, r, m, 0) = Taking(r.count, x, m)
    <3>1. r.remote_addr - 1 = x
      BY <2>2 DEF Cells
    <3> QED
      BY <1>9, <3>1 DEF ThreadAt
  <2>5. ThreadAt(op', r', n, 0) = Taking(r.count - 1, x + 1, n)
    <3>1. r.count > 1 => r'.remote_addr - 1 = x + 1
      BY <1>2, <2>1, <2>2 DEF Cells
    <3>2. ~(r.count > 1) => r.count - 1 = 0
      BY <1>2, <1>9
    <3> QED
      BY <1>9, <2>1, <3>1, <3>2 DEF ThreadAt, Taking
  <2>6. Fits(Taking(r.count, x, m), w) /\ After(Taking(r.count, x, m), w) = Taking(r.count - 1, x + 1, n)
    <3>1. Taking(r.count, x, m) = [at |-> "data", is |-> "write", n |-> r.count, addr |-> x, mem |-> m]
      BY <1>2, <1>9 DEF Taking
    <3>2. w.is = "data" /\ w.v = ramData
      BY <1>1, WordTyped
    <3> DEFINE p == Taking(r.count, x, m)
    <3>3. p.at = "data" /\ p.n = r.count /\ p.addr = x /\ p.mem = m
      BY <3>1
    <3> HIDE DEF p
    <3>4. After(p, w) = Taking(p.n - 1, p.addr + 1, [p.mem EXCEPT ![p.addr] = w.v])
      BY <3>3 DEF After
    <3>5. [p.mem EXCEPT ![p.addr] = w.v] = n
      BY <3>2, <3>3
    <3>6. Fits(p, w)
      BY <3>2, <3>3 DEF Fits
    <3> HIDE DEF n, w, x
    <3> QED
      BY <3>3, <3>4, <3>5, <3>6 DEF p
  <2>7. n \in [Cells -> Values]
    BY <1>1
  <2>8. \A a \in Cells \ Unsent(op', r') : n[a] = wantMem[a]
    <3>1. Unsent(op, r) = x .. op.remote + op.len - 1 /\ Unsent(op', r') = op.remote + (Gone(op,
         r) + 1) .. op.remote + op.len - 1
      BY <2>1, <2>2 DEF Unsent
    <3>2. ASSUME NEW a \in Cells, a \notin Unsent(op', r'), a # x PROVE a \notin Unsent(op, r)
      <4>1. a \in Nat /\ x \in Nat /\ Gone(op, r) \in Nat
        BY <2>2 DEF Cells
      <4>2. a \notin x + 1 .. op.remote + op.len - 1
        <5>1. op.remote + (Gone(op, r) + 1) = x + 1
          BY <1>1, <4>1
        <5> QED
          BY <3>1, <3>2, <5>1
      <4> HIDE DEF x
      <4> QED
        BY <1>1, <3>1, <3>2, <4>1, <4>2
    <3> QED
      BY <2>2, <2>3, <3>2
  <2>9. w \in FifoWords /\ r'.m_wr /\ r'.m_data = w
    BY <1>1, <2>1, WordTyped DEF Sends
  <2> HIDE DEF n, w, x
  <2> QED
    BY <1>4, <2>4, <2>5, <2>6, <2>7, <2>8, <2>9, SendsWord
<1>10. r.step = 5 => r.count = 0 \/ r.count > 0
  BY <1>2
<1> QED
  BY <1>2, <1>5, <1>6, <1>7, <1>8, <1>9, <1>10

\* memif_write_word.
LEMMA WriteWordTogether ==
  ASSUME IInv, Transfers, NEW go \in BOOLEAN, Clock(go), op.op = "write_word", op \in Ops, WriteWordEdge,
         op' = IF r.step = 4 THEN Idle ELSE op,
         NEW m \in [Cells -> Values], Expected(ThreadAt(op, r, m, 0)),
         \A a \in Cells \ Unsent(op, r) : m[a] = wantMem[a], Come(0)
  PROVE  Together'
<1>1. /\ Registers /\ Wanted /\ wantMem' = wantMem /\ r.step \in 0 .. 4 /\ ram \in [Cells -> Values]
      /\ op.local \in Nat /\ op.remote \in Nat /\ op.len = 1 /\ op.local + op.len <= Words /\ op.remote + op.len <= Words
  BY OpTypes DEF IInv, Clock, Typed, Transfers, Registers, Steps
<1>2. Given(0)' /\ Awaited(op', r') = 0
  BY NothingCame DEF Coming, Awaited, Idle
<1>3. ASSUME NEW n \in [Cells -> Values], \A a \in Cells \ Unsent(op', r') : n[a] = wantMem[a],
             Parsed(Stream(Content(out'), r'), ServerAt(srv', mem'), ThreadAt(op', r', n, 0))
      PROVE  Together'
  BY <1>1, <1>2, <1>3 DEF Together
<1>4. CASE r.step \in {0, 4}
  <2>1. ~r'.m_wr /\ (r.step = 0 => r'.step \in {0, 1} /\ op' = op) /\ (r.step = 4 => op' = Idle)
    BY <1>4 DEF WriteWordEdge, Quiet
  <2>2. ThreadAt(op, r, m, 0) = Rest(m) /\ ThreadAt(op', r', m, 0) = Rest(m)
    BY <1>4, <2>1 DEF ThreadAt, Idle
  <2>3. Unsent(op, r) \subseteq Unsent(op', r')
    BY <1>4, <2>1 DEF Unsent, Idle
  <2> QED
    BY <1>3, <2>1, <2>2, <2>3, SendsNone
<1>5. CASE r.step = 1
  <2> DEFINE w == Word("write", 1, NoValue)
  <2>1. w \in FifoWords /\ r'.m_wr /\ r'.m_data = w /\ r'.step = 2
    BY <1>5, WordTyped, NoValueTyped DEF WriteWordEdge, Sends
  <2>2. ThreadAt(op, r, m, 0) = Rest(m) /\ ThreadAt(op', r', m, 0) = Address("write", 1, m)
    BY <1>5, <2>1 DEF ThreadAt
  <2>3. Fits(Rest(m), w) /\ After(Rest(m), w) = Address("write", 1, m)
    BY WordTyped, NoValueTyped DEF Fits, After, Rest
  <2>4. Unsent(op', r') = Unsent(op, r)
    BY <1>5, <2>1 DEF Unsent
  <2> HIDE DEF w
  <2>5. Parsed(Stream(Content(out'), r'), ServerAt(srv', mem'), After(Rest(m), w))
    BY <2>1, <2>2, <2>3, SendsWord
  <2> QED
    BY <1>3, <2>2, <2>3, <2>4, <2>5
<1>6. CASE r.step = 2
  <2> DEFINE w == Word("address", op.remote, NoValue)
  <2>1. w \in FifoWords /\ r'.m_wr /\ r'.m_data = w /\ r'.step = 3
    BY <1>1, <1>6, WordTyped, NoValueTyped DEF WriteWordEdge, Sends
  <2>2. ThreadAt(op, r, m, 0) = Address("write", 1, m) /\ ThreadAt(op', r', m, 0) = Taking(1, op.remote, m)
    BY <1>6, <2>1 DEF ThreadAt
  <2>3. Fits(Address("write", 1, m), w) /\ After(Address("write", 1, m), w) = Taking(1, op.remote, m)
    BY <1>1, WordTyped, NoValueTyped DEF Fits, After, Address
  <2>4. Unsent(op', r') = Unsent(op, r)
    BY <1>6, <2>1 DEF Unsent
  <2> HIDE DEF w
  <2>5. Parsed(Stream(Content(out'), r'), ServerAt(srv', mem'), After(Address("write", 1, m), w))
    BY <2>1, <2>2, <2>3, SendsWord
  <2> QED
    BY <1>3, <2>2, <2>3, <2>4, <2>5
<1>7. CASE r.step = 3
  <2> DEFINE v == ram[op.local]
             w == Word("data", 0, v)
             p == Taking(1, op.remote, m)
             n == [m EXCEPT ![op.remote] = v]
  <2>1. op.local \in Cells /\ op.remote \in Cells /\ v \in Values
    BY <1>1 DEF Cells
  <2>2. v = wantMem[op.remote]
    <3>1. wantRam[op.local + 0] = wantMem[op.remote + 0]
      BY <1>1 DEF Wanted
    <3>2. ram[op.local] = wantRam[op.local]
      BY <1>1, <2>1 DEF Wanted, Unread
    <3> QED
      BY <1>1, <3>1, <3>2
  <2>3. w \in FifoWords /\ w.is = "data" /\ w.v = v /\ r'.m_wr /\ r'.m_data = w /\ r'.step = 4
    BY <1>7, <2>1, WordTyped DEF WriteWordEdge, Sends
  <2>4. ThreadAt(op, r, m, 0) = p /\ ThreadAt(op', r', n, 0) = Rest(n)
    BY <1>7, <2>3 DEF ThreadAt
  <2>5. p.at = "data" /\ p.n = 1 /\ p.addr = op.remote /\ p.mem = m
    BY DEF Taking
  <2>6. n \in [Cells -> Values] /\ \A a \in Cells \ Unsent(op', r') : n[a] = wantMem[a]
    BY <1>1, <1>7, <2>1, <2>2 DEF Unsent
  <2> HIDE DEF w, p, v
  <2>7. Fits(p, w) /\ After(p, w) = Rest(n)
    <3>1. After(p, w) = Taking(p.n - 1, p.addr + 1, [p.mem EXCEPT ![p.addr] = w.v])
      BY <2>5 DEF After
    <3>2. [p.mem EXCEPT ![p.addr] = w.v] = n /\ p.n - 1 = 0
      BY <2>3, <2>5
    <3> QED
      BY <2>3, <2>5, <3>1, <3>2 DEF Fits, Taking
  <2> HIDE DEF n
  <2>8. Parsed(Stream(Content(out'), r'), ServerAt(srv', mem'), After(p, w))
    BY <2>3, <2>4, <2>7, SendsWord
  <2> QED
    BY <1>3, <2>4, <2>6, <2>7, <2>8
<1> QED
  BY <1>1, <1>4, <1>5, <1>6, <1>7

\* memif_read_word.
LEMMA ReadWordTogether ==
  ASSUME IInv, Transfers, NEW go \in BOOLEAN, Clock(go), op.op = "read_word", op \in Ops, ReadWordEdge,
         op' = IF r.step = 5 THEN Idle ELSE op,
         NEW m \in [Cells -> Values], NEW k \in 0 .. Awaited(op, r), Expected(ThreadAt(op, r, m, k)),
         \A a \in Cells \ Unsent(op, r) : m[a] = wantMem[a], Come(k), Fill(in) + k <= Coming(op, r)
  PROVE  Together'
<1>1. /\ Registers /\ wantMem' = wantMem /\ r.step \in 0 .. 5 /\ r.s_rd \in BOOLEAN /\ (r.s_rd <=> r.step = 5)
      /\ op.remote \in Nat /\ op.len = 1 /\ op.remote + op.len <= Words
  BY OpTypes DEF IInv, Clock, Typed, Transfers, Registers, Steps
<1>2. Fill(in) \in Nat /\ Fill(in') \in Nat
  BY SMTT(30), InEdge, FillRange DEF IInv, Typed
<1>3. Fill(in') + One(r.s_rd) + k = Coming(op, r)
  BY DEF Come
<1>4. \A a \in Cells \ Unsent(op', r') : m[a] = wantMem[a]
  BY DEF Unsent, Idle
<1>5. ASSUME NEW i \in 0 .. Awaited(op', r'), Given(i)',
             Parsed(Stream(Content(out'), r'), ServerAt(srv', mem'), ThreadAt(op', r', m, i))
      PROVE  Together'
  BY <1>1, <1>4, <1>5 DEF Together
<1>6. CASE r.step = 0
  <2>1. ~r'.m_wr /\ r'.step \in {0, 1} /\ op' = op
    BY <1>6 DEF ReadWordEdge, Quiet
  <2>2. k = 0 /\ ThreadAt(op, r, m, k) = Rest(m) /\ ThreadAt(op', r', m, 0) = Rest(m) /\ Awaited(op', r') = 0
    BY <1>6, <2>1 DEF ThreadAt, Awaited
  <2>3. Given(0)'
    BY <1>6, <2>1, <2>2, NothingCame DEF Coming
  <2> QED
    BY <1>5, <2>1, <2>2, <2>3, SendsNone
<1>7. CASE r.step = 1
  <2> DEFINE w == Word("read", 1, NoValue)
  <2>1. w \in FifoWords /\ r'.m_wr /\ r'.m_data = w /\ r'.step = 2 /\ op' = op
    BY <1>7, WordTyped, NoValueTyped DEF ReadWordEdge, Sends
  <2>2. k = 0 /\ ThreadAt(op, r, m, k) = Rest(m) /\ ThreadAt(op', r', m, 0) = Address("read", 1, m) /\ Awaited(op',
       r') = 0
    BY <1>7, <2>1 DEF ThreadAt, Awaited
  <2>3. Fits(Rest(m), w) /\ After(Rest(m), w) = Address("read", 1, m)
    BY WordTyped, NoValueTyped DEF Fits, After, Rest
  <2>4. Given(0)'
    BY <1>7, <2>1, <2>2, NothingCame DEF Coming
  <2> HIDE DEF w
  <2>5. Parsed(Stream(Content(out'), r'), ServerAt(srv', mem'), After(Rest(m), w))
    BY <2>1, <2>2, <2>3, SendsWord
  <2> QED
    BY <1>5, <2>2, <2>3, <2>4, <2>5
<1>8. CASE r.step = 2
  <2> DEFINE w == Word("address", op.remote, NoValue)
  <2>1. w \in FifoWords /\ r'.m_wr /\ r'.m_data = w /\ r'.step = 3 /\ op' = op
    BY <1>1, <1>8, WordTyped, NoValueTyped DEF ReadWordEdge, Sends
  <2>2. k = 0 /\ ThreadAt(op, r, m, k) = Address("read", 1, m) /\ ThreadAt(op', r', m, 1) = Owing(1, op.remote, m)
        /\ Awaited(op', r') = 1 /\ Coming(op, r) = 0 /\ Coming(op', r') = 1
    <3>1. op.remote + (1 - 1) = op.remote
      BY <1>1
    <3> QED
      BY <1>8, <2>1, <3>1 DEF ThreadAt, Awaited, Coming
  <2>3. Fits(Address("read", 1, m), w) /\ After(Address("read", 1, m), w) = Owing(1, op.remote, m)
    BY <1>1, WordTyped, NoValueTyped DEF Fits, After, Address
  <2>4. Given(1)'
    <3>1. Fill(in') = 0
      <4>1. One(r.s_rd) = 0
        BY <1>1, <1>8 DEF One
      <4> QED
        BY <1>2, <1>3, <2>2, <4>1
    <3> QED
      BY <2>2, <3>1 DEF Given
  <2> HIDE DEF w
  <2>5. Parsed(Stream(Content(out'), r'), ServerAt(srv', mem'), After(Address("read", 1, m), w))
    BY <2>1, <2>2, <2>3, SendsWord
  <2> QED
    BY <1>5, <2>2, <2>3, <2>4, <2>5
<1>9. CASE r.step \in {3, 4}
  <2>1. /\ ~r'.m_wr /\ op' = op /\ ~r.s_rd
        /\ r'.step \in {3, 4, 5} /\ (r'.step = 3 => r.step = 3)
        /\ r.step = 3 /\ r'.step # 3 => Fill(in) > 0
    BY <1>1, <1>9 DEF ReadWordEdge, Quiet
  <2>2. r'.step # 3 => k = 0
    BY <1>2, <1>9, <2>1 DEF Coming, Awaited
  <2>3. ThreadAt(op', r', m, k) = ThreadAt(op, r, m, k)
    BY <1>9, <2>1, <2>2 DEF ThreadAt, Owing
  <2>4. k \in 0 .. Awaited(op', r')
    BY <1>9, <2>1, <2>2 DEF Awaited
  <2>5. Given(k)'
    <3>1. One(r.s_rd) = 0 /\ Coming(op', r') = Coming(op, r) /\ ComesFrom(op', r') = op.remote /\ ComesFrom(op,
         r) = op.remote
      BY <1>9, <2>1 DEF One, Coming, ComesFrom
    <3>2. Fill(in') + k = Coming(op', r')
      BY <1>2, <1>3, <3>1
    <3>3. \A i \in 1 .. Fill(in') : op.remote + 0 + i - 1 = op.remote + i - 1
      BY <1>1, <1>2
    <3> QED
      BY <1>1, <3>1, <3>2, <3>3 DEF Given, Come
  <2> QED
    BY <1>5, <2>1, <2>3, <2>4, <2>5, SendsNone
<1>10. CASE r.step = 5
  <2>1. ~r'.m_wr /\ op' = Idle /\ One(r.s_rd) = 1 /\ r'.step = 0
    BY <1>1, <1>10 DEF ReadWordEdge, Quiet, One
  <2>2. k = 0 /\ ThreadAt(op, r, m, k) = Rest(m) /\ ThreadAt(op', r', m, 0) = Rest(m) /\ Awaited(op', r') = 0
        /\ Coming(op, r) = 1 /\ Coming(op', r') = 0
    BY <1>10, <2>1 DEF ThreadAt, Awaited, Idle, Coming
  <2>3. Given(0)'
    <3>1. Fill(in') = 0
      <4> DEFINE f == Fill(in')
      <4>1. f + 1 + 0 = 1 /\ f \in Nat
        BY <1>2, <1>3, <2>1, <2>2
      <4> HIDE DEF f
      <4>2. f = 0
        BY <4>1
      <4> QED
        BY <4>2 DEF f
    <3> QED
      BY <2>2, <3>1 DEF Given
  <2> QED
    BY <1>5, <2>1, <2>2, <2>3, SendsNone
<1> QED
  BY <1>1, <1>6, <1>7, <1>8, <1>9, <1>10

\* memif_read: a request, and then the words that are owed.
LEMMA ReadTogether ==
  ASSUME IInv, Transfers, NEW go \in BOOLEAN, Clock(go), op.op = "read", ReadEdge,
         op' = IF r.step = 15 THEN Idle ELSE op,
         NEW m \in [Cells -> Values], NEW k \in 0 .. Awaited(op, r), Expected(ThreadAt(op, r, m, k)),
         \A a \in Cells \ Unsent(op, r) : m[a] = wantMem[a], Come(k), Fill(in) + k <= Coming(op, r)
  PROVE  Together'
<1>1. /\ Registers /\ Progress /\ NoLoneWord /\ wantMem' = wantMem /\ r.step \in {0, 1, 2, 3, 4, 5, 6, 15}
      /\ r.s_rd \in BOOLEAN /\ (r.s_rd <=> r.step = 5 \/ (r.step = 6 /\ r.count > 0))
      /\ op.remote \in Nat /\ op.len \in Nat /\ op.remote + op.len <= Words
      /\ r.count \in Nat /\ r.remainder \in Nat /\ r.remote_addr \in Nat
  BY OpTypes DEF IInv, Clock, Typed, Registers, Steps
<1>2. Fill(in) \in Nat /\ Fill(in') \in Nat
  BY SMTT(30), InEdge, FillRange DEF IInv, Typed
<1>3. Fill(in') + One(r.s_rd) + k = Coming(op, r)
  BY DEF Come
<1>4. \A a \in Cells \ Unsent(op', r') : m[a] = wantMem[a]
  BY DEF Unsent, Idle
<1>5. ASSUME NEW i \in 0 .. Awaited(op', r'), Given(i)',
             Parsed(Stream(Content(out'), r'), ServerAt(srv', mem'), ThreadAt(op', r', m, i))
      PROVE  Together'
  BY <1>1, <1>4, <1>5 DEF Together
<1>6. CASE r.step \in {0, 1, 15}
  <2>1. ~r'.m_wr /\ r'.step \in {0, 1, 2, 15}
    BY <1>6 DEF ReadEdge, BlockEdge, Quiet
  <2>2. k = 0 /\ ThreadAt(op, r, m, k) = Rest(m) /\ ThreadAt(op', r', m, 0) = Rest(m) /\ Awaited(op', r') = 0
        /\ Coming(op, r) = 0 /\ Coming(op', r') = 0
    BY <1>6, <2>1 DEF ThreadAt, Awaited, Coming, Idle
  <2>3. Given(0)'
    BY <2>2, NothingCame
  <2> QED
    BY <1>5, <2>1, <2>2, <2>3, SendsNone
<1>7. CASE r.step = 2
  <2> DEFINE w == Word("read", r.count, NoValue)
  <2>1. w \in FifoWords /\ r'.m_wr /\ r'.m_data = w /\ r'.step = 3 /\ op' = op /\ r'.count = r.count /\ r.count > 0
    BY <1>1, <1>7, WordTyped, NoValueTyped DEF ReadEdge, BlockEdge, Sends, Same, Progress
  <2>2. k = 0 /\ ThreadAt(op, r, m, k) = Rest(m) /\ ThreadAt(op', r', m, 0) = Address("read", r.count, m)
        /\ Awaited(op', r') = 0
    BY <1>7, <2>1 DEF ThreadAt, Awaited
  <2>3. Fits(Rest(m), w) /\ After(Rest(m), w) = Address("read", r.count, m)
    BY <1>1, <2>1, WordTyped, NoValueTyped DEF Fits, After, Rest
  <2>4. Given(0)'
    BY <1>7, <2>1, <2>2, NothingCame DEF Coming
  <2> HIDE DEF w
  <2>5. Parsed(Stream(Content(out'), r'), ServerAt(srv', mem'), After(Rest(m), w))
    BY <2>1, <2>2, <2>3, SendsWord
  <2> QED
    BY <1>5, <2>2, <2>3, <2>4, <2>5
<1>8. CASE r.step = 3
  <2> DEFINE w == Word("address", r.remote_addr, NoValue)
  <2>1. /\ w \in FifoWords /\ r'.m_wr /\ r'.m_data = w /\ r'.step = 4 /\ op' = op
        /\ r'.count = r.count /\ r'.remote_addr = r.remote_addr /\ r.remote_addr + r.count <= Words
    <3>1. r.remote_addr + r.count <= Words
      BY <1>1, <1>8 DEF Progress, Gone
    <3> QED
      BY <1>1, <1>8, <3>1, WordTyped, NoValueTyped DEF ReadEdge, BlockEdge, Sends, Same, Kept
  <2>2. k = 0 /\ ThreadAt(op, r, m, k) = Address("read", r.count, m)
        /\ ThreadAt(op', r', m, r.count) = Owing(r.count, r.remote_addr, m)
        /\ Awaited(op', r') = r.count /\ Coming(op, r) = 0 /\ Coming(op', r') = r.count
    <3>1. r.remote_addr + (r.count - r.count) = r.remote_addr
      BY <1>1
    <3> QED
      BY <1>8, <2>1, <3>1 DEF ThreadAt, Awaited, Coming
  <2>3. Fits(Address("read", r.count, m), w) /\ After(Address("read", r.count, m), w) = Owing(r.count, r.remote_addr, m)
    BY <1>1, <2>1, WordTyped, NoValueTyped DEF Fits, After, Address
  <2>8. PICK c \in Nat : c = r.count
    BY <1>1
  <2>4. Given(c)'
    <3>1. Fill(in') = 0
      <4>1. One(r.s_rd) = 0
        BY <1>1, <1>8 DEF One
      <4> QED
        BY <1>2, <1>3, <2>2, <4>1
    <3>2. Fill(in') + c = Coming(op', r')
      BY <2>2, <2>8, <3>1
    <3> QED
      BY <3>1, <3>2 DEF Given
  <2> HIDE DEF w
  <2>5. Parsed(Stream(Content(out'), r'), ServerAt(srv', mem'), After(Address("read", r.count, m), w))
    BY <2>1, <2>2, <2>3, SendsWord
  <2>6. c \in 0 .. Awaited(op', r')
    BY <2>2, <2>8
  <2>7. Parsed(Stream(Content(out'), r'), ServerAt(srv', mem'), ThreadAt(op', r', m, c))
    BY <2>2, <2>3, <2>5, <2>8
  <2> QED
    BY <1>5, <2>4, <2>6, <2>7
<1>9. CASE r.step = 4
  <2>1. /\ ~r'.m_wr /\ op' = op /\ ~r.s_rd /\ r'.count = r.count /\ r'.remote_addr = r.remote_addr
        /\ r'.step \in {4, 5} /\ (r'.step = 5 => r.count <= Fill(in))
    BY <1>1, <1>9 DEF ReadEdge, Same, Kept
  <2>2. Awaited(op, r) = r.count /\ Coming(op, r) = r.count
    BY <1>9 DEF Coming, Awaited
  <2>3. r'.step = 5 => k = 0
    BY <1>1, <1>2, <2>1, <2>2
  <2>4. ThreadAt(op', r', m, k) = ThreadAt(op, r, m, k)
    BY <1>9, <2>1, <2>3 DEF ThreadAt, Owing
  <2>5. k \in 0 .. Awaited(op', r')
    BY <1>9, <2>1, <2>2, <2>3 DEF Awaited
  <2>6. Given(k)'
    <3>1. One(r.s_rd) = 0 /\ Coming(op', r') = r.count /\ ComesFrom(op', r') = r.remote_addr /\ ComesFrom(op,
         r) = r.remote_addr
      BY <1>9, <2>1 DEF One, Coming, ComesFrom
    <3>2. Fill(in') + k = Coming(op', r')
      BY <1>2, <1>3, <2>2, <3>1
    <3>3. \A i \in 1 .. Fill(in') : r.remote_addr + 0 + i - 1 = r.remote_addr + i - 1
      BY <1>1, <1>2
    <3> QED
      BY <1>1, <3>1, <3>2, <3>3 DEF Given, Come
  <2> QED
    BY <1>5, <2>1, <2>4, <2>5, <2>6, SendsNone
<1>10. CASE r.step \in {5, 6}
  <2>1. /\ ~r'.m_wr /\ op' = op
        /\ r.step = 5 => r.count > 0 /\ r'.remote_addr = r.remote_addr
        /\ r.step = 6 => r'.remote_addr = r.remote_addr + 1
        /\ r.step = 5 \/ r.count > 0 => r'.step = 6 /\ r'.count = r.count - 1
        /\ r.step = 6 /\ r.count = 0 => r'.step = 1
    <3>1. r.step = 5 => r.count > 0
      BY <1>1 DEF NoLoneWord
    <3>2. op' = op /\ r.count \in Nat
      BY <1>1, <1>10
    <3>3. CASE r.step = 5
      BY <3>1, <3>2, <3>3 DEF ReadEdge
    <3>4. CASE r.step = 6 /\ r.count = 0
      BY <3>2, <3>4 DEF ReadEdge
    <3>5. CASE r.step = 6 /\ r.count > 0
      <4>1. ~r'.m_wr /\ r'.remote_addr = r.remote_addr + 1 /\ r'.step = 6 /\ r'.count = r.count - 1
        BY <3>5, Zenon DEF ReadEdge
      <4> QED
        BY <3>2, <3>5, <4>1
    <3> QED
      BY <1>10, <3>2, <3>3, <3>4, <3>5
  <2>2. k = 0 /\ ThreadAt(op, r, m, k) = Rest(m) /\ ThreadAt(op', r', m, 0) = Rest(m) /\ Awaited(op', r') = 0
    BY <1>1, <1>10, <2>1 DEF ThreadAt, Awaited
  <2>3. CASE r.step = 6 /\ r.count = 0
    <3>1. Coming(op, r) = 0 /\ Coming(op', r') = 0
      BY <2>1, <2>3 DEF Coming
    <3>2. Given(0)'
      BY <2>2, <3>1, NothingCame
    <3> QED
      BY <1>5, <2>1, <2>2, <3>2, SendsNone
  <2>4. CASE r.step = 5 \/ r.count > 0
    <3>1. /\ One(r.s_rd) = 1 /\ Coming(op, r) = r.count /\ Coming(op', r') = r.count - 1
          /\ ComesFrom(op', r') = r'.remote_addr + 1
          /\ ComesFrom(op, r) = IF r.step = 6 THEN r.remote_addr + 1 ELSE r.remote_addr
      BY <1>1, <1>10, <2>1, <2>4 DEF One, Coming, ComesFrom
    <3>2. Fill(in') + 0 = Coming(op', r')
      BY <1>1, <1>2, <1>3, <2>2, <3>1
    <3>3. ComesFrom(op', r') = ComesFrom(op, r) + 1
      BY <1>1, <1>10, <2>1, <3>1
    <3>4. Given(0)'
      BY <1>1, <3>1, <3>2, <3>3 DEF Given, Come
    <3> QED
      BY <1>5, <2>1, <2>2, <3>4, SendsNone
  <2> QED
    BY <1>1, <1>10, <2>3, <2>4
<1> QED
  BY <1>1, <1>6, <1>7, <1>8, <1>9, <1>10

LEMMA TogetherMoves ==
  ASSUME IInv, Transfers, NEW go \in BOOLEAN, Clock(go)
  PROVE  Together'
<1>1. PICK m \in [Cells -> Values], k \in 0 .. Awaited(op, r) :
        /\ Parsed(Content(out'), ServerAt(srv', mem'), ThreadAt(op, r, m, k))
        /\ \A a \in Cells \ Unsent(op, r) : m[a] = wantMem[a]
        /\ Come(k)
        /\ Fill(in) + k <= Coming(op, r)
  BY WordsCome
<1>2. Expected(ThreadAt(op, r, m, k))
  BY <1>1 DEF Expected
<1>3. CASE op.op = "write_word" /\ op \in Ops /\ WriteWordEdge /\ op' = IF r.step = 4 THEN Idle ELSE op
  <2>1. k = 0
    BY <1>3 DEF Awaited
  <2> QED
    BY <1>1, <1>2, <1>3, <2>1, WriteWordTogether
<1>4. CASE op.op = "read_word" /\ op \in Ops /\ ReadWordEdge /\ op' = IF r.step = 5 THEN Idle ELSE op
  BY <1>1, <1>2, <1>4, ReadWordTogether
<1>5. CASE op.op = "write" /\ op \in Ops /\ WriteEdge /\ op' = IF r.step = 15 THEN Idle ELSE op
  <2>1. k = 0
    BY <1>5 DEF Awaited
  <2> QED
    BY <1>1, <1>2, <1>5, <2>1, WriteTogether
<1>6. CASE op.op = "read" /\ op \in Ops /\ ReadEdge /\ op' = IF r.step = 15 THEN Idle ELSE op
  BY <1>1, <1>2, <1>6, ReadTogether
<1>7. CASE op = Idle /\ r' = r /\ op' = Idle
  <2>1. ~r'.m_wr /\ ~r.s_rd
    BY <1>7 DEF IInv, Registers, WritesAt, Idle
  <2>2. /\ k = 0 /\ ThreadAt(op, r, m, k) = ThreadAt(op', r', m, 0) /\ Awaited(op', r') = 0
        /\ Coming(op, r) = 0 /\ Coming(op', r') = 0 /\ Unsent(op', r') = Unsent(op, r) /\ wantMem' = wantMem
    BY <1>7 DEF ThreadAt, Awaited, Coming, Idle, Unsent, Clock
  <2>3. Given(0)'
    BY <1>1, <2>2, NothingCame
  <2>4. Parsed(Stream(Content(out'), r'), ServerAt(srv', mem'), ThreadAt(op', r', m, 0))
    BY <1>2, <2>1, <2>2, SendsNone
  <2> QED
    BY <1>1, <2>2, <2>3, <2>4 DEF Together
<1> QED
  BY <1>3, <1>4, <1>5, <1>6, <1>7, Calls

-----------------------------------------------------------------------------
(***************************************************************************)
(* The types, the start of an operation, and the theorems.                 *)
(***************************************************************************)
LEMMA RegistersTyped ==
  ASSUME IInv, Transfers, NEW go, Clock(go)
  PROVE  r' \in RegisterTypes
<1>1. /\ r \in RegisterTypes /\ ramData \in Values /\ ram \in [Cells -> Values] /\ in \in Fifos
      /\ op.local \in Nat /\ op.remote \in Nat /\ op.len \in Nat /\ op.local + op.len <= Words
      /\ Registers /\ Progress
  BY TypedRegisters, OpTypes DEF IInv, Typed
<1>2. S_Data(in).v \in Values
  BY <1>1 DEF S_Data, Fifos, FifoWords
<1>3. quiet \in RegisterTypes /\ quiet.remainder = r.remainder /\ quiet.count = r.count
      /\ quiet.addr = r.addr /\ quiet.remote_addr = r.remote_addr /\ quiet.step = r.step
  BY <1>1 DEF quiet, RegisterTypes
<1>4. ASSUME NEW w \in FifoWords, NEW n \in 0 .. 15
      PROVE  /\ Push(quiet, w, n) \in RegisterTypes /\ Push(quiet, w, n).remainder = r.remainder
             /\ Push(quiet, w, n).count = r.count /\ Push(quiet, w, n).addr = r.addr
             /\ Push(quiet, w, n).remote_addr = r.remote_addr
  BY <1>3 DEF Push, RegisterTypes
<1>13. /\ quiet.addr + 1 \in Nat /\ quiet.remote_addr + 1 \in Nat /\ TRUE \in BOOLEAN /\ 0 \in 0 .. 15
       /\ 1 \in 0 .. 15 /\ 2 \in 0 .. 15 /\ 3 \in 0 .. 15 /\ 4 \in 0 .. 15 /\ 5 \in 0 .. 15 /\ 6 \in 0 .. 15
  BY <1>3 DEF RegisterTypes
<1>14. ASSUME NEW n \in 0 .. 15 PROVE [quiet EXCEPT !.step = n] \in RegisterTypes
  BY <1>3 DEF RegisterTypes
<1>5. op.len \in 0 .. Words /\ (op.op = "write_word" => op.local \in Cells)
  BY <1>1, OpTypes DEF Transfers, Cells
<1>6. Word("write", 1, NoValue) \in FifoWords /\ Word("read", 1, NoValue) \in FifoWords
      /\ Word("address", op.remote, NoValue) \in FifoWords
      /\ Word("write", r.count, NoValue) \in FifoWords /\ Word("read", r.count, NoValue) \in FifoWords
      /\ Word("address", r.remote_addr, NoValue) \in FifoWords /\ Word("data", 0, ramData) \in FifoWords
      /\ (op.op = "write_word" => Word("data", 0, ram[op.local]) \in FifoWords)
  <2>1. r.count \in Nat /\ r.remote_addr \in Nat
    BY <1>1 DEF RegisterTypes
  <2> QED
    BY <1>1, <1>5, <2>1, WordTyped, NoValueTyped
<1>7. CASE op.op = "write_word" /\ r' = memif_write_word
  <2>1. \/ r' = [quiet EXCEPT !.step = 0] \/ r' = [quiet EXCEPT !.step = 1]
        \/ r' = Push(quiet, Word("write", 1, NoValue), 2)
        \/ r' = Push(quiet, Word("address", op.remote, NoValue), 3)
        \/ r' = Push(quiet, Word("data", 0, ram[op.local]), 4)
    BY <1>7 DEF memif_write_word, Done
  <2> QED
    <3>1. \A n \in 0 .. 15 : [quiet EXCEPT !.step = n] \in RegisterTypes
      BY <1>14
    <3>2. \A w \in FifoWords, n \in 0 .. 15 : Push(quiet, w, n) \in RegisterTypes
      BY <1>4
    <3> QED
      BY <1>6, <1>7, <1>13, <2>1, <3>1, <3>2, Zenon
<1>8. CASE op.op = "read_word" /\ r' = memif_read_word
  <2>1. CASE r.step # 4
    <3>1. \/ r' = [quiet EXCEPT !.step = 0] \/ r' = [quiet EXCEPT !.step = 1]
          \/ r' = [quiet EXCEPT !.step = 3] \/ r' = [quiet EXCEPT !.step = 4]
          \/ r' = Push(quiet, Word("read", 1, NoValue), 2)
          \/ r' = Push(quiet, Word("address", op.remote, NoValue), 3)
      BY <1>8, <2>1 DEF memif_read_word, Done
    <3> QED
      <4>1. \A n \in 0 .. 15 : [quiet EXCEPT !.step = n] \in RegisterTypes
        BY <1>14
      <4>2. \A w \in FifoWords, n \in 0 .. 15 : Push(quiet, w, n) \in RegisterTypes
        BY <1>4
      <4> QED
        BY <1>6, <1>13, <3>1, <4>1, <4>2, Zenon
  <2>2. CASE r.step = 4
    <3>1. PICK n \in 0 .. 15 : r' = [quiet EXCEPT !.s_rd = TRUE, !.step = n]
      BY <1>8, <2>2, 5 \in 0 .. 15 DEF memif_read_word
    <3> QED
      BY <1>3, <1>13, <3>1 DEF RegisterTypes
  <2> QED
    BY <2>1, <2>2
<1>9. ASSUME NEW cmd \in {"write", "read"} PROVE Block(cmd) \in RegisterTypes
  <2>1. Smaller(r.remainder, BlockSize) \in 0 .. BlockSize
    BY <1>1 DEF Smaller, RegisterTypes
  <2>2. CASE r.step = 0
    <3>1. PICK n \in 0 .. 15 : Block(cmd) = [quiet EXCEPT !.remainder = op.len, !.addr = op.local,
         !.remote_addr = op.remote, !.step = n]
      BY <2>2, 1 \in 0 .. 15 DEF Block
    <3> QED
      BY <1>1, <1>3, <1>5, <1>13, <3>1 DEF RegisterTypes
  <2>3. CASE r.step = 1
    <3> DEFINE next == IF r.remainder = 0 THEN 15 ELSE IF Remainder(out) > 1 THEN 2 ELSE 1
    <3>1. next \in 0 .. 15
      OBVIOUS
    <3>2. Block(cmd) = [quiet EXCEPT !.count = Smaller(r.remainder, BlockSize), !.step = next]
      BY <2>3 DEF Block
    <3> HIDE DEF next
    <3> QED
      BY <1>3, <2>1, <3>1, <3>2 DEF RegisterTypes
  <2>4. CASE r.step \notin {0, 1}
    BY <1>4, <1>6, <1>9, <2>4 DEF Block
  <2> QED
    BY <2>2, <2>3, <2>4
<1>10. CASE op.op = "write" /\ r' = memif_write
  <2>1. CASE r.step < 4
    BY <1>9, <1>10, <2>1 DEF memif_write
  <2>2. CASE r.step = 4
    <3>1. PICK n \in 0 .. 15 : r' = [quiet EXCEPT !.addr = @ + 1, !.remote_addr = @ + 1, !.step = n] \/ r' = quiet
      BY <1>10, <2>2, 5 \in 0 .. 15 DEF memif_write
    <3>2. [quiet EXCEPT !.addr = @ + 1, !.remote_addr = @ + 1, !.step = n] \in RegisterTypes
      BY <1>3, <1>13 DEF RegisterTypes
    <3> QED
      BY <1>3, <3>1, <3>2
  <2>3. CASE r.step = 5 /\ r.count = 0
    <3>1. r' = [quiet EXCEPT !.step = 1]
      BY <1>10, <2>3 DEF memif_write
    <3> QED
      BY <1>13, <1>14, <3>1
  <2>4. CASE r.step = 5 /\ r.count > 0
    <3>1. r.remainder - 1 \in 0 .. Words /\ r.count - 1 \in 0 .. BlockSize
      BY <1>1, <1>10, <2>4 DEF Progress, RegisterTypes
    <3> DEFINE p == Push(quiet, Word("data", 0, ramData), 5)
    <3>2. p \in RegisterTypes /\ p.remainder = r.remainder /\ p.count = r.count /\ p.addr = r.addr /\ p.remote_addr = r.remote_addr
      BY <1>4, <1>6
    <3>3. r' = [p EXCEPT !.remainder = @ - 1, !.count = @ - 1,
                         !.addr = IF r.count > 1 THEN @ + 1 ELSE @,
                         !.remote_addr = IF r.count > 1 THEN @ + 1 ELSE @]
      BY <1>1, <1>10, <2>4 DEF memif_write, RegisterTypes
    <3> DEFINE a == IF r.count > 1 THEN r.addr + 1 ELSE r.addr
               b == IF r.count > 1 THEN r.remote_addr + 1 ELSE r.remote_addr
    <3>4. a \in Nat /\ b \in Nat
      BY <1>1 DEF RegisterTypes
    <3> HIDE DEF p
    <3>5. r' = [p EXCEPT !.remainder = r.remainder - 1, !.count = r.count - 1, !.addr = a, !.remote_addr = b]
      BY <3>2, <3>3
    <3> HIDE DEF a, b
    <3> QED
      BY <3>1, <3>2, <3>4, <3>5 DEF RegisterTypes
  <2>5. CASE r.step > 5
    <3>1. r' = [quiet EXCEPT !.step = 0]
      BY <1>1, <1>10, <2>5 DEF memif_write, Done, RegisterTypes
    <3> QED
      BY <1>13, <1>14, <3>1
  <2>6. r.step \in Nat /\ r.count \in Nat
    BY <1>1 DEF RegisterTypes
  <2> QED
    BY <2>1, <2>2, <2>3, <2>4, <2>5, <2>6
<1>11. CASE op.op = "read" /\ r' = memif_read
  <2>1. CASE r.step < 4
    BY <1>9, <1>11, <2>1 DEF memif_read
  <2>2. CASE r.step = 4
    <3>1. PICK n \in 0 .. 15 : r' = [quiet EXCEPT !.s_rd = TRUE, !.step = n] \/ r' = quiet
      BY <1>11, <2>2, 5 \in 0 .. 15 DEF memif_read
    <3> QED
      BY ZenonT(40), <1>3, <1>13, <3>1 DEF RegisterTypes
  <2>3. (r.step = 5 \/ (r.step = 6 /\ r.count > 0)) => r.remainder - 1 \in 0 .. Words /\ r.count - 1 \in 0 .. BlockSize
    BY <1>1, <1>11 DEF IInv, Progress, NoLoneWord, RegisterTypes
  <2>4. CASE r.step = 5
    <3>1. PICK n \in 0 .. 15 : r' = [quiet EXCEPT !.s_rd = TRUE, !.data = S_Data(in).v, !.we = TRUE,
                             !.remainder = @ - 1, !.count = @ - 1, !.step = n]
      BY <1>11, <2>4, 6 \in 0 .. 15 DEF memif_read
    <3> QED
      BY <1>2, <1>3, <1>13, <2>3, <2>4, <3>1 DEF RegisterTypes
  <2>5. CASE r.step = 6 /\ r.count = 0
    <3>1. PICK n \in 0 .. 15 : r' = [quiet EXCEPT !.addr = @ + 1, !.remote_addr = @ + 1, !.step = n]
      BY <1>11, <2>5, 1 \in 0 .. 15 DEF memif_read
    <3> QED
      BY <1>3, <1>13, <3>1 DEF RegisterTypes
  <2>6. CASE r.step = 6 /\ r.count > 0
    <3> DEFINE more == r.count > 1
    <3>1. more \in BOOLEAN
      OBVIOUS
    <3>2. r' = [quiet EXCEPT !.s_rd = more, !.data = S_Data(in).v, !.we = TRUE,
                             !.remainder = @ - 1, !.count = @ - 1, !.addr = @ + 1, !.remote_addr = @ + 1]
      <4>1. ~(r.step < 4) /\ r.step # 4 /\ r.step # 5 /\ r.step = 6 /\ r.count # 0
        BY <2>6, <1>1 DEF RegisterTypes
      <4> QED
        BY <4>1, <1>11, Zenon DEF memif_read
    <3> HIDE DEF more
    <3> QED
      BY <1>2, <1>3, <1>13, <2>3, <2>6, <3>1, <3>2 DEF RegisterTypes
  <2>7. CASE r.step > 6
    <3>1. r' = [quiet EXCEPT !.step = 0]
      BY <1>1, <1>11, <2>7 DEF memif_read, Done, RegisterTypes
    <3> QED
      BY <1>13, <1>14, <3>1
  <2>8. r.step \in Nat /\ r.count \in Nat
    BY <1>1 DEF RegisterTypes
  <2>9. r.step < 4 \/ r.step = 4 \/ r.step = 5 \/ (r.step = 6 /\ r.count = 0) \/ (r.step = 6 /\ r.count > 0)
       \/ r.step > 6
    BY <2>8
  <2> QED
    BY <2>1, <2>2, <2>4, <2>5, <2>6, <2>7, <2>9
<1>12. CASE op = Idle /\ UNCHANGED r
  BY <1>1, <1>12
<1> QED
  BY <1>7, <1>8, <1>10, <1>11, <1>12 DEF Clock, Called

LEMMA TypedMoves ==
  ASSUME IInv, Transfers, NEW go \in BOOLEAN, Clock(go)
  PROVE  Typed'
<1>1. Typed /\ r \in RegisterTypes /\ Registers
  BY TypedRegisters DEF IInv
<1>2. op' \in Ops \union {Idle}
  BY <1>1 DEF Typed, Clock
<1>3. r' \in RegisterTypes
  BY RegistersTyped
<1>4. S_Data(in).v \in Values /\ S_Data(out) \in FifoWords /\ S_Data(out).v \in Values /\ S_Data(out).n \in Nat
  BY <1>1 DEF Typed, S_Data, Fifos, FifoWords
<1>5. mem' \in [Cells -> Values]
  <2>1. Cell(srv.addr) \in Cells
    BY <1>1, CellRange DEF Typed
  <2> QED
    BY <1>1, <1>4, <2>1 DEF Typed, Clock
<1>6. ram' \in [Cells -> Values] /\ ramData' \in Values
  <2>1. Cell(r.addr) \in Cells /\ r.data \in Values /\ ram \in [Cells -> Values]
    BY <1>1, CellRange DEF RegisterTypes, Typed
  <2>2. ram' \in [Cells -> Values]
    BY <1>4, <2>1 DEF Clock
  <2> QED
    BY <2>1, <2>2 DEF Clock
<1>7. wantMem' \in [Cells -> Values] /\ wantRam' \in [Cells -> Values]
  BY <1>1 DEF Typed, Clock
<1>8. out' \in Fifos /\ in' \in Fifos
  BY OutEdge, InEdge
<1>9. srv' \in [at : {"header", "address", "wait", "data"}, req : FifoWords, addr : Nat]
  <2>1. srv \in [at : {"header", "address", "wait", "data"}, req : FifoWords, addr : Nat]
        /\ (srv.at # "header" => srv.req.n > 0)
    BY <1>1 DEF Typed, IInv, Server
  <2>2. CASE srv.at = "data" /\ ServerStep
    <3>1. srv' = [srv EXCEPT !.req.n = @ - 1, !.addr = @ + 1, !.at = IF srv.req.n <= 1 THEN "header" ELSE @]
      BY <2>2 DEF ServerStep
    <3> DEFINE q == [srv.req EXCEPT !.n = @ - 1]
               next == IF srv.req.n <= 1 THEN "header" ELSE "data"
    <3>2. q \in FifoWords /\ next \in {"header", "address", "wait", "data"}
      BY <2>1, <2>2 DEF FifoWords
    <3>3. srv' = [srv EXCEPT !.req = q, !.addr = @ + 1, !.at = next]
      BY <2>2, <3>1
    <3>4. srv.addr + 1 \in Nat
      BY <2>1
    <3> HIDE DEF q, next
    <3> QED
      BY <2>1, <3>2, <3>3, <3>4
  <2>3. CASE srv.at = "wait" /\ ServerStep
    BY <2>1, <2>3 DEF ServerStep
  <2>4. CASE srv.at \in {"header", "address"} /\ ServerStep
    BY <1>4, <2>1, <2>4 DEF ServerStep
  <2>5. CASE UNCHANGED srv
    BY <2>1, <2>5
  <2> QED
    BY <2>1, <2>2, <2>3, <2>4, <2>5 DEF Clock
<1> QED
  BY <1>2, <1>3, <1>5, <1>6, <1>7, <1>8, <1>9 DEF Typed, RegisterTypes

\* A clock edge keeps the invariant.
LEMMA ClockKeeps ==
  ASSUME IInv, Transfers, RoomForAddress, NEW go \in BOOLEAN, Clock(go)
  PROVE  IInv'
BY TypedMoves, RegistersMove, ProgressMoves, NoLoneWordMoves, ServerMoves, RoomMoves, WantedMoves, TogetherMoves
   DEF IInv

LEMMA InitSound ==
  ASSUME Init
  PROVE  IInv
<1>1. /\ op = Idle /\ r.step = 0 /\ ~r.m_wr /\ ~r.s_rd /\ ~r.we /\ srv.at = "header"
      /\ wantRam = ram /\ wantMem = mem /\ in = out
  BY DEF Init
<1>2. NoValue \in Values /\ NoWord \in FifoWords
  BY DEF NoValue, NoWord, Word, Values, FifoWords
<1>3. r \in RegisterTypes
  BY <1>2 DEF Init, RegisterTypes
<1>4. ram \in [Cells -> Values] /\ mem \in [Cells -> Values] /\ ramData \in Values
  BY DEF Init, Cells, Values
<1>5. out \in Fifos /\ Fill(out) = 0
  BY <1>2 DEF Init, Fifos, Fill
<1>6. srv \in [at : {"header", "address", "wait", "data"}, req : FifoWords, addr : Nat]
  BY <1>2 DEF Init
<1>7. Typed
  BY <1>1, <1>3, <1>4, <1>5, <1>6 DEF Typed, RegisterTypes
<1>8. Registers /\ Progress /\ NoLoneWord /\ Server
  BY <1>1 DEF Registers, Progress, NoLoneWord, Server, Idle, Steps, WritesAt
<1>9. Room
  BY <1>1, <1>5, FillRange DEF Room, Reserved, Held, Idle
<1>10. Wanted
  BY <1>1 DEF Wanted, Idle
<1>11. Together
  <2>1. Content(out) = << >>
    BY <1>5, ContentPlaces
  <2>2. Parsed(Stream(Content(out), r), ServerAt(srv, mem), ThreadAt(op, r, mem, 0))
    BY <1>1, <2>1, ParsedNone DEF Stream, ServerAt, ThreadAt, Idle
  <2>3. Given(0) /\ Awaited(op, r) = 0
    BY <1>1, <1>5 DEF Given, Coming, Awaited, Idle
  <2> QED
    BY <1>1, <1>4, <2>2, <2>3 DEF Together
<1> QED
  BY <1>7, <1>8, <1>9, <1>10, <1>11 DEF IInv

\* The words of an operation that begins are not under way.
LEMMA TogetherStarts ==
  ASSUME IInv, op = Idle, NEW o \in Ops, op' = o, r' = r, mem' = mem, out' = out, in' = in, srv' = srv,
         r.step = 0, \A a \in Cells \ Unsent(o, r) : wantMem'[a] = wantMem[a]
  PROVE  Together'
<1>1. PICK m \in [Cells -> Values], k \in 0 .. Awaited(op, r) :
        /\ Parsed(Stream(Content(out), r), ServerAt(srv, mem), ThreadAt(op, r, m, k))
        /\ \A a \in Cells \ Unsent(op, r) : m[a] = wantMem[a]
        /\ Given(k)
  BY DEF IInv, Together
<1>2. /\ Awaited(op, r) = 0 /\ Coming(op, r) = 0 /\ Unsent(op, r) = {} /\ ThreadAt(op, r, m, k) = Rest(m)
      /\ Awaited(o, r) = 0 /\ Coming(o, r) = 0 /\ ThreadAt(o, r, m, 0) = Rest(m)
  BY DEF Awaited, Coming, Unsent, ThreadAt, Idle
<1>3. Fill(in) = 0
  BY <1>1, <1>2, FillRange DEF Given, IInv, Typed
<1>4. Given(0)'
  BY <1>2, <1>3 DEF Given
<1>5. \A a \in Cells \ Unsent(o, r) : m[a] = wantMem'[a]
  BY <1>1, <1>2
<1> QED
  BY <1>1, <1>2, <1>4, <1>5 DEF Together

\* So does the start of an operation.
LEMMA StartKeeps ==
  ASSUME IInv, Transfers, NEW o \in Ops, Start(o)
  PROVE  IInv'
<1>1. /\ op = Idle /\ op' = o /\ r' = r /\ ram' = ram /\ mem' = mem /\ out' = out /\ in' = in /\ srv' = srv
      /\ ramData' = ramData
  BY DEF Start
<1>2. /\ o.op \in {"write", "read", "write_word", "read_word"} /\ o.local \in Nat /\ o.remote \in Nat /\ o.len \in Nat
      /\ o.local + o.len <= Words /\ o.remote + o.len <= Words /\ (o.op \in {"write_word", "read_word"} => o.len = 1)
  BY DEF Transfers
<1>3. r.step = 0 /\ ~r.m_wr /\ ~r.s_rd /\ ~r.we
  BY <1>1 DEF IInv, Registers, Idle, Steps, WritesAt
<1>4. /\ ram \in [Cells -> Values] /\ mem \in [Cells -> Values] /\ wantRam \in [Cells -> Values]
      /\ wantMem \in [Cells -> Values] /\ DOMAIN ram = Cells /\ DOMAIN mem = Cells
  BY DEF IInv, Typed
<1>5. \A a \in Cells : ram[a] = wantRam[a]
  BY <1>1 DEF IInv, Wanted, Unread, Idle
<1>6. CASE o.op \in {"write", "write_word"}
  <2>1. wantRam' = wantRam
        /\ wantMem' = [a \in Cells |-> IF a \in o.remote .. o.remote + o.len - 1
                                       THEN wantRam[o.local + (a - o.remote)] ELSE wantMem[a]]
    BY <1>4, <1>6 DEF Start
  <2>2. ASSUME NEW a \in o.remote .. o.remote + o.len - 1 PROVE o.local + (a - o.remote) \in Cells
    BY <1>2 DEF Cells
  <2>3. wantMem' \in [Cells -> Values]
    BY <1>4, <2>1, <2>2
  <2>4. \A i \in 0 .. o.len - 1 : wantRam'[o.local + i] = wantMem'[o.remote + i]
    <3>1. ASSUME NEW i \in 0 .. o.len - 1
          PROVE  o.remote + i \in Cells /\ o.remote + i \in o.remote .. o.remote + o.len - 1
                 /\ o.local + ((o.remote + i) - o.remote) = o.local + i
      BY <1>2 DEF Cells
    <3> QED
      BY <2>1, <3>1
  <2>5. \A a \in Cells \ Unsent(o, r) : wantMem'[a] = wantMem[a]
    <3>1. o.op = "write" => Gone(o, r) = 0 /\ o.remote + 0 = o.remote
      BY <1>2, <1>3 DEF Gone
    <3>2. o.remote .. o.remote + o.len - 1 \subseteq Unsent(o, r)
      BY <1>2, <1>3, <1>6, <3>1 DEF Unsent
    <3> QED
      BY <2>1, <3>2
  <2>6. Unread(o, r) = {}
    BY <1>6 DEF Unread
  <2> QED
    <3>1. Typed'
      BY <1>1, <2>1, <2>3, <1>4 DEF IInv, Typed
    <3>2. Registers' /\ Progress' /\ NoLoneWord' /\ Server'
      BY <1>1, <1>2, <1>3 DEF IInv, Registers, Progress, NoLoneWord, Server, Steps, WritesAt
    <3>3. Room'
      BY <1>1, <1>2, <1>3, FillRange DEF IInv, Typed, Room, Reserved, Held
    <3>4. Wanted'
      BY <1>1, <1>5, <2>1, <2>4 DEF Wanted
    <3>5. Together'
      BY <1>1, <1>2, <1>3, <1>6, <2>5, TogetherStarts
    <3> QED
      BY <3>1, <3>2, <3>3, <3>4, <3>5 DEF IInv
<1>7. CASE o.op \in {"read", "read_word"}
  <2>1. wantMem' = wantMem
        /\ wantRam' = [a \in Cells |-> IF a \in o.local .. o.local + o.len - 1
                                       THEN wantMem[o.remote + (a - o.local)] ELSE wantRam[a]]
    BY <1>4, <1>7 DEF Start
  <2>2. ASSUME NEW a \in o.local .. o.local + o.len - 1 PROVE o.remote + (a - o.local) \in Cells
    BY <1>2 DEF Cells
  <2>3. wantRam' \in [Cells -> Values]
    BY <1>4, <2>1, <2>2
  <2>4. \A i \in 0 .. o.len - 1 : wantRam'[o.local + i] = wantMem'[o.remote + i]
    <3>1. ASSUME NEW i \in 0 .. o.len - 1
          PROVE  o.local + i \in Cells /\ o.local + i \in o.local .. o.local + o.len - 1
                 /\ o.remote + ((o.local + i) - o.local) = o.remote + i
      BY <1>2 DEF Cells
    <3> QED
      BY <2>1, <3>1
  <2>5. \A a \in Cells \ Unread(o, r) : wantRam'[a] = wantRam[a]
    <3>1. o.op = "read" => Gone(o, r) = 0 /\ o.local + 0 = o.local
      BY <1>2, <1>3 DEF Gone
    <3>2. o.local .. o.local + o.len - 1 \subseteq Unread(o, r)
      BY <1>2, <1>3, <1>7, <3>1 DEF Unread
    <3> QED
      BY <2>1, <3>2
  <2> QED
    <3>1. Typed'
      BY <1>1, <2>1, <2>3, <1>4 DEF IInv, Typed
    <3>2. Registers' /\ Progress' /\ NoLoneWord' /\ Server'
      BY <1>1, <1>2, <1>3 DEF IInv, Registers, Progress, NoLoneWord, Server, Steps, WritesAt
    <3>3. Room'
      BY <1>1, <1>2, <1>3, FillRange DEF IInv, Typed, Room, Reserved, Held
    <3>4. Wanted'
      BY <1>1, <1>5, <2>4, <2>5 DEF Wanted
    <3>5. Together'
      BY <1>1, <1>2, <1>3, <1>7, <2>1, TogetherStarts
    <3> QED
      BY <3>1, <3>2, <3>3, <3>4, <3>5 DEF IInv
<1> QED
  BY <1>2, <1>6, <1>7

-----------------------------------------------------------------------------
(***************************************************************************)
(* What the invariant is for.                                              *)
(***************************************************************************)
LEMMA IInvSound ==
  ASSUME IInv
  PROVE  FifosSound
<1>1. TypeOK
  BY DEF IInv, Typed, TypeOK, Fifos
<1>2. NoOverrun /\ NoUnderrun
  BY Apart DEF NoOverrun, NoUnderrun, ServerTakes, ServerGives
<1>3. Fill(out) \in Nat /\ srv.req.n \in Nat
  BY FillRange DEF IInv, Typed, FifoWords
<1>4. Framed
  <2>1. ASSUME srv.at = "header", Fill(out) > 0 PROVE S_Data(out).is \in {"write", "read"}
    BY <2>1, HeadFits DEF Fits, ServerAt, Rest
  <2>2. ASSUME srv.at = "address", Fill(out) > 0 PROVE S_Data(out).is = "address"
    BY <2>2, HeadFits DEF Fits, ServerAt, Address
  <2>3. ASSUME srv.at = "data", srv.req.is = "write" PROVE S_Data(out).is = "data"
    <3>1. srv.req.n > 0 /\ Fill(out) > 0
      BY <1>3, <2>3 DEF IInv, Server
    <3>2. ServerAt(srv, mem).at = "data"
      BY <1>3, <2>3, <3>1 DEF ServerAt, Taking
    <3> QED
      BY <3>1, <3>2, HeadFits DEF Fits
  <2> QED
    BY <2>1, <2>2, <2>3 DEF Framed
<1> QED
  BY <1>1, <1>2, <1>4 DEF FifosSound

\* With no operation under way nothing is owed and nothing unsent.
LEMMA IInvArrived ==
  ASSUME IInv
  PROVE  DataArrived
<1> SUFFICES ASSUME op = Idle
             PROVE  /\ ram = wantRam /\ Fill(in) = 0
                    /\ Fill(out) = 0 /\ ~r.m_wr /\ srv.at = "header" => mem = wantMem
  BY DEF DataArrived
<1>1. /\ ram \in [Cells -> Values] /\ wantRam \in [Cells -> Values] /\ mem \in [Cells -> Values]
      /\ wantMem \in [Cells -> Values] /\ Fill(in) \in Nat
  BY FillRange DEF IInv, Typed
<1>2. Unread(op, r) = {} /\ Unsent(op, r) = {} /\ Awaited(op, r) = 0 /\ Coming(op, r) = 0
      /\ \A m, k : ThreadAt(op, r, m, k) = Rest(m)
  BY DEF Unread, Unsent, Awaited, Coming, ThreadAt, Idle
<1>3. PICK m \in [Cells -> Values], k \in 0 .. 0 :
        /\ Parsed(Stream(Content(out), r), ServerAt(srv, mem), Rest(m))
        /\ \A a \in Cells : m[a] = wantMem[a]
        /\ Given(k)
  BY <1>2 DEF IInv, Together
<1>4. ram = wantRam
  <2>1. \A a \in Cells : ram[a] = wantRam[a]
    BY <1>2 DEF IInv, Wanted
  <2> QED
    BY <1>1, <2>1
<1>5. Fill(in) = 0
  BY <1>1, <1>2, <1>3 DEF Given
<1>6. ASSUME Fill(out) = 0, ~r.m_wr, srv.at = "header" PROVE mem = wantMem
  <2>1. Stream(Content(out), r) = << >>
    BY <1>6, ContentPlaces DEF Stream, IInv, Typed
  <2>2. ServerAt(srv, mem) = Rest(mem)
    BY <1>6 DEF ServerAt
  <2>3. Rest(mem) = Rest(m)
    BY <1>3, <2>1, <2>2, ParsedNone
  <2>4. mem = m
    BY <2>3 DEF Rest
  <2> QED
    BY <1>1, <1>3, <2>4
<1> QED
  BY <1>4, <1>5, <1>6

LEMMA StutterKeeps ==
  ASSUME IInv, UNCHANGED vars
  PROVE  IInv'
<1>1. /\ op' = op /\ r' = r /\ ramData' = ramData /\ ram' = ram /\ mem' = mem /\ out' = out /\ in' = in
      /\ srv' = srv /\ wantRam' = wantRam /\ wantMem' = wantMem
  BY DEF vars
<1> QED
  BY <1>1 DEF IInv, Typed, Registers, Progress, NoLoneWord, Server, Room, Wanted, Together, Given

LEMMA NextKeeps ==
  ASSUME IInv, Transfers, RoomForAddress, [Next]_vars
  PROVE  IInv'
<1>1. ASSUME NEW o \in Ops, Start(o) PROVE IInv'
  BY <1>1, StartKeeps
<1>2. ASSUME NEW go \in BOOLEAN, Clock(go) PROVE IInv'
  BY <1>2, ClockKeeps
<1>3. CASE UNCHANGED vars
  BY <1>3, StutterKeeps
<1> QED
  BY <1>1, <1>2, <1>3 DEF Next

-----------------------------------------------------------------------------
(***************************************************************************)
(* Whenever the thread looks for a block's room, it is not just what the   *)
(* address under way will take.                                            *)
(***************************************************************************)
\* Whatever operations follow each other, of any number of blocks, and however the
\* server pauses: unless memif_write's check finds just the room of the block, no
\* word is written to a full FIFO or read from an empty one, and both ends agree
\* where a request begins.
THEOREM FifosStaySound ==
  ASSUME Transfers
  PROVE  Spec => SoundWithRoom
<1>1. Init => IInv
  BY InitSound
<1>2. IInv /\ RoomForAddress /\ [Next]_vars => IInv'
  BY NextKeeps
<1>3. IInv => FifosSound
  BY IInvSound
<1> QED
  BY <1>1, <1>2, <1>3, PTL DEF Spec, SoundWithRoom

\* On the same premise, a thread that has its "done" finds in its local memory what
\* it read; and when the FIFO has drained, the main memory holds what it wrote.
THEOREM DataArrives ==
  ASSUME Transfers
  PROVE  Spec => ArrivedWithRoom
<1>1. Init => IInv
  BY InitSound
<1>2. IInv /\ RoomForAddress /\ [Next]_vars => IInv'
  BY NextKeeps
<1>3. IInv => DataArrived
  BY IInvArrived
<1> QED
  BY <1>1, <1>2, <1>3, PTL DEF Spec, ArrivedWithRoom

-----------------------------------------------------------------------------
(***************************************************************************)
(* The thread waits before a write until all it wrote has left the FIFO,   *)
(* and writes no more than a block at a time.                              *)
(***************************************************************************)
OneBlock ==
  /\ Drained /\ BlockSize + 2 < Depth
  /\ \A o \in Ops : o.op = "write" => o.len <= BlockSize

Clear == Fill(out) = 0 /\ srv.at = "header"
Alone ==
  op.op = "write" =>
    /\ r.step = 0 => Clear
    /\ r.step = 1 /\ r.remainder > 0 => Clear /\ r.remainder <= BlockSize
    /\ r.step \in {2, 3} => Clear
    /\ r.step \in 2 .. 5 => r.remainder = r.count
    /\ r.step = 4 /\ r.m_wr => Fill(out) <= 1

\* The FIFO holds the header at most when the block looks for room.
LEMMA AloneHasRoom ==
  ASSUME IInv, Alone, OneBlock
  PROVE  RoomForAddress
<1>1. r.count \in 0 .. BlockSize /\ Fill(out) \in Nat /\ Remainder(out) = Depth - 1 - Fill(out)
  BY FillRange DEF IInv, Typed
<1> QED
  BY <1>1 DEF Alone, OneBlock, RoomForAddress

LEMMA AloneStarts ==
  ASSUME IInv, OneBlock, NEW o \in Ops, Start(o)
  PROVE  Alone'
<1>1. op = Idle /\ op' = o /\ r' = r /\ out' = out /\ srv' = srv /\ (o.op = "write" => Clear)
  BY DEF Start, OneBlock, Clear
<1>2. r.step = 0
  BY <1>1 DEF IInv, Registers, Idle, Steps
<1> QED
  BY <1>1, <1>2 DEF Alone, Clear

\* A server that has nothing stays where it is.
LEMMA ClearStays ==
  ASSUME IInv, Clear, NEW go \in BOOLEAN, Clock(go)
  PROVE  srv' = srv /\ Fill(out') = One(r.m_wr)
<1>1. ~Takes(go) /\ srv' = srv
  BY DEF Clear, Clock, ServerStep, Takes, ServerTakes
<1> QED
  BY <1>1, OutEdge DEF Clear, One

LEMMA AloneMoves ==
  ASSUME IInv, Alone, OneBlock, NEW go \in BOOLEAN, Clock(go)
  PROVE  Alone'
<1>1. Registers /\ r \in RegisterTypes /\ Progress
  BY TypedRegisters DEF IInv
<1>2. CASE op.op = "write" /\ op \in Ops /\ WriteEdge /\ op' = IF r.step = 15 THEN Idle ELSE op
  <2>1. op.len <= BlockSize /\ op.len \in Nat /\ r.step \in 0 .. 5 \union {15}
    BY <1>1, <1>2 DEF OneBlock, Registers, Steps
  <2>2. CASE r.step = 0
    <3>1. ~r.m_wr /\ Clear
      BY <1>1, <1>2, <2>2 DEF Registers, WritesAt, Alone
    <3>2. Clear'
      BY <3>1, ClearStays DEF Clear, One
    <3> QED
      BY <1>2, <2>1, <2>2, <3>2 DEF Alone, WriteEdge, BlockEdge
  <2>3. CASE r.step = 1 /\ r.remainder > 0
    <3>1. ~r.m_wr /\ Clear /\ r.remainder <= BlockSize
      BY <1>1, <1>2, <2>3 DEF Registers, WritesAt, Alone
    <3>2. Clear'
      BY <3>1, ClearStays DEF Clear, One
    <3>3. Smaller(r.remainder, BlockSize) = r.remainder
      BY <1>1, <3>1 DEF Smaller, RegisterTypes
    <3> QED
      BY <1>2, <2>3, <3>1, <3>2, <3>3 DEF Alone, WriteEdge, BlockEdge, Kept
  <2>4. CASE r.step = 1 /\ r.remainder = 0
    BY <1>2, <2>4 DEF Alone, WriteEdge, BlockEdge, Kept
  <2>5. CASE r.step = 2
    <3>1. ~r.m_wr /\ Clear /\ r.remainder = r.count
      BY <1>1, <1>2, <2>5 DEF Registers, WritesAt, Alone
    <3>2. Clear'
      BY <3>1, ClearStays DEF Clear, One
    <3> QED
      BY <1>2, <2>5, <3>1, <3>2 DEF Alone, WriteEdge, BlockEdge, Same, Kept
  <2>6. CASE r.step = 3
    <3>1. Clear /\ r.remainder = r.count
      BY <1>2, <2>6 DEF Alone
    <3>2. Fill(out') <= 1
      BY <3>1, ClearStays DEF One
    <3> QED
      BY <1>2, <2>6, <3>1, <3>2 DEF Alone, WriteEdge, BlockEdge, Same, Kept
  <2>7. CASE r.step = 4
    BY <1>2, <2>7 DEF Alone, WriteEdge, Quiet, Kept
  <2>8. CASE r.step = 5 /\ r.count > 0
    BY <1>2, <2>8 DEF Alone, WriteEdge
  <2>9. CASE r.step = 5 /\ r.count = 0
    BY <1>2, <2>9 DEF Alone, WriteEdge, Same, Kept
  <2>10. CASE r.step = 15
    BY <1>2, <2>10 DEF Alone, Idle
  <2>11. r.remainder \in Nat /\ r.count \in Nat
    BY <1>1 DEF RegisterTypes
  <2> QED
    BY <2>1, <2>2, <2>3, <2>4, <2>5, <2>6, <2>7, <2>8, <2>9, <2>10, <2>11
<1>3. CASE op.op # "write"
  BY <1>3 DEF Clock, Alone, Idle
<1> QED
  BY <1>2, <1>3, Calls DEF Idle

\* Then the room looked for is never just what the address takes: the FIFO holds
\* nothing but the block's header, and the block is smaller than what remains.
THEOREM OneBlockFits ==
  ASSUME Transfers, OneBlock
  PROVE  Spec => []RoomForAddress
<1>1. Init => IInv /\ Alone
  BY InitSound DEF Init, Alone, Idle
<1>2. IInv /\ Alone => RoomForAddress
  BY AloneHasRoom
<1>3. IInv /\ Alone /\ [Next]_vars => IInv' /\ Alone'
  <2> SUFFICES ASSUME IInv, Alone, [Next]_vars PROVE IInv' /\ Alone'
    OBVIOUS
  <2>1. IInv'
    BY AloneHasRoom, NextKeeps
  <2>2. ASSUME NEW o \in Ops, Start(o) PROVE Alone'
    BY <2>2, AloneStarts
  <2>3. ASSUME NEW go \in BOOLEAN, Clock(go) PROVE Alone'
    BY <2>3, AloneMoves
  <2>4. ASSUME UNCHANGED vars PROVE Alone'
    BY <2>4 DEF vars, Alone, Clear
  <2>5. Alone'
    BY <2>2, <2>3, <2>4 DEF Next
  <2> QED
    BY <2>1, <2>5
<1> QED
  BY <1>1, <1>2, <1>3, PTL DEF Spec
=============================================================================
