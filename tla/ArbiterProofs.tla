--------------------------- MODULE ArbiterProofs ---------------------------
(***************************************************************************)
(* For any number of slots, any depth of their FIFOs, any page, burst and  *)
(* requests: arbiter, converter and memory agree on who is served and      *)
(* where in its request it is, answers go to the thread that asked, and no *)
(* chunk crosses a page or is longer than a burst.  The invariant says     *)
(* where in its request the slot that is let through is, and that all      *)
(* other slots are at the beginning of one.                                *)
(***************************************************************************)
EXTENDS Arbiter, WellFoundedInduction, SequenceTheorems, TLAPS

USE ArbiterAssumption

\* Words of slot s that may be in its FIFO.
Words(s) == {w \in [req : Requests[s], pos : Nat] : w.pos < Total(w.req)}

\* What a thread sends next, and what comes after word w of a request: a thread
\* that waits for what it reads is at place 2.
After(w, v) ==
  IF w.pos + 1 < Total(w.req) \/ w.req.mode = "read" THEN v.req = w.req /\ v.pos = w.pos + 1 ELSE v.pos = 0

ThreadType(s, t) ==
  /\ DOMAIN t = {"req", "sent", "got"} /\ t.got \in Nat
  /\ t.sent < Total(t.req) => t.got = 0
  /\ \/ t.req = Idle /\ t.sent = 0
     \/ t.req \in Requests[s] /\ t.sent \in 0 .. Total(t.req) /\ ~Finished(t)

\* FIFO f of slot s holds words in the order in which thread t sends them.
Stream(s, f, t) ==
  /\ ThreadType(s, t) /\ f \in Seq(Words(s))
  /\ \A i \in 1 .. Len(f) - 1 : After(f[i], f[i + 1])
  /\ f # << >> => After(f[Len(f)], WordOf(t))

\* The word that leaves slot s next, or that its thread sends next if none is there.
Front(f, t) == IF f = << >> THEN WordOf(t) ELSE Head(f)

Streams == \A s \in Slots : Stream(s, fifo[s], thread[s])

\* Who is not being served begins a request, and gets no data.
Waiting ==
  \A s \in Slots : s # sel2mux \/ fsm.state = "MODE_LENGTH" =>
    Front(fifo[s], thread[s]).pos = 0 /\ thread[s].got = 0

\* The round robin goes on only to a slot that asks, which nobody serves yet.
Turn == last_served # sel2mux => requests(last_served)

-----------------------------------------------------------------------------
Resting == srv.at \in {"header", "complete"}

Fetching ==
  /\ fsm.state = "MODE_LENGTH" /\ Resting /\ conv.mux_sel /\ conv.fill = 0
  /\ \/ conv.state = "IDLE" /\ ~conv.rd
     \/ conv.state = "MODE_LENGTH" /\ conv.rd /\ last_served = sel2mux /\ requests(sel2mux)

TakingAddress ==
  /\ fsm.state = "ADDRESS" /\ conv.state = "ADDRESS" /\ Resting /\ conv.mux_sel /\ conv.fill = 0 /\ conv.rd
  /\ fifo[sel2mux] # << >> /\ thread[sel2mux].got = 0
  /\ LET w == Head(fifo[sel2mux]) IN
       /\ w.pos = 1
       /\ conv.slot = sel2mux /\ conv.mode = w.req.mode /\ fsm.mode = w.req.mode
       /\ conv.remaining = w.req.size /\ fsm.size = w.req.size

\* Request q of slot s is under way: both count what remains of it.
Carrying(s, q) ==
  /\ q \in Requests[s] /\ conv.slot = s /\ conv.mode = q.mode /\ ~conv.rd
  /\ fsm.state = IF q.mode = "read" THEN "DATA_READ" ELSE "DATA_WRITE"
  /\ fsm.size = conv.remaining /\ conv.remaining \in 1 .. q.size
  /\ Front(fifo[s], thread[s]).pos = IF q.mode = "read" THEN 2 ELSE 2 + q.size - conv.remaining
  /\ thread[s].got = IF q.mode = "read" THEN q.size - conv.remaining ELSE 0

Here(q) == q.addr + q.size - conv.remaining

Fits(addr, n) == addr \in Nat /\ n \in 1 .. Burst /\ (addr % Page) + n <= Page

Cutting(q) == conv.state = "CALC" /\ conv.mux_sel /\ conv.fill = 0 /\ conv.next = Here(q) /\ Resting

Showing(q) ==
  /\ conv.mux_sel /\ conv.addr = Here(q) /\ conv.next = conv.addr + conv.size
  /\ Fits(conv.addr, conv.size) /\ conv.size <= conv.remaining
  /\ \/ /\ conv.state = "WRITE_MODE_LENGTH" /\ conv.data = Header(conv)
        /\ Resting \/ srv.at = "cmd"
     \/ /\ conv.state = "WRITE_ADDRESS" /\ conv.data = Address(conv)
        /\ srv.at = "address" /\ srv.slot = conv.slot /\ srv.mode = conv.mode /\ srv.n = conv.size

Moving(q) ==
  /\ conv.state = fsm.state /\ (conv.mux_sel <=> q.mode = "read")
  /\ srv.slot = conv.slot /\ srv.n = conv.size /\ srv.addr = Here(q) /\ conv.next = srv.addr + srv.n
  /\ Fits(srv.addr, srv.n) /\ srv.n <= conv.remaining
  /\ IF q.mode = "read" THEN srv.at = "read" ELSE srv.at \in {"fill", "write"}
  /\ srv.at = "write" => srv.n <= IN_S_Fill

Serving ==
  LET q == Front(fifo[sel2mux], thread[sel2mux]).req
  IN Carrying(sel2mux, q) /\ (Cutting(q) \/ Showing(q) \/ Moving(q))

Types ==
  /\ last_served \in Slots /\ sel2mux \in Slots /\ DOMAIN thread = Slots
  /\ DOMAIN fsm = {"state", "mode", "size"}
  /\ DOMAIN conv = {"state", "slot", "mode", "remaining", "next", "size", "addr", "rd", "data", "fill", "mux_sel"}
  /\ DOMAIN srv = {"at", "slot", "mode", "n", "addr"}
  /\ conv.rd \in BOOLEAN /\ conv.mux_sel \in BOOLEAN

IInv == Types /\ Streams /\ Waiting /\ Turn /\ (Fetching \/ TakingAddress \/ Serving)

-----------------------------------------------------------------------------
LEMMA RequestType ==
  ASSUME NEW s \in Slots, NEW q \in Requests[s]
  PROVE  /\ q.mode \in {"read", "write"} /\ q.addr \in Nat /\ q.size \in Nat \ {0}
         /\ Total(q) \in Nat /\ Total(q) >= 2 /\ q # Idle
         /\ Total(q) = IF q.mode = "read" THEN 2 ELSE q.size + 2
BY DEF Slots, Total, Idle

\* A set of numbers has a least one.
LEMMA LeastExists ==
  ASSUME NEW S \in SUBSET Nat, S # {}
  PROVE  \E x \in S : \A y \in S : x <= y
<1> DEFINE R == OpToRel(<, Nat)
<1>1. IsWellFoundedOn(R, Nat)
  BY NatLessThanWellFounded
<1>2. \A x, y \in Nat : y < x => <<y, x>> \in R
  BY DEF OpToRel
<1> HIDE DEF R
<1>3. PICK x \in S : \A y \in S : ~(<<y, x>> \in R)
  BY <1>1, WFMin
<1>4. \A y \in S : ~(y < x)
  BY <1>2, <1>3
<1> QED
  BY <1>3, <1>4

\* Nobody is skipped who goes on asking, and nobody chosen who does not.
LEMMA RoundRobin ==
  ASSUME last_served \in Slots
  PROVE  /\ next_served \in Slots
         /\ next_served # last_served => requests(next_served)
         /\ requests(last_served) => next_served = last_served
<1> DEFINE Nth(o) == (last_served + o) % Ports
           asking == {o \in 1 .. Ports : requests(Nth(o))}
           first == CHOOSE o \in asking : \A u \in asking : o <= u
<1>1. CASE requests(last_served) \/ asking = {}
  BY <1>1 DEF next_served
<1>2. CASE ~requests(last_served) /\ asking # {}
  <2>1. asking \in SUBSET Nat
    OBVIOUS
  <2> HIDE DEF asking
  <2>2. \E o \in asking : \A u \in asking : o <= u
    BY <2>1, <1>2, LeastExists
  <2>3. first \in asking
    BY <2>2, Zenon
  <2> USE DEF asking
  <2>4. next_served = Nth(first)
    BY <1>2 DEF next_served
  <2> HIDE DEF first
  <2>5. first \in 1 .. Ports /\ requests(Nth(first))
    BY <2>3
  <2>6. Nth(first) \in Slots
    BY <2>5 DEF Slots
  <2> QED
    BY <1>2, <2>4, <2>5, <2>6
<1> QED
  BY <1>1, <1>2

-----------------------------------------------------------------------------
(***************************************************************************)
(* Chunks.                                                                 *)
(***************************************************************************)

LEMMA Division ==
  \A a \in Nat : a = Page * (a \div Page) + (a % Page) /\ a \div Page \in Nat /\ a % Page \in 0 .. Page - 1
OBVIOUS

\* The next word of a page is one further.
LEMMA NextInPage ==
  ASSUME NEW a \in Nat, a % Page < Page - 1
  PROVE  (a + 1) % Page = (a % Page) + 1
<1> DEFINE d == a \div Page
           r == a % Page
           e == (a + 1) \div Page
           u == (a + 1) % Page
<1>1. a = Page * d + r /\ d \in Nat /\ r \in 0 .. Page - 1
  BY Division
<1>2. a + 1 = Page * e + u /\ e \in Nat /\ u \in 0 .. Page - 1
  <2>1. a + 1 \in Nat
    OBVIOUS
  <2> QED
    BY <2>1, Division
<1>3. r + 1 \in 0 .. Page - 1
  BY <1>1
<1> HIDE DEF d, r, e, u
<1>4. Page * (e - d) = r + 1 - u
  BY <1>1, <1>2
<1>5. e - d = 0
  <2>1. \A k \in Int : k >= 1 => Page * k >= Page
    OBVIOUS
  <2>2. \A k \in Int : k <= -1 => Page * k <= -Page
    OBVIOUS
  <2> QED
    BY <1>1, <1>2, <1>3, <1>4, <2>1, <2>2
<1>6. u = r + 1
  BY <1>1, <1>2, <1>4, <1>5
<1> QED
  BY <1>6 DEF u, r

\* What remains of a chunk still lies in its page.
LEMMA FitsOn ==
  ASSUME NEW a, NEW n, Fits(a, n), n # 1
  PROVE  Fits(a + 1, n - 1)
<1>1. a \in Nat /\ n \in Nat /\ n > 1 /\ n <= Burst /\ a % Page \in 0 .. Page - 1 /\ (a % Page) + n <= Page
  BY DEF Fits
<1>2. (a + 1) % Page = (a % Page) + 1
  BY <1>1, NextInPage
<1> QED
  BY <1>1, <1>2 DEF Fits

\* calc_transfer_size makes a chunk that fits.
LEMMA NewChunkFits ==
  ASSUME NEW a \in Nat, NEW n \in Nat \ {0}
  PROVE  LET c == calc_transfer_size(a % Page, n) IN Fits(a, c) /\ c \in 1 .. n
<1>1. a % Page \in 0 .. Page - 1
  OBVIOUS
<1> QED
  BY <1>1 DEF calc_transfer_size, Least, Fits

-----------------------------------------------------------------------------
(***************************************************************************)
(* The words of one slot.                                                  *)
(***************************************************************************)

LEMMA StreamFacts ==
  ASSUME NEW s \in Slots, NEW f, NEW t, Stream(s, f, t)
  PROVE  /\ f \in Seq(Words(s)) /\ Len(f) \in Nat /\ ThreadType(s, t)
         /\ f = << >> => Front(f, t) = WordOf(t)
         /\ f # << >> => /\ Len(f) > 0 /\ Head(f) = f[1] /\ Front(f, t) = f[1] /\ f[1] \in Words(s)
                         /\ Tail(f) \in Seq(Words(s)) /\ Len(Tail(f)) = Len(f) - 1
BY DEF Stream, Front

\* The word behind the first moves up.
LEMMA StreamPops ==
  ASSUME NEW s \in Slots, NEW f, NEW t, Stream(s, f, t), f # << >>
  PROVE  Stream(s, Tail(f), t) /\ After(Head(f), Front(Tail(f), t))
<1> DEFINE g == Tail(f)
<1>1. /\ f \in Seq(Words(s)) /\ Len(f) \in Nat \ {0} /\ g \in Seq(Words(s)) /\ Len(g) = Len(f) - 1
      /\ \A i \in 1 .. Len(g) : g[i] = f[i + 1]
  BY StreamFacts
<1> HIDE DEF g
<1>2. Head(f) = f[1] /\ (g # << >> => Head(g) = g[1] /\ Len(g) > 0) /\ (g = << >> => Len(g) = 0)
  BY <1>1
<1>3. \A i \in 1 .. Len(g) - 1 : After(g[i], g[i + 1])
  <2> SUFFICES ASSUME NEW i \in 1 .. Len(g) - 1
               PROVE  After(g[i], g[i + 1])
    OBVIOUS
  <2>1. g[i] = f[i + 1] /\ g[i + 1] = f[(i + 1) + 1] /\ i + 1 \in 1 .. Len(f) - 1
    BY <1>1
  <2> QED
    BY <2>1 DEF Stream
<1>4. g # << >> => After(g[Len(g)], WordOf(t))
  BY <1>1, <1>2 DEF Stream
<1>5. After(Head(f), Front(g, t))
  <2>1. CASE g = << >>
    <3>1. Len(f) = 1
      BY <1>1, <1>2, <2>1
    <3> QED
      BY <1>2, <2>1, <3>1 DEF Stream, Front
  <2>2. CASE g # << >>
    <3>1. g[1] = f[1 + 1] /\ 1 \in 1 .. Len(f) - 1
      BY <1>1, <1>2, <2>2
    <3> QED
      BY <1>2, <2>2, <3>1 DEF Stream, Front
  <2> QED
    BY <2>1, <2>2
<1> QED
  BY <1>1, <1>3, <1>4, <1>5 DEF Stream, g

\* With its last word sent or got a thread is free.
Released(t) == IF t.req # Idle /\ Finished(t) THEN [req |-> Idle, sent |-> 0, got |-> 0] ELSE t

\* Thread t with other counts.
Counting(d, t) == DOMAIN d = {"req", "sent", "got"} /\ d.req = t.req
Counts(d, t, sends, gets) ==
  /\ Counting(d, t)
  /\ d.sent = IF sends THEN t.sent + 1 ELSE t.sent
  /\ d.got = IF gets THEN t.got + 1 ELSE t.got
OneSent(d, t) == Counting(d, t) /\ d.sent = t.sent + 1 /\ d.got = t.got
OneGot(d, t) == Counting(d, t) /\ d.sent = t.sent /\ d.got = t.got + 1
NoneMoved(d, t) == Counting(d, t) /\ d.sent = t.sent /\ d.got = t.got

Grown(g, f, v) == g = Append(f, v)

\* A thread sends a word, its last one or not.
LEMMA StreamGrows ==
  ASSUME NEW s \in Slots, NEW f, NEW t, NEW g, NEW d, NEW u, Stream(s, f, t), t.req # Idle, t.sent < Total(t.req),
         Grown(g, f, WordOf(t)), OneSent(d, t), u = Released(d)
  PROVE  Stream(s, g, u) /\ Front(g, u) = Front(f, t) /\ Len(g) = Len(f) + 1 /\ u.got = t.got
<1> DEFINE v == WordOf(t)
<1>1. /\ f \in Seq(Words(s)) /\ Len(f) \in Nat /\ ThreadType(s, t) /\ t.req \in Requests[s] /\ t.got = 0
      /\ t.sent \in Nat /\ DOMAIN t = {"req", "sent", "got"}
  BY StreamFacts DEF ThreadType
<1>2. v \in Words(s) /\ v.req = t.req /\ v.pos = t.sent
  BY <1>1 DEF WordOf, Words
<1>3. /\ t.req.mode \in {"read", "write"} /\ t.req.size \in Nat \ {0} /\ Total(t.req) \in Nat \ {0}
      /\ Total(t.req) = IF t.req.mode = "read" THEN 2 ELSE t.req.size + 2
  BY <1>1, RequestType
<1>4. ThreadType(s, u) /\ After(v, WordOf(u)) /\ u.got = t.got
  <2>1. DOMAIN d = {"req", "sent", "got"} /\ d.req = t.req /\ d.sent = t.sent + 1 /\ d.got = 0
    BY <1>1 DEF OneSent, Counting
  <2>2. u = IF d.req # Idle /\ Finished(d) THEN [req |-> Idle, sent |-> 0, got |-> 0] ELSE d
    BY DEF Released
  <2> HIDE DEF v
  <2>3. CASE Finished(d)
    <3>1. u.req = Idle /\ u.sent = 0 /\ u.got = 0 /\ DOMAIN u = {"req", "sent", "got"}
      BY <2>1, <2>2, <2>3
    <3>2. t.req.mode = "write" /\ t.sent + 1 = Total(t.req)
      BY <1>3, <2>1, <2>3 DEF Finished
    <3> QED
      BY <1>1, <1>2, <3>1, <3>2 DEF ThreadType, After, WordOf
  <2>4. CASE ~Finished(d)
    <3>1. u = d
      BY <2>2, <2>4
    <3>2. ThreadType(s, d)
      BY <1>1, <1>3, <2>1, <2>4 DEF ThreadType
    <3>3. t.sent + 1 < Total(t.req) \/ t.req.mode = "read"
      BY <1>1, <1>3, <2>1, <2>4 DEF Finished
    <3> QED
      BY <1>1, <1>2, <2>1, <3>1, <3>2, <3>3 DEF After, WordOf
  <2> QED
    BY <2>3, <2>4
<1>5. /\ g \in Seq(Words(s)) /\ Len(g) = Len(f) + 1 /\ \A i \in 1 .. Len(f) + 1 : g[i] = IF i <= Len(f) THEN f[i] ELSE v
  BY <1>1, <1>2, AppendProperties DEF Grown
<1> HIDE DEF v
<1>6. \A i \in 1 .. Len(g) - 1 : After(g[i], g[i + 1])
  <2> SUFFICES ASSUME NEW i \in 1 .. Len(f)
               PROVE  After(g[i], g[i + 1])
    BY <1>1, <1>5
  <2>1. CASE i < Len(f)
    <3>1. g[i] = f[i] /\ g[i + 1] = f[i + 1] /\ i \in 1 .. Len(f) - 1
      BY <1>1, <1>5, <2>1
    <3> QED
      BY <3>1 DEF Stream
  <2>2. CASE i = Len(f)
    <3>1. g[i] = f[Len(f)] /\ g[i + 1] = v /\ f # << >>
      BY <1>1, <1>5, <2>2
    <3> QED
      BY <3>1 DEF Stream, v
  <2> QED
    BY <1>1, <2>1, <2>2
<1>7. g # << >> /\ g[Len(g)] = v /\ Head(g) = g[1]
  BY <1>1, <1>5
<1>8. Front(g, u) = Front(f, t)
  BY <1>1, <1>5, <1>7, StreamFacts DEF Front, v
<1> QED
  BY <1>4, <1>5, <1>6, <1>7, <1>8 DEF Stream, v

\* A thread at the place of the words it reads has nothing in its FIFO.
LEMMA ReaderWaits ==
  ASSUME NEW s \in Slots, NEW f, NEW t, Stream(s, f, t), Front(f, t).pos = 2, Front(f, t).req.mode = "read"
  PROVE  f = << >> /\ t.req.mode = "read" /\ t.sent = 2
<1>1. ASSUME f # << >> PROVE FALSE
  <2>1. Front(f, t) \in Words(s)
    BY <1>1, StreamFacts
  <2>2. Front(f, t).pos < Total(Front(f, t).req)
    BY <2>1 DEF Words
  <2>3. Total(Front(f, t).req) = 2
    BY DEF Total
  <2> QED
    BY <2>2, <2>3
<1>2. WordOf(t).req = t.req /\ WordOf(t).pos = t.sent
  BY DEF WordOf
<1> QED
  BY <1>1, <1>2 DEF Front

\* A thread gets a word it reads, its last one or not.
LEMMA StreamGets ==
  ASSUME NEW s \in Slots, NEW f, NEW t, NEW d, NEW u, Stream(s, f, t), Front(f, t).pos = 2, Front(f, t).req.mode = "read",
         OneGot(d, t), u = Released(d)
  PROVE  /\ f = << >> /\ t.req \in Requests[s] /\ t.sent = Total(t.req) /\ Stream(s, f, u)
         /\ IF t.got + 1 = t.req.size THEN Front(f, u).pos = 0 /\ u.got = 0
            ELSE Front(f, u) = Front(f, t) /\ u.got = t.got + 1
<1>1. f = << >> /\ t.req.mode = "read" /\ t.sent = 2
  BY ReaderWaits
<1>2. ThreadType(s, t) /\ t.req \in Requests[s] /\ t.got \in Nat /\ DOMAIN t = {"req", "sent", "got"}
  BY <1>1 DEF Stream, ThreadType, Idle
<1>3. Total(t.req) = 2 /\ t.req.size \in Nat \ {0} /\ t.req # Idle
  BY <1>1, <1>2, RequestType
<1>4. DOMAIN d = {"req", "sent", "got"} /\ d.req = t.req /\ d.sent = 2 /\ d.got = t.got + 1
  BY <1>1, <1>2 DEF OneGot, Counting
<1>5. u = IF d.req # Idle /\ Finished(d) THEN [req |-> Idle, sent |-> 0, got |-> 0] ELSE d
  BY DEF Released
<1>6. Finished(d) <=> t.got + 1 = t.req.size
  BY <1>1, <1>3, <1>4 DEF Finished
<1>7. CASE t.got + 1 = t.req.size
  <2>1. u.req = Idle /\ u.sent = 0 /\ u.got = 0 /\ DOMAIN u = {"req", "sent", "got"}
    BY <1>3, <1>4, <1>5, <1>6, <1>7
  <2>2. ThreadType(s, u)
    BY <2>1 DEF ThreadType, Total, Idle
  <2>3. Stream(s, f, u)
    BY <1>1, <2>2 DEF Stream
  <2>4. Front(f, u).pos = 0
    BY <1>1, <2>1 DEF Front, WordOf
  <2> QED
    BY <1>1, <1>2, <1>3, <1>7, <2>1, <2>3, <2>4
<1>8. CASE t.got + 1 # t.req.size
  <2>1. u = d
    BY <1>5, <1>6, <1>8
  <2>2. ThreadType(s, d)
    BY <1>1, <1>2, <1>3, <1>4, <1>6, <1>8 DEF ThreadType
  <2>3. Stream(s, f, u)
    BY <1>1, <2>1, <2>2 DEF Stream
  <2>4. Front(f, u) = Front(f, t) /\ u.got = t.got + 1
    BY <1>1, <1>4, <2>1 DEF Front, WordOf
  <2> QED
    BY <1>1, <1>2, <1>3, <1>8, <2>3, <2>4
<1> QED
  BY <1>7, <1>8

\* A thread that does neither is as before.
LEMMA StreamRests ==
  ASSUME NEW s \in Slots, NEW f, NEW t, NEW d, NEW u, Stream(s, f, t), NoneMoved(d, t), u = Released(d)
  PROVE  Stream(s, f, u) /\ Front(f, u) = Front(f, t) /\ u.got = t.got
<1>1. ThreadType(s, t)
  BY DEF Stream
<1>2. DOMAIN d = {"req", "sent", "got"} /\ d.req = t.req /\ d.sent = t.sent /\ d.got = t.got
  BY <1>1 DEF ThreadType, NoneMoved, Counting
<1>3. u = IF d.req # Idle /\ Finished(d) THEN [req |-> Idle, sent |-> 0, got |-> 0] ELSE d
  BY DEF Released
<1>4. Finished(d) <=> Finished(t)
  BY <1>2 DEF Finished
<1>5. u = d
  BY <1>1, <1>2, <1>3, <1>4 DEF ThreadType
<1>6. ThreadType(s, d)
  BY <1>1, <1>2, <1>4 DEF ThreadType
<1>7. WordOf(d) = WordOf(t)
  BY <1>2 DEF WordOf
<1> QED
  BY <1>2, <1>5, <1>6, <1>7 DEF Stream, Front

-----------------------------------------------------------------------------
\* What an edge makes of slot s with FIFO f and thread t: it loses its first word
\* or not, gets a word that it reads or not, and may send one.
Edge(s, f, t, g, u, pops, gets) ==
  /\ Stream(s, g, u)
  /\ ~pops => Len(g) >= Len(f)
  /\ pops => After(Head(f), Front(g, u)) /\ Len(g) >= Len(f) - 1
  /\ ~gets => u.got = t.got /\ (~pops => Front(g, u) = Front(f, t))
  /\ gets => IF t.got + 1 = Front(f, t).req.size THEN Front(g, u).pos = 0 /\ u.got = 0
             ELSE Front(g, u) = Front(f, t) /\ u.got = t.got + 1

Passing(f, h, g, t, d, pops, sends, gets) ==
  /\ pops => f # << >>
  /\ sends => t.req # Idle /\ t.sent < Total(t.req)
  /\ gets => ~pops /\ Front(f, t).pos = 2 /\ Front(f, t).req.mode = "read"
  /\ h = IF pops THEN Tail(f) ELSE f
  /\ g = IF sends THEN Append(h, WordOf(t)) ELSE h
  /\ Counts(d, t, sends, gets)

LEMMA SlotEdge ==
  ASSUME NEW s \in Slots, NEW f, NEW t, NEW h, NEW g, NEW d, NEW u, Stream(s, f, t),
         NEW pops \in BOOLEAN, NEW sends \in BOOLEAN, NEW gets \in BOOLEAN,
         Passing(f, h, g, t, d, pops, sends, gets), u = Released(d)
  PROVE  Edge(s, f, t, g, u, pops, gets)
<1> USE DEF Passing
<1>1. /\ Stream(s, h, t)
      /\ pops => After(Head(f), Front(h, t)) /\ Len(h) = Len(f) - 1
      /\ ~pops => h = f
  BY StreamPops, StreamFacts
<1>2. h \in Seq(Words(s)) /\ Len(h) \in Nat /\ ThreadType(s, t) /\ f \in Seq(Words(s)) /\ Len(f) \in Nat
  BY <1>1, StreamFacts
<1>3. CASE sends
  <2>1. ~gets
    <3>1. ASSUME gets PROVE t.sent = 2 /\ t.req.mode = "read"
      BY <1>2, <3>1, ReaderWaits
    <3>2. Total(t.req) \in Nat /\ Total(t.req) = IF t.req.mode = "read" THEN 2 ELSE t.req.size + 2
      BY <1>2, <1>3, RequestType DEF ThreadType
    <3> QED
      BY <1>3, <3>1, <3>2
  <2>2. OneSent(d, t)
    BY <1>3, <2>1 DEF Counts, OneSent
  <2>3. Grown(g, h, WordOf(t))
    BY <1>3 DEF Grown
  <2>4. Stream(s, g, u) /\ Front(g, u) = Front(h, t) /\ Len(g) = Len(h) + 1 /\ u.got = t.got
    <3>1. t.req # Idle /\ t.sent < Total(t.req)
      BY <1>3
    <3> QED
      BY <1>1, <2>2, <2>3, <3>1, StreamGrows
  <2> QED
    BY <1>1, <1>2, <2>1, <2>4 DEF Edge
<1>4. CASE ~sends
  <2>1. g = h
    BY <1>2, <1>4
  <2>2. CASE gets
    <3>1. OneGot(d, t) /\ h = f /\ ~pops
      BY <1>1, <1>4, <2>2 DEF Counts, OneGot
    <3>2. /\ f = << >> /\ Stream(s, f, u)
          /\ IF t.got + 1 = t.req.size THEN Front(f, u).pos = 0 /\ u.got = 0
             ELSE Front(f, u) = Front(f, t) /\ u.got = t.got + 1
      BY <2>2, <3>1, StreamGets
    <3>3. Front(f, t).req = t.req
      BY <3>2 DEF Front, WordOf
    <3> QED
      BY <1>2, <2>1, <2>2, <3>1, <3>2, <3>3 DEF Edge
  <2>3. CASE ~gets
    <3>1. NoneMoved(d, t)
      BY <1>4, <2>3 DEF Counts, NoneMoved
    <3>2. Stream(s, h, u) /\ Front(h, u) = Front(h, t) /\ u.got = t.got
      BY <1>1, <3>1, StreamRests
    <3> QED
      BY <1>1, <1>2, <2>1, <2>3, <3>2 DEF Edge
  <2> QED
    BY <2>2, <2>3
<1> QED
  BY <1>3, <1>4

Ahead(s) == Front(fifo[s], thread[s])

\* One edge of all slots: only the one that is let through loses words or gets
\* data.
LEMMA SlotsEdge ==
  ASSUME Types, Streams, NEW go \in BOOLEAN, NEW pushing \in SUBSET Pushers, Threads(pushing, go), Fifos(pushing, go),
         NEW pops \in BOOLEAN, NEW gets \in BOOLEAN,
         pops <=> (IN_S_Rd(go) /\ fifo[sel2mux] # << >>), gets <=> OUT_M_Wr(go),
         gets => ~pops /\ Ahead(sel2mux).pos = 2 /\ Ahead(sel2mux).req.mode = "read"
  PROVE  /\ Streams' /\ DOMAIN thread' = Slots
         /\ Edge(sel2mux, fifo[sel2mux], thread[sel2mux], fifo'[sel2mux], thread'[sel2mux], pops, gets)
         /\ \A s \in Slots \ {sel2mux} :
              Front(fifo'[s], thread'[s]) = Ahead(s) /\ thread'[s].got = thread[s].got /\ Len(fifo'[s]) >= Len(fifo[s])
<1>1. ASSUME NEW s \in Slots, NEW p \in BOOLEAN, NEW r \in BOOLEAN,
             p <=> (s = sel2mux /\ pops), r <=> (s = sel2mux /\ gets)
      PROVE  Edge(s, fifo[s], thread[s], fifo'[s], thread'[s], p, r)
  <2> DEFINE h == IF p THEN Tail(fifo[s]) ELSE fifo[s]
             sends == s \in pushing
             t == thread[s]
             d == [t EXCEPT !.sent = IF sends THEN t.sent + 1 ELSE t.sent, !.got = IF r THEN t.got + 1 ELSE t.got]
  <2>1. thread'[s] = Released(d)
    BY <1>1 DEF Threads, Moved, Released
  <2>4. Counts(d, t, sends, r)
    <3>1. DOMAIN t = {"req", "sent", "got"}
      BY DEF Streams, Stream, ThreadType
    <3> HIDE DEF t
    <3> QED
      BY <3>1 DEF Counts, Counting
  <2>2. fifo'[s] = IF sends THEN Append(h, WordOf(thread[s])) ELSE h
    <3>1. Popped(s, go) = h
      BY <1>1 DEF Popped
    <3> QED
      BY <3>1 DEF Fifos
  <2>3. /\ Stream(s, fifo[s], thread[s]) /\ sends \in BOOLEAN
        /\ sends => thread[s].req # Idle /\ thread[s].sent < Total(thread[s].req)
        /\ p => fifo[s] # << >>
        /\ r => ~p /\ Front(fifo[s], thread[s]).pos = 2 /\ Front(fifo[s], thread[s]).req.mode = "read"
    BY <1>1 DEF Streams, Pushers, Sends, Ahead
  <2>5. h = IF p THEN Tail(fifo[s]) ELSE fifo[s]
    OBVIOUS
  <2>6. \A g : g = fifo'[s] => Passing(fifo[s], h, g, t, d, p, sends, r)
    <3> HIDE DEF h, sends, d
    <3> QED
      BY <2>2, <2>3, <2>4, <2>5 DEF Passing
  <2> HIDE DEF h, sends, d
  <2> QED
    BY <2>1, <2>3, <2>6, SlotEdge
<1>2. ASSUME NEW s \in Slots \ {sel2mux} PROVE Edge(s, fifo[s], thread[s], fifo'[s], thread'[s], FALSE, FALSE)
  BY <1>1
<1>3. Edge(sel2mux, fifo[sel2mux], thread[sel2mux], fifo'[sel2mux], thread'[sel2mux], pops, gets)
  BY <1>1 DEF Types
<1>4. Streams'
  <2>1. \A s \in Slots : Stream(s, fifo'[s], thread'[s])
    BY <1>2, <1>3 DEF Edge
  <2> QED
    BY <2>1 DEF Streams
<1>5. DOMAIN thread' = Slots
  BY DEF Threads
<1>6. \A s \in Slots \ {sel2mux} :
        Front(fifo'[s], thread'[s]) = Ahead(s) /\ thread'[s].got = thread[s].got /\ Len(fifo'[s]) >= Len(fifo[s])
  BY <1>2 DEF Edge, Ahead
<1> QED
  BY <1>3, <1>4, <1>5, <1>6

-----------------------------------------------------------------------------
(***************************************************************************)
(* The clock edges of each phase.                                          *)
(***************************************************************************)

FsmFields == {"state", "mode", "size"}
ConvFields == {"state", "slot", "mode", "remaining", "next", "size", "addr", "rd", "data", "fill", "mux_sel"}
SrvFields == {"at", "slot", "mode", "n", "addr"}

LEMMA LineLengths ==
  ASSUME Streams
  PROVE  \A s \in Slots : Len(fifo[s]) \in Nat
BY StreamFacts DEF Streams

\* While the slot that is let through loses no word, whoever is chosen goes on asking.
LEMMA TurnKept ==
  ASSUME Types, Streams, Streams', Turn, last_served' = next_served,
         sel2mux' = IF fsm.state = "MODE_LENGTH" THEN last_served ELSE sel2mux,
         \A s \in Slots \ {sel2mux} : Len(fifo'[s]) >= Len(fifo[s]),
         fsm.state = "MODE_LENGTH" =>
           Len(fifo'[sel2mux]) >= Len(fifo[sel2mux]) \/ (last_served = sel2mux /\ requests(sel2mux))
  PROVE  Turn' /\ last_served' \in Slots /\ sel2mux' \in Slots
<1>1. /\ next_served \in Slots /\ last_served \in Slots /\ sel2mux \in Slots
      /\ next_served # last_served => Len(fifo[next_served]) > 1
      /\ Len(fifo[last_served]) > 1 => next_served = last_served
  BY RoundRobin DEF Types, requests
<1> DEFINE n == next_served
<1>2. n \in Slots /\ Len(fifo[n]) \in Nat /\ Len(fifo'[n]) \in Nat
  <2>1. \A s \in Slots : Len(fifo'[s]) \in Nat
    BY StreamFacts DEF Streams
  <2> QED
    BY <1>1, <2>1, LineLengths
<1> HIDE DEF n
<1>3. n # sel2mux' => Len(fifo'[n]) > 1
  <2>1. CASE fsm.state = "MODE_LENGTH"
    BY <1>1, <1>2, <2>1 DEF n, requests
  <2>2. CASE fsm.state # "MODE_LENGTH"
    BY <1>1, <1>2, <2>2 DEF n, Turn, requests
  <2> QED
    BY <2>1, <2>2
<1> QED
  BY <1>1, <1>3 DEF Turn, requests, n

\* The memory between two chunks stays there while the converter shows it nothing.
LEMMA RestingEdge ==
  ASSUME Types, Resting, NEW go \in BOOLEAN, Server(go), conv.mux_sel, conv.fill = 0
  PROVE  Resting' /\ DOMAIN srv' = SrvFields /\ ~OUT_M_Wr(go)
<1>1. srv.at \in {"header", "complete"} /\ DOMAIN srv = SrvFields /\ OUT_S_Fill = 0
  BY DEF Types, Resting, OUT_S_Fill, SrvFields
<1>2. srv' = srv \/ (srv.at = "complete" /\ srv' = [srv EXCEPT !.at = "header", !.n = 0, !.addr = 0])
  BY <1>1 DEF Server
<1>3. ~OUT_M_Wr(go)
  BY <1>1 DEF OUT_M_Wr
<1> QED
  BY <1>1, <1>2, <1>3 DEF Resting, SrvFields

LEMMA FetchingEdge ==
  ASSUME IInv, Fetching, NEW go \in BOOLEAN, NEW pushing \in SUBSET Pushers, Clock(pushing, go)
  PROVE  IInv'
<1> DEFINE s == sel2mux
           f == fifo[s]
           w == Head(f)
<1>1. Types /\ Streams /\ Waiting /\ Turn /\ s \in Slots /\ last_served \in Slots /\ conv.mux_sel /\ Threads(pushing, go)
      /\ Fifos(pushing, go) /\ last_served' = next_served
  BY DEF IInv, Types, Clock, Fetching
<1>2. Resting' /\ DOMAIN srv' = SrvFields /\ ~OUT_M_Wr(go)
  BY RestingEdge DEF IInv, Fetching, Clock
<1>3. IN_S_Rd(go) <=> conv.rd
  BY <1>1 DEF IN_S_Rd
<1>4. /\ sel2mux' = last_served
      /\ fsm' = [state |-> IF IN_S_Rd(go) THEN "ADDRESS" ELSE "MODE_LENGTH",
                 mode |-> IF IN_S_Data.is = "read" THEN "read" ELSE "write",
                 size |-> IN_S_Data.v]
  BY DEF Fetching, Clock, ArbiterFsm, FsmStep, TakeHeader
<1>5. \A u \in Slots : Ahead(u).pos = 0 /\ thread[u].got = 0
  BY DEF IInv, Waiting, Fetching, Ahead
<1>6. CASE conv.state = "IDLE"
  <2>1. ~conv.rd
    BY <1>6 DEF Fetching
  <2>2. conv' = IF IN_S_Fill > 1 THEN [Quiet(conv, "MODE_LENGTH") EXCEPT !.rd = TRUE] ELSE Quiet(conv, "IDLE")
    BY <1>6 DEF Clock, Converter
  <2>3. /\ DOMAIN conv' = ConvFields /\ conv'.mux_sel /\ conv'.fill = 0 /\ conv'.rd \in BOOLEAN /\ conv'.mux_sel \in BOOLEAN
        /\ IF IN_S_Fill > 1 THEN conv'.state = "MODE_LENGTH" /\ conv'.rd ELSE conv'.state = "IDLE" /\ ~conv'.rd
    BY <1>1, <2>2 DEF Types, Quiet, ConvFields
  <2>4. /\ Streams' /\ DOMAIN thread' = Slots
        /\ Edge(s, f, thread[s], fifo'[s], thread'[s], FALSE, FALSE)
        /\ \A u \in Slots \ {s} : /\ Front(fifo'[u], thread'[u]) = Ahead(u) /\ thread'[u].got = thread[u].got
                                  /\ Len(fifo'[u]) >= Len(fifo[u])
    BY <1>1, <1>2, <1>3, <2>1, SlotsEdge
  <2>5. \A u \in Slots : /\ Front(fifo'[u], thread'[u]) = Ahead(u) /\ thread'[u].got = thread[u].got
                         /\ Len(fifo'[u]) >= Len(fifo[u])
    BY <2>4 DEF Edge, Ahead
  <2>6. Turn' /\ last_served' \in Slots /\ sel2mux' \in Slots
    BY <1>1, <1>4, <2>4, <2>5, TurnKept DEF Fetching
  <2>7. fsm'.state = "MODE_LENGTH" /\ DOMAIN fsm' = FsmFields
    BY <1>3, <1>4, <2>1 DEF FsmFields
  <2>8. IN_S_Fill > 1 => last_served' = sel2mux' /\ Len(fifo'[sel2mux']) > 1
    <3>1. ASSUME IN_S_Fill > 1 PROVE requests(last_served)
      BY <1>1, <3>1 DEF IN_S_Fill, Turn, requests
    <3>2. Len(fifo[last_served]) \in Nat /\ Len(fifo'[last_served]) \in Nat
      <4>1. \A u \in Slots : Len(fifo'[u]) \in Nat
        BY <2>4, StreamFacts DEF Streams
      <4> QED
        BY <1>1, <4>1, LineLengths
    <3> QED
      BY <1>1, <1>4, <2>5, <3>1, <3>2, RoundRobin DEF requests
  <2>9. Waiting' /\ Types'
    BY <1>2, <1>5, <2>3, <2>4, <2>5, <2>6, <2>7 DEF Waiting, Types, FsmFields, ConvFields, SrvFields
  <2>10. Fetching'
    BY <1>2, <2>3, <2>7, <2>8 DEF Fetching, requests
  <2> QED
    BY <2>4, <2>6, <2>9, <2>10 DEF IInv
<1>7. CASE conv.state # "IDLE"
  <2>1. conv.state = "MODE_LENGTH" /\ conv.rd /\ last_served = s /\ Len(f) > 1
    BY <1>7 DEF Fetching, requests
  <2>2. f # << >> /\ Stream(s, f, thread[s]) /\ w \in Words(s) /\ Front(f, thread[s]) = w /\ Len(f) \in Nat
    <3>1. Stream(s, f, thread[s])
      BY <1>1 DEF Streams
    <3>2. Len(<< >>) = 0
      OBVIOUS
    <3> QED
      BY <1>1, <2>1, <3>1, <3>2, StreamFacts
  <2>3. w.pos = 0 /\ w.req \in Requests[s]
    BY <1>1, <1>5, <2>2 DEF Ahead, Words
  <2>4. w.req.mode \in {"read", "write"} /\ Total(w.req) \in Nat /\ Total(w.req) >= 2
    BY <1>1, <2>3, RequestType
  <2>5. IN_S_Data = Word(s, w.req.mode, w.req.size)
    BY <2>2, <2>3 DEF IN_S_Data, WordAt
  <2>6. conv' = [Quiet(conv, "ADDRESS") EXCEPT !.rd = TRUE,
                   !.slot = IN_S_Data.slot, !.mode = IN_S_Data.is, !.remaining = IN_S_Data.v,
                   !.size = 0, !.addr = 0, !.next = 0]
    BY <2>1 DEF Clock, Converter
  <2>7. /\ DOMAIN conv' = ConvFields /\ conv'.mux_sel /\ conv'.fill = 0 /\ conv'.rd /\ conv'.rd \in BOOLEAN
        /\ conv'.mux_sel \in BOOLEAN /\ conv'.state = "ADDRESS" /\ conv'.slot = s /\ conv'.mode = w.req.mode
        /\ conv'.remaining = w.req.size
    BY <1>1, <2>5, <2>6 DEF Types, Quiet, ConvFields, Word
  <2>8. fsm'.state = "ADDRESS" /\ DOMAIN fsm' = FsmFields /\ fsm'.mode = w.req.mode /\ fsm'.size = w.req.size
    BY <1>3, <1>4, <2>1, <2>4, <2>5 DEF FsmFields, Word
  <2>9. /\ Streams' /\ DOMAIN thread' = Slots
        /\ Edge(s, f, thread[s], fifo'[s], thread'[s], TRUE, FALSE)
        /\ \A u \in Slots \ {s} : /\ Front(fifo'[u], thread'[u]) = Ahead(u) /\ thread'[u].got = thread[u].got
                                  /\ Len(fifo'[u]) >= Len(fifo[u])
    BY <1>1, <1>2, <1>3, <2>1, <2>2, SlotsEdge
  <2>10. /\ After(w, Front(fifo'[s], thread'[s])) /\ Len(fifo'[s]) >= Len(f) - 1
         /\ thread'[s].got = 0
    BY <1>1, <1>5, <2>9 DEF Edge
  <2>11. Front(fifo'[s], thread'[s]).pos = 1 /\ Front(fifo'[s], thread'[s]).req = w.req
    BY <2>3, <2>4, <2>10 DEF After
  <2>12. fifo'[s] # << >> /\ Front(fifo'[s], thread'[s]) = Head(fifo'[s])
    <3>1. Len(fifo'[s]) \in Nat
      BY <1>1, <2>9, StreamFacts DEF Streams
    <3>2. Len(<< >>) = 0
      OBVIOUS
    <3>3. Len(fifo'[s]) > 0
      BY <2>1, <2>2, <2>10, <3>1
    <3> QED
      BY <3>2, <3>3 DEF Front
  <2>13. sel2mux' = s
    BY <1>4, <2>1
  <2>14. Turn' /\ last_served' \in Slots /\ sel2mux' \in Slots
    BY <1>1, <1>4, <2>1, <2>9, TurnKept DEF Fetching, requests
  <2>15. Waiting' /\ Types'
    BY <1>2, <1>5, <2>7, <2>8, <2>9, <2>13, <2>14 DEF Waiting, Types, FsmFields, ConvFields, SrvFields
  <2>16. TakingAddress'
    BY <1>2, <2>7, <2>8, <2>10, <2>11, <2>12, <2>13 DEF TakingAddress
  <2> QED
    BY <2>9, <2>14, <2>15, <2>16 DEF IInv
<1> QED
  BY <1>6, <1>7

\* The address is taken, and both know all of the request.
LEMMA AddressEdge ==
  ASSUME IInv, TakingAddress, NEW go \in BOOLEAN, NEW pushing \in SUBSET Pushers, Clock(pushing, go)
  PROVE  IInv'
<1> DEFINE s == sel2mux
           f == fifo[s]
           w == Head(f)
<1>0. PICK q : q = w.req
  OBVIOUS
<1>1. Types /\ Streams /\ Waiting /\ Turn /\ s \in Slots /\ last_served \in Slots /\ conv.mux_sel /\ Threads(pushing, go)
      /\ Fifos(pushing, go) /\ last_served' = next_served /\ conv.rd /\ f # << >> /\ thread[s].got = 0
      /\ w.pos = 1 /\ conv.slot = s /\ conv.mode = q.mode /\ fsm.mode = q.mode
      /\ conv.remaining = q.size /\ fsm.size = q.size /\ fsm.state = "ADDRESS" /\ conv.state = "ADDRESS"
  BY <1>0 DEF IInv, Types, Clock, TakingAddress
<1>2. Resting' /\ DOMAIN srv' = SrvFields /\ ~OUT_M_Wr(go)
  BY RestingEdge DEF IInv, TakingAddress, Clock
<1>3. IN_S_Rd(go) <=> TRUE
  BY <1>1 DEF IN_S_Rd
<1>4. Stream(s, f, thread[s]) /\ w \in Words(s) /\ Len(f) \in Nat
  <2>1. Stream(s, f, thread[s])
    BY <1>1 DEF Streams
  <2> QED
    BY <1>1, <2>1, StreamFacts
<1>5. q \in Requests[s]
  BY <1>0, <1>4 DEF Words
<1>6. q.mode \in {"read", "write"} /\ q.size \in Nat \ {0} /\ q.addr \in Nat
      /\ Total(q) = IF q.mode = "read" THEN 2 ELSE q.size + 2
  BY <1>1, <1>5, RequestType
<1>7. IN_S_Data = Word(s, "address", q.addr)
  BY <1>0, <1>1 DEF IN_S_Data, WordAt
<1>8. sel2mux' = s /\ fsm' = [fsm EXCEPT !.state = IF fsm.mode = "read" THEN "DATA_READ" ELSE "DATA_WRITE"]
  BY <1>1 DEF Clock, ArbiterFsm, FsmStep, TakeAddress
<1>9. DOMAIN fsm' = FsmFields /\ fsm'.size = q.size /\ fsm'.state = IF q.mode = "read" THEN "DATA_READ" ELSE "DATA_WRITE"
  BY <1>1, <1>8 DEF Types, FsmFields
<1>10. conv' = [Quiet(conv, "CALC") EXCEPT !.next = IN_S_Data.v]
  BY <1>1 DEF Clock, Converter
<1>11. /\ DOMAIN conv' = ConvFields /\ conv'.mux_sel /\ conv'.fill = 0 /\ ~conv'.rd /\ conv'.rd \in BOOLEAN
       /\ conv'.mux_sel \in BOOLEAN /\ conv'.state = "CALC" /\ conv'.slot = s /\ conv'.mode = q.mode
       /\ conv'.remaining = q.size /\ conv'.next = q.addr
  BY <1>1, <1>7, <1>10 DEF Types, Quiet, ConvFields, Word
<1>12. /\ Streams' /\ DOMAIN thread' = Slots
       /\ Edge(s, f, thread[s], fifo'[s], thread'[s], TRUE, FALSE)
       /\ \A u \in Slots \ {s} : /\ Front(fifo'[u], thread'[u]) = Ahead(u) /\ thread'[u].got = thread[u].got
                                 /\ Len(fifo'[u]) >= Len(fifo[u])
  BY <1>1, <1>2, <1>3, SlotsEdge
<1>13. After(w, Front(fifo'[s], thread'[s])) /\ thread'[s].got = 0
  BY <1>1, <1>12 DEF Edge
<1>14. Front(fifo'[s], thread'[s]).pos = 2 /\ Front(fifo'[s], thread'[s]).req = q
  BY <1>0, <1>1, <1>6, <1>13 DEF After
<1>15. Turn' /\ last_served' \in Slots /\ sel2mux' \in Slots
  BY <1>1, <1>8, <1>12, TurnKept
<1>16. Waiting' /\ Types'
  BY <1>1, <1>2, <1>8, <1>9, <1>11, <1>12, <1>15 DEF Waiting, Types, FsmFields, ConvFields, SrvFields, Ahead
<1>17. Carrying(sel2mux, q)'
  <2>1. Front(fifo'[s], thread'[s]).pos = IF q.mode = "read" THEN 2 ELSE 2 + q.size - conv'.remaining
    BY <1>6, <1>11, <1>14
  <2>2. thread'[s].got = IF q.mode = "read" THEN q.size - conv'.remaining ELSE 0
    BY <1>6, <1>11, <1>13
  <2> QED
    BY <1>5, <1>6, <1>8, <1>9, <1>11, <2>1, <2>2 DEF Carrying
<1> QED
  <2>1. Cutting(q)'
    BY <1>2, <1>6, <1>11 DEF Cutting, Here
  <2>2. Front(fifo[sel2mux], thread[sel2mux])'.req = q
    BY <1>8, <1>14
  <2> QED
    BY <1>12, <1>15, <1>16, <1>17, <2>1, <2>2 DEF IInv, Serving

Registers == DOMAIN fsm' = FsmFields /\ DOMAIN thread' = Slots /\ last_served' \in Slots /\ sel2mux' = sel2mux

\* What the request under way is made of.
LEMMA CarryingFacts ==
  ASSUME Types, Streams, NEW q, Carrying(sel2mux, q)
  PROVE  /\ sel2mux \in Slots /\ q.mode \in {"read", "write"} /\ q.size \in Nat \ {0} /\ q.addr \in Nat
         /\ Total(q) = IF q.mode = "read" THEN 2 ELSE q.size + 2
         /\ fsm.state = IF q.mode = "read" THEN "DATA_READ" ELSE "DATA_WRITE"
         /\ conv.remaining \in Nat \ {0} /\ conv.remaining <= q.size /\ Here(q) \in Nat
         /\ Len(fifo[sel2mux]) \in Nat
<1>1. sel2mux \in Slots /\ q \in Requests[sel2mux] /\ conv.remaining \in 1 .. q.size
      /\ fsm.state = IF q.mode = "read" THEN "DATA_READ" ELSE "DATA_WRITE"
  BY DEF Types, Carrying
<1>2. /\ q.mode \in {"read", "write"} /\ q.size \in Nat \ {0} /\ q.addr \in Nat
      /\ Total(q) = IF q.mode = "read" THEN 2 ELSE q.size + 2
  BY <1>1, RequestType
<1> QED
  BY <1>1, <1>2, LineLengths DEF Here

\* An edge at which no word moves.
LEMMA PauseEdge ==
  ASSUME IInv, NEW q, Carrying(sel2mux, q), q = Ahead(sel2mux).req,
         NEW go \in BOOLEAN, NEW pushing \in SUBSET Pushers, Clock(pushing, go),
         ~IN_S_Rd(go), ~OUT_M_Wr(go),
         ~conv'.rd, conv'.slot = conv.slot, conv'.mode = conv.mode, conv'.remaining = conv.remaining
  PROVE  /\ Streams' /\ Turn' /\ Waiting' /\ Registers
         /\ Carrying(sel2mux, q)' /\ Front(fifo[sel2mux], thread[sel2mux])'.req = q
         /\ Len(fifo[sel2mux]) \in Nat /\ Len(fifo'[sel2mux]) \in Nat /\ Len(fifo'[sel2mux]) >= Len(fifo[sel2mux])
<1> DEFINE s == sel2mux
<1>1. /\ Types /\ Streams /\ Waiting /\ Turn /\ s \in Slots /\ Threads(pushing, go)
      /\ Fifos(pushing, go) /\ last_served' = next_served /\ ArbiterFsm(go)
  BY DEF IInv, Types, Clock
<1>2. /\ q.mode \in {"read", "write"} /\ conv.remaining \in Nat \ {0} /\ Len(fifo[s]) \in Nat
      /\ fsm.state = IF q.mode = "read" THEN "DATA_READ" ELSE "DATA_WRITE"
  BY <1>1, CarryingFacts
<1>3. fsm.size = conv.remaining /\ DOMAIN fsm = FsmFields
  BY <1>1 DEF Types, Carrying, FsmFields
<1>4. sel2mux' = s /\ DOMAIN fsm' = FsmFields /\ fsm'.state = fsm.state /\ fsm'.size = fsm.size
  <2>1. sel2mux' = s /\ (Count(OUT_M_Wr(go)) \/ Count(IN_S_Rd(go)))
    BY <1>1, <1>2 DEF ArbiterFsm, FsmStep
  <2>2. fsm' = [fsm EXCEPT !.size = fsm.size - 0, !.state = IF fsm.size - 0 = 0 THEN "MODE_LENGTH" ELSE fsm.state]
    BY <2>1 DEF Count
  <2> QED
    BY <1>2, <1>3, <2>1, <2>2 DEF FsmFields
<1>5. /\ Streams' /\ DOMAIN thread' = Slots
      /\ Edge(s, fifo[s], thread[s], fifo'[s], thread'[s], FALSE, FALSE)
      /\ \A u \in Slots \ {s} : /\ Front(fifo'[u], thread'[u]) = Ahead(u) /\ thread'[u].got = thread[u].got
                                /\ Len(fifo'[u]) >= Len(fifo[u])
  BY <1>1, SlotsEdge
<1>6. /\ Front(fifo'[s], thread'[s]) = Ahead(s) /\ thread'[s].got = thread[s].got
      /\ Len(fifo'[s]) >= Len(fifo[s]) /\ Len(fifo'[s]) \in Nat
  <2>1. Stream(s, fifo'[s], thread'[s])
    BY <1>1, <1>5 DEF Streams
  <2> QED
    BY <1>1, <1>5, <2>1, StreamFacts DEF Edge, Ahead
<1>7. Turn' /\ last_served' \in Slots /\ sel2mux' \in Slots
  BY <1>1, <1>2, <1>4, <1>5, TurnKept
<1>8. Waiting'
  BY <1>1, <1>2, <1>4, <1>5 DEF Waiting, Ahead
<1>9. Carrying(sel2mux, q)'
  BY <1>4, <1>6 DEF Carrying, Ahead
<1> QED
  BY <1>2, <1>4, <1>5, <1>6, <1>7, <1>8, <1>9 DEF Registers

\* An edge at which a word of the request moves, its last one or not.
LEMMA MoveEdge ==
  ASSUME IInv, NEW q, Carrying(sel2mux, q), q = Ahead(sel2mux).req,
         NEW go \in BOOLEAN, NEW pushing \in SUBSET Pushers, Clock(pushing, go),
         IF q.mode = "read" THEN OUT_M_Wr(go) /\ ~IN_S_Rd(go)
         ELSE ~OUT_M_Wr(go) /\ IN_S_Rd(go) /\ fifo[sel2mux] # << >>,
         ~conv'.rd, conv'.slot = conv.slot, conv'.mode = conv.mode, conv'.remaining = conv.remaining - 1
  PROVE  /\ Streams' /\ Turn' /\ Waiting' /\ Registers
         /\ IF conv.remaining = 1 THEN fsm'.state = "MODE_LENGTH"
            ELSE Carrying(sel2mux, q)' /\ Front(fifo[sel2mux], thread[sel2mux])'.req = q
         /\ Len(fifo[sel2mux]) \in Nat /\ Len(fifo'[sel2mux]) \in Nat /\ Len(fifo'[sel2mux]) >= Len(fifo[sel2mux]) - 1
<1> DEFINE s == sel2mux
           a == Front(fifo'[s], thread'[s])
<1>1. /\ Types /\ Streams /\ Waiting /\ Turn /\ s \in Slots /\ Threads(pushing, go)
      /\ Fifos(pushing, go) /\ last_served' = next_served /\ ArbiterFsm(go)
  BY DEF IInv, Types, Clock
<1>2. /\ q.mode \in {"read", "write"} /\ conv.remaining \in Nat \ {0} /\ Len(fifo[s]) \in Nat
      /\ fsm.state = (IF q.mode = "read" THEN "DATA_READ" ELSE "DATA_WRITE") /\ conv.remaining <= q.size
      /\ q.size \in Nat \ {0} /\ Total(q) = IF q.mode = "read" THEN 2 ELSE q.size + 2
  BY <1>1, CarryingFacts
<1>3. fsm.size = conv.remaining /\ DOMAIN fsm = FsmFields
  BY <1>1 DEF Types, Carrying, FsmFields
<1>4. /\ sel2mux' = s /\ DOMAIN fsm' = FsmFields /\ fsm'.size = conv.remaining - 1
      /\ fsm'.state = IF conv.remaining = 1 THEN "MODE_LENGTH" ELSE fsm.state
  <2>1. sel2mux' = s /\ Count(IF q.mode = "read" THEN OUT_M_Wr(go) ELSE IN_S_Rd(go))
    BY <1>1, <1>2 DEF ArbiterFsm, FsmStep
  <2>2. fsm' = [fsm EXCEPT !.size = fsm.size - 1, !.state = IF fsm.size - 1 = 0 THEN "MODE_LENGTH" ELSE fsm.state]
    BY <2>1 DEF Count
  <2> QED
    BY <1>2, <1>3, <2>1, <2>2 DEF FsmFields
<1>5. /\ Ahead(s).pos = (IF q.mode = "read" THEN 2 ELSE 2 + q.size - conv.remaining)
      /\ thread[s].got = IF q.mode = "read" THEN q.size - conv.remaining ELSE 0
  BY DEF Carrying, Ahead
<1>6. /\ Streams' /\ DOMAIN thread' = Slots
      /\ \A u \in Slots \ {s} : /\ Front(fifo'[u], thread'[u]) = Ahead(u) /\ thread'[u].got = thread[u].got
                                /\ Len(fifo'[u]) >= Len(fifo[u])
      /\ Len(fifo'[s]) >= Len(fifo[s]) - 1
      /\ IF conv.remaining = 1 THEN a.pos = 0 /\ thread'[s].got = 0
         ELSE /\ a.req = q /\ a.pos = IF q.mode = "read" THEN 2 ELSE 2 + q.size - (conv.remaining - 1)
              /\ thread'[s].got = IF q.mode = "read" THEN q.size - (conv.remaining - 1) ELSE 0
  <2>1. CASE q.mode = "read"
    <3>1. /\ Streams' /\ DOMAIN thread' = Slots
          /\ Edge(s, fifo[s], thread[s], fifo'[s], thread'[s], FALSE, TRUE)
          /\ \A u \in Slots \ {s} : /\ Front(fifo'[u], thread'[u]) = Ahead(u) /\ thread'[u].got = thread[u].got
                                    /\ Len(fifo'[u]) >= Len(fifo[u])
      BY <1>1, <1>5, <2>1, SlotsEdge
    <3>2. /\ Len(fifo'[s]) >= Len(fifo[s])
          /\ IF thread[s].got + 1 = q.size THEN a.pos = 0 /\ thread'[s].got = 0
             ELSE a = Ahead(s) /\ thread'[s].got = thread[s].got + 1
      BY <3>1 DEF Edge, Ahead
    <3>3. Len(fifo'[s]) \in Nat
      BY <1>1, <3>1, StreamFacts DEF Streams
    <3> HIDE DEF a
    <3> QED
      BY <1>2, <1>5, <2>1, <3>1, <3>2, <3>3, SMTT(30)
  <2>2. CASE q.mode # "read"
    <3>1. /\ Streams' /\ DOMAIN thread' = Slots
          /\ Edge(s, fifo[s], thread[s], fifo'[s], thread'[s], TRUE, FALSE)
          /\ \A u \in Slots \ {s} : /\ Front(fifo'[u], thread'[u]) = Ahead(u) /\ thread'[u].got = thread[u].got
                                    /\ Len(fifo'[u]) >= Len(fifo[u])
      BY <1>1, <2>2, SlotsEdge
    <3>2. Len(fifo'[s]) >= Len(fifo[s]) - 1 /\ After(Ahead(s), a) /\ thread'[s].got = 0
      BY <1>5, <2>2, <3>1 DEF Edge, Ahead, Front
    <3>3. Total(q) = q.size + 2 /\ Ahead(s).pos + 1 = 2 + q.size - (conv.remaining - 1)
      BY <1>2, <1>5, <2>2
    <3>4. IF Ahead(s).pos + 1 < Total(q) THEN a.req = q /\ a.pos = Ahead(s).pos + 1 ELSE a.pos = 0
      BY <2>2, <3>2 DEF After
    <3> HIDE DEF a
    <3> QED
      BY <1>2, <2>2, <3>1, <3>2, <3>3, <3>4, SMTT(30)
  <2> QED
    BY <2>1, <2>2
<1>7. Len(fifo'[s]) \in Nat
  BY <1>1, <1>6, StreamFacts DEF Streams
<1>8. Turn' /\ last_served' \in Slots /\ sel2mux' \in Slots
  BY <1>1, <1>2, <1>4, <1>6, TurnKept
<1>9. Waiting'
  BY <1>1, <1>2, <1>4, <1>6 DEF Waiting, Ahead
<1>10. ASSUME conv.remaining # 1 PROVE Carrying(sel2mux, q)' /\ Front(fifo[sel2mux], thread[sel2mux])'.req = q
  <2>1. conv'.remaining \in 1 .. q.size /\ fsm'.size = conv'.remaining /\ fsm'.state = fsm.state
    BY <1>2, <1>4, <1>10
  <2> QED
    BY <1>4, <1>6, <1>10, <2>1 DEF Carrying
<1> QED
  BY <1>2, <1>4, <1>6, <1>7, <1>8, <1>9, <1>10 DEF Registers

ConvTypes == DOMAIN conv = ConvFields /\ conv.rd \in BOOLEAN /\ conv.mux_sel \in BOOLEAN

\* The request goes on.
LEMMA Onward ==
  ASSUME Types, NEW q, Streams', Turn', Waiting', Registers, ConvTypes', DOMAIN srv' = SrvFields,
         Carrying(sel2mux, q)', Front(fifo[sel2mux], thread[sel2mux])'.req = q,
         Cutting(q)' \/ Showing(q)' \/ Moving(q)'
  PROVE  IInv'
<1>1. Types'
  BY DEF Types, Registers, ConvTypes, FsmFields, ConvFields, SrvFields
<1>2. Serving'
  BY DEF Serving
<1> QED
  BY <1>1, <1>2 DEF IInv

\* A chunk is cut off.
LEMMA CalcEdge ==
  ASSUME IInv, NEW q, Carrying(sel2mux, q), q = Ahead(sel2mux).req, Cutting(q),
         NEW go \in BOOLEAN, NEW pushing \in SUBSET Pushers, Clock(pushing, go)
  PROVE  IInv'
<1> DEFINE n == calc_transfer_size(conv.next % Page, conv.remaining)
<1>1. Types /\ Streams /\ Server(go) /\ Converter(go) /\ conv.mux_sel /\ conv.fill = 0 /\ Resting /\ conv.state = "CALC"
      /\ conv.next = Here(q) /\ ~conv.rd
  BY DEF IInv, Clock, Cutting, Carrying
<1>2. Resting' /\ DOMAIN srv' = SrvFields /\ ~OUT_M_Wr(go) /\ ~IN_S_Rd(go)
  BY <1>1, RestingEdge DEF IN_S_Rd
<1>3. conv.next \in Nat /\ conv.remaining \in Nat \ {0}
  BY <1>1, CarryingFacts
<1>4. Fits(conv.next, n) /\ n \in 1 .. conv.remaining
  BY <1>3, NewChunkFits
<1>5. conv' = Show([conv EXCEPT !.size = n, !.addr = conv.next, !.next = conv.next + n], "WRITE_MODE_LENGTH",
                   Word(conv.slot, conv.mode, n), 2)
  <2>1. conv' = AfterCalc
    BY <1>1 DEF Converter
  <2>2. DOMAIN conv = ConvFields
    BY <1>1 DEF Types, ConvFields
  <2> QED
    BY <2>1, <2>2 DEF AfterCalc, Header, ConvFields
<1> HIDE DEF n
<1>6. /\ ConvTypes' /\ conv'.mux_sel /\ ~conv'.rd /\ conv'.state = "WRITE_MODE_LENGTH" /\ conv'.slot = conv.slot
      /\ conv'.mode = conv.mode /\ conv'.remaining = conv.remaining /\ conv'.size = n /\ conv'.addr = conv.next
      /\ conv'.next = conv.next + n /\ conv'.data = Word(conv.slot, conv.mode, n)
  BY <1>1, <1>5 DEF Types, ConvTypes, ConvFields, Show
<1>7. /\ Streams' /\ Turn' /\ Waiting' /\ Registers
      /\ Carrying(sel2mux, q)' /\ Front(fifo[sel2mux], thread[sel2mux])'.req = q
  BY <1>2, <1>6, PauseEdge
<1>8. Showing(q)'
  <2>1. conv'.addr = Here(q)'
    BY <1>1, <1>6 DEF Here
  <2>2. conv'.data = Header(conv')
    BY <1>6 DEF Header
  <2> QED
    BY <1>2, <1>4, <1>6, <2>1, <2>2 DEF Showing
<1> QED
  BY <1>1, <1>2, <1>6, <1>7, <1>8, Onward

\* The header of the chunk is shown until the memory has taken it.
LEMMA HeaderEdge ==
  ASSUME IInv, NEW q, Carrying(sel2mux, q), q = Ahead(sel2mux).req, Showing(q), conv.state = "WRITE_MODE_LENGTH",
         NEW go \in BOOLEAN, NEW pushing \in SUBSET Pushers, Clock(pushing, go)
  PROVE  IInv'
<1>1. /\ Types /\ Streams /\ Server(go) /\ Converter(go) /\ conv.mux_sel /\ ~conv.rd
      /\ srv.at \in {"header", "complete", "cmd"} /\ conv.data = Header(conv)
  BY DEF IInv, Clock, Showing, Carrying, Resting
<1>2. ~OUT_M_Wr(go) /\ ~IN_S_Rd(go) /\ (OUT_S_Rd(go) <=> srv.at = "cmd") /\ OUT_S_Data = Word(conv.slot, conv.mode, conv.size)
  BY <1>1 DEF OUT_M_Wr, IN_S_Rd, OUT_S_Rd, OUT_S_Data, Header
<1>3. /\ ConvTypes' /\ conv'.mux_sel /\ ~conv'.rd /\ conv'.slot = conv.slot /\ conv'.mode = conv.mode
      /\ conv'.remaining = conv.remaining /\ conv'.size = conv.size /\ conv'.addr = conv.addr /\ conv'.next = conv.next
      /\ IF srv.at = "cmd" THEN conv'.state = "WRITE_ADDRESS" /\ conv'.data = Address(conv)
         ELSE conv'.state = "WRITE_MODE_LENGTH" /\ conv'.data = Header(conv)
  <2>1. conv' = IF srv.at = "cmd" THEN Show(conv, "WRITE_ADDRESS", Address(conv), 1)
                ELSE Show(conv, "WRITE_MODE_LENGTH", Header(conv), 2)
    BY <1>1, <1>2 DEF Converter
  <2> QED
    BY <1>1, <2>1 DEF Types, ConvTypes, ConvFields, Show
<1>4. /\ Streams' /\ Turn' /\ Waiting' /\ Registers
      /\ Carrying(sel2mux, q)' /\ Front(fifo[sel2mux], thread[sel2mux])'.req = q
  BY <1>2, <1>3, PauseEdge
<1>5. conv'.addr = Here(q)' /\ Header(conv') = Header(conv) /\ Address(conv') = Address(conv)
  BY <1>3 DEF Showing, Here, Header, Address
<1>6. CASE srv.at = "cmd"
  <2>1. srv' = [at |-> "address", slot |-> conv.slot, mode |-> conv.mode, n |-> conv.size, addr |-> 0]
    BY <1>2, <1>6 DEF Server, Clock, Word
  <2>2. Showing(q)'
    BY <1>3, <1>5, <1>6, <2>1 DEF Showing
  <2> QED
    BY <1>1, <1>3, <1>4, <2>1, <2>2, Onward DEF SrvFields
<1>7. CASE srv.at # "cmd"
  <2>1. srv'.at \in {"header", "complete", "cmd"} /\ DOMAIN srv' = SrvFields
    BY <1>1, <1>7 DEF Server, Types, SrvFields
  <2>2. Showing(q)'
    BY <1>3, <1>5, <1>7, <2>1 DEF Showing, Resting
  <2> QED
    BY <1>1, <1>3, <1>4, <2>1, <2>2, Onward
<1> QED
  BY <1>6, <1>7

\* The memory takes the address of the chunk.
LEMMA ChunkEdge ==
  ASSUME IInv, NEW q, Carrying(sel2mux, q), q = Ahead(sel2mux).req, Showing(q), conv.state = "WRITE_ADDRESS",
         NEW go \in BOOLEAN, NEW pushing \in SUBSET Pushers, Clock(pushing, go)
  PROVE  IInv'
<1>1. /\ Types /\ Streams /\ Server(go) /\ Converter(go) /\ conv.mux_sel /\ ~conv.rd /\ srv.at = "address"
      /\ srv.slot = conv.slot /\ srv.mode = q.mode /\ conv.mode = q.mode /\ srv.n = conv.size /\ conv.data = Address(conv)
      /\ conv.addr = Here(q) /\ conv.next = conv.addr + conv.size /\ Fits(conv.addr, conv.size) /\ conv.size <= conv.remaining
  BY DEF IInv, Clock, Showing, Carrying
<1>2. ~OUT_M_Wr(go) /\ ~IN_S_Rd(go) /\ OUT_S_Rd(go) /\ OUT_S_Data.v = conv.addr
  BY <1>1 DEF OUT_M_Wr, IN_S_Rd, OUT_S_Rd, OUT_S_Data, Address, Word
<1>3. q.mode \in {"read", "write"}
  BY <1>1, CarryingFacts
<1>4. /\ ConvTypes' /\ (conv'.mux_sel <=> q.mode = "read") /\ ~conv'.rd /\ conv'.slot = conv.slot /\ conv'.mode = conv.mode
      /\ conv'.remaining = conv.remaining /\ conv'.size = conv.size /\ conv'.addr = conv.addr /\ conv'.next = conv.next
      /\ conv'.state = IF q.mode = "read" THEN "DATA_READ" ELSE "DATA_WRITE"
  <2>1. conv' = IF q.mode = "read" THEN Show(conv, "DATA_READ", IN_S_Data, 0)
                ELSE [Show(conv, "DATA_WRITE", IN_S_Data, 0) EXCEPT !.mux_sel = FALSE]
    BY <1>1, <1>2, <1>3 DEF Converter
  <2> QED
    BY <1>1, <2>1 DEF Types, ConvTypes, ConvFields, Show
<1>5. /\ Streams' /\ Turn' /\ Waiting' /\ Registers
      /\ Carrying(sel2mux, q)' /\ Front(fifo[sel2mux], thread[sel2mux])'.req = q
  BY <1>2, <1>4, PauseEdge
<1>6. /\ DOMAIN srv' = SrvFields /\ srv'.slot = srv.slot /\ srv'.n = srv.n /\ srv'.addr = conv.addr
      /\ srv'.at = IF q.mode = "read" THEN "read" ELSE "fill"
  <2>1. srv' = [srv EXCEPT !.addr = conv.addr, !.at = IF q.mode = "read" THEN "read" ELSE "fill"]
    BY <1>1, <1>2 DEF Server
  <2> QED
    BY <1>1, <2>1 DEF Types, SrvFields
<1>7. Moving(q)'
  <2>1. srv'.addr = Here(q)'
    BY <1>1, <1>4, <1>6 DEF Here
  <2>2. conv'.state = fsm'.state
    BY <1>4, <1>5 DEF Carrying
  <2> QED
    BY <1>1, <1>3, <1>4, <1>6, <2>1, <2>2 DEF Moving
<1> QED
  BY <1>1, <1>4, <1>5, <1>6, <1>7, Onward

\* The memory waits, for the words of a write or for itself.
LEMMA DataPauses ==
  ASSUME IInv, NEW q, Carrying(sel2mux, q), q = Ahead(sel2mux).req, Moving(q),
         NEW go \in BOOLEAN, NEW pushing \in SUBSET Pushers, Clock(pushing, go), srv.at = "fill" \/ ~go
  PROVE  IInv'
<1>1. /\ Types /\ Streams /\ Server(go) /\ Converter(go) /\ ~conv.rd /\ (conv.mux_sel <=> q.mode = "read")
      /\ conv.state = fsm.state /\ srv.slot = conv.slot /\ srv.n = conv.size /\ srv.addr = Here(q)
      /\ conv.next = srv.addr + srv.n /\ Fits(srv.addr, srv.n) /\ srv.n <= conv.remaining
      /\ srv.at = "write" => srv.n <= IN_S_Fill
      /\ IF q.mode = "read" THEN srv.at = "read" ELSE srv.at \in {"fill", "write"}
  BY DEF IInv, Clock, Moving, Carrying
<1>2. /\ q.mode \in {"read", "write"} /\ conv.remaining \in Nat \ {0} /\ srv.n \in Nat \ {0}
      /\ conv.state = IF q.mode = "read" THEN "DATA_READ" ELSE "DATA_WRITE"
  BY <1>1, CarryingFacts DEF Fits
<1>3. ~OUT_M_Wr(go) /\ ~IN_S_Rd(go) /\ ~OUT_S_Rd(go)
  BY <1>1 DEF OUT_M_Wr, IN_S_Rd, OUT_S_Rd
<1>4. /\ ConvTypes' /\ conv'.mux_sel = conv.mux_sel /\ ~conv'.rd /\ conv'.slot = conv.slot /\ conv'.mode = conv.mode
      /\ conv'.remaining = conv.remaining /\ conv'.size = conv.size /\ conv'.next = conv.next /\ conv'.state = conv.state
  <2>1. conv' = AfterWord(OUT_M_Wr(go), conv) \/ conv' = AfterWord(OUT_S_Rd(go), conv)
    BY <1>1, <1>2 DEF Converter
  <2>2. DOMAIN conv = ConvFields /\ conv.mux_sel \in BOOLEAN
    BY <1>1 DEF Types, ConvFields
  <2> DEFINE d == [conv EXCEPT !.remaining = conv.remaining - 0, !.size = conv.size - 0]
  <2>3. /\ DOMAIN d = ConvFields /\ d.remaining = conv.remaining /\ d.size = conv.size /\ d.slot = conv.slot
        /\ d.mode = conv.mode /\ d.next = conv.next /\ d.mux_sel = conv.mux_sel
    BY <1>1, <1>2, <2>2 DEF ConvFields
  <2>4. conv' = IF d.remaining = 0 THEN Quiet([d EXCEPT !.mux_sel = TRUE], "IDLE")
                ELSE IF d.size = 0 THEN Quiet([d EXCEPT !.mux_sel = TRUE], "CALC")
                ELSE Quiet(d, conv.state)
    BY <1>3, <2>1 DEF AfterWord
  <2> HIDE DEF d
  <2>5. d.remaining # 0 /\ d.size # 0
    BY <1>1, <1>2, <2>3
  <2> QED
    BY <2>2, <2>3, <2>4, <2>5 DEF ConvTypes, ConvFields, Quiet
<1>5. /\ Streams' /\ Turn' /\ Waiting' /\ Registers
      /\ Carrying(sel2mux, q)' /\ Front(fifo[sel2mux], thread[sel2mux])'.req = q
      /\ Len(fifo[sel2mux]) \in Nat /\ Len(fifo'[sel2mux]) \in Nat /\ Len(fifo'[sel2mux]) >= Len(fifo[sel2mux])
  BY <1>3, <1>4, PauseEdge
<1>6. /\ DOMAIN srv' = SrvFields /\ srv'.slot = srv.slot /\ srv'.n = srv.n /\ srv'.addr = srv.addr
      /\ IF q.mode = "read" THEN srv'.at = "read" ELSE srv'.at \in {"fill", "write"}
      /\ srv'.at = "write" => srv.n <= IN_S_Fill
  <2>1. \/ srv' = srv
        \/ srv.at = "fill" /\ OUT_S_Fill >= srv.n /\ srv' = [srv EXCEPT !.at = "write"]
    BY <1>1 DEF Server
  <2>2. srv.at = "fill" => OUT_S_Fill = IN_S_Fill
    BY <1>1 DEF OUT_S_Fill
  <2>3. DOMAIN srv = SrvFields /\ IN_S_Fill \in Nat
    BY <1>1, <1>5 DEF Types, SrvFields, IN_S_Fill
  <2> QED
    BY <1>1, <1>2, <2>1, <2>2, <2>3 DEF SrvFields
<1>7. Moving(q)'
  <2>1. srv'.addr = Here(q)'
    BY <1>1, <1>4, <1>6 DEF Here
  <2>2. conv'.state = fsm'.state
    BY <1>2, <1>4, <1>5 DEF Carrying
  <2>3. srv'.at = "write" => srv'.n <= Len(fifo'[sel2mux'])
    BY <1>2, <1>5, <1>6 DEF IN_S_Fill, Registers
  <2> QED
    BY <1>1, <1>4, <1>6, <2>1, <2>2, <2>3 DEF Moving, IN_S_Fill
<1> QED
  BY <1>1, <1>4, <1>5, <1>6, <1>7, Onward

\* A word moves: all three count it.
LEMMA DataMoves ==
  ASSUME IInv, NEW q, Carrying(sel2mux, q), q = Ahead(sel2mux).req, Moving(q),
         NEW go \in BOOLEAN, NEW pushing \in SUBSET Pushers, Clock(pushing, go), srv.at # "fill", go
  PROVE  IInv'
<1> DEFINE state == IF conv.remaining = 1 THEN "IDLE" ELSE IF srv.n = 1 THEN "CALC" ELSE conv.state
<1>1. /\ Types /\ Streams /\ Server(go) /\ Converter(go) /\ ~conv.rd /\ (conv.mux_sel <=> q.mode = "read")
      /\ conv.state = fsm.state /\ srv.slot = conv.slot /\ srv.n = conv.size /\ srv.addr = Here(q)
      /\ conv.next = srv.addr + srv.n /\ Fits(srv.addr, srv.n) /\ srv.n <= conv.remaining
      /\ srv.at = "write" => srv.n <= IN_S_Fill
      /\ IF q.mode = "read" THEN srv.at = "read" ELSE srv.at = "write"
  BY DEF IInv, Clock, Moving, Carrying
<1>2. /\ q.mode \in {"read", "write"} /\ conv.remaining \in Nat \ {0} /\ srv.n \in Nat \ {0} /\ srv.addr \in Nat
      /\ q.addr \in Nat /\ q.size \in Nat /\ Len(fifo[sel2mux]) \in Nat
      /\ conv.state = IF q.mode = "read" THEN "DATA_READ" ELSE "DATA_WRITE"
  BY <1>1, CarryingFacts DEF Fits
<1>3. /\ IF q.mode = "read" THEN OUT_M_Wr(go) /\ ~IN_S_Rd(go) ELSE ~OUT_M_Wr(go) /\ IN_S_Rd(go) /\ OUT_S_Rd(go)
      /\ q.mode # "read" => fifo[sel2mux] # << >>
  <2>1. Len(<< >>) = 0
    OBVIOUS
  <2> QED
    BY <1>1, <1>2, <2>1 DEF OUT_M_Wr, IN_S_Rd, OUT_S_Rd, IN_S_Fill
<1>4. /\ ConvTypes' /\ ~conv'.rd /\ conv'.slot = conv.slot /\ conv'.mode = conv.mode /\ conv'.fill = 0
      /\ conv'.remaining = conv.remaining - 1 /\ conv'.size = srv.n - 1 /\ conv'.next = conv.next /\ conv'.state = state
      /\ conv'.mux_sel <=> conv.remaining = 1 \/ srv.n = 1 \/ q.mode = "read"
  <2>1. conv' = AfterWord(TRUE, conv)
    BY <1>1, <1>2, <1>3 DEF Converter
  <2>2. DOMAIN conv = ConvFields /\ conv.mux_sel \in BOOLEAN
    BY <1>1 DEF Types, ConvFields
  <2> DEFINE d == [conv EXCEPT !.remaining = conv.remaining - 1, !.size = conv.size - 1]
  <2>3. /\ DOMAIN d = ConvFields /\ d.remaining = conv.remaining - 1 /\ d.size = srv.n - 1 /\ d.slot = conv.slot
        /\ d.mode = conv.mode /\ d.next = conv.next /\ d.mux_sel = conv.mux_sel
    BY <1>1, <2>2 DEF ConvFields
  <2>4. conv' = IF d.remaining = 0 THEN Quiet([d EXCEPT !.mux_sel = TRUE], "IDLE")
                ELSE IF d.size = 0 THEN Quiet([d EXCEPT !.mux_sel = TRUE], "CALC")
                ELSE Quiet(d, conv.state)
    BY <2>1 DEF AfterWord
  <2> HIDE DEF d
  <2>5. (d.remaining = 0 <=> conv.remaining = 1) /\ (d.size = 0 <=> srv.n = 1)
    BY <1>2, <2>3
  <2> QED
    BY <1>1, <2>2, <2>3, <2>4, <2>5 DEF ConvTypes, ConvFields, Quiet
<1>5. /\ Streams' /\ Turn' /\ Waiting' /\ Registers
      /\ IF conv.remaining = 1 THEN fsm'.state = "MODE_LENGTH"
         ELSE Carrying(sel2mux, q)' /\ Front(fifo[sel2mux], thread[sel2mux])'.req = q
      /\ Len(fifo'[sel2mux]) \in Nat /\ Len(fifo'[sel2mux]) >= Len(fifo[sel2mux]) - 1
  BY <1>3, <1>4, MoveEdge
<1>6. /\ DOMAIN srv' = SrvFields /\ srv'.slot = srv.slot /\ srv'.n = srv.n - 1 /\ srv'.addr = srv.addr + 1
      /\ srv'.at = IF srv.n = 1 THEN "complete" ELSE srv.at
  <2>1. srv' = Moves("complete")
    BY <1>1, <1>2 DEF Server
  <2> QED
    BY <1>1, <2>1 DEF Types, SrvFields, Moves
<1>7. Here(q)' = srv.addr + 1
  <2>1. /\ conv.remaining \in Nat /\ q.addr \in Nat /\ q.size \in Nat /\ conv'.remaining = conv.remaining - 1
        /\ srv.addr = q.addr + q.size - conv.remaining
    BY <1>1, <1>2, <1>4 DEF Here
  <2> QED
    BY <2>1 DEF Here
<1>8. CASE conv.remaining = 1
  <2>1. srv.n = 1
    BY <1>1, <1>2, <1>8
  <2>2. Fetching'
    BY <1>4, <1>5, <1>6, <1>8, <2>1 DEF Fetching, Resting
  <2>3. Types'
    BY <1>1, <1>4, <1>5, <1>6 DEF Types, Registers, ConvTypes, FsmFields, ConvFields, SrvFields
  <2> QED
    BY <1>5, <2>2, <2>3 DEF IInv
<1>9. CASE conv.remaining # 1 /\ srv.n = 1
  <2>1. Cutting(q)'
    BY <1>1, <1>4, <1>6, <1>7, <1>9 DEF Cutting, Resting
  <2> QED
    BY <1>1, <1>4, <1>5, <1>6, <1>9, <2>1, Onward
<1>10. CASE conv.remaining # 1 /\ srv.n # 1
  <2>1. conv'.state = fsm'.state
    BY <1>2, <1>4, <1>5, <1>10 DEF Carrying
  <2>2. Fits(srv'.addr, srv'.n)
    BY <1>1, <1>6, <1>10, FitsOn
  <2>3. srv'.at = "write" => srv'.n <= Len(fifo'[sel2mux'])
    BY <1>1, <1>2, <1>5, <1>6, <1>10 DEF IN_S_Fill, Registers
  <2>4. conv'.next = srv'.addr + srv'.n /\ srv'.n <= conv'.remaining /\ srv'.n = conv'.size
    <3>1. /\ srv.n \in Nat /\ srv.addr \in Nat /\ conv.remaining \in Nat /\ srv.n <= conv.remaining
          /\ conv.next = srv.addr + srv.n /\ conv'.next = conv.next /\ conv'.remaining = conv.remaining - 1
          /\ conv'.size = srv.n - 1 /\ srv'.n = srv.n - 1 /\ srv'.addr = srv.addr + 1
      BY <1>1, <1>2, <1>4, <1>6
    <3> QED
      BY <3>1
  <2>5. Moving(q)'
    BY <1>1, <1>4, <1>6, <1>7, <1>10, <2>1, <2>2, <2>3, <2>4 DEF Moving, IN_S_Fill
  <2> QED
    BY <1>1, <1>4, <1>5, <1>6, <1>10, <2>5, Onward
<1> QED
  BY <1>8, <1>9, <1>10

\* A thread that begins a request changes no word that is under way.
LEMMA AskEdge ==
  ASSUME IInv, NEW s \in Slots, Ask(s)
  PROVE  IInv'
<1> DEFINE f == fifo[s]
           t == thread[s]
<1>1. PICK q \in Requests[s] : thread' = [thread EXCEPT ![s].req = q]
  BY DEF Ask
<1>2. /\ Types /\ Streams /\ Waiting /\ Turn /\ sel2mux \in Slots /\ t.req = Idle /\ Stream(s, f, t) /\ DOMAIN thread = Slots
      /\ fifo' = fifo /\ last_served' = last_served /\ sel2mux' = sel2mux /\ fsm' = fsm /\ conv' = conv /\ srv' = srv
  BY DEF IInv, Types, Streams, Ask
<1>3. t.sent = 0 /\ t.got = 0 /\ DOMAIN t = {"req", "sent", "got"}
  <2>1. ThreadType(s, t) /\ t.req \notin Requests[s]
    BY <1>2, RequestType DEF Stream
  <2>2. Total(Idle) = 2
    BY DEF Total, Idle
  <2> QED
    BY <1>2, <2>1, <2>2 DEF ThreadType
<1> DEFINE u == [t EXCEPT !.req = q]
<1>4. u.req = q /\ u.sent = 0 /\ u.got = 0 /\ DOMAIN u = {"req", "sent", "got"}
  BY <1>3
<1>5. DOMAIN thread' = Slots /\ thread'[s] = u /\ \A v \in Slots \ {s} : thread'[v] = thread[v]
  BY <1>1, <1>2
<1> HIDE DEF u
<1>6. ThreadType(s, u)
  <2>1. Total(q) \in Nat /\ Total(q) >= 2
    BY RequestType
  <2> QED
    BY <1>4, <2>1 DEF ThreadType, Finished
<1>7. WordOf(t).pos = 0 /\ WordOf(t).req = Idle /\ WordOf(u).pos = 0
  BY <1>2, <1>3, <1>4 DEF WordOf
<1>8. f # << >> => After(f[Len(f)], WordOf(u))
  <2> SUFFICES ASSUME f # << >> PROVE After(f[Len(f)], WordOf(u))
    OBVIOUS
  <2>1. f[Len(f)] \in Words(s)
    BY <1>2, StreamFacts
  <2>2. f[Len(f)].req # Idle
    BY <2>1, RequestType DEF Words
  <2>3. After(f[Len(f)], WordOf(t))
    BY <1>2 DEF Stream
  <2> QED
    BY <1>7, <2>2, <2>3 DEF After
<1>9. Stream(s, f, u)
  BY <1>2, <1>6, <1>8 DEF Stream
<1>10. Streams'
  <2>1. \A v \in Slots : Stream(v, fifo'[v], thread'[v])
    BY <1>2, <1>5, <1>9 DEF Streams
  <2> QED
    BY <2>1 DEF Streams
<1>11. \A v \in Slots : /\ thread'[v].got = thread[v].got
                        /\ \/ Front(fifo'[v], thread'[v]) = Ahead(v)
                           \/ Front(fifo'[v], thread'[v]).pos = 0 /\ Ahead(v).pos = 0
  BY <1>2, <1>3, <1>4, <1>5, <1>7 DEF Front, Ahead
<1>12. Types' /\ Waiting' /\ Turn'
  BY <1>2, <1>5, <1>11 DEF Types, Waiting, Turn, requests, Ahead
<1>13. CASE Fetching
  <2>1. Fetching'
    BY <1>2, <1>13 DEF Fetching, Resting, requests
  <2> QED
    BY <1>10, <1>12, <2>1 DEF IInv
<1>14. CASE TakingAddress
  <2>1. TakingAddress'
    BY <1>2, <1>11, <1>14 DEF TakingAddress, Resting
  <2> QED
    BY <1>10, <1>12, <2>1 DEF IInv
<1>15. CASE Serving
  <2>1. PICK r : r = Ahead(sel2mux).req
    OBVIOUS
  <2>2. Carrying(sel2mux, r) /\ (Cutting(r) \/ Showing(r) \/ Moving(r))
    BY <1>15, <2>1 DEF Serving, Ahead
  <2>3. Ahead(sel2mux).pos # 0
    BY <1>2, <2>2, CarryingFacts DEF Carrying, Ahead
  <2>4. Front(fifo'[sel2mux], thread'[sel2mux]) = Ahead(sel2mux) /\ thread'[sel2mux].got = thread[sel2mux].got
    BY <1>2, <1>11, <2>3
  <2>5. Carrying(sel2mux, r)'
    BY <1>2, <2>2, <2>4 DEF Carrying, Ahead
  <2>6. Cutting(r)' \/ Showing(r)' \/ Moving(r)'
    BY <1>2, <2>2 DEF Cutting, Showing, Moving, Here, Resting, IN_S_Fill, Header, Address
  <2>7. Front(fifo[sel2mux], thread[sel2mux])'.req = r
    BY <1>2, <2>1, <2>4
  <2> QED
    BY <1>10, <1>12, <2>5, <2>6, <2>7 DEF IInv, Serving
<1> QED
  BY <1>13, <1>14, <1>15 DEF IInv

-----------------------------------------------------------------------------
\* At reset nobody has asked for anything.
LEMMA Initial == Init => IInv
<1> SUFFICES ASSUME Init PROVE IInv
  OBVIOUS
<1>1. 0 \in Slots /\ Len(<< >>) = 0
  BY DEF Slots
<1>2. \A s \in Slots : fifo[s] = << >> /\ thread[s].req = Idle /\ thread[s].sent = 0 /\ thread[s].got = 0
                       /\ DOMAIN thread[s] = {"req", "sent", "got"}
  BY DEF Init
<1>3. Streams
  <2> SUFFICES ASSUME NEW s \in Slots PROVE Stream(s, fifo[s], thread[s])
    BY DEF Streams
  <2>1. ThreadType(s, thread[s])
    BY <1>2 DEF ThreadType
  <2>2. fifo[s] = << >> /\ fifo[s] \in Seq(Words(s)) /\ Len(fifo[s]) = 0
    <3>1. << >> \in Seq(Words(s))
      BY EmptySeq
    <3> QED
      BY <1>1, <1>2, <3>1
  <2> QED
    BY <2>1, <2>2 DEF Stream
<1>4. Waiting
  BY <1>2 DEF Waiting, Front, WordOf
<1>5. Types /\ Turn
  BY <1>1 DEF Init, Types, Turn
<1>6. Fetching
  BY DEF Init, Fetching, Resting
<1> QED
  BY <1>3, <1>4, <1>5, <1>6 DEF IInv

LEMMA Stutters == IInv /\ UNCHANGED vars => IInv'
BY DEF vars, IInv, Types, Streams, Waiting, Turn, Fetching, TakingAddress, Serving, Carrying, Cutting, Showing,
       Moving, Here, Resting, IN_S_Fill, Header, Address, requests

LEMMA Steps == IInv /\ [Next]_vars => IInv'
<1> SUFFICES ASSUME IInv, Next PROVE IInv'
  BY Stutters
<1>1. ASSUME NEW go \in BOOLEAN, NEW pushing \in SUBSET Pushers, Clock(pushing, go)
      PROVE  IInv'
  <2>1. CASE Fetching
    BY <1>1, <2>1, FetchingEdge
  <2>2. CASE TakingAddress
    BY <1>1, <2>2, AddressEdge
  <2>3. CASE Serving
    <3>1. PICK q : q = Ahead(sel2mux).req
      OBVIOUS
    <3>2. Carrying(sel2mux, q) /\ (Cutting(q) \/ Showing(q) \/ Moving(q))
      BY <2>3, <3>1 DEF Serving, Ahead
    <3>3. CASE Cutting(q)
      BY <1>1, <3>1, <3>2, <3>3, CalcEdge
    <3>4. CASE Showing(q)
      <4>1. conv.state \in {"WRITE_MODE_LENGTH", "WRITE_ADDRESS"}
        BY <3>4 DEF Showing
      <4> QED
        BY <1>1, <3>1, <3>2, <3>4, <4>1, HeaderEdge, ChunkEdge
    <3>5. CASE Moving(q)
      <4>1. CASE srv.at = "fill" \/ ~go
        BY <1>1, <3>1, <3>2, <3>5, <4>1, DataPauses
      <4>2. CASE srv.at # "fill" /\ go
        BY <1>1, <3>1, <3>2, <3>5, <4>2, DataMoves
      <4> QED
        BY <4>1, <4>2
    <3> QED
      BY <3>2, <3>3, <3>4, <3>5
  <2> QED
    BY <2>1, <2>2, <2>3 DEF IInv
<1>2. ASSUME NEW s \in Slots, Ask(s) PROVE IInv'
  BY <1>2, AskEdge
<1> QED
  BY <1>1, <1>2 DEF Next

\* The invariant: the slot that is let through is at the place in its request
\* that the arbiter, the converter and the memory take it to be at, each by a
\* count of its own.
THEOREM InvariantHolds == Spec => []IInv
BY Initial, Steps, PTL DEF Spec

-----------------------------------------------------------------------------
LEMMA FramedFollows == IInv => Framed
<1> SUFFICES ASSUME IInv PROVE Framed
  OBVIOUS
<1> DEFINE s == sel2mux
<1>0. Types /\ Streams /\ s \in Slots /\ Len(<< >>) = 0
  BY DEF IInv, Types
<1>1. CASE Fetching
  BY <1>0, <1>1 DEF Fetching, Resting, requests, Framed
<1>2. CASE TakingAddress
  BY <1>2 DEF TakingAddress, Resting, Framed
<1>3. CASE Serving
  <2>1. PICK q : q = Ahead(s).req
    OBVIOUS
  <2>2. Carrying(s, q) /\ (Cutting(q) \/ Showing(q) \/ Moving(q)) /\ ~conv.rd
    BY <1>3, <2>1 DEF Serving, Ahead, Carrying
  <2>3. CASE Cutting(q)
    BY <2>2, <2>3 DEF Cutting, Resting, Framed
  <2>4. CASE Showing(q)
    <3>1. conv.mode \in {"read", "write"}
      BY <1>0, <2>2, CarryingFacts DEF Carrying
    <3> QED
      BY <2>2, <2>4, <3>1 DEF Showing, Resting, Framed, OUT_S_Data, Header, Address, Word
  <2>5. CASE Moving(q)
    <3>1. ASSUME srv.at = "write" PROVE OUT_S_Fill > 0 /\ OUT_S_Data = Word(srv.slot, "data", srv.addr)
      <4>1. /\ q.mode # "read" /\ ~conv.mux_sel /\ srv.n <= IN_S_Fill /\ Fits(srv.addr, srv.n)
            /\ srv.slot = s /\ srv.addr = Here(q)
        BY <2>2, <2>5, <3>1 DEF Moving, Carrying
      <4>2. /\ Len(fifo[s]) \in Nat /\ conv.remaining \in Nat /\ q.size \in Nat /\ q.addr \in Nat
            /\ conv.remaining <= q.size
        BY <1>0, <2>2, CarryingFacts
      <4>3. Len(fifo[s]) > 0
        BY <4>1, <4>2 DEF IN_S_Fill, Fits
      <4>4. Head(fifo[s]) = Ahead(s) /\ fifo[s] # << >>
        BY <1>0, <4>3 DEF Ahead, Front
      <4>5. Ahead(s).pos = 2 + q.size - conv.remaining
        BY <2>2, <4>1 DEF Carrying, Ahead
      <4>6. WordAt(s, Ahead(s)) = Word(s, "data", q.addr + Ahead(s).pos - 2)
        BY <2>1, <4>2, <4>5 DEF WordAt
      <4>7. q.addr + Ahead(s).pos - 2 = srv.addr
        BY <4>1, <4>2, <4>5 DEF Here
      <4> QED
        BY <4>1, <4>3, <4>4, <4>6, <4>7 DEF OUT_S_Fill, OUT_S_Data, IN_S_Fill, IN_S_Data
    <3> QED
      BY <2>2, <2>5, <3>1 DEF Moving, Framed
  <2> QED
    BY <2>2, <2>3, <2>4, <2>5
<1> QED
  BY <1>1, <1>2, <1>3 DEF IInv

LEMMA ReturnedFollows == IInv => Returned
<1> SUFFICES ASSUME IInv, srv.at = "read" PROVE Returned
  BY DEF Returned
<1> DEFINE s == sel2mux
<1>1. Types /\ Streams /\ s \in Slots /\ Serving
  BY DEF IInv, Types, Fetching, TakingAddress, Resting
<1>2. PICK q : q = Ahead(s).req
  OBVIOUS
<1>3. Carrying(s, q) /\ Moving(q)
  BY <1>1, <1>2 DEF Serving, Ahead, Cutting, Showing, Resting
<1>4. /\ q.mode = "read" /\ srv.slot = s /\ srv.addr = Here(q) /\ Fits(srv.addr, srv.n) /\ srv.n <= conv.remaining
      /\ Ahead(s).pos = 2 /\ thread[s].got = q.size - conv.remaining
  BY <1>3 DEF Carrying, Moving, Ahead
<1>5. conv.remaining \in Nat /\ q.size \in Nat /\ q.addr \in Nat /\ conv.remaining <= q.size /\ srv.n \in Nat
  BY <1>1, <1>3, <1>4, CarryingFacts DEF Fits
<1>6. thread[s].req = q
  <2>1. Stream(s, fifo[s], thread[s])
    BY <1>1 DEF Streams
  <2>2. fifo[s] = << >>
    BY <1>1, <1>2, <1>4, <2>1, ReaderWaits DEF Ahead
  <2> QED
    BY <1>2, <2>2 DEF Ahead, Front, WordOf
<1>7. srv.addr = q.addr + thread[s].got /\ thread[s].got + srv.n <= q.size
  BY <1>4, <1>5 DEF Here
<1> QED
  BY <1>4, <1>6, <1>7 DEF Returned

LEMMA ChunkFitsFollows == IInv => ChunkFits
<1> SUFFICES ASSUME IInv, srv.at \in {"fill", "read", "write"} PROVE ChunkFits
  BY DEF ChunkFits
<1>1. Serving
  BY DEF IInv, Fetching, TakingAddress, Resting
<1>2. \E q : Moving(q)
  BY <1>1 DEF Serving, Cutting, Showing, Resting
<1> QED
  BY <1>2 DEF Moving, Fits, ChunkFits

\* The memory gets a header, its address and its data one after the other from
\* one slot, every word goes where it was meant to go, and none is taken from an
\* empty FIFO, although no signal marks where a request ends.
THEOREM WordsStayFramed == Spec => []Framed
BY InvariantHolds, FramedFollows, PTL

\* What is read goes to the thread that asked for it, in the order it asked.
THEOREM AnswersGoBack == Spec => []Returned
BY InvariantHolds, ReturnedFollows, PTL

\* No chunk crosses a page or is longer than a burst.
THEOREM ChunksFit == Spec => []ChunkFits
BY InvariantHolds, ChunkFitsFollows, PTL
=============================================================================
