----------------------------- MODULE OsifProofs -----------------------------
(***************************************************************************)
(* For every depth of the links but one, every size of message that fits,  *)
(* and any interleaving of clock edges and delegate: the two ends of a     *)
(* slot's links stay in step, no word of a reply is lost, and a procedure  *)
(* ends with the answer to its own call.  The invariant says, for each     *)
(* step of a procedure's case statement, which words of the call have left *)
(* the registers, and how many words of the reply are still to come.       *)
(***************************************************************************)
EXTENDS Osif, SequenceTheorems, TLAPS

USE OsifAssumption

\* Where the case statements are right.  With a link of one word a full link in
\* the third step goes back to a word that has been sent; an empty message makes
\* osif_rq_send count past zero.  A local RAM has fewer than 2^24 words, with which
\* the count would begin at zero.
Fits == 1 \notin Depths /\ 0 \notin Sizes /\ RamSize < RemMod

-----------------------------------------------------------------------------
Calls == [kind : Kinds, n : Sizes \union {0}, tag : 0 .. Tags - 1]

\* Words of a call that the procedure sends before any message, and in all.
Pushes(c) == IF c.kind \in {"call_0", "thread_exit"} THEN 1 ELSE IF c.kind = "call_1" THEN 2 ELSE 3
Needs(c) == IF c.kind = "rq_send" THEN 3 + c.n ELSE Pushes(c)

\* The step in which it waits for the first word of the reply.
PullStep(c) == IF c.kind = "rq_send" THEN 9 ELSE Pushes(c) + 1

\* The delegate has read q of c's words, h are in the link, t in all.
Sent(c, h, q, t) ==
  /\ h \in Seq(LinkWords) /\ q \in Seq(LinkWords) /\ Len(q) + Len(h) = t
  /\ \A i \in 1 .. Len(q) : q[i] = Word(c, i - 1)
  /\ \A i \in 1 .. Len(h) : h[i] = Word(c, Len(q) + i - 1)

\* A reply of 1 + k words, after its first off: s in the link, o to be written.
Answer(c, k, i) == IF i = 0 THEN ReplyWord(c, 0, k) ELSE ReplyWord(c, i, 0)
Reply(c, s, o, k, off) ==
  /\ s \in Seq(LinkWords) /\ o \in Seq(LinkWords)
  /\ k \in 0 .. (IF c.kind = "rq_receive" THEN c.n ELSE 0)
  /\ off \in Nat /\ off + Len(s) + Len(o) = 1 + k
  /\ \A i \in 1 .. Len(s) : s[i] = Answer(c, k, off + i - 1)
  /\ \A i \in 1 .. Len(o) : o[i] = Answer(c, k, off + Len(s) + i - 1)

\* No reply yet; the delegate operates once it has read all words.
Unanswered == s2h = << >> /\ out = << >> /\ dpc = IF Len(req) = Needs(call) THEN "op" ELSE "cmd"

\* A reply has been begun, and with its last word the delegate is as before.
Answered ==
  /\ h2s = << >>
  /\ \/ dpc = "reply" /\ out # << >> /\ req \in Seq(LinkWords) /\ \A i \in 1 .. Len(req) : req[i] = Word(call, i - 1)
     \/ dpc = "cmd" /\ out = << >> /\ req = << >>

\* All words of the call have left the registers.
Asked ==
  \/ Sent(call, h2s, req, Needs(call)) /\ Unanswered
  \/ Answered /\ \E k \in 0 .. call.n : Reply(call, s2h, out, k, 0)

Empty == h2s = << >> /\ s2h = << >> /\ req = << >> /\ out = << >> /\ dpc = "cmd"

-----------------------------------------------------------------------------
Resting == call = NoCall /\ step = 0 /\ ~writing /\ ~reading /\ ~mem.we /\ Empty

\* The pushes and the finish: the word of the step before is in the registers.
Pushing ==
  /\ call # NoCall /\ step \in 0 .. Pushes(call)
  /\ (writing <=> step > 0) /\ ~reading /\ ~mem.we
  /\ step > 0 => data = Word(call, step - 1)
  /\ Sent(call, h2s, req, IF step = 0 THEN 0 ELSE step - 1) /\ Unanswered

\* osif_rq_send's message in the local RAM; its address is that of the word sent.
Message == call.kind = "rq_send" => \A a \in 0 .. call.n - 1 : mem.ram[a] = Word(call, 3 + a)
Sending ==
  /\ call # NoCall /\ call.kind = "rq_send" /\ ~reading /\ ~mem.we
  /\ \/ step = 4 /\ ~writing /\ Sent(call, h2s, req, 3) /\ Unanswered
     \/ /\ step \in 5 .. 8 /\ mem.addr \in 0 .. call.n - 1 /\ (writing <=> step = 8)
        /\ mem.rem = call.n - mem.addr - (IF step = 6 THEN 0 ELSE 1)
        /\ \/ step \in 6 .. 8 /\ Sent(call, h2s, req, 3 + mem.addr) /\ Unanswered
           \/ step = 5 /\ mem.rem > 0 /\ Sent(call, h2s, req, 4 + mem.addr) /\ Unanswered
           \/ step = 5 /\ mem.rem = 0 /\ Asked
        /\ step = 7 => mem.q = Word(call, 3 + mem.addr)
        /\ step = 8 => data = Word(call, 3 + mem.addr)

Pulling ==
  /\ call # NoCall /\ call.kind # "thread_exit" /\ step = PullStep(call)
  /\ ~writing /\ ~mem.we /\ Asked

\* The first k words of a message are in the local RAM.
Stored(c, ram, k) == \A a \in 0 .. k - 1 : ram[a] = ReplyWord(c, a + 1, 0)

Receiving ==
  /\ call # NoCall /\ call.kind = "rq_receive" /\ ~writing /\ Answered
  /\ \/ step = 5 /\ ~reading /\ ~mem.we /\ Reply(call, s2h, out, mem.addr, 1)
     \/ /\ step = 6 /\ ~reading /\ ~mem.we
        /\ result = ReplyWord(call, 0, mem.rem) /\ Reply(call, s2h, out, mem.rem, 1)
     \/ /\ step \in 7 .. 10 /\ result = ReplyWord(call, 0, result.val) /\ mem.addr \in Nat /\ Stored(call, mem.ram, mem.addr)
        /\ \/ /\ step = 10 /\ mem.addr < result.val /\ mem.rem = result.val - mem.addr
              /\ Reply(call, s2h, out, result.val, mem.addr + 1)
           \/ /\ step = 7 /\ ~reading /\ mem.we /\ mem.wdata = ReplyWord(call, mem.addr + 1, 0)
              /\ mem.addr < result.val /\ mem.rem = result.val - mem.addr
              /\ Reply(call, s2h, out, result.val, mem.addr + 2)
           \/ /\ step \in {8, 9} /\ ~reading /\ ~mem.we /\ mem.addr <= result.val
              /\ mem.rem = result.val - mem.addr + (IF step = 8 THEN 1 ELSE 0)
              /\ Reply(call, s2h, out, result.val, mem.addr + 1)

Halted ==
  /\ call # NoCall /\ call.kind = "thread_exit" /\ step = 2 /\ ~writing /\ ~reading /\ ~mem.we
  /\ \/ Sent(call, h2s, req, 1) /\ Unanswered
     \/ dpc = "gone" /\ h2s = << >> /\ s2h = << >> /\ out = << >> /\ Sent(call, h2s, req, 1)

Completed ==
  /\ call # NoCall /\ call.kind # "thread_exit"
  /\ step = (IF call.kind = "rq_receive" THEN 11 ELSE PullStep(call) + 1)
  /\ ~writing /\ ~reading /\ ~mem.we /\ Empty
  /\ result.of = [call EXCEPT !.kind = "r"] /\ result.pos = 0
  /\ call.kind = "rq_receive" => result.val \in 0 .. call.n /\ Stored(call, mem.ram, result.val)

Types ==
  /\ depth \in Depths /\ tag \in 0 .. Tags - 1
  /\ call = NoCall \/ /\ call \in Calls
                      /\ call.kind = "rq_receive" => call.n < depth
                      /\ call.kind = "rq_send" => call.n # 0
                      /\ call.kind \notin {"rq_receive", "rq_send"} => call.n = 0
  /\ DOMAIN mem = {"ram", "q", "addr", "rem", "we", "wdata"} /\ DOMAIN mem.ram = 0 .. RamSize - 1
  /\ data \in LinkWords /\ result \in LinkWords
  /\ h2s \in Seq(LinkWords) /\ Len(h2s) <= depth

IInv == Types /\ Message /\ (Resting \/ Pushing \/ Sending \/ Pulling \/ Receiving \/ Halted \/ Completed)

-----------------------------------------------------------------------------
(***************************************************************************)
(* The words of a call and of its answer, in the links.                    *)
(***************************************************************************)

LEMMA WordType ==
  ASSUME NEW c \in Calls, NEW i \in 0 .. 2 + RamSize
  PROVE  Word(c, i) \in LinkWords
BY DEF Calls, Word, LinkWords

LEMMA AnswerType ==
  ASSUME NEW c \in Calls, NEW k \in 0 .. RamSize, NEW i \in 0 .. RamSize
  PROVE  ReplyWord(c, i, k) \in LinkWords /\ ReplyWord(c, i, 0) \in LinkWords
BY DEF Calls, ReplyWord, LinkWords

\* The register's word enters the link: one more has been sent.
LEMMA SentOne ==
  ASSUME NEW c \in Calls, NEW h, NEW q, NEW t \in 0 .. 2 + RamSize, Sent(c, h, q, t)
  PROVE  Sent(c, Append(h, Word(c, t)), q, t + 1)
<1> DEFINE g == Append(h, Word(c, t))
<1>1. h \in Seq(LinkWords) /\ q \in Seq(LinkWords) /\ Len(h) \in Nat /\ Len(q) \in Nat /\ Len(q) + Len(h) = t
  BY DEF Sent
<1>2. g \in Seq(LinkWords) /\ Len(g) = Len(h) + 1 /\ \A i \in 1 .. Len(h) + 1 : g[i] = IF i <= Len(h) THEN h[i] ELSE Word(c, t)
  BY <1>1, WordType, AppendProperties
<1> HIDE DEF g
<1>3. \A i \in 1 .. Len(g) : g[i] = Word(c, Len(q) + i - 1)
  <2> SUFFICES ASSUME NEW i \in 1 .. Len(g)
               PROVE  g[i] = Word(c, Len(q) + i - 1)
    OBVIOUS
  <2>1. CASE i <= Len(h)
    <3>1. i \in 1 .. Len(h)
      BY <1>1, <1>2, <2>1
    <3> QED
      BY <1>2, <2>1, <3>1 DEF Sent
  <2>2. CASE i = Len(h) + 1
    <3>1. Len(q) + i - 1 = t
      BY <1>1, <2>2
    <3> QED
      BY <1>1, <1>2, <2>2, <3>1
  <2> QED
    BY <1>1, <1>2, <2>1, <2>2
<1> QED
  BY <1>1, <1>2, <1>3 DEF Sent, g

\* The delegate reads the first word in the link.
LEMMA SentRead ==
  ASSUME NEW c \in Calls, NEW h, NEW q, NEW t \in Nat, Sent(c, h, q, t), h # << >>
  PROVE  Sent(c, Tail(h), Append(q, Head(h)), t) /\ Head(h) = Word(c, Len(q))
<1>1. h \in Seq(LinkWords) /\ q \in Seq(LinkWords) /\ Len(h) \in Nat \ {0} /\ Len(q) \in Nat /\ Head(h) = h[1] /\ Head(h) \in LinkWords
  BY DEF Sent
<1>2. Head(h) = Word(c, Len(q))
  BY <1>1 DEF Sent
<1>3. Append(q, Head(h)) \in Seq(LinkWords) /\ Len(Append(q, Head(h))) = Len(q) + 1
  BY <1>1
<1>4. Tail(h) \in Seq(LinkWords) /\ Len(Tail(h)) = Len(h) - 1
  BY <1>1
<1>5. \A i \in 1 .. Len(Append(q, Head(h))) : Append(q, Head(h))[i] = Word(c, i - 1)
  <2> DEFINE g == Append(q, Head(h))
  <2>1. \A i \in 1 .. Len(q) + 1 : g[i] = IF i <= Len(q) THEN q[i] ELSE Head(h)
    BY <1>1, AppendProperties
  <2>2. Len(g) = Len(q) + 1
    BY <1>3
  <2> HIDE DEF g
  <2>3. \A i \in 1 .. Len(g) : g[i] = Word(c, i - 1)
    <3> SUFFICES ASSUME NEW i \in 1 .. Len(g)
                 PROVE  g[i] = Word(c, i - 1)
      OBVIOUS
    <3>1. CASE i <= Len(q)
      <4>1. i \in 1 .. Len(q)
        BY <1>1, <2>2, <3>1
      <4> QED
        BY <2>1, <2>2, <3>1, <4>1 DEF Sent
    <3>2. CASE i = Len(q) + 1
      <4>1. i - 1 = Len(q)
        BY <1>1, <3>2
      <4> QED
        BY <1>1, <1>2, <2>1, <2>2, <3>2, <4>1
    <3> QED
      BY <1>1, <2>2, <3>1, <3>2
  <2> QED
    BY <2>3 DEF g
<1>6. \A i \in 1 .. Len(Tail(h)) : Tail(h)[i] = Word(c, Len(Append(q, Head(h))) + i - 1)
  <2> SUFFICES ASSUME NEW i \in 1 .. Len(Tail(h))
               PROVE  Tail(h)[i] = Word(c, Len(Append(q, Head(h))) + i - 1)
    OBVIOUS
  <2>1. Tail(h)[i] = h[i + 1] /\ i + 1 \in 1 .. Len(h)
    BY <1>1, <1>4
  <2>2. h[i + 1] = Word(c, Len(q) + (i + 1) - 1)
    BY <2>1 DEF Sent
  <2>3. Len(q) + (i + 1) - 1 = Len(Append(q, Head(h))) + i - 1
    BY <1>1, <1>3, <2>1
  <2> QED
    BY <2>1, <2>2, <2>3
<1>7. Len(Append(q, Head(h))) + Len(Tail(h)) = t
  <2>1. Len(q) + Len(h) = t
    BY DEF Sent
  <2> QED
    BY <1>1, <1>3, <1>4, <2>1
<1> QED
  BY <1>2, <1>3, <1>4, <1>5, <1>6, <1>7 DEF Sent

\* The delegate writes the next word of the reply.
LEMMA ReplyWrite ==
  ASSUME NEW c, NEW s, NEW o, NEW k, NEW off, Reply(c, s, o, k, off), o # << >>, k \in Nat
  PROVE  Reply(c, Append(s, Head(o)), Tail(o), k, off)
<1>1. s \in Seq(LinkWords) /\ o \in Seq(LinkWords) /\ Len(o) \in Nat \ {0} /\ Len(s) \in Nat /\ Head(o) = o[1] /\ Head(o) \in LinkWords /\ off \in Nat
  BY DEF Reply
<1>2. Head(o) = Answer(c, k, off + Len(s))
  BY <1>1 DEF Reply
<1>3. Append(s, Head(o)) \in Seq(LinkWords) /\ Len(Append(s, Head(o))) = Len(s) + 1
  BY <1>1
<1>4. Tail(o) \in Seq(LinkWords) /\ Len(Tail(o)) = Len(o) - 1
  BY <1>1
<1>5. \A i \in 1 .. Len(Append(s, Head(o))) : Append(s, Head(o))[i] = Answer(c, k, off + i - 1)
  BY <1>1, <1>2, <1>3 DEF Reply
<1>6. \A i \in 1 .. Len(Tail(o)) : Tail(o)[i] = Answer(c, k, off + Len(Append(s, Head(o))) + i - 1)
  <2> SUFFICES ASSUME NEW i \in 1 .. Len(Tail(o))
               PROVE  Tail(o)[i] = Answer(c, k, off + Len(Append(s, Head(o))) + i - 1)
    OBVIOUS
  <2>1. Tail(o)[i] = o[i + 1] /\ i + 1 \in 1 .. Len(o)
    BY <1>1, <1>4
  <2>2. o[i + 1] = Answer(c, k, off + Len(s) + (i + 1) - 1)
    BY <2>1 DEF Reply
  <2>3. off + Len(s) + (i + 1) - 1 = off + Len(Append(s, Head(o))) + i - 1
    BY <1>1, <1>3, <2>1
  <2> QED
    BY <2>1, <2>2, <2>3
<1>7. off + Len(Append(s, Head(o))) + Len(Tail(o)) = 1 + k
  BY <1>1, <1>3, <1>4 DEF Reply
<1> QED
  BY <1>1, <1>3, <1>4, <1>5, <1>6, <1>7 DEF Reply

\* The hardware thread takes the first word of the reply in the link.
LEMMA ReplyTake ==
  ASSUME NEW c, NEW s, NEW o, NEW k, NEW off, Reply(c, s, o, k, off), s # << >>
  PROVE  Reply(c, Tail(s), o, k, off + 1) /\ Head(s) = Answer(c, k, off)
<1>1. s \in Seq(LinkWords) /\ o \in Seq(LinkWords) /\ Len(s) \in Nat \ {0} /\ Head(s) = s[1] /\ off \in Nat
  BY DEF Reply
<1>2. Head(s) = Answer(c, k, off)
  BY <1>1 DEF Reply
<1>3. Tail(s) \in Seq(LinkWords) /\ Len(Tail(s)) = Len(s) - 1
  BY <1>1
<1>4. \A i \in 1 .. Len(Tail(s)) : Tail(s)[i] = Answer(c, k, (off + 1) + i - 1)
  <2> SUFFICES ASSUME NEW i \in 1 .. Len(Tail(s))
               PROVE  Tail(s)[i] = Answer(c, k, (off + 1) + i - 1)
    OBVIOUS
  <2>1. Tail(s)[i] = s[i + 1] /\ i + 1 \in 1 .. Len(s)
    BY <1>1, <1>3
  <2>2. s[i + 1] = Answer(c, k, off + (i + 1) - 1)
    BY <2>1 DEF Reply
  <2>3. off + (i + 1) - 1 = (off + 1) + i - 1
    BY <1>1, <2>1
  <2> QED
    BY <2>1, <2>2, <2>3
<1>5. \A i \in 1 .. Len(o) : o[i] = Answer(c, k, (off + 1) + Len(Tail(s)) + i - 1)
  <2>1. off + Len(s) = (off + 1) + Len(Tail(s))
    BY <1>1, <1>3
  <2> QED
    BY <2>1 DEF Reply
<1>6. (off + 1) + Len(Tail(s)) + Len(o) = 1 + k
  BY <1>1, <1>3 DEF Reply
<1> QED
  BY <1>1, <1>2, <1>3, <1>4, <1>5, <1>6 DEF Reply

-----------------------------------------------------------------------------
(***************************************************************************)
(* The delegate's steps, and what they make of a call's words and reply.   *)
(***************************************************************************)

LEMMA CallFacts ==
  ASSUME NEW c \in Calls
  PROVE  c.kind \in Kinds /\ c.n \in 0 .. RamSize /\ c.n \in Nat
<1>1. c.kind \in Kinds /\ c.n \in Sizes \union {0}
  BY DEF Calls
<1>2. \A x \in Sizes \union {0} : x \in 0 .. RamSize
  OBVIOUS
<1>3. \A x \in 0 .. RamSize : x \in Nat
  OBVIOUS
<1>4. c.n \in 0 .. RamSize
  BY <1>1, <1>2, Zenon
<1> QED
  BY <1>1, <1>3, <1>4, Zenon

LEMMA NeedsFacts ==
  ASSUME NEW c \in Calls
  PROVE  /\ Pushes(c) \in 1 .. 3 /\ Needs(c) \in 1 .. 3 + RamSize /\ Pushes(c) <= Needs(c)
         /\ \A i \in Nat : Needed(Word(c, i)) = Needs(c)
<1>1. c.kind \in Kinds /\ c.n \in 0 .. RamSize
  BY CallFacts
<1>2. Pushes(c) \in 1 .. 3 /\ Needs(c) \in 1 .. 3 + RamSize /\ Pushes(c) <= Needs(c)
  BY <1>1 DEF Pushes, Needs
<1>3. \A i \in Nat : Needed(Word(c, i)) = Needs(c)
  BY <1>1 DEF Kinds, Pushes, Needs, Needed, Word
<1> QED
  BY <1>2, <1>3

\* A word of the request is read: it was sent, and the last one starts the
\* operation.
LEMMA ReadStep ==
  ASSUME call \in Calls, NEW t \in 0 .. Needs(call), Sent(call, h2s, req, t), Unanswered, ReadWord
  PROVE  Sent(call, h2s', req', t) /\ Unanswered' /\ Len(h2s') <= Len(h2s)
<1>1. /\ h2s \in Seq(LinkWords) /\ req \in Seq(LinkWords) /\ h2s # << >> /\ Len(req) + Len(h2s) = t
      /\ s2h' = s2h /\ out' = out /\ call' = call /\ req' = Append(req, Head(h2s)) /\ h2s' = Tail(h2s)
      /\ dpc' = IF req'[1].pos # 0 THEN "exit(1)" ELSE IF Len(req') = Needed(req'[1]) THEN "op" ELSE "cmd"
  BY DEF Sent, ReadWord, hwVars
<1>2. Sent(call, h2s', req', t)
  BY <1>1, SentRead
<1>3. Len(req') = Len(req) + 1 /\ Len(h2s') <= Len(h2s)
  BY <1>1
<1>4. req'[1] = Word(call, 0)
  BY <1>1, <1>2, <1>3 DEF Sent
<1>5. dpc' = IF Len(req') = Needs(call') THEN "op" ELSE "cmd"
  BY SMTT(30), <1>1, <1>4, NeedsFacts DEF Word
<1> QED
  BY <1>1, <1>2, <1>3, <1>5 DEF Unanswered

\* Only a delegate that has read the whole call operates; it exits, or answers
\* with as many words as the reply has.
LEMMA OperateStep ==
  ASSUME call \in Calls, NEW t \in 0 .. Needs(call), Sent(call, h2s, req, t), Unanswered, Operate
  PROVE  /\ t = Needs(call) /\ h2s = << >> /\ h2s' = << >>
         /\ IF call.kind = "thread_exit" THEN dpc' = "gone" /\ out' = << >> /\ s2h' = << >> /\ req' = req /\ call' = call
            ELSE Answered' /\ \E k \in 0 .. call.n : Reply(call, s2h', out', k, 0)
<1>1. /\ h2s \in Seq(LinkWords) /\ req \in Seq(LinkWords) /\ Len(req) + Len(h2s) = t /\ Len(req) = Needs(call)
      /\ s2h = << >> /\ s2h' = s2h /\ h2s' = h2s /\ req' = req /\ call' = call /\ Needs(call) \in 1 .. 3 + RamSize
  BY NeedsFacts DEF Sent, Unanswered, Operate, hwVars
<1>2. t = Needs(call) /\ h2s = << >>
  <2>1. Len(h2s) = 0
    BY <1>1
  <2> QED
    BY <1>1, <2>1
<1>3. req[1] = Word(call, 0)
  BY <1>1 DEF Sent
<1>4. req[1].of = call
  BY <1>3 DEF Word
<1>5. \A i \in 1 .. Len(req) : req[i] = Word(call, i - 1)
  BY DEF Sent
<1>6. call.kind \in Kinds /\ call.n \in 0 .. RamSize
  BY CallFacts
<1>7. CASE call.kind = "thread_exit"
  BY <1>1, <1>2, <1>4, <1>7 DEF Operate
<1>8. CASE call.kind \in {"call_0", "call_1", "call_2", "rq_send"}
  <2>1. dpc' = "reply" /\ out' = <<ReplyWord(call, 0, 0)>>
    BY <1>4, <1>8 DEF Operate
  <2>2. Reply(call, s2h', out', 0, 0)
    BY <1>1, <1>6, <2>1, AnswerType DEF Reply, Answer
  <2>3. Answered'
    BY <1>1, <1>2, <1>5, <2>1 DEF Answered
  <2> QED
    BY <1>1, <1>2, <1>6, <1>8, <2>2, <2>3
<1>9. CASE call.kind = "rq_receive"
  <2>1. PICK m \in 0 .. call.n : out' = <<ReplyWord(call, 0, m)>> \o [k \in 1 .. m |-> ReplyWord(call, k, 0)]
    BY <1>4, <1>9 DEF Operate
  <2> DEFINE rest == [k \in 1 .. m |-> ReplyWord(call, k, 0)]
  <2>2. rest \in Seq(LinkWords) /\ Len(rest) = m /\ \A i \in 1 .. m : rest[i] = ReplyWord(call, i, 0)
    BY <1>6, AnswerType
  <2> DEFINE first == <<ReplyWord(call, 0, m)>>
  <2>3. first \in Seq(LinkWords) /\ Len(first) = 1 /\ first[1] = ReplyWord(call, 0, m)
    BY <1>6, AnswerType
  <2>4. out' = first \o rest
    BY <2>1
  <2> HIDE DEF first, rest
  <2>5. out' \in Seq(LinkWords) /\ Len(out') = 1 + m
    BY ZenonT(40), <2>2, <2>3, <2>4, ConcatProperties
  <2>6. \A i \in 1 .. Len(out') : out'[i] = Answer(call, m, i - 1)
    <3> SUFFICES ASSUME NEW i \in 1 .. Len(out')
                 PROVE  out'[i] = Answer(call, m, i - 1)
      OBVIOUS
    <3>1. out'[i] = IF i <= 1 THEN first[i] ELSE rest[i - 1]
      BY <2>2, <2>3, <2>4, <2>5, ConcatProperties
    <3> QED
      BY <2>2, <2>3, <2>5, <3>1 DEF Answer
  <2>7. Reply(call, s2h', out', m, 0)
    BY <1>1, <1>6, <1>9, <2>5, <2>6 DEF Reply
  <2>8. Answered'
    BY <1>1, <1>2, <1>4, <1>5, <1>9, <2>5 DEF Answered, Operate
  <2> QED
    BY <1>1, <1>2, <1>9, <2>7, <2>8
<1> QED
  BY <1>6, <1>7, <1>8, <1>9 DEF Kinds

\* The whole reply has room in the link.
LEMMA RoomForReply ==
  ASSUME Types, call \in Calls, NEW k, NEW off, Reply(call, s2h, out, k, off), out # << >>
  PROVE  Len(s2h) < depth
<1>1. /\ depth \in Nat \ {0} /\ call.n \in Nat /\ k \in Nat /\ off \in Nat
      /\ s2h \in Seq(LinkWords) /\ out \in Seq(LinkWords) /\ off + Len(s2h) + Len(out) = 1 + k
      /\ k <= call.n /\ (call.kind # "rq_receive" => k = 0)
      /\ (call.kind = "rq_receive" => call.n < depth)
  <2>1. call.n \in Nat /\ call.kind \in Kinds
    BY CallFacts
  <2>2. call.kind # "none"
    BY <2>1 DEF Kinds
  <2>3. (call.kind = "rq_receive" => call.n < depth) /\ depth \in Depths
    BY <2>2 DEF Types, NoCall
  <2> QED
    BY <2>1, <2>3 DEF Reply
<1>2. Len(out) \in Nat \ {0} /\ Len(s2h) \in Nat
  BY <1>1
<1>3. Len(s2h) <= k
  BY <1>1, <1>2
<1>4. depth \in Nat \ {0}
  BY <1>1
<1>5. k < depth
  BY <1>1, <1>4
<1> QED
  BY <1>1, <1>2, <1>3, <1>4, <1>5

\* A word of the reply is written and none is lost.
LEMMA WriteStep ==
  ASSUME Types, call \in Calls, NEW k, NEW off, Answered, Reply(call, s2h, out, k, off), WriteWord
  PROVE  Answered' /\ Reply(call, s2h', out', k, off)
<1>1. /\ out # << >> /\ out \in Seq(LinkWords) /\ h2s = << >> /\ h2s' = h2s /\ call' = call /\ k \in Nat /\ out' = Tail(out)
      /\ req \in Seq(LinkWords) /\ \A i \in 1 .. Len(req) : req[i] = Word(call, i - 1)
  BY DEF Answered, WriteWord, Reply, hwVars, Calls
<1>2. s2h' = Append(s2h, Head(out))
  BY <1>1, RoomForReply DEF WriteWord, nputfsl
<1>3. Reply(call, s2h', out', k, off)
  BY <1>1, <1>2, ReplyWrite
<1>4. Answered'
  <2>1. CASE Len(out) = 1
    <3>1. dpc' = "cmd" /\ req' = << >>
      BY <2>1 DEF WriteWord
    <3>2. out' = << >>
      BY <1>1, <2>1
    <3> QED
      BY <1>1, <3>1, <3>2 DEF Answered
  <2>2. CASE Len(out) # 1
    <3>1. dpc' = "reply" /\ req' = req
      BY <2>2 DEF WriteWord
    <3>2. Tail(out) # << >>
      <4>1. Len(Tail(out)) # 0
        BY <1>1, <2>2
      <4>2. \A x : x = << >> => Len(x) = 0
        OBVIOUS
      <4> QED
        BY <4>1, <4>2, Zenon
    <3> QED
      BY <1>1, <3>1, <3>2 DEF Answered
  <2> QED
    BY <2>1, <2>2
<1> QED
  BY <1>3, <1>4

\* A step of the delegate while the procedure sends, or waits for its answer.
LEMMA AskingStep ==
  ASSUME Types, call \in Calls, NEW t \in 0 .. Needs(call), Sent(call, h2s, req, t), Unanswered, Delegate
  PROVE  /\ call' = call /\ Len(h2s') <= Len(h2s)
         /\ \/ Sent(call, h2s', req', t) /\ Unanswered'
            \/ /\ t = Needs(call) /\ call.kind # "thread_exit"
               /\ Answered' /\ \E k \in 0 .. call.n : Reply(call, s2h', out', k, 0)
            \/ /\ t = Needs(call) /\ call.kind = "thread_exit" /\ dpc' = "gone" /\ h2s' = << >> /\ s2h' = << >> /\ out' = << >>
               /\ Sent(call, h2s', req', t)
<1>1. call' = call /\ ~WriteWord
  BY DEF Unanswered, Delegate, ReadWord, Operate, WriteWord, hwVars
<1>2. CASE ReadWord
  BY <1>1, <1>2, ReadStep
<1>3. CASE Operate
  <2>1. req' = req /\ h2s' = h2s
    BY <1>3 DEF Operate
  <2> QED
    BY <1>1, <1>3, <2>1, OperateStep
<1> QED
  BY <1>1, <1>2, <1>3 DEF Delegate

\* A step of the delegate once the reply has been begun.
LEMMA AnsweringStep ==
  ASSUME Types, call \in Calls, NEW k, NEW off, Answered, Reply(call, s2h, out, k, off), Delegate
  PROVE  call' = call /\ h2s' = h2s /\ Answered' /\ Reply(call, s2h', out', k, off)
<1>1. ~ReadWord /\ ~Operate
  BY DEF Answered, ReadWord, Operate
<1>2. WriteWord
  BY <1>1 DEF Delegate
<1>3. call' = call /\ h2s' = h2s
  BY <1>2 DEF WriteWord, hwVars
<1> QED
  BY <1>2, <1>3, WriteStep

LEMMA AskedStep ==
  ASSUME Types, call \in Calls, call.kind # "thread_exit", Asked, Delegate
  PROVE  call' = call /\ Len(h2s') <= Len(h2s) /\ Asked'
<1>1. Needs(call) \in 0 .. Needs(call)
  BY NeedsFacts
<1>2. CASE Sent(call, h2s, req, Needs(call)) /\ Unanswered
  BY <1>1, <1>2, AskingStep DEF Asked
<1>3. CASE Answered /\ \E k \in 0 .. call.n : Reply(call, s2h, out, k, 0)
  <2>1. PICK k \in 0 .. call.n : Reply(call, s2h, out, k, 0)
    BY <1>3
  <2>2. call' = call /\ h2s' = h2s /\ Answered' /\ Reply(call, s2h', out', k, 0)
    BY <1>3, <2>1, AnsweringStep
  <2>3. Len(h2s') <= Len(h2s)
    BY <1>3, <2>2 DEF Answered
  <2> QED
    BY <2>2, <2>3 DEF Asked
<1> QED
  BY <1>2, <1>3 DEF Asked

\* With nothing in the links and nothing begun the delegate is idle.
LEMMA EmptyIdle ==
  ASSUME Empty
  PROVE  ~Delegate
BY DEF Empty, Delegate, ReadWord, Operate, WriteWord

LEMMA CallTyped ==
  ASSUME Types, call # NoCall
  PROVE  /\ call \in Calls
         /\ call.kind = "rq_receive" => call.n < depth
         /\ call.kind = "rq_send" => call.n # 0
         /\ call.kind \notin {"rq_receive", "rq_send"} => call.n = 0
         /\ call.kind \in Kinds /\ call.n \in 0 .. RamSize /\ depth \in Nat \ {0}
BY CallFacts DEF Types

\* What the delegate leaves alone.
LEMMA DelegateFrame ==
  ASSUME Delegate
  PROVE  UNCHANGED <<call, step, writing, reading, data, result, mem>>
BY DEF Delegate, ReadWord, Operate, WriteWord, hwVars

LEMMA LinkTyped ==
  ASSUME Types
  PROVE  depth \in Nat /\ h2s \in Seq(LinkWords) /\ Len(h2s) \in Nat /\ Len(h2s) <= depth
<1>1. depth \in Depths /\ h2s \in Seq(LinkWords) /\ Len(h2s) <= depth
  BY DEF Types
<1>2. Len(h2s) \in Nat
  BY <1>1
<1> QED
  BY <1>1, <1>2

LEMMA LinkShrinks ==
  ASSUME Types, Delegate, depth' = depth
  PROVE  h2s' \in Seq(LinkWords) /\ Len(h2s') <= depth'
<1>1. depth \in Nat /\ h2s \in Seq(LinkWords) /\ Len(h2s) \in Nat /\ Len(h2s) <= depth
  BY LinkTyped
<1>2. CASE h2s' = h2s
  BY <1>1, <1>2
<1>3. CASE h2s # << >> /\ h2s' = Tail(h2s)
  BY <1>1, <1>3
<1> QED
  BY <1>2, <1>3 DEF Delegate, ReadWord, Operate, WriteWord

LEMMA DelegateKeeps ==
  ASSUME IInv, Delegate, UNCHANGED <<depth, tag>>
  PROVE  IInv'
<1>1. /\ call' = call /\ step' = step /\ writing' = writing /\ reading' = reading /\ data' = data
      /\ result' = result /\ mem' = mem /\ depth' = depth /\ tag' = tag
  BY DelegateFrame
<1>2. Types /\ Message
  BY DEF IInv
<1>3. Message'
  BY <1>1, <1>2 DEF Message
<1>4. Types'
  BY <1>1, <1>2, LinkShrinks DEF Types
<1>5. CASE Resting \/ Completed
  BY <1>5, EmptyIdle DEF Resting, Completed
<1>6. CASE Pushing
  <2>1. call \in Calls /\ Pushes(call) \in 1 .. 3 /\ Needs(call) \in Nat /\ Pushes(call) <= Needs(call)
    BY <1>2, <1>6, CallTyped, NeedsFacts DEF Pushing
  <2> DEFINE t == IF step = 0 THEN 0 ELSE step - 1
  <2>2. t \in 0 .. Needs(call) /\ t # Needs(call) /\ Sent(call, h2s, req, t) /\ Unanswered
    BY <1>6, <2>1 DEF Pushing
  <2>3. Sent(call, h2s', req', t) /\ Unanswered'
    BY <1>2, <2>1, <2>2, AskingStep
  <2> QED
    BY <1>1, <1>3, <1>4, <1>6, <2>3 DEF Pushing, IInv
<1>7. CASE Sending
  <2>1. call \in Calls /\ Needs(call) = 3 + call.n /\ call.n \in Nat \ {0} /\ call.kind = "rq_send"
    BY <1>2, <1>7, CallTyped DEF Sending, Needs
  <2>2. \A t \in 0 .. Needs(call) : t # Needs(call) /\ Sent(call, h2s, req, t) /\ Unanswered
                                 => Sent(call, h2s', req', t) /\ Unanswered'
    BY <1>2, <2>1, AskingStep
  <2>3. Asked => Asked'
    BY <1>2, <2>1, AskedStep
  <2>4. CASE step = 4
    BY <1>1, <1>3, <1>4, <1>7, <2>1, <2>2, <2>4 DEF Sending, IInv
  <2>5. CASE step \in 6 .. 8
    <3>1. 3 + mem.addr \in 0 .. Needs(call) /\ 3 + mem.addr # Needs(call)
      BY <1>7, <2>1, <2>5 DEF Sending
    <3> QED
      BY <1>1, <1>3, <1>4, <1>7, <2>1, <2>2, <2>5, <3>1 DEF Sending, IInv
  <2>6. CASE step = 5 /\ mem.rem = 0
    BY <1>1, <1>3, <1>4, <1>7, <2>1, <2>3, <2>6 DEF Sending, IInv
  <2>7. CASE step = 5 /\ mem.rem > 0
    <3>1. 4 + mem.addr \in 0 .. Needs(call) /\ 4 + mem.addr # Needs(call)
      BY <1>7, <2>1, <2>7 DEF Sending
    <3> QED
      BY <1>1, <1>3, <1>4, <1>7, <2>1, <2>2, <2>7, <3>1 DEF Sending, IInv
  <2> QED
    BY <1>7, <2>4, <2>5, <2>6, <2>7 DEF Sending
<1>8. CASE Pulling
  <2>1. call \in Calls
    BY <1>2, <1>8, CallTyped DEF Pulling
  <2>2. Asked'
    BY <1>2, <1>8, <2>1, AskedStep DEF Pulling
  <2> QED
    BY <1>1, <1>3, <1>4, <1>8, <2>2 DEF Pulling, IInv
<1>9. CASE Receiving
  <2>1. call \in Calls /\ Answered
    BY <1>2, <1>9, CallTyped DEF Receiving
  <2>2. \A k, off : Reply(call, s2h, out, k, off) => Reply(call, s2h', out', k, off) /\ Answered'
    BY <1>2, <2>1, AnsweringStep
  <2>3. Answered'
    BY <1>9, <2>2 DEF Receiving
  <2> QED
    BY <1>1, <1>3, <1>4, <1>9, <2>2, <2>3 DEF Receiving, IInv, Stored
<1>10. CASE Halted
  <2>1. CASE dpc = "gone"
    BY <2>1 DEF Delegate, ReadWord, Operate, WriteWord
  <2>2. CASE Sent(call, h2s, req, 1) /\ Unanswered
    <3>1. call \in Calls /\ Needs(call) = 1
      BY <1>2, <1>10, CallTyped DEF Halted, Needs, Pushes
    <3> QED
      BY <1>1, <1>3, <1>4, <1>10, <2>2, <3>1, AskingStep DEF Halted, IInv
  <2> QED
    BY <1>10, <2>1, <2>2 DEF Halted
<1> QED
  BY <1>5, <1>6, <1>7, <1>8, <1>9, <1>10 DEF IInv


-----------------------------------------------------------------------------
(***************************************************************************)
(* The steps of the case statements, and what an edge does in each.        *)
(***************************************************************************)

LEMMA KindFacts ==
  ASSUME call \in Calls
  PROVE  call.kind \in Kinds /\ call # NoCall
BY CallFacts DEF Kinds, NoCall

LEMMA Call0Table ==
  ASSUME call # NoCall, call.kind = "call_0"
  PROVE  /\ step = 0 => Op = Push(0, 0, 1)
         /\ step = 1 => Op = Finish(2)
         /\ step = 2 => Op = Pull("result", 3)
         /\ step = 3 => Op = [op |-> "done"]
BY DEF Op, Procedure, osif_call_0, Push, Finish, Pull, Ram

LEMMA Call1Table ==
  ASSUME call # NoCall, call.kind = "call_1"
  PROVE  /\ step = 0 => Op = Push(0, 0, 1)
         /\ step = 1 => Op = Push(1, 0, 2)
         /\ step = 2 => Op = Finish(3)
         /\ step = 3 => Op = Pull("result", 4)
         /\ step = 4 => Op = [op |-> "done"]
BY DEF Op, Procedure, osif_call_1, Push, Finish, Pull, Ram

LEMMA Call2Table ==
  ASSUME call # NoCall, call.kind = "call_2"
  PROVE  /\ step = 0 => Op = Push(0, 0, 1)
         /\ step = 1 => Op = Push(1, 0, 2)
         /\ step = 2 => Op = Push(2, 1, 3)
         /\ step = 3 => Op = Finish(4)
         /\ step = 4 => Op = Pull("result", 5)
         /\ step = 5 => Op = [op |-> "done"]
BY DEF Op, Procedure, osif_call_2, Push, Finish, Pull, Ram

LEMMA ExitTable ==
  ASSUME call # NoCall, call.kind = "thread_exit"
  PROVE  /\ step = 0 => Op = Push(0, 0, 1)
         /\ step = 1 => Op = Finish(2)
         /\ step = 2 => Op = [op |-> "halt"]
BY DEF Op, Procedure, osif_thread_exit, Push, Finish, Pull, Ram

LEMMA SendTable ==
  ASSUME call # NoCall, call.kind = "rq_send"
  PROVE  /\ step = 0 => Op = Push(0, 0, 1)
         /\ step = 1 => Op = Push(1, 0, 2)
         /\ step = 2 => Op = Push(2, 1, 3)
         /\ step = 3 => Op = Finish(4)
         /\ step = 4 => Op = Ram("load")
         /\ step = 5 => Op = Ram("advance")
         /\ step = 6 => Op = Ram("take")
         /\ step = 7 => Op = [op |-> "pushRam", prev |-> 7, next |-> 8]
         /\ step = 8 => Op = Finish(5)
         /\ step = 9 => Op = Pull("result", 10)
         /\ step = 10 => Op = [op |-> "done"]
BY DEF Op, Procedure, osif_rq_send, Push, Finish, Pull, Ram

LEMMA ReceiveTable ==
  ASSUME call # NoCall, call.kind = "rq_receive"
  PROVE  /\ step = 0 => Op = Push(0, 0, 1)
         /\ step = 1 => Op = Push(1, 0, 2)
         /\ step = 2 => Op = Push(2, 1, 3)
         /\ step = 3 => Op = Finish(4)
         /\ step = 4 => Op = Pull("addr", 5)
         /\ step = 5 => Op = Ram("count")
         /\ step = 6 => Op = Ram("first")
         /\ step = 7 => Op = Ram("next")
         /\ step = 8 => Op = Ram("down")
         /\ step = 9 => Op = Ram("more")
         /\ step = 10 => Op = Pull("data", 7)
         /\ step = 11 => Op = [op |-> "done"]
BY DEF Op, Procedure, osif_rq_receive, Push, Finish, Pull, Ram

LEMMA PushTable ==
  ASSUME call \in Calls, step \in 0 .. Pushes(call) - 1
  PROVE  \E prev \in 0 .. 1 : Op = Push(step, prev, step + 1)
<1>1. call.kind \in Kinds /\ call # NoCall
  BY KindFacts
<1>2. step \in {0, 1, 2} /\ step < Pushes(call)
  BY NeedsFacts
<1>3. CASE step = 0
  <2>1. Op = Push(0, 0, 1)
    BY <1>1, <1>3, Call0Table, Call1Table, Call2Table, ExitTable, SendTable, ReceiveTable DEF Kinds
  <2> QED
    BY <1>3, <2>1
<1>4. CASE step = 1
  <2>1. call.kind \notin {"call_0", "thread_exit"}
    BY <1>2, <1>4 DEF Pushes
  <2>2. Op = Push(1, 0, 2)
    BY <1>1, <1>4, <2>1, Call0Table, Call1Table, Call2Table, ExitTable, SendTable, ReceiveTable DEF Kinds
  <2> QED
    BY <1>4, <2>2
<1>5. CASE step = 2
  <2>1. call.kind \notin {"call_0", "call_1", "thread_exit"}
    BY <1>2, <1>5 DEF Pushes
  <2>2. Op = Push(2, 1, 3)
    BY <1>1, <1>5, <2>1, Call0Table, Call1Table, Call2Table, ExitTable, SendTable, ReceiveTable DEF Kinds
  <2> QED
    BY <1>5, <2>2
<1> QED
  BY <1>2, <1>3, <1>4, <1>5

LEMMA FinishTable ==
  ASSUME call \in Calls, step = Pushes(call)
  PROVE  Op = Finish(step + 1)
<1>1. call.kind \in Kinds /\ call # NoCall
  BY KindFacts
<1>2. CASE call.kind \in {"call_0", "thread_exit"}
  <2>1. step = 1
    BY <1>2 DEF Pushes
  <2>2. Op = Finish(2)
    BY <1>1, <1>2, <2>1, Call0Table, ExitTable
  <2> QED
    BY <2>1, <2>2
<1>3. CASE call.kind = "call_1"
  <2>1. step = 2
    BY <1>3 DEF Pushes
  <2>2. Op = Finish(3)
    BY <1>1, <1>3, <2>1, Call1Table
  <2> QED
    BY <2>1, <2>2
<1>4. CASE call.kind \in {"call_2", "rq_receive", "rq_send"}
  <2>1. step = 3
    BY <1>4 DEF Pushes
  <2>2. Op = Finish(4)
    BY <1>1, <1>4, <2>1, Call2Table, SendTable, ReceiveTable
  <2> QED
    BY <2>1, <2>2
<1> QED
  BY <1>1, <1>2, <1>3, <1>4 DEF Kinds

LEMMA PullTable ==
  ASSUME call \in Calls, call.kind # "thread_exit"
  PROVE  /\ step = PullStep(call) => Op = IF call.kind = "rq_receive" THEN Pull("addr", 5) ELSE Pull("result", step + 1)
         /\ step = (IF call.kind = "rq_receive" THEN 11 ELSE PullStep(call) + 1) => Op = [op |-> "done"]
<1>1. call.kind \in Kinds /\ call # NoCall
  BY KindFacts
<1>2. CASE call.kind = "call_0"
  <2>1. PullStep(call) = 2
    BY <1>2 DEF PullStep, Pushes
  <2> QED
    BY <1>1, <1>2, <2>1, Call0Table
<1>3. CASE call.kind = "call_1"
  <2>1. PullStep(call) = 3
    BY <1>3 DEF PullStep, Pushes
  <2> QED
    BY <1>1, <1>3, <2>1, Call1Table
<1>4. CASE call.kind = "call_2"
  <2>1. PullStep(call) = 4
    BY <1>4 DEF PullStep, Pushes
  <2> QED
    BY <1>1, <1>4, <2>1, Call2Table
<1>5. CASE call.kind = "rq_receive"
  <2>1. PullStep(call) = 4
    BY <1>5 DEF PullStep, Pushes
  <2> QED
    BY <1>1, <1>5, <2>1, ReceiveTable
<1>6. CASE call.kind = "rq_send"
  <2>1. PullStep(call) = 9
    BY <1>6 DEF PullStep
  <2> QED
    BY <1>1, <1>6, <2>1, SendTable
<1> QED
  BY <1>1, <1>2, <1>3, <1>4, <1>5, <1>6 DEF Kinds

LEMMA RamFacts ==
  ASSUME NEW a, NEW r, NEW e, NEW d, RamEdge(a, r, e, d)
  PROVE  /\ DOMAIN mem' = {"ram", "q", "addr", "rem", "we", "wdata"}
         /\ mem'.addr = a /\ mem'.rem = r /\ mem'.we = e /\ mem'.wdata = d
         /\ mem'.ram = Written /\ mem'.q = mem.ram[mem.addr % RamSize]
BY DEF RamEdge

LEMMA WrittenFacts ==
  /\ DOMAIN Written = DOMAIN mem.ram
  /\ ~mem.we => Written = mem.ram
BY DEF Written

\* What an edge does that leaves the contents of the RAM port alone.
Held ==
  /\ DOMAIN mem' = {"ram", "q", "addr", "rem", "we", "wdata"}
  /\ mem'.addr = mem.addr /\ mem'.rem = mem.rem /\ mem'.we = FALSE
  /\ mem'.ram = Written /\ mem'.q = mem.ram[mem.addr % RamSize]

LEMMA PushEdge ==
  ASSUME NEW i, NEW prev, NEW next, Op = Push(i, prev, next), Clock
  PROVE  /\ data' = Word(call, i) /\ (writing' <=> ~Full) /\ ~reading' /\ step' = IF Full THEN prev ELSE next
         /\ call' = call /\ result' = result /\ Held /\ Links /\ UNCHANGED swVars
<1>1. PushWord /\ Links /\ UNCHANGED swVars
  BY DEF Clock, Push, PushWord, PushRam, fsl_push_finish, fsl_pull, RqReceiveStep, RqSendStep, RamStep, Halt, Done
<1>2. Op.word = i /\ Op.prev = prev /\ Op.next = next
  BY DEF Push
<1> QED
  BY <1>1, <1>2, RamFacts DEF PushWord, fsl_push, Goto, RamHold, Held

LEMMA PushRamEdge ==
  ASSUME Op = [op |-> "pushRam", prev |-> 7, next |-> 8], Clock
  PROVE  /\ data' = mem.q /\ (writing' <=> ~Full) /\ ~reading' /\ step' = IF Full THEN 7 ELSE 8
         /\ call' = call /\ result' = result /\ Held /\ Links /\ UNCHANGED swVars
<1>1. PushRam /\ Links /\ UNCHANGED swVars
  BY DEF Clock, PushWord, PushRam, fsl_push_finish, fsl_pull, RqReceiveStep, RqSendStep, RamStep, Halt, Done
<1>2. Op.prev = 7 /\ Op.next = 8
  OBVIOUS
<1> QED
  BY <1>1, <1>2, RamFacts DEF PushRam, fsl_push, Goto, RamHold, Held

LEMMA FinishEdge ==
  ASSUME NEW next, Op = Finish(next), Clock
  PROVE  /\ data' = data /\ (writing' <=> Full) /\ ~reading' /\ step' = IF Full THEN step ELSE next
         /\ call' = call /\ result' = result /\ Held /\ Links /\ UNCHANGED swVars
<1>1. fsl_push_finish /\ Links /\ UNCHANGED swVars
  BY DEF Clock, Finish, PushWord, PushRam, fsl_push_finish, fsl_pull, RqReceiveStep, RqSendStep, RamStep, Halt, Done
<1>2. Op.next = next
  BY DEF Finish
<1> QED
  BY <1>1, <1>2, RamFacts DEF fsl_push_finish, Goto, RamHold, Held

LEMMA PullEdge ==
  ASSUME NEW to, NEW next, Op = Pull(to, next), Clock
  PROVE  /\ data' = data /\ ~writing' /\ call' = call /\ Links /\ UNCHANGED swVars
         /\ (reading' <=> Exists /\ ~reading)
         /\ DOMAIN mem' = {"ram", "q", "addr", "rem", "we", "wdata"}
         /\ mem'.rem = mem.rem /\ mem'.ram = Written /\ (mem'.we <=> to = "data")
         /\ IF Exists /\ reading
            THEN /\ step' = next
                 /\ result' = (IF to = "result" THEN Head(s2h) ELSE result)
                 /\ mem'.addr = (IF to = "addr" THEN Head(s2h).val ELSE mem.addr)
                 /\ to = "data" => mem'.wdata = Head(s2h)
            ELSE step' = step /\ result' = result /\ mem'.addr = mem.addr
<1>1. fsl_pull /\ Links /\ UNCHANGED swVars
  BY DEF Clock, Pull, PushWord, PushRam, fsl_push_finish, fsl_pull, RqReceiveStep, RqSendStep, RamStep, Halt, Done
<1>2. Op.to = to /\ Op.next = next
  BY DEF Pull
<1>3. /\ step' = (IF Exists /\ reading THEN next ELSE step) /\ call' = call
      /\ (reading' <=> Exists /\ ~reading) /\ ~writing' /\ data' = data
      /\ result' = (IF (Exists /\ reading) /\ to = "result" THEN Head(s2h) ELSE result)
  BY <1>1, <1>2 DEF fsl_pull, Goto
<1>4. RamEdge(IF (Exists /\ reading) /\ to = "addr" THEN Head(s2h).val ELSE mem.addr, mem.rem, to = "data",
              IF (Exists /\ reading) /\ to = "data" THEN Head(s2h) ELSE mem.wdata)
  BY <1>1, <1>2 DEF fsl_pull
<1>5. /\ DOMAIN mem' = {"ram", "q", "addr", "rem", "we", "wdata"}
      /\ mem'.rem = mem.rem /\ mem'.ram = Written /\ mem'.we = (to = "data")
      /\ mem'.addr = (IF (Exists /\ reading) /\ to = "addr" THEN Head(s2h).val ELSE mem.addr)
      /\ mem'.wdata = (IF (Exists /\ reading) /\ to = "data" THEN Head(s2h) ELSE mem.wdata)
  BY <1>4, RamFacts
<1> QED
  BY <1>1, <1>3, <1>5

\* An edge that moves on to step s with the port at word a and r to go.
Moved(s, a, r) ==
  /\ data' = data /\ ~writing' /\ ~reading' /\ call' = call /\ step' = s
  /\ DOMAIN mem' = {"ram", "q", "addr", "rem", "we", "wdata"}
  /\ mem'.addr = a /\ mem'.rem = r /\ mem'.we = FALSE
  /\ mem'.ram = Written /\ mem'.q = mem.ram[mem.addr % RamSize]

LEMMA RamStepFacts ==
  ASSUME NEW what, NEW s, NEW a, NEW r, RamStep(what, s, a, r)
  PROVE  Op.op = what /\ Moved(s, a, r)
BY RamFacts DEF RamStep, Moved, Goto, Quiet

LEMMA RamEdges ==
  ASSUME NEW what \in {"load", "advance", "take", "count", "first", "next", "down", "more"}, Op = Ram(what), Clock
  PROVE  (RqReceiveStep \/ RqSendStep) /\ Links /\ UNCHANGED swVars /\ Op.op = what
BY DEF Clock, Ram, PushWord, PushRam, fsl_push_finish, fsl_pull, Halt, Done

LEMMA LoadEdge ==
  ASSUME Op = Ram("load"), Clock
  PROVE  /\ Moved(6, 0, call.n)
         /\ result' = result /\ Links /\ UNCHANGED swVars
BY RamEdges, RamStepFacts DEF RqReceiveStep, RqSendStep

LEMMA AdvanceEdge ==
  ASSUME Op = Ram("advance"), Clock
  PROVE  /\ Moved(IF mem.rem > 0 THEN 6 ELSE 9, IF mem.rem > 0 THEN (mem.addr + 1) % RamSize ELSE mem.addr, mem.rem)
         /\ result' = result /\ Links /\ UNCHANGED swVars
BY RamEdges, RamStepFacts DEF RqReceiveStep, RqSendStep

LEMMA TakeEdge ==
  ASSUME Op = Ram("take"), Clock
  PROVE  /\ Moved(7, mem.addr, (mem.rem + RemMod - 1) % RemMod)
         /\ result' = result /\ Links /\ UNCHANGED swVars
BY RamEdges, RamStepFacts DEF RqReceiveStep, RqSendStep

LEMMA CountEdge ==
  ASSUME Op = Ram("count"), Clock
  PROVE  /\ Moved(6, mem.addr, mem.addr)
         /\ result' = ReplyWord(call, 0, mem.addr) /\ Links /\ UNCHANGED swVars
BY RamEdges, RamStepFacts DEF RqReceiveStep, RqSendStep

LEMMA FirstEdge ==
  ASSUME Op = Ram("first"), Clock
  PROVE  /\ Moved(IF mem.rem > 0 THEN 10 ELSE 11, IF mem.rem > 0 THEN 0 ELSE mem.addr, mem.rem)
         /\ result' = result /\ Links /\ UNCHANGED swVars
BY RamEdges, RamStepFacts DEF RqReceiveStep, RqSendStep

LEMMA NextEdge ==
  ASSUME Op = Ram("next"), Clock
  PROVE  /\ Moved(8, mem.addr + 1, mem.rem)
         /\ result' = result /\ Links /\ UNCHANGED swVars
BY RamEdges, RamStepFacts DEF RqReceiveStep, RqSendStep

LEMMA DownEdge ==
  ASSUME Op = Ram("down"), Clock
  PROVE  /\ Moved(9, mem.addr, mem.rem - 1)
         /\ result' = result /\ Links /\ UNCHANGED swVars
BY RamEdges, RamStepFacts DEF RqReceiveStep, RqSendStep

LEMMA MoreEdge ==
  ASSUME Op = Ram("more"), Clock
  PROVE  /\ Moved(IF mem.rem > 0 THEN 10 ELSE 11, mem.addr, mem.rem)
         /\ result' = result /\ Links /\ UNCHANGED swVars
BY RamEdges, RamStepFacts DEF RqReceiveStep, RqSendStep

LEMMA DoneEdge ==
  ASSUME Op = [op |-> "done"], Clock
  PROVE  /\ step' = 0 /\ call' = NoCall /\ ~writing' /\ ~reading' /\ data' = data /\ result' = result
         /\ Held /\ Links /\ UNCHANGED swVars
<1>1. Done /\ Links /\ UNCHANGED swVars
  BY SMTT(30) DEF Clock, PushWord, PushRam, fsl_push_finish, fsl_pull, RqReceiveStep, RqSendStep, RamStep, Halt, Done
<1> QED
  BY ZenonT(40), <1>1, RamFacts DEF Done, Quiet, RamHold, Held

LEMMA HaltEdge ==
  ASSUME Op = [op |-> "halt"], Clock
  PROVE  writing \/ reading
BY DEF Clock, PushWord, PushRam, fsl_push_finish, fsl_pull, RqReceiveStep, RqSendStep, RamStep, Halt, Done

LEMMA IdleEdge ==
  ASSUME call = NoCall
  PROVE  ~Clock
BY DEF Op, Clock, PushWord, PushRam, fsl_push_finish, fsl_pull, RqReceiveStep, RqSendStep, RamStep, Halt, Done

-----------------------------------------------------------------------------
(***************************************************************************)
(* The clock's edges, one lemma for each part of a procedure.              *)
(***************************************************************************)

LEMMA ModFacts ==
  /\ \A a \in 0 .. RamSize - 1 : a % RamSize = a
  /\ \A r \in 1 .. RemMod : (r + RemMod - 1) % RemMod = r - 1
<1>1. \A a \in 0 .. RamSize - 1 : a % RamSize = a
  OBVIOUS
<1>2. \A r \in 1 .. RemMod : (r + RemMod - 1) % RemMod = r - 1
  OBVIOUS
<1> QED
  BY <1>1, <1>2

LEMMA TypesKept ==
  ASSUME Types, Links, depth' = depth, tag' = tag, call' = call \/ call' = NoCall,
         DOMAIN mem' = {"ram", "q", "addr", "rem", "we", "wdata"}, mem'.ram = Written,
         data' \in LinkWords, result' \in LinkWords
  PROVE  Types'
<1>1. depth \in Nat /\ h2s \in Seq(LinkWords) /\ Len(h2s) <= depth /\ data \in LinkWords /\ Len(h2s) \in Nat
  BY LinkTyped DEF Types
<1>2. h2s' \in Seq(LinkWords) /\ Len(h2s') <= depth
  BY <1>1 DEF Links, Full
<1>3. DOMAIN mem'.ram = 0 .. RamSize - 1
  BY WrittenFacts DEF Types
<1> QED
  BY <1>2, <1>3 DEF Types

LEMMA MessageKept ==
  ASSUME Message, call' = call, mem'.ram = Written, call.kind = "rq_send" => ~mem.we
  PROVE  Message'
BY WrittenFacts DEF Message

\* The pushes: no link is full before its third word, and the last word is
\* held until the link takes it.
LEMMA PushingEdge ==
  ASSUME Fits, Types, Message, Pushing, Clock, depth' = depth, tag' = tag
  PROVE  IInv'
<1>1. /\ call \in Calls /\ call # NoCall /\ depth \in Nat /\ depth >= 2 /\ Pushes(call) \in 1 .. 3 /\ Needs(call) \in 1 .. 3 + RamSize
      /\ Pushes(call) <= Needs(call) /\ step \in 0 .. Pushes(call) /\ step \in Nat
  BY CallTyped, NeedsFacts DEF Types, Pushing, Fits
<1> DEFINE t == IF step = 0 THEN 0 ELSE step - 1
<1>2. /\ Sent(call, h2s, req, t) /\ t \in 0 .. 2 + RamSize /\ Len(h2s) <= t /\ Len(h2s) \in Nat
  <2>1. Sent(call, h2s, req, t) /\ t \in 0 .. 2
    BY <1>1 DEF Pushing
  <2> QED
    BY <2>1 DEF Sent
<1>3. Unanswered /\ (writing <=> step > 0) /\ ~reading /\ ~mem.we /\ (step > 0 => data = Word(call, t))
  BY <1>1 DEF Pushing
<1>4. CASE step < Pushes(call)
  <2>1. PICK prev \in 0 .. 1 : Op = Push(step, prev, step + 1)
    BY <1>1, <1>4, PushTable
  <2>2. ~Full
    BY <1>1, <1>2, <1>4 DEF Full
  <2>3. /\ data' = Word(call, step) /\ writing' /\ ~reading' /\ step' = step + 1
        /\ call' = call /\ result' = result /\ Held /\ Links /\ UNCHANGED swVars
    BY <2>1, <2>2, PushEdge
  <2>4. Types' /\ Message'
    BY <1>1, <1>3, <2>3, WordType, TypesKept, MessageKept DEF Held, Types
  <2>5. Sent(call, h2s', req', step)
    <3>1. CASE step = 0
      BY <1>2, <1>3, <2>3, <3>1 DEF Links, swVars
    <3>2. CASE step > 0
      <4>1. h2s' = Append(h2s, Word(call, t)) /\ req' = req
        BY <1>3, <2>2, <2>3, <3>2 DEF Links, swVars
      <4>2. t + 1 = step
        BY <1>1, <3>2
      <4> QED
        BY <1>1, <1>2, <4>1, <4>2, SentOne
    <3> QED
      BY <1>1, <3>1, <3>2
  <2>6. Unanswered'
    BY <1>3, <2>3 DEF Unanswered, Links, swVars
  <2>7. Pushing'
    BY <1>1, <1>4, <2>3, <2>5, <2>6 DEF Pushing, Held
  <2> QED
    BY <2>4, <2>7 DEF IInv
<1>5. CASE step = Pushes(call)
  <2>1. Op = Finish(step + 1)
    BY <1>1, <1>5, FinishTable
  <2>2. /\ data' = data /\ (writing' <=> Full) /\ ~reading' /\ step' = (IF Full THEN step ELSE step + 1)
        /\ call' = call /\ result' = result /\ Held /\ Links /\ UNCHANGED swVars
    BY <2>1, FinishEdge
  <2>3. Types' /\ Message'
    BY <1>1, <1>3, <2>2, TypesKept, MessageKept DEF Held, Types
  <2>4. Unanswered'
    BY <1>3, <2>2 DEF Unanswered, Links, swVars
  <2>5. CASE Full
    <3>1. Sent(call', h2s', req', t) /\ step' = step
      BY <1>2, <2>2, <2>5 DEF Links, swVars
    <3>2. Pushing'
      BY <1>1, <1>3, <1>5, <2>2, <2>4, <2>5, <3>1 DEF Pushing, Held
    <3> QED
      BY <2>3, <3>2 DEF IInv
  <2>6. CASE ~Full
    <3>1. h2s' = Append(h2s, Word(call, t)) /\ req' = req /\ t + 1 = Pushes(call) /\ step' = Pushes(call) + 1
      BY <1>1, <1>3, <1>5, <2>2, <2>6 DEF Links, swVars
    <3>2. Sent(call, h2s', req', Pushes(call))
      BY <1>1, <1>2, <3>1, SentOne
    <3>3. CASE call.kind = "thread_exit"
      <4>1. Pushes(call) = 1
        BY <3>3 DEF Pushes
      <4> QED
        BY <1>1, <2>2, <2>3, <2>4, <2>6, <3>1, <3>2, <3>3, <4>1 DEF IInv, Halted, Held
    <3>4. CASE call.kind = "rq_send"
      <4>1. Pushes(call) = 3
        BY <3>4 DEF Pushes
      <4>2. Sending'
        BY <1>1, <2>2, <2>4, <2>6, <3>1, <3>2, <3>4, <4>1 DEF Sending, Held
      <4> QED
        BY <2>3, <4>2 DEF IInv
    <3>5. CASE call.kind \notin {"thread_exit", "rq_send"}
      <4>1. Needs(call) = Pushes(call) /\ PullStep(call) = Pushes(call) + 1
        BY <3>5 DEF Needs, PullStep
      <4>2. Asked'
        BY <2>2, <2>4, <3>2, <4>1 DEF Asked
      <4>3. Pulling'
        BY <1>1, <2>2, <2>6, <3>1, <3>5, <4>1, <4>2 DEF Pulling, Held
      <4> QED
        BY <2>3, <4>3 DEF IInv
    <3> QED
      BY <3>3, <3>4, <3>5
  <2> QED
    BY <2>5, <2>6
<1> QED
  BY <1>1, <1>4, <1>5

\* osif_rq_send's message: each word of the RAM is offered until it is taken,
\* and the port's address is that of the next.
LEMMA SendingEdge ==
  ASSUME Fits, Types, Message, Sending, Clock, depth' = depth, tag' = tag
  PROVE  IInv'
<1>1. /\ call \in Calls /\ call # NoCall /\ call.kind = "rq_send" /\ call.n \in 1 .. RamSize /\ RamSize < RemMod
      /\ Needs(call) = 3 + call.n /\ PullStep(call) = 9 /\ ~reading /\ ~mem.we
  BY CallTyped DEF Sending, Fits, Needs, PullStep
<1>2. \A a \in 0 .. call.n - 1 : mem.ram[a] = Word(call, 3 + a) /\ Word(call, 3 + a) \in LinkWords
  BY <1>1, WordType DEF Message
<1>3. data \in LinkWords /\ result \in LinkWords
  BY DEF Types
<1>4. CASE step = 4
  <2>1. Moved(6, 0, call.n) /\ result' = result /\ Links /\ UNCHANGED swVars
    BY <1>1, <1>4, SendTable, LoadEdge
  <2>2. Types' /\ Message'
    BY <1>1, <1>3, <2>1, TypesKept, MessageKept DEF Moved
  <2>3. ~writing /\ Sent(call, h2s, req, 3) /\ Unanswered
    BY <1>4 DEF Sending
  <2>4. Sent(call, h2s', req', 3) /\ Unanswered'
    BY <1>1, <2>1, <2>3 DEF Unanswered, Links, swVars, Moved
  <2>5. Sending'
    BY <1>1, <2>1, <2>4 DEF Sending, Moved
  <2> QED
    BY <2>2, <2>5 DEF IInv
<1>5. CASE step = 5
  <2>1. /\ Moved(IF mem.rem > 0 THEN 6 ELSE 9, IF mem.rem > 0 THEN (mem.addr + 1) % RamSize ELSE mem.addr, mem.rem)
        /\ result' = result /\ Links /\ UNCHANGED swVars
    BY <1>1, <1>5, SendTable, AdvanceEdge
  <2>2. Types' /\ Message'
    BY <1>1, <1>3, <2>1, TypesKept, MessageKept DEF Moved
  <2>3. mem.addr \in 0 .. call.n - 1 /\ ~writing /\ mem.rem = call.n - mem.addr - 1
    BY <1>5 DEF Sending
  <2>4. h2s' = h2s /\ s2h' = s2h /\ dpc' = dpc /\ req' = req /\ out' = out /\ call' = call
    BY <1>1, <2>1, <2>3 DEF Links, swVars, Moved
  <2>5. CASE mem.rem > 0
    <3>1. Sent(call, h2s, req, 4 + mem.addr) /\ Unanswered
      BY <1>5, <2>5 DEF Sending
    <3>2. mem.addr + 1 \in 0 .. call.n - 1 /\ mem'.addr = mem.addr + 1 /\ mem'.rem = call.n - mem'.addr /\ step' = 6
          /\ 3 + mem'.addr = 4 + mem.addr
      <4>1. mem.addr + 1 \in 0 .. call.n - 1 /\ mem.addr + 1 \in 0 .. RamSize - 1 /\ mem.rem = call.n - (mem.addr + 1)
        BY <1>1, <2>3, <2>5
      <4>2. (mem.addr + 1) % RamSize = mem.addr + 1
        BY <4>1, ModFacts
      <4>3. mem'.addr = mem.addr + 1 /\ mem'.rem = mem.rem /\ step' = 6
        BY <2>1, <2>5, <4>2 DEF Moved
      <4>4. 3 + (mem.addr + 1) = 4 + mem.addr
        BY <2>3
      <4> QED
        BY <4>1, <4>3, <4>4
    <3>3. Sent(call', h2s', req', 3 + mem'.addr) /\ Unanswered'
      BY <2>4, <3>1, <3>2 DEF Unanswered
    <3>4. Sending'
      BY <1>1, <2>1, <2>4, <3>2, <3>3 DEF Sending, Moved
    <3> QED
      BY <2>2, <3>4 DEF IInv
  <2>6. CASE mem.rem = 0
    <3>1. Asked
      BY <1>1, <1>5, <2>3, <2>6 DEF Sending
    <3>2. Asked'
      BY <2>4, <3>1 DEF Asked, Unanswered, Answered
    <3>3. Pulling'
      BY <1>1, <2>1, <2>4, <2>6, <3>2 DEF Pulling, Moved
    <3> QED
      BY <2>2, <3>3 DEF IInv
  <2> QED
    BY <1>1, <2>3, <2>5, <2>6
<1>6. CASE step \in 6 .. 8
  <2>1. /\ mem.addr \in 0 .. call.n - 1 /\ (writing <=> step = 8) /\ Sent(call, h2s, req, 3 + mem.addr) /\ Unanswered
        /\ mem.rem = call.n - mem.addr - (IF step = 6 THEN 0 ELSE 1)
        /\ (step = 7 => mem.q = Word(call, 3 + mem.addr)) /\ (step = 8 => data = Word(call, 3 + mem.addr))
    BY <1>6 DEF Sending
  <2>2. mem.ram[mem.addr % RamSize] = Word(call, 3 + mem.addr) /\ Word(call, 3 + mem.addr) \in LinkWords
    <3>1. mem.addr \in 0 .. RamSize - 1
      BY <1>1, <2>1
    <3> QED
      BY <1>2, <2>1, <3>1, ModFacts
  <2>3. CASE step = 6
    <3>1. Moved(7, mem.addr, (mem.rem + RemMod - 1) % RemMod) /\ result' = result /\ Links /\ UNCHANGED swVars
      BY <1>1, <2>3, SendTable, TakeEdge
    <3>2. Types' /\ Message'
      BY <1>1, <1>3, <3>1, TypesKept, MessageKept DEF Moved
    <3>3. mem.rem \in 1 .. RemMod /\ mem.rem - 1 = call.n - mem.addr - 1
      BY <1>1, <2>1, <2>3
    <3>4. mem'.rem = call.n - mem'.addr - 1 /\ mem'.addr = mem.addr /\ mem'.q = Word(call, 3 + mem.addr) /\ step' = 7
      BY <2>2, <3>1, <3>3, ModFacts DEF Moved
    <3>5. Sent(call', h2s', req', 3 + mem'.addr) /\ Unanswered' /\ call' = call
      BY <1>1, <2>1, <2>3, <3>1, <3>4 DEF Unanswered, Links, swVars, Moved
    <3>6. Sending'
      BY <1>1, <2>1, <3>1, <3>4, <3>5 DEF Sending, Moved
    <3> QED
      BY <3>2, <3>6 DEF IInv
  <2>4. CASE step = 7
    <3>1. /\ data' = mem.q /\ (writing' <=> ~Full) /\ ~reading' /\ step' = (IF Full THEN 7 ELSE 8)
          /\ call' = call /\ result' = result /\ Held /\ Links /\ UNCHANGED swVars
      BY <1>1, <2>4, SendTable, PushRamEdge
    <3>2. Types' /\ Message'
      BY <1>1, <1>3, <2>1, <2>2, <2>4, <3>1, TypesKept, MessageKept DEF Held
    <3>3. Sent(call', h2s', req', 3 + mem'.addr) /\ Unanswered'
      BY <1>1, <2>1, <2>4, <3>1 DEF Unanswered, Links, swVars, Held
    <3>4. Sending'
      BY <1>1, <2>1, <2>2, <2>4, <3>1, <3>3 DEF Sending, Held
    <3> QED
      BY <3>2, <3>4 DEF IInv
  <2>5. CASE step = 8
    <3>1. /\ data' = data /\ (writing' <=> Full) /\ ~reading' /\ step' = (IF Full THEN step ELSE 5)
          /\ call' = call /\ result' = result /\ Held /\ Links /\ UNCHANGED swVars
      BY <1>1, <2>5, SendTable, FinishEdge
    <3>2. Types' /\ Message'
      BY <1>1, <1>3, <3>1, TypesKept, MessageKept DEF Held
    <3>3. Unanswered' /\ mem'.addr = mem.addr /\ mem'.rem = mem.rem /\ ~mem'.we
      BY <1>1, <2>1, <3>1 DEF Unanswered, Links, swVars, Held
    <3>4. CASE Full
      <4>1. Sent(call', h2s', req', 3 + mem'.addr)
        BY <2>1, <3>1, <3>3, <3>4 DEF Links, swVars
      <4>2. Sending'
        BY <1>1, <2>1, <2>5, <3>1, <3>3, <3>4, <4>1 DEF Sending
      <4> QED
        BY <3>2, <4>2 DEF IInv
    <3>5. CASE ~Full
      <4>1. h2s' = Append(h2s, Word(call, 3 + mem.addr)) /\ req' = req
        BY <2>1, <2>5, <3>1, <3>5 DEF Links, swVars
      <4>2. 3 + mem.addr \in 0 .. 2 + RamSize /\ (3 + mem.addr) + 1 = 4 + mem.addr
        BY <1>1, <2>1
      <4>3. Sent(call', h2s', req', 4 + mem'.addr)
        BY <1>1, <2>1, <3>1, <3>3, <4>1, <4>2, SentOne
      <4>4. mem.rem = 0 => Asked'
        <5>1. mem.rem = 0 => 4 + mem.addr = Needs(call)
          BY <1>1, <2>1, <2>5
        <5> QED
          BY <3>1, <3>3, <4>3, <5>1 DEF Asked
      <4>5. mem.rem > 0 \/ mem.rem = 0
        BY <1>1, <2>1, <2>5
      <4>6. Sending'
        BY <1>1, <2>1, <2>5, <3>1, <3>3, <3>5, <4>3, <4>4, <4>5 DEF Sending
      <4> QED
        BY <3>2, <4>6 DEF IInv
    <3> QED
      BY <3>4, <3>5
  <2> QED
    BY <1>6, <2>3, <2>4, <2>5
<1> QED
  BY <1>4, <1>5, <1>6 DEF Sending

\* An edge in a step that waits for a word: the link to the thread loses its
\* first word where it is taken.
LEMMA TakeWord ==
  ASSUME NEW k, NEW off, Reply(call, s2h, out, k, off), Links, out' = out, Exists, reading
  PROVE  Head(s2h) = Answer(call, k, off) /\ Reply(call, s2h', out', k, off + 1)
BY ReplyTake DEF Links, Exists

\* With its last word taken nothing of a reply is left.
LEMMA ReplyOver ==
  ASSUME NEW c \in Calls, NEW s, NEW o, NEW k, Reply(c, s, o, k, 1 + k)
  PROVE  s = << >> /\ o = << >>
<1>1. s \in Seq(LinkWords) /\ o \in Seq(LinkWords) /\ k \in Nat /\ (1 + k) + Len(s) + Len(o) = 1 + k
  BY CallFacts DEF Reply
<1>2. Len(s) = 0 /\ Len(o) = 0
  <2>1. Len(s) \in Nat /\ Len(o) \in Nat
    BY <1>1
  <2> QED
    BY <1>1, <2>1
<1> QED
  BY <1>1, <1>2

LEMMA PullingEdge ==
  ASSUME Types, Message, Pulling, Clock, depth' = depth, tag' = tag
  PROVE  IInv'
<1>1. call \in Calls /\ call # NoCall /\ call.kind # "thread_exit" /\ step = PullStep(call) /\ ~writing /\ ~mem.we /\ Asked
  BY CallTyped DEF Pulling
<1>2. data \in LinkWords /\ result \in LinkWords
  BY DEF Types
<1>3. Op = IF call.kind = "rq_receive" THEN Pull("addr", 5) ELSE Pull("result", step + 1)
  BY <1>1, PullTable
<1>4. h2s' = h2s /\ req' = req /\ out' = out /\ dpc' = dpc /\ call' = call /\ Links /\ data' = data /\ ~writing' /\ ~mem'.we
      /\ DOMAIN mem' = {"ram", "q", "addr", "rem", "we", "wdata"} /\ mem'.ram = Written
  <2>1. CASE call.kind = "rq_receive"
    <3>1. Op = Pull("addr", 5)
      BY <1>3, <2>1
    <3> QED
      BY <1>1, <3>1, PullEdge DEF Links, swVars
  <2>2. CASE call.kind # "rq_receive"
    <3>1. Op = Pull("result", step + 1)
      BY <1>3, <2>2
    <3> QED
      BY <1>1, <3>1, PullEdge DEF Links, swVars
  <2> QED
    BY <2>1, <2>2
<1>5. CASE ~(Exists /\ reading)
  <2>1. step' = step /\ result' = result /\ s2h' = s2h
    BY <1>1, <1>3, <1>5, PullEdge DEF Links
  <2>2. Types' /\ Message'
    BY <1>1, <1>2, <1>4, <2>1, TypesKept, MessageKept
  <2>3. Asked'
    BY <1>1, <1>4, <2>1 DEF Asked, Unanswered, Answered
  <2>4. Pulling'
    BY <1>1, <1>4, <2>1, <2>3 DEF Pulling
  <2> QED
    BY <2>2, <2>4 DEF IInv
<1>6. CASE Exists /\ reading
  <2>1. Answered /\ \E k \in 0 .. call.n : Reply(call, s2h, out, k, 0)
    BY <1>1, <1>6 DEF Asked, Unanswered, Exists
  <2>2. PICK k \in 0 .. call.n : Reply(call, s2h, out, k, 0)
    BY <2>1
  <2>3. Head(s2h) = ReplyWord(call, 0, k) /\ Reply(call, s2h', out', k, 1) /\ ~reading'
    <3>1. Head(s2h) = Answer(call, k, 0) /\ Reply(call, s2h', out', k, 0 + 1)
      BY <1>4, <1>6, <2>2, TakeWord
    <3> QED
      BY <1>1, <1>3, <1>6, <3>1, PullEdge DEF Answer
  <2>4. Answered' /\ k \in 0 .. RamSize
    BY <1>1, <1>4, <2>1, CallFacts DEF Answered
  <2>5. ReplyWord(call, 0, k) \in LinkWords
    BY <1>1, <2>4, AnswerType
  <2>6. CASE call.kind = "rq_receive"
    <3>1. step' = 5 /\ result' = result /\ mem'.addr = Head(s2h).val
      BY <1>3, <1>6, <2>6, PullEdge
    <3>2. mem'.addr = k
      BY <2>3, <3>1 DEF ReplyWord
    <3>3. Types' /\ Message'
      BY <1>1, <1>2, <1>4, <3>1, TypesKept, MessageKept
    <3>4. Receiving'
      BY <1>1, <1>4, <2>3, <2>4, <2>6, <3>1, <3>2 DEF Receiving
    <3> QED
      BY <3>3, <3>4 DEF IInv
  <2>7. CASE call.kind # "rq_receive"
    <3>1. step' = step + 1 /\ result' = ReplyWord(call, 0, k)
      BY <1>1, <1>3, <1>6, <2>3, <2>7, PullEdge
    <3>2. Types' /\ Message'
      BY <1>1, <1>2, <1>4, <2>5, <3>1, TypesKept, MessageKept
    <3>3. k = 0
      BY <2>2, <2>7 DEF Reply
    <3>4. Empty'
      <4>1. s2h' = << >> /\ out' = << >>
        BY <1>1, <2>3, <3>3, ReplyOver
      <4> QED
        BY <2>4, <4>1 DEF Answered, Empty
    <3>5. Completed'
      BY <1>1, <1>4, <2>3, <2>7, <3>1, <3>4 DEF Completed, ReplyWord
    <3> QED
      BY <3>2, <3>5 DEF IInv
  <2> QED
    BY <2>6, <2>7
<1> QED
  BY <1>5, <1>6

\* osif_rq_receive: the count, then each word into the next place of the RAM.
LEMMA ReceivingEdge ==
  ASSUME Types, Message, Receiving, Clock, depth' = depth, tag' = tag
  PROVE  IInv'
<1>1. call \in Calls /\ call # NoCall /\ call.kind = "rq_receive" /\ ~writing /\ Answered /\ call.n \in 0 .. RamSize /\ call.n \in Nat
  BY CallTyped, CallFacts DEF Receiving
<1>2. data \in LinkWords /\ result \in LinkWords
  BY DEF Types
<1>3. \A k, off : Reply(call, s2h, out, k, off) => k \in 0 .. call.n /\ k \in 0 .. RamSize
  BY <1>1 DEF Reply
<1>4. CASE step \in 5 .. 9
  <2>1. ~reading
    BY <1>4 DEF Receiving
  <2>2. CASE step = 5
    <3>1. Moved(6, mem.addr, mem.addr) /\ result' = ReplyWord(call, 0, mem.addr) /\ Links /\ UNCHANGED swVars
      BY <1>1, <2>2, ReceiveTable, CountEdge
    <3>2. Reply(call, s2h, out, mem.addr, 1) /\ ~mem.we
      BY <2>2 DEF Receiving
    <3>3. ReplyWord(call, 0, mem.addr) \in LinkWords
      BY <1>1, <1>3, <3>2, AnswerType
    <3>4. Types' /\ Message'
      BY <1>1, <1>2, <3>1, <3>2, <3>3, TypesKept, MessageKept DEF Moved
    <3>5. Receiving'
      BY <1>1, <2>1, <3>1, <3>2 DEF Receiving, Moved, Links, swVars, Answered
    <3> QED
      BY <3>4, <3>5 DEF IInv
  <2>3. CASE step = 6
    <3>1. /\ Moved(IF mem.rem > 0 THEN 10 ELSE 11, IF mem.rem > 0 THEN 0 ELSE mem.addr, mem.rem)
          /\ result' = result /\ Links /\ UNCHANGED swVars
      BY <1>1, <2>3, ReceiveTable, FirstEdge
    <3>2. result = ReplyWord(call, 0, mem.rem) /\ Reply(call, s2h, out, mem.rem, 1) /\ ~mem.we /\ mem.rem \in 0 .. call.n
      BY <1>3, <2>3 DEF Receiving
    <3>3. Types' /\ Message'
      BY <1>1, <1>2, <3>1, <3>2, TypesKept, MessageKept DEF Moved
    <3>4. /\ Answered' /\ Reply(call, s2h', out', mem.rem, 1) /\ call' = call /\ ~reading' /\ ~writing' /\ ~mem'.we
          /\ mem'.rem = mem.rem /\ result' = ReplyWord(call, 0, mem.rem) /\ result'.val = mem.rem
      BY <1>1, <2>1, <3>1, <3>2 DEF Moved, Links, swVars, Answered, ReplyWord
    <3>5. CASE mem.rem > 0
      <4>1. step' = 10 /\ mem'.addr = 0
        BY <3>1, <3>5 DEF Moved
      <4>2. Stored(call', mem'.ram, mem'.addr)
        BY <4>1 DEF Stored
      <4>3. mem'.addr < result'.val /\ mem'.rem = result'.val - mem'.addr /\ mem'.addr + 1 = 1 /\ mem'.addr \in Nat
        BY <3>2, <3>4, <3>5, <4>1
      <4>4. Receiving'
        BY <1>1, <3>4, <4>1, <4>2, <4>3 DEF Receiving
      <4> QED
        BY <3>3, <4>4 DEF IInv
    <3>6. CASE mem.rem = 0
      <4>1. step' = 11
        BY <3>1, <3>6 DEF Moved
      <4>2. Empty'
        BY <1>1, <3>4, <3>6, ReplyOver, SMTT(30) DEF Answered, Empty
      <4>3. Stored(call', mem'.ram, result'.val)
        BY <3>4, <3>6 DEF Stored
      <4>4. Completed'
        BY <1>1, <3>4, <3>6, <4>1, <4>2, <4>3 DEF Completed, ReplyWord
      <4> QED
        BY <3>3, <4>4 DEF IInv
    <3> QED
      BY <3>2, <3>5, <3>6
  <2>4. CASE step = 7
    <3>1. Moved(8, mem.addr + 1, mem.rem) /\ result' = result /\ Links /\ UNCHANGED swVars
      BY <1>1, <2>4, ReceiveTable, NextEdge
    <3>2. /\ result = ReplyWord(call, 0, result.val) /\ mem.addr \in Nat /\ Stored(call, mem.ram, mem.addr) /\ mem.we
          /\ mem.wdata = ReplyWord(call, mem.addr + 1, 0) /\ mem.addr < result.val /\ mem.rem = result.val - mem.addr
          /\ Reply(call, s2h, out, result.val, mem.addr + 2)
      BY <2>4 DEF Receiving
    <3>3. result.val \in 0 .. RamSize /\ result.val \in Nat
      BY <1>3, <3>2
    <3>4. Types' /\ Message'
      BY <1>1, <1>2, <3>1, TypesKept, MessageKept DEF Moved
    <3>5. mem.addr \in 0 .. RamSize - 1
      BY <3>2, <3>3
    <3>6. mem'.ram = [mem.ram EXCEPT ![mem.addr] = ReplyWord(call, mem.addr + 1, 0)] /\ DOMAIN mem.ram = 0 .. RamSize - 1
      BY <3>1, <3>2, <3>5, ModFacts DEF Moved, Written, Types
    <3>7. Stored(call', mem'.ram, mem'.addr)
      <4>1. call' = call /\ mem'.addr = mem.addr + 1
        BY <3>1 DEF Moved
      <4>2. \A a \in 0 .. mem.addr - 1 : mem'.ram[a] = mem.ram[a] /\ mem.ram[a] = ReplyWord(call, a + 1, 0)
        BY <3>2, <3>5, <3>6 DEF Stored
      <4>3. mem'.ram[mem.addr] = ReplyWord(call, mem.addr + 1, 0)
        BY <3>5, <3>6
      <4> QED
        BY <3>2, <4>1, <4>2, <4>3 DEF Stored
    <3>8. Receiving'
      BY <1>1, <2>1, <3>1, <3>2, <3>3, <3>7 DEF Receiving, Moved, Links, swVars, Answered
    <3> QED
      BY <3>4, <3>8 DEF IInv
  <2>5. CASE step = 8
    <3>1. Moved(9, mem.addr, mem.rem - 1) /\ result' = result /\ Links /\ UNCHANGED swVars
      BY <1>1, <2>5, ReceiveTable, DownEdge
    <3>2. /\ result = ReplyWord(call, 0, result.val) /\ mem.addr \in Nat /\ Stored(call, mem.ram, mem.addr) /\ ~mem.we
          /\ mem.addr <= result.val /\ mem.rem = result.val - mem.addr + 1
          /\ Reply(call, s2h, out, result.val, mem.addr + 1)
      BY <2>5 DEF Receiving
    <3>3. Types' /\ Message'
      BY <1>1, <1>2, <3>1, TypesKept, MessageKept DEF Moved
    <3>4. Stored(call', mem'.ram, mem'.addr)
      BY <3>1, <3>2, WrittenFacts DEF Stored, Moved
    <3>5. mem'.rem = result'.val - mem'.addr + (IF step' = 8 THEN 1 ELSE 0) /\ mem'.addr = mem.addr /\ step' = 9
      <4>1. result.val \in Nat /\ mem.addr \in Nat
        BY <1>3, <3>2
      <4> QED
        BY <3>1, <3>2, <4>1 DEF Moved
    <3>6. /\ Answered' /\ Reply(call, s2h', out', result.val, mem.addr + 1) /\ call' = call /\ ~reading' /\ ~writing' /\ ~mem'.we
          /\ result' = result
      BY <1>1, <2>1, <3>1, <3>2 DEF Moved, Links, swVars, Answered
    <3>7. Receiving'
      BY <1>1, <3>2, <3>4, <3>5, <3>6 DEF Receiving
    <3> QED
      BY <3>3, <3>7 DEF IInv
  <2>6. CASE step = 9
    <3>1. /\ Moved(IF mem.rem > 0 THEN 10 ELSE 11, mem.addr, mem.rem)
          /\ result' = result /\ Links /\ UNCHANGED swVars
      BY <1>1, <2>6, ReceiveTable, MoreEdge
    <3>2. /\ result = ReplyWord(call, 0, result.val) /\ mem.addr \in Nat /\ Stored(call, mem.ram, mem.addr) /\ ~mem.we
          /\ mem.addr <= result.val /\ mem.rem = result.val - mem.addr
          /\ Reply(call, s2h, out, result.val, mem.addr + 1) /\ result.val \in 0 .. call.n
      BY <1>3, <2>6 DEF Receiving
    <3>3. Types' /\ Message'
      BY <1>1, <1>2, <3>1, TypesKept, MessageKept DEF Moved
    <3>4. Stored(call', mem'.ram, mem'.addr)
      BY <3>1, <3>2, WrittenFacts DEF Stored, Moved
    <3>5. /\ Answered' /\ Reply(call, s2h', out', result.val, mem.addr + 1) /\ call' = call /\ ~reading' /\ ~writing' /\ ~mem'.we
          /\ mem'.rem = mem.rem /\ mem'.addr = mem.addr /\ result' = result
      BY <1>1, <2>1, <3>1, <3>2 DEF Moved, Links, swVars, Answered
    <3>6. CASE mem.rem > 0
      <4>1. step' = 10 /\ mem.addr < result.val
        BY <3>1, <3>2, <3>6 DEF Moved
      <4>2. Receiving'
        BY <1>1, <3>2, <3>4, <3>5, <4>1 DEF Receiving
      <4> QED
        BY <3>3, <4>2 DEF IInv
    <3>7. CASE mem.rem = 0
      <4>1. step' = 11 /\ mem.addr = result.val /\ mem.addr + 1 = 1 + result.val
        BY <3>1, <3>2, <3>7 DEF Moved
      <4>2. Empty'
        BY <1>1, <3>5, <4>1, ReplyOver DEF Answered, Empty
      <4>3. Stored(call', mem'.ram, result'.val)
        BY <3>4, <3>5, <4>1 DEF Stored
      <4>4. result.of = [call EXCEPT !.kind = "r"] /\ result.pos = 0
        BY <3>2 DEF ReplyWord
      <4>5. Completed'
        BY <1>1, <3>2, <3>5, <4>1, <4>2, <4>3, <4>4 DEF Completed
      <4> QED
        BY <3>3, <4>5 DEF IInv
    <3> QED
      BY <3>2, <3>6, <3>7
  <2> QED
    BY <1>4, <2>2, <2>3, <2>4, <2>5, <2>6
<1>5. CASE step = 10
  <2>1. Op = Pull("data", 7)
    BY <1>1, <1>5, ReceiveTable
  <2>2. /\ result = ReplyWord(call, 0, result.val) /\ mem.addr \in Nat /\ Stored(call, mem.ram, mem.addr)
        /\ mem.addr < result.val /\ mem.rem = result.val - mem.addr
        /\ Reply(call, s2h, out, result.val, mem.addr + 1) /\ result.val \in 0 .. RamSize
    BY <1>3, <1>5 DEF Receiving
  <2>3. /\ h2s' = h2s /\ req' = req /\ out' = out /\ dpc' = dpc /\ call' = call /\ Links /\ data' = data /\ ~writing' /\ mem'.we
        /\ DOMAIN mem' = {"ram", "q", "addr", "rem", "we", "wdata"} /\ mem'.ram = Written /\ mem'.rem = mem.rem
        /\ (reading' <=> Exists /\ ~reading) /\ mem'.addr = mem.addr /\ result' = result
    BY <1>1, <2>1, PullEdge DEF Links, swVars
  <2>4. Types' /\ Message'
    BY <1>1, <1>2, <2>3, TypesKept, MessageKept
  <2>5. Stored(call', mem'.ram, mem'.addr)
    <3>1. mem.addr \in 0 .. RamSize - 1 /\ DOMAIN mem.ram = 0 .. RamSize - 1
      BY <2>2 DEF Types
    <3>2. \A a \in 0 .. mem.addr - 1 : Written[a] = mem.ram[a]
      BY <3>1, ModFacts DEF Written
    <3> QED
      BY <2>2, <2>3, <3>2 DEF Stored
  <2>6. Answered'
    BY <1>1, <2>3 DEF Answered
  <2>7. CASE ~(Exists /\ reading)
    <3>1. step' = 10 /\ s2h' = s2h
      BY <1>5, <2>1, <2>7, PullEdge DEF Links
    <3>2. Receiving'
      BY <1>1, <2>2, <2>3, <2>5, <2>6, <3>1 DEF Receiving
    <3> QED
      BY <2>4, <3>2 DEF IInv
  <2>8. CASE Exists /\ reading
    <3>1. step' = 7 /\ mem'.wdata = Head(s2h) /\ ~reading'
      BY <2>1, <2>3, <2>8, PullEdge
    <3>2. Head(s2h) = Answer(call, result.val, mem.addr + 1) /\ Reply(call, s2h', out', result.val, (mem.addr + 1) + 1)
      BY <2>2, <2>3, <2>8, TakeWord
    <3>3. mem'.wdata = ReplyWord(call, mem'.addr + 1, 0) /\ (mem.addr + 1) + 1 = mem'.addr + 2
      BY <2>2, <2>3, <3>1, <3>2 DEF Answer
    <3>4. Receiving'
      BY <1>1, <2>2, <2>3, <2>5, <2>6, <3>1, <3>2, <3>3 DEF Receiving
    <3> QED
      BY <2>4, <3>4 DEF IInv
  <2> QED
    BY <2>7, <2>8
<1> QED
  BY <1>4, <1>5 DEF Receiving

LEMMA ClockKeeps ==
  ASSUME Fits, IInv, Clock, depth' = depth, tag' = tag
  PROVE  IInv'
<1>1. Types /\ Message /\ call # NoCall
  BY IdleEdge DEF IInv
<1>2. CASE Halted
  <2>1. Op = [op |-> "halt"]
    BY <1>1, <1>2, ExitTable DEF Halted
  <2> QED
    BY <1>2, <2>1, HaltEdge DEF Halted
<1>3. CASE Completed
  <2>1. call \in Calls /\ call.kind # "thread_exit"
    BY <1>1, <1>3, CallTyped DEF Completed
  <2>2. Op = [op |-> "done"]
    BY <1>3, <2>1, PullTable DEF Completed
  <2>3. /\ step' = 0 /\ call' = NoCall /\ ~writing' /\ ~reading' /\ data' = data /\ result' = result
        /\ Held /\ Links /\ UNCHANGED swVars
    BY <2>2, DoneEdge
  <2>4. Types'
    BY <1>1, <2>3, TypesKept DEF Held, Types
  <2>5. Message'
    BY <2>3 DEF Message, NoCall
  <2>6. Empty'
    BY <1>3, <2>3 DEF Completed, Empty, Links, swVars
  <2>7. Resting'
    BY <2>3, <2>6 DEF Resting, Held
  <2> QED
    BY <2>4, <2>5, <2>7 DEF IInv
<1> QED
  BY <1>1, <1>2, <1>3, PushingEdge, SendingEdge, PullingEdge, ReceivingEdge DEF IInv, Resting

-----------------------------------------------------------------------------
(***************************************************************************)
(* The thread's calls, its restart, and the theorems.                      *)
(***************************************************************************)

LEMMA InitHolds ==
  ASSUME Init
  PROVE  IInv
<1>1. NoWord \in LinkWords
  BY DEF NoWord, NoCall, LinkWords
<1>2. Types
  BY <1>1 DEF Init, Types, ResetRam
<1>3. Resting /\ Message
  BY DEF Init, Resting, Empty, ResetRam, Message, NoCall
<1> QED
  BY <1>2, <1>3 DEF IInv

LEMMA IssueKeeps ==
  ASSUME Fits, IInv, NEW kind, NEW n, Issue(kind, n),
         \/ kind \in {"call_0", "call_1", "call_2", "thread_exit"} /\ n = 0
         \/ kind \in {"rq_receive", "rq_send"} /\ n \in Sizes
  PROVE  IInv'
<1>1. Resting /\ Types
  BY DEF IInv, Issue, Pushing, Sending, Pulling, Receiving, Halted, Completed
<1>2. /\ tag' \in 0 .. Tags - 1 /\ call' = [kind |-> kind, n |-> n, tag |-> tag']
      /\ h2s' = h2s /\ s2h' = s2h /\ step' = step /\ writing' = writing /\ reading' = reading /\ data' = data
      /\ result' = result /\ dpc' = dpc /\ req' = req /\ out' = out /\ depth' = depth
      /\ (kind = "rq_receive" => n < depth)
  BY <1>1 DEF Issue, swVars, Types
<1>3. call' \in Calls /\ kind \in Kinds /\ n \in Nat
  <2>1. kind \in Kinds /\ n \in Sizes \union {0}
    BY DEF Kinds
  <2>2. call' \in Calls
    BY <1>2, <2>1 DEF Calls
  <2>3. n = 0 \/ n \in 0 .. RamSize
    BY <2>1
  <2> QED
    BY <2>1, <2>2, <2>3
<1>4. call' # NoCall /\ call'.kind = kind /\ call'.n = n
  BY <1>2, <1>3 DEF NoCall, Kinds
<1>5. /\ DOMAIN mem' = {"ram", "q", "addr", "rem", "we", "wdata"} /\ DOMAIN mem'.ram = 0 .. RamSize - 1
      /\ mem'.we = mem.we
      /\ kind = "rq_send" => \A a \in 0 .. n - 1 : mem'.ram[a] = Word(call', 3 + a)
  <2>1. CASE kind # "rq_send"
    BY <1>1, <2>1 DEF Issue, Types
  <2>2. CASE kind = "rq_send"
    <3>1. mem' = [mem EXCEPT !.ram = [a \in DOMAIN @ |-> IF a < n THEN Word(call', 3 + a) ELSE @[a]]]
      BY <2>2 DEF Issue
    <3>2. /\ DOMAIN mem = {"ram", "q", "addr", "rem", "we", "wdata"} /\ DOMAIN mem.ram = 0 .. RamSize - 1
          /\ n \in 0 .. RamSize
      BY <1>1, <2>2 DEF Types
    <3>3. DOMAIN mem' = DOMAIN mem /\ mem'.we = mem.we
          /\ mem'.ram = [a \in 0 .. RamSize - 1 |-> IF a < n THEN Word(call', 3 + a) ELSE mem.ram[a]]
      BY <3>1, <3>2
    <3>4. \A a \in 0 .. n - 1 : a \in 0 .. RamSize - 1 /\ a < n
      BY <3>2
    <3> QED
      BY <3>2, <3>3, <3>4
  <2> QED
    BY <2>1, <2>2
<1>6. Types'
  BY <1>1, <1>2, <1>3, <1>4, <1>5 DEF Types, Fits
<1>7. Message'
  BY <1>4, <1>5 DEF Message
<1>8. Sent(call', h2s', req', 0)
  BY <1>1, <1>2 DEF Resting, Empty, Sent
<1>9. Unanswered'
  <2>1. Needs(call') # 0 /\ Pushes(call') \in 1 .. 3
    BY <1>3, NeedsFacts
  <2> QED
    BY <1>1, <1>2, <2>1 DEF Resting, Empty, Unanswered
<1>10. Pushing'
  <2>1. 0 \in 0 .. Pushes(call')
    BY <1>3, NeedsFacts
  <2> QED
    BY <1>1, <1>2, <1>4, <1>5, <1>8, <1>9, <2>1 DEF Resting, Pushing
<1> QED
  BY <1>6, <1>7, <1>10 DEF IInv

LEMMA RecreateKeeps ==
  ASSUME IInv, Recreate
  PROVE  IInv'
<1>1. Halted /\ Types /\ dpc = "gone"
  BY DEF IInv, Recreate, Resting, Pushing, Sending, Pulling, Receiving, Halted, Completed, Asked, Answered, Unanswered, Empty
<1>2. NoWord \in LinkWords
  BY DEF NoWord, NoCall, LinkWords
<1>3. Types'
  BY <1>1, <1>2, LinkTyped DEF Types, Recreate, Quiet
<1>4. out = << >> /\ ~mem.we
  BY <1>1 DEF Halted, Unanswered
<1>5. Resting' /\ Message'
  BY <1>4 DEF Recreate, Quiet, Resting, Empty, Message, NoCall
<1> QED
  BY <1>3, <1>5 DEF IInv

LEMMA StutterKeeps ==
  ASSUME IInv, UNCHANGED vars
  PROVE  IInv'
<1>1. /\ call' = call /\ step' = step /\ writing' = writing /\ reading' = reading /\ data' = data
      /\ result' = result /\ mem' = mem /\ depth' = depth /\ tag' = tag /\ h2s' = h2s /\ s2h' = s2h
      /\ dpc' = dpc /\ req' = req /\ out' = out
  BY DEF vars, hwVars, swVars
<1>2. Types' /\ Message'
  BY <1>1 DEF IInv, Types, Message
<1>3. Asked => Asked'
  BY <1>1 DEF Asked, Answered, Unanswered
<1>4. (Unanswered => Unanswered') /\ (Answered => Answered') /\ (Empty => Empty')
  BY <1>1 DEF Unanswered, Answered, Empty
<1>5. (Resting => Resting') /\ (Pushing => Pushing') /\ (Sending => Sending')
  BY <1>1, <1>3, <1>4 DEF Resting, Pushing, Sending
<1>6. (Pulling => Pulling') /\ (Receiving => Receiving') /\ (Halted => Halted') /\ (Completed => Completed')
  BY <1>1, <1>3, <1>4 DEF Pulling, Receiving, Halted, Completed
<1> QED
  BY <1>2, <1>5, <1>6 DEF IInv

LEMMA NextKeeps ==
  ASSUME Fits, IInv, [Next]_vars
  PROVE  IInv'
<1>1. CASE Clock /\ UNCHANGED <<depth, tag>>
  BY <1>1, ClockKeeps
<1>2. CASE Delegate /\ UNCHANGED <<depth, tag>>
  BY <1>2, DelegateKeeps
<1>3. CASE \E k \in {"call_0", "call_1", "call_2", "thread_exit"} : Issue(k, 0)
  BY <1>3, IssueKeeps
<1>4. CASE \E k \in {"rq_receive", "rq_send"}, n \in Sizes : Issue(k, n)
  BY <1>4, IssueKeeps
<1>5. CASE Recreate
  BY <1>5, RecreateKeeps
<1>6. CASE UNCHANGED vars
  BY <1>6, StutterKeeps
<1> QED
  BY <1>1, <1>2, <1>3, <1>4, <1>5, <1>6 DEF Next

\* The two ends of the links, in every phase of a call.
Synced ==
  /\ s2h \in Seq(LinkWords) /\ Len(s2h) <= depth /\ req \in Seq(LinkWords)
  /\ dpc \in {"cmd", "op", "reply", "gone"} /\ InSync /\ NoWordLost

LEMMA UnansweredSynced ==
  ASSUME Types, call \in Calls, NEW t, Sent(call, h2s, req, t), Unanswered
  PROVE  Synced
<1>1. depth \in Nat /\ s2h = << >>
  BY LinkTyped DEF Unanswered
<1> QED
  BY <1>1 DEF Sent, Unanswered, Synced, InSync, NoWordLost

LEMMA AnsweredSynced ==
  ASSUME Types, call \in Calls, Answered, NEW k, NEW off, Reply(call, s2h, out, k, off)
  PROVE  Synced
<1>1. /\ depth \in Nat \ {0} /\ call.n \in Nat /\ k \in Nat /\ off \in Nat /\ k <= call.n
      /\ s2h \in Seq(LinkWords) /\ out \in Seq(LinkWords) /\ off + Len(s2h) + Len(out) = 1 + k
      /\ (call.kind # "rq_receive" => k = 0) /\ (call.kind = "rq_receive" => call.n < depth)
  <2>1. call.n \in Nat /\ call # NoCall
    BY CallFacts, KindFacts
  <2>2. (call.kind = "rq_receive" => call.n < depth) /\ depth \in Nat \ {0}
    BY <2>1, CallTyped
  <2> QED
    BY <2>1, <2>2 DEF Reply
<1>2. Len(s2h) \in Nat /\ Len(out) \in Nat
  BY <1>1
<1>3. Len(s2h) <= 1 + k
  BY <1>1, <1>2
<1>4. k < depth
  BY <1>1
<1>5. Len(s2h) <= depth
  BY <1>1, <1>2, <1>3, <1>4
<1>6. NoWordLost
  BY RoomForReply DEF NoWordLost, Answered
<1>7. req \in Seq(LinkWords) /\ InSync
  <2>1. CASE req = << >>
    BY <2>1 DEF InSync
  <2>2. CASE req # << >>
    BY <2>2 DEF Answered, InSync
  <2> QED
    BY <2>1, <2>2
<1> QED
  BY <1>1, <1>5, <1>6, <1>7 DEF Answered, Synced

LEMMA AskedSynced ==
  ASSUME Types, call \in Calls, Asked
  PROVE  Synced
BY UnansweredSynced, AnsweredSynced DEF Asked

LEMMA EmptySynced ==
  ASSUME Types, Empty
  PROVE  Synced
BY LinkTyped DEF Empty, Synced, InSync, NoWordLost

LEMMA InvariantSynced ==
  ASSUME IInv
  PROVE  Synced /\ step \in 0 .. 15
<1>1. Types
  BY DEF IInv
<1>2. CASE Resting
  BY <1>1, <1>2, EmptySynced DEF Resting
<1>3. CASE Completed
  <2>1. PullStep(call) + 1 \in 0 .. 15
    BY <1>1, <1>3, CallTyped, NeedsFacts DEF Completed, PullStep
  <2> QED
    BY <1>1, <1>3, <2>1, EmptySynced DEF Completed
<1>4. CASE Pushing
  <2>1. call \in Calls /\ Pushes(call) \in 1 .. 3
    BY <1>1, <1>4, CallTyped, NeedsFacts DEF Pushing
  <2> QED
    BY <1>1, <1>4, <2>1, UnansweredSynced DEF Pushing
<1>5. CASE Sending
  <2>1. call \in Calls
    BY <1>1, <1>5, CallTyped DEF Sending
  <2> QED
    BY <1>1, <1>5, <2>1, UnansweredSynced, AskedSynced DEF Sending
<1>6. CASE Pulling
  <2>1. call \in Calls /\ Pushes(call) \in 1 .. 3
    BY <1>1, <1>6, CallTyped, NeedsFacts DEF Pulling
  <2>2. step \in 0 .. 15
    BY <1>6, <2>1 DEF Pulling, PullStep
  <2> QED
    BY <1>1, <1>6, <2>1, <2>2, AskedSynced DEF Pulling
<1>7. CASE Receiving
  <2>1. call \in Calls
    BY <1>1, <1>7, CallTyped DEF Receiving
  <2> QED
    BY <1>1, <1>7, <2>1, AnsweredSynced DEF Receiving
<1>8. CASE Halted
  <2>1. call \in Calls
    BY <1>1, <1>8, CallTyped DEF Halted
  <2>2. CASE Sent(call, h2s, req, 1) /\ Unanswered
    BY <1>1, <1>8, <2>1, <2>2, UnansweredSynced DEF Halted
  <2>3. CASE dpc = "gone" /\ s2h = << >> /\ Sent(call, h2s, req, 1)
    BY <1>1, <1>8, <2>3, LinkTyped DEF Halted, Synced, Sent, InSync, NoWordLost
  <2> QED
    BY <1>8, <2>2, <2>3 DEF Halted
<1> QED
  BY <1>2, <1>3, <1>4, <1>5, <1>6, <1>7, <1>8 DEF IInv

LEMMA InvariantInStep ==
  ASSUME IInv
  PROVE  LinksInStep
BY InvariantSynced DEF IInv, Types, Synced, LinksInStep, TypeOK

LEMMA InvariantMatched ==
  ASSUME IInv
  PROVE  ReplyMatched
<1> SUFFICES ASSUME Op.op = "done"
             PROVE  /\ result.of = [call EXCEPT !.kind = "r"] /\ result.pos = 0
                    /\ call.kind = "rq_receive" => \A a \in 0 .. result.val - 1 : mem.ram[a] = ReplyWord(call, a + 1, 0)
  BY DEF ReplyMatched
<1>1. Types /\ call # NoCall
  BY DEF IInv, Op
<1>2. call \in Calls /\ Pushes(call) \in 1 .. 3
  BY <1>1, CallTyped, NeedsFacts
<1>3. ~Pushing
  <2>1. CASE step \in 0 .. Pushes(call) - 1
    <3>1. \E prev \in 0 .. 1 : Op = Push(step, prev, step + 1)
      BY <1>2, <2>1, PushTable
    <3> QED
      BY <3>1 DEF Push
  <2>2. CASE step = Pushes(call)
    BY <1>2, <2>2, FinishTable DEF Finish
  <2> QED
    BY <1>2, <2>1, <2>2 DEF Pushing
<1>4. ~Sending
  BY <1>2, SendTable, KindFacts DEF Sending, Ram, Finish
<1>5. ~Pulling
  BY <1>2, PullTable DEF Pulling, Pull
<1>6. ~Receiving
  BY <1>2, ReceiveTable, KindFacts DEF Receiving, Ram, Pull
<1>7. ~Halted
  BY ExitTable DEF Halted
<1> QED
  BY <1>1, <1>3, <1>4, <1>5, <1>6, <1>7 DEF IInv, Resting, Completed, Stored

THEOREM InvariantHolds ==
  ASSUME Fits
  PROVE  Spec => []IInv
<1>1. IInv /\ [Next]_vars => IInv'
  BY NextKeeps
<1> QED
  BY <1>1, InitHolds, PTL DEF Spec

\* Whatever the depth of the links but one, and in whatever order clock and
\* delegate move: a full link in the middle of a call makes the procedure
\* repeat a step, and still the delegate reads the words of the call, each once
\* and in order, and its reply always has room.
THEOREM LinksStayInStep ==
  ASSUME Fits
  PROVE  Spec => []LinksInStep
BY InvariantHolds, InvariantInStep, PTL

\* A procedure that is done holds the answer to this very call, and
\* osif_rq_receive the whole message in its local RAM.
THEOREM RepliesMatch ==
  ASSUME Fits
  PROVE  Spec => []ReplyMatched
BY InvariantHolds, InvariantMatched, PTL
=============================================================================
