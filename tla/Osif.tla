-------------------------------- MODULE Osif --------------------------------
(***************************************************************************)
(* One hardware thread calling the operating system: the osif_* procedures *)
(* of reconos_pkg.vhd, the two FSL links of its slot, and its delegate     *)
(* thread (libreconos.c) as far as it reads requests and writes replies.   *)
(*                                                                         *)
(* The hardware is clocked: an action of the thread is one clock edge, on  *)
(* which the FSM moves, the link takes the word offered in the registers   *)
(* and the local RAM is accessed.  The software runs between any two       *)
(* edges.  A procedure is a table of steps, as its case statement is.      *)
(*                                                                         *)
(* A word is known by the call it belongs to and its place in the call.    *)
(***************************************************************************)
EXTENDS Naturals, Sequences

CONSTANTS
  Depths,     \* words an FSL link may hold (external, 16 in the designs)
  Sizes,      \* message sizes, in words, of the rq calls made
  RamSize,    \* words of local RAM
  RemMod,     \* 2^24: osif_rq_send counts with 24 bits
  Tags        \* bound: calls are told apart modulo Tags

ASSUME OsifAssumption ==
  /\ Depths \subseteq Nat \ {0}
  /\ RamSize \in Nat \ {0}
  /\ Sizes \subseteq 0 .. RamSize
  /\ RemMod \in Nat \ {0}
  /\ Tags \in Nat \ {0, 1}

VARIABLES
  depth,      \* the depth of the slot's links
  h2s,        \* link to the delegate
  s2h,        \* link to the hardware thread
  call,       \* the call the hardware is in
  step,       \* o_osif.step
  writing,    \* o_osif.hwt2fsl_writing
  reading,    \* o_osif.hwt2fsl_reading
  data,       \* o_osif.hwt2fsl_data
  result,     \* the result signal handed to the procedure
  mem,        \* the local RAM and its port registers
  dpc,        \* what the delegate is doing
  req,        \* words of the request it has read
  out,        \* words of the reply it still has to write
  tag         \* bound: the last call, modulo Tags

hwVars == <<call, step, writing, reading, data, result, mem>>
swVars == <<dpc, req, out>>
vars == <<depth, h2s, s2h, hwVars, swVars, tag>>

Kinds == {"call_0", "call_1", "call_2", "rq_receive", "rq_send", "thread_exit"}
NoCall == [kind |-> "none", n |-> 0, tag |-> 0]
NoWord == [of |-> NoCall, pos |-> 3, val |-> 0]

\* Word pos of call c; the reply's words come back as "r", its count in val.
Word(c, pos) == [of |-> c, pos |-> pos, val |-> 0]
ReplyWord(c, pos, v) == [of |-> [c EXCEPT !.kind = "r"], pos |-> pos, val |-> v]

-----------------------------------------------------------------------------
\* The case statements.  "push" offers word w, going back to prev when the
\* link is full; "finish" holds the last word until it is taken; "pull" waits
\* for a word.  Steps beyond the table are the "when others": done.
Push(w, prev, next) == [op |-> "push", word |-> w, prev |-> prev, next |-> next]
Finish(next) == [op |-> "finish", next |-> next]
Pull(to, next) == [op |-> "pull", to |-> to, next |-> next]
Ram(what) == [op |-> what]

osif_call_0 == <<Push(0, 0, 1), Finish(2), Pull("result", 3)>>
osif_call_1 == <<Push(0, 0, 1), Push(1, 0, 2), Finish(3), Pull("result", 4)>>
osif_call_2 == <<Push(0, 0, 1), Push(1, 0, 2), Push(2, 1, 3), Finish(4), Pull("result", 5)>>
osif_rq_receive ==
  <<Push(0, 0, 1), Push(1, 0, 2), Push(2, 1, 3), Finish(4), Pull("addr", 5),
    Ram("count"), Ram("first"), Ram("next"), Ram("down"), Ram("more"), Pull("data", 7)>>
osif_rq_send ==
  <<Push(0, 0, 1), Push(1, 0, 2), Push(2, 1, 3), Finish(4), Ram("load"),
    Ram("advance"), Ram("take"), [op |-> "pushRam", prev |-> 7, next |-> 8],
    Finish(5), Pull("result", 10)>>
osif_thread_exit == <<Push(0, 0, 1), Finish(2), [op |-> "halt"]>>

Procedure ==
  [call_0 |-> osif_call_0, call_1 |-> osif_call_1, call_2 |-> osif_call_2,
   rq_receive |-> osif_rq_receive, rq_send |-> osif_rq_send,
   thread_exit |-> osif_thread_exit]

Op == IF call = NoCall THEN [op |-> "idle"]
      ELSE LET p == Procedure[call.kind]
           IN  IF step < Len(p) THEN p[step + 1] ELSE [op |-> "done"]

Full == Len(h2s) = depth
Exists == s2h # << >>

\* What the links and the RAM do on every edge.  hwt2fsl_writing is gated with
\* "not full" outside of the registers.
Links ==
  /\ h2s' = IF writing /\ ~Full THEN Append(h2s, data) ELSE h2s
  /\ s2h' = IF reading /\ Exists THEN Tail(s2h) ELSE s2h

Written == IF mem.we THEN [mem.ram EXCEPT ![mem.addr % RamSize] = mem.wdata] ELSE mem.ram
RamEdge(addr, rem, we, wdata) ==
  mem' = [ram |-> Written, q |-> mem.ram[mem.addr % RamSize],
          addr |-> addr, rem |-> rem, we |-> we, wdata |-> wdata]
RamHold == RamEdge(mem.addr, mem.rem, FALSE, mem.wdata)

Goto(s) == step' = s /\ UNCHANGED call
Quiet == writing' = FALSE /\ reading' = FALSE

\* Mutant: the step is not repeated when the link is full.
fsl_pushOnce(word, op) ==
  /\ data' = word
  /\ writing' = ~Full
  /\ reading' = FALSE
  /\ Goto(op.next)
  /\ RamHold
  /\ UNCHANGED result

fsl_push(word, op) ==
  /\ data' = word
  /\ writing' = ~Full
  /\ reading' = FALSE
  /\ Goto(IF Full THEN op.prev ELSE op.next)
  /\ RamHold
  /\ UNCHANGED result

PushWord == Op.op = "push" /\ fsl_push(Word(call, Op.word), Op)
PushRam == Op.op = "pushRam" /\ fsl_push(mem.q, Op)

\* Mutant: the last word is not held while the link is full.
fsl_push_finishEarly ==
  /\ Op.op = "finish"
  /\ writing' = FALSE
  /\ reading' = FALSE
  /\ Goto(Op.next)
  /\ RamHold
  /\ UNCHANGED <<data, result>>

fsl_push_finish ==
  /\ Op.op = "finish"
  /\ writing' = Full
  /\ reading' = FALSE
  /\ Goto(IF Full THEN step ELSE Op.next)
  /\ RamHold
  /\ UNCHANGED <<data, result>>

\* Mutant: the word is taken where it is seen, and left in the link.
fsl_pullUnread ==
  /\ Op.op = "pull"
  /\ LET word == Head(s2h)
     IN  /\ Goto(IF Exists THEN Op.next ELSE step)
         /\ reading' = FALSE
         /\ result' = IF Exists /\ Op.to = "result" THEN word ELSE result
         /\ RamEdge(IF Exists /\ Op.to = "addr" THEN word.val ELSE mem.addr, mem.rem,
                    Op.to = "data",
                    IF Exists /\ Op.to = "data" THEN word ELSE mem.wdata)
  /\ writing' = FALSE
  /\ UNCHANGED data

\* Reading is raised on one edge and the word taken on the next.
fsl_pull ==
  /\ Op.op = "pull"
  /\ LET take == Exists /\ reading
         word == Head(s2h)
     IN  /\ Goto(IF take THEN Op.next ELSE step)
         /\ reading' = (Exists /\ ~reading)
         /\ result' = IF take /\ Op.to = "result" THEN word ELSE result
         /\ RamEdge(IF take /\ Op.to = "addr" THEN word.val ELSE mem.addr, mem.rem,
                    Op.to = "data",
                    IF take /\ Op.to = "data" THEN word ELSE mem.wdata)
  /\ writing' = FALSE
  /\ UNCHANGED data

\* The steps of osif_rq_receive and osif_rq_send that only move the RAM port.
RamStep(what, s, addr, rem) ==
  /\ Op.op = what
  /\ Goto(s)
  /\ Quiet
  /\ RamEdge(addr, rem, FALSE, mem.wdata)
  /\ UNCHANGED data

RqReceiveStep ==
  \/ RamStep("count", 6, mem.addr, mem.addr) /\ result' = ReplyWord(call, 0, mem.addr)
  \/ /\ RamStep("first", IF mem.rem > 0 THEN 10 ELSE 11,
                IF mem.rem > 0 THEN 0 ELSE mem.addr, mem.rem)
     /\ UNCHANGED result
  \/ RamStep("next", 8, mem.addr + 1, mem.rem) /\ UNCHANGED result
  \/ RamStep("down", 9, mem.addr, mem.rem - 1) /\ UNCHANGED result
  \/ RamStep("more", IF mem.rem > 0 THEN 10 ELSE 11, mem.addr, mem.rem) /\ UNCHANGED result

RqSendStep ==
  /\ \/ RamStep("load", 6, 0, call.n)
     \/ RamStep("advance", IF mem.rem > 0 THEN 6 ELSE 9,
                IF mem.rem > 0 THEN (mem.addr + 1) % RamSize ELSE mem.addr, mem.rem)
     \/ RamStep("take", 7, mem.addr, (mem.rem + RemMod - 1) % RemMod)
  /\ UNCHANGED result

\* osif_thread_exit stays in its last step.
Halt ==
  /\ Op.op = "halt"
  /\ writing \/ reading
  /\ Quiet /\ Goto(step) /\ RamHold
  /\ UNCHANGED <<data, result>>

Done ==
  /\ Op.op = "done"
  /\ step' = 0
  /\ call' = NoCall
  /\ Quiet /\ RamHold
  /\ UNCHANGED <<data, result>>

Clock ==
  /\ PushWord \/ PushRam \/ fsl_push_finish \/ fsl_pull \/ RqReceiveStep
     \/ RqSendStep \/ Halt \/ Done
  /\ Links
  /\ UNCHANGED swVars

-----------------------------------------------------------------------------
\* The delegate: a command word, then as many words as the command has, the
\* operation, then the reply.  fsl_read blocks; fsl_write never does, and a
\* word that finds the link full is lost.
Needed(cmd) ==
  IF cmd.of.kind \in {"call_0", "thread_exit"} THEN 1
  ELSE IF cmd.of.kind = "call_1" THEN 2
  ELSE IF cmd.of.kind \in {"call_2", "rq_receive"} THEN 3
  ELSE 3 + cmd.of.n

ReadWord ==
  /\ dpc = "cmd"
  /\ h2s # << >>
  /\ h2s' = Tail(h2s)
  /\ req' = Append(req, Head(h2s))
  /\ dpc' = IF req'[1].pos # 0 THEN "exit(1)"
            ELSE IF Len(req') = Needed(req'[1]) THEN "op" ELSE "cmd"
  /\ UNCHANGED <<s2h, hwVars, out>>

\* RECONOS_CMD_THREAD_EXIT ends the thread; any other call is answered, with
\* one word or, by rq_receive, with a count and that many words: what fits the
\* caller's buffer, or a count of 0 alone.
Operate ==
  /\ dpc = "op"
  /\ LET c == req[1].of
     IN  \/ /\ c.kind = "thread_exit"
            /\ dpc' = "gone" /\ out' = << >>
         \/ /\ c.kind \in {"call_0", "call_1", "call_2", "rq_send"}
            /\ dpc' = "reply" /\ out' = <<ReplyWord(c, 0, 0)>>
         \/ /\ c.kind = "rq_receive"
            /\ \E m \in 0 .. c.n :
                 out' = <<ReplyWord(c, 0, m)>> \o [k \in 1 .. m |-> ReplyWord(c, k, 0)]
            /\ dpc' = "reply"
  /\ UNCHANGED <<h2s, s2h, hwVars, req>>

\* nput on the link: without room the word is lost.
nputfsl(w) == s2h' = IF Len(s2h) < depth THEN Append(s2h, w) ELSE s2h

WriteWord ==
  /\ dpc = "reply"
  /\ nputfsl(Head(out))
  /\ out' = Tail(out)
  /\ dpc' = IF Len(out) = 1 THEN "cmd" ELSE "reply"
  /\ req' = IF Len(out) = 1 THEN << >> ELSE req
  /\ UNCHANGED <<h2s, hwVars>>

Delegate == ReadWord \/ Operate \/ WriteWord

-----------------------------------------------------------------------------
ResetRam == [ram |-> [a \in 0 .. RamSize - 1 |-> NoWord], q |-> NoWord, addr |-> 0,
             rem |-> 0, we |-> FALSE, wdata |-> NoWord]

Init ==
  /\ depth \in Depths
  /\ h2s = << >> /\ s2h = << >>
  /\ call = NoCall
  /\ step = 0
  /\ writing = FALSE /\ reading = FALSE
  /\ data = NoWord
  /\ result = NoWord
  /\ mem = ResetRam
  /\ dpc = "cmd"
  /\ req = << >>
  /\ out = << >>
  /\ tag = 0

\* The thread's own FSM enters a state that calls an osif procedure; a message
\* to send is in the local RAM by then.  A message to receive fits the link
\* together with its count: fsl_write does not wait for room.
Issue(kind, n) ==
  /\ call = NoCall
  /\ kind = "rq_receive" => n < depth
  /\ tag' = (tag + 1) % Tags
  /\ call' = [kind |-> kind, n |-> n, tag |-> tag']
  /\ mem' = IF kind # "rq_send" THEN mem
            ELSE [mem EXCEPT !.ram = [a \in DOMAIN @ |-> IF a < n THEN Word(call', 3 + a) ELSE @[a]]]
  /\ UNCHANGED <<depth, h2s, s2h, step, writing, reading, data, result, swVars>>

\* reconos_hwt_create on the slot of a finished thread: the new delegate puts
\* the slot and its links into reset and releases them.
Recreate ==
  /\ dpc = "gone"
  /\ dpc' = "cmd"
  /\ req' = << >>
  /\ call' = NoCall
  /\ step' = 0
  /\ Quiet
  /\ data' = NoWord
  /\ h2s' = << >> /\ s2h' = << >>
  /\ UNCHANGED <<depth, result, mem, out, tag>>

Next ==
  \/ Clock /\ UNCHANGED <<depth, tag>>
  \/ Delegate /\ UNCHANGED <<depth, tag>>
  \/ \E k \in {"call_0", "call_1", "call_2", "thread_exit"} : Issue(k, 0)
  \/ \E k \in {"rq_receive", "rq_send"}, n \in Sizes : Issue(k, n)
  \/ Recreate

Spec == Init /\ [][Next]_vars

\* The clock ticks and the delegate is scheduled.
FairSpec == Spec /\ WF_vars(Clock /\ UNCHANGED <<depth, tag>>) /\ WF_vars(Delegate /\ UNCHANGED <<depth, tag>>)

-----------------------------------------------------------------------------
LinkWords == [of : [kind : Kinds \union {"none", "r"}, n : Sizes \union {0}, tag : 0 .. Tags - 1],
              pos : 0 .. 3 + RamSize, val : 0 .. RamSize]

\* The types of the state; no link ever holds more words than it has room for.
TypeOK ==
  /\ h2s \in Seq(LinkWords) /\ Len(h2s) <= depth
  /\ s2h \in Seq(LinkWords) /\ Len(s2h) <= depth
  /\ step \in 0 .. 15
  /\ dpc \in {"cmd", "op", "reply", "gone", "exit(1)"}
  /\ req \in Seq(LinkWords)
  /\ data \in LinkWords /\ result \in LinkWords

\* The words the delegate has read are the words of the call the hardware is
\* in, each once and in order: back-pressure in the middle of a call neither
\* drops, repeats nor swaps a word, and no word of an earlier call is left.
InSync == \A i \in 1 .. Len(req) : req[i] = Word(call, i - 1)

\* A procedure is done with the answer to this very call in its result, and
\* osif_rq_receive with the message in the local RAM.
ReplyMatched ==
  Op.op = "done" =>
    /\ result.of = [call EXCEPT !.kind = "r"] /\ result.pos = 0
    /\ call.kind = "rq_receive" =>
         \A a \in 0 .. result.val - 1 : mem.ram[a] = ReplyWord(call, a + 1, 0)

\* No word of a reply is lost in a full link, as long as the reply fits one.
NoWordLost == dpc = "reply" => Len(s2h) < depth

\* The two ends of the links are in step, in both directions.
LinksInStep == TypeOK /\ InSync /\ NoWordLost

\* Every call but the exit returns.
CallReturns == (call # NoCall /\ call.kind # "thread_exit") ~> call = NoCall
=============================================================================
