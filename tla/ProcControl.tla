---------------------------- MODULE ProcControl ----------------------------
(***************************************************************************)
(* Control of the hardware by the process: the core proc_control.vhd with  *)
(* its two FSL links, and the parts of libreconos.c that talk to it --     *)
(* reconos_init, the slot_reset calls of the delegates, the control thread *)
(* that serves page faults, and the callers of reconos_mmu_stats and       *)
(* proc_control_selftest.                                                  *)
(*                                                                         *)
(* Link B carries commands of the software and their replies, link A the   *)
(* requests of the hardware (page faults) and their replies.  FSLA_PROC,   *)
(* FSLB_PROC and the fault side of the MMU move together, on the clock; a  *)
(* word is read or written in one tick (Osif has the handshake).  Every    *)
(* access of the software to shared data or to a link is a step.  The      *)
(* ReconOS reset clears the core's links, too (tools/mhsaddhwts.py).       *)
(*                                                                         *)
(* The process can be killed between any two steps and started again: the  *)
(* hardware and the words in the links stay as they are.  Linux' page      *)
(* table is external: the first access maps a page, and its entry reaches  *)
(* the memory, where the MMU reads it, when the cache is flushed or evicts *)
(* it.                                                                     *)
(***************************************************************************)
EXTENDS Naturals, Sequences

CONSTANTS
  NumSlots,   \* slots, numbered from 0
  Pages,      \* pages the hardware threads use
  NoPage,     \* a word that is no address of one
  Clients,    \* threads that ask for statistics or the self test
  Depth,      \* words a link holds (external, 16 in the designs)
  ResetTicks, \* ticks of a ReconOS reset, x"FFF" in the core
  MaxProcs,   \* bound: processes started one after the other
  InitLate,   \* whether getpgd, three system calls, outlasts a ReconOS reset
  Setups      \* what may happen in a behaviour, see uses

ASSUME ProcControlAssumption ==
  /\ NumSlots \in Nat \ {0}
  /\ NoPage \notin Pages
  /\ Depth \in Nat \ {0}
  /\ ResetTicks \in Nat
  /\ MaxProcs \in Nat \ {0}
  /\ InitLate \in BOOLEAN
  /\ Setups \subseteq SUBSET {"kills", "selftest", "swWrites"}

VARIABLES
  uses,       \* whether processes are killed, self tests asked for, and pages
              \* written by other threads of the process
  proc,       \* number of the process; it has its own page tables
  main,       \* how far reconos_init is
  flags,      \* slots with SLOT_FLAG_RESET
  dl,         \* each delegate in slot_reset
  at, mask,   \* its loop over the slots
  ctl, addr,  \* the control thread and its local
  fd,         \* whether fd_cache is open
  cl,         \* the reply each client waits for
  bq, br,     \* link B: to the core, to the software
  aq, ar,     \* link A: to the software, to the core
  astate, retry, initiated,                        \* FSLA_PROC
  bstate, data, hwt_reset, pgd, reset_dup, reset_counter, initiate, \* FSLB_PROC
  running,    \* hardware threads that have left reset and not exited
  mmu, vaddr, page_fault,                          \* the MMU
  pte,        \* where each page's entry is: nowhere, in the cache, in memory
  mem         \* who has written to the page

swVars == <<uses, proc, main, flags, dl, at, mask, ctl, addr, fd, cl>>
aVars == <<astate, retry, initiated>>
bVars == <<bstate, data, hwt_reset, pgd, reset_dup, reset_counter, initiate>>
mmuVars == <<mmu, vaddr, page_fault>>
hwVars == <<aVars, bVars, mmuVars, running>>
links == <<bq, br, aq, ar>>
vars == <<swVars, hwVars, links, pte, mem>>

Slots == 0 .. NumSlots - 1
Word(c, x) == [cmd |-> c, arg |-> x]
Garbage == MaxProcs + 1       \* a word that is no page directory

\* write() on a link's device: a word that finds the link full is lost, and so
\* is one that finds it in reset.
Put(q, w) == IF Len(q) < Depth /\ ~reset_dup THEN Append(q, w) ELSE q

-----------------------------------------------------------------------------
\* FSLB_PROC.
BTake(next) ==
  IF bq = << >> THEN UNCHANGED <<bq, data, bstate>>
  ELSE bq' = Tail(bq) /\ data' = Head(bq) /\ bstate' = next

BReply(w, next) ==
  /\ IF Len(br) = Depth THEN UNCHANGED <<br, bstate>>
     ELSE br' = Append(br, w) /\ bstate' = next
  /\ UNCHANGED <<bq, data>>

BMove(next) == bstate' = next /\ UNCHANGED <<bq, br, data>>

BRest == UNCHANGED <<hwt_reset, running, pgd, reset_counter, initiate>> /\ reset_dup' = FALSE

\* The state that carries out each command.
Starts == [reset |-> "B_RESET", pgd |-> "B_PGD", reconos_reset |-> "B_RECONOS_RESET",
           stats |-> "B_TLB_HITS", selftest |-> "B_SELFTEST"]

\* Mutant: the statistics are one word.
BranchShort(cmd) ==
  IF cmd = "stats" THEN "B_TLB_MISSES" ELSE IF cmd \in DOMAIN Starts THEN Starts[cmd] ELSE "B_WAIT"

Branch(cmd) == IF cmd \in DOMAIN Starts THEN Starts[cmd] ELSE "B_WAIT"

FSLB_PROC ==
  \/ bstate = "B_WAIT" /\ BTake("B_BRANCH") /\ UNCHANGED br /\ BRest
  \/ bstate = "B_BRANCH" /\ BMove(Branch(data.cmd)) /\ BRest
  \/ bstate = "B_TLB_HITS" /\ BReply("hits", "B_TLB_MISSES") /\ BRest
  \/ bstate = "B_TLB_MISSES" /\ BReply("misses", "B_WAIT") /\ BRest
  \/ bstate = "B_SELFTEST" /\ BReply("selftest", "B_SELFTEST_REQ") /\ BRest
  \/ /\ bstate = "B_SELFTEST_REQ"
     /\ BMove(IF initiated THEN "B_WAIT" ELSE bstate)
     /\ initiate' = ~initiated
     /\ reset_dup' = FALSE
     /\ UNCHANGED <<hwt_reset, running, pgd, reset_counter>>
  \/ /\ bstate = "B_RESET"
     /\ BMove("B_WAIT")
     /\ hwt_reset' = data.arg
     /\ running' = (running \union hwt_reset) \ data.arg
     /\ reset_dup' = FALSE
     /\ UNCHANGED <<pgd, reset_counter, initiate>>
  \/ /\ bstate = "B_PGD"
     /\ IF bq = << >> THEN UNCHANGED <<bq, bstate, pgd>>
        ELSE /\ bq' = Tail(bq)
             /\ bstate' = "B_WAIT"
             /\ pgd' = IF Head(bq).cmd = "word" THEN Head(bq).arg ELSE Garbage
     /\ reset_dup' = FALSE
     /\ UNCHANGED <<br, data, hwt_reset, running, reset_counter, initiate>>
  \/ /\ bstate = "B_RECONOS_RESET"
     /\ LET last == reset_counter = ResetTicks
        IN  /\ bstate' = IF last THEN "B_WAIT" ELSE bstate
            /\ reset_counter' = IF last THEN 0 ELSE reset_counter + 1
            /\ reset_dup' = ~last
     /\ hwt_reset' = Slots
     /\ running' = {}
     /\ data' = Word("none", 0)
     /\ pgd' = 0
     /\ bq' = IF reset_dup THEN << >> ELSE bq
     /\ br' = IF reset_dup THEN << >> ELSE br
     /\ UNCHANGED initiate

\* Mutant: a word is offered for one cycle only and lost.
AWriteLost(w, next) ==
  /\ astate' = next
  /\ UNCHANGED <<aq, ar, retry>>

\* FSLA_PROC; reconos_reset_dup resets it and the links.
AWrite(w, next) ==
  /\ IF Len(aq) = Depth THEN UNCHANGED <<aq, astate>>
     ELSE aq' = Append(aq, w) /\ astate' = next
  /\ UNCHANGED <<ar, retry>>

FSLA_PROC ==
  IF reset_dup
  THEN /\ astate' = "A_WAIT"
       /\ retry' = FALSE
       /\ initiated' = FALSE
       /\ aq' = << >> /\ ar' = << >>
  ELSE
    \/ /\ astate = "A_WAIT"
       /\ astate' = IF page_fault THEN "A_PAGE_FAULT_0" ELSE IF initiate THEN "A_SELFTEST" ELSE "A_WAIT"
       /\ initiated' = (initiated \/ (~page_fault /\ initiate))
       /\ UNCHANGED <<aq, ar, retry>>
    \/ astate = "A_SELFTEST" /\ AWrite(Word("selftest", NoPage), "A_WAIT") /\ initiated' = FALSE
    \/ astate = "A_PAGE_FAULT_0" /\ AWrite(Word("fault", NoPage), "A_PAGE_FAULT_1") /\ UNCHANGED initiated
    \/ astate = "A_PAGE_FAULT_1" /\ AWrite(Word("word", vaddr), "A_WAIT_PAGE_READY_0") /\ UNCHANGED initiated
    \/ /\ astate = "A_WAIT_PAGE_READY_0"
       /\ IF ar = << >> THEN UNCHANGED <<ar, astate, retry>>
          ELSE ar' = Tail(ar) /\ retry' = TRUE /\ astate' = "A_WAIT_PAGE_READY_1"
       /\ UNCHANGED <<aq, initiated>>
    \/ /\ astate = "A_WAIT_PAGE_READY_1"
       /\ IF page_fault THEN UNCHANGED <<astate, retry>>
          ELSE retry' = FALSE /\ astate' = "A_WAIT"
       /\ UNCHANGED <<aq, ar, initiated>>

\* The MMU's walk is one tick here (Mmu has its steps).  Under the directory
\* of a process that is gone its outcome is unknown.
Alive == main # "down"
Walk ==
  \/ /\ pgd # proc \/ ~Alive \/ pte[vaddr] = "memory"
     /\ mmu' = "idle"
     /\ mem' = IF pgd = proc /\ Alive THEN [mem EXCEPT ![vaddr] = "hw"] ELSE mem
  \/ /\ pgd # proc \/ ~Alive \/ pte[vaddr] # "memory"
     /\ mmu' = "fault"
     /\ UNCHANGED mem

MmuTick ==
  IF reset_dup THEN mmu' = "idle" /\ page_fault' = FALSE /\ UNCHANGED mem
  ELSE
    \/ mmu = "idle" /\ UNCHANGED <<mmu, page_fault, mem>>
    \/ mmu = "walk" /\ Walk /\ UNCHANGED page_fault
    \/ /\ mmu = "fault"
       /\ page_fault' = ~retry
       /\ mmu' = IF retry THEN "walk" ELSE "fault"
       /\ UNCHANGED mem

Clock ==
  /\ FSLA_PROC /\ FSLB_PROC /\ MmuTick
  /\ UNCHANGED <<swVars, vaddr, pte>>

\* A running hardware thread accesses a page.
Access(p) ==
  /\ running # {}
  /\ mmu = "idle"
  /\ mmu' = "walk"
  /\ vaddr' = p
  /\ UNCHANGED <<swVars, aVars, bVars, running, links, page_fault, pte, mem>>

-----------------------------------------------------------------------------
\* The process.  exec gives it an address space of untouched pages.
Start ==
  /\ main = "down"
  /\ proc < MaxProcs
  /\ proc' = proc + 1
  /\ main' = "reset"
  /\ flags' = Slots
  /\ pte' = [p \in Pages |-> "none"]
  /\ mem' = [p \in Pages |-> "fresh"]
  /\ UNCHANGED <<uses, dl, at, mask, ctl, addr, fd, cl, hwVars, links>>

\* reconos_init, after its loop over the flags.
ResetPending ==
  \/ reset_dup \/ bstate = "B_RECONOS_RESET"
  \/ bstate = "B_BRANCH" /\ data.cmd = "reconos_reset"
  \/ \E i \in 1 .. Len(bq) : bq[i].cmd = "reconos_reset"

InitPut(from, w, to) ==
  /\ main = from
  /\ main' = to
  /\ bq' = Put(bq, w)
  /\ UNCHANGED <<uses, proc, flags, dl, at, mask, ctl, addr, fd, cl, hwVars, br, aq, ar, pte, mem>>

\* FSLB_PROC waits for FSLA_PROC, and that for a page nobody makes ready.
Stuck == bstate = "B_SELFTEST_REQ" /\ astate = "A_WAIT_PAGE_READY_0" /\ ar = << >>

\* Mutant: no page directory is sent.
reconos_initNoPgd ==
  \/ InitPut("reset", Word("reconos_reset", 0), "thread")
  \/ /\ main = "thread"
     /\ main' = "run" /\ ctl' = "cmd" /\ fd' = TRUE
     /\ UNCHANGED <<uses, proc, flags, dl, at, mask, addr, cl, hwVars, links, pte, mem>>

\* Mutant: no reset is sent.
reconos_initNoReset ==
  \/ InitPut("reset", Word("pgd", 0), "pgd")
  \/ InitPut("pgd", Word("word", proc), "thread")
  \/ /\ main = "thread"
     /\ main' = "run" /\ ctl' = "cmd" /\ fd' = TRUE
     /\ UNCHANGED <<uses, proc, flags, dl, at, mask, addr, cl, hwVars, links, pte, mem>>

reconos_init ==
  \/ InitPut("reset", Word("reconos_reset", 0), "pgd")
  \/ (InitLate => ~ResetPending \/ Stuck) /\ InitPut("pgd", Word("pgd", 0), "pgdWord")
  \/ InitPut("pgdWord", Word("word", proc), "thread")
  \/ /\ main = "thread"
     /\ main' = "open"
     /\ ctl' = "cmd"
     /\ UNCHANGED <<uses, proc, flags, dl, at, mask, addr, fd, cl, hwVars, links, pte, mem>>
  \/ /\ main = "open"
     /\ main' = "run"
     /\ fd' = TRUE
     /\ UNCHANGED <<uses, proc, flags, dl, at, mask, ctl, addr, cl, hwVars, links, pte, mem>>

\* reconos_hwt_create, and the call with which a thread ends its delegate.
DelegateStep(s, from, to) ==
  /\ dl[s] = from
  /\ dl' = [dl EXCEPT ![s] = to]
  /\ UNCHANGED <<uses, proc, main, ctl, addr, fd, cl, aVars, bVars, mmuVars, br, aq, ar, pte, mem>>

reconos_hwt_create(s) ==
  /\ main = "run"
  /\ DelegateStep(s, "none", "flag1")
  /\ UNCHANGED <<bq, flags, at, mask, running>>

Exit(s) ==
  /\ s \in running
  /\ running' = running \ {s}
  /\ DelegateStep(s, "run", "none")
  /\ UNCHANGED <<bq, flags, at, mask>>

\* slot_reset(s, 1), then slot_reset(s, 0): set or clear the slot's own flag,
SetFlag(s) ==
  /\ \/ DelegateStep(s, "flag1", "mask1") /\ flags' = flags \union {s}
     \/ DelegateStep(s, "flag0", "mask0") /\ flags' = flags \ {s}
  /\ at' = [at EXCEPT ![s] = NumSlots]
  /\ mask' = [mask EXCEPT ![s] = {}]
  /\ UNCHANGED bq

\* read those of all slots, the last first,
ReadFlag(s) ==
  /\ at[s] > 0
  /\ \/ DelegateStep(s, "mask1", IF at[s] = 1 THEN "send1" ELSE "mask1")
     \/ DelegateStep(s, "mask0", IF at[s] = 1 THEN "send0" ELSE "mask0")
  /\ at' = [at EXCEPT ![s] = @ - 1]
  /\ mask' = [mask EXCEPT ![s] = @ \union ({at[s] - 1} \intersect flags)]
  /\ UNCHANGED <<bq, flags>>

\* and send the mask.
SendMask(s) ==
  /\ \/ DelegateStep(s, "send1", "flag0")
     \/ DelegateStep(s, "send0", "run")
  /\ bq' = Put(bq, Word("reset", mask[s]))
  /\ mask' = [mask EXCEPT ![s] = {}]
  /\ UNCHANGED <<flags, at>>

slot_reset(s) == (SetFlag(s) \/ ReadFlag(s) \/ SendMask(s)) /\ UNCHANGED running

\* control_thread_entry.
ControlStep(from, to) ==
  /\ ctl = from
  /\ ctl' = to
  /\ UNCHANGED <<uses, proc, main, flags, dl, at, mask, fd, cl, hwVars, bq, br>>

ControlReads(from, to) ==
  /\ aq # << >>
  /\ aq' = Tail(aq)
  /\ ControlStep(from, to)
  /\ UNCHANGED <<ar, pte, mem>>

Mapped(p) == IF pte[p] = "none" THEN [pte EXCEPT ![p] = "cached"] ELSE pte

\* Mutant: the cache is not flushed.
ControlFlushSkipped ==
  /\ ControlStep("flush", "reply")
  /\ UNCHANGED <<addr, aq, ar, pte, mem>>

\* reconos_cache_flush writes the page's entry back, once fd_cache is open.
ControlFlush ==
  /\ ControlStep("flush", "reply")
  /\ pte' = [p \in Pages |-> IF fd /\ pte[p] = "cached" THEN "memory" ELSE pte[p]]
  /\ UNCHANGED <<addr, aq, ar, mem>>

control_thread_entry ==
  \/ ControlReads("cmd", IF Head(aq).cmd = "fault" THEN "addr" ELSE "cmd") /\ UNCHANGED addr
  \/ ControlReads("addr", "zero") /\ addr' = Head(aq).arg
  \/ /\ addr \in Pages
     /\ ControlStep("zero", "flush")
     /\ mem' = [mem EXCEPT ![addr] = "zero"]
     /\ pte' = Mapped(addr)
     /\ UNCHANGED <<addr, aq, ar>>
  \/ ControlFlush
  \/ /\ ControlStep("reply", "cmd")
     /\ ar' = Put(ar, "ready")
     /\ addr' = NoPage
     /\ UNCHANGED <<aq, pte, mem>>

\* reconos_mmu_stats and proc_control_selftest.
ClientStep(c, from, to) ==
  /\ cl[c] = from
  /\ cl' = [cl EXCEPT ![c] = to]
  /\ UNCHANGED <<uses, proc, main, flags, dl, at, mask, ctl, addr, fd, hwVars, aq, ar, pte, mem>>

Ask(c, cmd, reply) ==
  /\ main = "run"
  /\ ClientStep(c, "none", reply)
  /\ bq' = Put(bq, Word(cmd, 0))
  /\ UNCHANGED br

ReadReply(c) ==
  /\ br # << >>
  /\ \/ ClientStep(c, "hits", "misses") \/ ClientStep(c, "misses", "none")
     \/ ClientStep(c, "selftest", "none")
  /\ br' = Tail(br)
  /\ UNCHANGED bq

\* Any other thread writes to a page; the cache evicts an entry.
SwWrite(p) ==
  /\ "swWrites" \in uses
  /\ main = "run"
  /\ mem' = [mem EXCEPT ![p] = "sw"]
  /\ pte' = Mapped(p)
  /\ UNCHANGED <<swVars, hwVars, links>>

Evict(p) ==
  /\ pte[p] = "cached"
  /\ pte' = [pte EXCEPT ![p] = "memory"]
  /\ UNCHANGED <<swVars, hwVars, links, mem>>

\* A signal, or the control thread's store to a word that is no address.
Killed ==
  /\ Alive
  /\ "kills" \in uses \/ (ctl = "zero" /\ addr \notin Pages)
  /\ main' = "down"
  /\ flags' = {}
  /\ dl' = [s \in Slots |-> "none"]
  /\ at' = [s \in Slots |-> 0]
  /\ mask' = [s \in Slots |-> {}]
  /\ ctl' = "none"
  /\ addr' = NoPage
  /\ fd' = FALSE
  /\ cl' = [c \in Clients |-> "none"]
  /\ UNCHANGED <<uses, proc, hwVars, links, pte, mem>>

-----------------------------------------------------------------------------
Init ==
  /\ uses \in Setups
  /\ proc = 0 /\ main = "down" /\ flags = {}
  /\ dl = [s \in Slots |-> "none"]
  /\ at = [s \in Slots |-> 0] /\ mask = [s \in Slots |-> {}]
  /\ ctl = "none" /\ addr = NoPage /\ fd = FALSE
  /\ cl = [c \in Clients |-> "none"]
  /\ bq = << >> /\ br = << >> /\ aq = << >> /\ ar = << >>
  /\ astate = "A_WAIT" /\ retry = FALSE /\ initiated = FALSE
  /\ bstate = "B_WAIT" /\ data = Word("none", 0) /\ hwt_reset = Slots /\ running = {}
  /\ pgd = 0 /\ reset_dup = FALSE /\ reset_counter = 0 /\ initiate = FALSE
  /\ mmu = "idle" /\ vaddr = NoPage /\ page_fault = FALSE
  /\ pte = [p \in Pages |-> "none"] /\ mem = [p \in Pages |-> "fresh"]

Next ==
  \/ Clock
  \/ Start \/ reconos_init \/ control_thread_entry \/ Killed
  \/ \E s \in Slots : reconos_hwt_create(s) \/ slot_reset(s) \/ Exit(s)
  \/ \E c \in Clients :
       Ask(c, "stats", "hits") \/ ("selftest" \in uses /\ Ask(c, "selftest", "selftest")) \/ ReadReply(c)
  \/ \E p \in Pages : Access(p) \/ SwWrite(p) \/ Evict(p)

Spec == Init /\ [][Next]_vars

\* The clock ticks and the threads of libreconos are scheduled.
FairSpec ==
  /\ Spec
  /\ WF_vars(Clock)
  /\ WF_vars(reconos_init)
  /\ WF_vars(control_thread_entry)
  /\ \A s \in Slots : WF_vars(slot_reset(s))
  /\ \A c \in Clients : WF_vars(ReadReply(c))

-----------------------------------------------------------------------------
\* The types of the state; no link overflows, no loop leaves the slots.
TypeOK ==
  /\ proc \in 0 .. MaxProcs
  /\ flags \subseteq Slots /\ hwt_reset \subseteq Slots /\ running \subseteq Slots
  /\ at \in [Slots -> 0 .. NumSlots] /\ mask \in [Slots -> SUBSET Slots]
  /\ pgd \in 0 .. Garbage
  /\ reset_counter \in 0 .. ResetTicks
  /\ Len(bq) <= Depth /\ Len(br) <= Depth /\ Len(aq) <= Depth /\ Len(ar) <= Depth
  /\ {retry, initiated, initiate, reset_dup, page_fault, fd} \subseteq BOOLEAN
  /\ pte \in [Pages -> {"none", "cached", "memory"}]
  /\ mem \in [Pages -> {"fresh", "zero", "hw", "sw"}]

\* The comment at the control thread's "*addr = 0": "this page has not been
\* touched yet. we can safely write 0 to the page".
Untouched == ctl = "zero" /\ addr \in Pages => mem[addr] = "fresh"

\* The control thread sends a "page ready command": when proc_control makes the
\* MMU try again, the page's entry is where the MMU will find it, so that one
\* fault is one request and the walk does not fault on the same page again.
RetryReady == retry /\ page_fault /\ Alive /\ pgd = proc => pte[vaddr] = "memory"

\* A hardware thread out of reset runs under the page directory of a process,
\* never under none or half an initialisation: wherever a process was killed,
\* also between the two words of the directory, the next reconos_init repairs.
ReleasedWithPgd == hwt_reset # Slots => pgd \in 1 .. MaxProcs

\* The core's registers and links, wherever a process was killed.
CoreSound == TypeOK /\ ReleasedWithPgd

\* Once a slot's delegate serves calls and every command has been carried out,
\* the slot is out of reset: the demos create their threads in a loop and wait
\* for them.
StartedRuns ==
  \A s \in Slots :
    dl[s] = "run" /\ bq = << >> /\ bstate = "B_WAIT"
      /\ (\A t \in Slots : dl[t] \in {"none", "run"}) => s \notin hwt_reset

\* The reply a client finds is the one it is reading: statistics and self test,
\* from one thread at a time, stay in step with the core.
ReplyExpected ==
  \A c \in Clients : cl[c] # "none" /\ br # << >> => Head(br) = cl[c]

\* A page fault is served: four-phase handshake, link, control thread and flush
\* together let the faulting access go on.
FaultServed == page_fault ~> (mmu = "idle" \/ ~Alive)

\* A process that is not killed gets its directory into the MMU, whatever its
\* predecessors left in the links and the core.
InitTakes == main = "pgd" ~> (pgd = proc \/ ~Alive \/ Stuck)

\* A client gets its answer.
ClientReturns == \A c \in Clients : cl[c] # "none" ~> cl[c] = "none"
=============================================================================
