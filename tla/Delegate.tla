------------------------------ MODULE Delegate ------------------------------
(***************************************************************************)
(* The delegate threads of linux/libreconos/libreconos.c: each serves the  *)
(* calls of one hardware thread on resources shared by all of them.  The   *)
(* links are those of Osif, seen from here as one request and one reply at *)
(* a time; message boxes are the atomic queues of BoundedFifo, which Mbox  *)
(* implements.  POSIX mutexes, semaphores and condition variables are      *)
(* external, modelled by what POSIX says of them, spurious wake-ups        *)
(* included.  A message queue (rq.c) is a message box of pointers to heap  *)
(* blocks.                                                                 *)
(*                                                                         *)
(* A hardware thread calls anything, within the rules of the calls: it     *)
(* unlocks what it has locked and waits on a condition with the mutex held.*)
(***************************************************************************)
EXTENDS Naturals, Sequences, FiniteSets

CONSTANTS
  Slots,      \* slots for hardware threads
  Mutexes, Sems, Conds, Mboxes, Rqs,    \* the objects of a process
  Programs,   \* applications: the objects each of their hardware threads is given
  BadHandle,  \* a handle >= num_resources
  Messages,   \* words put into message boxes
  MsgSizes,   \* sizes of messages and of receive buffers, in words
  Capacity,   \* size of every message box and queue
  SemMax,     \* bound: posts are made while the semaphore is below it
  Blocks,     \* bound: heap blocks for messages in flight
  Misuse,     \* those of them whose hardware threads may make wrong calls
  Nothing     \* no call, block, owner or word

ASSUME DelegateAssumption ==
  /\ Capacity \in Nat \ {0}
  /\ SemMax \in Nat
  /\ MsgSizes \subseteq Nat
  /\ IsFiniteSet(Slots)
  /\ Nothing \notin Slots \union Blocks \union MsgSizes
  /\ BadHandle \notin Mutexes
  /\ Misuse \subseteq Programs
  /\ \A p \in Programs :
       /\ DOMAIN p \subseteq Slots
       /\ \A s \in DOMAIN p : p[s] \subseteq Mutexes \union Sems \union Conds \union Mboxes \union Rqs

VARIABLES
  resources,  \* the table of each hardware thread, for the slots the program uses
  request,    \* the call a slot's link carries to its delegate
  reply,      \* the answer the link carries back
  pc,         \* what each delegate is doing
  cur,        \* the call it serves, until its answer is read
  owner,      \* of each mutex
  sem,        \* value of each semaphore
  waiters,    \* delegates in pthread_cond_wait, not woken
  mbox,       \* contents of the message boxes
  rq,         \* contents of the message queues: blocks
  heap,       \* size of the message in each allocated block
  blk,        \* the local "copy" of a delegate inside rq_send or rq_receive
  exited,     \* exit(1) has ended the process
  holds,      \* mutexes a hardware thread believes it holds
  lost        \* blocks that rq_receive turned down

links == <<request, reply, holds>>
posix == <<owner, sem, waiters>>
queues == <<mbox, rq, heap, blk, lost>>
vars == <<resources, request, reply, pc, cur, owner, sem, waiters, mbox, rq, heap, blk, exited, holds, lost>>

Call(cmd, h, arg) == [cmd |-> cmd, h |-> h, arg |-> arg]

\* The resource type each command asks for.
TypeOf(cmd) ==
  CASE cmd \in {"MBOX_GET", "MBOX_PUT"} -> Mboxes
    [] cmd \in {"SEM_WAIT", "SEM_POST"} -> Sems
    [] cmd \in {"MUTEX_LOCK", "MUTEX_UNLOCK", "MUTEX_TRYLOCK"} -> Mutexes
    [] cmd \in {"COND_WAIT", "COND_SIGNAL", "COND_BROADCAST"} -> Conds
    [] cmd \in {"RQ_RECEIVE", "RQ_SEND"} -> Rqs
    [] OTHER -> {}

Handles(s) == resources[s] \union {BadHandle}
WithoutHandle == {"GET_INIT_DATA", "THREAD_EXIT", "unknown"}

\* The delegate's checks of the handles, in the order of the arguments.
HandlesFit(s, c) ==
  \/ c.cmd \in WithoutHandle
  \/ /\ c.h \in TypeOf(c.cmd) \intersect resources[s]
     /\ c.cmd = "COND_WAIT" => c.arg \in Mutexes \intersect resources[s]

-----------------------------------------------------------------------------
\* Calls the hardware thread of slot s may make now.
Allowed(s) ==
  LET Mine(objects) == objects \intersect resources[s]
  IN  {Call("MBOX_GET", h, Nothing) : h \in Mine(Mboxes)}
      \union {Call("MBOX_PUT", h, m) : h \in Mine(Mboxes), m \in Messages}
      \union {Call(c, h, Nothing) : c \in {"SEM_WAIT", "SEM_POST"}, h \in Mine(Sems)}
      \union {Call(c, h, Nothing) : c \in {"MUTEX_LOCK", "MUTEX_TRYLOCK"}, h \in Mine(Mutexes) \ holds[s]}
      \union {Call("MUTEX_UNLOCK", h, Nothing) : h \in holds[s]}
      \union {Call("COND_WAIT", h, m) : h \in Mine(Conds), m \in holds[s]}
      \union {Call(c, h, Nothing) : c \in {"COND_SIGNAL", "COND_BROADCAST"}, h \in Mine(Conds)}
      \union {Call(c, h, n) : c \in {"RQ_RECEIVE", "RQ_SEND"}, h \in Mine(Rqs), n \in MsgSizes}
      \union {Call(c, Nothing, Nothing) : c \in {"GET_INIT_DATA", "THREAD_EXIT"}}

\* What a wrong program does: a handle out of range or of another type, or a
\* command the switch does not know.
Wrong(s) ==
  {c \in {Call(cmd, h, Nothing) : cmd \in {"MBOX_GET", "MUTEX_LOCK"}, h \in Handles(s)} : ~HandlesFit(s, c)}
  \union {Call("COND_WAIT", h, BadHandle) : h \in Conds \intersect resources[s]}
  \union {Call("unknown", Nothing, Nothing)}

\* The mutex that call c gives back, and the one that its answer v says is got.
Gives(c, m) == (c.cmd = "MUTEX_UNLOCK" /\ c.h = m) \/ (c.cmd = "COND_WAIT" /\ c.arg = m)

Gets(c, v, m) ==
  \/ c.cmd = "MUTEX_LOCK" /\ c.h = m
  \/ c.cmd = "MUTEX_TRYLOCK" /\ v = 0 /\ c.h = m
  \/ c.cmd = "COND_WAIT" /\ c.arg = m

Issue(s, c) ==
  /\ request[s] = Nothing /\ reply[s] = Nothing /\ pc[s] = "cmd"
  /\ c.cmd = "SEM_POST" /\ c.h \in Sems => sem[c.h] < SemMax
  /\ request' = [request EXCEPT ![s] = c]
  /\ holds' = [holds EXCEPT ![s] = @ \ {m \in Mutexes : Gives(c, m)}]
  /\ UNCHANGED <<resources, reply, pc, cur, posix, queues, exited>>

\* The hardware thread takes the reply; cur is the call it made.
Return(s) ==
  /\ reply[s] # Nothing
  /\ reply' = [reply EXCEPT ![s] = Nothing]
  /\ holds' = [holds EXCEPT ![s] = @ \union {m \in Mutexes : Gets(cur[s], reply[s].val, m)}]
  /\ cur' = [cur EXCEPT ![s] = Nothing]
  /\ UNCHANGED <<resources, request, pc, posix, queues, exited>>

-----------------------------------------------------------------------------
\* The delegate reads command and arguments, checks the handles and their types.
Receive(s) ==
  /\ ~exited
  /\ pc[s] = "cmd"
  /\ request[s] # Nothing
  /\ request' = [request EXCEPT ![s] = Nothing]
  /\ cur' = [cur EXCEPT ![s] = request[s]]
  /\ IF HandlesFit(s, request[s]) /\ request[s].cmd # "unknown"
     THEN /\ pc' = [pc EXCEPT ![s] = request[s].cmd]
          /\ UNCHANGED exited
     ELSE exited' = TRUE /\ UNCHANGED pc
  /\ UNCHANGED <<resources, reply, holds, posix, queues>>

At(s, cmd) == ~exited /\ pc[s] = cmd

\* fsl_write of the answer ends every case of the switch.
Answer(s, v) ==
  /\ reply' = [reply EXCEPT ![s] = [val |-> v]]
  /\ pc' = [pc EXCEPT ![s] = "cmd"]
  /\ UNCHANGED <<resources, request, cur, holds, exited>>

\* The statement after which the delegate goes on inside the same case.
Continue(s, to) ==
  /\ pc' = [pc EXCEPT ![s] = to]
  /\ UNCHANGED <<resources, links, cur, exited>>

MBOX_GET(s) ==
  /\ At(s, "MBOX_GET")
  /\ LET b == cur[s].h
     IN  /\ mbox[b] # << >>
         /\ mbox' = [mbox EXCEPT ![b] = Tail(@)]
         /\ Answer(s, Head(mbox[b]))
  /\ UNCHANGED <<posix, rq, heap, blk, lost>>

MBOX_PUT(s) ==
  /\ At(s, "MBOX_PUT")
  /\ Len(mbox[cur[s].h]) < Capacity
  /\ mbox' = [mbox EXCEPT ![cur[s].h] = Append(@, cur[s].arg)]
  /\ Answer(s, 0)
  /\ UNCHANGED <<posix, rq, heap, blk, lost>>

SEM_WAIT(s) ==
  /\ At(s, "SEM_WAIT")
  /\ sem[cur[s].h] > 0
  /\ sem' = [sem EXCEPT ![cur[s].h] = @ - 1]
  /\ Answer(s, 0)
  /\ UNCHANGED <<owner, waiters, queues>>

SEM_POST(s) ==
  /\ At(s, "SEM_POST")
  /\ sem' = [sem EXCEPT ![cur[s].h] = @ + 1]
  /\ Answer(s, 0)
  /\ UNCHANGED <<owner, waiters, queues>>

MUTEX_LOCK(s) ==
  /\ At(s, "MUTEX_LOCK")
  /\ owner[cur[s].h] = Nothing
  /\ owner' = [owner EXCEPT ![cur[s].h] = s]
  /\ Answer(s, 0)
  /\ UNCHANGED <<sem, waiters, queues>>

MUTEX_UNLOCK(s) ==
  /\ At(s, "MUTEX_UNLOCK")
  /\ owner' = [owner EXCEPT ![cur[s].h] = Nothing]
  /\ Answer(s, 0)
  /\ UNCHANGED <<sem, waiters, queues>>

\* Mutant: trylock waits for the mutex.
MUTEX_TRYLOCKWaits(s) ==
  /\ At(s, "MUTEX_TRYLOCK")
  /\ owner[cur[s].h] = Nothing
  /\ owner' = [owner EXCEPT ![cur[s].h] = s]
  /\ Answer(s, 0)
  /\ UNCHANGED <<sem, waiters, queues>>

\* The only call whose answer depends on another thread: 0 or EBUSY.
MUTEX_TRYLOCK(s) ==
  /\ At(s, "MUTEX_TRYLOCK")
  /\ LET free == owner[cur[s].h] = Nothing
     IN  /\ owner' = IF free THEN [owner EXCEPT ![cur[s].h] = s] ELSE owner
         /\ Answer(s, IF free THEN 0 ELSE 16)
  /\ UNCHANGED <<sem, waiters, queues>>

\* pthread_cond_wait releases the mutex and starts to wait in one step,
COND_WAIT(s) ==
  /\ At(s, "COND_WAIT")
  /\ owner' = [owner EXCEPT ![cur[s].arg] = Nothing]
  /\ waiters' = [waiters EXCEPT ![cur[s].h] = @ \union {s}]
  /\ Continue(s, "waiting")
  /\ UNCHANGED <<sem, queues>>

\* may wake without a signal, and returns with the mutex locked again.
Spurious(s) ==
  /\ At(s, "waiting")
  /\ s \in waiters[cur[s].h]
  /\ waiters' = [waiters EXCEPT ![cur[s].h] = @ \ {s}]
  /\ UNCHANGED <<resources, links, pc, cur, owner, sem, queues, exited>>

\* Mutant: the condition wait returns without the mutex.
CondReturnUnlocked(s) ==
  /\ At(s, "waiting")
  /\ s \notin waiters[cur[s].h]
  /\ Answer(s, 0)
  /\ UNCHANGED <<posix, queues>>

CondReturn(s) ==
  /\ At(s, "waiting")
  /\ s \notin waiters[cur[s].h]
  /\ owner[cur[s].arg] = Nothing
  /\ owner' = [owner EXCEPT ![cur[s].arg] = s]
  /\ Answer(s, 0)
  /\ UNCHANGED <<sem, waiters, queues>>

COND_SIGNAL(s) ==
  /\ At(s, "COND_SIGNAL")
  /\ LET w == waiters[cur[s].h]
     IN  IF w = {} THEN UNCHANGED waiters
         ELSE \E u \in w : waiters' = [waiters EXCEPT ![cur[s].h] = @ \ {u}]
  /\ Answer(s, 0)
  /\ UNCHANGED <<owner, sem, queues>>

COND_BROADCAST(s) ==
  /\ At(s, "COND_BROADCAST")
  /\ waiters' = [waiters EXCEPT ![cur[s].h] = {}]
  /\ Answer(s, 0)
  /\ UNCHANGED <<owner, sem, queues>>
-----------------------------------------------------------------------------
\* rq_send: the message is copied to a block of its own, headed by its size
\* (which of the free blocks malloc picks makes no difference),
RQ_SEND(s) ==
  /\ At(s, "RQ_SEND")
  /\ \E b \in Blocks : heap[b] = Nothing
  /\ LET b == CHOOSE b \in Blocks : heap[b] = Nothing
     IN  /\ heap' = [heap EXCEPT ![b] = cur[s].arg]
         /\ blk' = [blk EXCEPT ![s] = b]
  /\ Continue(s, "rqPut")
  /\ UNCHANGED <<posix, mbox, rq, lost>>

\* and the pointer is put into the message box.
RqPut(s) ==
  /\ At(s, "rqPut")
  /\ Len(rq[cur[s].h]) < Capacity
  /\ rq' = [rq EXCEPT ![cur[s].h] = Append(@, blk[s])]
  /\ blk' = [blk EXCEPT ![s] = Nothing]
  /\ Answer(s, 0)
  /\ UNCHANGED <<posix, mbox, heap, lost>>

\* rq_receive takes the pointer,
RQ_RECEIVE(s) ==
  /\ At(s, "RQ_RECEIVE")
  /\ rq[cur[s].h] # << >>
  /\ rq' = [rq EXCEPT ![cur[s].h] = Tail(@)]
  /\ blk' = [blk EXCEPT ![s] = Head(rq[cur[s].h])]
  /\ Continue(s, "rqCopy")
  /\ UNCHANGED <<posix, mbox, heap, lost>>

\* Mutant: rq_receive does not free the block.
RqCopyUnfreed(s) ==
  /\ At(s, "rqCopy")
  /\ LET fits == heap[blk[s]] > 0 /\ heap[blk[s]] <= cur[s].arg
     IN  Answer(s, IF fits THEN heap[blk[s]] ELSE 0)
  /\ blk' = [blk EXCEPT ![s] = Nothing]
  /\ UNCHANGED <<posix, mbox, rq, heap, lost>>

\* and copies the message out and frees the block; a message that is empty or
\* too long for the buffer is answered with 0, and its block forgotten.
RqCopy(s) ==
  /\ At(s, "rqCopy")
  /\ LET b == blk[s]
         fits == heap[b] > 0 /\ heap[b] <= cur[s].arg
     IN  /\ Answer(s, IF fits THEN heap[b] ELSE 0)
         /\ heap' = IF fits THEN [heap EXCEPT ![b] = Nothing] ELSE heap
         /\ lost' = IF fits THEN lost ELSE lost \union {b}
  /\ blk' = [blk EXCEPT ![s] = Nothing]
  /\ UNCHANGED <<posix, mbox, rq>>

\* The answer is the init_data pointer of the slot.
GET_INIT_DATA(s) ==
  /\ At(s, "GET_INIT_DATA")
  /\ Answer(s, s)
  /\ UNCHANGED <<posix, queues>>

\* The delegate thread returns; the mutexes it has locked stay locked.
THREAD_EXIT(s) ==
  /\ At(s, "THREAD_EXIT")
  /\ Continue(s, "gone")
  /\ UNCHANGED <<posix, queues>>

\* reconos_hwt_create puts a new thread into the slot, which holds nothing.
Recreate(s) ==
  /\ At(s, "gone")
  /\ pc' = [pc EXCEPT ![s] = "cmd"]
  /\ holds' = [holds EXCEPT ![s] = {}]
  /\ cur' = [cur EXCEPT ![s] = Nothing]
  /\ UNCHANGED <<resources, request, reply, posix, queues, exited>>

-----------------------------------------------------------------------------
Init ==
  /\ resources \in Programs
  /\ request = [s \in Slots |-> Nothing]
  /\ reply = [s \in Slots |-> Nothing]
  /\ pc = [s \in Slots |-> "cmd"]
  /\ cur = [s \in Slots |-> Nothing]
  /\ owner = [m \in Mutexes |-> Nothing]
  /\ sem = [e \in Sems |-> 0]
  /\ waiters = [c \in Conds |-> {}]
  /\ mbox = [b \in Mboxes |-> << >>]
  /\ rq = [q \in Rqs |-> << >>]
  /\ heap = [b \in Blocks |-> Nothing]
  /\ blk = [s \in Slots |-> Nothing]
  /\ exited = FALSE
  /\ holds = [s \in Slots |-> {}]
  /\ lost = {}

delegate_thread_entry(s) ==
  \/ Receive(s)
  \/ MBOX_GET(s) \/ MBOX_PUT(s) \/ SEM_WAIT(s) \/ SEM_POST(s)
  \/ MUTEX_LOCK(s) \/ MUTEX_UNLOCK(s) \/ MUTEX_TRYLOCK(s)
  \/ COND_WAIT(s) \/ CondReturn(s) \/ COND_SIGNAL(s) \/ COND_BROADCAST(s)
  \/ RQ_SEND(s) \/ RqPut(s) \/ RQ_RECEIVE(s) \/ RqCopy(s)
  \/ GET_INIT_DATA(s) \/ THREAD_EXIT(s)

Next ==
  \E s \in DOMAIN resources :
    \/ \E c \in Allowed(s) \union (IF resources \in Misuse THEN Wrong(s) ELSE {}) : Issue(s, c)
    \/ Return(s) \/ Recreate(s) \/ Spurious(s)
    \/ delegate_thread_entry(s)

Spec == Init /\ [][Next]_vars

\* Every delegate that can run is scheduled, and the hardware reads its answers.
FairSpec ==
  Spec /\ \A s \in Slots : WF_vars(delegate_thread_entry(s)) /\ WF_vars(Return(s))

-----------------------------------------------------------------------------
\* The types of the state; no box or queue holds more than Capacity.
TypeOK ==
  /\ \A s \in Slots : holds[s] \subseteq Mutexes
  /\ owner \in [Mutexes -> Slots \union {Nothing}]
  /\ sem \in [Sems -> 0 .. SemMax + Cardinality(Slots)]
  /\ waiters \in [Conds -> SUBSET Slots]
  /\ \A b \in Mboxes : Len(mbox[b]) <= Capacity
  /\ \A q \in Rqs : Len(rq[q]) <= Capacity
  /\ heap \in [Blocks -> MsgSizes \union {Nothing}]
  /\ blk \in [Slots -> Blocks \union {Nothing}]
  /\ exited \in BOOLEAN

\* A mutex that a hardware thread believes it holds is locked by its delegate:
\* across the delay of the links, trylock, condition waits with their unlock and
\* lock, other delegates' calls and the reuse of a slot.  So no two hardware
\* threads believe they are in the same critical section.
HeldIsOwned == \A s \in Slots : \A m \in holds[s] : owner[m] = s

\* Where a block is.
Places(b) ==
  {p \in {"queue"} \X Rqs \X (1 .. Capacity) : p[3] <= Len(rq[p[2]]) /\ rq[p[2]][p[3]] = b}
  \union {<<"hand", s, 0>> : s \in {s \in Slots : blk[s] = b}}
  \union {<<"lost", Nothing, 0>> : x \in {b} \intersect lost}

\* Each allocated block is in one place, once: a queue, the hands of one
\* delegate, or forgotten by rq_receive; a free block is nowhere.  So no block
\* is freed twice or read after another message has been written to it.
BlocksAccounted ==
  \A b \in Blocks : Cardinality(Places(b)) = IF heap[b] = Nothing THEN 0 ELSE 1

\* The heap, the queues and boxes on it, and the delegates agree.
HeapSound == TypeOK /\ BlocksAccounted

\* The calls that wait for no other thread.
Immediate == {"SEM_POST", "MUTEX_UNLOCK", "MUTEX_TRYLOCK", "COND_SIGNAL", "COND_BROADCAST", "GET_INIT_DATA"}

\* A call that does not wait for another thread is answered, whatever the other
\* slots do, unless one of them makes the process exit.
Answered ==
  \A s \in Slots :
    (request[s] # Nothing /\ request[s].cmd \in Immediate) ~> (reply[s] # Nothing \/ exited)
=============================================================================
