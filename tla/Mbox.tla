-------------------------------- MODULE Mbox --------------------------------
(***************************************************************************)
(* The message box of linux/libreconos/mbox.c: a ring of Size words, a     *)
(* mutex and a counting semaphore for each end.  Every access to a shared  *)
(* variable of mbox_put and mbox_get is a step of its own, so that any     *)
(* interleaving of the callers is a behaviour.  The POSIX primitives are   *)
(* taken at their word: lock and sem_wait block, no signal handler runs    *)
(* (libreconos installs none), so sem_wait never returns early.            *)
(***************************************************************************)
EXTENDS Naturals, Sequences

CONSTANTS
  Size,       \* the size given to mbox_init
  Putters,    \* threads that call mbox_put
  Getters,    \* threads that call mbox_get
  Messages,   \* the words they pass
  NoMessage,  \* an uninitialised word of the ring, or no word at all
  NoThread    \* owner of a free mutex

ASSUME MboxAssumption ==
  /\ Size \in Nat \ {0}
  /\ NoMessage \notin Messages
  /\ NoThread \notin Putters \union Getters

VARIABLES
  sem_read,     \* messages a reader may take
  sem_write,    \* slots a writer may fill
  mutex_read,   \* owner of the reading end
  mutex_write,  \* owner of the writing end
  messages,     \* the ring
  read_idx,
  write_idx,
  stmt,         \* next statement of each thread
  msg           \* the local msg of each thread's call

mboxVars == <<sem_read, sem_write, mutex_read, mutex_write, messages, read_idx,
              write_idx, stmt, msg>>

Callers == Putters \union Getters
Slots == 0 .. Size - 1

\* (i + 1) % mb->size, how both ends move on.
Succ(i) == (i + 1) % Size

PutSteps == {"putLock", "putWait", "putStore", "putAdvance", "putPost", "putUnlock"}
GetSteps == {"getLock", "getWait", "getLoad", "getAdvance", "getPost", "getUnlock"}

\* The types of the state; the semaphores never count more than Size.
TypeOK ==
  /\ sem_read \in 0 .. Size
  /\ sem_write \in 0 .. Size
  /\ mutex_read \in Getters \union {NoThread}
  /\ mutex_write \in Putters \union {NoThread}
  /\ messages \in [Slots -> Messages \union {NoMessage}]
  /\ read_idx \in Slots
  /\ write_idx \in Slots
  /\ stmt \in [Callers -> {"idle"} \union PutSteps \union GetSteps]
  /\ msg \in [Callers -> Messages \union {NoMessage}]

-----------------------------------------------------------------------------
\* mbox_init; malloc leaves the ring uninitialised.
MboxInit ==
  /\ sem_read = 0
  /\ sem_write = Size
  /\ mutex_read = NoThread
  /\ mutex_write = NoThread
  /\ messages = [i \in Slots |-> NoMessage]
  /\ read_idx = 0
  /\ write_idx = 0
  /\ stmt = [t \in Callers |-> "idle"]
  /\ msg = [t \in Callers |-> NoMessage]

Goto(t, from, to) ==
  /\ stmt[t] = from
  /\ stmt' = [stmt EXCEPT ![t] = to]

PutCall(t, m) ==
  /\ Goto(t, "idle", "putLock")
  /\ msg' = [msg EXCEPT ![t] = m]
  /\ UNCHANGED <<sem_read, sem_write, mutex_read, mutex_write, messages,
                 read_idx, write_idx>>

\* Mutant: mbox_put without its mutex.
PutLockMissing(t) ==
  /\ Goto(t, "putLock", "putWait")
  /\ mutex_write' = t
  /\ UNCHANGED <<sem_read, sem_write, mutex_read, messages, read_idx, write_idx, msg>>

PutLock(t) ==
  /\ Goto(t, "putLock", "putWait")
  /\ mutex_write = NoThread
  /\ mutex_write' = t
  /\ UNCHANGED <<sem_read, sem_write, mutex_read, messages, read_idx, write_idx, msg>>

PutWait(t) ==
  /\ Goto(t, "putWait", "putStore")
  /\ sem_write > 0
  /\ sem_write' = sem_write - 1
  /\ UNCHANGED <<sem_read, mutex_read, mutex_write, messages, read_idx, write_idx, msg>>

PutStore(t) ==
  /\ Goto(t, "putStore", "putAdvance")
  /\ messages' = [messages EXCEPT ![write_idx] = msg[t]]
  /\ UNCHANGED <<sem_read, sem_write, mutex_read, mutex_write, read_idx, write_idx, msg>>

PutAdvance(t) ==
  /\ Goto(t, "putAdvance", "putPost")
  /\ write_idx' = Succ(write_idx)
  /\ UNCHANGED <<sem_read, sem_write, mutex_read, mutex_write, messages, read_idx, msg>>

\* Mutant: the semaphores are swapped.
PutPostSwapped(t) ==
  /\ Goto(t, "putPost", "putUnlock")
  /\ sem_write' = sem_write + 1
  /\ UNCHANGED <<sem_read, mutex_read, mutex_write, messages, read_idx, write_idx, msg>>

PutPost(t) ==
  /\ Goto(t, "putPost", "putUnlock")
  /\ sem_read' = sem_read + 1
  /\ UNCHANGED <<sem_write, mutex_read, mutex_write, messages, read_idx, write_idx, msg>>

PutUnlock(t) ==
  /\ Goto(t, "putUnlock", "idle")
  /\ mutex_write' = NoThread
  /\ msg' = [msg EXCEPT ![t] = NoMessage]
  /\ UNCHANGED <<sem_read, sem_write, mutex_read, messages, read_idx, write_idx>>

GetCall(t) ==
  /\ Goto(t, "idle", "getLock")
  /\ UNCHANGED <<sem_read, sem_write, mutex_read, mutex_write, messages,
                 read_idx, write_idx, msg>>

GetLock(t) ==
  /\ Goto(t, "getLock", "getWait")
  /\ mutex_read = NoThread
  /\ mutex_read' = t
  /\ UNCHANGED <<sem_read, sem_write, mutex_write, messages, read_idx, write_idx, msg>>

\* Mutant: sem_wait returns without a credit.
GetWaitInterrupted(t) ==
  /\ Goto(t, "getWait", "getLoad")
  /\ sem_read' = IF sem_read > 0 THEN sem_read - 1 ELSE 0
  /\ UNCHANGED <<sem_write, mutex_read, mutex_write, messages, read_idx, write_idx, msg>>

GetWait(t) ==
  /\ Goto(t, "getWait", "getLoad")
  /\ sem_read > 0
  /\ sem_read' = sem_read - 1
  /\ UNCHANGED <<sem_write, mutex_read, mutex_write, messages, read_idx, write_idx, msg>>

GetLoad(t) ==
  /\ Goto(t, "getLoad", "getAdvance")
  /\ msg' = [msg EXCEPT ![t] = messages[read_idx]]
  /\ UNCHANGED <<sem_read, sem_write, mutex_read, mutex_write, messages, read_idx, write_idx>>

GetAdvance(t) ==
  /\ Goto(t, "getAdvance", "getPost")
  /\ read_idx' = Succ(read_idx)
  /\ UNCHANGED <<sem_read, sem_write, mutex_read, mutex_write, messages, write_idx, msg>>

GetPost(t) ==
  /\ Goto(t, "getPost", "getUnlock")
  /\ sem_write' = sem_write + 1
  /\ UNCHANGED <<sem_read, mutex_read, mutex_write, messages, read_idx, write_idx, msg>>

\* The message is returned with the lock released.
GetUnlock(t) ==
  /\ Goto(t, "getUnlock", "idle")
  /\ mutex_read' = NoThread
  /\ msg' = [msg EXCEPT ![t] = NoMessage]
  /\ UNCHANGED <<sem_read, sem_write, mutex_write, messages, read_idx, write_idx>>

\* mbox_put and mbox_get after the call, one statement at a time.
mbox_put(t) ==
  \/ PutLock(t) \/ PutWait(t) \/ PutStore(t)
  \/ PutAdvance(t) \/ PutPost(t) \/ PutUnlock(t)

mbox_get(t) ==
  \/ GetLock(t) \/ GetWait(t) \/ GetLoad(t)
  \/ GetAdvance(t) \/ GetPost(t) \/ GetUnlock(t)

MboxNext ==
  \/ \E t \in Putters : (\E m \in Messages : PutCall(t, m)) \/ mbox_put(t)
  \/ \E t \in Getters : GetCall(t) \/ mbox_get(t)

MboxSpec == MboxInit /\ [][MboxNext]_mboxVars

\* The scheduler runs every thread that can run; glibc's mutexes and
\* semaphores promise a waiter nothing stronger than that.  The getters are
\* consumer loops, which come back for the next message.
MboxFairSpec ==
  /\ MboxSpec
  /\ \A t \in Putters : WF_mboxVars(mbox_put(t))
  /\ \A t \in Getters : WF_mboxVars(GetCall(t) \/ mbox_get(t))

-----------------------------------------------------------------------------
\* Which statements run between taking a credit and giving one back.
Writing(t) == stmt[t] \in {"putStore", "putAdvance", "putPost"}
Reading(t) == stmt[t] \in {"getLoad", "getAdvance", "getPost"}
WriterAt(S) == IF mutex_write # NoThread /\ stmt[mutex_write] \in S THEN 1 ELSE 0
ReaderAt(S) == IF mutex_read # NoThread /\ stmt[mutex_read] \in S THEN 1 ELSE 0

\* The box as its callers see it: a message is in it from PutStore to GetLoad.
First == IF ReaderAt({"getAdvance"}) = 1 THEN Succ(read_idx) ELSE read_idx
Stored == sem_read + WriterAt({"putAdvance", "putPost"}) + ReaderAt({"getLoad"})
Slot(i, k) == IF i + k < Size THEN i + k ELSE i + k - Size
Content == [k \in 1 .. Stored |-> messages[Slot(First, k - 1)]]

CallOf(t) ==
  IF stmt[t] = "idle" THEN "none"
  ELSE IF stmt[t] \in {"putLock", "putWait", "putStore"} THEN "put"
  ELSE IF stmt[t] \in {"putAdvance", "putPost", "putUnlock"} THEN "putDone"
  ELSE IF stmt[t] \in {"getLock", "getWait", "getLoad"} THEN "get"
  ELSE "getDone"

Fifo == INSTANCE BoundedFifo WITH
  Capacity <- Size, fifo <- Content, val <- msg, call <- [t \in Callers |-> CallOf(t)]

\* mbox_put and mbox_get, interleaved in any way, behave as atomic operations
\* on a first-in first-out queue of Size messages: none is lost, duplicated,
\* reordered, overwritten before it is read or read before it is written.
RefinesFifo == Fifo!FifoSpec

\* The two ends never touch the same slot: while a writer is about to fill
\* messages[write_idx] a reader about to load is at another slot.
NoSlotRace ==
  \A w \in Putters, r \in Getters :
    stmt[w] = "putStore" /\ stmt[r] = "getLoad" => write_idx # read_idx

\* A message in the box is loaded by some getter as long as the getters keep
\* calling mbox_get: no interleaving leaves a stored message without a credit.
MessageTaken == Stored > 0 ~> \E t \in Getters : stmt[t] = "getAdvance"

\* A put that holds the lock returns: a full box is emptied by the getters.
PutReturns == \A t \in Putters : stmt[t] = "putWait" ~> stmt[t] = "idle"

\* Together: neither semaphore loses a credit.
NoCreditLost == MessageTaken /\ PutReturns
=============================================================================
