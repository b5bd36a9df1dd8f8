----------------------------- MODULE RingProofs -----------------------------
(***************************************************************************)
(* The two ring buffers in the processor's memory.  For every ring size    *)
(* and every set of threads: the message box is a first-in first-out       *)
(* queue.  Its invariant says who holds the mutexes, that credits are      *)
(* conserved, and that the slot after the last stored message is where the *)
(* next put writes.                                                        *)
(*                                                                         *)
(* For any number of senders and packets of any length: the packet thread  *)
(* of the NoC's ring never finds its list empty, and no packet in the ring *)
(* is forgotten.  The second is inductive as it stands.  The first needs   *)
(* to know where each element of the list comes from: a sender that has    *)
(* added it and has not posted yet, a credit of the semaphore, or the      *)
(* credit the packet thread has taken and not used yet.                    *)
(***************************************************************************)
EXTENDS Mbox, NocRing, FiniteSetTheorems, SequenceTheorems, TLAPS

-----------------------------------------------------------------------------
(* The message box *)

WriteHeld == {"putWait", "putStore", "putAdvance", "putPost", "putUnlock"}
ReadHeld == {"getWait", "getLoad", "getAdvance", "getPost", "getUnlock"}

\* A mutex is owned exactly by the thread between its lock and its unlock.
Owners ==
  \A t \in Callers :
    /\ stmt[t] \in WriteHeld <=> mutex_write = t
    /\ stmt[t] \in ReadHeld <=> mutex_read = t

\* The semaphores count the slots that nobody is working on.
Credits ==
  sem_read + sem_write + WriterAt({"putStore", "putAdvance", "putPost"})
    + ReaderAt({"getLoad", "getAdvance", "getPost"}) = Size

\* The slot the next message goes to.
Last == IF WriterAt({"putAdvance"}) = 1 THEN Succ(write_idx) ELSE write_idx

MboxIInv ==
  /\ TypeOK
  /\ Owners
  /\ Credits
  /\ Slot(First, Stored) = Last

USE MboxAssumption

\* The code's (i + 1) % size without the modulo.
LEMMA SuccInSlots ==
  ASSUME NEW i \in Slots
  PROVE  Succ(i) = (IF i + 1 = Size THEN 0 ELSE i + 1) /\ Succ(i) \in Slots
BY DEF Succ, Slots

LEMMA MboxInitInv == MboxInit => MboxIInv
BY DEF MboxInit, MboxIInv, TypeOK, Owners, Credits, WriterAt, ReaderAt, First, Stored,
       Last, Slot, Slots, WriteHeld, ReadHeld, PutSteps, GetSteps, Callers

\* What a step of one thread at a time does to the counts of the invariant.
LEMMA MboxStepInv == MboxIInv /\ [MboxNext]_mboxVars => MboxIInv'
<1> SUFFICES ASSUME MboxIInv, [MboxNext]_mboxVars PROVE MboxIInv'
  OBVIOUS
<1> USE DEF MboxIInv, TypeOK, Owners, Credits, WriterAt, ReaderAt, First, Stored,
            Last, Slot, WriteHeld, ReadHeld, PutSteps, GetSteps, Callers, Goto
<1>s. /\ Slots = 0 .. Size - 1
      /\ Succ(read_idx) = (IF read_idx + 1 = Size THEN 0 ELSE read_idx + 1)
      /\ Succ(write_idx) = (IF write_idx + 1 = Size THEN 0 ELSE write_idx + 1)
  BY SuccInSlots DEF Slots
<1>1. ASSUME NEW t \in Putters, NEW m \in Messages, PutCall(t, m) PROVE MboxIInv'
  BY <1>1, <1>s DEF PutCall
<1>2. ASSUME NEW t \in Putters, PutLock(t) PROVE MboxIInv'
  BY <1>2, <1>s DEF PutLock
<1>3. ASSUME NEW t \in Putters, PutWait(t) PROVE MboxIInv'
  BY <1>3, <1>s DEF PutWait
<1>4. ASSUME NEW t \in Putters, PutStore(t) PROVE MboxIInv'
  BY <1>4, <1>s DEF PutStore
<1>5. ASSUME NEW t \in Putters, PutAdvance(t) PROVE MboxIInv'
  BY <1>5, <1>s DEF PutAdvance
<1>6. ASSUME NEW t \in Putters, PutPost(t) PROVE MboxIInv'
  BY <1>6, <1>s DEF PutPost
<1>7. ASSUME NEW t \in Putters, PutUnlock(t) PROVE MboxIInv'
  BY <1>7, <1>s DEF PutUnlock
<1>8. ASSUME NEW t \in Getters, GetCall(t) PROVE MboxIInv'
  BY <1>8, <1>s DEF GetCall
<1>9. ASSUME NEW t \in Getters, GetLock(t) PROVE MboxIInv'
  BY <1>9, <1>s DEF GetLock
<1>10. ASSUME NEW t \in Getters, GetWait(t) PROVE MboxIInv'
  BY <1>10, <1>s DEF GetWait
<1>11. ASSUME NEW t \in Getters, GetLoad(t) PROVE MboxIInv'
  BY <1>11, <1>s DEF GetLoad
<1>12. ASSUME NEW t \in Getters, GetAdvance(t) PROVE MboxIInv'
  BY <1>12, <1>s DEF GetAdvance
<1>13. ASSUME NEW t \in Getters, GetPost(t) PROVE MboxIInv'
  BY <1>13, <1>s DEF GetPost
<1>14. ASSUME NEW t \in Getters, GetUnlock(t) PROVE MboxIInv'
  BY <1>14, <1>s DEF GetUnlock
<1>15. CASE UNCHANGED mboxVars
  BY <1>15, <1>s DEF mboxVars
<1> QED
  BY <1>1, <1>2, <1>3, <1>4, <1>5, <1>6, <1>7, <1>8, <1>9, <1>10, <1>11, <1>12,
     <1>13, <1>14, <1>15 DEF MboxNext, mbox_put, mbox_get

LEMMA MboxInvariance == MboxSpec => []MboxIInv
BY MboxInitInv, MboxStepInv, PTL DEF MboxSpec

\* The ring indices, semaphores and mutexes never leave their ranges: sem_read
\* and sem_write stay within the ring although both ends post them unguarded.
THEOREM TypeCorrect == MboxSpec => []TypeOK
BY MboxInvariance, PTL DEF MboxIInv

\* A writer at messages[write_idx] and a reader at messages[read_idx] are at
\* different slots, though they hold different mutexes.
THEOREM NoRace == MboxSpec => []NoSlotRace
<1>1. MboxIInv => NoSlotRace
  <2> SUFFICES ASSUME MboxIInv, NEW w \in Putters, NEW r \in Getters,
                      stmt[w] = "putStore", stmt[r] = "getLoad"
               PROVE  write_idx # read_idx
    BY DEF NoSlotRace
  <2>1. mutex_write = w /\ mutex_read = r
    BY DEF MboxIInv, Owners, WriteHeld, ReadHeld, Callers
  <2>2. Last = write_idx /\ First = read_idx /\ Stored = sem_read + 1
    BY <2>1 DEF Last, First, Stored, WriterAt, ReaderAt, MboxIInv, TypeOK
  <2>3. Stored \in 1 .. Size - 1
    BY <2>1, <2>2 DEF MboxIInv, TypeOK, Credits, WriterAt, ReaderAt
  <2> QED
    BY <2>2, <2>3 DEF MboxIInv, TypeOK, Slot, Slots
<1> QED
  BY <1>1, MboxInvariance, PTL

-----------------------------------------------------------------------------
LEMMA StoredInRange == MboxIInv => First \in Slots /\ Stored \in 0 .. Size
<1> SUFFICES ASSUME MboxIInv PROVE First \in Slots /\ Stored \in 0 .. Size
  OBVIOUS
<1>1. First \in Slots
  BY SuccInSlots DEF MboxIInv, TypeOK, First
<1>2. Stored \in 0 .. Size
  <2>1. /\ WriterAt({"putAdvance", "putPost"})
              <= WriterAt({"putStore", "putAdvance", "putPost"})
        /\ ReaderAt({"getLoad"}) <= ReaderAt({"getLoad", "getAdvance", "getPost"})
    BY DEF WriterAt, ReaderAt
  <2>2. /\ WriterAt({"putAdvance", "putPost"}) \in 0 .. 1
        /\ ReaderAt({"getLoad"}) \in 0 .. 1
        /\ WriterAt({"putStore", "putAdvance", "putPost"}) \in 0 .. 1
        /\ ReaderAt({"getLoad", "getAdvance", "getPost"}) \in 0 .. 1
    BY DEF WriterAt, ReaderAt
  <2> QED
    BY <2>1, <2>2 DEF MboxIInv, TypeOK, Credits, Stored
<1> QED
  BY <1>1, <1>2

LEMMA ContentIsSeq ==
  ASSUME MboxIInv
  PROVE  /\ Content \in Seq(Messages \union {NoMessage})
         /\ Len(Content) = Stored
         /\ \A k \in 1 .. Stored : Content[k] = messages[Slot(First, k - 1)]
<1>1. Stored \in Nat /\ First \in 0 .. Size - 1 /\ Stored <= Size
  BY StoredInRange DEF Slots
<1>2. Content \in [1 .. Stored -> Messages \union {NoMessage}]
  BY <1>1 DEF MboxIInv, TypeOK, Content, Slot, Slots
<1> QED
  BY <1>1, <1>2 DEF Content

LEMMA ContentStutter ==
  ASSUME messages' = messages, First' = First, Stored' = Stored
  PROVE  Content' = Content
BY DEF Content, Slot

\* Storing at write_idx appends, and overwrites no message in the box.
LEMMA StoreAppends ==
  ASSUME MboxIInv, NEW t \in Putters, PutStore(t)
  PROVE  Stored < Size /\ Content' = Append(Content, msg[t])
<1>1. mutex_write = t /\ stmt[t] = "putStore" /\ stmt'[t] = "putAdvance"
  BY DEF PutStore, Goto, MboxIInv, TypeOK, Owners, WriteHeld, Callers
<1>2. /\ ReaderAt({"getLoad"})' = ReaderAt({"getLoad"})
      /\ ReaderAt({"getAdvance"})' = ReaderAt({"getAdvance"})
  BY <1>1 DEF PutStore, Goto, ReaderAt, MboxIInv, TypeOK, Owners, ReadHeld, Callers
<1>3. First' = First /\ Stored' = Stored + 1 /\ Last = write_idx /\ Stored < Size
  BY <1>1, <1>2
     DEF First, Stored, Last, WriterAt, ReaderAt, PutStore, MboxIInv, TypeOK, Credits
<1>4. First \in 0 .. Size - 1 /\ Stored \in Nat
  BY StoredInRange DEF Slots
<1>5. Slot(First, Stored) = write_idx
  BY <1>3 DEF MboxIInv
<1>6. ASSUME NEW k \in 1 .. Stored
      PROVE  Slot(First, k - 1) # write_idx /\ Slot(First, k - 1) \in Slots
  BY <1>3, <1>4, <1>5 DEF Slot, Slots
<1>7. \A k \in 1 .. Stored : Content'[k] = Content[k]
  <2> SUFFICES ASSUME NEW k \in 1 .. Stored PROVE Content'[k] = Content[k]
    OBVIOUS
  <2>1. Content'[k] = messages'[Slot(First, k - 1)]
    BY <1>3, <1>4 DEF Content, Slot
  <2> QED
    BY <2>1, <1>6, ContentIsSeq DEF PutStore, MboxIInv, TypeOK
<1>8. Content'[Stored + 1] = msg[t]
  BY <1>3, <1>4, <1>5 DEF Content, PutStore, MboxIInv, TypeOK, Slot, Slots
<1>9. Append(Content, msg[t])
        = [k \in 1 .. Stored + 1 |-> IF k <= Stored THEN Content[k] ELSE msg[t]]
  BY <1>4, ContentIsSeq
<1>10. Content' = [k \in 1 .. Stored + 1 |-> Content'[k]]
  BY <1>3 DEF Content
<1> QED
  BY <1>3, <1>4, <1>7, <1>8, <1>9, <1>10

\* Loading from read_idx takes the oldest message.
LEMMA LoadTakesHead ==
  ASSUME MboxIInv, NEW t \in Getters, GetLoad(t)
  PROVE  /\ Content # << >>
         /\ messages[read_idx] = Head(Content)
         /\ Content' = Tail(Content)
<1>1. mutex_read = t /\ stmt[t] = "getLoad" /\ stmt'[t] = "getAdvance"
  BY DEF GetLoad, Goto, MboxIInv, TypeOK, Owners, ReadHeld, Callers
<1>2. WriterAt({"putAdvance", "putPost"})' = WriterAt({"putAdvance", "putPost"})
  BY <1>1 DEF GetLoad, Goto, WriterAt, MboxIInv, TypeOK, Owners, WriteHeld, Callers
<1>3. /\ First = read_idx /\ First' = Succ(read_idx)
      /\ Stored' = Stored - 1 /\ Stored > 0
  BY <1>1, <1>2 DEF First, Stored, WriterAt, ReaderAt, GetLoad, MboxIInv, TypeOK
<1>4. First \in 0 .. Size - 1 /\ Stored \in 1 .. Size
  BY <1>3, StoredInRange DEF Slots
<1>5. First' = IF First + 1 = Size THEN 0 ELSE First + 1
  BY <1>3, <1>4, SuccInSlots DEF Slots
<1>6. Content # << >> /\ Head(Content) = messages[read_idx]
  BY <1>3, <1>4, ContentIsSeq DEF Slot
<1>7. Tail(Content) = [k \in 1 .. Stored - 1 |-> Content[k + 1]]
  <2>1. /\ Len(Tail(Content)) = Stored - 1
        /\ Tail(Content) \in Seq(Messages \union {NoMessage})
        /\ \A k \in 1 .. Stored - 1 : Tail(Content)[k] = Content[k + 1]
    BY <1>6, ContentIsSeq, HeadTailProperties
  <2>2. Tail(Content) \in [1 .. Stored - 1 -> Messages \union {NoMessage}]
    BY <2>1, LenProperties
  <2> QED
    BY <2>1, <2>2
<1>8. ASSUME NEW k \in 1 .. Stored - 1
      PROVE  Content'[k] = Content[k + 1]
  <2>1. Slot(First', k - 1) = Slot(First, k)
    BY <1>4, <1>5 DEF Slot
  <2>2. Content'[k] = messages[Slot(First', k - 1)]
    BY <1>3 DEF Content, GetLoad, Slot
  <2>3. Content[k + 1] = messages[Slot(First, k)]
    BY <1>4 DEF Content
  <2> QED
    BY <2>1, <2>2, <2>3
<1>9. Content' = [k \in 1 .. Stored - 1 |-> Content'[k]]
  BY <1>3 DEF Content
<1> QED
  BY <1>6, <1>7, <1>8, <1>9

CallMap == [t \in Callers |-> CallOf(t)]

\* A step that moves t from stmt "from" to stmt "to" moves its call likewise.
LEMMA CallMoves ==
  ASSUME MboxIInv, NEW t \in Callers, NEW from, NEW to, Goto(t, from, to)
  PROVE  CallMap' = [CallMap EXCEPT ![t] = CallOf(t)'] /\ stmt[t] = from /\ stmt'[t] = to
<1>1. stmt[t] = from /\ stmt'[t] = to /\ \A u \in Callers : u # t => stmt'[u] = stmt[u]
  BY DEF Goto, MboxIInv, TypeOK
<1>2. \A u \in Callers : u # t => CallOf(u)' = CallOf(u)
  BY <1>1 DEF CallOf
<1> QED
  BY <1>1, <1>2 DEF CallMap

LEMMA InitImplements == MboxInit => Fifo!FifoInit
<1> SUFFICES ASSUME MboxInit PROVE Fifo!FifoInit
  OBVIOUS
<1>1. Content = << >>
  BY DEF MboxInit, Content, Stored, WriterAt, ReaderAt
<1>2. \A t \in Callers : CallOf(t) = "none"
  BY DEF MboxInit, CallOf
<1> QED
  BY <1>1, <1>2 DEF MboxInit, Fifo!FifoInit, Fifo!Threads, Callers

\* Every step of the code is a step of the queue or leaves it as it is: the
\* call, PutStore, GetLoad and the unlock are seen, the others are not.
LEMMA StepImplements ==
  MboxIInv /\ MboxIInv' /\ [MboxNext]_mboxVars => [Fifo!FifoNext]_(Fifo!fifoVars)
<1> SUFFICES ASSUME MboxIInv, MboxIInv', [MboxNext]_mboxVars
             PROVE  [Fifo!FifoNext]_(Fifo!fifoVars)
  OBVIOUS
<1> DEFINE Stutter == Content' = Content /\ CallMap' = CallMap /\ msg' = msg
<1>s. Stutter => [Fifo!FifoNext]_(Fifo!fifoVars)
  BY DEF Fifo!fifoVars, CallMap
<1> USE DEF Fifo!FifoNext, Fifo!Threads, Callers
<1>i. /\ Succ(read_idx) = (IF read_idx + 1 = Size THEN 0 ELSE read_idx + 1)
      /\ Succ(write_idx) = (IF write_idx + 1 = Size THEN 0 ELSE write_idx + 1)
  BY SuccInSlots DEF MboxIInv, TypeOK
<1>1. ASSUME NEW t \in Putters, NEW m \in Messages, PutCall(t, m)
      PROVE  Fifo!CallPut(t, m)
  <2>1. Content' = Content
    BY <1>1, ContentStutter
       DEF PutCall, Goto, First, Stored, WriterAt, ReaderAt, MboxIInv, TypeOK, Owners,
           WriteHeld, ReadHeld
  <2>2. /\ CallMap' = [CallMap EXCEPT ![t] = CallOf(t)']
        /\ CallOf(t) = "none" /\ CallOf(t)' = "put"
    BY <1>1, CallMoves DEF PutCall, CallOf
  <2> QED
    BY <1>1, <2>1, <2>2 DEF Fifo!CallPut, PutCall, CallMap
<1>2. ASSUME NEW t \in Putters, PutLock(t) PROVE Stutter
  <2>1. Content' = Content
    BY <1>2, ContentStutter, <1>i
       DEF PutLock, Goto, First, Stored, WriterAt, ReaderAt, MboxIInv, TypeOK, Owners,
           WriteHeld, ReadHeld
  <2>2. /\ CallMap' = [CallMap EXCEPT ![t] = CallOf(t)']
        /\ CallOf(t) = "put" /\ CallOf(t)' = "put"
    BY <1>2, CallMoves DEF PutLock, CallOf
  <2> QED
    BY <1>2, <2>1, <2>2 DEF PutLock, CallMap
<1>3. ASSUME NEW t \in Putters, PutWait(t) PROVE Stutter
  <2>1. Content' = Content
    BY <1>3, ContentStutter, <1>i
       DEF PutWait, Goto, First, Stored, WriterAt, ReaderAt, MboxIInv, TypeOK, Owners,
           WriteHeld, ReadHeld
  <2>2. /\ CallMap' = [CallMap EXCEPT ![t] = CallOf(t)']
        /\ CallOf(t) = "put" /\ CallOf(t)' = "put"
    BY <1>3, CallMoves DEF PutWait, CallOf
  <2> QED
    BY <1>3, <2>1, <2>2 DEF PutWait, CallMap
<1>4. ASSUME NEW t \in Putters, PutStore(t) PROVE Fifo!DoPut(t)
  <2>1. Content' = Append(Content, msg[t]) /\ Stored < Size
    BY <1>4, StoreAppends
  <2>2. /\ CallMap' = [CallMap EXCEPT ![t] = CallOf(t)']
        /\ CallOf(t) = "put" /\ CallOf(t)' = "putDone"
    BY <1>4, CallMoves DEF PutStore, CallOf
  <2> QED
    BY <1>4, <2>1, <2>2, ContentIsSeq DEF Fifo!DoPut, PutStore, CallMap
<1>5. ASSUME NEW t \in Putters, PutAdvance(t) PROVE Stutter
  <2>1. Content' = Content
    BY <1>5, ContentStutter, <1>i
       DEF PutAdvance, Goto, First, Stored, WriterAt, ReaderAt, MboxIInv, TypeOK, Owners,
           WriteHeld, ReadHeld
  <2>2. /\ CallMap' = [CallMap EXCEPT ![t] = CallOf(t)']
        /\ CallOf(t) = "putDone" /\ CallOf(t)' = "putDone"
    BY <1>5, CallMoves DEF PutAdvance, CallOf
  <2> QED
    BY <1>5, <2>1, <2>2 DEF PutAdvance, CallMap
<1>6. ASSUME NEW t \in Putters, PutPost(t) PROVE Stutter
  <2>1. Content' = Content
    BY <1>6, ContentStutter, <1>i
       DEF PutPost, Goto, First, Stored, WriterAt, ReaderAt, MboxIInv, TypeOK, Owners,
           WriteHeld, ReadHeld
  <2>2. /\ CallMap' = [CallMap EXCEPT ![t] = CallOf(t)']
        /\ CallOf(t) = "putDone" /\ CallOf(t)' = "putDone"
    BY <1>6, CallMoves DEF PutPost, CallOf
  <2> QED
    BY <1>6, <2>1, <2>2 DEF PutPost, CallMap
<1>7. ASSUME NEW t \in Putters, PutUnlock(t) PROVE Fifo!Return(t)
  <2>1. Content' = Content
    BY <1>7, ContentStutter
       DEF PutUnlock, Goto, First, Stored, WriterAt, ReaderAt, MboxIInv, TypeOK, Owners,
           WriteHeld, ReadHeld
  <2>2. /\ CallMap' = [CallMap EXCEPT ![t] = CallOf(t)']
        /\ CallOf(t) = "putDone" /\ CallOf(t)' = "none"
    BY <1>7, CallMoves DEF PutUnlock, CallOf
  <2> QED
    BY <1>7, <2>1, <2>2 DEF Fifo!Return, PutUnlock, CallMap
<1>8. ASSUME NEW t \in Getters, GetCall(t) PROVE Fifo!CallGet(t)
  <2>1. Content' = Content
    BY <1>8, ContentStutter
       DEF GetCall, Goto, First, Stored, WriterAt, ReaderAt, MboxIInv, TypeOK, Owners,
           WriteHeld, ReadHeld
  <2>2. /\ CallMap' = [CallMap EXCEPT ![t] = CallOf(t)']
        /\ CallOf(t) = "none" /\ CallOf(t)' = "get"
    BY <1>8, CallMoves DEF GetCall, CallOf
  <2> QED
    BY <1>8, <2>1, <2>2 DEF Fifo!CallGet, GetCall, CallMap
<1>9. ASSUME NEW t \in Getters, GetLock(t) PROVE Stutter
  <2>1. Content' = Content
    BY <1>9, ContentStutter, <1>i
       DEF GetLock, Goto, First, Stored, WriterAt, ReaderAt, MboxIInv, TypeOK, Owners,
           WriteHeld, ReadHeld
  <2>2. /\ CallMap' = [CallMap EXCEPT ![t] = CallOf(t)']
        /\ CallOf(t) = "get" /\ CallOf(t)' = "get"
    BY <1>9, CallMoves DEF GetLock, CallOf
  <2> QED
    BY <1>9, <2>1, <2>2 DEF GetLock, CallMap
<1>10. ASSUME NEW t \in Getters, GetWait(t) PROVE Stutter
  <2>1. Content' = Content
    BY <1>10, ContentStutter, <1>i
       DEF GetWait, Goto, First, Stored, WriterAt, ReaderAt, MboxIInv, TypeOK, Owners,
           WriteHeld, ReadHeld
  <2>2. /\ CallMap' = [CallMap EXCEPT ![t] = CallOf(t)']
        /\ CallOf(t) = "get" /\ CallOf(t)' = "get"
    BY <1>10, CallMoves DEF GetWait, CallOf
  <2> QED
    BY <1>10, <2>1, <2>2 DEF GetWait, CallMap
<1>11. ASSUME NEW t \in Getters, GetLoad(t) PROVE Fifo!DoGet(t)
  <2>1. Content # << >> /\ messages[read_idx] = Head(Content) /\ Content' = Tail(Content)
    BY <1>11, LoadTakesHead
  <2>2. /\ CallMap' = [CallMap EXCEPT ![t] = CallOf(t)']
        /\ CallOf(t) = "get" /\ CallOf(t)' = "getDone"
    BY <1>11, CallMoves DEF GetLoad, CallOf
  <2> QED
    BY <1>11, <2>1, <2>2, ContentIsSeq DEF Fifo!DoGet, GetLoad, CallMap
<1>12. ASSUME NEW t \in Getters, GetAdvance(t) PROVE Stutter
  <2>1. Content' = Content
    BY <1>12, ContentStutter, <1>i
       DEF GetAdvance, Goto, First, Stored, WriterAt, ReaderAt, MboxIInv, TypeOK, Owners,
           WriteHeld, ReadHeld
  <2>2. /\ CallMap' = [CallMap EXCEPT ![t] = CallOf(t)']
        /\ CallOf(t) = "getDone" /\ CallOf(t)' = "getDone"
    BY <1>12, CallMoves DEF GetAdvance, CallOf
  <2> QED
    BY <1>12, <2>1, <2>2 DEF GetAdvance, CallMap
<1>13. ASSUME NEW t \in Getters, GetPost(t) PROVE Stutter
  <2>1. Content' = Content
    BY <1>13, ContentStutter, <1>i
       DEF GetPost, Goto, First, Stored, WriterAt, ReaderAt, MboxIInv, TypeOK, Owners,
           WriteHeld, ReadHeld
  <2>2. /\ CallMap' = [CallMap EXCEPT ![t] = CallOf(t)']
        /\ CallOf(t) = "getDone" /\ CallOf(t)' = "getDone"
    BY <1>13, CallMoves DEF GetPost, CallOf
  <2> QED
    BY <1>13, <2>1, <2>2 DEF GetPost, CallMap
<1>14. ASSUME NEW t \in Getters, GetUnlock(t) PROVE Fifo!Return(t)
  <2>1. Content' = Content
    BY <1>14, ContentStutter
       DEF GetUnlock, Goto, First, Stored, WriterAt, ReaderAt, MboxIInv, TypeOK, Owners,
           WriteHeld, ReadHeld
  <2>2. /\ CallMap' = [CallMap EXCEPT ![t] = CallOf(t)']
        /\ CallOf(t) = "getDone" /\ CallOf(t)' = "none"
    BY <1>14, CallMoves DEF GetUnlock, CallOf
  <2> QED
    BY <1>14, <2>1, <2>2 DEF Fifo!Return, GetUnlock, CallMap
<1>15. CASE UNCHANGED mboxVars
  <2>1. Content' = Content
    BY <1>15, ContentStutter DEF mboxVars, First, Stored, WriterAt, ReaderAt, Succ
  <2>2. CallMap' = CallMap
    BY <1>15 DEF mboxVars, CallMap, CallOf
  <2> QED
    BY <1>15, <1>s, <2>1, <2>2 DEF mboxVars
<1> QED
  BY <1>s, <1>1, <1>2, <1>3, <1>4, <1>5, <1>6, <1>7, <1>8, <1>9, <1>10, <1>11,
     <1>12, <1>13, <1>14, <1>15 DEF MboxNext, mbox_put, mbox_get

\* Mbox implements BoundedFifo: no interleaving of mbox_put and mbox_get loses,
\* duplicates, reorders or overwrites a message, whatever the size of the ring
\* and however many threads share it.
THEOREM Refinement == MboxSpec => RefinesFifo
<1>1. MboxSpec => Fifo!FifoInit /\ [][Fifo!FifoNext]_(Fifo!fifoVars)
  BY MboxInvariance, InitImplements, StepImplements, PTL DEF MboxSpec
<1> QED
  BY <1>1 DEF RefinesFifo, Fifo!FifoSpec

-----------------------------------------------------------------------------
(* The ring to the network on chip *)

HIDE MboxAssumption
USE NocRingAssumption

\* Senders between packetListAdd and sem_post.
Adding == {s \in Senders : sender[s] = "added"}
Taken == IF pc.packet \in {"timer", "pointers"} THEN 1 ELSE 0

\* While main has not created the packet thread, there is none.
Unborn == {"control", "interface", "exchange", "timer", "packet"}

\* A function on the threads: the program counters.
OnThreads(p) == p = [t \in Threads |-> p[t]]

IInv ==
  /\ packetsToProcess \in Seq(Packets)
  /\ processOnePacketSem \in Nat
  /\ sender \in [Senders -> {"idle", "added"}]
  /\ OnThreads(pc)
  /\ pc.main \in Unborn => pc.packet = "unborn"
  /\ processOnePacketSem + Taken + Cardinality(Adding) <= Len(packetsToProcess)

\* The number of adding senders is a number, and a step of one sender changes
\* it by one.
LEMMA AddingCount ==
  ASSUME NEW S \in SUBSET Senders
  PROVE  /\ Cardinality(S) \in Nat
         /\ \A s \in Senders \ S : Cardinality(S \union {s}) = Cardinality(S) + 1
         /\ \A s \in S : Cardinality(S \ {s}) = Cardinality(S) - 1
<1>1. IsFiniteSet(S)
  BY FS_Subset
<1> QED
  BY <1>1, FS_CardinalityType, FS_AddElement, FS_RemoveElement

-----------------------------------------------------------------------------
\* A step that leaves the list, the semaphore and the senders alone, and does not
\* take the packet thread to the use of a credit.
LEMMA QuietStep ==
  ASSUME IInv,
         UNCHANGED <<packetsToProcess, processOnePacketSem, sender>>,
         OnThreads(pc'),
         pc'.packet \in {"timer", "pointers"} => pc.packet \in {"timer", "pointers"},
         pc'.main \in Unborn => pc'.packet = "unborn"
  PROVE  IInv'
<1>1. Adding' = Adding /\ Cardinality(Adding) \in Nat
  BY AddingCount DEF Adding
<1>2. Taken \in Nat /\ Taken' \in Nat /\ Taken' <= Taken
  BY DEF Taken
<1> QED
  BY <1>1, <1>2 DEF IInv

\* Where a step takes one thread.
LEMMA GoesType ==
  ASSUME NEW p, OnThreads(p), NEW t \in Threads, NEW to
  PROVE  /\ OnThreads(Goes(p, t, to))
         /\ Goes(p, t, to)[t] = to
         /\ \A u \in Threads \ {t} : Goes(p, t, to)[u] = p[u]
BY DEF Goes, OnThreads

LEMMA GoType ==
  ASSUME IInv, NEW t \in Threads, NEW to
  PROVE  /\ OnThreads(Go(t, to))
         /\ Go(t, to)[t] = to
         /\ \A u \in Threads \ {t} : Go(t, to)[u] = pc[u]
BY GoesType DEF IInv, Go

LEMMA PacketGo ==
  ASSUME IInv, NEW to
  PROVE  /\ OnThreads(Go("packet", to))
         /\ Go("packet", to).main = pc.main
         /\ Go("packet", to).packet = to
BY DEF IInv, OnThreads, Go, Goes, Threads, Workers

\* A signal wakes a sleeper, which is not among the places the invariant names.
LEMMA SignalType ==
  ASSUME NEW p, OnThreads(p), NEW t \in Threads, NEW a, NEW w,
         a \notin {"timer", "pointers", "unborn"}, w \notin {"timer", "pointers", "unborn"},
         t # "main"
  PROVE  /\ OnThreads(Signal(p, t, a, w))
         /\ Signal(p, t, a, w).main = p.main
         /\ Signal(p, t, a, w).packet \in {"timer", "pointers"} <=> p.packet \in {"timer", "pointers"}
         /\ p.packet = "unborn" => Signal(p, t, a, w).packet = "unborn"
         /\ t # "packet" => Signal(p, t, a, w).packet = p.packet
BY DEF OnThreads, Signal, Threads, Workers

\* The threads that run beside the packet thread.
LEMMA OthersStep ==
  ASSUME IInv,
         \/ InitFails \/ reconosNoCStop \/ ControlThread \/ TimerThread
         \/ ExchangeThread \/ HardwareThread \/ Spurious
         \/ createSw2HwInterface \/ createHw2SwInterface
  PROVE  IInv'
<1> USE DEF queue, Threads, Workers, At
<1>t. /\ OnThreads(pc)
      /\ pc.main \in Unborn => pc.packet = "unborn"
  BY DEF IInv
<1>1. CASE InitFails \/ reconosNoCStop \/ createHw2SwInterface
  BY <1>1, <1>t, QuietStep, GoType DEF InitFails, reconosNoCStop, createHw2SwInterface, Unborn, Creates
<1>2. CASE createSw2HwInterface
  BY <1>2, <1>t, QuietStep, GoType DEF createSw2HwInterface, Unborn, Go, Goes, OnThreads
<1>3. CASE ControlThread
  BY <1>3, <1>t, QuietStep, GoType DEF ControlThread, ControlStart, ControlCancel, ControlJoin, Unborn
<1>4. CASE TimerThread
  <2>1. /\ UNCHANGED <<packetsToProcess, processOnePacketSem, sender>>
        /\ \E to : pc' = Go("timer", to)
                           \/ pc' = Signal(Go("timer", to), "exchange", "wait", "woken")
    BY <1>4 DEF TimerThread, TimerTest, Timeout, TimerFired, TimerDelegates, TimerGoes
  <2> QED
    BY <2>1, <1>t, QuietStep, GoType, SignalType
<1>5. CASE ExchangeThread
  <2>1. /\ UNCHANGED <<packetsToProcess, processOnePacketSem, sender>>
        /\ \E to :
             \/ pc' = Go("exchange", to)
             \/ pc' = Goes(Signal(pc, "packet", "full", "woken"), "exchange", to)
    BY <1>5 DEF ExchangeThread, ExchangeTest, ExchangeWoken, ExchangePut, ExchangeGet, ExchangeReply,
                ExchangeLoop, Go
  <2>2. PICK to : \/ pc' = Go("exchange", to)
                             \/ pc' = Goes(Signal(pc, "packet", "full", "woken"), "exchange", to)
    BY <2>1
  <2>3. CASE pc' = Go("exchange", to)
    BY <2>1, <2>3, <1>t, QuietStep, GoType
  <2>4. CASE pc' = Goes(Signal(pc, "packet", "full", "woken"), "exchange", to)
    <3>1. DEFINE p == Signal(pc, "packet", "full", "woken")
    <3>2. /\ OnThreads(p) /\ p.main = pc.main
          /\ p.packet \in {"timer", "pointers"} <=> pc.packet \in {"timer", "pointers"}
          /\ pc.packet = "unborn" => p.packet = "unborn"
      BY <1>t, SignalType
    <3> HIDE DEF p
    <3>3. pc' = Goes(p, "exchange", to)
      BY <2>4 DEF p
    <3>4. OnThreads(pc') /\ pc'.main = p.main /\ pc'.packet = p.packet
      BY <3>2, <3>3, GoesType
    <3> QED
      BY <2>1, <3>2, <3>4, <1>t, QuietStep
  <2> QED
    BY <2>2, <2>3, <2>4
<1>6. CASE HardwareThread
  <2>1. /\ UNCHANGED <<packetsToProcess, processOnePacketSem, sender>>
        /\ \E to : pc' = Go("hwt", to)
    BY <1>6 DEF HardwareThread, HwtInit, HwtGetAddr, HwtRead, HwtAck
  <2> QED
    BY <2>1, <1>t, QuietStep, GoType
<1>7. CASE Spurious
  <2>1. /\ UNCHANGED <<packetsToProcess, processOnePacketSem, sender>>
        /\ \/ pc' = Go("timer", "lock") \/ pc' = Go("timer", "fired") \/ pc' = Go("exchange", "woken")
           \/ pc.packet = "full" /\ pc' = Go("packet", "woken")
    BY <1>7 DEF Spurious, Sleeps
  <2>2. CASE pc.packet = "full" /\ pc' = Go("packet", "woken")
    BY <2>1, <2>2, <1>t, QuietStep, GoType
  <2> QED
    BY <2>1, <2>2, <1>t, QuietStep, GoType
<1>8. CASE createSw2HwInterface \/ createHw2SwInterface
  BY <1>8, <1>1, <1>2
<1> QED
  BY <1>1, <1>3, <1>4, <1>5, <1>6, <1>7, <1>8


LEMMA MainAndCancelStep ==
  ASSUME IInv, CreateThread \/ \E t \in Workers : Cancelled(t)
  PROVE  IInv'
<1> USE DEF queue, Threads, Workers, At
<1>t. /\ OnThreads(pc)
      /\ pc.main \in Unborn => pc.packet = "unborn"
  BY DEF IInv
<1>1. CASE CreateThread
  <2>1. /\ UNCHANGED <<packetsToProcess, processOnePacketSem, sender>>
        /\ \/ pc.main = "control" /\ pc' = Goes(Go("main", "interface"), "control", "start")
           \/ pc.main = "exchange" /\ pc' = Goes(Go("main", "timer"), "exchange", "lock")
           \/ pc.main = "timer" /\ pc' = Goes(Go("main", "packet"), "timer", "begin")
           \/ pc.main = "packet" /\ pc' = Goes(Go("main", "hw2sw"), "packet", "sem")
    BY <1>1 DEF CreateThread, Creates
  <2>2. ASSUME NEW to, NEW t \in {"control", "exchange", "timer"}, NEW at,
               pc' = Goes(Go("main", to), t, at), pc.main \in Unborn
        PROVE  IInv'
    BY <2>1, <2>2, <1>t, QuietStep, GoType, GoesType
  <2>3. CASE pc.main = "packet" /\ pc' = Goes(Go("main", "hw2sw"), "packet", "sem")
    BY <2>1, <2>3, <1>t, QuietStep, GoType, GoesType DEF Unborn
  <2> QED
    BY <2>1, <2>2, <2>3 DEF Unborn
<1>2. ASSUME NEW t \in Workers, Cancelled(t) PROVE IInv'
  <2>1. /\ pc' = Go(t, "ended")
        /\ UNCHANGED <<packetsToProcess, processOnePacketSem, sender>>
        /\ t = "packet" => pc.packet \in {"sem", "put", "get", "full"}
    BY <1>2 DEF Cancelled
  <2>2. CASE t = "packet"
    <3>1. /\ OnThreads(pc') /\ pc'.main = pc.main /\ pc'.packet = "ended"
          /\ pc.packet \notin {"timer", "pointers", "unborn"}
      BY <2>1, <2>2, PacketGo
    <3> QED
      BY <2>1, <3>1, <1>t, QuietStep
  <2>3. CASE t # "packet"
    <3>1. /\ OnThreads(pc') /\ pc'.main = pc.main /\ pc'.packet = pc.packet
      BY <2>1, <2>3, GoType
    <3> QED
      BY <2>1, <3>1, <1>t, QuietStep
  <2> QED
    BY <2>2, <2>3
<1> QED
  BY <1>1, <1>2

\* A sender adds an element, then posts its credit.
LEMMA SendersStep ==
  ASSUME IInv, NEW s \in Senders, reconosNoCSendPacket(s)
  PROVE  IInv'
<1> USE DEF queue
<1>0. Adding \in SUBSET Senders
  BY DEF Adding
<1>1. CASE packetListAdd(s)
  <2>1. /\ s \in Senders \ Adding /\ Adding' = Adding \union {s}
        /\ sender' \in [Senders -> {"idle", "added"}]
    BY <1>1 DEF packetListAdd, Adding, IInv
  <2>2. Cardinality(Adding') = Cardinality(Adding) + 1
    BY <2>1, <1>0, AddingCount
  <2>3. PICK p \in Packets : packetsToProcess' = Append(packetsToProcess, p)
    BY <1>1 DEF packetListAdd
  <2>4. packetsToProcess' \in Seq(Packets) /\ Len(packetsToProcess') = Len(packetsToProcess) + 1
    BY <2>3 DEF IInv
  <2>5. pc' = pc /\ processOnePacketSem' = processOnePacketSem /\ Taken' = Taken /\ Taken \in Nat
    BY <1>1 DEF packetListAdd, Taken
  <2>6. Cardinality(Adding) \in Nat
    BY <1>0, AddingCount
  <2> QED
    BY <2>1, <2>2, <2>4, <2>5, <2>6 DEF IInv
<1>2. CASE SendPost(s)
  <2>1. /\ s \in Adding /\ Adding' = Adding \ {s}
        /\ sender' \in [Senders -> {"idle", "added"}]
    BY <1>2 DEF SendPost, Adding, IInv
  <2>2. Cardinality(Adding') = Cardinality(Adding) - 1
    BY <2>1, <1>0, AddingCount
  <2>3. /\ processOnePacketSem' = processOnePacketSem + 1
        /\ pc' = pc /\ packetsToProcess' = packetsToProcess /\ Taken' = Taken /\ Taken \in Nat
    BY <1>2 DEF SendPost, Taken
  <2>4. Cardinality(Adding) \in Nat
    BY <1>0, AddingCount
  <2> QED
    BY <2>1, <2>2, <2>3, <2>4 DEF IInv
<1> QED
  BY <1>1, <1>2 DEF reconosNoCSendPacket

\* Delegating the exchange wakes sleepers, and leaves the packet thread where it is.
LEMMA DelegateGoes ==
  ASSUME IInv, NEW to, Delegate(Go("packet", to))
  PROVE  OnThreads(pc') /\ pc'.main = pc.main /\ pc'.packet = to
<1> DEFINE p == Go("packet", to)
           q == Signal(p, "timer", "running", "fired")
<1>1. OnThreads(p) /\ p.main = pc.main /\ p.packet = to
  BY PacketGo
<1>2. \/ pc' = p
      \/ pc' = Signal(p, "timer", "idle", "lock")
      \/ pc' = Signal(p, "exchange", "wait", "woken")
      \/ pc' = Signal(q, "exchange", "wait", "woken")
  BY Zenon DEF Delegate
<1> HIDE DEF p
<1>3. OnThreads(q) /\ q.main = pc.main /\ q.packet = to
  BY <1>1, SignalType DEF Threads, Workers
<1> HIDE DEF q
<1> QED
  BY <1>1, <1>2, <1>3, SignalType DEF Threads, Workers

\* The packet thread takes a credit, and an element for it.
LEMMA PacketStep ==
  ASSUME IInv, PacketThread
  PROVE  IInv'
<1> USE DEF queue, Threads, Workers, At
<1>t. /\ OnThreads(pc)
      /\ pc.main \in Unborn => pc.packet = "unborn"
      /\ sender' = sender => Adding' = Adding
      /\ Cardinality(Adding) \in Nat
  BY AddingCount DEF IInv, Adding
<1>1. CASE PacketWait
  <2>1. /\ OnThreads(pc') /\ pc'.main = pc.main
        /\ pc.packet = "sem" /\ pc'.packet = "timer"
    BY <1>1, <1>t, PacketGo DEF PacketWait
  <2>2. Taken = 0 /\ Taken' = 1
    BY <2>1 DEF Taken
  <2>3. /\ processOnePacketSem > 0 /\ processOnePacketSem' = processOnePacketSem - 1
        /\ UNCHANGED <<sender, packetsToProcess>>
    BY <1>1 DEF PacketWait
  <2> QED
    BY <2>1, <2>2, <2>3, <1>t DEF IInv
<1>2. CASE PacketLockTimer
  BY <1>2, <1>t, QuietStep, PacketGo DEF PacketLockTimer
<1>3. CASE PacketPoll
  <2>1. pc.packet = "pointers" /\ Taken = 1
    BY <1>3 DEF PacketPoll, Taken
  <2>2. packetsToProcess # <<>>
    BY <2>1, <1>t DEF IInv
  <2>3. /\ packetsToProcess' = Tail(packetsToProcess)
        /\ UNCHANGED <<sender, processOnePacketSem>>
        /\ pc' = Go("packet", "write") \/ pc' = Go("packet", "full")
    BY <1>3, <2>2 DEF PacketPoll, packetListPoll
  <2>4. packetsToProcess' \in Seq(Packets) /\ Len(packetsToProcess') = Len(packetsToProcess) - 1
    BY <2>2, <2>3 DEF IInv
  <2>5. /\ OnThreads(pc') /\ pc'.main = pc.main
        /\ pc'.packet \in {"write", "full"}
    BY <2>3, PacketGo
  <2>6. Taken' = 0
    BY <2>5 DEF Taken
  <2>7. pc.main \notin Unborn
    BY <2>1, <1>t
  <2> QED
    BY <2>1, <2>3, <2>4, <2>5, <2>6, <2>7, <1>t DEF IInv
<1>4. CASE PacketRoom
  BY <1>4, <1>t, QuietStep, PacketGo DEF PacketRoom
<1>5. CASE PacketWrite
  <2>1. /\ UNCHANGED <<packetsToProcess, processOnePacketSem, sender>>
        /\ pc.packet = "write" /\ Delegate(Go("packet", "sem"))
    BY <1>5 DEF PacketWrite
  <2>2. OnThreads(pc') /\ pc'.main = pc.main /\ pc'.packet = "sem"
    BY <2>1, DelegateGoes
  <2> QED
    BY <2>1, <2>2, <1>t, QuietStep
<1> QED
  BY <1>1, <1>2, <1>3, <1>4, <1>5 DEF PacketThread

\* A thread that a cancellation ends at a text it prints gives its credit up.
LEMMA CutStep ==
  ASSUME IInv, CutShort
  PROVE  IInv'
<1> USE DEF queue, Threads, Workers
<1>t. /\ OnThreads(pc)
      /\ pc.main \in Unborn => pc.packet = "unborn"
  BY DEF IInv
<1>0. UNCHANGED <<packetsToProcess, processOnePacketSem, sender>>
  BY DEF CutShort
<1>1. CASE PacketCut
  <2>1. /\ pc.packet \in {"timer", "pointers", "write"}
        /\ pc' = Go("packet", "ended") \/ Delegate(Go("packet", "ended"))
    BY <1>1 DEF PacketCut
  <2>2. OnThreads(pc') /\ pc'.main = pc.main /\ pc'.packet = "ended"
    BY <2>1, PacketGo, DelegateGoes
  <2> QED
    BY <2>1, <2>2, <1>0, <1>t, QuietStep
<1>2. CASE TimerCut
  <2>1. \/ pc' = Go("timer", "ended")
        \/ pc' = Signal(Go("timer", "ended"), "exchange", "wait", "woken")
    BY <1>2 DEF TimerCut
  <2> QED
    BY <2>1, <1>0, <1>t, QuietStep, GoType, SignalType
<1>3. CASE ExchangeCut \/ FetchCut
  <2>1. \/ pc' = Go("exchange", "ended")
        \/ pc' = Signal(Go("exchange", "ended"), "packet", "full", "woken")
    BY <1>3 DEF ExchangeCut, FetchCut
  <2>2. CASE pc' = Go("exchange", "ended")
    BY <2>2, <1>0, <1>t, QuietStep, GoType
  <2>3. CASE pc' = Signal(Go("exchange", "ended"), "packet", "full", "woken")
    <3> DEFINE p == Go("exchange", "ended")
    <3>1. OnThreads(p) /\ p.main = pc.main /\ p.packet = pc.packet
      BY <1>t, GoType
    <3> HIDE DEF p
    <3>2. pc' = Signal(p, "packet", "full", "woken")
      BY <2>3 DEF p
    <3>3. /\ OnThreads(pc') /\ pc'.main = p.main
          /\ pc'.packet \in {"timer", "pointers"} <=> p.packet \in {"timer", "pointers"}
          /\ p.packet = "unborn" => pc'.packet = "unborn"
      BY <3>1, <3>2, SignalType
    <3> QED
      BY <3>1, <3>3, <1>0, <1>t, QuietStep
  <2> QED
    BY <2>1, <2>2, <2>3
<1> QED
  BY <1>1, <1>2, <1>3 DEF CutShort

LEMMA StepInv == IInv /\ [Next]_vars => IInv'
<1> SUFFICES ASSUME IInv, [Next]_vars PROVE IInv'
  OBVIOUS
<1>1. CASE UNCHANGED vars
  BY <1>1 DEF vars, queue, IInv, Taken, Adding
<1> QED
  BY <1>1, OthersStep, MainAndCancelStep, SendersStep, PacketStep, CutStep DEF Next, reconosNoCInit

LEMMA InitInv == Init => IInv
<1> SUFFICES ASSUME Init PROVE IInv
  OBVIOUS
<1>1. Adding = {} /\ Cardinality(Adding) = 0
  BY FS_EmptySet DEF Init, Adding
<1>2. Taken = 0 /\ pc.packet = "unborn"
  BY DEF Init, Taken, Threads, Workers
<1>3. packetsToProcess \in Seq(Packets) /\ Len(packetsToProcess) = 0
  BY DEF Init
<1>4. OnThreads(pc) /\ sender \in [Senders -> {"idle", "added"}]
  BY DEF Init, OnThreads
<1> QED
  BY <1>1, <1>2, <1>3, <1>4 DEF Init, IInv

\* The packet thread finds an element for every credit: packetListPoll never
\* reports ENODATA, which would end the thread and with it the interface.
THEOREM PollAlwaysFinds == Spec => []PollFinds
<1>1. IInv => PollFinds
  <2> SUFFICES ASSUME IInv PROVE PollFinds
    OBVIOUS
  <2>1. Cardinality(Adding) \in Nat
    BY AddingCount DEF Adding
  <2> QED
    BY <2>1 DEF IInv, PollFinds, Taken
<1> QED
  BY <1>1, InitInv, StepInv, PTL DEF Spec

-----------------------------------------------------------------------------
(* The data in the ring *)

\* A thread that has ended stays so, unless main creates it, and main does not
\* return to where it creates threads.
Onward(p, q) ==
  /\ q.main \in Unborn => p.main \in Unborn
  /\ p.packet = "ended" => q.packet = "ended"
  /\ p.timer = "ended" => q.timer = "ended"

LEMMA GoOnward ==
  ASSUME NEW p, OnThreads(p), NEW t \in Threads, NEW to,
         t = "main" => p.main \in Unborn \/ to \notin Unborn,
         t \in {"packet", "timer"} => p[t] # "ended" \/ to = "ended"
  PROVE  OnThreads(Goes(p, t, to)) /\ Onward(p, Goes(p, t, to))
BY GoesType DEF Onward, Threads, Workers

LEMMA SignalOnward ==
  ASSUME NEW p, OnThreads(p), NEW t \in Threads \ {"main"}, NEW a, NEW w, a # "ended"
  PROVE  OnThreads(Signal(p, t, a, w)) /\ Onward(p, Signal(p, t, a, w))
BY DEF Onward, Signal, OnThreads, Threads, Workers

LEMMA OnwardTwice ==
  ASSUME NEW p, NEW q, NEW r, Onward(p, q), Onward(q, r)
  PROVE  Onward(p, r)
BY DEF Onward

\* The two forms a step of one thread has: it goes on, and it wakes another.
LEMMA GoAndSignal ==
  ASSUME IInv, NEW t \in Threads, NEW to, NEW u \in Threads \ {"main"}, NEW a, NEW w, a # "ended",
         t = "main" => pc.main \in Unborn \/ to \notin Unborn,
         t \in {"packet", "timer"} => pc[t] # "ended" \/ to = "ended"
  PROVE  /\ OnThreads(Go(t, to)) /\ Onward(pc, Go(t, to))
         /\ Onward(pc, Signal(Go(t, to), u, a, w))
<1>1. OnThreads(pc)
  BY DEF IInv
<1>2. OnThreads(Go(t, to)) /\ Onward(pc, Go(t, to))
  BY <1>1, GoOnward DEF Go
<1> QED
  BY <1>2, SignalOnward, OnwardTwice

LEMMA DelegateOnward ==
  ASSUME IInv, NEW to, Delegate(Go("packet", to)), pc.packet # "ended" \/ to = "ended"
  PROVE  Onward(pc, pc')
<1> DEFINE p == Go("packet", to)
           q == Signal(p, "timer", "running", "fired")
<1>1. OnThreads(p) /\ Onward(pc, p)
  BY GoOnward DEF IInv, Go, Threads, Workers
<1>2. \/ pc' = p
      \/ pc' = Signal(p, "timer", "idle", "lock")
      \/ pc' = Signal(p, "exchange", "wait", "woken")
      \/ pc' = Signal(q, "exchange", "wait", "woken")
  BY Zenon DEF Delegate
<1> HIDE DEF p
<1>3. OnThreads(q) /\ Onward(pc, q)
  BY <1>1, SignalOnward, OnwardTwice DEF Threads, Workers
<1> HIDE DEF q
<1>4. /\ Onward(pc, Signal(p, "timer", "idle", "lock"))
      /\ Onward(pc, Signal(p, "exchange", "wait", "woken"))
      /\ Onward(pc, Signal(q, "exchange", "wait", "woken"))
  BY <1>1, <1>3, SignalOnward, OnwardTwice DEF Threads, Workers
<1> QED
  BY <1>1, <1>2, <1>4

LEMMA NextOnward ==
  ASSUME IInv, Next, ~CreateThread
  PROVE  Onward(pc, pc')
<1> USE DEF At
<1>t. OnThreads(pc)
  BY DEF IInv
<1>h. {"main", "control", "exchange", "timer", "packet", "hwt"} = Threads
  BY DEF Threads, Workers
<1>1. CASE reconosNoCInit \/ InitFails \/ reconosNoCStop
  <2>1. CASE createSw2HwInterface
    <3>1. pc.main \in Unborn /\ pc' = Goes(Go("main", "exchange"), "hwt", "init")
      BY <2>1 DEF createSw2HwInterface, Unborn
    <3>2. OnThreads(Go("main", "exchange")) /\ Onward(pc, Go("main", "exchange"))
      BY <3>1, <1>h, <1>t, GoOnward DEF Go
    <3> QED
      BY <3>1, <3>2, <1>h, GoOnward, OnwardTwice
  <2>2. CASE createHw2SwInterface \/ InitFails \/ reconosNoCStop
    <3>1. \E to : pc' = Go("main", to) /\ to \notin Unborn
      BY <2>2 DEF createHw2SwInterface, InitFails, reconosNoCStop, Unborn
    <3> QED
      BY <3>1, <1>h, <1>t, GoOnward DEF Go
  <2> QED
    BY <1>1, <2>1, <2>2 DEF reconosNoCInit
<1>2. CASE ControlThread
  <2>1. \/ \E to : pc' = Go("control", to)
        \/ pc' = Go("main", "exit")
    BY <1>2 DEF ControlThread, ControlStart, ControlCancel, ControlJoin
  <2> QED
    BY <2>1, <1>h, <1>t, GoOnward DEF Go, Unborn
<1>3. ASSUME NEW t \in Workers, Cancelled(t) PROVE Onward(pc, pc')
  <2>1. pc' = Go(t, "ended")
    BY <1>3 DEF Cancelled
  <2> QED
    BY <2>1, <1>3, <1>h, <1>t, GoOnward DEF Go, Workers
<1>4. CASE CutShort
  <2>1. CASE PacketCut
    <3>1. pc' = Go("packet", "ended") \/ Delegate(Go("packet", "ended"))
      BY <2>1 DEF PacketCut
    <3> QED
      BY <3>1, <1>h, <1>t, GoOnward, DelegateOnward DEF Go
  <2>2. CASE TimerCut
    <3>1. \/ pc' = Go("timer", "ended")
          \/ pc' = Signal(Go("timer", "ended"), "exchange", "wait", "woken")
      BY <2>2 DEF TimerCut
    <3> QED
      BY <3>1, <1>h, GoAndSignal
  <2>3. CASE ExchangeCut \/ FetchCut
    <3>1. \/ pc' = Go("exchange", "ended")
          \/ pc' = Signal(Go("exchange", "ended"), "packet", "full", "woken")
      BY <2>3 DEF ExchangeCut, FetchCut
    <3> QED
      BY <3>1, <1>h, GoAndSignal
  <2> QED
    BY <1>4, <2>1, <2>2, <2>3 DEF CutShort
<1>5. ASSUME NEW s \in Senders, reconosNoCSendPacket(s) PROVE Onward(pc, pc')
  BY <1>5 DEF reconosNoCSendPacket, packetListAdd, SendPost, Onward
<1>6. CASE PacketThread
  <2>1. /\ pc.packet # "ended"
        /\ (\E to : pc' = Go("packet", to)) \/ Delegate(Go("packet", "sem"))
    BY <1>6 DEF PacketThread, PacketWait, PacketLockTimer, PacketPoll, PacketRoom, PacketWrite
  <2> QED
    BY <2>1, <1>h, <1>t, GoOnward, DelegateOnward DEF Go
<1>7. CASE TimerThread
  <2>1. /\ pc.timer # "ended"
        /\ \E to : pc' = Go("timer", to) \/ pc' = Signal(Go("timer", to), "exchange", "wait", "woken")
    BY <1>7 DEF TimerThread, TimerTest, Timeout, TimerFired, TimerDelegates, TimerGoes
  <2> QED
    BY <2>1, <1>h, GoAndSignal
<1>8. CASE ExchangeThread
  <2>1. \E to : \/ pc' = Go("exchange", to)
                \/ pc' = Goes(Signal(pc, "packet", "full", "woken"), "exchange", to)
    BY <1>8 DEF ExchangeThread, ExchangeTest, ExchangeWoken, ExchangePut, ExchangeGet, ExchangeReply,
                ExchangeLoop, Go
  <2> DEFINE p == Signal(pc, "packet", "full", "woken")
  <2>2. OnThreads(p) /\ Onward(pc, p)
    BY <1>t, <1>h, SignalOnward
  <2> HIDE DEF p
  <2>3. \E to : pc' = Goes(pc, "exchange", to) \/ pc' = Goes(p, "exchange", to)
    BY <2>1 DEF p, Go
  <2> QED
    BY <2>2, <2>3, <1>h, <1>t, GoOnward, OnwardTwice
<1>9. CASE HardwareThread
  <2>1. \E to : pc' = Go("hwt", to)
    BY <1>9 DEF HardwareThread, HwtInit, HwtGetAddr, HwtRead, HwtAck
  <2> QED
    BY <2>1, <1>h, <1>t, GoOnward DEF Go
<1>10. CASE Spurious
  <2>1. PICK s \in Sleeps : pc[s[1]] = s[2] /\ pc' = Go(s[1], s[3])
    BY <1>10 DEF Spurious
  <2>2. s[1] \in Threads \ {"main"} /\ s[2] # "ended"
    BY <1>h DEF Sleeps
  <2> QED
    BY <2>1, <2>2, <1>t, GoOnward DEF Go
<1> QED
  BY <1>1, <1>2, <1>3, <1>4, <1>5, <1>6, <1>7, <1>8, <1>9, <1>10 DEF Next, reconosNoCInit

\* While main creates threads the ring is empty.
FreshIInv ==
  /\ IInv
  /\ pc.main \in Unborn => fresh = 0
  /\ FreshGuarded

\* A step that leaves the bytes and the requests for an exchange alone, as most do.
LEMMA FreshQuiet ==
  ASSUME FreshIInv, Onward(pc, pc'),
         fresh' \in {0, fresh},
         writePointerDirty \/ startTimer \/ timerRunning
           => fresh' = 0 \/ writePointerDirty' \/ startTimer' \/ timerRunning'
  PROVE  FreshGuarded' /\ (pc.main \in Unborn => fresh = 0)'
BY DEF FreshIInv, FreshGuarded, Onward

LEMMA FreshWrite ==
  ASSUME FreshIInv, pc.packet = "write", Delegate(Go("packet", "sem")) \/ Delegate(Go("packet", "ended"))
  PROVE  FreshGuarded' /\ (pc.main \in Unborn => fresh = 0)'
<1>1. \/ writePointerDirty' = TRUE
      \/ startTimer' = (startTimer \/ ~timerRunning) /\ timerRunning' = timerRunning
  BY Zenon DEF Delegate
<1>2. startTimer' = (startTimer \/ ~timerRunning) /\ timerRunning' = timerRunning
        => startTimer' \/ timerRunning'
  <2>1. CASE timerRunning
    BY <2>1
  <2>2. CASE ~timerRunning
    BY <2>2
  <2> QED
    BY <2>1, <2>2
<1>3. pc'.main = pc.main /\ pc.main \notin Unborn
  BY DelegateGoes DEF FreshIInv, IInv
<1> QED
  BY <1>1, <1>2, <1>3 DEF FreshGuarded

LEMMA FreshStep == FreshIInv /\ [Next]_vars => FreshIInv'
<1> SUFFICES ASSUME FreshIInv, [Next]_vars PROVE FreshIInv'
  OBVIOUS
<1> USE DEF timer, offsets, bytes
<1>i. IInv /\ IInv'
  BY StepInv DEF FreshIInv
<1>o. Next /\ ~CreateThread => Onward(pc, pc')
  BY <1>i, NextOnward
<1>q. ASSUME Onward(pc, pc'), UNCHANGED <<fresh, writePointerDirty, startTimer, timerRunning>>
      PROVE  FreshIInv'
  BY <1>q, <1>i, FreshQuiet DEF FreshIInv
<1>0. CASE CreateThread
  <2>1. pc.main \in Unborn /\ fresh' = fresh
    BY <1>0 DEF CreateThread, At, Creates, Unborn
  <2> QED
    BY <2>1, <1>i DEF FreshIInv, FreshGuarded
<1>1. CASE ~CreateThread /\ (reconosNoCInit \/ InitFails \/ reconosNoCStop \/ ControlThread)
  <2>1. UNCHANGED <<fresh, writePointerDirty, startTimer, timerRunning>>
    BY <1>1 DEF reconosNoCInit, createSw2HwInterface, createHw2SwInterface,
       InitFails, reconosNoCStop, ControlThread, ControlStart, ControlCancel, ControlJoin
  <2> QED
    BY <2>1, <1>1, <1>o, <1>q DEF Next
<1>2. CASE ~CreateThread /\ \E t \in Workers : Cancelled(t)
  BY <1>2, <1>o, <1>q DEF Cancelled, Next
<1>3. CASE ~CreateThread /\ \E s \in Senders : reconosNoCSendPacket(s)
  BY <1>3, <1>o, <1>q DEF reconosNoCSendPacket, packetListAdd, SendPost, Next
<1>4. CASE ~CreateThread /\ PacketThread
  <2>0. Onward(pc, pc')
    BY <1>4, <1>o DEF Next
  <2>1. CASE PacketWait \/ PacketLockTimer \/ PacketPoll \/ PacketRoom
    BY <2>1, <2>0, <1>q DEF PacketWait, PacketLockTimer, PacketPoll, PacketRoom
  <2>2. CASE PacketWrite
    BY <2>2, <1>i, FreshWrite DEF PacketWrite, At, FreshIInv
  <2> QED
    BY <1>4, <2>1, <2>2 DEF PacketThread
<1>5. CASE ~CreateThread /\ TimerThread
  <2>0. Onward(pc, pc')
    BY <1>5, <1>o DEF Next
  <2>1. CASE TimerTest
    <3>1. fresh' = fresh /\ writePointerDirty' = writePointerDirty
      BY <2>1 DEF TimerTest
    <3>2. startTimer \/ timerRunning => timerRunning'
      BY <2>1, Zenon DEF TimerTest, TimerLoop
    <3> QED
      BY <3>1, <3>2, <2>0, <1>i, FreshQuiet DEF FreshIInv
  <2>2. CASE Timeout
    BY <2>2, <2>0, <1>q DEF Timeout
  <2>3. CASE TimerFired
    <3>1. fresh' = fresh /\ writePointerDirty' = writePointerDirty
      BY <2>3 DEF TimerFired
    <3>2. startTimer \/ timerRunning => startTimer' \/ timerRunning'
      BY <2>3, Zenon DEF TimerFired, TimerLoop
    <3> QED
      BY <3>1, <3>2, <2>0, <1>i, FreshQuiet DEF FreshIInv
  <2>4. CASE TimerDelegates
    BY <2>4, <2>0, <1>i, FreshQuiet DEF TimerDelegates, FreshIInv
  <2> QED
    BY <1>5, <2>1, <2>2, <2>3, <2>4 DEF TimerThread
<1>6. CASE ~CreateThread /\ ExchangeThread
  <2>0. Onward(pc, pc')
    BY <1>6, <1>o DEF Next
  <2>1. /\ fresh' \in {0, fresh}
        /\ fresh' = 0 \/ UNCHANGED <<writePointerDirty, startTimer, timerRunning>>
    BY <1>6 DEF ExchangeThread, ExchangeTest, ExchangeWoken, ExchangePut, ExchangeGet, ExchangeReply,
                ExchangeLoop, Fetch, links
  <2> QED
    BY <2>0, <2>1, <1>i, FreshQuiet DEF FreshIInv
<1>7. CASE ~CreateThread /\ HardwareThread
  <2>1. UNCHANGED <<fresh, writePointerDirty, startTimer, timerRunning>>
    BY <1>7 DEF HardwareThread, HwtInit, HwtGetAddr, HwtRead, HwtAck
  <2> QED
    BY <2>1, <1>7, <1>o, <1>q DEF Next
<1>8. CASE ~CreateThread /\ Spurious
  BY <1>8, <1>o, <1>q DEF Spurious, Next
<1>9. CASE ~CreateThread /\ CutShort
  <2>0. Onward(pc, pc')
    BY <1>9, <1>o DEF Next
  <2>1. CASE PacketCut
    <3>1. CASE pc.packet = "write" /\ (Delegate(Go("packet", "sem")) \/ Delegate(Go("packet", "ended")))
      BY <3>1, <1>i, FreshWrite DEF FreshIInv
    <3>2. CASE pc' = Go("packet", "ended")
      <4>1. pc'.packet = "ended" /\ pc'.main = pc.main /\ pc.packet # "unborn"
        BY <3>2, <2>1, <1>i, PacketGo DEF PacketCut
      <4> QED
        BY <4>1, <1>i DEF FreshIInv, FreshGuarded, IInv
    <3> QED
      BY <2>1, <3>1, <3>2 DEF PacketCut
  <2>2. CASE TimerCut
    <3>1. /\ fresh' = fresh
          /\ \/ pc' = Go("timer", "ended")
             \/ pc' = Signal(Go("timer", "ended"), "exchange", "wait", "woken")
      BY <2>2 DEF TimerCut
    <3>2. Go("timer", "ended").timer = "ended" /\ OnThreads(Go("timer", "ended"))
      BY <1>i, GoType DEF Threads, Workers
    <3>3. pc'.timer = "ended"
      BY <3>1, <3>2, SignalOnward DEF Onward, Threads, Workers
    <3> QED
      BY <3>1, <3>3, <2>0, <1>i DEF FreshIInv, FreshGuarded, Onward
  <2>3. CASE ExchangeCut
    BY <2>3, <2>0, <1>q DEF ExchangeCut
  <2>4. CASE FetchCut
    BY <2>4, <2>0, <1>i, FreshQuiet DEF FetchCut, Fetch, FreshIInv
  <2> QED
    BY <1>9, <2>1, <2>2, <2>3, <2>4 DEF CutShort
<1>10. CASE UNCHANGED vars
  <2>1. Onward(pc, pc')
    BY <1>10 DEF vars, Onward
  <2> QED
    BY <1>10, <2>1, <1>q DEF vars
<1> QED
  BY <1>0, <1>1, <1>2, <1>3, <1>4, <1>5, <1>6, <1>7, <1>8, <1>9, <1>10 DEF Next

\* No packet written to the ring is forgotten: an exchange is asked for or the
\* timer is about to ask, whatever signals of the condition variables are lost,
\* unless the packet or the timer thread was cancelled and has ended.
THEOREM NothingForgotten == Spec => []FreshGuarded
<1>1. Init => FreshIInv
  BY InitInv DEF Init, FreshIInv, FreshGuarded
<1>2. FreshIInv => FreshGuarded
  BY DEF FreshIInv
<1> QED
  BY <1>1, <1>2, FreshStep, PTL DEF Spec

=============================================================================
