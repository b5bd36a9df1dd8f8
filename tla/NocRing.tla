------------------------------- MODULE NocRing -------------------------------
(***************************************************************************)
(* The ring buffer that carries packets from software to the network on    *)
(* chip (reconosNoC.c): senders queue packets, the packet thread writes    *)
(* them to the ring, the pointer exchange thread announces the write       *)
(* offset to the hardware thread and waits for its read offset, and the    *)
(* timer thread bounds how long a packet stays unannounced.  reconosNoC    *)
(* starts and stops the threads.  A step is the code between two points    *)
(* where a thread may wait; the fields a step touches are those its        *)
(* mutexes protect.  A condition variable is the state of the thread that  *)
(* sleeps on it, which a signal, or nothing at all (Spurious), ends.       *)
(* Packet contents are left out: a packet is its length and urgency.       *)
(***************************************************************************)
EXTENDS Integers, Sequences, FiniteSets

CONSTANTS Senders,     \* threads that call reconosNoCSendPacket
          Packets,     \* records [payloadLength, latencyCritical]
          MaxPackets   \* bound: packets sent in a run

ASSUME NocRingAssumption ==
  /\ IsFiniteSet(Senders)
  /\ Packets \subseteq [payloadLength : Nat \ {0}, latencyCritical : BOOLEAN]
  /\ MaxPackets \in Nat

RING_BUFFER_SIZE == 64
HEADER_SIZE == 10
ALMOST_FULL_TRESHOLD == 20
MBOX_SIZE == 4

VARIABLES pc,                   \* where each thread is
          sender,               \* what each sender still has to do
          packetsToProcess, processOnePacketSem, newPacket,
          timerMutex, pointersMutex,          \* their owners
          startTimer, timerRunning, writePointerDirty,
          writeOffset, hwWriteOffset, readOffset,
          mb_put, mb_get, low, high,          \* mailboxes, hardware registers
          canceled,             \* threads that pthread_cancel was called for
          sent, fresh, announced   \* history: packets sent, bytes in the ring
                                   \* not announced, announced but not yet read

\* The packet that hwSwIf.c sends.
DummyPacket == [payloadLength |-> 18, latencyCritical |-> FALSE]

queue == <<sender, packetsToProcess, processOnePacketSem, sent>>
timer == <<startTimer, timerRunning>>
offsets == <<writePointerDirty, writeOffset, hwWriteOffset, readOffset>>
links == <<mb_put, mb_get, low, high>>
bytes == <<fresh, announced>>
mutexes == <<timerMutex, pointersMutex>>
vars == <<pc, queue, newPacket, mutexes, timer, offsets, links, canceled, bytes>>

Workers == {"exchange", "timer", "packet"}
Threads == Workers \cup {"main", "control", "hwt"}
NoPacket == [payloadLength |-> 0, latencyCritical |-> FALSE]

At(t, where) == pc.main # "exit" /\ pc[t] = where

\* A thread goes on at `to`; p is what the other threads do meanwhile.
Goes(p, t, to) == [p EXCEPT ![t] = to]
Go(t, to) == Goes(pc, t, to)

\* pthread_cond_signal on the condition that t sleeps on.
Signal(p, t, asleep, awake) == IF p[t] = asleep THEN [p EXCEPT ![t] = awake] ELSE p

-----------------------------------------------------------------------------
(* reconosNoCInit and reconosNoCStop *)

\* The interface comes from a fresh heap, which is zero: its memset clears the
\* first word only.
Init ==
  /\ pc = [t \in Threads |-> IF t = "main" THEN "control" ELSE "unborn"]
  /\ sender = [s \in Senders |-> "idle"]
  /\ packetsToProcess = <<>> /\ processOnePacketSem = 0 /\ newPacket = NoPacket
  /\ timerMutex = "free" /\ pointersMutex = "free"
  /\ startTimer = FALSE /\ timerRunning = FALSE /\ writePointerDirty = FALSE
  /\ writeOffset = 0 /\ hwWriteOffset = 0 /\ readOffset = 0
  /\ mb_put = <<>> /\ mb_get = <<>> /\ low = 0 /\ high = 0
  /\ canceled = {} /\ sent = 0 /\ fresh = 0 /\ announced = 0

\* What main creates, in which order: threads, then where they begin.
Creates == [control  |-> <<"control", "start", "interface">>,
            exchange |-> <<"exchange", "lock", "timer">>,
            timer    |-> <<"timer", "begin", "packet">>,
            packet   |-> <<"packet", "sem", "hw2sw">>]

CreateThread ==
  \E step \in DOMAIN Creates :
    /\ At("main", step)
    /\ pc' = Goes(Go("main", Creates[step][3]), Creates[step][1], Creates[step][2])
    /\ UNCHANGED <<queue, newPacket, mutexes, timer, offsets, links, canceled, bytes>>

\* The interface is allocated, the hardware thread started and told the base
\* address (0 here), before the worker threads exist.
createSw2HwInterface ==
  /\ At("main", "interface")
  /\ pc' = Goes(Go("main", "exchange"), "hwt", "init")
  /\ mb_put' = Append(mb_put, 0)
  /\ UNCHANGED <<queue, newPacket, mutexes, timer, offsets, mb_get, low, high, canceled, bytes>>

\* The receiving side only has a thread that prints what arrives.
createHw2SwInterface ==
  /\ At("main", "hw2sw")
  /\ pc' = Go("main", "up")
  /\ UNCHANGED <<queue, newPacket, mutexes, timer, offsets, links, canceled, bytes>>

\* A failed allocation or thread creation: main prints it and the process ends.
InitFails ==
  /\ pc.main \in DOMAIN Creates \cup {"interface", "hw2sw"}
  /\ pc' = Go("main", "exit")
  /\ UNCHANGED <<queue, newPacket, mutexes, timer, offsets, links, canceled, bytes>>

\* The control thread reads nocPtr->sw2hwInterface when it starts, which main
\* may not have assigned yet: the memory is not initialised ("wild").
ControlStart ==
  /\ At("control", "start")
  /\ pc' = Go("control", IF pc.main = "interface" THEN "wild" ELSE "ready")
  /\ UNCHANGED <<queue, newPacket, mutexes, timer, offsets, links, canceled, bytes>>

reconosNoCStop ==
  /\ At("main", "up")
  /\ pc' = Go("main", "stopped")
  /\ UNCHANGED <<queue, newPacket, mutexes, timer, offsets, links, canceled, bytes>>

\* basicThreadCleanup has posted the semaphore as well when a thread has ended.
Killed == pc.main = "stopped" \/ \E t \in Workers : pc[t] = "ended"

\* Mutant: the timer thread is not cancelled.
ControlCancelTwo ==
  /\ Killed /\ At("control", "ready")
  /\ canceled' = Workers \ {"timer"} /\ pc' = Go("control", "join")
  /\ UNCHANGED <<queue, newPacket, mutexes, timer, offsets, links, bytes>>

\* pthread_cancel through a wild pointer: a crash, or no thread of this interface.
ControlCancel ==
  /\ Killed
  /\ \/ At("control", "ready") /\ canceled' = Workers /\ pc' = Go("control", "join")
     \/ At("control", "wild") /\ canceled' = canceled
        /\ pc' \in {Go("control", "ended"), Go("main", "exit")}
  /\ UNCHANGED <<queue, newPacket, mutexes, timer, offsets, links, bytes>>

ControlJoin ==
  /\ At("control", "join")
  /\ \A t \in Workers : pc[t] = "ended"
  /\ pc' = Go("control", "ended")
  /\ UNCHANGED <<queue, newPacket, mutexes, timer, offsets, links, canceled, bytes>>

\* Cancellation points outside a condition variable, and those inside one, where
\* the thread has its mutex again when it ends: no cleanup handler unlocks it.
Cancelled(t) ==
  /\ t \in canceled /\ pc.main # "exit"
  /\ \/ pc[t] \in {"sem", "put", "get"} /\ UNCHANGED mutexes
     \/ /\ <<t, pc[t]>> \in {<<"timer", "idle">>, <<"timer", "running">>}
        /\ timerMutex = "free" /\ timerMutex' = t /\ UNCHANGED pointersMutex
     \/ /\ <<t, pc[t]>> \in {<<"exchange", "wait">>, <<"packet", "full">>}
        /\ pointersMutex = "free" /\ pointersMutex' = t /\ UNCHANGED timerMutex
  /\ pc' = Go(t, "ended")
  /\ UNCHANGED <<queue, newPacket, timer, offsets, links, canceled, bytes>>

-----------------------------------------------------------------------------
(* reconosNoCSendPacket *)

\* Mutant: without packetListManipulateMutex an element can be lost.
packetListAddUnlocked(s) ==
  /\ At("main", "up") /\ sender[s] = "idle" /\ sent < MaxPackets
  /\ \E p \in Packets : packetsToProcess' \in {packetsToProcess, Append(packetsToProcess, p)}
  /\ sender' = [sender EXCEPT ![s] = "added"]
  /\ sent' = sent + 1
  /\ UNCHANGED <<pc, processOnePacketSem, newPacket, mutexes, timer, offsets, links, canceled, bytes>>

packetListAdd(s) ==
  /\ At("main", "up") /\ sender[s] = "idle" /\ sent < MaxPackets
  /\ \E p \in Packets : packetsToProcess' = Append(packetsToProcess, p)
  /\ sender' = [sender EXCEPT ![s] = "added"]
  /\ sent' = sent + 1
  /\ UNCHANGED <<pc, processOnePacketSem, newPacket, mutexes, timer, offsets, links, canceled, bytes>>

SendPost(s) ==
  /\ pc.main # "exit" /\ sender[s] = "added"
  /\ processOnePacketSem' = processOnePacketSem + 1
  /\ sender' = [sender EXCEPT ![s] = "idle"]
  /\ UNCHANGED <<pc, packetsToProcess, sent, newPacket, mutexes, timer, offsets, links, canceled, bytes>>

-----------------------------------------------------------------------------
(* sw2hwPacketProcessingThreadMain *)

\* Free space, in the units the code mixes: writeOffset counts bytes, readOffset
\* and hwWriteOffset words.  (% gives what the unsigned arithmetic gives.)
FreeSpace(from) == (RING_BUFFER_SIZE + from - writeOffset - 1) % RING_BUFFER_SIZE
PacketSize(p) == p.payloadLength + HEADER_SIZE + 4
EnoughSpaceForPacket(p) == FreeSpace(readOffset) >= PacketSize(p)

\* The write offset behind a packet: payload that ends at the ring's end leaves
\* the offset there, it is not wrapped to 0; aligning it to a word wraps it.
RoundedUp(n) == ((n + 3) \div 4) * 4
Aligned(n) == IF n % 4 = 0 THEN n ELSE RoundedUp(n) % RING_BUFFER_SIZE
OffsetAfter(p) ==
  LET header == (writeOffset + HEADER_SIZE + 4) % RING_BUFFER_SIZE
      end    == header + p.payloadLength
  IN Aligned(IF end <= RING_BUFFER_SIZE THEN end ELSE end - RING_BUFFER_SIZE)

PacketWait ==
  /\ At("packet", "sem") /\ processOnePacketSem > 0
  /\ processOnePacketSem' = processOnePacketSem - 1
  /\ pc' = Go("packet", "timer")
  /\ UNCHANGED <<sender, packetsToProcess, sent, newPacket, mutexes, timer, offsets, links, canceled, bytes>>

PacketLockTimer ==
  /\ At("packet", "timer") /\ timerMutex = "free"
  /\ timerMutex' = "packet"
  /\ pc' = Go("packet", "pointers")
  /\ UNCHANGED <<queue, newPacket, pointersMutex, timer, offsets, links, canceled, bytes>>

packetListPoll ==
  newPacket' = Head(packetsToProcess) /\ packetsToProcess' = Tail(packetsToProcess)

\* With both mutexes: packetListPoll, then the test for room, an if.  An empty
\* list ends the thread.
PacketPoll ==
  /\ At("packet", "pointers") /\ pointersMutex = "free"
  /\ \/ /\ packetsToProcess = <<>>
        /\ pointersMutex' = "packet" /\ pc' = Go("packet", "ended")
        /\ UNCHANGED <<packetsToProcess, newPacket>>
     \/ /\ packetsToProcess # <<>>
        /\ packetListPoll
        /\ \/ EnoughSpaceForPacket(newPacket')
              /\ pointersMutex' = "packet" /\ pc' = Go("packet", "write")
           \/ ~EnoughSpaceForPacket(newPacket')
              /\ UNCHANGED pointersMutex /\ pc' = Go("packet", "full")
  /\ UNCHANGED <<sender, processOnePacketSem, sent, timerMutex, timer, offsets, links, canceled, bytes>>

PacketRoom ==
  /\ At("packet", "woken") /\ pointersMutex = "free"
  /\ pointersMutex' = "packet"
  /\ pc' = Go("packet", "write")
  /\ UNCHANGED <<queue, newPacket, timerMutex, timer, offsets, links, canceled, bytes>>

\* Write the packet and delegate the exchange: at once, with the timer stopped,
\* or by the timer.  Both mutexes are released.
IsAlmostFull == (RING_BUFFER_SIZE + hwWriteOffset - writeOffset' - 1) % RING_BUFFER_SIZE
                  < ALMOST_FULL_TRESHOLD

PacketToRing ==
  /\ writeOffset' = OffsetAfter(newPacket)
  /\ fresh' = fresh + RoundedUp(PacketSize(newPacket))

Delegate(next) ==
  \/ /\ newPacket.latencyCritical \/ IsAlmostFull
     /\ timerRunning' = FALSE /\ startTimer' = FALSE /\ writePointerDirty' = TRUE
     /\ pc' = Signal(IF timerRunning THEN Signal(next, "timer", "running", "fired") ELSE next,
                     "exchange", "wait", "woken")
  \/ /\ ~(newPacket.latencyCritical \/ IsAlmostFull)
     /\ startTimer' = (startTimer \/ ~timerRunning)
     /\ pc' = IF timerRunning THEN next ELSE Signal(next, "timer", "idle", "lock")
     /\ UNCHANGED <<timerRunning, writePointerDirty>>

PacketWrite ==
  /\ At("packet", "write")
  /\ PacketToRing /\ Delegate(Go("packet", "sem"))
  /\ timerMutex' = "free" /\ pointersMutex' = "free" /\ newPacket' = NoPacket
  /\ UNCHANGED <<queue, hwWriteOffset, readOffset, links, canceled, announced>>

-----------------------------------------------------------------------------
(* sw2hwTimerThreadMain *)

\* The inner loop, with the mutex: start timing, or sleep; both release it.
TimerLoop(running) ==
  /\ startTimer' = FALSE
  /\ timerRunning' = (startTimer \/ running)
  /\ timerMutex' = "free"
TimerGoes == Go("timer", IF startTimer THEN "running" ELSE "idle")

TimerTest ==
  /\ At("timer", "begin") \/ At("timer", "lock")
  /\ timerMutex = "free"
  /\ TimerLoop(timerRunning) /\ pc' = TimerGoes
  /\ UNCHANGED <<queue, newPacket, pointersMutex, offsets, links, canceled, bytes>>

Timeout ==
  /\ At("timer", "running")
  /\ pc' = Go("timer", "fired")
  /\ UNCHANGED <<queue, newPacket, mutexes, timer, offsets, links, canceled, bytes>>

TimerFired ==
  /\ At("timer", "fired") /\ timerMutex = "free"
  /\ \/ ~timerRunning /\ TimerLoop(FALSE) /\ pc' = TimerGoes
     \/ timerRunning /\ timerMutex' = "timer" /\ pc' = Go("timer", "pointers") /\ UNCHANGED timer
  /\ UNCHANGED <<queue, newPacket, pointersMutex, offsets, links, canceled, bytes>>

\* Mutant: the timer thread does not signal exchangePointersCond.
TimerDelegatesSilent ==
  /\ At("timer", "pointers") /\ pointersMutex = "free"
  /\ writePointerDirty' = TRUE
  /\ TimerLoop(FALSE) /\ pc' = TimerGoes
  /\ UNCHANGED <<queue, newPacket, pointersMutex, writeOffset, hwWriteOffset, readOffset, links, canceled, bytes>>

TimerDelegates ==
  /\ At("timer", "pointers") /\ pointersMutex = "free"
  /\ writePointerDirty' = TRUE
  /\ TimerLoop(FALSE)
  /\ pc' = Signal(TimerGoes, "exchange", "wait", "woken")
  /\ UNCHANGED <<queue, newPacket, pointersMutex, writeOffset, hwWriteOffset, readOffset, links, canceled, bytes>>

-----------------------------------------------------------------------------
(* sw2hwPointerExchangeThreadMain *)

\* With the mutex: fetch the write offset, in words, and release the mutex.
Fetch ==
  /\ writePointerDirty' = FALSE
  /\ hwWriteOffset' = writeOffset \div 4
  /\ fresh' = 0 /\ announced' = announced + fresh

\* Back at the loop's head with the mutex, woken = `p` where others are
ExchangeLoop(p) ==
  \/ writePointerDirty /\ Fetch /\ pc' = Goes(p, "exchange", "put")
  \/ ~writePointerDirty /\ pc' = Goes(p, "exchange", "wait")
     /\ UNCHANGED <<writePointerDirty, hwWriteOffset, bytes>>

ExchangeTest ==
  /\ At("exchange", "lock") /\ pointersMutex = "free"
  /\ ExchangeLoop(pc)
  /\ UNCHANGED <<queue, newPacket, mutexes, timer, writeOffset, readOffset, links, canceled>>

\* Woken, it does not test the flag again.
ExchangeWoken ==
  /\ At("exchange", "woken") /\ pointersMutex = "free"
  /\ Fetch
  /\ pc' = Go("exchange", "put")
  /\ UNCHANGED <<queue, newPacket, mutexes, timer, writeOffset, readOffset, links, canceled>>

\* Mutant: the flag is cleared again after the mutex was released.
ExchangePutClears ==
  /\ At("exchange", "put") /\ Len(mb_put) < MBOX_SIZE
  /\ mb_put' = Append(mb_put, hwWriteOffset) /\ writePointerDirty' = FALSE
  /\ pc' = Go("exchange", "get")
  /\ UNCHANGED <<queue, newPacket, mutexes, timer, writeOffset, hwWriteOffset, readOffset,
                 mb_get, low, high, canceled, bytes>>

ExchangePut ==
  /\ At("exchange", "put") /\ Len(mb_put) < MBOX_SIZE
  /\ mb_put' = Append(mb_put, hwWriteOffset)
  /\ pc' = Go("exchange", "get")
  /\ UNCHANGED <<queue, newPacket, mutexes, timer, offsets, mb_get, low, high, canceled, bytes>>

\* The reply stays in the mailbox until the mutex is there: nothing else reads it.
ExchangeGet ==
  /\ At("exchange", "get") /\ mb_get # <<>>
  /\ pc' = Go("exchange", "reply")
  /\ UNCHANGED <<queue, newPacket, mutexes, timer, offsets, links, canceled, bytes>>

ExchangeReply ==
  /\ At("exchange", "reply") /\ pointersMutex = "free"
  /\ readOffset' = Head(mb_get) /\ mb_get' = Tail(mb_get)
  /\ ExchangeLoop(Signal(pc, "packet", "full", "woken"))
  /\ UNCHANGED <<queue, newPacket, mutexes, timer, writeOffset, mb_put, low, high, canceled>>

-----------------------------------------------------------------------------
(* The hardware thread's synchronisation state machine (ana_hwt_sw2hw.vhd)  *)

HwtInit ==
  /\ At("hwt", "init") /\ mb_put # <<>>
  /\ mb_put' = Tail(mb_put)
  /\ pc' = Go("hwt", "addr")
  /\ UNCHANGED <<queue, newPacket, mutexes, timer, offsets, mb_get, low, high, canceled, bytes>>

HwtGetAddr ==
  /\ At("hwt", "addr") /\ mb_put # <<>>
  /\ high' = Head(mb_put) /\ mb_put' = Tail(mb_put)
  /\ pc' = Go("hwt", IF low < high' THEN "contiguous" ELSE "discontiguous")
  /\ UNCHANGED <<queue, newPacket, mutexes, timer, offsets, mb_get, low, canceled, bytes>>

HwtRead ==
  /\ \/ At("hwt", "discontiguous") /\ pc' = Go("hwt", "discontiguous2") /\ low' = 0
        /\ UNCHANGED bytes
     \/ /\ At("hwt", "contiguous") \/ At("hwt", "discontiguous2")
        /\ pc' = Go("hwt", "ack") /\ low' = high
        /\ announced' = 0 /\ UNCHANGED fresh
  /\ UNCHANGED <<queue, newPacket, mutexes, timer, offsets, mb_put, mb_get, high, canceled>>

HwtAck ==
  /\ At("hwt", "ack") /\ Len(mb_get) < MBOX_SIZE
  /\ mb_get' = Append(mb_get, low)
  /\ pc' = Go("hwt", "addr")
  /\ UNCHANGED <<queue, newPacket, mutexes, timer, offsets, mb_put, low, high, canceled, bytes>>

-----------------------------------------------------------------------------
(* The debug output (RECONOS_NOC_VERBOSE): printf is a cancellation point.  A    *)
(* cancelled thread may end at the next text it prints, with the mutexes it has  *)
(* and with what it has done up to there.                                        *)

PacketCut ==
  \/ /\ pc.packet \in {"timer", "pointers", "write"}
     /\ pc' = Go("packet", "ended")
     /\ UNCHANGED <<mutexes, timer, offsets, fresh>>
  \/ /\ pc.packet = "pointers" /\ pointersMutex = "free" /\ pointersMutex' = "packet"
     /\ pc' = Go("packet", "ended")
     /\ UNCHANGED <<timerMutex, timer, offsets, fresh>>
  \* the packet is in the ring, the exchange delegated or not
  \/ /\ pc.packet = "write" /\ PacketToRing
     /\ \/ pc' = Go("packet", "ended") /\ UNCHANGED <<mutexes, timer, writePointerDirty>>
        \/ Delegate(Go("packet", "ended")) /\ pointersMutex' \in {"packet", "free"} /\ UNCHANGED timerMutex
     /\ UNCHANGED <<hwWriteOffset, readOffset>>

TimerCut ==
  /\ \/ /\ pc.timer \in {"begin", "pointers"}
        /\ UNCHANGED <<mutexes, timer, writePointerDirty>> /\ pc' = Go("timer", "ended")
     \* with its mutex, before or after it took the command to start
     \/ /\ pc.timer \in {"begin", "lock", "fired"} /\ timerMutex = "free" /\ timerMutex' = "timer"
        /\ startTimer' \in {startTimer, startTimer /\ pc.timer = "fired" /\ timerRunning}
        /\ UNCHANGED <<pointersMutex, timerRunning, writePointerDirty>> /\ pc' = Go("timer", "ended")
     \* with both, before or after the signal, or with its own again
     \/ /\ pc.timer = "pointers" /\ pointersMutex = "free"
        /\ \/ /\ pointersMutex' = "timer" /\ UNCHANGED timer
              /\ \/ pc' = Go("timer", "ended") /\ writePointerDirty' \in {writePointerDirty, TRUE}
                 \/ pc' = Signal(Go("timer", "ended"), "exchange", "wait", "woken") /\ writePointerDirty' = TRUE
           \/ /\ timerRunning' = FALSE /\ startTimer' \in {startTimer, FALSE} /\ UNCHANGED pointersMutex
              /\ pc' = Signal(Go("timer", "ended"), "exchange", "wait", "woken") /\ writePointerDirty' = TRUE
        /\ UNCHANGED timerMutex
  /\ UNCHANGED <<writeOffset, hwWriteOffset, readOffset, fresh>>

\* The reply is its, whether it has stored it and signalled that or not.
ExchangeCut ==
  /\ \/ pc.exchange \in {"lock", "reply"} /\ UNCHANGED <<pointersMutex, readOffset>> /\ pc' = Go("exchange", "ended")
     \/ /\ pc.exchange \in {"lock", "woken", "reply"} /\ pointersMutex = "free" /\ pointersMutex' = "exchange"
        /\ \/ UNCHANGED readOffset /\ pc' = Go("exchange", "ended")
           \/ /\ pc.exchange = "reply" /\ readOffset' = Head(mb_get)
              /\ pc' \in {Go("exchange", "ended"), Signal(Go("exchange", "ended"), "packet", "full", "woken")}
  /\ UNCHANGED <<timerMutex, timer, writePointerDirty, writeOffset, hwWriteOffset, fresh>>

\* Another point of it: the write offset is fetched, the mutex not yet released.
FetchCut ==
  /\ pc.exchange \in {"lock", "woken", "reply"} /\ (writePointerDirty \/ pc.exchange = "woken")
  /\ pointersMutex = "free" /\ pointersMutex' = "exchange"
  /\ Fetch
  /\ readOffset' = IF pc.exchange = "reply" THEN Head(mb_get) ELSE readOffset
  /\ pc' = IF pc.exchange = "reply" THEN Signal(Go("exchange", "ended"), "packet", "full", "woken")
           ELSE Go("exchange", "ended")
  /\ UNCHANGED <<timerMutex, timer, writeOffset>>

CutShort ==
  /\ pc.main # "exit"
  /\ \/ "packet" \in canceled /\ PacketCut /\ UNCHANGED announced
     \/ "timer" \in canceled /\ TimerCut /\ UNCHANGED announced
     \/ "exchange" \in canceled /\ ExchangeCut /\ UNCHANGED announced
     \/ "exchange" \in canceled /\ FetchCut
  /\ UNCHANGED <<queue, newPacket, links, canceled>>

-----------------------------------------------------------------------------
\* A wait on a condition variable may end without a signal.
Sleeps == {<<"timer", "idle", "lock">>, <<"timer", "running", "fired">>,
           <<"exchange", "wait", "woken">>, <<"packet", "full", "woken">>}
Spurious ==
  /\ pc.main # "exit"
  /\ \E s \in Sleeps : pc[s[1]] = s[2] /\ s[1] \notin canceled /\ pc' = Go(s[1], s[3])
  /\ UNCHANGED <<queue, newPacket, mutexes, timer, offsets, links, canceled, bytes>>

reconosNoCInit == CreateThread \/ createSw2HwInterface \/ createHw2SwInterface
ControlThread == ControlStart \/ ControlCancel \/ ControlJoin
reconosNoCSendPacket(s) == packetListAdd(s) \/ SendPost(s)
PacketThread == PacketWait \/ PacketLockTimer \/ PacketPoll \/ PacketRoom \/ PacketWrite
TimerThread == TimerTest \/ Timeout \/ TimerFired \/ TimerDelegates
ExchangeThread == ExchangeTest \/ ExchangeWoken \/ ExchangePut \/ ExchangeGet \/ ExchangeReply
HardwareThread == HwtInit \/ HwtGetAddr \/ HwtRead \/ HwtAck

Next ==
  \/ reconosNoCInit \/ InitFails \/ reconosNoCStop \/ ControlThread
  \/ (\E t \in Workers : Cancelled(t)) \/ CutShort
  \/ \E s \in Senders : reconosNoCSendPacket(s)
  \/ PacketThread \/ TimerThread \/ ExchangeThread \/ HardwareThread
  \/ Spurious

Spec == Init /\ [][Next]_vars

\* A thread of the interface runs on, or ends if it is cancelled, and the hardware
\* does not stop.  Nothing is assumed of main and of the senders, nor that a
\* cancelled thread prints.
FairSpec ==
  /\ Spec
  /\ WF_vars(ControlThread) /\ WF_vars(HardwareThread)
  /\ WF_vars(PacketThread \/ Cancelled("packet"))
  /\ WF_vars(TimerThread \/ Cancelled("timer"))
  /\ WF_vars(ExchangeThread \/ Cancelled("exchange"))

-----------------------------------------------------------------------------
(* Properties *)

\* A semaphore credit stands for a packet that is in the list, whatever senders
\* and packet thread do between adding and posting: packetListPoll never reports
\* ENODATA, which would end the packet thread and with it all others.
PollFinds ==
  processOnePacketSem + (IF pc.packet \in {"timer", "pointers"} THEN 1 ELSE 0)
    <= Len(packetsToProcess)

\* Data in the ring that no exchange has announced are never forgotten: an
\* exchange is asked for, or the timer is started or running.  The signals of
\* three condition variables could each be lost here.  (A packet or timer thread
\* that is cancelled may end between the data and the request.)
FreshGuarded ==
  fresh > 0 => writePointerDirty \/ startTimer \/ timerRunning \/ "ended" \in {pc.packet, pc.timer}

\* The packet thread waits for room with the timer's mutex in hand and no
\* exchange is under way that could make room: the flaw the README describes.
Stalled == pc.packet = "full" /\ pc.exchange = "wait"

\* The threads are being stopped, or the process has ended.
Over == Killed \/ pc.main = "exit"

\* Data in the ring are announced to the hardware in the end, by an urgent packet
\* or by the timer, unless the packet thread is stalled or the threads are stopped.
DataAnnounced == fresh > 0 ~> (fresh = 0 \/ Stalled \/ Over)

\* The same without the stall, as the comment on TIMEOUT_DURATION promises:
\* "a write pointer exchange is delegated if no write pointer exchange is yet
\* delegated after this amount of time".
TimeoutHonoured == fresh > 0 ~> (fresh = 0 \/ Over)

\* Stopping ends with all workers joined, unless one of them waits for a mutex
\* that another was cancelled with: no cleanup handler unlocks it.
Hung ==
  \/ /\ timerMutex \in Workers /\ pc[timerMutex] = "ended"
     /\ pc.packet = "timer" \/ pc.timer \in {"begin", "lock", "fired", "idle", "running"}
  \/ /\ pointersMutex \in Workers /\ pc[pointersMutex] = "ended"
     /\ \/ pc.packet \in {"pointers", "woken", "full"} \/ pc.timer = "pointers"
        \/ pc.exchange \in {"lock", "woken", "reply", "wait"}
StopEnds == pc.control = "join" ~> (pc.control = "ended" \/ Hung)

=============================================================================
