# A verification of ReconOS v3

ReconOS lets hardware threads on an FPGA use the services of Linux: they lock
mutexes, wait on semaphores and conditions, exchange messages and read and
write the virtual memory of a Linux process.  This directory holds TLA+ models
of the parts that make this work, TLC configurations that check them on small
instances, and proofs that TLAPS checks for every instance.  Paths below are
relative to the root of the repository.

## 1. The system

```
  Linux process                         FPGA
  +-----------------------------+      +----------------------------------------+
  | demo  -> mbox, rq           |      |  slot i: hardware thread               |
  |   |                         | FSL  |    osif_* procedures  memif_* procedures|
  | delegate thread of slot i <-+------+-->   |                  |   FIFO32       |
  |                             | FSL  |                     arbiter, burst conv.|
  | control thread, slot_reset <+------+-> proc_control <-> MMU + TLB            |
  +-----------------------------+      |                     xps_mem -> PLB bus  |
    fsl driver, getpgd driver          +----------------------------------------+
```

| Component | Source | State | Operations | What makes it correct |
|---|---|---|---|---|
| message box | `src/linux/libreconos/mbox.c` | ring, two indices, two semaphores, two mutexes | `mbox_init`, `put`, `get`, `destroy` | it is a bounded FIFO for any number of callers; nobody reads a slot that is being written; no credit is lost |
| message queue | `.../rq.c` | a message box of pointers to heap blocks | `rq_send`, `rq_receive` | every block is in one place |
| FSL driver | `src/linux/fsl_driver/fsl.c` | `irq_count`, `irq_enabled`, the kernel's disable depth, a wait queue | read (blocking or not), write, ioctl, interrupt, load and unload | no reader sleeps on a word for ever; enables and disables balance |
| osif | `src/pcores/reconos_v3_00_a/hdl/vhdl/reconos_pkg.vhd` | step counter, FSL handshake registers, local RAM port | `osif_sem_*`, `mutex_*`, `cond_*`, `mbox_*`, `rq_*`, `get_init_data`, `thread_exit` | hardware and delegate agree on where a call begins and ends; each call gets its own result |
| delegate | `.../libreconos.c` | one thread per slot; POSIX objects shared with all | one case per command | a hardware thread has what it was told it has; calls that may not block do not |
| process control | `src/pcores/proc_control_v1_00_a/hdl/vhdl/proc_control.vhd`, `libreconos.c`, `src/linux/getpgd/getpgd.c` | reset mask, page directory, two command processes, two FSL links; slot flags, control thread | init, slot reset, page fault and retry, statistics, self test | threads run only with a page directory; faults are served; replies reach who asked; a new process takes over from a dead one |
| MMU, TLB | `src/pcores/mmu_v1_00_a/hdl/vhdl/{mmu,tlb}.vhd` | walker's state machine, TLB entries, FIFO multiplexer | page table walk, hit, fault, copy | every word goes to the frame of its page; walker and data never mix at the controller's port |
| memory controller | `src/pcores/xps_mem_v1_00_a/hdl/vhdl/user_logic.vhd` | command loop, bus signals | read, write | commands are taken for commands |
| memif, fifo32 | `reconos_pkg.vhd`, `src/pcores/fifo32_v1_00_a/hdl/vhdl/fifo32.vhd` | step, counters, RAM address; FIFO pointers | `memif_read`, `memif_write`, `..._word` | unguarded FIFOs are never over- or underrun; data arrive where they belong |
| arbiter, burst converter | `src/pcores/fifo32_arbiter_v1_00_a`, `fifo32_burst_converter_v1_00_a` | selection, word counters, two state machines | merge slots' requests, cut them at bursts and pages | both count a request alike; answers reach who asked; no chunk crosses a page, no slot is starved |
| system generation | `src/tools/mhsaddhwts.py` | none | wires resets, FIFO depths, interrupts | the wiring the cores assume |
| network on chip | `src/pcores/noc_switch_v1_00_a`, `ana_*_v1_00_a` | routers, transmit FIFOs, packet coder | route, encode, decode | packets are neither lost, nor mixed, nor starved |
| NoC software interface | `src/projects/noc_test/linux/hwSwIf`, `ana_hwt_sw2hw.vhd` | packet list, ring buffer, offsets, timer flags; two mutexes, three conditions, two semaphores | send, write to the ring, exchange offsets with the hardware, start, stop | no packet in the ring is forgotten; no thread ends by itself; stopping ends |
| sort demo | `src/demos/sort_demo` | array, two mailboxes | split, sort in software and hardware, merge, check, terminate | blocks are merged when nobody writes them; the result is sorted; the demo ends |
| webcam demo | `src/demos/webcam` | sockets, frame buffer, cache, three mailboxes | send a frame, filter it in two hardware threads, send it back | the frame that comes back is the one sent; a lost connection is survived |
| readpvr, other demos, designs | `src/linux/readpvr`, `src/demos`, `src/designs` | none of their own | | |

They interact through FSL links (FIFOs of 16 words, unreliable on the writing
side of the driver: a full link drops a word), shared memory of one process,
interrupts, resets that clear some parts and not others, and wires between
clocked state machines.

What is hard here: two sides of a link stepping through the same call at
different speeds; registered handshake signals that act a cycle late; FIFOs
without guards; delegate threads that share flags, links and POSIX objects with
no lock; a process that is killed while the hardware goes on; a page fault
answered by a thread that races with the rest of its process; TLB entries and
cached page-table entries that are stale when used; counters that start at
zero; three threads that signal each other through flags and conditions; threads
cancelled with a mutex in hand; data acknowledged before they are in memory; a
connection lost in the middle of a frame.  `PROJECT.json` lists each such hazard at
its line, with the properties that would catch it.

## 2. Modules

Each component has a module with its state, one action per operation, statement
or clock edge, its specification and its properties.  `MCx.tla` extends `x` with
the sets of a small instance; each `.cfg` is one run.  A definition called a
*Mutant* is a changed form of the one after it, with a plausible bug; it is in
no specification, and putting it in place of the original violates the property
it is listed with in `PROJECT.json`.  `xProofs.tla` has the theorems about `x`
(section 6); those about `FslDriver` are in `DelegateProofs`, those about `Mbox` and
`NocRing` in `RingProofs`.

**`Mbox`** — `mbox.c`, statement by statement: a put takes `mutex_write`, waits
on `sem_write`, stores, advances `write_idx`, posts `sem_read`, unlocks.  POSIX
calls are atomic.  **`BoundedFifo`** is what a box promises, and what the rest
of the project uses: a call takes effect in one step between its start and its
return.  `RefinesFifo` maps the ring to the sequence of messages that are stored
and not loaded.

**`FslDriver`** — `fsl_read` with a step for each access to the shared
`fsl_dev`, the handler `fsl_interrupt` between any two of them, and the three
steps of `fsl_setup_dev`.  The interrupt is level-triggered by "word available".
`users`, who has the device open, is any set of readers and pollers.  Only the
number of words in the link matters.  Signals end a wait; a slot's or process'
reset clears the link (`src/tools/mhsaddhwts.py`).

**`Osif`** — the call procedures at clock edges.  Every procedure is the table
of steps of its `case` statement; `fsl_push`, `fsl_push_finish` and `fsl_pull`
are the code's helpers of that name, on registers that reach the link one edge
later and are gated with its live full and exists signals.  At the other end the
delegate reads as many words as its case of the switch reads and writes its
reply, dropping words on a full link as `fsl_write` does.  A word is known by its
call and its place in it, so that the properties can say who reads what.  The
wrappers (`osif_mutex_lock`, ...) are the calls with no, one and two arguments.

**`Delegate`** — every case of the switch in `delegate_thread_entry`, for
several slots that share objects; one request and one reply at a time on a link,
which `Osif` justifies; message boxes are atomic, which `Mbox` justifies.  POSIX
objects are external and behave as POSIX says, spurious wake-ups included.
`resources`, the tables of `reconos_hwt_setresources`, is chosen among
`Programs`.  Hardware threads unlock only what they hold and wait on conditions
with a mutex they hold; those of `Misuse` also pass wrong handles and commands.

**`ProcControl`** — the two processes of `proc_control.vhd` and the fault side
of the MMU, moving together on the clock; `reconos_init`, `slot_reset` with each
access to the flags a step of its own, the control thread, and clients of link B;
processes that die between any two steps and are started again.  A page's entry
is nowhere, in the data cache or in memory; the MMU sees only memory.  A word
passes a link in one tick (`Osif` has the handshake).

**`Mmu`** — the walker of `mmu.vhd`, the TLB of `tlb.vhd` and the command loop of
`user_logic.vhd` in one clock, so that the multiplexer between them is exposed:
the controller's `S_Rd` pops the walker's word or the thread's FIFO, depending on
`copy` in that cycle.  Linux maps pages at any time.  `Reset` is the ReconOS
reset, which clears the MMU but not the controller, in any state of the two.  It
lasts 4096 cycles and is one step: `GoesOn` is what the controller does meanwhile
with the half of a request it has.  At the first edge it may still get the word that
walker or FIFO had for it; from then on it reads zeros, which is a read of no words
(`ZeroHeader`).  It completes a transfer that has begun, and keeps waiting for the
data of a write, for more room than the walker's one word, or in a read of no words.

**`Memif`** — the transfer procedures with their registers, the local RAM's
delay of one clock, the two FIFOs with pointers that can overtake each other, and
a memory server that may pause at any clock.  Words carry values, and `wantRam`,
`wantMem` are what the memories have to hold when all operations are done.
Operations may be of any number of blocks.

**`Arbiter`** — what lies between `Memif` and `Mmu`: the slots' FIFOs, the round
robin of `rr_arbiter.vhd`, the state machine and the multiplexer of
`fifo32_arbiter.vhd`, and the state machine of the burst converter with
`calc_transfer_size`, on one clock.  The memory behind them is a server that
takes a header, an address and as many words as the header says.  No wire says
where a request ends: slot, arbiter, converter and server each count, and
`Framed` is that they agree.  In a slot's FIFO a word is its request and its place
in it; on the wires it carries the slot and the address it is meant for, which no
hardware sees.

**`NocRing`** — `reconosNoC.c`: senders, the packet, timer and pointer exchange
threads, the control thread that cancels and joins them, `reconosNoCInit` and
`reconosNoCStop`, and at the other end the state machine of `ana_hwt_sw2hw.vhd`
that takes the write offset and gives back how far it has read.  A step is the
code between two points where a thread may wait; a condition variable is the
state of the thread that sleeps on it, which a signal or nothing at all
(`Spurious`) ends.  A packet is its length and its urgency.  `fresh` counts the
bytes in the ring that were not announced.  A cancelled thread ends at its next wait
(`Cancelled`) or at its next text: `reconosNoC.h` turns the debug output on, and
`printf` is a cancellation point too.  `PacketCut`, `TimerCut`, `ExchangeCut` and
`FetchCut` are the places of these texts, with the mutexes the thread has there and
with what it has done up to there; nothing forces a thread to end at one of them.

**`SortDemo`** — `main` of `sort_demo.c` (create, generate, put, collect, merge,
check, terminate, join), software and hardware sort threads, with `bubblesort`,
`simple_merge`, `recursive_merge` and `check_data` as recursive operators on real
arrays.  Mailboxes are FIFOs, which `Mbox` justifies.  `memif_write` is done with its
last word in the thread's FIFO (`Write`); the words reach memory one by one, at any
later time (`Arrive`), and a read queues up behind them.  There is no data cache to
model: the demo is built on the design `ml605_linux_13.3`
(`src/demos/sort_demo/hw/setup.sh:3`), whose processor has `C_USE_DCACHE = 0`
(`system.mhs:73`).  `late` remembers that main merged with words on their way.

**`Webcam`** — client, board and the video server that stands in for the board,
over a TCP connection that carries units in chunks of any size, may be lost at
any time, reports a loss once to each end and afterwards an end of stream or
SIGPIPE.  The board's frame buffer is in memory with a write-back cache in front
of the processor, which the two filter hardware threads do not see (the demo's design
is `ml605_linux_13.3_cache`).  A filter's arithmetic is the stage a line has reached.
The line that a filter has stored is on its way to memory (`flying`) until it arrives;
the next line is read behind it, the acknowledgement is not.

The models compose through their assumptions: `Delegate` stands on `Mbox` and
`Osif`; `ProcControl` has the walk of `Mmu` as one tick; `Arbiter` carries what
`Memif` writes and gives `Mmu` its requests, so that its `Framed` and `ChunkFits`
are what `Mmu` assumes of them; `SortDemo`, `Webcam` and `NocRing` use mailboxes
as `Mbox` shows them to be.

## 3. Runs

| Run | Shows | Bounds |
|---|---|---|
| `MCMbox` | `NoSlotRace`: a getter and a putter are never in one slot; `RefinesFifo`; `NoCreditLost`: messages are taken and puts return | 2 putters, 2 getters, 2 slots, 2 messages: every pair of roles, full and empty ring, wrap-around |
| `MCFslDriver` | `SleeperArmed`, `WordWakes`: no wake-up is lost between the empty `ngetfsl` and the wait; `CountsSound`: enables are balanced, the `unsigned short` does not wrap | all sets of 2 readers and a poller, 3 words, reads of 1 and 2 words, any number of loads |
| `MCOsif` | `LinksInStep`: both ends agree where a call begins and no word is lost; `ReplyMatched`, `CallReturns` | one slot, links of 2 and of 3 words, messages of 1 and 2 words, replies of `rq_receive` that fit their link: a call can be shorter than, as long as, and longer than its link, as with the real 16 |
| `MCDelegate` | `HeldIsOwned`, `HeapSound`, `Answered` | three programs: 3 threads on a mutex and a condition; 2 threads on a mutex, a semaphore and a message box, with wrong calls; 2 threads on a queue, sizes 0 to 2, 2 heap blocks |
| `MCProcControl` | `FaultServed`, `RetryReady`, `ReplyExpected`, `ClientReturns`, `CoreSound`: threads run only with a page directory, `InitTakes` | one slot, page and client, links of 16; either statistics and self test, or three processes in a row, killed anywhere, beside software that writes its pages: two can leave words behind |
| `MCMmu` | `TlbUnique`, `TlbCurrent` over any resets; `RequestsSound` up to the first; `Served` if there is none | 3 pages over a TLB of 2, so that entries are replaced; 2 frames; requests of 1 and 2 words; two resets at any time, the second on what the first left |
| `MCMemif` | `SoundWithRoom`: the unguarded pointers never overtake each other and blocks stay framed; `ArrivedWithRoom`, `OpEnds`; all as long as `RoomForAddress` (section 4) | FIFOs of 8 (7 usable), 4 operations among single words, reads and writes of one block of 2, of two, and of a block and a part, one right behind the other: blocks wait for room and for data, pointers wrap |
| `MCArbiter` | `Framed`, `Returned`, `ChunkFits`, `Served` | 3 slots, pages of 3 words, bursts of 2: a write over a page border, a read of two bursts, both at once from the third slot |
| `MCNocRing` | `PollFinds`: the list is never empty when polled; `FreshGuarded`, `DataAnnounced`: no packet in the ring is forgotten; `StopEnds` | 2 senders, 3 packets of 16 bytes and, urgent, of 31 (32 in the ring) in a ring of 64: full ring, wrap-around, an end that the alignment wraps, timer and urgent exchange in one run; threads sleep, wait for mutexes or for room when they are cancelled |
| `MCSortDemo` | `MergesSorted`, `SortsRight`, `Finishes` | 2 hardware threads and a software thread, 4 blocks of 3 words, so that threads take second blocks and merging has two levels; up to 2 words of each hardware thread on their way |
| `MCWebcam` | `FrameReturned`, `FrameComesBack`, `ServesAgain` | board or video server, 2 clients one after the other, 2 frames of 3 lines, a window of 3, so that header and frame arrive in parts |
| `MCProcControlSlots` | violation, section 5 | two slots |

`CHECK_DEADLOCK FALSE` is said where the system may stop: hardware threads that
all block or a process that has exited (`MCDelegate`), the last process gone
(`ProcControl`), threads stopped or dead with a mutex (`MCNocRing`), a demo that
has ended (`MCSortDemo`, `MCWebcam`).

Type invariants are a conjunct of the combined properties (`CountsSound`,
`HeapSound`, `CoreSound`, ...) so that each run asks few questions; each names
its parts.

**Proportions.** In the generated systems a link holds 16 words, `fifo32` 128, a
memory block 64 words, the TLB 16 entries.  The instances keep the relations that
matter: a link is shorter than some calls and longer than others; a FIFO takes
one block with its header and more, not all that a thread writes; there are more pages than TLB entries; a page is no multiple of a burst, and a
request can need three chunks.  The NoC ring, its header and its threshold have
their real sizes (64, 10 and 20 bytes).

**Fairness.** Every fairness condition is weak.  The clock ticks (`Osif`,
`ProcControl`, `Mmu`, `Memif`, `Arbiter`).  The bus sooner or later moves a word
(`Clock(TRUE, ..)`).  Linux schedules a delegate, control or driver thread that
can run; an enabled level-triggered interrupt is served.  In `Mbox` a mutex or
semaphore is not assumed to be fair, so `NoCreditLost` speaks of some
message and some caller, and getters are assumed to come.  A page fault gets
its page mapped.  Nothing is assumed of when hardware threads call, or that a
mutex is unlocked or a message sent.  In `Arbiter` the memory takes a word in the
end, and a thread that has begun a request sends it.  In `NocRing` each thread
of the interface runs on, or ends when it is cancelled, and the hardware runs; nothing is assumed of `main` and
the senders, and nobody has to stop, to wake up spuriously or to end at a text.  In
`SortDemo` and `Webcam` each program and each hardware thread runs on, and words on
their way to memory arrive; nobody has to quit, and no connection has to be lost.

## 4. Assumptions the models make visible

- `ProcControl.InitLate`: between the reset command and the page directory,
  `reconos_init` calls `getpgd` with three system calls, which takes longer than
  the 4096 cycles for which the core holds itself and its links in reset.  There
  is nothing in the code that waits for the reset; with `InitLate = FALSE` the
  directory is lost and `CoreSound` fails.
- One client at a time on link B: statistics and self test have no lock.
- `ProcControlProofs.Timely`, a premise of that module's theorems: `reconos_init`'s
  reset finds room in link B, since `fsl_write` drops a word at a full link, and the
  core comes to that reset, which a core that is `Stuck` (section 5) never does.  A
  process that is not killed needs neither (`FirstIsTimely`).
- One reader per FSL device for `EnableBalanced` (in `CountsSound`), no poller for `SleeperArmed`
  and `WordWakes`: `libreconos` opens each device for one blocking thread.
- Messages of at least one word (`Osif.Sizes`) and blocks of at least two
  (`Memif.Ops`).
- No page that the hardware has used is unmapped (`TlbCurrent`): only a reset
  clears the TLB.
- Signals do not interrupt `sem_wait` (`Mbox`), whose result the code ignores.
- Only a page that no other software thread writes while it faults keeps its data
  (`ProcControl.Untouched`, below).
- `RequestsSound` speaks of the memory controller's commands up to the first
  reset (`resets = 0`), below; `Served` of a run without one.
- Requests of whole words (`Arbiter.Requests`), which is what the `memif`
  procedures send: the converter cuts the two low bits of a length, the arbiter
  counts them.
- `Arbiter.LineFalls`: the slot whose turn it is lowers its request line between
  two requests.  `rr_arbiter.vhd:111` stays with a slot as long as the line is
  up; with a writer whose next header is in its FIFO before the last word has
  left, the others wait for ever.  `Served` has this as its premise.
- A heap that is zero (`NocRing.Init`): the `memset` of the interface structures
  clears `sizeof` of a pointer only.
- What the proofs ask of the constants is in the modules' `ASSUME`s, which TLC
  evaluates: readers, pollers and slots are finite sets (`FslDriver`, `Delegate`);
  `Nothing` and `BadHandle` are no objects (`Delegate`); there is a page directory
  and a table (`Mmu`).  Some theorems have a premise of their own.  `InTime`
  (`ProcControlProofs`): `InitLate`, a link that holds the two words of a directory,
  and a reset that lasts for more than a tick; `OneClient` is the one client above.
  `Fits`
  (`OsifProofs`): links hold more than one word, no message is empty, and a local
  RAM has fewer than 2^24 words.  With a link of one word (`Depths = {1}`)
  `LinksInStep` fails: a procedure that finds the link full in its third step goes
  back to a word that was sent already.  The links of the designs hold 16.
  `~Residue` (`SleepersCanWake`): no word is in the link when the module is loaded.
  `Transfers` (`MemifProofs`): blocks of two words and more, `..._word` moves one word,
  and no read ends in a block of one word.
- `Memif.RoomForAddress`, the premise of the three properties of `MCMemif`: the room
  in which `memif_write` looks for a block never is just the block's size while the
  block's address, still in the thread's registers, will take one word of it (section
  5).  That check is all that is wrong: with it every number of blocks is sound, and a
  premise on the run says more than a restriction of the operations would.  It always
  holds for a thread that writes one block at a time and waits before each until what
  it wrote has left its FIFO (`Drained`), with blocks that leave two words of the FIFO
  (`OneBlockFits`; 64 of 128 in the designs).  The demos write many blocks at once:
  there it depends on how far the memory has come.
- `Webcam.LandsFirst`, the premise of `FrameReturned`: a filter's last line is in memory
  before the job leaves the mailbox.  Nothing in the code waits for it.  The line has to
  go through arbiter, MMU and bus; the mailbox word goes over a link, an interrupt and
  a delegate, which as a rule takes longer.  Without it the property is false: the
  next filter reads, or the board sends, the line as it was.
- `SortDemo.SortsRight` excepts runs in which main merged while words were on their way
  (`late`), for the same reason (section 5).
- A power of two of blocks (`SortDemo`): `recursive_merge` reads past the array
  and does not end for another number.

## 5. Where code and words disagree

One run ends in a violation: `MCProcControlSlots`, `StartedRuns`.  `slot_reset`
(`libreconos.c:28-49`) changes its flag, then reads all flags, then sends the
mask, without a lock.  Of two delegates that start at once the older mask can
arrive last, and a slot stays in reset for ever.  The demos create their threads
in a loop.

Others were met while modelling.  Those that a constant or a property shows can
be seen by changing the instance named:

- `ProcControl.Untouched` as an invariant, with `swWrites` in `Setups`: the comment
  at `libreconos.c:126` says that the page "has not been touched yet".  Between the
  fault and the store of 0 another thread can map the page and write to it, and
  loses what it wrote.
- `Memif.WriteArrived` as an invariant of `MCMemif` with `Ops <- LongWrites`,
  `BlockSize = 4`, `Words = 8` and `MaxOps = 1`, which are the proportions of the
  designs, whose FIFOs take two blocks: `memif_write` (`reconos_pkg.vhd:1316`) compares
  the room for a block with `m_remainder` while its own address word is on its way
  into the FIFO.  If the room that it sees is just the block's, the last word finds the
  FIFO full and makes it look empty.  One write of two blocks is enough, if the second
  one's header goes out while the first is being taken.  Every demo writes more than
  one block at a time, the sort demo 2048 words.
- `SortDemo.MergesResults` as an invariant of `MCSortDemo`: the hardware sort thread
  sends "mbox that signals that the sorting is finished" (`hwt_sort_demo.vhd:248`) when
  the last word of its block is in its FIFO, and main, which has counted the
  acknowledgements under "Wait for results" (`sort_demo.c:225`), may merge before the
  arbiter has let the words through.  That the acknowledgement takes a link, a delegate
  and a mailbox is all that is in favour of the words.
- `TakesCommands` without its guard `resets = 0`: `xps_mem` is not reset with the MMU
  and takes a later header for the data of an old write, or waits for ever for room that
  the walker does not have (`mmu.vhd:250`); then no request ends any more.
- `FrameReturned` without its premise `LandsFirst`: the line that a filter still has on
  its way when it acknowledges the frame.
- `NocRing.TimeoutHonoured` (`reconosNoC.h:82-84`: "a write pointer exchange is
  delegated if no write pointer exchange is yet delegated after this amount of
  time"), with one sender, `MaxPackets = 2` and `Packets <- MCDummyPacket`, the
  packet `hwSwIf.c` sends: the packet thread waits for room with the timer's mutex
  in hand (`reconosNoC.c:365`), the timer waits for that mutex, and the exchange
  that would make room is the timer's.  `DataAnnounced` names this case, `Stalled`.
- `FslDriver.Residue = TRUE` (module unloaded with a word in the link): the
  interrupt is served between `request_irq` and `irq_enabled = 1`, and nobody
  enables it again; `SleeperArmed` fails.
- `irq_count` "should never exceed 1" (`fsl.c:128`); it reaches 2 with one reader.
- `Osif.Sizes = {0}`: `osif_rq_send` decrements its 24-bit remainder before it
  looks at it and floods the link; `LinksInStep` fails.
- A reply of `rq_receive` longer than the free link is not modelled: `fsl_write` does
  not wait for room, so `NoWordLost` is claimed only for replies that fit a link.
- A block of one word in `Memif.Ops`: `memif_read` pops the FIFO twice;
  `SoundWithRoom` fails.
- Kills and self test together: a self test that waits behind an unserved page
  fault holds FSLB_PROC, and the next process' reset is not taken.  `InitTakes`
  names this case, `Stuck`.
- `StopEnds` names `Hung`: `pthread_cancel` ends a thread that waits on a condition
  with its mutex locked again, or that prints with a mutex in hand; no cleanup handler
  unlocks it, and another worker may wait for it and never be joined.

Read in the code and kept in the models, without a property of their own:

- NoC: the room in the ring is computed from a write offset in bytes and a read
  offset in words, tested with an `if`; a packet may be written over one that was
  not read yet.  The write offset may be left at 64 (when the payload ends there; an
  end that is aligned to 64 is wrapped).  After the timer announces an
  offset the hardware has already, `low = high` and it reads the whole ring.  The
  control thread may read the interface's pointer before `main` has assigned it.
- Sort: `cmp` subtracts addresses, not words, and `check_data` leaves out the last
  word; `SortsRight` checks what it does not.
- Webcam: `tcp_read_2` on the board reads for ever at the end of the stream; after
  an error `establish_connection` is called with the port still bound, and fails
  for ever; the frame buffer's address is rounded down to a page, out of its
  allocation; the video server ends on one bad header even when told to repeat;
  `tcp_receive` returns the part of a frame that came before the end of the stream,
  which the server takes for a frame.

## 6. Proofs

`RingProofs` proves of `Mbox` (whose specification has names of its own, so that the
module can extend `NocRing` too), for every ring size and all sets of callers and messages
(`MboxAssumption`: the size is a positive natural number, and the constants for
"no message" and "no thread" are neither):

- `TypeCorrect`: `MboxSpec => []TypeOK`
- `NoRace`: `MboxSpec => []NoSlotRace`
- `Refinement`: `MboxSpec => RefinesFifo`, the box implements `BoundedFifo`.

None of them is inductive by itself.  `MboxIInv` adds three things.  `Owners`: a mutex
is held by exactly the thread between its lock and its unlock; so at most one
putter and one getter are inside.  `Credits`: the two semaphores and the threads
between their wait and their post add up to `Size`; so a getter that has passed
its wait finds a stored message, and a putter a free slot.
`Slot(First, Stored) = Last`: the slot `Stored` places after the oldest message
is the one the next put writes; this ties the indices, which advance after the
access, to the credits, which are taken before and given after it.  From these two
putter and getter can be in one slot only if `Stored` were 0 with a getter inside,
or `Size` with a putter inside (`NoRace`).

For the refinement, the abstract queue is `Content`, the messages from `First` on.
`StoreAppends` shows that the store appends one message, `LoadTakesHead` that the
load removes the first, `ContentStutter` that the other statements leave it
unchanged although they move the indices and credits it is read from; `CallMoves`
maps program counters to the abstract calls, and `StepImplements` puts them together.

The second part of `RingProofs` proves of `NocRing`, for every finite set of senders, any packets and any number
of them (`NocRingAssumption`), in spite of spurious wake-ups, cancellation at waits
and texts, and failed initialisation:

- `NothingForgotten`: `Spec => []FreshGuarded`
- `PollAlwaysFinds`: `Spec => []PollFinds`.

`PollFinds` follows from `IInv`: credits of the semaphore, senders between adding and
posting, and the credit the packet thread has taken are together no more than the
length of the list (fewer when the thread was cancelled with a credit).  That the packet
thread does not exist before `main` creates it is the other half: it begins at its
semaphore, with no credit taken.  There is one lemma per thread (`SendersStep`,
`PacketStep`, `MainAndCancelStep`, `CutStep`, `OthersStep`), and `AddingCount` says how
the number of adding senders changes.

For `FreshGuarded` (`FreshIInv`): bytes become fresh only in `PacketToRing`, behind
which the same critical section asks for an exchange, or starts the timer, or finds it
running (`FreshWrite`); the flag is cleared only by `Fetch`, which announces all there
is; and `TimerLoop` drops its flags only when it sets the other.  A cancellation can come
between the two halves of each.  The thread has then ended, which `FreshGuarded` excepts,
and `NextOnward` shows that it stays so: nobody but `main` creates threads, and while
main does the ring is empty.

`OsifProofs` proves, for any links, messages and tags with `Fits`, whatever the order
of clock edges and delegate steps:

- `LinksStayInStep`: `Spec => []LinksInStep`
- `RepliesMatch`: `Spec => []ReplyMatched`.

A phase of the invariant (`Resting`, `Pushing`, `Sending`, `Pulling`, `Receiving`,
`Halted`, `Completed`) is a set of steps of the procedures' `case` statements.  Each
says which word is in the handshake registers, on its way, and that what the delegate
has read, then the link, then the rest is the call's words in order (`Sent`); after the
last word the same holds of the reply on the other link (`Reply`).  A full link in
the middle takes a procedure back by a step, and the word in the registers is then the
one the link did not take.

`DelegateProofs` proves, for any finite set of slots, any objects, programs, sizes and
wrong calls:

- `CriticalSections`: `Spec => []HeldIsOwned`
- `HeapStaysSound`: `Spec => []HeapSound`.

`OneCall`: a slot's call is on the link, with the delegate or answered, never two of
these.  `Ownership` extends the mutex' owner over the two links: from the moment the
delegate has locked it (`Granted`, an answer on its way) until it unlocks it
(`Returning`, a call on its way).  `HeapInv` gives every block one place: a sender's
delegate, one queue once, a receiver's delegate, or lost with a process that exited;
`NoneLeaked` is the converse, an allocated block is in one of them.

The second part of `DelegateProofs`, which also extends `FslDriver` (whose specification
has names of its own for that), proves of the driver through which the delegates read
their links, for any finite sets of readers and pollers, any depth of the link and any
number of loads of the module:

- `CountsStaySound`: `FslSpec => []CountsSound`
- `SleepersCanWake`: `FslSpec => []SleeperArmed`, if `~Residue`.

`Counted` has one unit for a level of enabling, for a counted interrupt, and for a
reader between clearing `irq_count` and `enable_irq` (`Pending`).  The handler turns
the first into the second, `enable_irq` the third into the first, and a reader gets
the third by clearing the second; so `irq_count` exceeds the number of readers by
one at most.  `Balanced` is what one thread brings: at `enable_irq` the interrupt is
off.  For the sleepers `irq_enabled` has to say what the kernel's depth is, or a
reader has to be about to make it so (`Armed`).

`MmuProofs` proves, for any page table, any size of the TLB, any requests and any number
of resets:

- `OneEntryPerPage`: `Spec => []TlbUnique`
- `EntriesStayCurrent`: `Spec => []TlbCurrent`
- `RequestsStaySound`: `Spec => []RequestsSound`.

An entry is written only after a walk for a page that missed (`Missed`), and nothing
else writes one in between, so no page has two.  `Following` is what walker and FIFO
agree on: how many words of the request are gone.  `InStep` has a conjunct for each
thing the walker does (`Silent`, `Offering`, `Addressing`, `Waiting`, `Moving`, ...),
which says where the controller then is, and with whose word.  After a reset the
controller may be waiting for the data of a write that was forgotten; `Stuck` says
where walker and controller then are, and that no walk ends there, so that the TLB
keeps its properties although `RequestsSound` claims nothing any more.  `GoesOnThere`
shows that whatever state a reset finds the controller in, it leaves it ready for a
header or in one of these.

`ArbiterProofs` proves, for any number of slots, any FIFO depth, page, burst and any
requests of each slot:

- `WordsStayFramed`: `Spec => []Framed`
- `AnswersGoBack`: `Spec => []Returned`
- `ChunksFit`: `Spec => []ChunkFits`.

`Streams`: a slot's FIFO holds words in the order of its requests, up to the word its
thread sends next.  `Front` is the word that leaves next, or would; so a request that is
only half sent, or of which nothing is in the FIFO, has a place too.  `Waiting`: slots
that are not let through stand at the beginning of a request.  The slot that is let
through is in a phase, `Fetching`, `TakingAddress` or `Serving`; in the last
(`Carrying`) arbiter and converter have the same count and `Front` is the place
the count says, the chunk being cut off (`Cutting`), shown (`Showing`) or under way
(`Moving`), where the memory has a count too.  `Turn` is needed because
`sel2mux` follows the round robin an edge late: who was chosen goes on asking until
then.  The edges are two lemmas, one for those at which no word of the request moves
(`PauseEdge`) and one for the others (`MoveEdge`); `SlotEdge` says what an edge does
to one slot, and `NewChunkFits` and `FitsOn` are the arithmetic of pages.

`ProcControlProofs` proves, for any number of slots, pages and processes one after the
other, killed between any two steps, with `InTime`:

- `CoreStaysSound`: `Spec /\ []Timely => []CoreSound`
- `RetriesFindThePage`: `Spec /\ []Timely => []RetryReady`
- `RepliesAreExpected`: `Spec /\ []Timely => []ReplyExpected`, with `OneClient`
- `FirstIsTimely`: `Spec => []Timely`, if no process is killed.

`Order` is about the words in link B, whoever wrote them: resets are the last words, a
directory is the first and has its second word behind it or on its way, and there are
calls only behind a whole directory or with one in the core (`Settled`).  `Taken`,
`DirectoryRead` and `ResetTick` say what `FSLB_PROC` does to that order, `PutReset`,
`PutPgd`, `PutWord` and `PutCall` what the software does, and `Startup` ties it to how far `reconos_init` is: before the reset has been
carried out nothing of its directory is there (`Foreign`), afterwards its directory is
the one that counts (`Aimed`).  This is why a half directory of a dead process does no
harm: the reset empties the link before the next one is written.  From the reset to the
first thread nothing runs and nothing is asked (`Quiesced`).  From then on `Serving`
has one fault in one of five places, those of `FSLA_PROC`, and in each of them says
where its request is: half in the link (`Half`), whole (`Full`), its address
(`Address`), with the control thread, or answered with the page's entry in memory; self
tests may stand before it.  `Clientele` has the same for the client's command on link B
and its reply, `Alone` for the words of a first process up to its directory.

`MemifProofs` proves, for any depth of the FIFOs, any block size, memory and operations
with `Transfers`:

- `FifosStaySound`: `Spec => SoundWithRoom`, that is `[]RoomForAddress => []FifosSound`
- `DataArrives`: `Spec => ArrivedWithRoom`, the same for `DataArrived`
- `OneBlockFits`: `Spec => []RoomForAddress`, with `OneBlock`: the premise can be met.

As long as no pointer overtakes the other a FIFO is a sequence, `Content` (`FifoMoves`);
`Room` (the room seen covers the words still to be written, `Reserved`) and `Server` (a
request's words are there before it is carried out) say that none does.  The words on
their way, those in the FIFO and the one in the thread's registers (`Stream`), are read
like a sentence: `Parsed(q, a, b)`, each word of `q` fits what is expected and leads to
what is expected next.  `Together` says that they lead from what the server expects
(`ServerAt`) to what the thread's step will send (`ThreadAt`), and that the memory
written on the way is the wanted one but for `Unsent`.  A word the server takes is the
first of the sentence (`ParsedFirst`), a word the thread pushes is put behind it
(`ParsedLast`), and a read that is owed words is its end (`OwingIsLast`); that is why
words that come back belong to this very operation (`Given`).  `Progress` and `Wanted`
are about the counters and the local memory.  `RoomForAddress` is where the proof shows
the flaw of section 5: it is all that `RoomMoves` needs beside the code.

`WebcamProofs` proves, for frames, headers and windows of any size and any number of
frames and clients (`SizesAssumption`: each bound is a positive natural number):

- `FramesReturn`: `Spec => FrameReturned`, that is `[]LandsFirst => []ShowsFrame`.

`Typed` says what a unit can be, `Places` where each program can be, `Apart` that an end
that has closed its socket, or has none, is not in the middle of a call, and `OneJob`
that the board's job is in one mailbox or with one filter exactly while the program
waits for it.  `Round` is about a connection that lives (`Live`; no call on it fails,
`NoLoss`): the frame is in one of five phases.  `Asking`: what the client has sent
(`Sent`) and the server not yet read (`Taken`) is what is on its way, behind the header
it is lines of frame `k`, and the lines already read are in the buffer, or in the cache
where it is dirty and in memory where it is not (`Stored`).  `Working`: on the board,
`Filtering` says how far the lines are for each place of the job, the one on its way
included, and that no line is cached, which is what the first `cache_flush` is for;
`LandsFirst` is needed where a job is taken from its mailbox, to know that nothing is on
its way then.  `Answering`: what the client has
read and what is on its way are what the server has written; a cached line is clean and
the one in memory, which is what the second `cache_flush` is for.  `Answered` and
`Leaving` end the round.  `ClientWrites`, `ServerReads`, `ServerWrites` and
`ClientReads` are the four ways in which a chunk of any size moves, used for client, board and
video server alike; `EvictRound` shows that a line the cache gives up is the same
line in memory.

TLC checks the same formulas first, on the runs of the modules.

Only model-checked:

- all liveness, and with it fairness (the prover has no rules for `ENABLED` here);
- `ProcControl.StartedRuns`: it is false for two slots (section 5);
- `SortDemo`: its sorting and merging are recursive operators;
- `Mmu.RequestsSound` is proved up to the first reset; behind one it is not claimed;
- what the resets of `Arbiter` and a write that never arrives would do: not modelled.

## 7. Not modelled

- The switch of the network on chip, the packet coder, and of the NoC hardware
  threads everything but the exchange of offsets: planned, section 8.
- What is in the ring: `NocRing` counts bytes, so an overwritten packet (section 5)
  is not seen as such.
- `memif` request-only and raw procedures; `fsl_write`'s ioctl path, `open`,
  `release` and copy errors of the driver; the driver's registration.
- Windows, graphs, files and video formats of the webcam tools, and what the
  filters compute.
- PLB signals inside `xps_mem`, hit and miss counters of the TLB.
- `mbox_destroy`, module loading of `getpgd`, `readpvr`, generation of the system
  files, the demos of single services and the designs: no state that interacts.

## 8. Plan

Order: first what every call of a hardware thread goes through, then memory, then
the network.

1. `Mbox`, `BoundedFifo`, `FslDriver`, `Osif`, `Delegate` — done.
2. `ProcControl`, `Mmu`, `Memif` — done.
3. `Arbiter`, with the burst converter — done.
4. `NocRing`, its proofs, `SortDemo`, `Webcam` — done.
5. `NocSwitch`: routers, transmit FIFOs and packet coder; each packet leaves once,
   at the port its address names.
6. Proofs: `FslDriver`, `Osif`, `Delegate`, `Mmu`, `Arbiter`, `ProcControl`, beside
   `Mbox` and `NocRing` — done.
7. Proofs: `SoundWithRoom` and `ArrivedWithRoom` of `Memif`, `FrameReturned` of `Webcam` — done.
   `MergesSorted` needs its recursive operators written as functions first.
