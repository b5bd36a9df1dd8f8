------------------------------ MODULE SortDemo ------------------------------
(***************************************************************************)
(* The sort demo: main splits an array into blocks, hands their addresses  *)
(* to hardware and software threads through the mailbox mb_start, collects *)
(* one acknowledgement per block from mb_stop, merges the sorted blocks,   *)
(* checks the result and ends the threads with one exit command each.      *)
(* A mailbox is a bounded FIFO here, which Mbox shows it to be.  Memory is *)
(* an array of words; a block is named by its number.  What a hardware     *)
(* thread writes goes through its memory FIFO: it is in memory some time   *)
(* after memif_write is done.  There is no data cache: the demo's design   *)
(* (hw/setup.sh, ml605_linux_13.3) has C_USE_DCACHE = 0.                   *)
(***************************************************************************)
EXTENDS Integers, Sequences, SequencesExt

CONSTANTS HwThreads, SwThreads,
          Blocks,                \* num_of_blocks
          N,                     \* words per block (BLOCK_SIZE / 4)
          Depth                  \* words that a thread's FIFO and the arbiter hold

\* recursive_merge halves the number of blocks until one is left: it reads past
\* the array and does not end for a number that is no power of two.
ASSUME BlocksAssumption == {N, Depth} \subseteq Nat \ {0} /\ Blocks \in {2^k : k \in 0 .. 5}

Threads == HwThreads \cup SwThreads
ASSUME ThreadsAssumption == Threads # {} /\ HwThreads \cap SwThreads = {}

UINT_MAX == -1
NoBlock == -2
Size == Blocks * N               \* TO_WORDS(buffer_size)

VARIABLES main, i,               \* where main is, and its loop counter
          mb_start, mb_stop,
          state, block,          \* per thread: state and the block it has
          n,                     \* per software thread: bubblesort's bound
          ram,                   \* per hardware thread: the local RAM, less what
                                 \* is written,
          fifo,                  \* and its words on their way: <<index, word>>
          data, verdict,         \* the array, and what check_data returned
          late                   \* auxiliary: main has merged with words on their way

vars == <<main, i, mb_start, mb_stop, state, block, n, ram, fifo, data, verdict, late>>

-----------------------------------------------------------------------------
(* The algorithms, on sequences *)

Swapped(a, j) == [a EXCEPT ![j] = a[j + 1], ![j + 1] = a[j]]

\* bubblesort's inner loop from index j (counted from 1) up to bound: n_new is
\* the index of the last swap (counted from 0), and is kept when there is none.
RECURSIVE Loop(_, _, _)
Loop(run, j, bound) ==
  IF j > bound THEN run
  ELSE IF run.array[j] > run.array[j + 1]
       THEN Loop([array |-> Swapped(run.array, j), n_new |-> j - 1, swapped |-> TRUE], j + 1, bound)
       ELSE Loop(run, j + 1, bound)

Pass(array, bound) == Loop([array |-> array, n_new |-> bound, swapped |-> FALSE], 1, bound)

RECURSIVE Passes(_)
Passes(run) == IF run.swapped THEN Passes(Pass(run.array, run.n_new)) ELSE run.array
bubblesort(array) == Passes([array |-> array, n_new |-> Len(array) - 1, swapped |-> TRUE])

\* Mutant: the left block is taken to its end first.
simple_mergeLeft(left, right) == left \o right

\* The words that simple_merge appends when l and r words are taken already.
RECURSIVE Merged(_, _, _, _)
Merged(left, right, l, r) ==
  IF l + r = Len(left) + Len(right) THEN <<>>
  ELSE IF r >= Len(left) \/ (l < Len(left) /\ left[l + 1] <= right[r + 1])
       THEN <<left[l + 1]>> \o Merged(left, right, l + 1, r)
       ELSE <<right[r + 1]>> \o Merged(left, right, l, r + 1)
simple_merge(left, right) == Merged(left, right, 0, 0)

Slice(array, b, blocksize) == SubSeq(array, b * blocksize + 1, (b + 1) * blocksize)

\* Level by level, from one buffer into the other, the block size doubling.
RECURSIVE recursive_merge(_, _)
recursive_merge(array, blocksize) ==
  IF Len(array) = blocksize THEN array
  ELSE recursive_merge(
         FlattenSeq([p \in 1 .. Len(array) \div (2 * blocksize) |->
           simple_merge(Slice(array, 2 * p - 2, blocksize), Slice(array, 2 * p - 1, blocksize))]),
         2 * blocksize)

generate_data == [k \in 1 .. Size |-> 1000 + Size - k]

\* qsort with cmp, which subtracts the addresses of its arguments: every merge
\* of the library takes the right run first, and the copy comes out reversed.
qsort(copy) == Reverse(copy)

\* The index of the first word that differs, without the last word; -1 if none.
check_data(array, copy) ==
  LET wrong == {k \in 0 .. Size - 2 : array[k + 1] # qsort(copy)[k + 1]}
  IN IF wrong = {} THEN -1 ELSE CHOOSE k \in wrong : \A j \in wrong : k <= j

-----------------------------------------------------------------------------
Init ==
  /\ main = "create" /\ i = 0
  /\ mb_start = <<>> /\ mb_stop = <<>>
  /\ state = [t \in Threads |-> "unborn"]
  /\ block = [t \in Threads |-> NoBlock]
  /\ n = [t \in SwThreads |-> 0]
  /\ ram = [t \in HwThreads |-> <<>>] /\ fifo = [t \in HwThreads |-> <<>>]
  /\ data = <<>> /\ verdict = UINT_MAX /\ late = FALSE

memory == <<n, ram, fifo, data, verdict, late>>

Create ==
  /\ main = "create"
  /\ \E t \in Threads :
       /\ state[t] = "unborn"
       /\ state' = [state EXCEPT ![t] = "get"]
  /\ UNCHANGED <<main, i, mb_start, mb_stop, block, memory>>

Generate ==
  /\ main = "create" /\ \A t \in Threads : state[t] # "unborn"
  /\ data' = generate_data
  /\ main' = "put"
  /\ UNCHANGED <<i, mb_start, mb_stop, state, block, n, ram, fifo, verdict, late>>

\* A loop of main: count up to limit, then go on to next.
Count(here, limit, next) ==
  /\ main = here /\ i < limit
  /\ \/ i + 1 < limit /\ i' = i + 1 /\ main' = here
     \/ i + 1 = limit /\ i' = 0 /\ main' = next

PutBlocks ==
  /\ Count("put", Blocks, "collect")
  /\ Len(mb_start) < Blocks
  /\ mb_start' = Append(mb_start, i)
  /\ UNCHANGED <<mb_stop, state, block, memory>>

Collect ==
  /\ Count("collect", Blocks, "merge")
  /\ mb_stop # <<>>
  /\ mb_stop' = Tail(mb_stop)
  /\ UNCHANGED <<mb_start, state, block, memory>>

OnTheWay == UNION {Range(fifo[t]) : t \in HwThreads}

Merge ==
  /\ main = "merge"
  /\ data' = recursive_merge(data, N)
  /\ late' = (OnTheWay # {})
  /\ main' = "check"
  /\ UNCHANGED <<i, mb_start, mb_stop, state, block, n, ram, fifo, verdict>>

\* The copy was taken right after the data were generated.
Check ==
  /\ main = "check"
  /\ verdict' = check_data(data, generate_data)
  /\ main' = "terminate"
  /\ UNCHANGED <<i, mb_start, mb_stop, state, block, n, ram, fifo, data, late>>

running_threads == LET all == SetToSeq(Threads) IN Len(all)

\* Mutant: one exit command too few.
TerminateOneLess ==
  /\ Count("terminate", running_threads - 1, "join")
  /\ Len(mb_start) < Blocks
  /\ mb_start' = Append(mb_start, UINT_MAX)
  /\ UNCHANGED <<mb_stop, state, block, memory>>

Terminate ==
  /\ Count("terminate", running_threads, "join")
  /\ Len(mb_start) < Blocks
  /\ mb_start' = Append(mb_start, UINT_MAX)
  /\ UNCHANGED <<mb_stop, state, block, memory>>

Join ==
  /\ main = "join" /\ \A t \in Threads : state[t] = "exited"
  /\ main' = "done"
  /\ UNCHANGED <<i, mb_start, mb_stop, state, block, memory>>

-----------------------------------------------------------------------------
Goto(t, from, to) == state[t] = from /\ state' = [state EXCEPT ![t] = to]

\* mbox_get of both kinds of threads: a block, or the exit command.
Get(t, first) ==
  /\ mb_start # <<>> /\ mb_start' = Tail(mb_start)
  /\ \/ /\ Head(mb_start) = UINT_MAX
        /\ Goto(t, "get", "exited") /\ UNCHANGED <<block, n>>
     \/ /\ Head(mb_start) # UINT_MAX
        /\ Goto(t, "get", first)
        /\ block' = [block EXCEPT ![t] = Head(mb_start)]
        /\ n' = IF t \in SwThreads THEN [n EXCEPT ![t] = N - 1] ELSE n
  /\ UNCHANGED <<main, i, mb_stop, ram, fifo, data, verdict, late>>

Words(b) == Slice(data, b, N)
Stored(b, words) == [k \in 1 .. Size |-> IF k - b * N \in 1 .. N THEN words[k - b * N] ELSE data[k]]

\* Mutant: the acknowledgement does not wait for a pass without a swap.
SortPassOnce(t) ==
  /\ Goto(t, "sort", "ack")
  /\ data' = Stored(block[t], Pass(Words(block[t]), n[t]).array)
  /\ UNCHANGED <<main, i, mb_start, mb_stop, block, n, ram, fifo, verdict, late>>

\* A software thread sorts in place, one run of the inner loop at a time.
SortPass(t) ==
  LET run == Pass(Words(block[t]), n[t]) IN
  /\ Goto(t, "sort", IF run.swapped THEN "sort" ELSE "ack")
  /\ data' = Stored(block[t], run.array)
  /\ n' = [n EXCEPT ![t] = run.n_new]
  /\ UNCHANGED <<main, i, mb_start, mb_stop, block, ram, fifo, verdict, late>>

\* A hardware thread copies the block to its RAM, sorts there and writes it back.
\* What it reads is asked for behind the words that it has written.
Read(t) ==
  /\ fifo[t] = <<>>
  /\ Goto(t, "read", "sorting")
  /\ ram' = [ram EXCEPT ![t] = Words(block[t])]
  /\ UNCHANGED <<main, i, mb_start, mb_stop, block, n, fifo, data, verdict, late>>

Sorting(t) ==
  /\ Goto(t, "sorting", "write")
  /\ ram' = [ram EXCEPT ![t] = bubblesort(@)]
  /\ UNCHANGED <<main, i, mb_start, mb_stop, block, n, fifo, data, verdict, late>>

\* memif_write, a word at a time, is done with the last word in the FIFO.
Write(t) ==
  /\ Len(fifo[t]) < Depth
  /\ Goto(t, "write", IF Len(ram[t]) = 1 THEN "ack" ELSE "write")
  /\ fifo' = [fifo EXCEPT ![t] = Append(@, <<(block[t] + 1) * N + 1 - Len(ram[t]), Head(ram[t])>>)]
  /\ ram' = [ram EXCEPT ![t] = Tail(@)]
  /\ UNCHANGED <<main, i, mb_start, mb_stop, block, n, data, verdict, late>>

\* recursive_merge swaps its two buffers at every level: after an odd number of
\* levels `data` is the one where no thread writes.
BuffersSwapped == main \notin {"create", "put", "collect", "merge"} /\ Blocks \in {2, 8, 32}

\* The arbiter, the MMU and the memory controller take the words in their order.
Arrive(t) ==
  /\ fifo[t] # <<>>
  /\ fifo' = [fifo EXCEPT ![t] = Tail(@)]
  /\ data' = IF BuffersSwapped THEN data ELSE [data EXCEPT ![fifo[t][1][1]] = fifo[t][1][2]]
  /\ UNCHANGED <<main, i, mb_start, mb_stop, state, block, n, ram, verdict, late>>

Ack(t) ==
  /\ Goto(t, "ack", "get")
  /\ Len(mb_stop) < Blocks
  /\ mb_stop' = Append(mb_stop, block[t])
  /\ block' = [block EXCEPT ![t] = NoBlock]
  /\ UNCHANGED <<main, i, mb_start, memory>>

sort_thread(t) == Get(t, "sort") \/ SortPass(t) \/ Ack(t)
hwt_sort_demo(t) == Get(t, "read") \/ Read(t) \/ Sorting(t) \/ Write(t) \/ Ack(t)
MainSteps == \/ Create \/ Generate \/ PutBlocks \/ Collect
             \/ Merge \/ Check \/ Terminate \/ Join

Next ==
  \/ MainSteps
  \/ \E t \in SwThreads : sort_thread(t)
  \/ \E t \in HwThreads : hwt_sort_demo(t) \/ Arrive(t)

Spec == Init /\ [][Next]_vars

\* main and the software threads are scheduled, the hardware, the way
\* from a thread's FIFO to memory included, does not stop.
FairSpec ==
  /\ Spec /\ WF_vars(MainSteps)
  /\ \A t \in SwThreads : WF_vars(sort_thread(t))
  /\ \A t \in HwThreads : WF_vars(hwt_sort_demo(t) \/ Arrive(t))

-----------------------------------------------------------------------------
(* Properties *)

Ascending(a) == \A k \in 1 .. Len(a) - 1 : a[k] <= a[k + 1]
Occurrences(a, v) == Len(SelectSeq(a, LAMBDA w : w = v))
SameWords(a, b) == \A v \in Range(a) \cup Range(b) : Occurrences(a, v) = Occurrences(b, v)

\* Memory, and memory when every word on its way has arrived.
Sorted(array) == \A b \in 0 .. Blocks - 1 : Ascending(Slice(array, b, N))
Settled == [j \in 1 .. Size |-> IF \E w \in OnTheWay : w[1] = j
                                THEN (CHOOSE w \in OnTheWay : w[1] = j)[2] ELSE data[j]]

\* Counting acknowledgements is enough for the blocks: when main merges, no thread
\* has one in hand that it could still write, every block is sorted but for words
\* on their way, and no word is on its way behind a newer one.
MergesSorted ==
  main = "merge" => /\ \A t \in Threads : block[t] = NoBlock
                    /\ Sorted(Settled) /\ SameWords(Settled, generate_data)

\* It is not enough for memory: what main merges is sorted (sort_demo.c: "Wait for
\* results"; hwt_sort_demo.vhd: "signals that the sorting is finished").
MergesResults == main = "merge" => Sorted(data)

\* check_data says yes, and what it could not see holds as well: the array is the
\* generated one, which descends, backwards to its last word.
Verified ==
  main \in {"terminate", "join", "done"} => verdict = -1 /\ data = Reverse(generate_data)

\* bubblesort, whole and by halves with simple_merge, does for every short array
\* what the demo asks of them on its own descending data.  (Asked once, before a thread is created.)
SortsAny ==
  (\A t \in Threads : state[t] = "unborn") =>
    \A a \in [1 .. 4 -> 0 .. 2] :
      LET s == bubblesort(a)
          m == simple_merge(bubblesort(SubSeq(a, 1, 2)), bubblesort(SubSeq(a, 3, 4)))
      IN Ascending(s) /\ SameWords(s, a) /\ m = s

\* The demo's answer is right, and would be for other data, unless words came late: main
\* does not wait for them, but merges much later than the last one is put.
SortsRight == (~late => Verified) /\ SortsAny

\* The demo ends, with nothing left in the mailboxes: every thread has taken one
\* exit command, although nothing says which thread takes which.
Finishes == <>[](main = "done" /\ mb_start = <<>> /\ mb_stop = <<>>)

=============================================================================
