---------------------------- MODULE BoundedFifo ----------------------------
(***************************************************************************)
(* What a ReconOS message box promises to its callers: an atomic first-in  *)
(* first-out queue of Capacity messages.  A call takes effect in one step  *)
(* between its start and its return: a put waits for room, a get waits for *)
(* a message.  Module Mbox implements it.                                  *)
(***************************************************************************)
EXTENDS Naturals, Sequences

CONSTANTS
  Capacity,   \* messages the queue holds
  Putters,    \* threads that call put
  Getters,    \* threads that call get
  Messages,   \* the 32 bit words passed around
  NoMessage   \* no argument or result

VARIABLES
  fifo,       \* the messages in the box, oldest first
  call,       \* what each thread is doing
  val         \* the argument of a put, the result of a get

fifoVars == <<fifo, call, val>>

Threads == Putters \union Getters

Calls == {"none", "put", "putDone", "get", "getDone"}

FifoInit ==
  /\ fifo = << >>
  /\ call = [t \in Threads |-> "none"]
  /\ val = [t \in Threads |-> NoMessage]

CallPut(t, m) ==
  /\ call[t] = "none"
  /\ call' = [call EXCEPT ![t] = "put"]
  /\ val' = [val EXCEPT ![t] = m]
  /\ UNCHANGED fifo

DoPut(t) ==
  /\ call[t] = "put"
  /\ Len(fifo) < Capacity
  /\ fifo' = Append(fifo, val[t])
  /\ call' = [call EXCEPT ![t] = "putDone"]
  /\ UNCHANGED val

CallGet(t) ==
  /\ call[t] = "none"
  /\ call' = [call EXCEPT ![t] = "get"]
  /\ UNCHANGED <<fifo, val>>

DoGet(t) ==
  /\ call[t] = "get"
  /\ fifo # << >>
  /\ fifo' = Tail(fifo)
  /\ val' = [val EXCEPT ![t] = Head(fifo)]
  /\ call' = [call EXCEPT ![t] = "getDone"]

Return(t) ==
  /\ call[t] \in {"putDone", "getDone"}
  /\ call' = [call EXCEPT ![t] = "none"]
  /\ val' = [val EXCEPT ![t] = NoMessage]
  /\ UNCHANGED fifo

FifoNext ==
  \/ \E t \in Putters, m \in Messages : CallPut(t, m)
  \/ \E t \in Putters : DoPut(t)
  \/ \E t \in Getters : CallGet(t) \/ DoGet(t)
  \/ \E t \in Threads : Return(t)

FifoSpec == FifoInit /\ [][FifoNext]_fifoVars
=============================================================================
