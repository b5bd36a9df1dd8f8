--------------------------- MODULE DelegateProofs ---------------------------
(***************************************************************************)
(* For any slots, objects and programs: a mutex that a hardware thread     *)
(* believes it holds is its own, semaphores and boxes stay within bounds,  *)
(* and every heap block is accounted for.  The inductive invariant follows *)
(* a call through the link, the delegate and the link back.                *)
(*                                                                         *)
(* The second part is about the driver through which the delegates read    *)
(* their links.                                                            *)
(***************************************************************************)
EXTENDS Delegate, FslDriver, FiniteSetTheorems, TLAPS

USE DelegateAssumption

Commands ==
  {"MBOX_GET", "MBOX_PUT", "SEM_WAIT", "SEM_POST", "MUTEX_LOCK", "MUTEX_UNLOCK", "MUTEX_TRYLOCK", "COND_WAIT",
   "COND_SIGNAL", "COND_BROADCAST", "RQ_RECEIVE", "RQ_SEND", "GET_INIT_DATA", "THREAD_EXIT"}

\* Where the delegate may be with a call, after its handles were checked.
Serving(s, c) ==
  /\ HandlesFit(s, c)
  /\ \/ c.cmd \in Commands /\ pc[s] = c.cmd
     \/ c.cmd = "COND_WAIT" /\ pc[s] = "waiting"
     \/ c.cmd = "RQ_SEND" /\ pc[s] = "rqPut"
     \/ c.cmd = "RQ_RECEIVE" /\ pc[s] = "rqCopy"
     \/ c.cmd = "THREAD_EXIT" /\ pc[s] = "gone"

\* What is passed by value has its type.
ArgFits(c) ==
  /\ c.cmd = "MBOX_PUT" => c.arg \in Messages
  /\ c.cmd = "RQ_SEND" => c.arg \in MsgSizes

\* A slot has one call, which is on the link, with the delegate or answered.
OneCall ==
  /\ DOMAIN resources \subseteq Slots
  /\ DOMAIN request = Slots /\ DOMAIN reply = Slots /\ DOMAIN pc = Slots /\ DOMAIN cur = Slots
  /\ exited \in BOOLEAN
  /\ \A s \in Slots :
       /\ request[s] # Nothing =>
            /\ reply[s] = Nothing /\ pc[s] = "cmd"
            /\ request[s].cmd \in Commands \union {"unknown"} /\ ArgFits(request[s])
       /\ pc[s] # "cmd" => reply[s] = Nothing /\ Serving(s, cur[s]) /\ ArgFits(cur[s])

\* A mutex on its way to the delegate's unlock, and one its lock has answered.
Returning(s, m) ==
  \/ request[s] # Nothing /\ Gives(request[s], m)
  \/ pc[s] \in {"MUTEX_UNLOCK", "COND_WAIT"} /\ Gives(cur[s], m)

Granted(s, m) ==
  reply[s] # Nothing /\ Gets(cur[s], reply[s].val, m)

\* From the answer of a lock to the delegate's unlock the mutex is the slot's.
Ownership ==
  /\ DOMAIN holds = Slots
  /\ owner \in [Mutexes -> Slots \union {Nothing}]
  /\ \A s \in Slots :
       /\ holds[s] \subseteq Mutexes
       /\ \A m \in Mutexes : m \in holds[s] \/ Returning(s, m) \/ Granted(s, m) => owner[m] = s
       /\ \A m : Returning(s, m) => m \notin holds[s]
       /\ \A m : Granted(s, m) => m \in Mutexes

-----------------------------------------------------------------------------
\* What HandlesFit says of the objects a delegate works on.
LEMMA FittingHandles ==
  ASSUME NEW s, NEW c, HandlesFit(s, c)
  PROVE  /\ c.cmd \in {"MUTEX_LOCK", "MUTEX_UNLOCK", "MUTEX_TRYLOCK"} => c.h \in Mutexes
         /\ c.cmd = "COND_WAIT" => c.h \in Conds /\ c.arg \in Mutexes
         /\ c.cmd \in {"SEM_WAIT", "SEM_POST"} => c.h \in Sems
         /\ c.cmd \in {"MBOX_GET", "MBOX_PUT"} => c.h \in Mboxes
         /\ c.cmd \in {"RQ_SEND", "RQ_RECEIVE"} => c.h \in Rqs
<1>1. /\ TypeOf("MUTEX_LOCK") = Mutexes /\ TypeOf("MUTEX_UNLOCK") = Mutexes /\ TypeOf("MUTEX_TRYLOCK") = Mutexes
      /\ TypeOf("COND_WAIT") = Conds /\ TypeOf("SEM_WAIT") = Sems /\ TypeOf("SEM_POST") = Sems
      /\ TypeOf("MBOX_GET") = Mboxes /\ TypeOf("MBOX_PUT") = Mboxes
      /\ TypeOf("RQ_SEND") = Rqs /\ TypeOf("RQ_RECEIVE") = Rqs
  BY DEF TypeOf
<1> QED
  BY <1>1 DEF HandlesFit, WithoutHandle

\* The calls a hardware thread may make, right or wrong.
LEMMA Issued ==
  ASSUME NEW s \in Slots, NEW c \in Allowed(s) \union Wrong(s), holds[s] \subseteq Mutexes
  PROVE  /\ c.cmd \in Commands \union {"unknown"} /\ ArgFits(c)
         /\ \A m \in Mutexes : Gives(c, m) => m \in holds[s]
<1>1. CASE c \in Allowed(s)
  BY <1>1 DEF Allowed, Call, Commands, ArgFits, Gives
<1>2. CASE c \in Wrong(s)
  BY <1>2 DEF Wrong, Call, Commands, ArgFits, Gives
<1> QED
  BY <1>1, <1>2

-----------------------------------------------------------------------------
LEMMA InitOneCall == Init => OneCall /\ Ownership
<1> SUFFICES ASSUME Init PROVE OneCall /\ Ownership
  OBVIOUS
<1>1. OneCall
  BY DEF Init, OneCall
<1>2. Ownership
  BY DEF Init, Ownership, Returning, Granted
<1> QED
  BY <1>1, <1>2

\* Every case of the switch ends in an answer or goes on inside the case.
LEMMA AnswerOrContinue ==
  ASSUME OneCall, NEW s \in DOMAIN resources, pc[s] # "cmd", ~exited,
         (\E v : Answer(s, v)) \/ (\E to : Continue(s, to) /\ Serving(s, cur[s])')
  PROVE  OneCall'
BY DEF OneCall, Answer, Continue, links, Serving, HandlesFit

LEMMA SwitchSteps ==
  ASSUME OneCall, NEW s \in DOMAIN resources, delegate_thread_entry(s), ~Receive(s)
  PROVE  /\ ~exited /\ pc[s] # "cmd"
         /\ \/ \E v : Answer(s, v)
            \/ \E to : Continue(s, to) /\ Serving(s, cur[s])' /\ to \in {"waiting", "rqPut", "rqCopy", "gone"}
<1> USE DEF At
<1>1. CASE COND_WAIT(s) \/ RQ_SEND(s) \/ RQ_RECEIVE(s) \/ THREAD_EXIT(s)
  BY <1>1 DEF OneCall, Serving, HandlesFit, COND_WAIT, RQ_SEND, RQ_RECEIVE, THREAD_EXIT, Continue, links
<1>2. CASE MBOX_GET(s) \/ MBOX_PUT(s) \/ SEM_WAIT(s) \/ SEM_POST(s) \/ MUTEX_LOCK(s) \/ MUTEX_UNLOCK(s)
           \/ MUTEX_TRYLOCK(s)
  BY <1>2 DEF MBOX_GET, MBOX_PUT, SEM_WAIT, SEM_POST, MUTEX_LOCK, MUTEX_UNLOCK, MUTEX_TRYLOCK
<1>3. CASE CondReturn(s) \/ COND_SIGNAL(s) \/ COND_BROADCAST(s) \/ RqPut(s) \/ RqCopy(s) \/ GET_INIT_DATA(s)
  BY <1>3 DEF CondReturn, COND_SIGNAL, COND_BROADCAST, RqPut, RqCopy, GET_INIT_DATA
<1> QED
  BY <1>1, <1>2, <1>3 DEF delegate_thread_entry

LEMMA OneCallStep ==
  ASSUME OneCall, Ownership, [Next]_vars
  PROVE  OneCall'
<1>1. CASE UNCHANGED vars
  BY <1>1 DEF vars, OneCall, Serving, HandlesFit
<1>2. ASSUME NEW s \in DOMAIN resources, NEW c \in Allowed(s) \union Wrong(s), Issue(s, c) PROVE OneCall'
  <2>1. s \in Slots /\ c.cmd \in Commands \union {"unknown"} /\ ArgFits(c)
    BY Issued DEF OneCall, Ownership
  <2> QED
    BY <2>1, <1>2 DEF Issue, OneCall, Serving, HandlesFit
<1>3. ASSUME NEW s \in DOMAIN resources, Return(s) \/ Recreate(s) \/ Spurious(s) PROVE OneCall'
  BY <1>3 DEF Return, Recreate, Spurious, At, links, OneCall, Serving, HandlesFit
<1>4. ASSUME NEW s \in DOMAIN resources, Receive(s) PROVE OneCall'
  <2> DEFINE c == request[s]
  <2>1. /\ s \in Slots /\ ~exited /\ pc[s] = "cmd" /\ reply[s] = Nothing
        /\ c.cmd \in Commands \union {"unknown"} /\ ArgFits(c)
        /\ request' = [request EXCEPT ![s] = Nothing] /\ cur' = [cur EXCEPT ![s] = c]
        /\ resources' = resources /\ reply' = reply
    BY <1>4 DEF Receive, OneCall
  <2>2. CASE HandlesFit(s, c) /\ c.cmd # "unknown"
    <3>1. c.cmd \in Commands /\ HandlesFit(s, c) /\ pc' = [pc EXCEPT ![s] = c.cmd] /\ exited' = exited
      BY <1>4, <2>1, <2>2 DEF Receive
    <3> HIDE DEF c
    <3> QED
      BY <2>1, <3>1 DEF OneCall, Serving, HandlesFit
  <2>3. CASE ~(HandlesFit(s, c) /\ c.cmd # "unknown")
    <3>1. exited' = TRUE /\ pc' = pc
      BY <1>4, <2>3 DEF Receive
    <3> HIDE DEF c
    <3> QED
      BY <2>1, <3>1 DEF OneCall, Serving, HandlesFit
  <2> QED
    BY <2>2, <2>3
<1>5. ASSUME NEW s \in DOMAIN resources, delegate_thread_entry(s), ~Receive(s) PROVE OneCall'
  BY <1>5, SwitchSteps, AnswerOrContinue
<1> QED
  BY <1>1, <1>2, <1>3, <1>4, <1>5 DEF Next

-----------------------------------------------------------------------------
\* Ownership when the delegate of s changes no owner, and when it answers.
LEMMA OwnerKept ==
  ASSUME OneCall, Ownership, NEW s \in DOMAIN resources, pc[s] # "cmd", owner' = owner,
         \/ \E v : Answer(s, v) /\ \A m : ~Gets(cur[s], v, m)
         \/ \E to : Continue(s, to) /\ to \notin {"MUTEX_UNLOCK", "COND_WAIT"}
  PROVE  Ownership'
<1>1. CASE \E v : Answer(s, v) /\ \A m : ~Gets(cur[s], v, m)
  <2>1. PICK v : Answer(s, v) /\ \A m : ~Gets(cur[s], v, m)
    BY <1>1
  <2> QED
    BY <2>1 DEF Answer, OneCall, Ownership, Returning, Granted
<1>2. CASE \E to : Continue(s, to) /\ to \notin {"MUTEX_UNLOCK", "COND_WAIT"}
  BY <1>2 DEF Continue, links, OneCall, Ownership, Returning, Granted
<1> QED
  BY <1>1, <1>2

\* The delegate of s locks a free mutex and answers.
LEMMA OwnerGained ==
  ASSUME OneCall, Ownership, NEW s \in DOMAIN resources, pc[s] # "cmd", NEW m \in Mutexes, NEW v,
         owner[m] = Nothing, owner' = [owner EXCEPT ![m] = s], \A n : Gets(cur[s], v, n) => n = m, Answer(s, v)
  PROVE  Ownership'
<1>1. s \in Slots /\ \A n \in Mutexes \ {m} : owner'[n] = owner[n]
  BY DEF OneCall, Ownership
<1>2. owner'[m] = s /\ owner' \in [Mutexes -> Slots \union {Nothing}]
  BY <1>1 DEF Ownership
<1>3. ASSUME NEW u \in Slots \ {s} PROVE m \notin holds[u] /\ ~Returning(u, m) /\ ~Granted(u, m)
  BY <1>3 DEF Ownership
<1>4. m \notin holds[s] /\ ~Returning(s, m)
  BY <1>1 DEF Ownership
<1>5. \A u \in Slots : \A n : Returning(u, n)' => Returning(u, n)
  BY <1>1 DEF OneCall, Answer, Returning
<1>6. \A u \in Slots : \A n : Granted(u, n)' => IF u = s THEN n = m ELSE Granted(u, n)
  BY <1>1 DEF OneCall, Answer, Granted
<1>7. holds' = holds
  BY DEF Answer
<1> QED
  BY <1>1, <1>2, <1>3, <1>4, <1>5, <1>6, <1>7 DEF Ownership

\* The delegate of s gives up a mutex that its call has brought back.
LEMMA OwnerGivenUp ==
  ASSUME OneCall, Ownership, NEW s \in DOMAIN resources, pc[s] # "cmd", NEW m \in Mutexes,
         Returning(s, m), \A n : Returning(s, n) => n = m,
         owner' = [owner EXCEPT ![m] = Nothing], request' = request, cur' = cur, holds' = holds,
         \/ reply' = reply /\ pc' = [pc EXCEPT ![s] = "waiting"]
         \/ (\E v : Answer(s, v) /\ \A n : ~Gets(cur[s], v, n))
  PROVE  Ownership'
<1>1. s \in Slots /\ \A n \in Mutexes \ {m} : owner'[n] = owner[n]
  BY DEF OneCall, Ownership
<1>2. owner' \in [Mutexes -> Slots \union {Nothing}]
  BY <1>1 DEF Ownership
<1>3. owner[m] = s /\ m \notin holds[s] /\ ~Granted(s, m)
  BY <1>1 DEF Ownership, OneCall, Granted
<1>4. ASSUME NEW u \in Slots \ {s} PROVE m \notin holds[u] /\ ~Returning(u, m) /\ ~Granted(u, m)
  BY <1>3, <1>4 DEF Ownership
<1>5. \A u \in Slots : \A n : Returning(u, n)' => Returning(u, n) /\ u # s
  BY <1>1 DEF OneCall, Answer, Returning
<1>6. \A u \in Slots : \A n : Granted(u, n)' => Granted(u, n) /\ u # s
  BY <1>1 DEF OneCall, Answer, Granted
<1> QED
  BY <1>1, <1>2, <1>3, <1>4, <1>5, <1>6 DEF Ownership

LEMMA OwnershipStep ==
  ASSUME OneCall, Ownership, [Next]_vars
  PROVE  Ownership'
<1>1. CASE UNCHANGED vars
  BY <1>1 DEF vars, Ownership, Returning, Granted
<1>2. ASSUME NEW s \in DOMAIN resources, NEW c \in Allowed(s) \union Wrong(s), Issue(s, c) PROVE Ownership'
  <2>1. s \in Slots /\ holds[s] \subseteq Mutexes
    BY DEF OneCall, Ownership
  <2>2. \A m \in Mutexes : Gives(c, m) => m \in holds[s]
    BY <2>1, Issued
  <2>3. /\ pc[s] = "cmd" /\ reply[s] = Nothing /\ request[s] = Nothing /\ request' = [request EXCEPT ![s] = c]
        /\ holds' = [holds EXCEPT ![s] = @ \ {m \in Mutexes : Gives(c, m)}]
        /\ UNCHANGED <<reply, pc, cur, owner>>
    BY <1>2 DEF Issue, posix
  <2>4. \A u \in Slots : \A m : Returning(u, m)' => IF u = s THEN Gives(c, m) ELSE Returning(u, m)
    BY <2>1, <2>3 DEF OneCall, Returning
  <2>5. \A u \in Slots : \A m : Granted(u, m)' <=> Granted(u, m)
    BY <2>3 DEF Granted
  <2>6. \A u \in Slots : holds'[u] = IF u = s THEN holds[s] \ {m \in Mutexes : Gives(c, m)} ELSE holds[u]
    BY <2>1, <2>3 DEF Ownership
  <2>7. DOMAIN holds' = Slots /\ owner' = owner
    BY <2>3 DEF Ownership
  <2> QED
    BY <2>1, <2>2, <2>4, <2>5, <2>6, <2>7 DEF Ownership
<1>3. ASSUME NEW s \in DOMAIN resources, Return(s) PROVE Ownership'
  <2>1. s \in Slots /\ holds[s] \subseteq Mutexes /\ pc[s] = "cmd" /\ reply[s] # Nothing /\ request[s] = Nothing
    BY <1>3 DEF OneCall, Ownership, Return
  <2>2. /\ reply' = [reply EXCEPT ![s] = Nothing] /\ cur' = [cur EXCEPT ![s] = Nothing]
        /\ holds' = [holds EXCEPT ![s] = @ \union {m \in Mutexes : Gets(cur[s], reply[s].val, m)}]
        /\ UNCHANGED <<request, pc, owner>>
    BY <1>3 DEF Return, posix
  <2>3. \A u \in Slots : \A m : Returning(u, m)' => Returning(u, m) /\ u # s
    BY <2>1, <2>2 DEF OneCall, Returning
  <2>4. \A u \in Slots : \A m : Granted(u, m)' => Granted(u, m)
    BY <2>1, <2>2 DEF OneCall, Granted
  <2>5. \A m \in Mutexes : Gets(cur[s], reply[s].val, m) => Granted(s, m)
    BY <2>1 DEF Granted
  <2>6. \A u \in Slots : holds'[u] = IF u = s THEN holds[s] \union {m \in Mutexes : Gets(cur[s], reply[s].val,
       m)} ELSE holds[u]
    BY <2>1, <2>2 DEF Ownership
  <2>7. DOMAIN holds' = Slots /\ owner' = owner
    BY <2>2 DEF Ownership
  <2> QED
    BY <2>1, <2>3, <2>4, <2>5, <2>6, <2>7 DEF Ownership
<1>4. ASSUME NEW s \in DOMAIN resources, Recreate(s) \/ Spurious(s) PROVE Ownership'
  BY <1>4 DEF OneCall, Ownership, Returning, Granted, Recreate, Spurious, At, links, posix
<1>5. ASSUME NEW s \in DOMAIN resources, Receive(s) PROVE Ownership'
  <2>1. /\ s \in Slots /\ pc[s] = "cmd" /\ request[s] # Nothing /\ reply[s] = Nothing
        /\ request' = [request EXCEPT ![s] = Nothing] /\ cur' = [cur EXCEPT ![s] = request[s]]
        /\ pc' = pc \/ pc' = [pc EXCEPT ![s] = request[s].cmd]
        /\ UNCHANGED <<reply, holds, owner>>
    BY <1>5 DEF Receive, OneCall, posix
  <2>2. \A u \in Slots : \A m : Returning(u, m)' => Returning(u, m)
    BY <2>1 DEF OneCall, Returning
  <2>3. \A u \in Slots : \A m : Granted(u, m)' => Granted(u, m)
    BY <2>1 DEF OneCall, Granted
  <2> QED
    BY <2>1, <2>2, <2>3 DEF Ownership
<1>6. ASSUME NEW s \in DOMAIN resources, delegate_thread_entry(s), ~Receive(s) PROVE Ownership'
  <2> USE DEF At, posix
  <2>1. ~exited /\ pc[s] # "cmd" /\ s \in Slots /\ Serving(s, cur[s])
    BY <1>6, SwitchSteps DEF OneCall
  <2>2. CASE MBOX_GET(s) \/ MBOX_PUT(s) \/ SEM_WAIT(s) \/ SEM_POST(s) \/ COND_SIGNAL(s) \/ COND_BROADCAST(s)
             \/ RqPut(s) \/ RqCopy(s) \/ GET_INIT_DATA(s)
    <3>1. owner' = owner /\ \E v : Answer(s, v)
      BY <2>2 DEF MBOX_GET, MBOX_PUT, SEM_WAIT, SEM_POST, COND_SIGNAL, COND_BROADCAST, RqPut, RqCopy, GET_INIT_DATA
    <3>2. \A v, m : ~Gets(cur[s], v, m)
      BY <2>1, <2>2 DEF MBOX_GET, MBOX_PUT, SEM_WAIT, SEM_POST, COND_SIGNAL, COND_BROADCAST, RqPut, RqCopy,
         GET_INIT_DATA, Serving, Gets
    <3> QED
      BY <3>1, <3>2, <2>1, OwnerKept
  <2>3. CASE RQ_SEND(s) \/ RQ_RECEIVE(s) \/ THREAD_EXIT(s)
    <3>1. owner' = owner /\ \E to : Continue(s, to) /\ to \notin {"MUTEX_UNLOCK", "COND_WAIT"}
      BY <2>3 DEF RQ_SEND, RQ_RECEIVE, THREAD_EXIT
    <3> QED
      BY <3>1, <2>1, OwnerKept
  <2>4. CASE MUTEX_LOCK(s)
    <3>1. cur[s].cmd = "MUTEX_LOCK" /\ cur[s].h \in Mutexes
      BY <2>1, <2>4, FittingHandles DEF MUTEX_LOCK, Serving
    <3> QED
      BY <3>1, <2>1, <2>4, OwnerGained DEF MUTEX_LOCK, Gets
  <2>5. CASE MUTEX_TRYLOCK(s)
    <3>1. cur[s].cmd = "MUTEX_TRYLOCK" /\ cur[s].h \in Mutexes
      BY <2>1, <2>5, FittingHandles DEF MUTEX_TRYLOCK, Serving
    <3>2. CASE owner[cur[s].h] = Nothing
      BY <3>1, <3>2, <2>1, <2>5, OwnerGained DEF MUTEX_TRYLOCK, Gets
    <3>3. CASE owner[cur[s].h] # Nothing
      <4>1. owner' = owner /\ Answer(s, 16) /\ \A m : ~Gets(cur[s], 16, m)
        BY <3>1, <3>3, <2>5 DEF MUTEX_TRYLOCK, Gets
      <4> QED
        BY <4>1, <2>1, OwnerKept
    <3> QED
      BY <3>2, <3>3
  <2>6. CASE CondReturn(s)
    <3>1. cur[s].cmd = "COND_WAIT" /\ cur[s].arg \in Mutexes
      BY <2>1, <2>6, FittingHandles DEF CondReturn, Serving, Commands
    <3> QED
      BY <3>1, <2>1, <2>6, OwnerGained DEF CondReturn, Gets
  <2>7. CASE MUTEX_UNLOCK(s)
    <3>1. cur[s].cmd = "MUTEX_UNLOCK" /\ cur[s].h \in Mutexes /\ request[s] = Nothing
      BY <2>1, <2>7, FittingHandles DEF MUTEX_UNLOCK, Serving, OneCall
    <3>2. Returning(s, cur[s].h) /\ (\A n : Returning(s, n) => n = cur[s].h) /\ \A n : ~Gets(cur[s], 0, n)
      BY <3>1, <2>7 DEF MUTEX_UNLOCK, Returning, Gives, Gets
    <3>3. Answer(s,
         0) /\ request' = request /\ cur' = cur /\ holds' = holds /\ owner' = [owner EXCEPT ![cur[s].h] = Nothing]
      BY <2>7 DEF MUTEX_UNLOCK, Answer
    <3> QED
      BY <3>1, <3>2, <3>3, <2>1, OwnerGivenUp
  <2>8. CASE COND_WAIT(s)
    <3>1. cur[s].cmd = "COND_WAIT" /\ cur[s].arg \in Mutexes /\ request[s] = Nothing
      BY <2>1, <2>8, FittingHandles DEF COND_WAIT, Serving, OneCall, Commands
    <3>2. Returning(s, cur[s].arg) /\ (\A n : Returning(s, n) => n = cur[s].arg)
      BY <3>1, <2>8 DEF COND_WAIT, Returning, Gives
    <3> QED
      BY <3>1, <3>2, <2>1, <2>8, OwnerGivenUp DEF COND_WAIT, Continue, links
  <2> QED
    BY <1>6, <2>2, <2>3, <2>4, <2>5, <2>6, <2>7, <2>8 DEF delegate_thread_entry
<1> QED
  BY <1>1, <1>2, <1>3, <1>4, <1>5, <1>6 DEF Next

\* No two hardware threads are in one critical section, and none is in one that
\* the process does not know of: a mutex that a hardware thread believes it holds
\* is locked for its slot, across the links, trylock, condition waits with
\* spurious wake-ups, wrong calls and the reuse of slots.
THEOREM CriticalSections == Spec => []HeldIsOwned
<1>1. OneCall /\ Ownership => HeldIsOwned
  BY DEF Ownership, HeldIsOwned
<1> QED
  BY <1>1, InitOneCall, OneCallStep, OwnershipStep, PTL DEF Spec

-----------------------------------------------------------------------------
\* Slots with a sem_post on its way, each of which was made below SemMax.
Posting == [e \in Sems |->
  {s \in Slots : \/ request[s] # Nothing /\ request[s].cmd = "SEM_POST" /\ request[s].h = e
                 \/ pc[s] = "SEM_POST" /\ cur[s].h = e}]

PosixBounded ==
  /\ sem \in [Sems -> Nat]
  /\ \A e \in Sems : sem[e] + Cardinality(Posting[e]) <= SemMax + Cardinality(Slots)
  /\ waiters \in [Conds -> SUBSET Slots]

LEMMA SlotCount ==
  ASSUME NEW S \in SUBSET Slots
  PROVE  /\ Cardinality(S) \in Nat /\ Cardinality(S) <= Cardinality(Slots) /\ Cardinality(Slots) \in Nat
         /\ \A T \in SUBSET S : Cardinality(T) \in Nat /\ Cardinality(T) <= Cardinality(S)
         /\ \A s \in S : Cardinality(S \ {s}) = Cardinality(S) - 1
<1>1. IsFiniteSet(S)
  BY FS_Subset
<1> QED
  BY <1>1, FS_Subset, FS_CardinalityType, FS_RemoveElement

LEMMA PosixStep ==
  ASSUME OneCall, Ownership, PosixBounded, [Next]_vars
  PROVE  PosixBounded'
<1>0. ASSUME \A e \in Sems : Posting'[e] \subseteq Posting[e], sem' = sem PROVE
        sem' \in [Sems -> Nat] /\ \A e \in Sems : sem'[e] + Cardinality(Posting'[e]) <= SemMax + Cardinality(Slots)
  <2> SUFFICES ASSUME NEW e \in Sems PROVE sem'[e] + Cardinality(Posting'[e]) <= SemMax + Cardinality(Slots)
    BY <1>0 DEF PosixBounded
  <2>1. Posting[e] \in SUBSET Slots /\ Posting'[e] \in SUBSET Posting[e]
    BY <1>0 DEF Posting
  <2>2. Cardinality(Posting[e]) \in Nat /\ Cardinality(Posting'[e]) \in Nat /\ Cardinality(Posting'[e]) <= Cardinality(Posting[e])
        /\ Cardinality(Slots) \in Nat
    BY <2>1, SlotCount
  <2> QED
    BY <2>2, <1>0 DEF PosixBounded
<1>1. CASE UNCHANGED vars
  BY <1>1, <1>0 DEF vars, PosixBounded, Posting
<1>2. ASSUME NEW s \in DOMAIN resources, NEW c \in Allowed(s) \union Wrong(s), Issue(s, c) PROVE PosixBounded'
  <2>1. waiters' \in [Conds -> SUBSET Slots] /\ sem' \in [Sems -> Nat] /\ sem' = sem
    BY <1>2 DEF Issue, posix, PosixBounded
  <2>2. ASSUME NEW e \in Sems PROVE sem'[e] + Cardinality(Posting'[e]) <= SemMax + Cardinality(Slots)
    <3>1. Posting[e] \in SUBSET Slots /\ Posting'[e] \in SUBSET Slots
      BY DEF Posting
    <3>2. Cardinality(Posting[e]) \in Nat /\ Cardinality(Posting'[e]) \in Nat /\ Cardinality(Slots) \in Nat
          /\ Cardinality(Posting'[e]) <= Cardinality(Slots)
      BY <3>1, SlotCount
    <3>3. CASE c.cmd = "SEM_POST" /\ c.h = e
      <4>1. sem[e] < SemMax
        BY <3>3, <1>2 DEF Issue
      <4> QED
        BY <4>1, <3>2, <2>1
    <3>4. CASE ~(c.cmd = "SEM_POST" /\ c.h = e)
      <4>1. Posting'[e] \in SUBSET Posting[e]
        BY <1>2, <3>4 DEF Issue, Posting, OneCall
      <4>2. Cardinality(Posting'[e]) <= Cardinality(Posting[e])
        BY <4>1, <3>1, SlotCount
      <4> QED
        BY <4>2, <3>2, <2>1 DEF PosixBounded
    <3> QED
      BY <3>3, <3>4
  <2> QED
    BY <2>1, <2>2 DEF PosixBounded
<1>3. ASSUME NEW s \in DOMAIN resources, Return(s) \/ Recreate(s) \/ Spurious(s) \/ Receive(s) PROVE PosixBounded'
  <2>1. \A e \in Sems : Posting'[e] \subseteq Posting[e]
    <3>1. s \in Slots
      BY DEF OneCall
    <3>2. CASE Return(s)
      BY <3>1, <3>2 DEF Return, OneCall, Posting
    <3>3. CASE Recreate(s)
      BY <3>1, <3>3 DEF Recreate, At, OneCall, Posting
    <3>4. CASE Spurious(s)
      BY <3>4 DEF Spurious, links, Posting
    <3>5. CASE Receive(s)
      <4>1. /\ pc[s] = "cmd" /\ request[s] # Nothing
            /\ request' = [request EXCEPT ![s] = Nothing] /\ cur' = [cur EXCEPT ![s] = request[s]]
            /\ pc' = pc \/ pc' = [pc EXCEPT ![s] = request[s].cmd]
        BY <3>5 DEF Receive
      <4> QED
        BY <4>1, <3>1 DEF OneCall, Posting
    <3> QED
      BY <1>3, <3>2, <3>3, <3>4, <3>5
  <2>2. sem' = sem /\ waiters' \in [Conds -> SUBSET Slots]
    BY <1>3 DEF Return, Recreate, Spurious, Receive, posix, PosixBounded
  <2> QED
    BY <1>0, <2>1, <2>2 DEF PosixBounded
<1>4. ASSUME NEW s \in DOMAIN resources, delegate_thread_entry(s), ~Receive(s) PROVE PosixBounded'
  <2>1. s \in Slots /\ pc[s] # "cmd" /\ Serving(s, cur[s]) /\ request[s] = Nothing
    BY <1>4, SwitchSteps DEF OneCall
  <2>2. request' = request /\ cur' = cur /\ \E to : pc' = [pc EXCEPT ![s] = to] /\ to # "SEM_POST"
    BY SMTT(30), <1>4, SwitchSteps DEF Answer, Continue, links
  <2>3. \A e \in Sems : Posting'[e] \subseteq Posting[e] \ {s}
    BY <2>1, <2>2 DEF OneCall, Posting
  <2>4. waiters' \in [Conds -> SUBSET Slots]
    BY <1>4, <2>1 DEF posix, PosixBounded, delegate_thread_entry, MBOX_GET, MBOX_PUT, SEM_WAIT, SEM_POST,
       MUTEX_LOCK, MUTEX_UNLOCK, MUTEX_TRYLOCK, COND_WAIT, CondReturn, COND_SIGNAL, COND_BROADCAST, RQ_SEND, RqPut,
       RQ_RECEIVE, RqCopy, GET_INIT_DATA, THREAD_EXIT
  <2>5. CASE SEM_WAIT(s) \/ SEM_POST(s)
    <3>1. cur[s].h \in Sems
      BY <2>1, <2>5, FittingHandles DEF SEM_WAIT, SEM_POST, At, Serving
    <3>2. SEM_POST(s) => s \in Posting[cur[s].h]
      BY <2>1, <3>1 DEF SEM_POST, At, Posting
    <3>3. \A e \in Sems : sem[e] \in Nat /\ sem'[e] \in Nat
                          /\ sem'[e] <= (IF SEM_POST(s) /\ e = cur[s].h THEN sem[e] + 1 ELSE sem[e])
      BY <2>5, <3>1 DEF SEM_WAIT, SEM_POST, PosixBounded
    <3>4. sem' \in [Sems -> Nat]
      BY <2>5, <3>1, <3>3 DEF SEM_WAIT, SEM_POST, PosixBounded
    <3>5. ASSUME NEW e \in Sems PROVE sem'[e] + Cardinality(Posting'[e]) <= SemMax + Cardinality(Slots)
      <4>1. Posting[e] \in SUBSET Slots /\ Posting[e] \ {s} \in SUBSET Slots /\ Posting'[e] \in SUBSET (Posting[e] \ {s})
            /\ Posting'[e] \in SUBSET Posting[e]
        BY <2>3 DEF Posting
      <4>2. Cardinality(Posting'[e]) \in Nat /\ Cardinality(Posting[e]) \in Nat /\ Cardinality(Slots) \in Nat
            /\ Cardinality(Posting'[e]) <= Cardinality(Posting[e])
            /\ Cardinality(Posting'[e]) <= Cardinality(Posting[e] \ {s})
        BY <4>1, SlotCount
      <4>3. s \in Posting[e] => Cardinality(Posting[e] \ {s}) = Cardinality(Posting[e]) - 1
        BY <4>1, SlotCount
      <4>4. sem[e] + Cardinality(Posting[e]) <= SemMax + Cardinality(Slots)
        BY DEF PosixBounded
      <4> QED
        BY <4>2, <4>3, <4>4, <3>2, <3>3
    <3> QED
      BY <2>4, <3>4, <3>5 DEF PosixBounded
  <2>6. CASE ~(SEM_WAIT(s) \/ SEM_POST(s))
    <3>1. sem' = sem
      BY <1>4, <2>6 DEF posix, delegate_thread_entry, MBOX_GET, MBOX_PUT, MUTEX_LOCK, MUTEX_UNLOCK, MUTEX_TRYLOCK,
         COND_WAIT, CondReturn, COND_SIGNAL, COND_BROADCAST, RQ_SEND, RqPut, RQ_RECEIVE, RqCopy, GET_INIT_DATA,
              THREAD_EXIT
    <3> QED
      BY SMTT(30), <1>0, <2>3, <2>4, <3>1 DEF PosixBounded
  <2> QED
    BY <2>5, <2>6
<1> QED
  BY <1>1, <1>2, <1>3, <1>4 DEF Next

-----------------------------------------------------------------------------
QueueTypes ==
  /\ mbox \in [Mboxes -> Seq(Messages)] /\ \A b \in Mboxes : Len(mbox[b]) <= Capacity
  /\ rq \in [Rqs -> Seq(Blocks)] /\ \A q \in Rqs : Len(rq[q]) <= Capacity
  /\ heap \in [Blocks -> MsgSizes \union {Nothing}]
  /\ blk \in [Slots -> Blocks \union {Nothing}]
  /\ lost \subseteq Blocks

\* A delegate has a block in hand inside rq_send and rq_receive only.
InHand == \A s \in Slots : blk[s] # Nothing <=> pc[s] \in {"rqPut", "rqCopy"}

\* A block that is in one place is in no other, and is allocated.
QueuedOnce ==
  \A q \in Rqs : \A i \in 1 .. Len(rq[q]) :
    /\ heap[rq[q][i]] # Nothing /\ rq[q][i] \notin lost
    /\ \A s \in Slots : blk[s] # rq[q][i]
    /\ \A r \in Rqs : \A j \in 1 .. Len(rq[r]) : rq[r][j] = rq[q][i] => r = q /\ j = i

HeldOnce ==
  \A s \in Slots : blk[s] # Nothing =>
    /\ heap[blk[s]] # Nothing /\ blk[s] \notin lost
    /\ \A u \in Slots : blk[u] = blk[s] => u = s

LostOnce == \A b \in lost : heap[b] # Nothing

\* An allocated block is in some place.
NoneLeaked ==
  \A b \in Blocks : heap[b] # Nothing =>
    \/ b \in lost
    \/ \E s \in Slots : blk[s] = b
    \/ \E q \in Rqs : \E i \in 1 .. Len(rq[q]) : rq[q][i] = b

HeapInv == QueueTypes /\ InHand /\ QueuedOnce /\ HeldOnce /\ LostOnce /\ NoneLeaked

\* The steps that have nothing to do with queues.
LEMMA HeapKept ==
  ASSUME OneCall, HeapInv, NEW s \in Slots, UNCHANGED <<rq, heap, blk, lost>>,
         mbox' \in [Mboxes -> Seq(Messages)], \A b \in Mboxes : Len(mbox'[b]) <= Capacity,
         pc' = pc \/ (pc[s] \notin {"rqPut", "rqCopy"}
                      /\ \E to : pc' = [pc EXCEPT ![s] = to] /\ to \notin {"rqPut", "rqCopy"})
  PROVE  HeapInv'
<1>1. QueueTypes'
  BY DEF HeapInv, QueueTypes
<1>3. QueuedOnce' /\ HeldOnce' /\ LostOnce' /\ NoneLeaked'
  <2>1. rq' = rq /\ heap' = heap /\ blk' = blk /\ lost' = lost
    OBVIOUS
  <2>2. QueuedOnce'
    BY <2>1, Zenon DEF HeapInv, QueuedOnce
  <2>3. HeldOnce' /\ LostOnce'
    BY <2>1 DEF HeapInv, HeldOnce, LostOnce
  <2>4. NoneLeaked'
    BY <2>1, Zenon DEF HeapInv, NoneLeaked
  <2> QED
    BY <2>2, <2>3, <2>4
<1>2. InHand'
  BY DEF HeapInv, InHand, OneCall
<1> QED
  BY <1>1, <1>2, <1>3 DEF HeapInv

LEMMA AllocStep ==
  ASSUME OneCall, HeapInv, NEW s \in Slots, RQ_SEND(s)
  PROVE  HeapInv'
<1>1. PICK b \in Blocks : /\ heap[b] = Nothing /\ heap' = [heap EXCEPT ![b] = cur[s].arg]
                          /\ blk' = [blk EXCEPT ![s] = b]
  BY DEF RQ_SEND
<1>2. /\ pc[s] = "RQ_SEND" /\ pc' = [pc EXCEPT ![s] = "rqPut"] /\ UNCHANGED <<mbox, rq, lost>>
      /\ cur[s].arg \in MsgSizes /\ cur[s].arg # Nothing
  BY DEF RQ_SEND, At, Continue, OneCall, Serving, ArgFits
<1>3. b \notin lost /\ (\A u \in Slots : blk[u] # b) /\ blk[s] = Nothing
      /\ \A q \in Rqs : \A i \in 1 .. Len(rq[q]) : rq[q][i] # b
  BY <1>1, <1>2 DEF HeapInv, QueuedOnce, HeldOnce, LostOnce, InHand
<1>4. QueueTypes' /\ InHand'
  BY <1>1, <1>2 DEF HeapInv, QueueTypes, InHand, OneCall
<1>5. blk'[s] = b /\ (\A u \in Slots \ {s} : blk'[u] = blk[u])
      /\ heap'[b] # Nothing /\ (\A c \in Blocks \ {b} : heap'[c] = heap[c])
  BY <1>1, <1>2 DEF HeapInv, QueueTypes
<1>6. \A q \in Rqs : \A i \in 1 .. Len(rq[q]) : rq[q][i] \in Blocks \ {b}
  BY <1>3 DEF HeapInv, QueueTypes
<1>7. QueuedOnce'
  BY <1>2, <1>5, <1>6 DEF HeapInv, QueuedOnce
<1>8. HeldOnce' /\ LostOnce'
  <2>1. lost \subseteq Blocks \ {b} /\ \A u \in Slots : blk[u] # Nothing => blk[u] \in Blocks \ {b}
    BY <1>3 DEF HeapInv, QueueTypes
  <2> QED
    BY <2>1, <1>2, <1>3, <1>5 DEF HeapInv, HeldOnce, LostOnce
<1>9. NoneLeaked'
  <2> SUFFICES ASSUME NEW c \in Blocks, heap'[c] # Nothing, c \notin lost, \A u \in Slots : blk'[u] # c
               PROVE  \E r \in Rqs : \E i \in 1 .. Len(rq[r]) : rq[r][i] = c
    BY <1>2 DEF NoneLeaked
  <2>1. c # b /\ heap[c] # Nothing /\ \A u \in Slots : blk[u] # c
    BY <1>3, <1>5
  <2> QED
    BY <2>1 DEF HeapInv, NoneLeaked
<1> QED
  BY <1>4, <1>7, <1>8, <1>9 DEF HeapInv

LEMMA RqPutStep ==
  ASSUME OneCall, HeapInv, NEW s \in Slots, RqPut(s)
  PROVE  HeapInv'
<1> DEFINE q == cur[s].h  b == blk[s]  n == Len(rq[q])
<1>1. pc[s] = "rqPut" /\ q \in Rqs
  BY FittingHandles DEF RqPut, At, OneCall, Serving, Commands
<1>2. b \in Blocks /\ n \in Nat /\ n < Capacity /\ rq[q] \in Seq(Blocks)
  BY <1>1 DEF RqPut, HeapInv, QueueTypes, InHand
<1>3. /\ rq' = [rq EXCEPT ![q] = Append(@, b)] /\ blk' = [blk EXCEPT ![s] = Nothing]
      /\ pc' = [pc EXCEPT ![s] = "cmd"] /\ UNCHANGED <<mbox, heap, lost>>
  BY DEF RqPut, Answer
<1>4. /\ rq' \in [Rqs -> Seq(Blocks)] /\ Len(rq'[q]) = n + 1 /\ rq'[q][n + 1] = b
      /\ \A i \in 1 .. n : rq'[q][i] = rq[q][i]
      /\ \A r \in Rqs \ {q} : rq'[r] = rq[r]
  BY <1>1, <1>2, <1>3 DEF HeapInv, QueueTypes
<1>5. heap[b] # Nothing /\ b \notin lost /\ (\A u \in Slots : blk[u] = b => u = s)
      /\ \A r \in Rqs : \A i \in 1 .. Len(rq[r]) : rq[r][i] # b
  BY <1>1, <1>2 DEF HeapInv, QueuedOnce, HeldOnce, InHand
<1>6. QueueTypes' /\ InHand'
  BY <1>1, <1>2, <1>3, <1>4 DEF HeapInv, QueueTypes, InHand, OneCall
<1>7. blk' \in [Slots -> Blocks \union {Nothing}] /\ blk'[s] = Nothing /\ \A u \in Slots \ {s} : blk'[u] = blk[u]
  BY <1>3 DEF HeapInv, QueueTypes
<1> HIDE DEF q, b, n
<1>8. QueuedOnce'
  BY <1>1, <1>2, <1>3, <1>4, <1>5, <1>7 DEF HeapInv, QueueTypes, QueuedOnce
<1>9. HeldOnce' /\ LostOnce'
  BY <1>3, <1>7 DEF HeapInv, HeldOnce, LostOnce
<1>10. NoneLeaked'
  <2> SUFFICES ASSUME NEW c \in Blocks, heap[c] # Nothing, c \notin lost, \A u \in Slots : blk'[u] # c
               PROVE  \E r \in Rqs : \E i \in 1 .. Len(rq'[r]) : rq'[r][i] = c
    BY <1>3 DEF NoneLeaked
  <2>1. CASE c = b
    BY <2>1, <1>1, <1>2, <1>4
  <2>2. CASE c # b
    <3>1. PICK r \in Rqs : \E i \in 1 .. Len(rq[r]) : rq[r][i] = c
      BY <2>2, <1>7 DEF HeapInv, NoneLeaked, b
    <3> QED
      BY <3>1, <1>1, <1>2, <1>4 DEF n
  <2> QED
    BY <2>1, <2>2
<1> QED
  BY <1>6, <1>8, <1>9, <1>10 DEF HeapInv

LEMMA RqReceiveStep ==
  ASSUME OneCall, HeapInv, NEW s \in Slots, RQ_RECEIVE(s)
  PROVE  HeapInv'
<1> DEFINE q == cur[s].h  b == Head(rq[q])  n == Len(rq[q])
<1>1. pc[s] = "RQ_RECEIVE" /\ q \in Rqs
  BY FittingHandles DEF RQ_RECEIVE, At, OneCall, Serving, Commands
<1>2. rq[q] \in Seq(Blocks) /\ n \in Nat \ {0} /\ b = rq[q][1] /\ b \in Blocks /\ n <= Capacity /\ blk[s] = Nothing
  BY SMTT(30), <1>1 DEF RQ_RECEIVE, HeapInv, QueueTypes, InHand
<1>3. /\ rq' = [rq EXCEPT ![q] = Tail(@)] /\ blk' = [blk EXCEPT ![s] = b]
      /\ pc' = [pc EXCEPT ![s] = "rqCopy"] /\ UNCHANGED <<mbox, heap, lost>>
  BY DEF RQ_RECEIVE, Continue
<1>4. /\ rq' \in [Rqs -> Seq(Blocks)] /\ Len(rq'[q]) = n - 1
      /\ \A i \in 1 .. n - 1 : rq'[q][i] = rq[q][i + 1]
      /\ \A r \in Rqs \ {q} : rq'[r] = rq[r]
  BY <1>1, <1>2, <1>3 DEF HeapInv, QueueTypes
<1>5. heap[b] # Nothing /\ b \notin lost /\ (\A u \in Slots : blk[u] # b)
      /\ \A r \in Rqs : \A i \in 1 .. Len(rq[r]) : rq[r][i] = b => r = q /\ i = 1
  BY <1>1, <1>2 DEF HeapInv, QueuedOnce
<1>6. QueueTypes' /\ InHand'
  BY <1>1, <1>2, <1>3, <1>4 DEF HeapInv, QueueTypes, InHand, OneCall
<1>7. blk'[s] = b /\ \A u \in Slots \ {s} : blk'[u] = blk[u]
  BY <1>3 DEF HeapInv, QueueTypes
<1> HIDE DEF q, b, n
<1>8. QueuedOnce'
  <2>1. ASSUME NEW r \in Rqs, NEW i \in 1 .. Len(rq'[r])
        PROVE  \E j \in 1 .. Len(rq[r]) : rq'[r][i] = rq[r][j] /\ j = (IF r = q THEN i + 1 ELSE i)
    <3>1. CASE r = q
      <4>1. i \in 1 .. n - 1 /\ i + 1 \in 1 .. n
        BY <3>1, <1>2, <1>4
      <4> QED
        BY <3>1, <4>1, <1>2, <1>4 DEF n
    <3>2. CASE r # q
      BY <3>2, <1>4
    <3> QED
      BY <3>1, <3>2
  <2> SUFFICES ASSUME NEW r \in Rqs, NEW i \in 1 .. Len(rq'[r])
               PROVE  /\ heap[rq'[r][i]] # Nothing /\ rq'[r][i] \notin lost
                      /\ \A u \in Slots : blk'[u] # rq'[r][i]
                      /\ \A p \in Rqs : \A k \in 1 .. Len(rq'[p]) : rq'[p][k] = rq'[r][i] => p = r /\ k = i
    <3>1. heap' = heap /\ lost' = lost
      BY <1>3
    <3> QED
      BY <3>1, Zenon DEF QueuedOnce
  <2>2. PICK j \in 1 .. Len(rq[r]) : rq'[r][i] = rq[r][j] /\ j = (IF r = q THEN i + 1 ELSE i)
    BY <2>1
  <2>3. i \in Nat \ {0}
    BY <1>4
  <2>4. heap[rq'[r][i]] # Nothing /\ rq'[r][i] \notin lost /\ \A u \in Slots : blk[u] # rq'[r][i]
    BY <2>2 DEF HeapInv, QueuedOnce
  <2>5. rq'[r][i] # b
    BY <2>2, <2>3, <1>5
  <2>6. ASSUME NEW p \in Rqs, NEW k \in 1 .. Len(rq'[p]), rq'[p][k] = rq'[r][i] PROVE p = r /\ k = i
    <3>1. PICK l \in 1 .. Len(rq[p]) : rq'[p][k] = rq[p][l] /\ l = (IF p = q THEN k + 1 ELSE k)
      BY <2>1
    <3>2. p = r /\ l = j
      BY <2>2, <2>6, <3>1 DEF HeapInv, QueuedOnce
    <3> QED
      BY <2>2, <2>3, <3>1, <3>2, <1>4
  <2> QED
    BY <2>4, <2>5, <2>6, <1>7
<1>9. HeldOnce' /\ LostOnce'
  BY <1>2, <1>3, <1>5, <1>7 DEF HeapInv, HeldOnce, LostOnce
<1>10. NoneLeaked'
  <2> SUFFICES ASSUME NEW c \in Blocks, heap[c] # Nothing, c \notin lost, \A u \in Slots : blk'[u] # c
               PROVE  \E r \in Rqs : \E i \in 1 .. Len(rq'[r]) : rq'[r][i] = c
    BY <1>3 DEF NoneLeaked
  <2>1. c # b /\ \A u \in Slots : blk[u] # c
    BY <1>2, <1>7
  <2>2. PICK r \in Rqs : \E i \in 1 .. Len(rq[r]) : rq[r][i] = c
    BY <2>1 DEF HeapInv, NoneLeaked
  <2>5. PICK i \in 1 .. Len(rq[r]) : rq[r][i] = c
    BY <2>2
  <2>3. CASE r = q
    <3>1. i # 1
      BY <2>1, <2>5, <2>3, <1>2
    <3>2. i - 1 \in 1 .. n - 1 /\ (i - 1) + 1 = i
      BY <3>1, <2>3, <1>2 DEF n
    <3> QED
      BY <3>2, <2>5, <2>3, <1>4
  <2>4. CASE r # q
    BY <2>5, <2>4, <1>4
  <2> QED
    BY <2>3, <2>4
<1> QED
  BY <1>6, <1>8, <1>9, <1>10 DEF HeapInv

LEMMA RqCopyStep ==
  ASSUME OneCall, HeapInv, NEW s \in Slots, RqCopy(s)
  PROVE  HeapInv'
<1> DEFINE b == blk[s]
<1>1. pc[s] = "rqCopy" /\ b \in Blocks
  BY DEF RqCopy, At, HeapInv, QueueTypes, InHand
<1>2. /\ \/ heap' = [heap EXCEPT ![b] = Nothing] /\ lost' = lost
         \/ heap' = heap /\ lost' = lost \union {b}
      /\ blk' = [blk EXCEPT ![s] = Nothing] /\ pc' = [pc EXCEPT ![s] = "cmd"] /\ UNCHANGED <<mbox, rq>>
  BY DEF RqCopy, Answer
<1>3. heap[b] # Nothing /\ b \notin lost /\ (\A u \in Slots : blk[u] = b => u = s)
      /\ \A r \in Rqs : \A i \in 1 .. Len(rq[r]) : rq[r][i] # b
  BY <1>1 DEF HeapInv, QueuedOnce, HeldOnce, InHand
<1>4. QueueTypes' /\ InHand'
  BY <1>1, <1>2 DEF HeapInv, QueueTypes, InHand, OneCall
<1>5. blk'[s] = Nothing /\ \A u \in Slots \ {s} : blk'[u] = blk[u]
  BY <1>2 DEF HeapInv, QueueTypes
<1>6. \A c \in Blocks : c # b => heap'[c] = heap[c] /\ (c \in lost' <=> c \in lost)
  BY <1>1, <1>2 DEF HeapInv, QueueTypes
<1>7. b \in lost' \/ heap'[b] = Nothing
  BY <1>1, <1>2 DEF HeapInv, QueueTypes
<1>8. QueuedOnce'
  BY <1>2, <1>3, <1>5, <1>6 DEF HeapInv, QueueTypes, QueuedOnce
<1>9. HeldOnce' /\ LostOnce'
  BY <1>2, <1>3, <1>5, <1>6 DEF HeapInv, QueueTypes, HeldOnce, LostOnce
<1>10. NoneLeaked'
  BY <1>2, <1>5, <1>6, <1>7 DEF HeapInv, NoneLeaked
<1> QED
  BY <1>4, <1>8, <1>9, <1>10 DEF HeapInv

LEMMA HeapStep ==
  ASSUME OneCall, Ownership, HeapInv, [Next]_vars
  PROVE  HeapInv'
<1> USE DEF queues
<1>0. mbox \in [Mboxes -> Seq(Messages)] /\ \A b \in Mboxes : Len(mbox[b]) <= Capacity
  BY DEF HeapInv, QueueTypes
<1>1. CASE UNCHANGED vars
  <2>1. mbox' = mbox /\ rq' = rq /\ heap' = heap /\ blk' = blk /\ lost' = lost /\ pc' = pc
    BY <1>1 DEF vars
  <2>2. QueueTypes' /\ InHand'
    BY <2>1 DEF HeapInv, QueueTypes, InHand
  <2>3. QueuedOnce'
    BY <2>1 DEF HeapInv, QueuedOnce
  <2>4. HeldOnce' /\ LostOnce'
    BY <2>1 DEF HeapInv, HeldOnce, LostOnce
  <2>5. NoneLeaked'
    BY <2>1 DEF HeapInv, NoneLeaked
  <2> QED
    BY <2>2, <2>3, <2>4, <2>5 DEF HeapInv
<1>2. ASSUME NEW s \in DOMAIN resources, Return(s) \/ Recreate(s) \/ Spurious(s) \/ \E c : Issue(s,
             c) PROVE HeapInv'
  <2>1. s \in Slots /\ UNCHANGED <<mbox, rq, heap, blk, lost>>
        /\ (pc' = pc \/ (pc[s] = "gone" /\ pc' = [pc EXCEPT ![s] = "cmd"]))
    BY <1>2 DEF OneCall, Return, Recreate, At, Spurious, Issue
  <2> QED
    BY <2>1, <1>0, HeapKept
<1>3. ASSUME NEW s \in DOMAIN resources, Receive(s) PROVE HeapInv'
  <2>1. s \in Slots /\ UNCHANGED <<mbox, rq, heap, blk, lost>> /\ pc[s] = "cmd"
        /\ (pc' = pc \/ pc' = [pc EXCEPT ![s] = request[s].cmd]) /\ request[s].cmd \in Commands \union {"unknown"}
    BY <1>3 DEF OneCall, Receive
  <2> QED
    BY <2>1, <1>0, HeapKept DEF Commands
<1>4. ASSUME NEW s \in DOMAIN resources, delegate_thread_entry(s), ~Receive(s) PROVE HeapInv'
  <2>1. s \in Slots /\ pc[s] # "cmd" /\ Serving(s, cur[s]) /\ ArgFits(cur[s])
    BY <1>4, SwitchSteps DEF OneCall
  <2>2. CASE RQ_SEND(s) \/ RqPut(s) \/ RQ_RECEIVE(s) \/ RqCopy(s)
    BY <2>1, <2>2, AllocStep, RqPutStep, RqReceiveStep, RqCopyStep
  <2>3. CASE MBOX_GET(s) \/ MBOX_PUT(s)
    <3>1. cur[s].h \in Mboxes /\ (MBOX_PUT(s) => cur[s].arg \in Messages)
      BY <2>1, <2>3, FittingHandles DEF MBOX_GET, MBOX_PUT, At, Serving, ArgFits
    <3>2. mbox' \in [Mboxes -> Seq(Messages)] /\ \A b \in Mboxes : Len(mbox'[b]) <= Capacity
      <4>1. CASE MBOX_GET(s)
        BY <4>1, <3>1, <1>0 DEF MBOX_GET
      <4>2. CASE MBOX_PUT(s)
        BY <4>2, <3>1, <1>0 DEF MBOX_PUT
      <4> QED
        BY <2>3, <4>1, <4>2
    <3>3. /\ UNCHANGED <<rq, heap, blk, lost>> /\ pc[s] \notin {"rqPut", "rqCopy"}
          /\ \E to : pc' = [pc EXCEPT ![s] = to] /\ to \notin {"rqPut", "rqCopy"}
      <4>1. /\ UNCHANGED <<rq, heap, blk, lost>> /\ pc[s] \in {"MBOX_GET", "MBOX_PUT"}
            /\ pc' = [pc EXCEPT ![s] = "cmd"]
        BY <2>3 DEF MBOX_GET, MBOX_PUT, At, Answer
      <4>2. "cmd" \notin {"rqPut", "rqCopy"} /\ pc[s] \notin {"rqPut", "rqCopy"}
        BY <4>1
      <4>3. \E to : pc' = [pc EXCEPT ![s] = to] /\ to \notin {"rqPut", "rqCopy"}
        BY <4>1, <4>2, Zenon
      <4> QED
        BY <4>1, <4>2, <4>3
    <3> QED
      BY <3>2, <3>3, <2>1, HeapKept
  <2>4. CASE ~(RQ_SEND(s) \/ RqPut(s) \/ RQ_RECEIVE(s) \/ RqCopy(s) \/ MBOX_GET(s) \/ MBOX_PUT(s))
    <3>1. /\ UNCHANGED <<mbox, rq, heap, blk, lost>> /\ pc[s] \notin {"rqPut", "rqCopy"}
          /\ \E to : pc' = [pc EXCEPT ![s] = to] /\ to \notin {"rqPut", "rqCopy"}
      BY <1>4, <2>4 DEF delegate_thread_entry, SEM_WAIT, SEM_POST, MUTEX_LOCK, MUTEX_UNLOCK, MUTEX_TRYLOCK,
         COND_WAIT, CondReturn, COND_SIGNAL, COND_BROADCAST, GET_INIT_DATA, THREAD_EXIT, At, Answer, Continue
    <3> QED
      BY <3>1, <2>1, <1>0, HeapKept
  <2> QED
    BY <2>2, <2>3, <2>4
<1> QED
  BY <1>1, <1>2, <1>3, <1>4 DEF Next

LEMMA InitHeap == Init => PosixBounded /\ HeapInv
<1> SUFFICES ASSUME Init PROVE PosixBounded /\ HeapInv
  OBVIOUS
<1>1. PosixBounded
  <2>1. \A e \in Sems : Posting[e] = {} /\ Cardinality(Posting[e]) = 0
    BY FS_EmptySet DEF Init, Posting
  <2>2. Cardinality(Slots) \in Nat
    BY SlotCount
  <2> QED
    BY <2>1, <2>2 DEF Init, PosixBounded
<1>2. HeapInv
  <2>1. QueueTypes /\ InHand
    BY DEF Init, QueueTypes, InHand
  <2>2. QueuedOnce /\ HeldOnce /\ LostOnce /\ NoneLeaked
    BY DEF Init, QueuedOnce, HeldOnce, LostOnce, NoneLeaked
  <2> QED
    BY <2>1, <2>2 DEF HeapInv
<1> QED
  BY <1>1, <1>2

\* Places counts what the invariant says of queues, hands and lost blocks.
LEMMA OnePlace == HeapInv => BlocksAccounted
<1> SUFFICES ASSUME HeapInv, NEW b \in Blocks PROVE Cardinality(Places(b)) = IF heap[b] = Nothing THEN 0 ELSE 1
  BY DEF BlocksAccounted
<1>1. ASSUME NEW p
      PROVE  p \in Places(b) <=>
               \/ \E q \in Rqs : \E i \in 1 .. Len(rq[q]) : rq[q][i] = b /\ p = <<"queue", q, i>>
               \/ \E s \in Slots : blk[s] = b /\ p = <<"hand", s, 0>>
               \/ b \in lost /\ p = <<"lost", Nothing, 0>>
  <2>1. p \in {r \in {"queue"} \X Rqs \X (1 .. Capacity) : r[3] <= Len(rq[r[2]]) /\ rq[r[2]][r[3]] = b} <=>
          \E q \in Rqs : \E i \in 1 .. Len(rq[q]) : rq[q][i] = b /\ p = <<"queue", q, i>>
    <3>1. \A q \in Rqs : Len(rq[q]) \in Nat /\ Len(rq[q]) <= Capacity
      BY DEF HeapInv, QueueTypes
    <3>2. p \in {"queue"} \X Rqs \X (1 .. Capacity) <=> \E q \in Rqs, i \in 1 .. Capacity : p = <<"queue", q, i>>
      OBVIOUS
    <3> QED
      BY <3>1, <3>2
  <2> QED
    BY <2>1 DEF Places
<1>2. CASE heap[b] = Nothing
  <2>1. b \notin lost /\ (\A s \in Slots : blk[s] # b) /\ \A q \in Rqs : \A i \in 1 .. Len(rq[q]) : rq[q][i] # b
    BY <1>2 DEF HeapInv, QueuedOnce, HeldOnce, LostOnce
  <2>2. Places(b) = {}
    BY <1>1, <2>1
  <2> QED
    BY <1>2, <2>2, FS_EmptySet
<1>3. CASE heap[b] # Nothing
  <2>1. PICK p : p \in Places(b)
    <3>1. CASE b \in lost
      BY <3>1, <1>1
    <3>2. ASSUME NEW s \in Slots, blk[s] = b PROVE \E p : p \in Places(b)
      BY <3>2, <1>1
    <3>3. ASSUME NEW q \in Rqs, NEW i \in 1 .. Len(rq[q]), rq[q][i] = b PROVE \E p : p \in Places(b)
      BY <3>3, <1>1
    <3> QED
      BY <3>1, <3>2, <3>3, <1>3 DEF HeapInv, NoneLeaked
  <2>2. ASSUME NEW r \in Places(b) PROVE r = p
    BY <1>1, <2>1, <2>2 DEF HeapInv, QueuedOnce, HeldOnce
  <2>3. Places(b) = {p}
    BY <2>1, <2>2
  <2> QED
    BY <1>3, <2>3, FS_Singleton
<1> QED
  BY <1>2, <1>3

\* Semaphores, boxes and queues stay within their bounds, and each heap block of a
\* message is in one place from the malloc of rq_send to the free of rq_receive,
\* however many senders and receivers share a queue.
THEOREM HeapStaysSound == Spec => []HeapSound
<1>1. OneCall /\ Ownership /\ PosixBounded /\ HeapInv => HeapSound
  <2> SUFFICES ASSUME OneCall, Ownership, PosixBounded, HeapInv PROVE HeapSound
    OBVIOUS
  <2>1. sem \in [Sems -> 0 .. SemMax + Cardinality(Slots)]
    <3>1. \A e \in Sems : Cardinality(Posting[e]) \in Nat /\ Cardinality(Slots) \in Nat
      BY SlotCount DEF Posting
    <3> QED
      BY <3>1 DEF PosixBounded
  <2>2. TypeOK
    BY <2>1 DEF TypeOK, OneCall, Ownership, PosixBounded, HeapInv, QueueTypes
  <2> QED
    BY <2>2, OnePlace DEF HeapSound
<1> QED
  BY <1>1, InitOneCall, InitHeap, OneCallStep, OwnershipStep, PosixStep, HeapStep, PTL DEF Spec

-----------------------------------------------------------------------------
(***************************************************************************)
(* The driver through which the delegates read their links.  For any       *)
(* number of readers and pollers and any depth of the link: the counts the *)
(* interrupt handler leaves behind are sound, and no reader sleeps with    *)
(* the interrupt off and nobody about to turn it on.                       *)
(***************************************************************************)
USE FslDriverAssumption
HIDE DelegateAssumption

\* Readers between clearing irq_count and having the interrupt enabled: each
\* enables it once at most before it clears the count again.
Pending == {t \in users \intersect Readers : rpc[t] \in {"test", "arm", "enable"}}

\* Only an open device that is set up is read, and a read wants words.
Reading ==
  /\ phase # "ready" => \A t \in Threads : rpc[t] = "idle"
  /\ \A t \in Threads : rpc[t] # "idle" => left[t] \in 1 .. MaxRead
  /\ \A t \in Threads : rpc[t] \in Steps \ {"idle", "get", "clear"} => t \in users \intersect Readers

\* A level of enabling, a counted interrupt and a reader about to enable are
\* each worth one: the handler turns the first into the second, enable_irq the
\* third into the first, and a reader joins the third by clearing the second.
Counted == irq_count + (1 - depth) + Cardinality(Pending) <= 1 + Cardinality(users \intersect Readers)

\* With one thread the flag says what the kernel's depth is, but between setting
\* the flag and enable_irq.
Balanced ==
  Cardinality(users) <= 1 =>
    /\ phase = "ready" /\ irq_enabled = 0 => depth = 1
    /\ \A t \in users : /\ rpc[t] = "arm" => depth = 1
                        /\ rpc[t] = "enable" => depth = 1 /\ irq_enabled = 1

Loading == phase = "absent" => irq_count = 0 /\ depth = 1 /\ irq_enabled = 0

IInv == FslTypeOK /\ Reading /\ Loading /\ Counted /\ Balanced

-----------------------------------------------------------------------------
\* Sets of threads have a size, which a thread that joins or leaves changes by one.
LEMMA ThreadCount ==
  ASSUME NEW S \in SUBSET Threads
  PROVE  /\ Cardinality(S) \in Nat
         /\ \A t : t \notin S => Cardinality(S \union {t}) = Cardinality(S) + 1
         /\ \A t \in S : Cardinality(S \ {t}) = Cardinality(S) - 1
         /\ \A T \in SUBSET S : Cardinality(T) <= Cardinality(S)
         /\ Cardinality(S) <= 1 => \A t, u \in S : t = u
<1>1. IsFiniteSet(S)
  BY FS_Union, FS_Subset DEF Threads
<1>2. ASSUME Cardinality(S) <= 1, NEW t \in S, NEW u \in S, t # u PROVE FALSE
  <2>1. IsFiniteSet({t}) /\ Cardinality({t}) = 1
    BY FS_Singleton
  <2>2. Cardinality({t} \union {u}) = Cardinality({t}) + 1
    <3>1. u \notin {t}
      BY <1>2
    <3> QED
      BY <3>1, <2>1, FS_AddElement, Zenon
  <2>3. {t} \union {u} \in SUBSET S
    OBVIOUS
  <2>4. Cardinality({t} \union {u}) <= Cardinality(S)
    BY <2>3, <1>1, FS_Subset, Zenon
  <2>5. Cardinality(S) \in Nat
    BY <1>1, FS_CardinalityType
  <2> QED
    BY <2>1, <2>2, <2>4, <2>5, <1>2
<1> QED
  BY <1>1, <1>2, FS_CardinalityType, FS_AddElement, FS_RemoveElement, FS_Subset

-----------------------------------------------------------------------------
\* Where a thread goes, all others stay.
LEMMA GotoMoves ==
  ASSUME NEW t \in Threads, NEW from, NEW to, rpc \in [Threads -> Steps], to \in Steps, Goto(t, from, to)
  PROVE  /\ rpc[t] = from /\ rpc' \in [Threads -> Steps] /\ rpc'[t] = to
         /\ \A u \in Threads \ {t} : rpc'[u] = rpc[u]
BY DEF Goto

\* Which readers are pending, when one moves.
LEMMA PendingMoves ==
  ASSUME NEW t \in Threads, NEW from \in Steps, NEW to \in Steps, rpc \in [Threads -> Steps],
         users \subseteq Threads, users' = users, Goto(t, from, to)
  PROVE  /\ (from \in {"test", "arm", "enable"} <=> to \in {"test", "arm", "enable"}) => Pending' = Pending
         /\ to \notin {"test", "arm", "enable"} => Pending' = Pending \ {t}
BY GotoMoves DEF Pending

\* The device's set-up and removal, the interrupt and the hardware.
LEMMA DeviceStep ==
  ASSUME IInv, HwPut \/ LinkReset \/ RequestIrq \/ CdevAdd \/ SetEnabled \/ RemoveDev \/ Interrupt
  PROVE  IInv'
<1> USE DEF devVars
<1>0. rpc' = rpc /\ left' = left /\ users' = users /\ Pending' = Pending /\ Cardinality(Pending) \in Nat
      /\ Cardinality(users \intersect Readers) \in Nat
  <2>1. rpc' = rpc /\ left' = left /\ users' = users
    BY DEF HwPut, LinkReset, RequestIrq, CdevAdd, SetEnabled, RemoveDev, Interrupt
  <2> QED
    BY <2>1, ThreadCount DEF Pending, Threads
<1>1. ASSUME \A t \in Threads : rpc[t] = "idle" PROVE Pending = {} /\ Cardinality(Pending) = 0
  BY <1>1, FS_EmptySet DEF Pending, Threads
<1> USE DEF IInv, FslTypeOK
<1>2. FslTypeOK' /\ Loading' /\ Reading'
  BY <1>0 DEF Loading, Reading, Phases, HwPut, LinkReset, RequestIrq, CdevAdd, SetEnabled, RemoveDev, Interrupt
<1>3. Balanced'
  BY <1>0 DEF Balanced, Reading, Threads, HwPut, LinkReset, RequestIrq, CdevAdd, SetEnabled, RemoveDev, Interrupt
<1>4. Counted'
  <2>1. CASE HwPut \/ LinkReset \/ CdevAdd \/ SetEnabled
    BY <2>1, <1>0 DEF Counted, HwPut, LinkReset, CdevAdd, SetEnabled
  <2>2. CASE RequestIrq \/ RemoveDev
    BY <2>2, <1>0, <1>1 DEF Counted, Reading, Loading, RequestIrq, RemoveDev
  <2>3. CASE Interrupt
    BY <2>3, <1>0 DEF Counted, Interrupt
  <2> QED
    BY <2>1, <2>2, <2>3
<1> QED
  BY <1>2, <1>3, <1>4

\* A reader or poller in fsl_read or fsl_ioctl.
LEMMA ThreadStep ==
  ASSUME IInv, NEW t \in users,
         \/ \E n \in 1 .. MaxRead : ReadCall(t, n)
         \/ fsl_read(t) \/ (t \in Readers /\ Interrupted(t)) \/ (t \in Pollers /\ IoctlRead(t))
  PROVE  IInv'
<1> USE DEF devVars
<1>0. t \in Threads /\ rpc \in [Threads -> Steps] /\ FslTypeOK
  BY DEF IInv, FslTypeOK
<1>1. users' = users /\ phase' = phase
  BY DEF ReadCall, fsl_read, GetWord, GetNothing, Clear, TestEnabled, Arm, EnableIrq, Woken, Interrupted, IoctlRead
<1>2. FslTypeOK'
  BY <1>0, <1>1, GotoMoves DEF IInv, FslTypeOK, Steps, ReadCall, fsl_read, GetWord, GetNothing, Clear, TestEnabled, Arm,
     EnableIrq, Woken, Interrupted, IoctlRead, ngetfsl, Reading
<1>3. Loading'
  BY <1>0, <1>1 DEF IInv, Reading, Loading, ReadCall, fsl_read, GetWord, GetNothing, Clear, TestEnabled, Arm,
     EnableIrq, Woken, Interrupted, IoctlRead, ngetfsl, Goto
<1>4. Reading'
  BY <1>0, <1>1, GotoMoves DEF IInv, Reading, Steps, FslTypeOK, Threads, ReadCall, fsl_read, GetWord, GetNothing, Clear, TestEnabled, Arm,
     EnableIrq, Woken, Interrupted, IoctlRead, ngetfsl
<1>5. Balanced'
  <2>1. Cardinality(users) <= 1 => \A u \in users : u = t
    BY <1>0, ThreadCount DEF FslTypeOK
  <2> QED
    BY <1>0, <1>1, <2>1, GotoMoves DEF IInv, Balanced, Reading, Steps, FslTypeOK, ReadCall, fsl_read, GetWord, GetNothing, Clear, TestEnabled, Arm,
     EnableIrq, Woken, Interrupted, IoctlRead, ngetfsl
<1>6. Counted'
  <2> DEFINE R == Cardinality(users \intersect Readers)
             P == Cardinality(Pending)
  <2>1. /\ P \in Nat /\ R \in Nat /\ P' \in Nat /\ R' = R /\ P' <= R
        /\ t \notin Pending => Cardinality(Pending \union {t}) = P + 1
        /\ t \in Pending => Cardinality(Pending \ {t}) = P - 1
    <3>1. Pending \in SUBSET Threads /\ users \intersect Readers \in SUBSET Threads /\ Pending' \in SUBSET (users \intersect Readers)
      BY <1>1 DEF Pending, Threads
    <3> QED
      BY <3>1, <1>1, ThreadCount
  <2>2. CASE Pending' = Pending /\ UNCHANGED <<irq_count, depth>>
    BY <2>2, <1>1 DEF IInv, Counted
  <2>3. CASE t \in Pollers /\ IoctlRead(t)
    BY <2>3, <2>2, <1>1 DEF IoctlRead, Pending
  <2>4. ASSUME NEW from \in Steps, NEW to \in Steps, Goto(t, from, to), UNCHANGED <<irq_count, depth>>,
               from \in {"test", "arm", "enable"} <=> to \in {"test", "arm", "enable"}
        PROVE  Counted'
    <3>1. Pending' = Pending
      BY <2>4, <1>0, <1>1, PendingMoves DEF FslTypeOK
    <3> QED
      BY <3>1, <2>4, <2>2
  <2>5. CASE \E n \in 1 .. MaxRead : ReadCall(t, n)
    BY <2>5, <2>4 DEF ReadCall, Steps
  <2>6. CASE GetWord(t)
    BY <2>6, <2>4 DEF GetWord, Steps
  <2>7. CASE GetNothing(t) \/ Woken(t)
    BY <2>7, <2>4 DEF GetNothing, Woken, Steps
  <2>8. CASE Arm(t)
    BY <2>8, <2>4 DEF Arm, Steps
  <2>9. CASE t \in Readers /\ Interrupted(t)
    BY <2>9, <2>4 DEF Interrupted, Steps
  <2>10. CASE TestEnabled(t)
    <3>1. CASE irq_enabled = 0
      BY <3>1, <2>10, <2>4 DEF TestEnabled, Steps
    <3>2. CASE irq_enabled # 0
      <4>1. Goto(t, "test", "wait") /\ UNCHANGED <<irq_count, depth>>
        BY <3>2, <2>10 DEF TestEnabled
      <4>2. Pending' = Pending \ {t} /\ t \in Pending
        BY <4>1, <1>0, <1>1, PendingMoves DEF Goto, Pending, IInv, Reading, Steps
      <4> QED
        BY <4>1, <4>2, <2>1, <1>0 DEF Counted, IInv, FslTypeOK
    <3> QED
      BY <3>1, <3>2
  <2>11. CASE EnableIrq(t)
    <3>1. Goto(t, "enable", "wait") /\ depth' = 0 /\ UNCHANGED irq_count
      BY <2>11 DEF EnableIrq
    <3>2. Pending' = Pending \ {t} /\ t \in Pending
      BY <3>1, <1>0, <1>1, PendingMoves DEF Goto, Pending, IInv, Reading, Steps
    <3> QED
      BY <3>1, <3>2, <2>1, <1>0 DEF Counted, IInv, FslTypeOK
  <2>12. CASE Clear(t)
    BY <2>12, <2>1, <1>1, <1>0, <1>2 DEF Clear, Counted, FslTypeOK
  <2> QED
    BY <2>3, <2>5, <2>6, <2>7, <2>8, <2>9, <2>10, <2>11, <2>12 DEF fsl_read
<1> QED
  BY <1>2, <1>3, <1>4, <1>5, <1>6 DEF IInv

LEMMA InitInv == FslInit => IInv
<1> SUFFICES ASSUME FslInit PROVE IInv
  OBVIOUS
<1>1. Pending = {} /\ Cardinality(Pending) = 0
  BY FS_EmptySet DEF FslInit, Pending, Threads
<1>2. Cardinality(users \intersect Readers) \in Nat
  BY ThreadCount DEF Threads
<1> QED
  BY <1>1, <1>2 DEF FslInit, IInv, FslTypeOK, Phases, Steps, Reading, Loading, Counted, Balanced

LEMMA StepInv == IInv /\ [FslNext]_fslVars => IInv'
<1> SUFFICES ASSUME IInv, [FslNext]_fslVars PROVE IInv'
  OBVIOUS
<1>1. CASE UNCHANGED fslVars
  BY <1>1 DEF fslVars, IInv, FslTypeOK, Reading, Loading, Counted, Balanced, Pending
<1> QED
  BY <1>1, DeviceStep, ThreadStep DEF FslNext

\* The interrupt is disabled whenever the only thread of a device enables it, and
\* irq_count stays within one of the number of readers, whatever the interrupt,
\* the readers and loading of the module do in between.
THEOREM CountsStaySound == FslSpec => []CountsSound
<1>1. IInv => CountsSound
  <2> SUFFICES ASSUME IInv PROVE CountsSound
    OBVIOUS
  <2>1. Cardinality(Pending) \in Nat /\ Cardinality(users \intersect Readers) \in Nat
    BY ThreadCount DEF Pending, Threads
  <2> QED
    BY <2>1 DEF IInv, CountsSound, EnableBalanced, CountBounded, Balanced, Counted, FslTypeOK
<1> QED
  BY <1>1, InitInv, StepInv, PTL DEF FslSpec

-----------------------------------------------------------------------------
\* Without words left in the link when the module goes, no interrupt comes
\* before the flag is set; from then on the flag is up with the interrupt off
\* only while somebody is between the two.
Armed ==
  /\ phase # "ready" => fill = 0
  /\ phase \in {"requested", "visible"} => depth = 0
  /\ phase = "ready" /\ depth = 1 /\ irq_enabled = 1 => \E u \in users : rpc[u] = "enable"

LEMMA ArmedStep ==
  ASSUME ~Residue, IInv, users \intersect Pollers = {}, Armed, SleeperArmed, [FslNext]_fslVars
  PROVE  Armed' /\ SleeperArmed' /\ users' = users
<1> USE DEF devVars
<1>0. users' = users /\ rpc \in [Threads -> Steps] /\ users \subseteq Threads /\ depth \in 0 .. 1 /\ irq_enabled \in 0 .. 1
      /\ irq_count \in Nat
  BY DEF FslNext, HwPut, LinkReset, RequestIrq, CdevAdd, SetEnabled, RemoveDev, Interrupt, ReadCall, fsl_read, GetWord,
     GetNothing, Clear, TestEnabled, Arm, EnableIrq, Woken, Interrupted, IoctlRead, fslVars, IInv, FslTypeOK
<1>1. CASE HwPut \/ LinkReset \/ RequestIrq \/ CdevAdd \/ SetEnabled \/ RemoveDev \/ Interrupt
  BY <1>1, <1>0 DEF IInv, Reading, FslTypeOK, Armed, SleeperArmed, Enabling, HwPut, LinkReset, RequestIrq, CdevAdd, SetEnabled, RemoveDev, Interrupt
<1>2. ASSUME NEW t \in users,
             (\E n \in 1 .. MaxRead : ReadCall(t, n)) \/ fsl_read(t) \/ Interrupted(t)
      PROVE Armed' /\ SleeperArmed'
  BY <1>0, <1>2, GotoMoves DEF IInv, Reading, Steps, Armed, SleeperArmed, Enabling, ReadCall, fsl_read, GetWord,
     GetNothing, Clear, TestEnabled, Arm, EnableIrq, Woken, Interrupted, ngetfsl
<1>3. CASE UNCHANGED fslVars
  BY <1>3 DEF fslVars, Armed, SleeperArmed, Enabling
<1> QED
  BY <1>0, <1>1, <1>2, <1>3 DEF FslNext

\* No reader sleeps for good: with nothing counted, the interrupt is on, or a
\* reader is about to turn it on.  The assumption is needed: an interrupt for a
\* word left over from before the module was loaded may come before fsl_setup_dev
\* sets the flag, and the flag then says on when the interrupt is off.
THEOREM SleepersCanWake ==
  ASSUME ~Residue
  PROVE  FslSpec => []SleeperArmed
<1> DEFINE J == IInv /\ (users \intersect Pollers = {} => Armed /\ SleeperArmed)
<1>1. FslInit => J
  BY InitInv DEF FslInit, Armed, SleeperArmed
<1>2. J /\ [FslNext]_fslVars => J'
  <2> SUFFICES ASSUME J, [FslNext]_fslVars PROVE J'
    OBVIOUS
  <2>1. IInv' /\ users' = users
    BY StepInv DEF FslNext, HwPut, LinkReset, RequestIrq, CdevAdd, SetEnabled, RemoveDev, Interrupt, ReadCall, fsl_read,
       GetWord, GetNothing, Clear, TestEnabled, Arm, EnableIrq, Woken, Interrupted, IoctlRead, fslVars, devVars
  <2> QED
    BY <2>1, ArmedStep
<1>3. J => SleeperArmed
  BY DEF SleeperArmed
<1> QED
  BY <1>1, <1>2, <1>3, PTL DEF FslSpec
=============================================================================
