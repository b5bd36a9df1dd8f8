-------------------------- MODULE ProcControlProofs --------------------------
(***************************************************************************)
(* For any number of slots, pages and processes, any depth of the links    *)
(* but one, and any interleaving of the clock with the threads of          *)
(* processes that are killed anywhere: hardware threads run only under the *)
(* directory of a process, a page fault is one request that leaves the     *)
(* entry in the memory, and a client finds the reply to its own command.   *)
(* The invariant follows the words of link B -- what was left behind, the  *)
(* reset that clears it, the two words of the directory, the calls after   *)
(* them -- and the one request of link A from the MMU to the flush.        *)
(***************************************************************************)
EXTENDS ProcControl, SequenceTheorems, TLAPS

USE ProcControlAssumption

\* What the link and the core must allow reconos_init: room for its reset, and
\* a core that comes to it, see InitTakes.
Timely ==
  /\ main = "reset" => Len(bq) < Depth
  /\ main = "pgd" => ~Stuck

-----------------------------------------------------------------------------
Calls == {"reset", "stats", "selftest"}
Words == [cmd : {"reset"}, arg : SUBSET Slots]
           \union [cmd : {"none", "pgd", "word", "reconos_reset", "stats", "selftest"}, arg : 0 .. MaxProcs]
Requests == [cmd : {"fault", "word", "selftest"}, arg : Pages \union {NoPage}]
BStates == {"B_WAIT", "B_BRANCH", "B_TLB_HITS", "B_TLB_MISSES", "B_SELFTEST", "B_SELFTEST_REQ",
            "B_RESET", "B_PGD", "B_RECONOS_RESET"}
AStates == {"A_WAIT", "A_SELFTEST", "A_PAGE_FAULT_0", "A_PAGE_FAULT_1", "A_WAIT_PAGE_READY_0", "A_WAIT_PAGE_READY_1"}

\* Link B and its state machine: q the words in the link, d the word read, p the
\* directory, n the processes so far.
InPgd(b, d) == b = "B_PGD" \/ (b = "B_BRANCH" /\ d.cmd = "pgd")
Resetting(b, d) == b = "B_RECONOS_RESET" \/ (b = "B_BRANCH" /\ d.cmd = "reconos_reset")
Directory(p) == p \in 1 .. MaxProcs

\* The place in the link where the second word of a directory belongs, if any.
Lead(b, d, q) == IF InPgd(b, d) THEN 1 ELSE IF q # << >> /\ q[1].cmd = "pgd" THEN 2 ELSE 0
Settled(b, d, q, p) ==
  \/ Lead(b, d, q) = 0 /\ Directory(p)
  \/ Lead(b, d, q) > 0 /\ Len(q) >= Lead(b, d, q) /\ q[Lead(b, d, q)].cmd = "word"

\* Resets are the last words, a directory is the first, calls come behind it.
Order(b, d, q, p, n) ==
  /\ \A i, j \in 1 .. Len(q) : i <= j /\ q[i].cmd = "reconos_reset" => q[j].cmd = "reconos_reset"
  /\ \A i \in 1 .. Len(q) : q[i].cmd = "pgd" => i = 1 /\ b = "B_WAIT"
  /\ \A i \in 1 .. Len(q) : q[i].cmd = "word" => i = Lead(b, d, q) /\ q[i].arg \in 1 .. n
  /\ \A i \in 1 .. Len(q) : q[i].cmd \in Calls => i > Lead(b, d, q) /\ Settled(b, d, q, p)
  /\ \A i \in 1 .. Len(q) : q[i].cmd # "none"
  /\ Resetting(b, d) => \A i \in 1 .. Len(q) : q[i].cmd = "reconos_reset"
  /\ p \in 0 .. n \union {Garbage}

\* No directory of process n is in the core or on its way; the one on its way,
\* or else in the core, is of process n.
Foreign(q, p, n) == p # n /\ \A i \in 1 .. Len(q) : q[i].cmd = "word" => q[i].arg # n
Aimed(b, d, q, p, n) ==
  \/ Lead(b, d, q) = 0 /\ p = n
  \/ Lead(b, d, q) > 0 /\ q[Lead(b, d, q)].arg = n

-----------------------------------------------------------------------------
(***************************************************************************)
(* What FSLB_PROC and the writers do to the words of link B.               *)
(***************************************************************************)

LEMMA TailPlaces ==
  ASSUME NEW S, NEW q \in Seq(S), q # << >>
  PROVE  /\ Tail(q) \in Seq(S) /\ Head(q) \in S /\ Head(q) = q[1] /\ Len(q) \in Nat \ {0}
         /\ Len(Tail(q)) = Len(q) - 1
         /\ \A i \in 1 .. Len(q) - 1 : Tail(q)[i] = q[i + 1]
BY HeadTailProperties, SMT

LEMMA AppendPlaces ==
  ASSUME NEW S, NEW q \in Seq(S), NEW w \in S
  PROVE  /\ Append(q, w) \in Seq(S) /\ Append(q, w) # << >> /\ Len(q) \in Nat
         /\ Len(Append(q, w)) = Len(q) + 1
         /\ Append(q, w)[Len(q) + 1] = w
         /\ \A i \in 1 .. Len(q) : Append(q, w)[i] = q[i]
BY AppendProperties, SMT

LEMMA NoWords ==
  ASSUME NEW S
  PROVE  << >> \in Seq(S) /\ Len(<< >>) = 0
BY EmptySeq

LEMMA EmptyLength ==
  ASSUME NEW S, NEW q \in Seq(S)
  PROVE  Len(q) \in Nat /\ (q = << >> <=> Len(q) = 0)
BY EmptySeq, SMT

LEMMA WordFields ==
  ASSUME NEW w \in Words
  PROVE  /\ w.cmd \in Calls \union {"none", "pgd", "word", "reconos_reset"}
         /\ w.cmd = "reset" => w.arg \in SUBSET Slots
         /\ w.cmd # "reset" => w.arg \in 0 .. MaxProcs
BY DEF Words, Calls

LEMMA WordType ==
  /\ \A x \in SUBSET Slots : Word("reset", x) \in Words
  /\ \A c \in {"none", "pgd", "word", "reconos_reset", "stats", "selftest"}, x \in 0 .. MaxProcs : Word(c, x) \in Words
  /\ \A c, x : Word(c, x).cmd = c /\ Word(c, x).arg = x
BY DEF Words, Word

LEMMA ShiftedResets ==
  ASSUME NEW q, NEW t, Len(q) \in Nat \ {0}, Len(t) = Len(q) - 1, \A i \in 1 .. Len(q) - 1 : t[i] = q[i + 1],
         \A i, j \in 1 .. Len(q) : i <= j /\ q[i].cmd = "reconos_reset" => q[j].cmd = "reconos_reset"
  PROVE  \A i, j \in 1 .. Len(t) : i <= j /\ t[i].cmd = "reconos_reset" => t[j].cmd = "reconos_reset"
<1> SUFFICES ASSUME NEW i \in 1 .. Len(t), NEW j \in 1 .. Len(t), i <= j, t[i].cmd = "reconos_reset"
             PROVE  t[j].cmd = "reconos_reset"
  OBVIOUS
<1>1. i + 1 \in 1 .. Len(q) /\ j + 1 \in 1 .. Len(q) /\ t[i] = q[i + 1] /\ t[j] = q[j + 1]
  OBVIOUS
<1>2. q[i + 1].cmd = "reconos_reset" /\ i + 1 <= j + 1
  BY <1>1
<1>3. q[j + 1].cmd = "reconos_reset"
  BY <1>1, <1>2
<1> QED
  BY <1>1, <1>3

\* The command read from the link.
LEMMA Taken ==
  ASSUME NEW d, NEW q \in Seq(Words), NEW p, NEW n \in Nat, Order("B_WAIT", d, q, p, n), q # << >>
  PROVE  /\ Order("B_BRANCH", Head(q), Tail(q), p, n)
         /\ Lead("B_BRANCH", Head(q), Tail(q)) = IF Lead("B_WAIT", d, q) = 2 THEN 1 ELSE 0
         /\ Settled("B_WAIT", d, q, p) => Settled("B_BRANCH", Head(q), Tail(q), p)
         /\ Foreign(q, p, n) => Foreign(Tail(q), p, n)
         /\ Settled("B_WAIT", d, q, p) /\ Aimed("B_WAIT", d, q, p, n) => Aimed("B_BRANCH", Head(q), Tail(q), p, n)
         /\ Head(q).cmd \in Calls \union {"pgd", "word", "reconos_reset"}
         /\ Head(q).cmd = "word" => FALSE
         /\ Head(q).cmd \in Calls => Directory(p)
<1> DEFINE t == Tail(q)
           h == Head(q)
<1>1. /\ t \in Seq(Words) /\ h \in Words /\ h = q[1] /\ Len(q) \in Nat \ {0} /\ Len(t) = Len(q) - 1
      /\ \A i \in 1 .. Len(q) - 1 : t[i] = q[i + 1]
  BY TailPlaces
<1>2. Len(t) \in Nat /\ (t = << >> <=> Len(t) = 0)
  BY <1>1, EmptyLength
<1>3. h.cmd \in Calls \union {"none", "pgd", "word", "reconos_reset"}
  BY <1>1, WordFields
<1> HIDE DEF t, h
<1>4. Lead("B_WAIT", d, q) = IF h.cmd = "pgd" THEN 2 ELSE 0
  BY <1>1 DEF Lead, InPgd
<1>5. t # << >> => t[1].cmd # "pgd"
  BY <1>1, <1>2 DEF Order
<1>6. Lead("B_BRANCH", h, t) = IF h.cmd = "pgd" THEN 1 ELSE 0
  BY <1>5 DEF Lead, InPgd
<1>7. Settled("B_WAIT", d, q, p) => Settled("B_BRANCH", h, t, p)
  BY <1>1, <1>2, <1>4, <1>6 DEF Settled
<1>8. Foreign(q, p, n) => Foreign(t, p, n)
  BY <1>1, <1>2, SMTT(40) DEF Foreign
<1>9. Settled("B_WAIT", d, q, p) /\ Aimed("B_WAIT", d, q, p, n) => Aimed("B_BRANCH", h, t, p, n)
  BY <1>1, <1>4, <1>6 DEF Aimed, Settled
<1>10. h.cmd \notin {"word", "none"}
  BY <1>1, <1>4 DEF Order
<1>11. h.cmd \in Calls => Directory(p)
  BY <1>1, <1>4 DEF Order, Settled, Calls
<1>12. Order("B_BRANCH", h, t, p, n)
  <2>1. \A i, j \in 1 .. Len(t) : i <= j /\ t[i].cmd = "reconos_reset" => t[j].cmd = "reconos_reset"
    BY <1>1, <1>2, ShiftedResets, ZenonT(60) DEF Order
  <2>2. \A i \in 1 .. Len(t) : t[i].cmd # "pgd"
    BY <1>1, <1>2 DEF Order
  <2>3. \A i \in 1 .. Len(t) : t[i].cmd = "word" => i = Lead("B_BRANCH", h, t) /\ t[i].arg \in 1 .. n
    <3> SUFFICES ASSUME NEW i \in 1 .. Len(t), t[i].cmd = "word"
                 PROVE  i = Lead("B_BRANCH", h, t) /\ t[i].arg \in 1 .. n
      OBVIOUS
    <3>1. i + 1 \in 1 .. Len(q) /\ t[i] = q[i + 1]
      BY <1>1
    <3>2. i + 1 = Lead("B_WAIT", d, q) /\ q[i + 1].arg \in 1 .. n
      BY <3>1 DEF Order
    <3> QED
      BY <1>4, <1>6, <3>1, <3>2
  <2>4. \A i \in 1 .. Len(t) : t[i].cmd \in Calls => i > Lead("B_BRANCH", h, t) /\ Settled("B_BRANCH", h, t, p)
    BY <1>1, <1>2, <1>4, <1>6, <1>7, SMTT(40) DEF Order
  <2>5. \A i \in 1 .. Len(t) : t[i].cmd # "none"
    BY <1>1, <1>2, SMTT(40) DEF Order
  <2>6. Resetting("B_BRANCH", h) => \A i \in 1 .. Len(t) : t[i].cmd = "reconos_reset"
    BY <1>1, <1>2 DEF Order, Resetting
  <2> QED
    BY <2>1, <2>2, <2>3, <2>4, <2>5, <2>6 DEF Order
<1> QED
  BY <1>3, <1>4, <1>6, <1>7, <1>8, <1>9, <1>10, <1>11, <1>12 DEF t, h

\* A step that leaves the link alone.
LEMMA Moved ==
  ASSUME NEW b, NEW d, NEW q, NEW p, NEW n, Order(b, d, q, p, n), NEW b2,
         b # "B_WAIT", InPgd(b2, d) <=> InPgd(b, d), Resetting(b2, d) => Resetting(b, d)
  PROVE  /\ Order(b2, d, q, p, n)
         /\ Lead(b2, d, q) = Lead(b, d, q)
         /\ Settled(b, d, q, p) => Settled(b2, d, q, p)
         /\ Aimed(b, d, q, p, n) => Aimed(b2, d, q, p, n)
<1>1. Lead(b2, d, q) = Lead(b, d, q)
  BY DEF Lead
<1> QED
  BY <1>1 DEF Order, Settled, Aimed

\* The second word of a directory, or what is taken for it.
LEMMA DirectoryRead ==
  ASSUME NEW d, NEW q \in Seq(Words), NEW p, NEW p2, NEW n \in 0 .. MaxProcs,
         Order("B_PGD", d, q, p, n), q # << >>, p2 = IF Head(q).cmd = "word" THEN Head(q).arg ELSE Garbage
  PROVE  /\ Order("B_WAIT", d, Tail(q), p2, n)
         /\ Lead("B_WAIT", d, Tail(q)) = 0
         /\ Settled("B_PGD", d, q, p) => Settled("B_WAIT", d, Tail(q), p2)
         /\ Foreign(q, p, n) => Foreign(Tail(q), p2, n)
         /\ Settled("B_PGD", d, q, p) /\ Aimed("B_PGD", d, q, p, n) => Aimed("B_WAIT", d, Tail(q), p2, n)
<1> DEFINE t == Tail(q)
           h == Head(q)
<1>1. /\ t \in Seq(Words) /\ h \in Words /\ h = q[1] /\ Len(q) \in Nat \ {0} /\ Len(t) = Len(q) - 1
      /\ \A i \in 1 .. Len(q) - 1 : t[i] = q[i + 1]
  BY TailPlaces
<1>2. Len(t) \in Nat /\ (t = << >> <=> Len(t) = 0)
  BY <1>1, EmptyLength
<1>3. p2 = IF h.cmd = "word" THEN h.arg ELSE Garbage
  OBVIOUS
<1> HIDE DEF t, h
<1>4. Lead("B_PGD", d, q) = 1
  BY DEF Lead, InPgd
<1>5. \A i \in 1 .. Len(t) : t[i].cmd \notin {"pgd", "word", "none"}
  BY <1>1, <1>2, <1>4, SMTT(40) DEF Order
<1>6. Lead("B_WAIT", d, t) = 0
  BY <1>2, <1>5 DEF Lead, InPgd
<1>7. Settled("B_PGD", d, q, p) => h.cmd = "word" /\ p2 \in 1 .. n
  BY <1>1, <1>3, <1>4 DEF Settled, Order
<1>8. Settled("B_PGD", d, q, p) => Settled("B_WAIT", d, t, p2)
  BY <1>6, <1>7 DEF Settled, Directory
<1>9. Foreign(q, p, n) => Foreign(t, p2, n)
  BY <1>1, <1>2, <1>3, SMTT(40) DEF Foreign, Garbage
<1>10. Settled("B_PGD", d, q, p) /\ Aimed("B_PGD", d, q, p, n) => Aimed("B_WAIT", d, t, p2, n)
  BY <1>1, <1>3, <1>4, <1>6, <1>7 DEF Aimed
<1>11. Order("B_WAIT", d, t, p2, n)
  <2>1. \A i, j \in 1 .. Len(t) : i <= j /\ t[i].cmd = "reconos_reset" => t[j].cmd = "reconos_reset"
    BY <1>1, <1>2, ShiftedResets DEF Order
  <2>2. \A i \in 1 .. Len(t) : t[i].cmd \in Calls => i > Lead("B_WAIT", d, t) /\ Settled("B_WAIT", d, t, p2)
    <3> SUFFICES ASSUME NEW i \in 1 .. Len(t), t[i].cmd \in Calls
                 PROVE  i > Lead("B_WAIT", d, t) /\ Settled("B_WAIT", d, t, p2)
      OBVIOUS
    <3>1. i + 1 \in 1 .. Len(q) /\ t[i] = q[i + 1]
      BY <1>1
    <3>2. Settled("B_PGD", d, q, p)
      BY <3>1 DEF Order
    <3> QED
      BY <1>6, <1>8, <3>2
  <2>3. p2 \in 0 .. n \union {Garbage}
    BY <1>1, <1>3, <1>4 DEF Order
  <2> QED
    BY <1>5, <2>1, <2>2, <2>3 DEF Order, Resetting
<1> QED
  BY <1>6, <1>8, <1>9, <1>10, <1>11 DEF t

\* In a ReconOS reset.
LEMMA ResetTick ==
  ASSUME NEW d, NEW q \in Seq(Words), NEW p, NEW n \in Nat, Order("B_RECONOS_RESET", d, q, p, n),
         NEW b2 \in {"B_WAIT", "B_RECONOS_RESET"}, NEW q2 \in {q, << >>}
  PROVE  /\ Order(b2, Word("none", 0), q2, 0, n)
         /\ Lead(b2, Word("none", 0), q2) = 0
         /\ n > 0 => Foreign(q2, 0, n)
<1>1. Len(<< >>) = 0
  OBVIOUS
<1>2. \A i \in 1 .. Len(q2) : q2[i].cmd = "reconos_reset"
  BY <1>1 DEF Order, Resetting
<1>3. Len(q2) \in Nat /\ (q2 = << >> <=> Len(q2) = 0)
  BY EmptyLength, NoWords
<1>4. Lead(b2, Word("none", 0), q2) = 0
  BY <1>2, <1>3 DEF Lead, InPgd
<1> QED
  BY <1>2, <1>4 DEF Order, Foreign, Calls

\* A word behind those in the link.
LEMMA LeadBehind ==
  ASSUME NEW b, NEW d, NEW q \in Seq(Words), NEW p, NEW n, NEW w \in Words, w.cmd # "pgd"
  PROVE  /\ Lead(b, d, Append(q, w)) = Lead(b, d, q)
         /\ Settled(b, d, q, p) => Settled(b, d, Append(q, w), p)
         /\ Settled(b, d, q, p) /\ Aimed(b, d, q, p, n) => Aimed(b, d, Append(q, w), p, n)
<1> DEFINE a == Append(q, w)
<1>1. /\ a \in Seq(Words) /\ a # << >> /\ Len(q) \in Nat /\ Len(a) = Len(q) + 1 /\ a[Len(q) + 1] = w
      /\ \A i \in 1 .. Len(q) : a[i] = q[i]
  BY AppendPlaces
<1>2. Len(q) \in Nat /\ (q = << >> <=> Len(q) = 0)
  BY EmptyLength
<1> HIDE DEF a
<1>3. a[1].cmd = "pgd" <=> q # << >> /\ q[1].cmd = "pgd"
  BY <1>1, <1>2
<1>4. Lead(b, d, a) = Lead(b, d, q) /\ Lead(b, d, q) \in 0 .. 2
  BY <1>1, <1>3 DEF Lead
<1>5. Settled(b, d, q, p) => Settled(b, d, a, p)
  BY <1>1, <1>4 DEF Settled
<1>6. Settled(b, d, q, p) /\ Aimed(b, d, q, p, n) => Aimed(b, d, a, p, n)
  BY <1>1, <1>4 DEF Settled, Aimed
<1> QED
  BY <1>4, <1>5, <1>6 DEF a

\* reconos_init's reset, behind whatever was left in the link.
LEMMA PutReset ==
  ASSUME NEW b, NEW d, NEW q \in Seq(Words), NEW p, NEW n \in Nat, Order(b, d, q, p, n), NEW w \in Words,
         w.cmd = "reconos_reset"
  PROVE  /\ Order(b, d, Append(q, w), p, n)
         /\ Foreign(q, p, n) => Foreign(Append(q, w), p, n)
<1> DEFINE a == Append(q, w)
<1>1. /\ a \in Seq(Words) /\ a # << >> /\ Len(q) \in Nat /\ Len(a) = Len(q) + 1 /\ a[Len(q) + 1] = w
      /\ \A i \in 1 .. Len(q) : a[i] = q[i]
  BY AppendPlaces
<1>2. /\ Lead(b, d, a) = Lead(b, d, q)
      /\ Settled(b, d, q, p) => Settled(b, d, a, p)
  BY LeadBehind
<1> HIDE DEF a
<1>3. \A i \in 1 .. Len(a) : i \in 1 .. Len(q) \/ (i = Len(a) /\ a[i].cmd = "reconos_reset")
  BY <1>1
<1>4. \A i, j \in 1 .. Len(a) : i <= j /\ a[i].cmd = "reconos_reset" => a[j].cmd = "reconos_reset"
  <2> SUFFICES ASSUME NEW i \in 1 .. Len(a), NEW j \in 1 .. Len(a), i <= j, a[i].cmd = "reconos_reset",
                      j \in 1 .. Len(q)
               PROVE  a[j].cmd = "reconos_reset"
    BY <1>3
  <2>1. i \in 1 .. Len(q)
    OBVIOUS
  <2> QED
    BY <1>1, <2>1 DEF Order
<1>5. \A i \in 1 .. Len(a) : a[i].cmd \in Calls \union {"pgd", "word", "none"} => i \in 1 .. Len(q) /\ a[i] = q[i]
  BY <1>1, <1>3 DEF Calls
<1>6. \A i \in 1 .. Len(a) : a[i].cmd = "pgd" => i = 1 /\ b = "B_WAIT"
  BY <1>5 DEF Order
<1>7. \A i \in 1 .. Len(a) : a[i].cmd = "word" => i = Lead(b, d, a) /\ a[i].arg \in 1 .. n
  BY <1>2, <1>5 DEF Order
<1>8. \A i \in 1 .. Len(a) : a[i].cmd \in Calls => i > Lead(b, d, a) /\ Settled(b, d, a, p)
  BY <1>2, <1>5 DEF Order
<1>9. \A i \in 1 .. Len(a) : a[i].cmd # "none"
  BY <1>5 DEF Order
<1>10. Resetting(b, d) => \A i \in 1 .. Len(a) : a[i].cmd = "reconos_reset"
  BY <1>1, <1>3 DEF Order
<1>11. Order(b, d, a, p, n)
  BY <1>4, <1>6, <1>7, <1>8, <1>9, <1>10 DEF Order
<1>12. Foreign(q, p, n) => Foreign(a, p, n)
  BY <1>5 DEF Foreign
<1> QED
  BY <1>11, <1>12 DEF a

\* The first word of a directory, when the reset is over.
LEMMA PutPgd ==
  ASSUME NEW d, NEW p, NEW n, Order("B_WAIT", d, << >>, p, n), NEW w \in Words, w.cmd = "pgd"
  PROVE  /\ Order("B_WAIT", d, Append(<< >>, w), p, n)
         /\ Lead("B_WAIT", d, Append(<< >>, w)) = 2
         /\ Len(Append(<< >>, w)) = 1
         /\ Foreign(<< >>, p, n) => Foreign(Append(<< >>, w), p, n)
         /\ \A i \in 1 .. Len(Append(<< >>, w)) : Append(<< >>, w)[i].cmd = "pgd"
<1> DEFINE a == Append(<< >>, w)
<1>1. Len(a) = 1 /\ a # << >> /\ a[1] = w
  BY NoWords, AppendPlaces
<1> HIDE DEF a
<1>2. \A i \in 1 .. Len(a) : i = 1 /\ a[i].cmd = "pgd"
  BY <1>1
<1>3. Lead("B_WAIT", d, a) = 2
  BY <1>1 DEF Lead, InPgd
<1>4. Order("B_WAIT", d, a, p, n)
  BY <1>2 DEF Order, Resetting, Calls
<1>5. Foreign(<< >>, p, n) => Foreign(a, p, n)
  BY <1>2 DEF Foreign
<1> QED
  BY <1>1, <1>2, <1>3, <1>4, <1>5 DEF a

\* The second one.
LEMMA PutWord ==
  ASSUME NEW b, NEW d, NEW q \in Seq(Words), NEW p, NEW n \in 1 .. MaxProcs, Order(b, d, q, p, n), NEW w \in Words,
         w.cmd = "word", w.arg = n, Lead(b, d, q) > 0, Len(q) = Lead(b, d, q) - 1,
         \A i \in 1 .. Len(q) : q[i].cmd # "reconos_reset", ~Resetting(b, d)
  PROVE  /\ Order(b, d, Append(q, w), p, n)
         /\ Lead(b, d, Append(q, w)) = Lead(b, d, q)
         /\ Settled(b, d, Append(q, w), p)
         /\ Aimed(b, d, Append(q, w), p, n)
<1> DEFINE a == Append(q, w)
<1>1. /\ a \in Seq(Words) /\ a # << >> /\ Len(q) \in Nat /\ Len(a) = Len(q) + 1 /\ a[Len(q) + 1] = w
      /\ \A i \in 1 .. Len(q) : a[i] = q[i]
  BY AppendPlaces
<1>2. Lead(b, d, a) = Lead(b, d, q) /\ Lead(b, d, q) \in 0 .. 2
  BY LeadBehind DEF Lead
<1> HIDE DEF a
<1>3. Len(a) = Lead(b, d, a) /\ a[Lead(b, d, a)] = w
  BY <1>1, <1>2
<1>4. Settled(b, d, a, p) /\ Aimed(b, d, a, p, n)
  BY <1>2, <1>3 DEF Settled, Aimed
<1>5. \A i \in 1 .. Len(a) : (i \in 1 .. Len(q) /\ a[i] = q[i]) \/ (i = Lead(b, d, a) /\ a[i].cmd = "word" /\ a[i].arg = n)
  BY <1>1, <1>3
<1>6. \A i \in 1 .. Len(a) : a[i].cmd = "pgd" => i = 1 /\ b = "B_WAIT"
  BY <1>5 DEF Order
<1>7. \A i \in 1 .. Len(a) : a[i].cmd = "word" => i = Lead(b, d, a) /\ a[i].arg \in 1 .. n
  BY <1>2, <1>5 DEF Order
<1>8. \A i \in 1 .. Len(a) : a[i].cmd \in Calls => i > Lead(b, d, a) /\ Settled(b, d, a, p)
  BY <1>2, <1>4, <1>5 DEF Order, Calls
<1>9. \A i \in 1 .. Len(a) : a[i].cmd \notin {"none", "reconos_reset"}
  BY <1>5 DEF Order
<1>10. Order(b, d, a, p, n)
  BY <1>6, <1>7, <1>8, <1>9 DEF Order
<1> QED
  BY <1>2, <1>4, <1>10 DEF a

\* A call of the process, behind its directory.
LEMMA PutCall ==
  ASSUME NEW b, NEW d, NEW q \in Seq(Words), NEW p, NEW n, Order(b, d, q, p, n), NEW w \in Words,
         w.cmd \in Calls, Settled(b, d, q, p), \A i \in 1 .. Len(q) : q[i].cmd # "reconos_reset", ~Resetting(b, d)
  PROVE  /\ Order(b, d, Append(q, w), p, n)
         /\ Lead(b, d, Append(q, w)) = Lead(b, d, q)
         /\ Settled(b, d, Append(q, w), p)
         /\ Aimed(b, d, q, p, n) => Aimed(b, d, Append(q, w), p, n)
<1> DEFINE a == Append(q, w)
<1>1. /\ a \in Seq(Words) /\ a # << >> /\ Len(q) \in Nat /\ Len(a) = Len(q) + 1 /\ a[Len(q) + 1] = w
      /\ \A i \in 1 .. Len(q) : a[i] = q[i]
  BY AppendPlaces
<1>2. /\ Lead(b, d, a) = Lead(b, d, q) /\ Settled(b, d, a, p)
      /\ Aimed(b, d, q, p, n) => Aimed(b, d, a, p, n)
  BY LeadBehind, ZenonT(60) DEF Calls
<1> HIDE DEF a
<1>3. Len(a) > Lead(b, d, a)
  BY <1>1, <1>2 DEF Settled, Lead
<1>4. \A i \in 1 .. Len(a) : (i \in 1 .. Len(q) /\ a[i] = q[i]) \/ (i = Len(a) /\ a[i].cmd \in Calls)
  BY <1>1
<1>6. \A i \in 1 .. Len(a) : a[i].cmd = "pgd" => i = 1 /\ b = "B_WAIT"
  BY <1>4 DEF Order, Calls
<1>7. \A i \in 1 .. Len(a) : a[i].cmd = "word" => i = Lead(b, d, a) /\ a[i].arg \in 1 .. n
  BY <1>2, <1>4 DEF Order, Calls
<1>8. \A i \in 1 .. Len(a) : a[i].cmd \in Calls => i > Lead(b, d, a) /\ Settled(b, d, a, p)
  BY <1>2, <1>3, <1>4 DEF Order
<1>9. \A i \in 1 .. Len(a) : a[i].cmd \notin {"none", "reconos_reset"}
  BY <1>4 DEF Order, Calls
<1>10. Order(b, d, a, p, n)
  BY <1>6, <1>7, <1>8, <1>9 DEF Order
<1> QED
  BY <1>2, <1>10 DEF a

-----------------------------------------------------------------------------
(***************************************************************************)
(* The actions, each step of reconos_init and of the control thread one.   *)
(***************************************************************************)
InitReset == InitPut("reset", Word("reconos_reset", 0), "pgd")
InitPgd == (InitLate => ~ResetPending \/ Stuck) /\ InitPut("pgd", Word("pgd", 0), "pgdWord")
InitWord == InitPut("pgdWord", Word("word", proc), "thread")
InitThread ==
  /\ main = "thread"
  /\ main' = "open"
  /\ ctl' = "cmd"
  /\ UNCHANGED <<uses, proc, flags, dl, at, mask, addr, fd, cl, hwVars, links, pte, mem>>
InitOpen ==
  /\ main = "open"
  /\ main' = "run"
  /\ fd' = TRUE
  /\ UNCHANGED <<uses, proc, flags, dl, at, mask, ctl, addr, cl, hwVars, links, pte, mem>>

ControlCmd == ControlReads("cmd", IF Head(aq).cmd = "fault" THEN "addr" ELSE "cmd") /\ UNCHANGED addr
ControlAddr == ControlReads("addr", "zero") /\ addr' = Head(aq).arg
ControlZero ==
  /\ addr \in Pages
  /\ ControlStep("zero", "flush")
  /\ mem' = [mem EXCEPT ![addr] = "zero"]
  /\ pte' = Mapped(addr)
  /\ UNCHANGED <<addr, aq, ar>>
ControlReply ==
  /\ ControlStep("reply", "cmd")
  /\ ar' = Put(ar, "ready")
  /\ addr' = NoPage
  /\ UNCHANGED <<aq, pte, mem>>

SlotStep(s) == reconos_hwt_create(s) \/ (SetFlag(s) /\ UNCHANGED running) \/ (ReadFlag(s) /\ UNCHANGED running)
Send(s) == SendMask(s) /\ UNCHANGED running
Asks(c) == Ask(c, "stats", "hits") \/ Ask(c, "selftest", "selftest")

LEMMA Actions ==
  ASSUME Next
  PROVE  \/ Clock \/ Start \/ Killed
         \/ InitReset \/ InitPgd \/ InitWord \/ InitThread \/ InitOpen
         \/ ControlCmd \/ ControlAddr \/ ControlZero \/ ControlFlush \/ ControlReply
         \/ \E s \in Slots : SlotStep(s) \/ Send(s) \/ Exit(s)
         \/ \E c \in Clients : Asks(c) \/ ReadReply(c)
         \/ \E p \in Pages : Access(p) \/ SwWrite(p) \/ Evict(p)
BY DEF Next, reconos_init, control_thread_entry, slot_reset, InitReset, InitPgd, InitWord, InitThread, InitOpen,
       ControlCmd, ControlAddr, ControlZero, ControlReply, SlotStep, Send, Asks

-----------------------------------------------------------------------------
(***************************************************************************)
(* Types.                                                                  *)
(***************************************************************************)
TypedSw ==
  /\ proc \in 0 .. MaxProcs /\ main \in {"down", "reset", "pgd", "pgdWord", "thread", "open", "run"}
  /\ flags \subseteq Slots
  /\ dl \in [Slots -> {"none", "flag1", "mask1", "send1", "flag0", "mask0", "send0", "run"}]
  /\ at \in [Slots -> 0 .. NumSlots] /\ mask \in [Slots -> SUBSET Slots]
  /\ ctl \in {"none", "cmd", "addr", "zero", "flush", "reply"} /\ addr \in Pages \union {NoPage}
  /\ fd \in BOOLEAN
  /\ cl \in [Clients -> {"none", "hits", "misses", "selftest"}]
TypedB ==
  /\ bq \in Seq(Words) /\ Len(bq) <= Depth
  /\ br \in Seq({"hits", "misses", "selftest"}) /\ Len(br) <= Depth
  /\ bstate \in BStates /\ data \in Words
  /\ hwt_reset \subseteq Slots /\ running \subseteq Slots
  /\ pgd \in 0 .. Garbage /\ reset_counter \in 0 .. ResetTicks
  /\ reset_dup \in BOOLEAN /\ initiate \in BOOLEAN
TypedA ==
  /\ aq \in Seq(Requests) /\ Len(aq) <= Depth
  /\ ar \in Seq({"ready"}) /\ Len(ar) <= Depth
  /\ astate \in AStates /\ retry \in BOOLEAN /\ initiated \in BOOLEAN
  /\ mmu \in {"idle", "walk", "fault"} /\ vaddr \in Pages \union {NoPage} /\ page_fault \in BOOLEAN
TypedMem ==
  /\ pte \in [Pages -> {"none", "cached", "memory"}]
  /\ mem \in [Pages -> {"fresh", "zero", "hw", "sw"}]
Typed == TypedSw /\ TypedB /\ TypedA /\ TypedMem

LEMMA TypedIsTypeOK ==
  ASSUME Typed
  PROVE  TypeOK
BY DEF Typed, TypedSw, TypedB, TypedA, TypedMem, TypeOK

LEMMA TypedInit ==
  ASSUME Init
  PROVE  Typed
<1>1. TypedSw
  <2>1. proc \in 0 .. MaxProcs /\ main = "down" /\ flags \subseteq Slots /\ ctl = "none" /\ addr = NoPage
    BY DEF Init
  <2>2. dl \in [Slots -> {"none", "flag1", "mask1", "send1", "flag0", "mask0", "send0", "run"}]
    BY DEF Init
  <2>3. at \in [Slots -> 0 .. NumSlots] /\ mask \in [Slots -> SUBSET Slots]
    BY DEF Init
  <2>4. fd \in BOOLEAN
    BY DEF Init
  <2>5. cl \in [Clients -> {"none", "hits", "misses", "selftest"}]
    BY DEF Init
  <2> QED
    BY <2>1, <2>2, <2>3, <2>4, <2>5 DEF TypedSw
<1>2. TypedB
  <2>1. bq \in Seq(Words) /\ Len(bq) <= Depth /\ br \in Seq({"hits", "misses", "selftest"}) /\ Len(br) <= Depth
    BY NoWords DEF Init
  <2>2. bstate \in BStates /\ data \in Words
    BY WordType DEF Init, BStates
  <2>3. hwt_reset \subseteq Slots /\ running \subseteq Slots /\ pgd \in 0 .. Garbage /\ reset_counter \in 0 .. ResetTicks
    BY DEF Init, Garbage
  <2>4. reset_dup \in BOOLEAN /\ initiate \in BOOLEAN
    BY DEF Init
  <2> QED
    BY <2>1, <2>2, <2>3, <2>4 DEF TypedB
<1>3. TypedA
  <2>1. aq \in Seq(Requests) /\ Len(aq) <= Depth /\ ar \in Seq({"ready"}) /\ Len(ar) <= Depth
    BY NoWords DEF Init
  <2>2. astate \in AStates /\ mmu \in {"idle", "walk", "fault"} /\ vaddr \in Pages \union {NoPage}
    BY DEF Init, AStates
  <2>3. retry \in BOOLEAN /\ initiated \in BOOLEAN /\ page_fault \in BOOLEAN
    BY DEF Init
  <2> QED
    BY <2>1, <2>2, <2>3 DEF TypedA
<1>4. TypedMem
  BY DEF Init, TypedMem
<1> QED
  BY <1>1, <1>2, <1>3, <1>4 DEF Typed

\* A writer of a link.
LEMMA PutType ==
  ASSUME NEW S, NEW q \in Seq(S), NEW w \in S, Len(q) <= Depth
  PROVE  /\ Put(q, w) \in Seq(S) /\ Len(Put(q, w)) <= Depth
         /\ Put(q, w) = q \/ (Put(q, w) = Append(q, w) /\ Len(q) < Depth /\ ~reset_dup)
         /\ Len(q) < Depth /\ ~reset_dup => Put(q, w) = Append(q, w)
BY AppendPlaces DEF Put

LEMMA TypedSwStep ==
  ASSUME Typed, Next
  PROVE  TypedSw'
<1> USE DEF Typed, TypedSw
<1> DEFINE Sw == <<proc, main, flags, dl, at, mask, ctl, addr, fd, cl>>
<1>1. CASE UNCHANGED Sw
  BY <1>1
<1>2. CASE Start
  BY <1>2 DEF Start
<1>3. CASE Killed
  <2>1. UNCHANGED proc /\ main' = "down" /\ flags' = {} /\ ctl' = "none" /\ addr' = NoPage
    BY <1>3 DEF Killed
  <2>2. dl' \in [Slots -> {"none", "flag1", "mask1", "send1", "flag0", "mask0", "send0", "run"}]
    BY <1>3 DEF Killed
  <2>3. at' \in [Slots -> 0 .. NumSlots] /\ mask' \in [Slots -> SUBSET Slots]
    BY <1>3 DEF Killed
  <2>4. fd' \in BOOLEAN
    BY <1>3 DEF Killed
  <2>5. cl' \in [Clients -> {"none", "hits", "misses", "selftest"}]
    BY <1>3 DEF Killed
  <2> QED
    BY <2>1, <2>2, <2>3, <2>4, <2>5
<1>4. CASE InitReset \/ InitPgd \/ InitWord
  BY <1>4 DEF InitReset, InitPgd, InitWord, InitPut
<1>5. CASE InitThread \/ InitOpen
  <2>1. fd' \in BOOLEAN
    BY <1>5 DEF InitThread, InitOpen
  <2>2. main' \in {"open", "run"} /\ ctl' \in {"cmd", ctl} /\ UNCHANGED <<proc, flags, dl, at, mask, addr, cl>>
    BY <1>5 DEF InitThread, InitOpen
  <2> QED
    BY <2>1, <2>2
<1>6. CASE ControlCmd \/ ControlAddr \/ ControlZero \/ ControlFlush \/ ControlReply
  <2>1. ControlAddr => Head(aq).arg \in Pages \union {NoPage}
    <3>1. ControlAddr => Head(aq) \in Requests
      BY TailPlaces DEF ControlAddr, ControlReads, TypedA
    <3> QED
      BY <3>1 DEF Requests
  <2> QED
    BY <1>6, <2>1 DEF ControlCmd, ControlAddr, ControlZero, ControlFlush, ControlReply, ControlReads, ControlStep
<1>7. ASSUME NEW s \in Slots, SlotStep(s) \/ Send(s) \/ Exit(s) PROVE TypedSw'
  <2>1. dl' \in [Slots -> {"none", "flag1", "mask1", "send1", "flag0", "mask0", "send0", "run"}] /\ flags' \subseteq Slots
    BY <1>7 DEF SlotStep, Send, Exit, reconos_hwt_create, SetFlag, ReadFlag, SendMask, DelegateStep
  <2>2. at' \in [Slots -> 0 .. NumSlots]
    BY <1>7 DEF SlotStep, Send, Exit, reconos_hwt_create, SetFlag, ReadFlag, SendMask, DelegateStep
  <2>3. mask' \in [Slots -> SUBSET Slots]
    BY <1>7 DEF SlotStep, Send, Exit, reconos_hwt_create, SetFlag, ReadFlag, SendMask, DelegateStep
  <2>4. UNCHANGED <<proc, main, ctl, addr, fd, cl>>
    BY <1>7 DEF SlotStep, Send, Exit, reconos_hwt_create, SetFlag, ReadFlag, SendMask, DelegateStep
  <2> QED
    BY <2>1, <2>2, <2>3, <2>4
<1>8. ASSUME NEW c \in Clients, Asks(c) \/ ReadReply(c) PROVE TypedSw'
  BY <1>8 DEF Asks, Ask, ReadReply, ClientStep
<1>9. Clock \/ (\E p \in Pages : Access(p) \/ SwWrite(p) \/ Evict(p)) => UNCHANGED Sw
  BY DEF Clock, Access, SwWrite, Evict, swVars
<1> QED
  BY <1>1, <1>2, <1>3, <1>4, <1>5, <1>6, <1>7, <1>8, <1>9, Actions

LEMMA TypedAStep ==
  ASSUME Typed, Next
  PROVE  TypedA'
<1> USE DEF Typed, TypedA
<1> DEFINE A == <<aq, ar, astate, retry, initiated, mmu, vaddr, page_fault>>
<1>1. CASE UNCHANGED A
  BY <1>1
<1>2. CASE Clock
  <2>1. aq' \in Seq(Requests) /\ Len(aq') <= Depth /\ astate' \in AStates /\ ar' \in Seq({"ready"}) /\ Len(ar') <= Depth
    <3>1. ar # << >> => Tail(ar) \in Seq({"ready"}) /\ Len(Tail(ar)) <= Depth
      BY TailPlaces
    <3>2. \A w \in Requests : Len(aq) # Depth => Append(aq, w) \in Seq(Requests) /\ Len(Append(aq, w)) <= Depth
      BY AppendPlaces
    <3>3. Word("selftest", NoPage) \in Requests /\ Word("fault", NoPage) \in Requests /\ Word("word", vaddr) \in Requests
      BY DEF Requests, Word
    <3>4. << >> \in Seq(Requests) /\ << >> \in Seq({"ready"}) /\ Len(<< >>) = 0
      BY NoWords
    <3>5. FSLA_PROC
      BY <1>2 DEF Clock
    <3>6. aq' = << >> \/ aq' = aq \/ (Len(aq) # Depth /\ \E w \in Requests : aq' = Append(aq, w))
      BY <3>3, <3>5 DEF FSLA_PROC, AWrite
    <3>7. ar' = << >> \/ ar' = ar \/ (ar # << >> /\ ar' = Tail(ar))
      BY <3>5 DEF FSLA_PROC, AWrite
    <3>8. astate' \in AStates
      BY <3>5 DEF FSLA_PROC, AWrite, AStates
    <3>9. ASSUME NEW q, q = << >> \/ q = aq \/ (Len(aq) # Depth /\ \E w \in Requests : q = Append(aq, w))
          PROVE  q \in Seq(Requests) /\ Len(q) <= Depth
      <4>1. CASE q = << >>
        BY <3>4, <4>1
      <4>2. CASE q = aq
        BY <4>2
      <4>3. CASE Len(aq) # Depth /\ \E w \in Requests : q = Append(aq, w)
        BY <3>2, <4>3
      <4> QED
        BY <3>9, <4>1, <4>2, <4>3
    <3>10. ASSUME NEW q, q = << >> \/ q = ar \/ (ar # << >> /\ q = Tail(ar))
           PROVE  q \in Seq({"ready"}) /\ Len(q) <= Depth
      <4>1. CASE q = << >>
        BY <3>4, <4>1
      <4>2. CASE q = ar
        BY <4>2
      <4>3. CASE ar # << >> /\ q = Tail(ar)
        BY <3>1, <4>3
      <4> QED
        BY <3>10, <4>1, <4>2, <4>3
    <3> QED
      BY <3>6, <3>7, <3>8, <3>9, <3>10
  <2>2. retry' \in BOOLEAN
    BY <1>2 DEF Clock, FSLA_PROC, AWrite
  <2>3. initiated' \in BOOLEAN
    BY <1>2 DEF Clock, FSLA_PROC, AWrite
  <2>4. mmu' \in {"idle", "walk", "fault"} /\ vaddr' \in Pages \union {NoPage}
    BY <1>2 DEF Clock, MmuTick, Walk
  <2>5. page_fault' \in BOOLEAN
    BY <1>2 DEF Clock, MmuTick, Walk
  <2> QED
    BY <2>1, <2>2, <2>3, <2>4, <2>5
<1>3. CASE ControlCmd \/ ControlAddr
  <2>1. aq # << >> => Tail(aq) \in Seq(Requests) /\ Len(Tail(aq)) <= Depth
    BY TailPlaces
  <2> QED
    BY <1>3, <2>1, ZenonT(40) DEF ControlCmd, ControlAddr, ControlReads, ControlStep, hwVars, aVars, mmuVars
<1>4. CASE ControlReply
  BY <1>4, PutType DEF ControlReply, ControlStep, hwVars, aVars, mmuVars
<1>5. ASSUME NEW p \in Pages, Access(p) PROVE TypedA'
  BY <1>5 DEF Access, aVars, links
<1>6. Start \/ Killed \/ InitReset \/ InitPgd \/ InitWord \/ InitThread \/ InitOpen \/ ControlZero \/ ControlFlush => UNCHANGED A
  BY DEF Start, Killed, InitReset, InitPgd, InitWord, InitPut, InitThread, InitOpen, ControlZero, ControlFlush, ControlStep,
         hwVars, aVars, mmuVars, links
<1>7. \A s \in Slots : SlotStep(s) \/ Send(s) \/ Exit(s) => UNCHANGED A
  BY DEF SlotStep, Send, Exit, reconos_hwt_create, SetFlag, ReadFlag, SendMask, DelegateStep, aVars, mmuVars
<1>8. \A c \in Clients : Asks(c) \/ ReadReply(c) => UNCHANGED A
  BY DEF Asks, Ask, ReadReply, ClientStep, hwVars, aVars, mmuVars
<1>9. \A p \in Pages : SwWrite(p) \/ Evict(p) => UNCHANGED A
  BY DEF SwWrite, Evict, hwVars, aVars, mmuVars, links
<1> QED
  BY <1>1, <1>2, <1>3, <1>4, <1>5, <1>6, <1>7, <1>8, <1>9, Actions

LEMMA TypedMemStep ==
  ASSUME Typed, Next
  PROVE  TypedMem'
<1> USE DEF Typed, TypedMem
<1>1. CASE UNCHANGED <<pte, mem>>
  BY <1>1
<1>2. CASE Clock
  BY <1>2 DEF Clock, MmuTick, Walk
<1>3. CASE Start
  BY <1>3 DEF Start
<1>4. CASE ControlZero \/ ControlFlush
  BY <1>4 DEF ControlZero, ControlFlush, Mapped
<1>5. ASSUME NEW p \in Pages, SwWrite(p) \/ Evict(p) PROVE TypedMem'
  BY <1>5 DEF SwWrite, Evict, Mapped
<1>6. Killed \/ InitReset \/ InitPgd \/ InitWord \/ InitThread \/ InitOpen \/ ControlCmd \/ ControlAddr \/ ControlReply
        => UNCHANGED <<pte, mem>>
  BY DEF Killed, InitReset, InitPgd, InitWord, InitPut, InitThread, InitOpen, ControlCmd, ControlAddr, ControlReads, ControlReply
<1>7. \A s \in Slots : SlotStep(s) \/ Send(s) \/ Exit(s) => UNCHANGED <<pte, mem>>
  BY DEF SlotStep, Send, Exit, reconos_hwt_create, SetFlag, ReadFlag, SendMask, DelegateStep
<1>8. \A c \in Clients : Asks(c) \/ ReadReply(c) => UNCHANGED <<pte, mem>>
  BY DEF Asks, Ask, ReadReply, ClientStep
<1>9. \A p \in Pages : Access(p) => UNCHANGED <<pte, mem>>
  BY DEF Access
<1> QED
  BY <1>1, <1>2, <1>3, <1>4, <1>5, <1>6, <1>7, <1>8, <1>9, Actions

-----------------------------------------------------------------------------
(***************************************************************************)
(* The core's end of link B.                                               *)
(***************************************************************************)
Kept == UNCHANGED <<hwt_reset, running, pgd, reset_counter>> /\ ~reset_dup'

BIdle == bstate # "B_RECONOS_RESET" /\ UNCHANGED <<bq, br, data, bstate>> /\ Kept
BTook ==
  /\ bstate = "B_WAIT" /\ bq # << >>
  /\ bq' = Tail(bq) /\ data' = Head(bq) /\ bstate' = "B_BRANCH" /\ UNCHANGED br /\ Kept
BBranched == bstate = "B_BRANCH" /\ bstate' = Branch(data.cmd) /\ UNCHANGED <<bq, br, data>> /\ Kept
BReplied(from, w, to) ==
  /\ bstate = from /\ bstate' = to
  /\ Len(br) # Depth /\ br' = Append(br, w) /\ UNCHANGED <<bq, data>> /\ Kept
BTested == bstate = "B_SELFTEST_REQ" /\ bstate' = "B_WAIT" /\ UNCHANGED <<bq, br, data>> /\ Kept
BReleased ==
  /\ bstate = "B_RESET" /\ bstate' = "B_WAIT" /\ UNCHANGED <<bq, br, data>>
  /\ hwt_reset' = data.arg /\ running' = (running \union hwt_reset) \ data.arg
  /\ UNCHANGED <<pgd, reset_counter>> /\ ~reset_dup'
BDirected ==
  /\ bstate = "B_PGD" /\ bq # << >> /\ bq' = Tail(bq) /\ bstate' = "B_WAIT"
  /\ pgd' = (IF Head(bq).cmd = "word" THEN Head(bq).arg ELSE Garbage)
  /\ UNCHANGED <<br, data, hwt_reset, running, reset_counter>> /\ ~reset_dup'
BCleared ==
  /\ bstate = "B_RECONOS_RESET"
  /\ \/ reset_counter = ResetTicks /\ bstate' = "B_WAIT" /\ reset_counter' = 0 /\ ~reset_dup'
     \/ reset_counter # ResetTicks /\ bstate' = bstate /\ reset_counter' = reset_counter + 1 /\ reset_dup'
  /\ hwt_reset' = Slots /\ running' = {} /\ data' = Word("none", 0) /\ pgd' = 0
  /\ bq' = (IF reset_dup THEN << >> ELSE bq) /\ br' = (IF reset_dup THEN << >> ELSE br)

LEMMA BSteps ==
  ASSUME TypedB, FSLB_PROC
  PROVE  \/ BIdle \/ BTook \/ BBranched
         \/ BReplied("B_TLB_HITS", "hits", "B_TLB_MISSES") \/ BReplied("B_TLB_MISSES", "misses", "B_WAIT")
         \/ BReplied("B_SELFTEST", "selftest", "B_SELFTEST_REQ")
         \/ BTested \/ BReleased \/ BDirected \/ BCleared
<1>1. CASE bstate = "B_WAIT"
  BY <1>1 DEF FSLB_PROC, BTake, BRest, BIdle, BTook, Kept
<1>2. CASE bstate = "B_BRANCH"
  BY <1>2 DEF FSLB_PROC, BMove, BRest, BBranched, Kept
<1>3. CASE bstate \in {"B_TLB_HITS", "B_TLB_MISSES", "B_SELFTEST"}
  BY <1>3 DEF FSLB_PROC, BReply, BRest, BReplied, BIdle, Kept
<1>4. CASE bstate = "B_SELFTEST_REQ"
  BY <1>4 DEF FSLB_PROC, BMove, BIdle, BTested, Kept
<1>5. CASE bstate = "B_RESET"
  BY <1>5 DEF FSLB_PROC, BMove, BReleased
<1>6. CASE bstate = "B_PGD"
  BY <1>6 DEF FSLB_PROC, BDirected, BIdle, Kept
<1>7. CASE bstate = "B_RECONOS_RESET"
  <2>1. reset_dup' <=> reset_counter # ResetTicks
    BY <1>7 DEF FSLB_PROC
  <2> QED
    BY <1>7, <2>1 DEF FSLB_PROC, BCleared
<1> QED
  BY <1>1, <1>2, <1>3, <1>4, <1>5, <1>6, <1>7 DEF TypedB, BStates

LEMMA BranchIs ==
  /\ Branch("reset") = "B_RESET" /\ Branch("pgd") = "B_PGD" /\ Branch("reconos_reset") = "B_RECONOS_RESET"
  /\ Branch("stats") = "B_TLB_HITS" /\ Branch("selftest") = "B_SELFTEST"
  /\ \A c : Branch(c) \in BStates
BY DEF Branch, Starts, BStates

\* The state machine and its registers.
Linked == Order(bstate, data, bq, pgd, proc)
Core ==
  /\ bstate = "B_BRANCH" => data.cmd \in Calls \union {"pgd", "reconos_reset"}
  /\ bstate = "B_RESET" \/ (bstate = "B_BRANCH" /\ data.cmd = "reset") => data.cmd = "reset" /\ Directory(pgd)
  /\ reset_dup => bstate = "B_RECONOS_RESET"
  /\ bstate = "B_RECONOS_RESET" /\ reset_counter > 0 => reset_dup
  /\ bstate # "B_RECONOS_RESET" => reset_counter = 0
  /\ running \intersect hwt_reset = {}
  /\ hwt_reset # Slots => Directory(pgd)
  /\ Lead(bstate, data, bq) > 0 => hwt_reset = Slots

LEMMA TypedBStep ==
  ASSUME Typed, Core, Next
  PROVE  TypedB'
<1> USE DEF Typed, TypedB
<1> DEFINE B == <<bq, br, bstate, data, hwt_reset, running, pgd, reset_counter, reset_dup, initiate>>
<1>1. CASE UNCHANGED B
  BY <1>1
<1>2. CASE Clock
  <2>1. bq # << >> => Tail(bq) \in Seq(Words) /\ Len(Tail(bq)) <= Depth /\ Head(bq) \in Words
    BY TailPlaces
  <2>2. \A w \in {"hits", "misses", "selftest"} : Len(br) # Depth =>
          Append(br, w) \in Seq({"hits", "misses", "selftest"}) /\ Len(Append(br, w)) <= Depth
    BY AppendPlaces
  <2>3. /\ << >> \in Seq(Words) /\ << >> \in Seq({"hits", "misses", "selftest"}) /\ Len(<< >>) = 0
        /\ Word("none", 0) \in Words
    BY NoWords, WordType
  <2>4. FSLB_PROC
    BY <1>2 DEF Clock
  <2>5. initiate' \in BOOLEAN
    BY <2>4 DEF FSLB_PROC, BRest
  <2>6. reset_dup' \in BOOLEAN
    BY <2>4 DEF FSLB_PROC, BRest
  <2> DEFINE P == /\ bq' \in Seq(Words) /\ Len(bq') <= Depth
                  /\ br' \in Seq({"hits", "misses", "selftest"}) /\ Len(br') <= Depth
                  /\ bstate' \in BStates /\ data' \in Words
                  /\ hwt_reset' \subseteq Slots /\ running' \subseteq Slots
                  /\ pgd' \in 0 .. Garbage /\ reset_counter' \in 0 .. ResetTicks
  <2>7. ASSUME BIdle \/ BTested PROVE P
    BY <2>7 DEF BIdle, BTested, Kept, BStates
  <2>8. ASSUME BTook PROVE P
    BY <2>1, <2>8 DEF BTook, Kept, BStates
  <2>9. ASSUME BBranched PROVE P
    BY <2>9, BranchIs DEF BBranched, Kept
  <2>10. ASSUME \/ BReplied("B_TLB_HITS", "hits", "B_TLB_MISSES") \/ BReplied("B_TLB_MISSES", "misses", "B_WAIT")
                \/ BReplied("B_SELFTEST", "selftest", "B_SELFTEST_REQ")
         PROVE  P
    BY <2>2, <2>10, ZenonT(40) DEF BReplied, Kept, BStates
  <2>11. ASSUME BReleased PROVE P
    <3>1. data.arg \in SUBSET Slots
      BY <2>11, WordFields DEF BReleased, Core
    <3> QED
      BY <2>11, <3>1 DEF BReleased, BStates
  <2>12. ASSUME BDirected PROVE P
    BY <2>1, <2>12, WordFields DEF BDirected, Garbage, BStates
  <2>13. ASSUME BCleared PROVE P
    <3>1. ASSUME NEW q, q = bq \/ q = << >> PROVE q \in Seq(Words) /\ Len(q) <= Depth
      <4>1. CASE q = bq
        BY <4>1
      <4>2. CASE q = << >>
        BY <2>3, <4>2
      <4> QED
        BY <3>1, <4>1, <4>2
    <3>2. ASSUME NEW q, q = br \/ q = << >> PROVE q \in Seq({"hits", "misses", "selftest"}) /\ Len(q) <= Depth
      <4>1. CASE q = br
        BY <4>1
      <4>2. CASE q = << >>
        BY <2>3, <4>2
      <4> QED
        BY <3>2, <4>1, <4>2
    <3> QED
      BY <2>3, <2>13, <3>1, <3>2 DEF BCleared, BStates, Garbage
  <2>14. P
    BY <2>4, <2>7, <2>8, <2>9, <2>10, <2>11, <2>12, <2>13, BSteps
  <2> QED
    BY <2>5, <2>6, <2>14
<1> DEFINE PutWords == \A w \in Words : Put(bq, w) \in Seq(Words) /\ Len(Put(bq, w)) <= Depth
<1>11. PutWords
  BY PutType
<1> DEFINE Rest == <<bstate, data, hwt_reset, running, pgd, reset_counter, reset_dup, initiate>>
<1>3. CASE InitReset \/ InitPgd \/ InitWord
  <2>1. \E w \in Words : bq' = Put(bq, w)
    BY <1>3, WordType DEF InitReset, InitPgd, InitWord, InitPut, TypedSw
  <2>2. UNCHANGED <<br, Rest>>
    BY <1>3 DEF InitReset, InitPgd, InitWord, InitPut, hwVars, bVars
  <2> QED
    BY <1>11, <2>1, <2>2
<1>4. ASSUME NEW s \in Slots, Send(s) PROVE TypedB'
  <2>1. \E w \in Words : bq' = Put(bq, w)
    BY <1>4, WordType DEF Send, SendMask, TypedSw
  <2>2. UNCHANGED <<br, Rest>>
    BY <1>4 DEF Send, SendMask, DelegateStep, bVars
  <2> QED
    BY <1>11, <2>1, <2>2
<1>5. ASSUME NEW s \in Slots, Exit(s) PROVE TypedB'
  BY <1>5 DEF Exit, DelegateStep, bVars
<1>6. ASSUME NEW c \in Clients, Asks(c) PROVE TypedB'
  <2>1. \E w \in Words : bq' = Put(bq, w)
    BY <1>6, WordType DEF Asks, Ask
  <2>2. UNCHANGED <<br, Rest>>
    BY <1>6 DEF Asks, Ask, ClientStep, hwVars, bVars
  <2> QED
    BY <1>11, <2>1, <2>2
<1>7. ASSUME NEW c \in Clients, ReadReply(c) PROVE TypedB'
  BY <1>7, TailPlaces DEF ReadReply, ClientStep, hwVars, bVars
<1>8. Start \/ Killed \/ InitThread \/ InitOpen \/ ControlCmd \/ ControlAddr \/ ControlZero \/ ControlFlush \/ ControlReply
        => UNCHANGED B
  BY DEF Start, Killed, InitThread, InitOpen, ControlCmd, ControlAddr, ControlReads, ControlZero, ControlFlush, ControlReply,
         ControlStep, hwVars, bVars, links
<1>9. \A s \in Slots : SlotStep(s) => UNCHANGED B
  BY DEF SlotStep, reconos_hwt_create, SetFlag, ReadFlag, DelegateStep, bVars
<1>10. \A p \in Pages : Access(p) \/ SwWrite(p) \/ Evict(p) => UNCHANGED B
  BY DEF Access, SwWrite, Evict, hwVars, bVars, links
<1> QED
  BY <1>1, <1>2, <1>3, <1>4, <1>5, <1>6, <1>7, <1>8, <1>9, <1>10, Actions

LEMMA TypedStep ==
  ASSUME Typed, Core, Next
  PROVE  Typed'
BY TypedSwStep, TypedBStep, TypedAStep, TypedMemStep DEF Typed

\* No call of the process that starts is in the core or the link.
Uncalled(b, d, q) == (b = "B_WAIT" \/ InPgd(b, d)) /\ \A i \in 1 .. Len(q) : q[i].cmd \notin Calls

LeadB == Lead(bstate, data, bq)
SettledB == Settled(bstate, data, bq, pgd)
AimedB == Aimed(bstate, data, bq, pgd, proc)
ForeignB == Foreign(bq, pgd, proc)
UncalledB == Uncalled(bstate, data, bq)

\* A tick does not bring a reset back, or a directory; a directory on its way
\* arrives; when the last reset is gone the link is empty -- it has been cleared,
\* or the reset was taken for the second word of a directory.
BEffect ==
  /\ Linked' /\ Core'
  /\ LeadB' > 0 => LeadB > 0
  /\ LeadB > 0 => UNCHANGED <<hwt_reset, br>>
  /\ LeadB > 0 /\ Len(bq) = LeadB - 1 => LeadB' > 0 /\ Len(bq') = LeadB' - 1
  /\ ForeignB /\ proc > 0 => ForeignB'
  /\ ~ResetPending => ~ResetPending'
  /\ ~ResetPending /\ SettledB => SettledB'
  /\ ~ResetPending /\ SettledB /\ AimedB => AimedB'
  /\ ~ResetPending /\ UncalledB => UncalledB' /\ UNCHANGED <<hwt_reset, br>>
  /\ ~ResetPending /\ bq = << >> /\ bstate = "B_WAIT" => UNCHANGED <<bq, br, bstate, hwt_reset>>
  /\ ResetPending /\ ~ResetPending' =>
       /\ bq' = << >> /\ bstate' = "B_WAIT" /\ hwt_reset' = Slots
       /\ (reset_dup /\ br' = << >>) \/ (LeadB > 0 /\ br' = br)

LEMMA NotPending ==
  ASSUME ~ResetPending
  PROVE  /\ ~reset_dup /\ ~Resetting(bstate, data) /\ bstate # "B_RECONOS_RESET"
         /\ \A i \in 1 .. Len(bq) : bq[i].cmd # "reconos_reset"
BY DEF ResetPending, Resetting

LEMMA BEffectIdle ==
  ASSUME Typed, Linked, Core, UNCHANGED proc, BIdle
  PROVE  BEffect
<1>1. UNCHANGED <<bstate, data, bq, pgd, proc, br, hwt_reset, running, reset_counter>> /\ ~reset_dup /\ ~reset_dup'
  BY DEF BIdle, Kept, Core
<1>2. Linked'
  BY <1>1 DEF Linked
<1>3. Core'
  BY <1>1 DEF Core, BIdle
<1>4. ResetPending <=> ResetPending'
  BY <1>1 DEF ResetPending
<1>5. LeadB' = LeadB /\ (SettledB' <=> SettledB) /\ (AimedB' <=> AimedB) /\ (ForeignB' <=> ForeignB) /\ (UncalledB' <=> UncalledB)
  BY <1>1 DEF LeadB, SettledB, AimedB, ForeignB, UncalledB
<1> QED
  BY <1>1, <1>2, <1>3, <1>4, <1>5 DEF BEffect

LEMMA BEffectTook ==
  ASSUME Typed, Linked, Core, UNCHANGED proc, BTook
  PROVE  BEffect
<1>0. /\ bstate = "B_WAIT" /\ bq # << >> /\ bq' = Tail(bq) /\ data' = Head(bq) /\ bstate' = "B_BRANCH"
      /\ UNCHANGED <<br, pgd, hwt_reset, running, reset_counter, proc>> /\ ~reset_dup /\ ~reset_dup'
  BY DEF BTook, Kept, Core
<1> DEFINE t == Tail(bq)
           h == Head(bq)
<1>1. /\ t \in Seq(Words) /\ h \in Words /\ h = bq[1] /\ Len(bq) \in Nat \ {0} /\ Len(t) = Len(bq) - 1
      /\ \A i \in 1 .. Len(bq) - 1 : t[i] = bq[i + 1]
  BY <1>0, TailPlaces DEF Typed, TypedB
<1>2. Order("B_WAIT", data, bq, pgd, proc) /\ proc \in Nat /\ bq \in Seq(Words)
  BY <1>0 DEF Linked, Typed, TypedSw, TypedB
<1>3. /\ Order("B_BRANCH", h, t, pgd, proc)
      /\ Lead("B_BRANCH", h, t) = IF Lead("B_WAIT", data, bq) = 2 THEN 1 ELSE 0
      /\ Settled("B_WAIT", data, bq, pgd) => Settled("B_BRANCH", h, t, pgd)
      /\ Foreign(bq, pgd, proc) => Foreign(t, pgd, proc)
      /\ Settled("B_WAIT", data, bq, pgd) /\ Aimed("B_WAIT", data, bq, pgd, proc) => Aimed("B_BRANCH", h, t, pgd, proc)
      /\ h.cmd \in Calls \union {"pgd", "word", "reconos_reset"} /\ h.cmd # "word"
      /\ h.cmd \in Calls => Directory(pgd)
  BY <1>0, <1>2, Taken
<1>4. Lead("B_WAIT", data, bq) \in {0, 2}
  BY DEF Lead, InPgd
<1> HIDE DEF t, h
<1>5. bq' = t /\ data' = h
  BY <1>0 DEF t, h
<1>6. Linked'
  BY <1>0, <1>3, <1>5 DEF Linked
<1>7. Core'
  <2>1. data'.cmd \in Calls \union {"pgd", "reconos_reset"} /\ (data'.cmd = "reset" => Directory(pgd)')
    BY <1>0, <1>3, <1>5 DEF Calls
  <2>2. Lead(bstate', data', bq') > 0 => Lead(bstate, data, bq) > 0
    <3>1. Lead(bstate, data, bq) = Lead("B_WAIT", data, bq) /\ Lead(bstate', data', bq') = Lead("B_BRANCH", h, t)
      BY <1>0, <1>5
    <3> QED
      BY <1>3, <1>4, <3>1
  <2>3. bstate' = "B_BRANCH" /\ ~reset_dup' /\ UNCHANGED <<hwt_reset, running, pgd, reset_counter>> /\ bstate = "B_WAIT"
    BY <1>0
  <2> QED
    BY <2>1, <2>2, <2>3 DEF Core
<1>8. ~ResetPending => ~ResetPending'
  BY <1>0, <1>1, <1>5 DEF ResetPending
<1>9. ResetPending => ResetPending'
  <2> SUFFICES ASSUME NEW i \in 1 .. Len(bq), bq[i].cmd = "reconos_reset" PROVE ResetPending'
    BY <1>0 DEF ResetPending
  <2>1. CASE i = 1
    BY <1>0, <1>1, <1>5, <2>1 DEF ResetPending
  <2>2. CASE i # 1
    <3>1. i - 1 \in 1 .. Len(t) /\ t[i - 1] = bq[i]
      BY <1>1, <2>2
    <3> QED
      BY <1>5, <3>1 DEF ResetPending
  <2> QED
    BY <2>1, <2>2
<1>10. LeadB' = (IF LeadB = 2 THEN 1 ELSE 0) /\ LeadB \in {0, 2}
  BY <1>0, <1>3, <1>4, <1>5 DEF LeadB
<1>11. LeadB > 0 /\ Len(bq) = LeadB - 1 => LeadB' > 0 /\ Len(bq') = LeadB' - 1
  BY <1>1, <1>5, <1>10
<1>12. (SettledB => SettledB') /\ (SettledB /\ AimedB => AimedB') /\ (ForeignB => ForeignB')
  BY <1>0, <1>3, <1>5 DEF SettledB, AimedB, ForeignB
<1>13. ~ResetPending /\ UncalledB => UncalledB'
  <2> SUFFICES ASSUME ~ResetPending, UncalledB PROVE Uncalled("B_BRANCH", h, t)
    BY <1>0, <1>5 DEF UncalledB
  <2>1. h.cmd = "pgd"
    BY <1>1, <1>3, NotPending DEF UncalledB, Uncalled
  <2> QED
    BY <1>1, <2>1 DEF UncalledB, Uncalled, InPgd
<1> QED
  BY <1>0, <1>6, <1>7, <1>8, <1>9, <1>10, <1>11, <1>12, <1>13 DEF BEffect

LEMMA BEffectBranched ==
  ASSUME Typed, Linked, Core, UNCHANGED proc, BBranched
  PROVE  BEffect
<1>0. /\ bstate = "B_BRANCH" /\ bstate' = Branch(data.cmd) /\ data.cmd \in Calls \union {"pgd", "reconos_reset"}
      /\ UNCHANGED <<bq, data, br, pgd, hwt_reset, running, reset_counter, proc>> /\ ~reset_dup /\ ~reset_dup'
  BY DEF BBranched, Kept, Core
<1>1. /\ InPgd(bstate', data) <=> InPgd(bstate, data)
      /\ Resetting(bstate', data) <=> Resetting(bstate, data)
      /\ bstate' \in {"B_RESET", "B_PGD", "B_RECONOS_RESET", "B_TLB_HITS", "B_SELFTEST"}
      /\ bstate' = "B_RESET" => data.cmd = "reset"
      /\ bstate' = "B_PGD" <=> data.cmd = "pgd"
  BY <1>0, BranchIs DEF InPgd, Resetting, Calls
<1>2. /\ Order(bstate', data, bq, pgd, proc) /\ Lead(bstate', data, bq) = Lead(bstate, data, bq)
      /\ Settled(bstate, data, bq, pgd) => Settled(bstate', data, bq, pgd)
      /\ Aimed(bstate, data, bq, pgd, proc) => Aimed(bstate', data, bq, pgd, proc)
  BY <1>0, <1>1, Moved DEF Linked
<1>3. Linked'
  BY <1>0, <1>2 DEF Linked
<1>4. Core'
  BY <1>0, <1>1, <1>2 DEF Core
<1>5. ResetPending <=> ResetPending'
  BY <1>0, <1>1 DEF ResetPending, Resetting
<1>6. LeadB' = LeadB /\ (SettledB => SettledB') /\ (AimedB => AimedB') /\ (ForeignB => ForeignB')
  BY <1>0, <1>2 DEF LeadB, SettledB, AimedB, ForeignB
<1>7. UncalledB => UncalledB'
  BY <1>0, <1>1 DEF UncalledB, Uncalled, InPgd
<1> QED
  BY <1>0, <1>3, <1>4, <1>5, <1>6, <1>7 DEF BEffect

LEMMA BEffectReturned ==
  ASSUME Typed, Linked, Core, UNCHANGED proc,
         \/ BReplied("B_TLB_HITS", "hits", "B_TLB_MISSES") \/ BReplied("B_TLB_MISSES", "misses", "B_WAIT")
         \/ BReplied("B_SELFTEST", "selftest", "B_SELFTEST_REQ") \/ BTested
  PROVE  BEffect
<1>0. /\ bstate \in {"B_TLB_HITS", "B_TLB_MISSES", "B_SELFTEST", "B_SELFTEST_REQ"}
      /\ bstate' \in {"B_TLB_MISSES", "B_WAIT", "B_SELFTEST_REQ"}
      /\ UNCHANGED <<bq, data, pgd, hwt_reset, running, reset_counter, proc>> /\ ~reset_dup /\ ~reset_dup'
  BY DEF BReplied, BTested, Kept, Core
<1>1. ~InPgd(bstate', data) /\ ~Resetting(bstate', data) /\ ~InPgd(bstate, data) /\ ~Resetting(bstate, data)
  BY <1>0 DEF InPgd, Resetting
<1>2. /\ Order(bstate', data, bq, pgd, proc) /\ Lead(bstate', data, bq) = Lead(bstate, data, bq)
      /\ Settled(bstate, data, bq, pgd) => Settled(bstate', data, bq, pgd)
      /\ Aimed(bstate, data, bq, pgd, proc) => Aimed(bstate', data, bq, pgd, proc)
  BY <1>0, <1>1, Moved DEF Linked
<1>3. Linked'
  BY <1>0, <1>2 DEF Linked
<1>4. Core'
  BY <1>0, <1>1, <1>2 DEF Core
<1>5. ResetPending <=> ResetPending'
  BY <1>0 DEF ResetPending
<1>6. LeadB' = LeadB /\ (SettledB => SettledB') /\ (AimedB => AimedB') /\ (ForeignB => ForeignB')
  BY <1>0, <1>2 DEF LeadB, SettledB, AimedB, ForeignB
<1>7. ~UncalledB
  BY <1>0, <1>1 DEF UncalledB, Uncalled
<1>8. LeadB = 0
  <2>1. bq # << >> => bq[1].cmd # "pgd"
    BY <1>0, EmptyLength DEF Linked, Order, Typed, TypedB
  <2> QED
    BY <1>1, <2>1 DEF LeadB, Lead
<1> QED
  BY <1>0, <1>3, <1>4, <1>5, <1>6, <1>7, <1>8 DEF BEffect

LEMMA BEffectReleased ==
  ASSUME Typed, Linked, Core, UNCHANGED proc, BReleased
  PROVE  BEffect
<1>0. /\ bstate = "B_RESET" /\ bstate' = "B_WAIT" /\ Directory(pgd)
      /\ hwt_reset' = data.arg /\ running' = (running \union hwt_reset) \ data.arg
      /\ UNCHANGED <<bq, data, br, pgd, reset_counter, proc>> /\ ~reset_dup /\ ~reset_dup'
  BY DEF BReleased, Core
<1>1. ~InPgd(bstate', data) /\ ~Resetting(bstate', data) /\ ~InPgd(bstate, data) /\ ~Resetting(bstate, data)
  BY <1>0 DEF InPgd, Resetting
<1>2. /\ Order(bstate', data, bq, pgd, proc) /\ Lead(bstate', data, bq) = Lead(bstate, data, bq)
      /\ Settled(bstate, data, bq, pgd) => Settled(bstate', data, bq, pgd)
      /\ Aimed(bstate, data, bq, pgd, proc) => Aimed(bstate', data, bq, pgd, proc)
  BY <1>0, <1>1, Moved DEF Linked
<1>3. Linked'
  BY <1>0, <1>2 DEF Linked
<1>4. LeadB = 0
  <2>1. bq # << >> => bq[1].cmd # "pgd"
    BY <1>0, EmptyLength DEF Linked, Order, Typed, TypedB
  <2> QED
    BY <1>1, <2>1 DEF LeadB, Lead
<1>5. Core'
  <2>1. running' \intersect hwt_reset' = {}
    BY <1>0
  <2> QED
    BY <1>0, <1>2, <1>4, <2>1 DEF Core, LeadB
<1>6. ResetPending <=> ResetPending'
  BY <1>0 DEF ResetPending
<1>7. LeadB' = LeadB /\ (SettledB => SettledB') /\ (AimedB => AimedB') /\ (ForeignB => ForeignB')
  BY <1>0, <1>2 DEF LeadB, SettledB, AimedB, ForeignB
<1>8. ~UncalledB
  BY <1>0, <1>1 DEF UncalledB, Uncalled
<1> QED
  BY <1>0, <1>3, <1>4, <1>5, <1>6, <1>7, <1>8 DEF BEffect

LEMMA BEffectDirected ==
  ASSUME Typed, Linked, Core, UNCHANGED proc, BDirected
  PROVE  BEffect
<1> DEFINE t == Tail(bq)
           p2 == IF Head(bq).cmd = "word" THEN Head(bq).arg ELSE Garbage
<1>0. /\ bstate = "B_PGD" /\ bq # << >> /\ bq' = t /\ bstate' = "B_WAIT" /\ pgd' = p2
      /\ UNCHANGED <<data, br, hwt_reset, running, reset_counter, proc>> /\ ~reset_dup /\ ~reset_dup'
  BY DEF BDirected, Core
<1>1. /\ t \in Seq(Words) /\ Len(bq) \in Nat \ {0} /\ Len(t) = Len(bq) - 1
      /\ \A i \in 1 .. Len(bq) - 1 : t[i] = bq[i + 1]
  BY <1>0, TailPlaces DEF Typed, TypedB
<1>2. Order("B_PGD", data, bq, pgd, proc) /\ proc \in 0 .. MaxProcs /\ bq \in Seq(Words)
  BY <1>0 DEF Linked, Typed, TypedSw, TypedB
<1>3. /\ Order("B_WAIT", data, t, p2, proc)
      /\ Lead("B_WAIT", data, t) = 0
      /\ Settled("B_PGD", data, bq, pgd) => Settled("B_WAIT", data, t, p2)
      /\ Foreign(bq, pgd, proc) => Foreign(t, p2, proc)
      /\ Settled("B_PGD", data, bq, pgd) /\ Aimed("B_PGD", data, bq, pgd, proc) => Aimed("B_WAIT", data, t, p2, proc)
  BY <1>0, <1>2, DirectoryRead
<1>4. LeadB = 1 /\ hwt_reset = Slots
  BY <1>0 DEF LeadB, Lead, InPgd, Core
<1>5. t = << >> <=> Len(t) = 0
  BY <1>1, EmptyLength
<1> HIDE DEF t, p2
<1>6. Linked'
  BY <1>0, <1>3 DEF Linked
<1>7. Core'
  BY <1>0, <1>3, <1>4 DEF Core
<1>8. LeadB' = 0
  BY <1>0, <1>3 DEF LeadB
<1>9. (SettledB => SettledB') /\ (SettledB /\ AimedB => AimedB') /\ (ForeignB => ForeignB')
  BY <1>0, <1>3 DEF SettledB, AimedB, ForeignB
<1>10. ~ResetPending => ~ResetPending'
  <2> SUFFICES ASSUME ~ResetPending, NEW i \in 1 .. Len(t), t[i].cmd = "reconos_reset" PROVE FALSE
    BY <1>0 DEF ResetPending
  <2>1. i + 1 \in 1 .. Len(bq) /\ t[i] = bq[i + 1]
    BY <1>1
  <2> QED
    BY <2>1, NotPending
<1>11. ResetPending /\ ~ResetPending' => bq' = << >>
  <2> SUFFICES ASSUME NEW i \in 1 .. Len(bq), bq[i].cmd = "reconos_reset", ~ResetPending' PROVE bq' = << >>
    BY <1>0 DEF ResetPending
  <2>1. CASE Len(t) = 0
    BY <1>0, <1>5, <2>1
  <2>2. CASE Len(t) # 0
    <3>1. Len(bq) \in 1 .. Len(bq) /\ i <= Len(bq) /\ Len(t) \in 1 .. Len(t) /\ t[Len(t)] = bq[Len(bq)]
      BY <1>1, <2>2
    <3>2. bq[Len(bq)].cmd = "reconos_reset"
      BY <1>2, <3>1 DEF Order
    <3> QED
      BY <1>0, <3>1, <3>2 DEF ResetPending
  <2> QED
    BY <2>1, <2>2
<1>12. UncalledB => UncalledB'
  BY <1>0, <1>1 DEF UncalledB, Uncalled
<1>13. Len(bq) # LeadB - 1
  BY <1>1, <1>4
<1> QED
  BY <1>0, <1>4, <1>6, <1>7, <1>8, <1>9, <1>10, <1>11, <1>12, <1>13 DEF BEffect

LEMMA BEffectCleared ==
  ASSUME Typed, Linked, Core, UNCHANGED proc, BCleared, ResetTicks > 0
  PROVE  BEffect
<1> DEFINE q2 == IF reset_dup THEN << >> ELSE bq
<1>0. /\ bstate = "B_RECONOS_RESET" /\ bstate' \in {"B_WAIT", "B_RECONOS_RESET"}
      /\ hwt_reset' = Slots /\ running' = {} /\ data' = Word("none", 0) /\ pgd' = 0 /\ bq' = q2 /\ UNCHANGED proc
      /\ br' = IF reset_dup THEN << >> ELSE br
      /\ reset_counter \in Nat
  BY DEF BCleared, Typed, TypedB
<1>1. \/ bstate' = "B_WAIT" /\ reset_counter' = 0 /\ ~reset_dup' /\ reset_dup
      \/ bstate' = "B_RECONOS_RESET" /\ reset_dup'
  BY <1>0 DEF BCleared, Core
<1>2. Order("B_RECONOS_RESET", data, bq, pgd, proc) /\ proc \in Nat /\ bq \in Seq(Words)
  BY <1>0 DEF Linked, Typed, TypedSw, TypedB
<1>3. q2 \in {bq, << >>} /\ (reset_dup => q2 = << >>)
  OBVIOUS
<1>4. /\ Order(bstate', Word("none", 0), q2, 0, proc)
      /\ Lead(bstate', Word("none", 0), q2) = 0
      /\ proc > 0 => Foreign(q2, 0, proc)
  BY <1>0, <1>2, <1>3, ResetTick
<1>5. LeadB = 0
  <2>1. bq # << >> => bq[1].cmd # "pgd"
    BY <1>2, EmptyLength DEF Order
  <2> QED
    BY <1>0, <2>1 DEF LeadB, Lead, InPgd
<1> HIDE DEF q2
<1>6. Linked'
  BY <1>0, <1>4 DEF Linked
<1>7. Core'
  BY <1>0, <1>1, <1>4 DEF Core
<1>8. LeadB' = 0
  BY <1>0, <1>4 DEF LeadB
<1>9. ResetPending
  BY <1>0 DEF ResetPending
<1>10. proc > 0 => ForeignB'
  BY <1>0, <1>4 DEF ForeignB
<1>11. ~ResetPending' => bq' = << >> /\ bstate' = "B_WAIT" /\ reset_dup /\ br' = << >>
  BY <1>0, <1>1, <1>3 DEF ResetPending
<1> QED
  BY <1>0, <1>5, <1>6, <1>7, <1>8, <1>9, <1>10, <1>11 DEF BEffect

LEMMA ClockLinked ==
  ASSUME Typed, Linked, Core, Clock, ResetTicks > 0
  PROVE  BEffect
<1>1. FSLB_PROC /\ UNCHANGED proc
  BY DEF Clock, swVars
<1> QED
  BY <1>1, BSteps, BEffectIdle, BEffectTook, BEffectBranched, BEffectReturned, BEffectReleased, BEffectDirected, BEffectCleared
     DEF Typed

-----------------------------------------------------------------------------
(***************************************************************************)
(* reconos_init and the link.                                              *)
(***************************************************************************)
Ready == {"thread", "open", "run"}
Startup ==
  /\ main # "down" => proc > 0
  /\ main \in {"reset", "pgd", "pgdWord"} => ForeignB
  /\ main \in Ready => SettledB /\ AimedB
  /\ main \in Ready \union {"pgdWord"} => ~ResetPending
  /\ main = "pgd" /\ ~ResetPending => bq = << >> /\ bstate = "B_WAIT" /\ hwt_reset = Slots
  /\ main = "pgdWord" => LeadB > 0 /\ Len(bq) = LeadB - 1
  /\ main \in {"pgdWord", "thread", "open"} => UncalledB

\* Threads of the process there are.
Threads ==
  /\ main # "run" => (\A s \in Slots : dl[s] = "none") /\ (\A c \in Clients : cl[c] = "none")
  /\ fd <=> main = "run"
  /\ main \notin {"open", "run"} => ctl = "none" /\ addr = NoPage
  /\ main = "open" => ctl # "none"

LinkInv == Linked /\ Core /\ Startup

LEMMA ThreadsStep ==
  ASSUME Typed, Threads, Next
  PROVE  Threads'
<1> USE DEF Typed, TypedSw, Threads
<1>1. CASE UNCHANGED <<main, dl, cl, fd, ctl, addr>>
  BY <1>1
<1>2. CASE Start \/ InitReset \/ InitPgd \/ InitWord \/ InitThread \/ InitOpen
  BY <1>2 DEF Start, InitReset, InitPgd, InitWord, InitPut, InitThread, InitOpen
<1>3. CASE Killed
  BY <1>3 DEF Killed
<1>4. CASE ControlCmd \/ ControlAddr \/ ControlZero \/ ControlFlush \/ ControlReply
  BY <1>4 DEF ControlCmd, ControlAddr, ControlZero, ControlFlush, ControlReply, ControlReads, ControlStep
<1>5. ASSUME NEW s \in Slots, SlotStep(s) \/ Send(s) \/ Exit(s) PROVE Threads'
  <2>1. main = "run"
    BY <1>5 DEF SlotStep, Send, Exit, reconos_hwt_create, SetFlag, ReadFlag, SendMask, DelegateStep
  <2>2. UNCHANGED <<main, cl, fd, ctl, addr>>
    BY <1>5 DEF SlotStep, Send, Exit, reconos_hwt_create, SetFlag, ReadFlag, SendMask, DelegateStep
  <2> QED
    BY <2>1, <2>2
<1>6. ASSUME NEW c \in Clients, Asks(c) \/ ReadReply(c) PROVE Threads'
  <2>1. main = "run"
    BY <1>6 DEF Asks, Ask, ReadReply, ClientStep
  <2>2. UNCHANGED <<main, dl, fd, ctl, addr>>
    BY <1>6 DEF Asks, Ask, ReadReply, ClientStep
  <2> QED
    BY <2>1, <2>2
<1>7. Clock \/ (\E p \in Pages : Access(p) \/ SwWrite(p) \/ Evict(p)) => UNCHANGED <<main, dl, cl, fd, ctl, addr>>
  BY DEF Clock, Access, SwWrite, Evict, swVars
<1> QED
  BY <1>1, <1>2, <1>3, <1>4, <1>5, <1>6, <1>7, Actions

LinkRest == <<bstate, data, pgd, reset_dup, reset_counter, hwt_reset>>

LEMMA LinkKept ==
  ASSUME LinkInv, UNCHANGED <<bq, proc, main, LinkRest>>, running' \subseteq running
  PROVE  LinkInv'
<1>1. Linked'
  BY DEF LinkInv, Linked, LinkRest
<1>2. Core'
  <2>1. running' \intersect hwt_reset' = {}
    BY DEF LinkInv, Core, LinkRest
  <2> QED
    BY <2>1 DEF LinkInv, Core, LinkRest
<1>3. /\ LeadB' = LeadB /\ (SettledB' <=> SettledB) /\ (AimedB' <=> AimedB) /\ (ForeignB' <=> ForeignB)
      /\ (UncalledB' <=> UncalledB) /\ (ResetPending' <=> ResetPending)
  BY DEF LeadB, SettledB, AimedB, ForeignB, UncalledB, ResetPending, LinkRest
<1>4. Startup'
  BY <1>3 DEF LinkInv, Startup, LinkRest
<1> QED
  BY <1>1, <1>2, <1>4 DEF LinkInv

LEMMA LinkClock ==
  ASSUME Typed, LinkInv, Clock, ResetTicks > 0
  PROVE  LinkInv'
<1>1. BEffect /\ UNCHANGED <<main, proc>>
  BY ClockLinked DEF LinkInv, Clock, swVars
<1>2. Startup'
  BY <1>1 DEF LinkInv, Startup, BEffect, Ready
<1> QED
  BY <1>1, <1>2 DEF LinkInv, BEffect

\* The next process: what is in the link is of those before it.
LEMMA LinkStart ==
  ASSUME Typed, LinkInv, Start
  PROVE  LinkInv'
<1>1. proc \in Nat /\ proc < MaxProcs /\ proc' = proc + 1 /\ main' = "reset" /\ UNCHANGED <<bq, running, LinkRest>>
  BY DEF Start, Typed, TypedSw, hwVars, bVars, links, LinkRest
<1>2. Linked'
  BY <1>1 DEF LinkInv, Linked, Order, Garbage, LinkRest
<1>3. Core'
  BY <1>1 DEF LinkInv, Core, LinkRest
<1>4. ForeignB'
  BY <1>1 DEF LinkInv, Linked, Order, ForeignB, Foreign, Garbage, LinkRest
<1>5. Startup'
  BY <1>1, <1>4 DEF Startup, Ready
<1> QED
  BY <1>2, <1>3, <1>5 DEF LinkInv

LEMMA LinkKilled ==
  ASSUME LinkInv, Killed
  PROVE  LinkInv'
<1>1. main' = "down" /\ UNCHANGED <<bq, proc, running, LinkRest>>
  BY DEF Killed, hwVars, bVars, links, LinkRest
<1>2. Linked' /\ Core'
  BY <1>1 DEF LinkInv, Linked, Core, LinkRest
<1>3. Startup'
  BY <1>1 DEF Startup, Ready
<1> QED
  BY <1>2, <1>3 DEF LinkInv

LEMMA LinkInitReset ==
  ASSUME Typed, LinkInv, InitReset, Len(bq) < Depth
  PROVE  LinkInv' /\ LeadB' = LeadB /\ ResetPending'
<1> DEFINE w == Word("reconos_reset", 0)
<1>1. /\ main = "reset" /\ main' = "pgd" /\ UNCHANGED <<proc, running, LinkRest>>
      /\ bq' = Put(bq, w) /\ bq \in Seq(Words) /\ w \in Words /\ w.cmd = "reconos_reset" /\ proc \in Nat
  BY WordType DEF InitReset, InitPut, hwVars, bVars, LinkRest, Typed, TypedB, TypedSw
<1>2. Order(bstate, data, bq, pgd, proc) /\ ForeignB /\ proc > 0 /\ (reset_dup => bstate = "B_RECONOS_RESET")
  BY <1>1 DEF LinkInv, Linked, Startup, Core
<1> HIDE DEF w
<1>3. CASE reset_dup
  <2>1. bq' = bq
    BY <1>1, <1>3 DEF Put
  <2>2. Linked' /\ Core' /\ ForeignB' /\ ResetPending' /\ LeadB' = LeadB
    BY <1>1, <1>2, <1>3, <2>1 DEF LinkInv, Linked, Core, ForeignB, ResetPending, LeadB, LinkRest
  <2> QED
    BY <1>1, <1>2, <2>2 DEF LinkInv, Startup, Ready
<1>4. CASE ~reset_dup
  <2>1. bq' = Append(bq, w)
    BY <1>1, <1>4 DEF Put
  <2>2. /\ Order(bstate, data, Append(bq, w), pgd, proc)
        /\ Foreign(bq, pgd, proc) => Foreign(Append(bq, w), pgd, proc)
        /\ Lead(bstate, data, Append(bq, w)) = Lead(bstate, data, bq)
    BY <1>1, <1>2, PutReset, LeadBehind
  <2>3. Len(bq) + 1 \in 1 .. Len(bq') /\ bq'[Len(bq) + 1] = w
    BY <1>1, <2>1, AppendPlaces
  <2>4. ResetPending'
    BY <1>1, <2>3 DEF ResetPending
  <2>5. Linked' /\ ForeignB'
    BY <1>1, <1>2, <2>1, <2>2 DEF Linked, ForeignB, LinkRest
  <2>6. Core' /\ LeadB' = LeadB
    BY <1>1, <2>1, <2>2 DEF LinkInv, Core, LeadB, LinkRest
  <2> QED
    BY <1>1, <1>2, <2>4, <2>5, <2>6 DEF LinkInv, Startup, Ready
<1> QED
  BY <1>3, <1>4

LEMMA LinkInitPgd ==
  ASSUME Typed, LinkInv, InitPgd, InitLate, ~Stuck
  PROVE  LinkInv' /\ bstate = "B_WAIT" /\ ~ResetPending
<1> DEFINE w == Word("pgd", 0)
<1>1. /\ main = "pgd" /\ main' = "pgdWord" /\ UNCHANGED <<proc, running, LinkRest>> /\ ~ResetPending
      /\ bq' = Put(bq, w) /\ w \in Words /\ w.cmd = "pgd"
  BY WordType DEF InitPgd, InitPut, hwVars, bVars, LinkRest
<1>2. bq = << >> /\ bstate = "B_WAIT" /\ ~reset_dup /\ Order("B_WAIT", data, << >>, pgd, proc) /\ ForeignB /\ proc > 0
  BY <1>1, NotPending DEF LinkInv, Linked, Startup
<1> HIDE DEF w
<1>3. bq' = Append(<< >>, w)
  BY <1>1, <1>2, NoWords DEF Put
<1>4. /\ Order("B_WAIT", data, Append(<< >>, w), pgd, proc)
      /\ Lead("B_WAIT", data, Append(<< >>, w)) = 2
      /\ Len(Append(<< >>, w)) = 1
      /\ Foreign(<< >>, pgd, proc) => Foreign(Append(<< >>, w), pgd, proc)
      /\ \A i \in 1 .. Len(Append(<< >>, w)) : Append(<< >>, w)[i].cmd = "pgd"
  BY <1>1, <1>2, PutPgd
<1>5. bstate' = "B_WAIT" /\ UNCHANGED <<data, pgd, proc, running, reset_dup, reset_counter, hwt_reset>>
  BY <1>1, <1>2 DEF LinkRest
<1>6. Linked' /\ LeadB' = 2 /\ Len(bq') = 1 /\ ForeignB'
  BY <1>2, <1>3, <1>4, <1>5 DEF Linked, LeadB, ForeignB
<1>7. UncalledB'
  BY <1>3, <1>4, <1>5 DEF UncalledB, Uncalled, Calls
<1>8. ~ResetPending'
  BY <1>2, <1>3, <1>4, <1>5 DEF ResetPending
<1>9. Core'
  <2>1. hwt_reset = Slots
    BY <1>1 DEF LinkInv, Startup
  <2> QED
    BY <1>2, <1>5, <2>1 DEF LinkInv, Core
<1>10. Startup'
  BY <1>1, <1>2, <1>5, <1>6, <1>7, <1>8 DEF Startup, Ready
<1> QED
  BY <1>1, <1>2, <1>6, <1>9, <1>10 DEF LinkInv

LEMMA LinkInitWord ==
  ASSUME Typed, LinkInv, InitWord, Depth > 1
  PROVE  LinkInv' /\ main' = "thread" /\ UncalledB'
<1> DEFINE w == Word("word", proc)
<1>1. /\ main = "pgdWord" /\ main' = "thread" /\ UNCHANGED <<proc, running, LinkRest>> /\ proc \in 0 .. MaxProcs
      /\ bq' = Put(bq, w) /\ bq \in Seq(Words) /\ w \in Words /\ w.cmd = "word" /\ w.arg = proc
  BY WordType DEF InitWord, InitPut, hwVars, bVars, LinkRest, Typed, TypedB, TypedSw
<1>2. /\ ~ResetPending /\ LeadB > 0 /\ Len(bq) = LeadB - 1 /\ UncalledB /\ proc > 0
      /\ Order(bstate, data, bq, pgd, proc)
  BY <1>1 DEF LinkInv, Linked, Startup, Ready
<1>3. /\ ~reset_dup /\ ~Resetting(bstate, data) /\ \A i \in 1 .. Len(bq) : bq[i].cmd # "reconos_reset"
  BY <1>2, NotPending
<1> HIDE DEF w
<1>4. LeadB \in 0 .. 2 /\ Len(bq) \in Nat
  BY <1>1, EmptyLength DEF LeadB, Lead
<1>5. bq' = Append(bq, w)
  BY <1>1, <1>2, <1>3, <1>4 DEF Put
<1>6. /\ Order(bstate, data, Append(bq, w), pgd, proc)
      /\ Lead(bstate, data, Append(bq, w)) = Lead(bstate, data, bq)
      /\ Settled(bstate, data, Append(bq, w), pgd)
      /\ Aimed(bstate, data, Append(bq, w), pgd, proc)
  BY <1>1, <1>2, <1>3, PutWord DEF LeadB
<1>7. UNCHANGED <<bstate, data, pgd, proc, running, reset_dup, reset_counter, hwt_reset>>
  BY <1>1 DEF LinkRest
<1>8. Linked' /\ LeadB' = LeadB /\ SettledB' /\ AimedB'
  BY <1>5, <1>6, <1>7 DEF Linked, LeadB, SettledB, AimedB
<1>9. \A i \in 1 .. Len(bq') : (i \in 1 .. Len(bq) /\ bq'[i] = bq[i]) \/ bq'[i] = w
  BY <1>1, <1>5, AppendPlaces
<1>10. UncalledB'
  BY <1>1, <1>2, <1>7, <1>9 DEF UncalledB, Uncalled, Calls
<1>11. ~ResetPending'
  BY <1>1, <1>3, <1>7, <1>9 DEF ResetPending, Resetting
<1>12. Core'
  BY <1>5, <1>6, <1>7 DEF LinkInv, Core
<1>13. Startup'
  BY <1>1, <1>2, <1>8, <1>10, <1>11 DEF Startup, Ready
<1> QED
  BY <1>1, <1>8, <1>10, <1>12, <1>13 DEF LinkInv

\* The last steps of reconos_init leave the link alone.
LEMMA LinkInitEnds ==
  ASSUME LinkInv, InitThread \/ InitOpen
  PROVE  LinkInv'
<1>1. main \in {"thread", "open"} /\ main' \in {"open", "run"} /\ UNCHANGED <<bq, proc, running, LinkRest>>
  BY DEF InitThread, InitOpen, hwVars, bVars, links, LinkRest
<1>2. Linked' /\ Core'
  BY <1>1 DEF LinkInv, Linked, Core, LinkRest
<1>3. /\ LeadB' = LeadB /\ (SettledB' <=> SettledB) /\ (AimedB' <=> AimedB)
      /\ (UncalledB' <=> UncalledB) /\ (ResetPending' <=> ResetPending)
  BY <1>1 DEF LeadB, SettledB, AimedB, UncalledB, ResetPending, LinkRest
<1>4. Startup'
  BY <1>1, <1>3 DEF LinkInv, Startup, Ready
<1> QED
  BY <1>2, <1>4 DEF LinkInv

\* A delegate's mask or a client's command.
LEMMA LinkCall ==
  ASSUME Typed, LinkInv, main = "run", UNCHANGED <<main, proc, running, LinkRest>>,
         NEW w \in Words, w.cmd \in Calls, bq' = Put(bq, w)
  PROVE  LinkInv' /\ LeadB' = LeadB
<1>1. bq \in Seq(Words) /\ Order(bstate, data, bq, pgd, proc) /\ SettledB /\ AimedB /\ ~ResetPending /\ proc > 0
  BY DEF Typed, TypedB, LinkInv, Linked, Startup, Ready
<1>2. ~reset_dup /\ ~Resetting(bstate, data) /\ \A i \in 1 .. Len(bq) : bq[i].cmd # "reconos_reset"
  BY <1>1, NotPending
<1>3. CASE bq' = bq
  BY <1>3, LinkKept DEF LeadB, LinkRest
<1>4. CASE bq' = Append(bq, w)
  <2>1. /\ Order(bstate, data, Append(bq, w), pgd, proc)
        /\ Lead(bstate, data, Append(bq, w)) = Lead(bstate, data, bq)
        /\ Settled(bstate, data, Append(bq, w), pgd)
        /\ Aimed(bstate, data, bq, pgd, proc) => Aimed(bstate, data, Append(bq, w), pgd, proc)
    BY <1>1, <1>2, PutCall DEF SettledB
  <2>2. UNCHANGED <<bstate, data, pgd, proc, running, reset_dup, reset_counter, hwt_reset>> /\ main' = "run"
    BY DEF LinkRest
  <2>3. Linked' /\ SettledB' /\ AimedB'
    BY <1>1, <1>4, <2>1, <2>2 DEF Linked, SettledB, AimedB
  <2>4. Core'
    BY <1>4, <2>1, <2>2 DEF LinkInv, Core
  <2>8. LeadB' = LeadB
    BY <1>4, <2>1, <2>2 DEF LeadB
  <2>5. \A i \in 1 .. Len(bq') : (i \in 1 .. Len(bq) /\ bq'[i] = bq[i]) \/ bq'[i] = w
    BY <1>1, <1>4, AppendPlaces
  <2>6. ~ResetPending'
    BY <1>2, <2>2, <2>5 DEF ResetPending, Resetting, Calls
  <2>7. Startup'
    BY <1>1, <2>2, <2>3, <2>6 DEF Startup, Ready
  <2> QED
    BY <2>3, <2>4, <2>7, <2>8 DEF LinkInv
<1> QED
  BY <1>1, <1>3, <1>4 DEF Put

\* The assumptions under which the initialisation takes.
InTime == InitLate /\ Depth > 1 /\ ResetTicks > 0

LEMMA LinkStep ==
  ASSUME Typed, LinkInv, Threads, Timely, Next, InTime
  PROVE  LinkInv'
<1>1. CASE Clock
  BY <1>1, LinkClock DEF InTime
<1>2. CASE Start \/ Killed
  BY <1>2, LinkStart, LinkKilled
<1>3. CASE InitReset
  <2>1. Len(bq) < Depth
    BY <1>3 DEF Timely, InitReset, InitPut
  <2> QED
    BY <1>3, <2>1, LinkInitReset
<1>4. CASE InitPgd
  <2>1. ~Stuck
    BY <1>4 DEF Timely, InitPgd, InitPut
  <2> QED
    BY <1>4, <2>1, LinkInitPgd DEF InTime
<1>5. CASE InitWord
  BY <1>5, LinkInitWord DEF InTime
<1>6. CASE InitThread \/ InitOpen
  BY <1>6, LinkInitEnds
<1>7. CASE ControlCmd \/ ControlAddr \/ ControlZero \/ ControlFlush \/ ControlReply
  <2>1. UNCHANGED <<bq, proc, main, running, LinkRest>>
    BY <1>7 DEF ControlCmd, ControlAddr, ControlZero, ControlFlush, ControlReply, ControlReads, ControlStep, hwVars, bVars, LinkRest
  <2> QED
    BY <2>1, LinkKept
<1>8. ASSUME NEW s \in Slots, SlotStep(s) \/ Exit(s) PROVE LinkInv'
  <2>1. UNCHANGED <<bq, proc, main, LinkRest>> /\ running' \subseteq running
    BY <1>8 DEF SlotStep, Exit, reconos_hwt_create, SetFlag, ReadFlag, DelegateStep, bVars, LinkRest
  <2> QED
    BY <2>1, LinkKept
<1>9. ASSUME NEW s \in Slots, Send(s) PROVE LinkInv'
  <2>1. UNCHANGED <<main, proc, running, LinkRest>> /\ bq' = Put(bq, Word("reset", mask[s])) /\ main = "run"
    BY <1>9 DEF Send, SendMask, DelegateStep, bVars, LinkRest, Threads
  <2>2. Word("reset", mask[s]) \in Words /\ Word("reset", mask[s]).cmd \in Calls
    BY WordType DEF Typed, TypedSw, Calls
  <2> QED
    BY <2>1, <2>2, LinkCall
<1>10. ASSUME NEW c \in Clients, Asks(c) PROVE LinkInv'
  <2>1. /\ UNCHANGED <<main, proc, running, LinkRest>> /\ main = "run"
        /\ \E x \in {"stats", "selftest"} : bq' = Put(bq, Word(x, 0))
    BY <1>10 DEF Asks, Ask, ClientStep, hwVars, bVars, LinkRest
  <2>2. \A x \in {"stats", "selftest"} : Word(x, 0) \in Words /\ Word(x, 0).cmd \in Calls
    BY WordType DEF Calls
  <2> QED
    BY <2>1, <2>2, LinkCall
<1>11. ASSUME NEW c \in Clients, ReadReply(c) PROVE LinkInv'
  <2>1. UNCHANGED <<bq, proc, main, running, LinkRest>>
    BY <1>11 DEF ReadReply, ClientStep, hwVars, bVars, LinkRest
  <2> QED
    BY <2>1, LinkKept
<1>12. ASSUME NEW p \in Pages, Access(p) \/ SwWrite(p) \/ Evict(p) PROVE LinkInv'
  <2>1. UNCHANGED <<bq, proc, main, running, LinkRest>>
    BY <1>12 DEF Access, SwWrite, Evict, swVars, hwVars, bVars, links, LinkRest
  <2> QED
    BY <2>1, LinkKept
<1> QED
  BY <1>1, <1>2, <1>3, <1>4, <1>5, <1>6, <1>7, <1>8, <1>9, <1>10, <1>11, <1>12, Actions

\* The core and the initialisation, before anything is asked of the threads.
CoreInv == Typed /\ Threads /\ LinkInv

LEMMA CoreInit ==
  ASSUME Init
  PROVE  CoreInv
<1>1. /\ bq = << >> /\ bstate = "B_WAIT" /\ pgd = 0 /\ proc = 0 /\ main = "down" /\ hwt_reset = Slots /\ running = {}
      /\ reset_counter = 0 /\ ~reset_dup
  BY DEF Init
<1>2. Len(<< >>) = 0
  OBVIOUS
<1>3. Linked
  BY <1>1, <1>2 DEF Linked, Order, Resetting
<1>4. Core
  BY <1>1 DEF Core
<1>5. Startup
  BY <1>1 DEF Startup, Ready
<1>6. Threads
  <2>1. (\A s \in Slots : dl[s] = "none") /\ (\A c \in Clients : cl[c] = "none") /\ ctl = "none" /\ addr = NoPage /\ ~fd
    BY DEF Init
  <2> QED
    BY <1>1, <2>1 DEF Threads
<1> QED
  BY <1>3, <1>4, <1>5, <1>6, TypedInit DEF CoreInv, LinkInv

LEMMA CoreStutter ==
  ASSUME CoreInv, UNCHANGED vars
  PROVE  CoreInv'
<1>1. Typed'
  BY DEF CoreInv, Typed, TypedSw, TypedB, TypedA, TypedMem, vars, swVars, hwVars, aVars, bVars, mmuVars, links
<1>2. Threads'
  BY DEF CoreInv, Threads, vars, swVars
<1>3. UNCHANGED <<bq, proc, main, running, LinkRest>>
  BY DEF vars, swVars, hwVars, bVars, links, LinkRest
<1>4. LinkInv'
  BY <1>3, LinkKept DEF CoreInv
<1> QED
  BY <1>1, <1>2, <1>4 DEF CoreInv

LEMMA CoreStep ==
  ASSUME CoreInv, Timely, [Next]_vars, InTime
  PROVE  CoreInv'
<1>1. CASE Next
  BY <1>1, TypedStep, ThreadsStep, LinkStep DEF CoreInv, LinkInv
<1>2. CASE UNCHANGED vars
  BY <1>2, CoreStutter
<1> QED
  BY <1>1, <1>2

\* Whatever processes that were killed have left in the links and the core, no
\* register or link overflows, and a hardware thread that is out of reset runs
\* under the page directory of a process: reconos_init's reset clears what was left
\* before its directory is read, and the calls of the process come behind it.
THEOREM CoreStaysSound ==
  ASSUME InTime
  PROVE  Spec /\ []Timely => []CoreSound
<1>1. Init => CoreInv
  BY CoreInit
<1>2. CoreInv /\ Timely /\ [Next]_vars => CoreInv'
  BY CoreStep
<1>3. CoreInv => CoreSound
  BY TypedIsTypeOK DEF CoreInv, LinkInv, Core, CoreSound, ReleasedWithPgd, Directory
<1> QED
  BY <1>1, <1>2, <1>3, PTL DEF Spec

-----------------------------------------------------------------------------
(***************************************************************************)
(* The words of link A: q in the link, all of self tests (Tests), behind   *)
(* them a fault without its address (Half) or with it (Full), or only the  *)
(* address is left (Address).                                              *)
(***************************************************************************)
Tests(q) == \A i \in 1 .. Len(q) : q[i].cmd = "selftest"
Half(q) ==
  /\ Len(q) > 0 /\ q[Len(q)].cmd = "fault"
  /\ \A i \in 1 .. Len(q) - 1 : q[i].cmd = "selftest"
Full(q, v) ==
  /\ Len(q) > 1 /\ q[Len(q) - 1].cmd = "fault" /\ q[Len(q)].arg = v
  /\ \A i \in 1 .. Len(q) - 2 : q[i].cmd = "selftest"
Address(q, v) == Len(q) = 1 /\ q[1].arg = v

LEMMA Requested ==
  ASSUME NEW q \in Seq(Requests), NEW w \in Requests
  PROVE  /\ Tests(q) /\ w.cmd = "selftest" => Tests(Append(q, w))
         /\ Tests(q) /\ w.cmd = "fault" => Half(Append(q, w))
         /\ Half(q) => Full(Append(q, w), w.arg)
         /\ q = << >> => Address(Append(q, w), w.arg)
<1> DEFINE a == Append(q, w)
<1>1. /\ a \in Seq(Requests) /\ Len(q) \in Nat /\ Len(a) = Len(q) + 1 /\ a[Len(q) + 1] = w
      /\ \A i \in 1 .. Len(q) : a[i] = q[i]
  BY AppendPlaces
<1>2. q = << >> => Len(q) = 0
  BY NoWords
<1> HIDE DEF a
<1>3. Tests(q) /\ w.cmd = "selftest" => Tests(a)
  BY <1>1 DEF Tests
<1>4. Tests(q) /\ w.cmd = "fault" => Half(a)
  BY <1>1 DEF Tests, Half
<1>5. Half(q) => Full(a, w.arg)
  BY <1>1 DEF Full, Half
<1>6. q = << >> => Address(a, w.arg)
  BY <1>1, <1>2 DEF Address
<1> QED
  BY <1>3, <1>4, <1>5, <1>6 DEF a

LEMMA RequestRead ==
  ASSUME NEW q \in Seq(Requests), q # << >>, NEW v
  PROVE  /\ Tests(q) => Head(q).cmd = "selftest" /\ Tests(Tail(q))
         /\ Half(q) => \/ Head(q).cmd = "selftest" /\ Half(Tail(q))
                       \/ Head(q).cmd = "fault" /\ Tail(q) = << >>
         /\ Full(q, v) => \/ Head(q).cmd = "selftest" /\ Full(Tail(q), v)
                          \/ Head(q).cmd = "fault" /\ Address(Tail(q), v)
         /\ Address(q, v) => Head(q).arg = v /\ Tail(q) = << >>
<1> DEFINE t == Tail(q)
           h == Head(q)
<1>1. /\ t \in Seq(Requests) /\ h = q[1] /\ Len(q) \in Nat \ {0} /\ Len(t) = Len(q) - 1
      /\ \A i \in 1 .. Len(q) - 1 : t[i] = q[i + 1]
  BY TailPlaces
<1>2. t = << >> <=> Len(t) = 0
  BY <1>1, EmptyLength
<1> HIDE DEF t, h
<1>3. Tests(q) => h.cmd = "selftest" /\ Tests(t)
  BY <1>1 DEF Tests
<1>4. Half(q) => (h.cmd = "selftest" /\ Half(t)) \/ (h.cmd = "fault" /\ t = << >>)
  <2>1. CASE Len(q) = 1
    BY <1>1, <1>2, <2>1 DEF Half
  <2>2. CASE Len(q) # 1
    <3>1. Len(q) - 1 \in 1 .. Len(q) - 1 /\ t[Len(q) - 1] = q[Len(q)]
      BY <1>1, <2>2
    <3> QED
      BY <1>1, <2>2, <3>1, SMTT(30) DEF Half
  <2> QED
    BY <2>1, <2>2
<1>5. Full(q, v) => (h.cmd = "selftest" /\ Full(t, v)) \/ (h.cmd = "fault" /\ Address(t, v))
  <2>1. CASE Len(q) <= 2
    BY <1>1, <2>1 DEF Full, Address
  <2>2. CASE Len(q) > 2
    <3>1. /\ Len(q) - 1 \in 1 .. Len(q) - 1 /\ t[Len(q) - 1] = q[Len(q)]
          /\ Len(q) - 2 \in 1 .. Len(q) - 1 /\ t[Len(q) - 2] = q[Len(q) - 1]
      BY <1>1, <2>2
    <3>2. \A i \in 1 .. Len(t) - 2 : t[i] = q[i + 1] /\ i + 1 \in 1 .. Len(q) - 2
      BY <1>1, <2>2, SMTT(30)
    <3>3. 1 \in 1 .. Len(q) - 2
      BY <1>1, <2>2
    <3>4. Len(t) > 1 /\ Len(t) = Len(q) - 1
      BY <1>1, <2>2
    <3>5. ASSUME Full(q, v) PROVE h.cmd = "selftest" /\ Full(t, v)
      <4>1. h.cmd = "selftest"
        BY <1>1, <3>3, <3>5 DEF Full
      <4>2. \A i \in 1 .. Len(t) - 2 : t[i].cmd = "selftest"
        BY <3>2, <3>5 DEF Full
      <4>3. Len(t) - 1 = Len(q) - 2 /\ t[Len(t) - 1].cmd = "fault" /\ t[Len(t)].arg = v
        BY <1>1, <3>1, <3>4, <3>5 DEF Full
      <4> QED
        BY <3>4, <4>1, <4>2, <4>3 DEF Full
    <3> QED
      BY <3>5
  <2> QED
    BY <1>1, <2>1, <2>2
<1>6. Address(q, v) => h.arg = v /\ t = << >>
  BY <1>1, <1>2 DEF Address
<1> QED
  BY <1>3, <1>4, <1>5, <1>6 DEF t, h

-----------------------------------------------------------------------------
(***************************************************************************)
(* Between the reset and the first thread nothing runs and nothing is      *)
(* asked, though a self test that was asked for before may still answer.   *)
(***************************************************************************)
Unasked ==
  /\ Tests(aq) /\ ar = << >> /\ astate \in {"A_WAIT", "A_SELFTEST"} /\ ~retry
  /\ ~page_fault /\ mmu = "idle" /\ ctl \in {"none", "cmd"}
Still == hwt_reset = Slots /\ br = << >> /\ Unasked
Early == LeadB > 0 \/ main \in {"thread", "open"} \/ (main = "pgd" /\ ~ResetPending)
Quiesced == Early => Still

LEMMA UnaskedTick ==
  ASSUME Typed, Clock, ctl \in {"none", "cmd"}, reset_dup \/ Unasked
  PROVE  Unasked'
<1>1. FSLA_PROC /\ MmuTick /\ UNCHANGED ctl
  BY DEF Clock, swVars
<1>2. Tests(<< >>)
  BY DEF Tests
<1>3. CASE reset_dup
  BY <1>1, <1>2, <1>3 DEF FSLA_PROC, MmuTick, Unasked
<1>4. CASE ~reset_dup /\ Unasked
  <2>1. mmu' = "idle" /\ ~page_fault'
    BY <1>1, <1>4 DEF MmuTick, Unasked
  <2>2. Word("selftest", NoPage) \in Requests /\ Word("selftest", NoPage).cmd = "selftest"
    BY DEF Requests, Word
  <2>3. Tests(Append(aq, Word("selftest", NoPage)))
    BY <1>4, <2>2, Requested DEF Unasked, Typed, TypedA
  <2>4. Tests(aq') /\ ar' = << >> /\ astate' \in {"A_WAIT", "A_SELFTEST"} /\ ~retry'
    BY <1>1, <1>4, <2>3 DEF FSLA_PROC, AWrite, Unasked
  <2> QED
    BY <1>1, <1>4, <2>1, <2>4 DEF Unasked
<1> QED
  BY <1>3, <1>4

LEMMA StillKept ==
  ASSUME Quiesced, UNCHANGED <<bq, main, LinkRest, br, aq, ar, astate, retry, page_fault, mmu>>,
         ctl' \in {"none", "cmd"} \/ ctl' = ctl
  PROVE  Quiesced'
<1>1. LeadB' = LeadB /\ (ResetPending' <=> ResetPending)
  BY DEF LeadB, ResetPending, LinkRest
<1>2. Still => Still'
  BY DEF Still, Unasked, LinkRest
<1> QED
  BY <1>1, <1>2 DEF Quiesced, Early

LEMMA StillClock ==
  ASSUME CoreInv, Quiesced, Clock, ResetTicks > 0
  PROVE  Quiesced'
<1>1. BEffect /\ UNCHANGED <<main, ctl>>
  BY ClockLinked DEF CoreInv, LinkInv, Clock, swVars
<1>2. CASE LeadB' > 0 \/ main \in {"thread", "open"} \/ (main = "pgd" /\ ~ResetPending)
  <2>1. Still
    BY <1>1, <1>2 DEF Quiesced, Early, BEffect
  <2>2. UNCHANGED <<hwt_reset, br>>
    BY <1>1, <1>2 DEF BEffect, CoreInv, LinkInv, Startup, Ready
  <2>3. Unasked'
    BY <2>1, UnaskedTick DEF CoreInv, Still, Unasked
  <2> QED
    BY <2>1, <2>2, <2>3 DEF Quiesced, Still
<1>3. CASE main = "pgd" /\ ResetPending /\ ~ResetPending'
  <2>1. hwt_reset' = Slots /\ ((reset_dup /\ br' = << >>) \/ (LeadB > 0 /\ br' = br))
    BY <1>1, <1>3 DEF BEffect
  <2>2. ctl = "none"
    BY <1>3 DEF CoreInv, Threads
  <2>3. LeadB > 0 => Still
    BY DEF Quiesced, Early
  <2>4. Unasked'
    BY <2>1, <2>2, <2>3, UnaskedTick DEF CoreInv, Still
  <2> QED
    BY <2>1, <2>3, <2>4 DEF Quiesced, Still
<1> QED
  BY <1>1, <1>2, <1>3 DEF Quiesced, Early

LEMMA StillStep ==
  ASSUME CoreInv, Quiesced, Timely, Next, InTime
  PROVE  Quiesced'
<1> DEFINE Calm == <<br, aq, ar, astate, retry, page_fault, mmu, ctl, hwt_reset>>
<1>0. UNCHANGED Calm => (Still' <=> Still)
  BY DEF Still, Unasked
<1>1. CASE Clock
  BY <1>1, StillClock DEF InTime
<1>2. CASE Start \/ Killed
  <2>1. main' \in {"reset", "down"} /\ UNCHANGED <<bq, LinkRest, br, aq, ar, astate, retry, page_fault, mmu>> /\ ctl' \in {"none", ctl}
    BY <1>2 DEF Start, Killed, hwVars, aVars, bVars, mmuVars, links, LinkRest
  <2>2. LeadB' = LeadB /\ (Still => Still')
    BY <2>1 DEF LeadB, Still, Unasked, LinkRest
  <2> QED
    BY <2>1, <2>2 DEF Quiesced, Early
<1>3. CASE InitReset
  <2>1. main' = "pgd" /\ UNCHANGED Calm /\ Len(bq) < Depth
    BY <1>3 DEF InitReset, InitPut, Timely, hwVars, aVars, bVars, mmuVars
  <2>2. LeadB' = LeadB /\ ResetPending'
    BY <1>3, <2>1, LinkInitReset DEF CoreInv
  <2> QED
    BY <1>0, <2>1, <2>2 DEF Quiesced, Early
<1>4. CASE InitPgd
  <2>1. main = "pgd" /\ ~Stuck /\ UNCHANGED Calm
    BY <1>4 DEF InitPgd, InitPut, Timely, hwVars, aVars, bVars, mmuVars
  <2>2. ~ResetPending
    BY <1>4, <2>1, LinkInitPgd DEF CoreInv, InTime
  <2> QED
    BY <1>0, <2>1, <2>2 DEF Quiesced, Early
<1>5. CASE InitWord \/ InitOpen
  <2>1. main \in {"pgdWord", "open"} /\ UNCHANGED Calm
    BY <1>5 DEF InitWord, InitPut, InitOpen, hwVars, aVars, bVars, mmuVars, links
  <2>2. Still
    BY <2>1 DEF Quiesced, Early, CoreInv, LinkInv, Startup
  <2> QED
    BY <1>0, <2>1, <2>2 DEF Quiesced
<1>6. CASE InitThread
  <2>1. main = "thread" /\ UNCHANGED <<br, aq, ar, astate, retry, page_fault, mmu, hwt_reset>> /\ ctl' = "cmd"
    BY <1>6 DEF InitThread, hwVars, aVars, bVars, mmuVars, links
  <2>2. Still
    BY <2>1 DEF Quiesced, Early
  <2> QED
    BY <2>1, <2>2 DEF Quiesced, Still, Unasked
<1>7. CASE ControlCmd \/ ControlAddr \/ ControlZero \/ ControlFlush \/ ControlReply
  <2>1. UNCHANGED <<bq, main, LinkRest, br, astate, retry, page_fault, mmu, hwt_reset>>
    BY <1>7 DEF ControlCmd, ControlAddr, ControlZero, ControlFlush, ControlReply, ControlReads, ControlStep,
                hwVars, aVars, bVars, mmuVars, LinkRest
  <2>2. LeadB' = LeadB /\ (ResetPending' <=> ResetPending)
    BY <2>1 DEF LeadB, ResetPending, LinkRest
  <2>3. Still => Still'
    <3> SUFFICES ASSUME Still PROVE Still'
      OBVIOUS
    <3>1. ControlCmd /\ aq \in Seq(Requests)
      BY <1>7 DEF ControlAddr, ControlZero, ControlFlush, ControlReply, ControlReads, ControlStep, Still, Unasked,
                  CoreInv, Typed, TypedA
    <3>2. aq # << >> /\ aq' = Tail(aq) /\ UNCHANGED ar /\ ctl' = (IF Head(aq).cmd = "fault" THEN "addr" ELSE "cmd")
      BY <3>1 DEF ControlCmd, ControlReads, ControlStep
    <3>3. Tests(aq') /\ ctl' = "cmd"
      BY <3>1, <3>2, RequestRead DEF Still, Unasked
    <3> QED
      BY <2>1, <3>2, <3>3 DEF Still, Unasked
  <2> QED
    BY <2>1, <2>2, <2>3 DEF Quiesced, Early
<1>8. ASSUME NEW s \in Slots, SlotStep(s) \/ Exit(s) PROVE Quiesced'
  <2>1. UNCHANGED <<bq, main, LinkRest, br, aq, ar, astate, retry, page_fault, mmu, ctl>>
    BY <1>8 DEF SlotStep, Exit, reconos_hwt_create, SetFlag, ReadFlag, DelegateStep, aVars, bVars, mmuVars, LinkRest
  <2> QED
    BY <2>1, StillKept
<1>9. ASSUME NEW s \in Slots, Send(s) PROVE Quiesced'
  <2>1. /\ UNCHANGED <<main, proc, running, LinkRest, Calm>> /\ bq' = Put(bq, Word("reset", mask[s])) /\ main = "run"
    BY <1>9 DEF Send, SendMask, DelegateStep, aVars, bVars, mmuVars, LinkRest, CoreInv, Threads
  <2>2. Word("reset", mask[s]) \in Words /\ Word("reset", mask[s]).cmd \in Calls
    BY WordType DEF CoreInv, Typed, TypedSw, Calls
  <2>3. LeadB' = LeadB
    BY <2>1, <2>2, LinkCall DEF CoreInv
  <2> QED
    BY <1>0, <2>1, <2>3 DEF Quiesced, Early
<1>10. ASSUME NEW c \in Clients, Asks(c) PROVE Quiesced'
  <2>1. /\ UNCHANGED <<main, proc, running, LinkRest, Calm>> /\ main = "run"
        /\ \E x \in {"stats", "selftest"} : bq' = Put(bq, Word(x, 0))
    BY <1>10 DEF Asks, Ask, ClientStep, hwVars, aVars, bVars, mmuVars, LinkRest
  <2>2. \A x \in {"stats", "selftest"} : Word(x, 0) \in Words /\ Word(x, 0).cmd \in Calls
    BY WordType DEF Calls
  <2>3. LeadB' = LeadB
    BY <2>1, <2>2, LinkCall DEF CoreInv
  <2> QED
    BY <1>0, <2>1, <2>3 DEF Quiesced, Early
<1>11. ASSUME NEW c \in Clients, ReadReply(c) PROVE Quiesced'
  <2>1. UNCHANGED <<bq, main, LinkRest>> /\ br # << >>
    BY <1>11 DEF ReadReply, ClientStep, hwVars, bVars, LinkRest
  <2>2. LeadB' = LeadB /\ (ResetPending' <=> ResetPending) /\ ~Still
    BY <2>1 DEF LeadB, ResetPending, Still, LinkRest
  <2> QED
    BY <2>1, <2>2 DEF Quiesced, Early
<1>12. ASSUME NEW p \in Pages, Access(p) PROVE Quiesced'
  <2>1. UNCHANGED <<bq, main, LinkRest>> /\ running # {}
    BY <1>12 DEF Access, swVars, bVars, links, LinkRest
  <2>2. LeadB' = LeadB /\ (ResetPending' <=> ResetPending)
    BY <2>1 DEF LeadB, ResetPending, LinkRest
  <2>3. ~Still
    BY <2>1 DEF Still, CoreInv, LinkInv, Core, Typed, TypedB
  <2> QED
    BY <2>1, <2>2, <2>3 DEF Quiesced, Early
<1>13. ASSUME NEW p \in Pages, SwWrite(p) \/ Evict(p) PROVE Quiesced'
  <2>1. UNCHANGED <<bq, main, LinkRest, br, aq, ar, astate, retry, page_fault, mmu, ctl>>
    BY <1>13 DEF SwWrite, Evict, swVars, hwVars, aVars, bVars, mmuVars, links, LinkRest
  <2> QED
    BY <2>1, StillKept
<1> QED
  BY <1>1, <1>2, <1>3, <1>4, <1>5, <1>6, <1>7, <1>8, <1>9, <1>10, <1>11, <1>12, <1>13, Actions

-----------------------------------------------------------------------------
(***************************************************************************)
(* One fault is one request: where it is, from the MMU's page_fault over   *)
(* link A, the control thread and the flush to the second walk.            *)
(***************************************************************************)
Faulting == page_fault /\ mmu = "fault" /\ vaddr \in Pages
NoRequest == Tests(aq) /\ ctl = "cmd" /\ ar = << >> /\ ~retry

Fault0 == /\ astate \in {"A_WAIT", "A_SELFTEST"} /\ NoRequest
          /\ page_fault => Faulting
          /\ mmu # "idle" => vaddr \in Pages
Fault1 == astate = "A_PAGE_FAULT_0" /\ NoRequest /\ Faulting
Fault2 == /\ astate = "A_PAGE_FAULT_1" /\ ar = << >> /\ ~retry /\ Faulting
          /\ (ctl = "cmd" /\ Half(aq)) \/ (ctl = "addr" /\ aq = << >>)

\* The control thread has not read the request, or serves it, or has replied.
Served ==
  \/ ctl = "cmd" /\ ar = << >> /\ Full(aq, vaddr)
  \/ ctl = "addr" /\ ar = << >> /\ Address(aq, vaddr)
  \/ /\ aq = << >> /\ addr = vaddr /\ ar = << >>
     /\ ctl = "zero" \/ (ctl = "flush" /\ pte[vaddr] # "none") \/ (ctl = "reply" /\ pte[vaddr] = "memory")
  \/ ctl = "cmd" /\ aq = << >> /\ Len(ar) = 1 /\ pte[vaddr] = "memory"
Fault3 == astate = "A_WAIT_PAGE_READY_0" /\ ~retry /\ Faulting /\ Served
Fault4 == /\ astate = "A_WAIT_PAGE_READY_1" /\ ctl = "cmd" /\ aq = << >> /\ ar = << >> /\ retry
          /\ vaddr \in Pages /\ pte[vaddr] = "memory"
          /\ (page_fault /\ mmu = "fault") \/ (~page_fault /\ mmu = "walk")
Fault == Fault0 \/ Fault1 \/ Fault2 \/ Fault3 \/ Fault4
Serving == main = "run" => Fault

\* The MMU's side of a tick, while no reply has come.
LEMMA FaultWaits ==
  ASSUME MmuTick, ~reset_dup, ~retry, UNCHANGED vaddr, mmu \in {"idle", "walk", "fault"},
         page_fault => Faulting, mmu # "idle" => vaddr \in Pages
  PROVE  /\ page_fault' => Faulting'
         /\ mmu' # "idle" => vaddr' \in Pages
         /\ page_fault => page_fault'
<1>1. CASE mmu = "idle"
  BY <1>1 DEF MmuTick, Faulting
<1>2. CASE mmu = "walk"
  BY <1>2 DEF MmuTick, Walk, Faulting
<1>3. CASE mmu = "fault"
  <2>1. mmu' = "fault" /\ page_fault'
    BY <1>3 DEF MmuTick
  <2> QED
    BY <1>3, <2>1 DEF Faulting
<1> QED
  BY <1>1, <1>2, <1>3

LEMMA FaultTick ==
  ASSUME CoreInv, Quiesced, Clock, main = "run", Fault
  PROVE  Fault'
<1>1. FSLA_PROC /\ MmuTick /\ UNCHANGED <<vaddr, pte, ctl, addr>>
  BY DEF Clock, swVars
<1>2. /\ ~reset_dup /\ aq \in Seq(Requests) /\ ar \in Seq({"ready"}) /\ mmu \in {"idle", "walk", "fault"} /\ vaddr \in Pages \union {NoPage}
      /\ AimedB
  BY NotPending DEF CoreInv, Typed, TypedA, LinkInv, Startup, Ready
<1>3. /\ Word("selftest", NoPage) \in Requests /\ Word("selftest", NoPage).cmd = "selftest"
      /\ Word("fault", NoPage) \in Requests /\ Word("fault", NoPage).cmd = "fault"
      /\ Word("word", vaddr) \in Requests /\ Word("word", vaddr).arg = vaddr
  BY <1>2 DEF Requests, Word
<1>4. CASE Fault0
  <2>1. (page_fault' => Faulting') /\ (mmu' # "idle" => vaddr' \in Pages) /\ (page_fault => page_fault')
    BY <1>1, <1>2, <1>4, FaultWaits DEF Fault0, NoRequest
  <2>2. Tests(Append(aq, Word("selftest", NoPage)))
    BY <1>2, <1>3, <1>4, Requested DEF Fault0, NoRequest
  <2>3. Tests(aq') /\ ctl' = "cmd" /\ ar' = << >> /\ ~retry'
    BY <1>1, <1>2, <1>4, <2>2 DEF FSLA_PROC, AWrite, Fault0, NoRequest
  <2>4. astate' \in {"A_WAIT", "A_SELFTEST"} \/ (astate' = "A_PAGE_FAULT_0" /\ page_fault)
    BY <1>1, <1>2, <1>4 DEF FSLA_PROC, AWrite, Fault0, NoRequest
  <2> QED
    BY <2>1, <2>3, <2>4 DEF Fault, Fault0, Fault1, NoRequest
<1>5. ASSUME Faulting, ~retry PROVE Faulting'
  BY <1>1, <1>2, <1>5, FaultWaits DEF Faulting
<1>6. CASE Fault1
  <2>1. Faulting'
    BY <1>5, <1>6 DEF Fault1, NoRequest
  <2>2. Half(Append(aq, Word("fault", NoPage)))
    BY <1>2, <1>3, <1>6, Requested DEF Fault1, NoRequest
  <2>3. /\ UNCHANGED <<ar, retry>>
        /\ (UNCHANGED <<aq, astate>>) \/ (aq' = Append(aq, Word("fault", NoPage)) /\ astate' = "A_PAGE_FAULT_1")
    BY <1>1, <1>2, <1>6 DEF FSLA_PROC, AWrite, Fault1
  <2> QED
    BY <1>1, <1>6, <2>1, <2>2, <2>3 DEF Fault, Fault1, Fault2, NoRequest
<1>7. CASE Fault2
  <2>1. Faulting'
    BY <1>5, <1>7 DEF Fault2
  <2>2. /\ Half(aq) => Full(Append(aq, Word("word", vaddr)), vaddr)
        /\ aq = << >> => Address(Append(aq, Word("word", vaddr)), vaddr)
    BY <1>2, <1>3, Requested
  <2>3. /\ UNCHANGED <<ar, retry>>
        /\ (UNCHANGED <<aq, astate>>) \/ (aq' = Append(aq, Word("word", vaddr)) /\ astate' = "A_WAIT_PAGE_READY_0")
    BY <1>1, <1>2, <1>7 DEF FSLA_PROC, AWrite, Fault2
  <2> QED
    BY <1>1, <1>7, <2>1, <2>2, <2>3 DEF Fault, Fault2, Fault3, Served
<1>8. CASE Fault3
  <2>1. Faulting' /\ page_fault' /\ mmu' = "fault" /\ vaddr' \in Pages
    BY <1>5, <1>8 DEF Fault3, Faulting
  <2>2. /\ UNCHANGED aq
        /\ \/ ar = << >> /\ UNCHANGED <<ar, astate, retry>>
           \/ ar # << >> /\ ar' = Tail(ar) /\ retry' /\ astate' = "A_WAIT_PAGE_READY_1"
    BY <1>1, <1>2, <1>8 DEF FSLA_PROC, AWrite, Fault3
  <2>3. CASE ar = << >> /\ UNCHANGED <<ar, astate, retry>>
    BY <1>1, <1>8, <2>1, <2>2, <2>3 DEF Fault, Fault3, Served
  <2>4. CASE ar # << >> /\ ar' = Tail(ar) /\ retry' /\ astate' = "A_WAIT_PAGE_READY_1"
    <3>1. ctl = "cmd" /\ aq = << >> /\ Len(ar) = 1 /\ pte[vaddr] = "memory"
      BY <1>8, <2>4 DEF Fault3, Served
    <3>2. ar' = << >>
      BY <1>2, <2>4, <3>1, TailPlaces, EmptyLength
    <3> QED
      BY <1>1, <2>1, <2>2, <2>4, <3>1, <3>2 DEF Fault, Fault4
  <2> QED
    BY <2>2, <2>3, <2>4
<1>9. CASE Fault4
  <2>1. pgd = proc /\ Alive
    <3>1. LeadB = 0
      BY <1>9 DEF Quiesced, Early, Still, Unasked, Fault4, LeadB, Lead
    <3> QED
      BY <1>2, <3>1 DEF AimedB, Aimed, LeadB, Alive
  <2>2. CASE page_fault /\ mmu = "fault"
    <3>1. UNCHANGED <<aq, ar, astate, retry>>
      BY <1>1, <1>2, <1>9, <2>2 DEF FSLA_PROC, AWrite, Fault4
    <3>2. ~page_fault' /\ mmu' = "walk"
      BY <1>1, <1>2, <1>9, <2>2 DEF MmuTick, Fault4
    <3> QED
      BY <1>1, <1>9, <3>1, <3>2 DEF Fault, Fault4
  <2>3. CASE ~page_fault /\ mmu = "walk"
    <3>1. UNCHANGED <<aq, ar>> /\ ~retry' /\ astate' = "A_WAIT"
      BY <1>1, <1>2, <1>9, <2>3 DEF FSLA_PROC, AWrite, Fault4
    <3>2. ~page_fault' /\ mmu' = "idle"
      BY <1>1, <1>2, <1>9, <2>1, <2>3 DEF MmuTick, Walk, Fault4
    <3>3. Tests(<< >>)
      BY DEF Tests
    <3> QED
      BY <1>1, <1>9, <3>1, <3>2, <3>3 DEF Fault, Fault0, Fault4, NoRequest
  <2> QED
    BY <1>9, <2>2, <2>3 DEF Fault4
<1> QED
  BY <1>4, <1>6, <1>7, <1>8, <1>9 DEF Fault

\* The control thread.
LEMMA FaultControl ==
  ASSUME CoreInv, main = "run", Fault, ControlCmd \/ ControlAddr \/ ControlZero \/ ControlFlush \/ ControlReply
  PROVE  Fault'
<1>1. UNCHANGED <<astate, retry, mmu, vaddr, page_fault>>
  BY DEF ControlCmd, ControlAddr, ControlZero, ControlFlush, ControlReply, ControlReads, ControlStep, hwVars, aVars, mmuVars
<1>2. aq \in Seq(Requests) /\ ~reset_dup /\ fd /\ pte \in [Pages -> {"none", "cached", "memory"}]
  BY NotPending DEF CoreInv, Typed, TypedA, TypedMem, LinkInv, Startup, Ready, Threads
<1>3. CASE ControlCmd
  <2>1. /\ ctl = "cmd" /\ aq # << >> /\ aq' = Tail(aq) /\ UNCHANGED <<ar, pte, addr>>
        /\ (Head(aq).cmd = "fault" /\ ctl' = "addr") \/ (Head(aq).cmd # "fault" /\ ctl' = "cmd")
    BY <1>3 DEF ControlCmd, ControlReads, ControlStep
  <2>2. /\ Tests(aq) => Head(aq).cmd = "selftest" /\ Tests(Tail(aq))
        /\ Half(aq) => \/ Head(aq).cmd = "selftest" /\ Half(Tail(aq))
                       \/ Head(aq).cmd = "fault" /\ Tail(aq) = << >>
        /\ Full(aq, vaddr) => \/ Head(aq).cmd = "selftest" /\ Full(Tail(aq), vaddr)
                              \/ Head(aq).cmd = "fault" /\ Address(Tail(aq), vaddr)
    BY <1>2, <2>1, RequestRead
  <2>3. CASE Fault0 \/ Fault1
    BY <1>1, <2>1, <2>2, <2>3 DEF Fault, Fault0, Fault1, NoRequest, Faulting
  <2>4. CASE Fault2
    BY <1>1, <2>1, <2>2, <2>4 DEF Fault, Fault2, Faulting
  <2>5. CASE Fault3
    BY <1>1, <2>1, <2>2, <2>5 DEF Fault, Fault3, Served, Faulting
  <2> QED
    BY <2>1, <2>3, <2>4, <2>5 DEF Fault, Fault4
<1>4. CASE ControlAddr
  <2>1. ctl = "addr" /\ aq # << >> /\ aq' = Tail(aq) /\ UNCHANGED <<ar, pte>> /\ ctl' = "zero" /\ addr' = Head(aq).arg
    BY <1>4 DEF ControlAddr, ControlReads, ControlStep
  <2>2. Fault3 /\ Address(aq, vaddr) /\ ar = << >>
    BY <2>1 DEF Fault, Fault0, Fault1, Fault2, Fault3, Fault4, NoRequest, Served
  <2>3. Head(aq).arg = vaddr /\ Tail(aq) = << >>
    BY <1>2, <2>1, <2>2, RequestRead
  <2> QED
    BY <1>1, <2>1, <2>2, <2>3 DEF Fault, Fault3, Served, Faulting
<1>5. CASE ControlZero
  <2>1. ctl = "zero" /\ ctl' = "flush" /\ pte' = Mapped(addr) /\ UNCHANGED <<addr, aq, ar>> /\ addr \in Pages
    BY <1>5 DEF ControlZero, ControlStep
  <2>2. Fault3 /\ aq = << >> /\ addr = vaddr /\ ar = << >>
    BY <2>1 DEF Fault, Fault0, Fault1, Fault2, Fault3, Fault4, NoRequest, Served
  <2>3. pte'[vaddr] # "none"
    BY <1>2, <2>1, <2>2 DEF Mapped
  <2> QED
    BY <1>1, <2>1, <2>2, <2>3 DEF Fault, Fault3, Served, Faulting
<1>6. CASE ControlFlush
  <2>1. /\ ctl = "flush" /\ ctl' = "reply" /\ UNCHANGED <<addr, aq, ar>>
        /\ pte' = [p \in Pages |-> IF fd /\ pte[p] = "cached" THEN "memory" ELSE pte[p]]
    BY <1>6 DEF ControlFlush, ControlStep
  <2>2. Fault3 /\ aq = << >> /\ addr = vaddr /\ ar = << >> /\ pte[vaddr] # "none" /\ vaddr \in Pages
    BY <2>1 DEF Fault, Fault0, Fault1, Fault2, Fault3, Fault4, NoRequest, Served, Faulting
  <2>3. pte'[vaddr] = "memory"
    BY <1>2, <2>1, <2>2
  <2> QED
    BY <1>1, <2>1, <2>2, <2>3 DEF Fault, Fault3, Served, Faulting
<1>7. CASE ControlReply
  <2>1. ctl = "reply" /\ ctl' = "cmd" /\ ar' = Put(ar, "ready") /\ UNCHANGED <<aq, pte>>
    BY <1>7 DEF ControlReply, ControlStep
  <2>2. Fault3 /\ aq = << >> /\ ar = << >> /\ pte[vaddr] = "memory"
    BY <2>1 DEF Fault, Fault0, Fault1, Fault2, Fault3, Fault4, NoRequest, Served
  <2>3. Len(ar') = 1
    <3>1. << >> \in Seq({"ready"}) /\ Len(<< >>) = 0
      BY NoWords
    <3>2. Put(<< >>, "ready") = Append(<< >>, "ready")
      BY <1>2, <3>1 DEF Put
    <3>3. Len(Append(<< >>, "ready")) = 0 + 1
      BY <3>1, AppendPlaces
    <3> QED
      BY <2>1, <2>2, <3>2, <3>3
  <2> QED
    BY <1>1, <2>1, <2>2, <2>3 DEF Fault, Fault3, Served, Faulting
<1> QED
  BY <1>3, <1>4, <1>5, <1>6, <1>7

\* Other threads and the cache.
LEMMA FaultMemory ==
  ASSUME Typed, Fault, NEW p \in Pages, SwWrite(p) \/ Evict(p)
  PROVE  Fault'
<1>1. UNCHANGED <<aq, ar, ctl, addr, astate, retry, mmu, vaddr, page_fault>>
  BY DEF SwWrite, Evict, swVars, hwVars, aVars, mmuVars, links
<1>2. vaddr \in Pages => (pte[vaddr] # "none" => pte'[vaddr] # "none") /\ (pte[vaddr] = "memory" => pte'[vaddr] = "memory")
  BY DEF SwWrite, Evict, Mapped, Typed, TypedMem
<1>3. CASE Fault0 \/ Fault1 \/ Fault2
  BY <1>1, <1>3 DEF Fault, Fault0, Fault1, Fault2, NoRequest, Faulting
<1>4. CASE Fault3
  BY <1>1, <1>2, <1>4 DEF Fault, Fault3, Served, Faulting
<1>5. CASE Fault4
  BY <1>1, <1>2, <1>5 DEF Fault, Fault4
<1> QED
  BY <1>3, <1>4, <1>5 DEF Fault

LEMMA ServingStep ==
  ASSUME CoreInv, Quiesced, Serving, Next
  PROVE  Serving'
<1>0. UNCHANGED <<main, aq, ar, ctl, addr, astate, retry, mmu, vaddr, page_fault, pte>> => Serving'
  BY DEF Serving, Fault, Fault0, Fault1, Fault2, Fault3, Fault4, NoRequest, Served, Faulting
<1>1. CASE Clock
  BY <1>1, FaultTick DEF Serving, Clock, swVars
<1>2. CASE Start \/ Killed \/ InitReset \/ InitPgd \/ InitWord \/ InitThread
  <2>1. main' # "run"
    BY <1>2 DEF Start, Killed, InitReset, InitPgd, InitWord, InitPut, InitThread
  <2> QED
    BY <2>1 DEF Serving
<1>3. CASE InitOpen
  <2>1. main = "open" /\ UNCHANGED <<aq, ar, ctl, astate, retry, mmu, vaddr, page_fault>>
    BY <1>3 DEF InitOpen, hwVars, aVars, mmuVars, links
  <2>2. Still /\ ctl # "none"
    BY <2>1 DEF Quiesced, Early, CoreInv, Threads
  <2>3. Fault0'
    BY <2>1, <2>2 DEF Still, Unasked, Fault0, NoRequest
  <2> QED
    BY <2>3 DEF Serving, Fault
<1>4. CASE ControlCmd \/ ControlAddr \/ ControlZero \/ ControlFlush \/ ControlReply
  <2>1. UNCHANGED main
    BY <1>4 DEF ControlCmd, ControlAddr, ControlZero, ControlFlush, ControlReply, ControlReads, ControlStep
  <2> QED
    BY <1>4, <2>1, FaultControl DEF Serving
<1>5. ASSUME NEW s \in Slots, SlotStep(s) \/ Send(s) \/ Exit(s) PROVE Serving'
  BY <1>0, <1>5 DEF SlotStep, Send, Exit, reconos_hwt_create, SetFlag, ReadFlag, SendMask, DelegateStep, aVars, mmuVars
<1>6. ASSUME NEW c \in Clients, Asks(c) \/ ReadReply(c) PROVE Serving'
  BY <1>0, <1>6 DEF Asks, Ask, ReadReply, ClientStep, hwVars, aVars, mmuVars
<1>7. ASSUME NEW p \in Pages, Access(p) PROVE Serving'
  <2>1. mmu = "idle" /\ mmu' = "walk" /\ vaddr' = p /\ UNCHANGED <<main, aq, ar, ctl, addr, astate, retry, page_fault, pte>>
    BY <1>7 DEF Access, swVars, aVars, links
  <2>2. ASSUME Fault PROVE Fault'
    <3>1. Fault0
      BY <2>1, <2>2 DEF Fault, Fault1, Fault2, Fault3, Fault4, Faulting
    <3>2. ~page_fault
      BY <2>1, <3>1 DEF Fault0, Faulting
    <3> QED
      BY <2>1, <3>1, <3>2 DEF Fault, Fault0, NoRequest
  <2> QED
    BY <2>1, <2>2 DEF Serving
<1>8. ASSUME NEW p \in Pages, SwWrite(p) \/ Evict(p) PROVE Serving'
  <2>1. UNCHANGED main
    BY <1>8 DEF SwWrite, Evict, swVars
  <2> QED
    BY <1>8, <2>1, FaultMemory DEF Serving, CoreInv
<1> QED
  BY <1>1, <1>2, <1>3, <1>4, <1>5, <1>6, <1>7, <1>8, Actions

FaultInv == CoreInv /\ Quiesced /\ Serving

LEMMA FaultInit ==
  ASSUME Init
  PROVE  FaultInv
<1>1. CoreInv
  BY CoreInit
<1>2. Quiesced
  BY DEF Init, Quiesced, Early, LeadB, Lead, InPgd
<1>3. Serving
  BY DEF Init, Serving
<1> QED
  BY <1>1, <1>2, <1>3 DEF FaultInv

LEMMA FaultStep ==
  ASSUME FaultInv, Timely, [Next]_vars, InTime
  PROVE  FaultInv'
<1>1. CASE Next
  BY <1>1, CoreStep, StillStep, ServingStep DEF FaultInv
<1>2. CASE UNCHANGED vars
  <2>1. UNCHANGED <<bq, main, LinkRest, br, aq, ar, astate, retry, page_fault, mmu, ctl, addr, vaddr, pte>>
    BY <1>2 DEF vars, swVars, hwVars, aVars, bVars, mmuVars, links, LinkRest
  <2>2. CoreInv'
    BY <1>2, CoreStutter DEF FaultInv
  <2>3. Quiesced'
    BY <2>1, StillKept DEF FaultInv
  <2>4. Serving'
    BY <2>1 DEF FaultInv, Serving, Fault, Fault0, Fault1, Fault2, Fault3, Fault4, NoRequest, Served, Faulting
  <2> QED
    BY <2>2, <2>3, <2>4 DEF FaultInv
<1> QED
  BY <1>1, <1>2

\* When proc_control makes the MMU of the process that runs try again, the entry of
\* the page is in the memory: one fault is one request, which the control thread
\* answers after the flush, and nothing it finds in the link is of another fault.
THEOREM RetriesFindThePage ==
  ASSUME InTime
  PROVE  Spec /\ []Timely => []RetryReady
<1>1. Init => FaultInv
  BY FaultInit
<1>2. FaultInv /\ Timely /\ [Next]_vars => FaultInv'
  BY FaultStep
<1>3. FaultInv => RetryReady
  <2> SUFFICES ASSUME FaultInv, retry, main # "down", pgd = proc PROVE pte[vaddr] = "memory"
    BY DEF RetryReady, Alive
  <2>1. main \in {"reset", "pgd", "pgdWord", "thread", "open", "run"}
    BY DEF FaultInv, CoreInv, Typed, TypedSw
  <2>2. main \notin {"reset", "pgd", "pgdWord"}
    BY DEF FaultInv, CoreInv, LinkInv, Startup, ForeignB, Foreign
  <2>3. main \notin {"thread", "open"}
    BY DEF FaultInv, Quiesced, Early, Still, Unasked
  <2>4. Fault4
    BY <2>1, <2>2, <2>3 DEF FaultInv, Serving, Fault, Fault0, Fault1, Fault2, Fault3, NoRequest
  <2> QED
    BY <2>4 DEF Fault4
<1> QED
  BY <1>1, <1>2, <1>3, PTL DEF Spec

-----------------------------------------------------------------------------
(***************************************************************************)
(* The one command a client has sent, and its reply.                       *)
(***************************************************************************)
Asked == {"stats", "selftest"}
NoneAsked(q) == \A i \in 1 .. Len(q) : q[i].cmd \notin Asked
OneAsked(q, x) == \E i \in 1 .. Len(q) : q[i].cmd = x /\ \A j \in 1 .. Len(q) : q[j].cmd \in Asked => j = i

LEMMA AskRead ==
  ASSUME NEW q \in Seq(Words), q # << >>, NEW x
  PROVE  /\ NoneAsked(q) => Head(q).cmd \notin Asked /\ NoneAsked(Tail(q))
         /\ OneAsked(q, x) /\ x \in Asked => \/ Head(q).cmd = x /\ NoneAsked(Tail(q))
                                             \/ Head(q).cmd \notin Asked /\ OneAsked(Tail(q), x)
<1> DEFINE t == Tail(q)
           h == Head(q)
<1>1. /\ t \in Seq(Words) /\ h = q[1] /\ Len(q) \in Nat \ {0} /\ Len(t) = Len(q) - 1
      /\ \A i \in 1 .. Len(q) - 1 : t[i] = q[i + 1]
  BY TailPlaces
<1> HIDE DEF t, h
<1>2. NoneAsked(q) => h.cmd \notin Asked /\ NoneAsked(t)
  BY <1>1 DEF NoneAsked
<1>3. ASSUME OneAsked(q, x), x \in Asked
      PROVE  (h.cmd = x /\ NoneAsked(t)) \/ (h.cmd \notin Asked /\ OneAsked(t, x))
  <2>1. PICK i \in 1 .. Len(q) : q[i].cmd = x /\ \A j \in 1 .. Len(q) : q[j].cmd \in Asked => j = i
    BY <1>3 DEF OneAsked
  <2>2. CASE i = 1
    <3>1. \A j \in 1 .. Len(t) : t[j] = q[j + 1] /\ j + 1 \in 1 .. Len(q) /\ j + 1 # 1
      BY <1>1
    <3>2. NoneAsked(t)
      BY <2>1, <2>2, <3>1 DEF NoneAsked
    <3> QED
      BY <1>1, <2>1, <2>2, <3>2
  <2>3. CASE i # 1
    <3>1. i - 1 \in 1 .. Len(t) /\ t[i - 1] = q[i] /\ 1 \in 1 .. Len(q)
      BY <1>1, <2>3
    <3>2. \A j \in 1 .. Len(t) : t[j] = q[j + 1] /\ j + 1 \in 1 .. Len(q)
      BY <1>1
    <3>3. \A j \in 1 .. Len(t) : t[j].cmd \in Asked => j = i - 1
      <4> SUFFICES ASSUME NEW j \in 1 .. Len(t), t[j].cmd \in Asked PROVE j = i - 1
        OBVIOUS
      <4>1. j + 1 = i
        BY <2>1, <3>2
      <4> QED
        BY <1>1, <4>1
    <3>4. OneAsked(t, x)
      BY <2>1, <3>1, <3>3 DEF OneAsked
    <3> QED
      BY <1>1, <2>1, <2>3, <3>1, <3>4
  <2> QED
    BY <2>2, <2>3
<1> QED
  BY <1>2, <1>3 DEF t, h

LEMMA AskSent ==
  ASSUME NEW q \in Seq(Words), NEW w \in Words, NEW x
  PROVE  /\ NoneAsked(q) /\ w.cmd \notin Asked => NoneAsked(Append(q, w))
         /\ OneAsked(q, x) /\ w.cmd \notin Asked => OneAsked(Append(q, w), x)
         /\ NoneAsked(q) => OneAsked(Append(q, w), w.cmd)
<1> DEFINE a == Append(q, w)
<1>1. /\ Len(q) \in Nat /\ Len(a) = Len(q) + 1 /\ a[Len(q) + 1] = w
      /\ \A i \in 1 .. Len(q) : a[i] = q[i]
  BY AppendPlaces
<1> HIDE DEF a
<1>2. \A i \in 1 .. Len(a) : (i \in 1 .. Len(q) /\ a[i] = q[i]) \/ (i = Len(q) + 1 /\ a[i] = w)
  BY <1>1
<1>3. NoneAsked(q) /\ w.cmd \notin Asked => NoneAsked(a)
  BY <1>2 DEF NoneAsked
<1>4. ASSUME OneAsked(q, x), w.cmd \notin Asked PROVE OneAsked(a, x)
  <2>1. PICK i \in 1 .. Len(q) : q[i].cmd = x /\ \A j \in 1 .. Len(q) : q[j].cmd \in Asked => j = i
    BY <1>4 DEF OneAsked
  <2>2. i \in 1 .. Len(a) /\ a[i].cmd = x
    BY <1>1, <2>1
  <2>3. \A j \in 1 .. Len(a) : a[j].cmd \in Asked => j = i
    BY <1>2, <1>4, <2>1
  <2> QED
    BY <2>2, <2>3 DEF OneAsked
<1>5. ASSUME NoneAsked(q) PROVE OneAsked(a, w.cmd)
  <2>1. Len(q) + 1 \in 1 .. Len(a)
    BY <1>1
  <2>2. \A j \in 1 .. Len(a) : a[j].cmd \in Asked => j = Len(q) + 1
    BY <1>2, <1>5 DEF NoneAsked
  <2> QED
    BY <1>1, <2>1, <2>2 DEF OneAsked
<1> QED
  BY <1>3, <1>4, <1>5 DEF a

Away ==
  /\ bstate \notin {"B_TLB_HITS", "B_TLB_MISSES", "B_SELFTEST"}
  /\ bstate = "B_BRANCH" => data.cmd \notin Asked
Replied(replies) == NoneAsked(bq) /\ Away /\ br = replies
Queued(x) == OneAsked(bq, x) /\ Away /\ br = << >>
Branching(x) == bstate = "B_BRANCH" /\ data.cmd = x /\ NoneAsked(bq) /\ br = << >>
Replying(state, replies) == bstate = state /\ NoneAsked(bq) /\ br = replies

\* A command that found the link full is lost: its client waits, and nothing is asked.
OfNone == Replied(<< >>)
OfHits ==
  \/ Replied(<< >>) \/ Queued("stats") \/ Branching("stats") \/ Replying("B_TLB_HITS", << >>)
  \/ Replying("B_TLB_MISSES", <<"hits">>) \/ Replied(<<"hits", "misses">>)
OfMisses == Replying("B_TLB_MISSES", << >>) \/ Replied(<<"misses">>)
OfSelftest ==
  \/ Replied(<< >>) \/ Queued("selftest") \/ Branching("selftest") \/ Replying("B_SELFTEST", << >>)
  \/ Replied(<<"selftest">>)
InOrder(w) ==
  \/ w = "none" /\ OfNone
  \/ w = "hits" /\ OfHits
  \/ w = "misses" /\ OfMisses
  \/ w = "selftest" /\ OfSelftest
Clientele == main = "run" => \A c \in Clients : InOrder(cl[c])

LEMMA Replies ==
  /\ Append(<< >>, "hits") = <<"hits">> /\ Append(<< >>, "misses") = <<"misses">>
  /\ Append(<< >>, "selftest") = <<"selftest">> /\ Append(<<"hits">>, "misses") = <<"hits", "misses">>
  /\ Head(<<"hits">>) = "hits" /\ Head(<<"misses">>) = "misses" /\ Head(<<"selftest">>) = "selftest"
  /\ Head(<<"hits", "misses">>) = "hits"
  /\ Tail(<<"hits">>) = << >> /\ Tail(<<"misses">>) = << >> /\ Tail(<<"selftest">>) = << >>
  /\ Tail(<<"hits", "misses">>) = <<"misses">>
<1>1. Append(<<"hits">>, "misses") = <<"hits", "misses">>
  <2> DEFINE S == {"hits", "misses"}
             a == Append(<<"hits">>, "misses")
             b == <<"hits", "misses">>
  <2>1. <<"hits">> \in Seq(S) /\ Len(<<"hits">>) = 1 /\ <<"hits">>[1] = "hits" /\ "misses" \in S
    OBVIOUS
  <2>2. b \in Seq(S) /\ Len(b) = 2 /\ b[1] = "hits" /\ b[2] = "misses"
    OBVIOUS
  <2>3. a \in Seq(S) /\ Len(a) = 1 + 1 /\ a[1 + 1] = "misses" /\ \A i \in 1 .. 1 : a[i] = <<"hits">>[i]
    BY <2>1, AppendPlaces
  <2> HIDE DEF a, b, S
  <2>4. Len(a) = 2 /\ a[1] = "hits" /\ a[2] = "misses"
    BY <2>1, <2>3
  <2>5. \A i \in 1 .. Len(a) : i = 1 \/ i = 2
    BY <2>4
  <2>6. \A i \in 1 .. Len(a) : a[i] = b[i]
    BY <2>2, <2>4, <2>5
  <2>7. a = b
    BY <2>2, <2>3, <2>4, <2>6, SeqEqual
  <2> QED
    BY <2>7 DEF a, b
<1>2. /\ Append(<< >>, "hits") = <<"hits">> /\ Append(<< >>, "misses") = <<"misses">>
      /\ Append(<< >>, "selftest") = <<"selftest">>
  OBVIOUS
<1>3. /\ Head(<<"hits">>) = "hits" /\ Head(<<"misses">>) = "misses" /\ Head(<<"selftest">>) = "selftest"
      /\ Head(<<"hits", "misses">>) = "hits"
  OBVIOUS
<1>4. Tail(<<"hits">>) = << >> /\ Tail(<<"misses">>) = << >> /\ Tail(<<"selftest">>) = << >>
  OBVIOUS
<1>5. Tail(<<"hits", "misses">>) = <<"misses">>
  OBVIOUS
<1> QED
  BY <1>1, <1>2, <1>3, <1>4, <1>5

\* What a tick does to a command that has not been read, to one that has, and to
\* its replies, whichever command it is.
LEMMA OrderTick ==
  ASSUME CoreInv, Clock, main = "run", NEW w, InOrder(w)
  PROVE  InOrder(w)'
<1> USE DEF Asked
<1>1. FSLB_PROC /\ TypedB /\ bq \in Seq(Words) /\ bstate # "B_RECONOS_RESET" /\ Core /\ SettledB
  BY NotPending DEF CoreInv, Typed, TypedB, LinkInv, Startup, Ready, Clock
<1>2. bq # << >> =>
        /\ NoneAsked(bq) => Head(bq).cmd \notin Asked /\ NoneAsked(Tail(bq))
        /\ OneAsked(bq, "stats") => \/ Head(bq).cmd = "stats" /\ NoneAsked(Tail(bq))
                                    \/ Head(bq).cmd \notin Asked /\ OneAsked(Tail(bq), "stats")
        /\ OneAsked(bq, "selftest") => \/ Head(bq).cmd = "selftest" /\ NoneAsked(Tail(bq))
                                       \/ Head(bq).cmd \notin Asked /\ OneAsked(Tail(bq), "selftest")
  BY <1>1, AskRead
<1> DEFINE Same == InOrder(w)'
<1>3. CASE BIdle
  <2>1. UNCHANGED <<bq, br, data, bstate>>
    BY <1>3 DEF BIdle
  <2> QED
    BY <2>1 DEF InOrder, OfNone, OfHits, OfMisses, OfSelftest, Replied, Queued, Branching, Replying, Away
<1>4. ASSUME BTested \/ BReleased PROVE Same
  <2>1. UNCHANGED <<bq, br, data>> /\ bstate \in {"B_SELFTEST_REQ", "B_RESET"} /\ bstate' = "B_WAIT"
    BY <1>4 DEF BTested, BReleased
  <2> QED
    BY <2>1 DEF InOrder, OfNone, OfHits, OfMisses, OfSelftest, Replied, Queued, Branching, Replying, Away
<1>5. CASE BTook
  <2>1. /\ bstate = "B_WAIT" /\ bq # << >>
        /\ bq' = Tail(bq) /\ data' = Head(bq) /\ bstate' = "B_BRANCH" /\ UNCHANGED br
    BY <1>5 DEF BTook
  <2>2. ASSUME NEW r, Replied(r) PROVE Replied(r)'
    BY <1>2, <2>1, <2>2 DEF Replied, Away
  <2>3. ASSUME NEW x \in Asked, Queued(x) PROVE Queued(x)' \/ Branching(x)'
    BY <1>2, <2>1, <2>3 DEF Queued, Branching, Away
  <2>4. \A x, r : ~Branching(x) /\ ~Replying("B_TLB_HITS", r) /\ ~Replying("B_TLB_MISSES", r) /\ ~Replying("B_SELFTEST", r)
    BY <2>1 DEF Branching, Replying
  <2> HIDE DEF Asked
  <2>5. CASE w = "none"
    BY <2>2, <2>5 DEF InOrder, OfNone
  <2>6. CASE w = "hits"
    BY <2>2, <2>3, <2>4, <2>6 DEF InOrder, OfHits, Asked
  <2>7. CASE w = "misses"
    BY <2>2, <2>4, <2>7 DEF InOrder, OfMisses
  <2>8. CASE w = "selftest"
    BY <2>2, <2>3, <2>4, <2>8 DEF InOrder, OfSelftest, Asked
  <2> QED
    BY <2>5, <2>6, <2>7, <2>8 DEF InOrder
<1>6. CASE BDirected
  <2>1. bstate = "B_PGD" /\ bq # << >> /\ bq' = Tail(bq) /\ bstate' = "B_WAIT" /\ UNCHANGED br
    BY <1>6 DEF BDirected
  <2>2. Head(bq).cmd \notin Asked
    BY <1>1, <2>1, TailPlaces DEF SettledB, Settled, Lead, InPgd
  <2>3. \A r : Replied(r) => Replied(r)'
    BY <1>2, <2>1 DEF Replied, Away
  <2>4. \A x \in Asked : Queued(x) => Queued(x)'
    BY <1>2, <2>1, <2>2 DEF Queued, Away
  <2>5. \A x, r : ~Branching(x) /\ ~Replying("B_TLB_HITS", r) /\ ~Replying("B_TLB_MISSES", r) /\ ~Replying("B_SELFTEST", r)
    BY <2>1 DEF Branching, Replying
  <2> QED
    BY <2>3, <2>4, <2>5 DEF InOrder, OfNone, OfHits, OfMisses, OfSelftest
<1>7. CASE BBranched
  <2>1. /\ bstate = "B_BRANCH" /\ bstate' = Branch(data.cmd) /\ UNCHANGED <<bq, br, data>>
        /\ data.cmd \in Calls \union {"pgd", "reconos_reset"}
    BY <1>1, <1>7 DEF BBranched, Core
  <2>2. data.cmd \notin Asked => bstate' \in {"B_RESET", "B_PGD", "B_RECONOS_RESET"}
    BY <2>1, BranchIs DEF Calls
  <2>3. \A r : Replied(r) => Replied(r)'
    BY <2>1, <2>2 DEF Replied, Away
  <2>4. \A x : Queued(x) => Queued(x)'
    BY <2>1, <2>2 DEF Queued, Away
  <2>5. Branching("stats") => Replying("B_TLB_HITS", << >>)'
    BY <2>1, BranchIs DEF Branching, Replying
  <2>6. Branching("selftest") => Replying("B_SELFTEST", << >>)'
    BY <2>1, BranchIs DEF Branching, Replying
  <2>7. \A r : ~Replying("B_TLB_HITS", r) /\ ~Replying("B_TLB_MISSES", r) /\ ~Replying("B_SELFTEST", r)
    BY <2>1 DEF Replying
  <2> QED
    BY <2>3, <2>4, <2>5, <2>6, <2>7 DEF InOrder, OfNone, OfHits, OfMisses, OfSelftest
<1>8. CASE BReplied("B_TLB_HITS", "hits", "B_TLB_MISSES")
  <2>1. bstate = "B_TLB_HITS" /\ bstate' = "B_TLB_MISSES" /\ br' = Append(br, "hits") /\ UNCHANGED <<bq, data>>
    BY <1>8 DEF BReplied
  <2>2. w = "hits" /\ Replying("B_TLB_HITS", << >>)
    BY <2>1 DEF InOrder, OfNone, OfHits, OfMisses, OfSelftest, Replied, Queued, Branching, Replying, Away
  <2>3. Replying("B_TLB_MISSES", <<"hits">>)'
    BY <2>1, <2>2, Replies DEF Replying
  <2> QED
    BY <2>2, <2>3 DEF InOrder, OfHits
<1>9. CASE BReplied("B_TLB_MISSES", "misses", "B_WAIT")
  <2>1. bstate = "B_TLB_MISSES" /\ bstate' = "B_WAIT" /\ br' = Append(br, "misses") /\ UNCHANGED <<bq, data>>
    BY <1>9 DEF BReplied
  <2>2. (w = "hits" /\ Replying("B_TLB_MISSES", <<"hits">>)) \/ (w = "misses" /\ Replying("B_TLB_MISSES", << >>))
    BY <2>1 DEF InOrder, OfNone, OfHits, OfMisses, OfSelftest, Replied, Queued, Branching, Replying, Away
  <2>3. Replying("B_TLB_MISSES", <<"hits">>) => Replied(<<"hits", "misses">>)'
    BY <2>1, Replies DEF Replying, Replied, Away
  <2>4. Replying("B_TLB_MISSES", << >>) => Replied(<<"misses">>)'
    BY <2>1, Replies DEF Replying, Replied, Away
  <2> QED
    BY <2>2, <2>3, <2>4 DEF InOrder, OfHits, OfMisses
<1>10. CASE BReplied("B_SELFTEST", "selftest", "B_SELFTEST_REQ")
  <2>1. bstate = "B_SELFTEST" /\ bstate' = "B_SELFTEST_REQ" /\ br' = Append(br, "selftest") /\ UNCHANGED <<bq, data>>
    BY <1>10 DEF BReplied
  <2>2. w = "selftest" /\ Replying("B_SELFTEST", << >>)
    BY <2>1 DEF InOrder, OfNone, OfHits, OfMisses, OfSelftest, Replied, Queued, Branching, Replying, Away
  <2>3. Replied(<<"selftest">>)'
    BY <2>1, <2>2, Replies DEF Replying, Replied, Away
  <2> QED
    BY <2>2, <2>3 DEF InOrder, OfSelftest
<1>11. ~BCleared
  BY <1>1 DEF BCleared
<1> QED
  BY <1>1, <1>3, <1>4, <1>5, <1>6, <1>7, <1>8, <1>9, <1>10, <1>11, BSteps

\* A command of another thread behind it.
LEMMA OrderSend ==
  ASSUME Typed, UNCHANGED <<br, bstate, data>>, NEW x \in Words, x.cmd \notin Asked, bq' = Put(bq, x), NEW w, InOrder(w)
  PROVE  InOrder(w)'
<1>1. bq' = bq \/ bq' = Append(bq, x)
  BY DEF Put
<1>2. /\ NoneAsked(bq) => NoneAsked(bq')
      /\ OneAsked(bq, "stats") => OneAsked(bq', "stats")
      /\ OneAsked(bq, "selftest") => OneAsked(bq', "selftest")
  <2>1. bq \in Seq(Words)
    BY DEF Typed, TypedB
  <2>2. NoneAsked(bq) => NoneAsked(Append(bq, x))
    BY <2>1, AskSent
  <2>3. \A v : OneAsked(bq, v) => OneAsked(Append(bq, x), v)
    BY <2>1, AskSent
  <2> QED
    BY <1>1, <2>2, <2>3
<1>3. Away' <=> Away
  BY DEF Away
<1>4. \A r : Replied(r) => Replied(r)'
  BY <1>2, <1>3 DEF Replied
<1>5. (Queued("stats") => Queued("stats")') /\ (Queued("selftest") => Queued("selftest")')
  BY <1>2, <1>3 DEF Queued
<1>6. \A v : Branching(v) => Branching(v)'
  BY <1>2 DEF Branching
<1>7. \A s, r : Replying(s, r) => Replying(s, r)'
  BY <1>2 DEF Replying
<1> QED
  BY <1>4, <1>5, <1>6, <1>7 DEF InOrder, OfNone, OfHits, OfMisses, OfSelftest

LEMMA OrderAsk ==
  ASSUME Typed, NEW c \in Clients, Asks(c), InOrder("none"), NEW w, w = cl'[c]
  PROVE  InOrder(w)'
<1>1. /\ bq \in Seq(Words) /\ cl \in [Clients -> {"none", "hits", "misses", "selftest"}]
  BY DEF Typed, TypedB, TypedSw
<1>2. Replied(<< >>)
  BY DEF InOrder, OfNone
<1>3. /\ UNCHANGED <<br, bstate, data>>
      /\ \/ w = "hits" /\ bq' = Put(bq, Word("stats", 0))
         \/ w = "selftest" /\ bq' = Put(bq, Word("selftest", 0))
  BY <1>1 DEF Asks, Ask, ClientStep, hwVars, bVars
<1>4. Away' <=> Away
  BY <1>3 DEF Away
<1>5. CASE bq' = bq
  <2>1. Replied(<< >>)'
    BY <1>2, <1>3, <1>4, <1>5 DEF Replied
  <2> QED
    BY <1>3, <2>1 DEF InOrder, OfHits, OfSelftest
<1>6. CASE bq' # bq
  <2>1. /\ Word("stats", 0) \in Words /\ Word("stats", 0).cmd = "stats"
        /\ Word("selftest", 0) \in Words /\ Word("selftest", 0).cmd = "selftest"
    BY WordType
  <2>2. NoneAsked(bq)
    BY <1>2 DEF Replied
  <2>3. \/ w = "hits" /\ OneAsked(bq', "stats")
        \/ w = "selftest" /\ OneAsked(bq', "selftest")
    <3>1. /\ OneAsked(Append(bq, Word("stats", 0)), "stats")
          /\ OneAsked(Append(bq, Word("selftest", 0)), "selftest")
      <4>1. \A x \in Words : OneAsked(Append(bq, x), x.cmd)
        BY <1>1, <2>2, AskSent
      <4> QED
        BY <2>1, <4>1
    <3>2. \/ w = "hits" /\ bq' = Append(bq, Word("stats", 0))
          \/ w = "selftest" /\ bq' = Append(bq, Word("selftest", 0))
      BY <1>3, <1>6 DEF Put
    <3> QED
      BY <3>1, <3>2
  <2>4. (w = "hits" /\ Queued("stats")') \/ (w = "selftest" /\ Queued("selftest")')
    BY <1>2, <1>3, <1>4, <2>3 DEF Queued, Replied
  <2> QED
    BY <2>4 DEF InOrder, OfHits, OfSelftest
<1> QED
  BY <1>5, <1>6

LEMMA OrderRead ==
  ASSUME Typed, NEW c \in Clients, ReadReply(c), NEW v, v = cl[c], InOrder(v), NEW w, w = cl'[c]
  PROVE  InOrder(w)'
<1>1. cl \in [Clients -> {"none", "hits", "misses", "selftest"}]
  BY DEF Typed, TypedSw
<1>2. /\ UNCHANGED <<bq, bstate, data>> /\ br # << >> /\ br' = Tail(br)
      /\ \/ v = "hits" /\ w = "misses"
         \/ v = "misses" /\ w = "none"
         \/ v = "selftest" /\ w = "none"
  BY <1>1 DEF ReadReply, ClientStep, hwVars, bVars
<1>3. Away' <=> Away
  BY <1>2 DEF Away
<1>4. CASE v = "hits"
  <2>1. Replying("B_TLB_MISSES", <<"hits">>) \/ Replied(<<"hits", "misses">>)
    BY <1>2, <1>4 DEF InOrder, OfHits, Replied, Queued, Branching, Replying
  <2>2. Replying("B_TLB_MISSES", <<"hits">>) => Replying("B_TLB_MISSES", << >>)'
    BY <1>2, Replies DEF Replying
  <2>3. Replied(<<"hits", "misses">>) => Replied(<<"misses">>)'
    BY <1>2, <1>3, Replies DEF Replied
  <2> QED
    BY <1>2, <1>4, <2>1, <2>2, <2>3 DEF InOrder, OfMisses
<1>5. CASE v = "misses"
  <2>1. Replied(<<"misses">>)
    BY <1>2, <1>5 DEF InOrder, OfMisses, Replied, Replying
  <2>2. Replied(<< >>)'
    BY <1>2, <1>3, <2>1, Replies DEF Replied
  <2> QED
    BY <1>2, <1>5, <2>2 DEF InOrder, OfNone
<1>6. CASE v = "selftest"
  <2>1. Replied(<<"selftest">>)
    BY <1>2, <1>6 DEF InOrder, OfSelftest, Replied, Queued, Branching, Replying
  <2>2. Replied(<< >>)'
    BY <1>2, <1>3, <2>1, Replies DEF Replied
  <2> QED
    BY <1>2, <1>6, <2>2 DEF InOrder, OfNone
<1> QED
  BY <1>2, <1>4, <1>5, <1>6

\* One thread at a time asks, as the demos do: the core does not say whose a reply is.
OneClient == \A c, d \in Clients : c = d

LEMMA ClienteleStep ==
  ASSUME FaultInv, Clientele, Next, OneClient
  PROVE  Clientele'
<1>0. ASSUME UNCHANGED <<main, cl, bq, br, bstate, data>> PROVE Clientele'
  BY <1>0 DEF Clientele, InOrder, OfNone, OfHits, OfMisses, OfSelftest, Replied, Queued, Branching, Replying, Away
<1>1. CASE Clock
  <2> SUFFICES ASSUME main = "run", NEW c \in Clients PROVE InOrder(cl[c])'
    BY <1>1 DEF Clientele, Clock, swVars
  <2>1. PICK v : v = cl[c]
    OBVIOUS
  <2>2. InOrder(v)
    BY <2>1 DEF Clientele
  <2>3. InOrder(v)'
    BY <1>1, <2>2, OrderTick DEF FaultInv
  <2>4. v = cl'[c]
    BY <1>1, <2>1 DEF Clock, swVars
  <2> QED
    BY <2>3, <2>4
<1>2. CASE Start \/ Killed \/ InitReset \/ InitPgd \/ InitWord \/ InitThread
  <2>1. main' # "run"
    BY <1>2 DEF Start, Killed, InitReset, InitPgd, InitWord, InitPut, InitThread
  <2> QED
    BY <2>1 DEF Clientele
<1>3. CASE InitOpen
  <2>1. main = "open" /\ UNCHANGED <<cl, bq, br, bstate, data>>
    BY <1>3 DEF InitOpen, hwVars, bVars, links
  <2>2. br = << >> /\ UncalledB /\ \A c \in Clients : cl[c] = "none"
    BY <2>1 DEF FaultInv, CoreInv, LinkInv, Startup, Threads, Quiesced, Early, Still
  <2>3. NoneAsked(bq) /\ Away
    BY <2>2 DEF UncalledB, Uncalled, InPgd, NoneAsked, Away, Asked, Calls
  <2>4. Replied(<< >>)'
    BY <2>1, <2>2, <2>3 DEF Replied, Away
  <2> QED
    BY <2>1, <2>2, <2>4 DEF Clientele, InOrder, OfNone
<1>4. CASE ControlCmd \/ ControlAddr \/ ControlZero \/ ControlFlush \/ ControlReply
  <2>1. UNCHANGED <<main, cl, bq, br, bstate, data>>
    BY <1>4 DEF ControlCmd, ControlAddr, ControlZero, ControlFlush, ControlReply, ControlReads, ControlStep, hwVars, bVars
  <2> QED
    BY <1>0, <2>1
<1>5. ASSUME NEW s \in Slots, SlotStep(s) \/ Exit(s) PROVE Clientele'
  <2>1. UNCHANGED <<main, cl, bq, br, bstate, data>>
    BY <1>5 DEF SlotStep, Exit, reconos_hwt_create, SetFlag, ReadFlag, DelegateStep, bVars
  <2> QED
    BY <1>0, <2>1
<1>6. ASSUME NEW s \in Slots, Send(s) PROVE Clientele'
  <2> SUFFICES ASSUME main' = "run", NEW c \in Clients PROVE InOrder(cl[c])'
    BY DEF Clientele
  <2>1. UNCHANGED <<main, cl, br, bstate, data>> /\ bq' = Put(bq, Word("reset", mask[s]))
    BY <1>6 DEF Send, SendMask, DelegateStep, bVars
  <2>2. Word("reset", mask[s]) \in Words /\ Word("reset", mask[s]).cmd \notin Asked
    BY WordType DEF FaultInv, CoreInv, Typed, TypedSw, Asked
  <2>3. PICK v : v = cl[c]
    OBVIOUS
  <2>4. PICK x : x = Word("reset", mask[s])
    OBVIOUS
  <2>5. InOrder(v)
    BY <2>1, <2>3 DEF Clientele
  <2>6. InOrder(v)'
    BY <2>1, <2>2, <2>4, <2>5, OrderSend DEF FaultInv, CoreInv
  <2>7. v = cl'[c]
    BY <2>1, <2>3
  <2> QED
    BY <2>6, <2>7
<1>7. ASSUME NEW c \in Clients, Asks(c) PROVE Clientele'
  <2> SUFFICES ASSUME NEW d \in Clients PROVE InOrder(cl[d])'
    BY DEF Clientele
  <2>1. main = "run" /\ cl[c] = "none" /\ d = c
    BY <1>7 DEF Asks, Ask, ClientStep, OneClient
  <2>2. InOrder("none")
    BY <2>1 DEF Clientele
  <2>3. PICK w : w = cl'[c]
    OBVIOUS
  <2>4. InOrder(w)'
    BY <1>7, <2>2, <2>3, OrderAsk DEF FaultInv, CoreInv
  <2> QED
    BY <2>1, <2>3, <2>4
<1>8. ASSUME NEW c \in Clients, ReadReply(c) PROVE Clientele'
  <2> SUFFICES ASSUME main' = "run", NEW d \in Clients PROVE InOrder(cl[d])'
    BY DEF Clientele
  <2>1. main = "run" /\ d = c
    BY <1>8 DEF ReadReply, ClientStep, OneClient
  <2>2. PICK v : v = cl[c]
    OBVIOUS
  <2>3. PICK w : w = cl'[c]
    OBVIOUS
  <2>4. InOrder(v)
    BY <2>1, <2>2 DEF Clientele
  <2>5. InOrder(w)'
    BY <1>8, <2>2, <2>3, <2>4, OrderRead DEF FaultInv, CoreInv
  <2> QED
    BY <2>1, <2>3, <2>5
<1>9. ASSUME NEW p \in Pages, Access(p) \/ SwWrite(p) \/ Evict(p) PROVE Clientele'
  <2>1. UNCHANGED <<main, cl, bq, br, bstate, data>>
    BY <1>9 DEF Access, SwWrite, Evict, swVars, hwVars, bVars, links
  <2> QED
    BY <1>0, <2>1
<1> QED
  BY <1>1, <1>2, <1>3, <1>4, <1>5, <1>6, <1>7, <1>8, <1>9, Actions

\* A client of reconos_mmu_stats or proc_control_selftest reads the reply to its own
\* command, and its words in their order, whatever delegates send meanwhile and
\* however often the process before it was killed with a reply unread.
THEOREM RepliesAreExpected ==
  ASSUME InTime, OneClient
  PROVE  Spec /\ []Timely => []ReplyExpected
<1>1. Init => FaultInv /\ Clientele
  BY FaultInit DEF Init, Clientele
<1>2. FaultInv /\ Clientele /\ Timely /\ [Next]_vars => (FaultInv /\ Clientele)'
  <2> SUFFICES ASSUME FaultInv, Clientele, Timely, [Next]_vars PROVE FaultInv' /\ Clientele'
    OBVIOUS
  <2>1. FaultInv'
    BY FaultStep
  <2>2. CASE Next
    BY <2>1, <2>2, ClienteleStep
  <2>3. CASE UNCHANGED vars
    <3>1. UNCHANGED <<main, cl, bq, br, bstate, data>>
      BY <2>3 DEF vars, swVars, hwVars, bVars, links
    <3>2. Clientele'
      BY <3>1 DEF Clientele, InOrder, OfNone, OfHits, OfMisses, OfSelftest, Replied, Queued, Branching, Replying, Away
    <3> QED
      BY <2>1, <3>2
  <2> QED
    BY <2>2, <2>3
<1>3. FaultInv /\ Clientele => ReplyExpected
  <2> SUFFICES ASSUME FaultInv, Clientele, NEW c \in Clients, cl[c] # "none", br # << >> PROVE Head(br) = cl[c]
    BY DEF ReplyExpected
  <2>1. InOrder(cl[c])
    BY DEF FaultInv, CoreInv, Threads, Clientele
  <2>2. /\ Replied(<< >>) \/ Queued("stats") \/ Queued("selftest") \/ Branching("stats") \/ Branching("selftest") => br = << >>
        /\ \A s : Replying(s, << >>) => br = << >>
    BY DEF Replied, Queued, Branching, Replying
  <2>3. CASE cl[c] = "hits"
    <3>1. br = <<"hits">> \/ br = <<"hits", "misses">>
      BY <2>1, <2>2, <2>3 DEF InOrder, OfHits, Replied, Replying
    <3> QED
      BY <2>3, <3>1, Replies
  <2>4. CASE cl[c] = "misses"
    <3>1. br = <<"misses">>
      BY <2>1, <2>2, <2>4 DEF InOrder, OfMisses, Replied
    <3> QED
      BY <2>4, <3>1, Replies
  <2>5. CASE cl[c] = "selftest"
    <3>1. br = <<"selftest">>
      BY <2>1, <2>2, <2>5 DEF InOrder, OfSelftest, Replied
    <3> QED
      BY <2>5, <3>1, Replies
  <2> QED
    BY <2>1, <2>3, <2>4, <2>5 DEF InOrder
<1> QED
  BY <1>1, <1>2, <1>3, PTL DEF Spec

-----------------------------------------------------------------------------
(***************************************************************************)
(* The premise: it fails only for a process behind one that was killed.    *)
(***************************************************************************)
ToReset == (bstate = "B_WAIT" \/ Resetting(bstate, data)) /\ \A i \in 1 .. Len(bq) : bq[i].cmd = "reconos_reset"
Alone ==
  /\ "kills" \notin uses
  /\ main \in {"down", "reset"} => bq = << >> /\ bstate = "B_WAIT" /\ ~reset_dup
  /\ main = "pgd" => ToReset

LEMMA AloneIsTimely ==
  ASSUME Alone
  PROVE  Timely
<1>1. Len(<< >>) = 0
  OBVIOUS
<1> QED
  BY <1>1 DEF Alone, Timely, Stuck, ToReset, Resetting

LEMMA AloneClock ==
  ASSUME CoreInv, Alone, Clock
  PROVE  Alone'
<1>1. FSLB_PROC /\ UNCHANGED <<uses, main>> /\ TypedB /\ bq \in Seq(Words) /\ Core
  BY DEF Clock, swVars, CoreInv, Typed, TypedB, LinkInv
<1>2. main \in {"down", "reset"} => UNCHANGED <<bq, bstate>> /\ ~reset_dup'
  BY <1>1 DEF Alone, FSLB_PROC, BTake, BRest
<1>3. ASSUME ToReset PROVE ToReset'
  <2>1. CASE BIdle
    BY <1>3, <2>1 DEF BIdle, ToReset, Resetting
  <2>2. CASE BTook
    <3>1. bstate' = "B_BRANCH" /\ data' = bq[1] /\ 1 \in 1 .. Len(bq)
      BY <1>1, <2>2, TailPlaces DEF BTook
    <3>2. \A i \in 1 .. Len(bq') : bq'[i] = bq[i + 1] /\ i + 1 \in 1 .. Len(bq)
      BY <1>1, <2>2, TailPlaces DEF BTook
    <3> QED
      BY <1>3, <3>1, <3>2 DEF ToReset, Resetting
  <2>3. CASE BBranched
    BY <1>3, <2>3, BranchIs DEF BBranched, ToReset, Resetting
  <2>4. CASE BCleared
    <3>1. Len(<< >>) = 0
      OBVIOUS
    <3> QED
      BY <1>3, <2>4, <3>1 DEF BCleared, ToReset, Resetting
  <2>5. bstate \in {"B_WAIT", "B_BRANCH", "B_RECONOS_RESET"}
    BY <1>3 DEF ToReset, Resetting
  <2> QED
    BY <1>1, <2>1, <2>2, <2>3, <2>4, <2>5, BSteps DEF BReplied, BTested, BReleased, BDirected
<1> QED
  BY <1>1, <1>2, <1>3 DEF Alone

LEMMA AloneStep ==
  ASSUME FaultInv, Alone, Next
  PROVE  Alone'
<1>1. CASE Clock
  BY <1>1, AloneClock DEF FaultInv
<1>2. CASE Start
  BY <1>2 DEF Start, Alone, hwVars, bVars, links
<1>3. ~Killed
  <2> SUFFICES ASSUME ctl = "zero", addr \notin Pages PROVE FALSE
    BY DEF Killed, Alone
  <2>1. main = "run"
    <3>1. main \in {"thread", "open"} => ctl # "zero"
      BY DEF FaultInv, Quiesced, Early, Still, Unasked
    <3> QED
      BY <3>1 DEF FaultInv, CoreInv, Threads
  <2>2. Fault3
    BY <2>1 DEF FaultInv, Serving, Fault, Fault0, Fault1, Fault2, Fault4, NoRequest
  <2> QED
    BY <2>2 DEF Fault3, Served, Faulting
<1>4. CASE InitReset
  <2>1. main = "reset" /\ main' = "pgd" /\ bq = << >> /\ bstate = "B_WAIT" /\ UNCHANGED <<uses, bstate, data>>
    BY <1>4 DEF InitReset, InitPut, Alone, hwVars, bVars
  <2>2. bq' = Append(<< >>, Word("reconos_reset", 0)) \/ bq' = << >>
    BY <1>4, <2>1 DEF InitReset, InitPut, Put
  <2>3. /\ Len(<< >>) = 0 /\ Len(Append(<< >>, Word("reconos_reset", 0))) = 0 + 1
        /\ Append(<< >>, Word("reconos_reset", 0))[0 + 1] = Word("reconos_reset", 0)
        /\ Word("reconos_reset", 0).cmd = "reconos_reset"
    BY NoWords, WordType, AppendPlaces
  <2>4. \A i \in 1 .. Len(bq') : bq'[i].cmd = "reconos_reset"
    <3>1. CASE bq' = << >>
      BY <2>3, <3>1
    <3>2. CASE bq' = Append(<< >>, Word("reconos_reset", 0))
      <4>1. \A i \in 1 .. 1 : i = 0 + 1
        OBVIOUS
      <4> QED
        BY <2>3, <3>2, <4>1
    <3> QED
      BY <2>2, <3>1, <3>2
  <2> QED
    BY <2>1, <2>4 DEF Alone, ToReset
<1>5. CASE InitPgd \/ InitWord \/ InitThread \/ InitOpen
  <2>1. main' \in {"pgdWord", "thread", "open", "run"} /\ UNCHANGED uses
    BY <1>5 DEF InitPgd, InitWord, InitPut, InitThread, InitOpen
  <2> QED
    BY <2>1 DEF Alone
<1>6. CASE ControlCmd \/ ControlAddr \/ ControlZero \/ ControlFlush \/ ControlReply
  <2>1. UNCHANGED <<uses, main, bq, bstate, data, reset_dup>>
    BY <1>6 DEF ControlCmd, ControlAddr, ControlZero, ControlFlush, ControlReply, ControlReads, ControlStep, hwVars, bVars
  <2> QED
    BY <2>1 DEF Alone, ToReset
<1>7. ASSUME NEW s \in Slots, SlotStep(s) \/ Send(s) \/ Exit(s) PROVE Alone'
  <2>1. main = "run"
    BY <1>7 DEF SlotStep, Send, Exit, reconos_hwt_create, SetFlag, ReadFlag, SendMask, DelegateStep, FaultInv, CoreInv, Threads
  <2>2. UNCHANGED <<uses, main>>
    BY <1>7 DEF SlotStep, Send, Exit, reconos_hwt_create, SetFlag, ReadFlag, SendMask, DelegateStep
  <2> QED
    BY <2>1, <2>2 DEF Alone
<1>8. ASSUME NEW c \in Clients, Asks(c) \/ ReadReply(c) PROVE Alone'
  <2>1. main = "run"
    BY <1>8 DEF Asks, Ask, ReadReply, ClientStep, FaultInv, CoreInv, Threads
  <2>2. UNCHANGED <<uses, main>>
    BY <1>8 DEF Asks, Ask, ReadReply, ClientStep
  <2> QED
    BY <2>1, <2>2 DEF Alone
<1>9. ASSUME NEW p \in Pages, Access(p) \/ SwWrite(p) \/ Evict(p) PROVE Alone'
  <2>1. UNCHANGED <<uses, main, bq, bstate, data, reset_dup>>
    BY <1>9 DEF Access, SwWrite, Evict, swVars, hwVars, bVars, links
  <2> QED
    BY <2>1 DEF Alone, ToReset
<1> QED
  BY <1>1, <1>2, <1>3, <1>4, <1>5, <1>6, <1>7, <1>8, <1>9, Actions

\* A process that is not killed, the first and only one, needs no premise: its reset
\* finds room and the core comes to it.  No address that the control thread reads is
\* none of a page, so nothing but a signal ends it.
THEOREM FirstIsTimely ==
  ASSUME InTime, \A u \in Setups : "kills" \notin u
  PROVE  Spec => []Timely
<1>1. Init => FaultInv /\ Alone
  BY FaultInit DEF Init, Alone
<1>2. FaultInv /\ Alone /\ [Next]_vars => (FaultInv /\ Alone)'
  <2> SUFFICES ASSUME FaultInv, Alone, [Next]_vars PROVE FaultInv' /\ Alone'
    OBVIOUS
  <2>1. FaultInv'
    BY FaultStep, AloneIsTimely
  <2>2. CASE Next
    BY <2>1, <2>2, AloneStep
  <2>3. CASE UNCHANGED vars
    BY <2>1, <2>3 DEF vars, swVars, hwVars, bVars, links, Alone, ToReset
  <2> QED
    BY <2>2, <2>3
<1>3. FaultInv /\ Alone => Timely
  BY AloneIsTimely
<1> QED
  BY <1>1, <1>2, <1>3, PTL DEF Spec
=============================================================================
