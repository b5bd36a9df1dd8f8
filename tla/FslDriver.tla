----------------------------- MODULE FslDriver -----------------------------
(***************************************************************************)
(* linux/fsl_driver/fsl.c: blocking reads of one FSL link.  A reader that  *)
(* finds the link empty clears irq_count, enables the interrupt and sleeps *)
(* until the handler has counted one; the handler, fired by the level of   *)
(* "word available", counts, wakes and disables itself.  Every statement   *)
(* of fsl_read that touches the shared fsl_dev is a step; the handler runs *)
(* to completion between any two of them.                                  *)
(*                                                                         *)
(* The link holds words of no particular value: only their number matters. *)
(* The kernel's interrupt core is external: disable_irq_nosync deepens and *)
(* enable_irq undoes one level (or warns when there is none), and the line *)
(* fires while it is high at level 0.                                      *)
(*                                                                         *)
(* No name is one of Delegate's, so that a module may extend the two.      *)
(***************************************************************************)
EXTENDS Naturals, FiniteSets

CONSTANTS
  Readers,    \* threads in blocking reads
  Pollers,    \* threads with O_NONBLOCK, or using FSL_IOCREAD
  Depth,      \* words the link holds
  MaxRead,    \* bound: words asked for by one read()
  Residue     \* whether the module may be removed with words in the link

ASSUME FslDriverAssumption ==
  /\ Depth \in Nat \ {0}
  /\ MaxRead \in Nat \ {0}
  /\ Residue \in BOOLEAN
  /\ Readers \intersect Pollers = {}
  /\ IsFiniteSet(Readers) /\ IsFiniteSet(Pollers)

VARIABLES
  users,        \* threads that have the device open
  phase,        \* how far fsl_setup_dev has come
  fill,         \* words in the link
  depth,        \* disable depth of the interrupt in the kernel
  irq_enabled,  \* fsl_dev.irq_enabled
  irq_count,    \* fsl_dev.irq_count
  rpc,          \* next statement of each thread in fsl_read
  left          \* words its read() still has to deliver

devVars == <<users, depth, irq_enabled, irq_count>>
fslVars == <<users, phase, fill, depth, irq_enabled, irq_count, rpc, left>>

Threads == Readers \union Pollers
Steps == {"idle", "get", "clear", "test", "arm", "enable", "wait"}
Phases == {"absent", "requested", "visible", "ready"}

\* The types of the state; the kernel's depth is never more than one.
FslTypeOK ==
  /\ users \subseteq Threads
  /\ phase \in Phases
  /\ fill \in 0 .. Depth
  /\ depth \in 0 .. 1
  /\ irq_enabled \in 0 .. 1
  /\ irq_count \in Nat
  /\ rpc \in [Threads -> Steps]
  /\ left \in [Threads -> 0 .. MaxRead]

-----------------------------------------------------------------------------
\* The module is not loaded yet and the hardware has sent nothing.
FslInit ==
  /\ users \in SUBSET Threads
  /\ phase = "absent"
  /\ fill = 0
  /\ depth = 1
  /\ irq_enabled = 0
  /\ irq_count = 0
  /\ rpc = [t \in Threads |-> "idle"]
  /\ left = [t \in Threads |-> 0]

\* The hardware's end of the link.  Until the driver is ready nothing is sent:
\* slots are in reset and proc_control answers only to software.
HwPut ==
  /\ phase = "ready"
  /\ fill < Depth
  /\ fill' = fill + 1
  /\ UNCHANGED <<phase, devVars, rpc, left>>

\* The slot's reset, or that of the process, clears the link.
LinkReset ==
  /\ phase = "ready"
  /\ fill' = 0
  /\ UNCHANGED <<phase, devVars, rpc, left>>

\* fsl_setup_dev: request_irq enables the line,
RequestIrq ==
  /\ phase = "absent"
  /\ phase' = "requested"
  /\ depth' = 0
  /\ UNCHANGED <<users, fill, irq_enabled, irq_count, rpc, left>>

\* cdev_add shows the device to readers,
CdevAdd ==
  /\ phase = "requested"
  /\ phase' = "visible"
  /\ UNCHANGED <<fill, devVars, rpc, left>>

\* and only then is the flag set.
SetEnabled ==
  /\ phase = "visible"
  /\ phase' = "ready"
  /\ irq_enabled' = 1
  /\ UNCHANGED <<users, fill, depth, irq_count, rpc, left>>

\* fsl_remove_dev, on module exit: nobody has the device open.  The next load
\* starts from a zeroed dev_array; the link keeps its words.
RemoveDev ==
  /\ phase = "ready"
  /\ fill = 0 \/ Residue
  /\ \A t \in Threads : rpc[t] = "idle"
  /\ phase' = "absent"
  /\ depth' = 1
  /\ irq_enabled' = 0
  /\ irq_count' = 0
  /\ UNCHANGED <<users, fill, rpc, left>>

\* Mutant: the handler does not say that it has disabled the interrupt.
InterruptFlagKept ==
  /\ phase # "absent"
  /\ depth = 0
  /\ fill > 0
  /\ irq_count' = irq_count + 1
  /\ depth' = 1
  /\ UNCHANGED <<users, phase, fill, irq_enabled, rpc, left>>

\* fsl_interrupt; the line is high while the link holds a word.
Interrupt ==
  /\ phase # "absent"
  /\ depth = 0
  /\ fill > 0
  /\ irq_count' = irq_count + 1
  /\ depth' = 1
  /\ irq_enabled' = 0
  /\ UNCHANGED <<users, phase, fill, rpc, left>>

Goto(t, from, to) ==
  /\ rpc[t] = from
  /\ rpc' = [rpc EXCEPT ![t] = to]

\* The device nodes are made once insmod has returned.
ReadCall(t, n) ==
  /\ phase = "ready"
  /\ Goto(t, "idle", "get")
  /\ left' = [left EXCEPT ![t] = n]
  /\ UNCHANGED <<phase, fill, devVars>>

\* nget on the link, which takes a word if there is one.
ngetfsl == fill > 0 /\ fill' = fill - 1

\* The last word ends the read.
GetWord(t) ==
  /\ ngetfsl
  /\ Goto(t, "get", IF left[t] = 1 THEN "idle" ELSE "get")
  /\ left' = [left EXCEPT ![t] = @ - 1]
  /\ UNCHANGED <<phase, devVars>>

GetNothing(t) ==
  /\ fill = 0
  /\ Goto(t, "get", "clear")
  /\ UNCHANGED <<phase, fill, devVars, left>>

\* irq_count = 0; a non-blocking read then returns what it has.
Clear(t) ==
  /\ Goto(t, "clear", IF t \in Pollers THEN "idle" ELSE "test")
  /\ irq_count' = 0
  /\ left' = [left EXCEPT ![t] = IF t \in Pollers THEN 0 ELSE @]
  /\ UNCHANGED <<users, phase, fill, depth, irq_enabled>>

\* Mutant: the interrupt is enabled whether or not it is.
TestEnabledSkipped(t) ==
  /\ Goto(t, "test", "arm")
  /\ UNCHANGED <<phase, fill, devVars, left>>

TestEnabled(t) ==
  /\ Goto(t, "test", IF irq_enabled = 0 THEN "arm" ELSE "wait")
  /\ UNCHANGED <<phase, fill, devVars, left>>

Arm(t) ==
  /\ Goto(t, "arm", "enable")
  /\ irq_enabled' = 1
  /\ UNCHANGED <<users, phase, fill, depth, irq_count, left>>

\* Mutant: the flag is set, the interrupt is not.
EnableIrqForgotten(t) ==
  /\ Goto(t, "enable", "wait")
  /\ UNCHANGED <<phase, fill, devVars, left>>

EnableIrq(t) ==
  /\ Goto(t, "enable", "wait")
  /\ depth' = 0
  /\ UNCHANGED <<users, phase, fill, irq_enabled, irq_count, left>>

\* wait_event_interruptible sees its condition, now or when woken.
Woken(t) ==
  /\ irq_count > 0
  /\ Goto(t, "wait", "get")
  /\ UNCHANGED <<phase, fill, devVars, left>>

\* A signal ends the wait: -ERESTARTSYS, no word delivered.
Interrupted(t) ==
  /\ Goto(t, "wait", "idle")
  /\ left' = [left EXCEPT ![t] = 0]
  /\ UNCHANGED <<phase, fill, devVars>>

\* fsl_ioctl(FSL_IOCREAD).
IoctlRead(t) ==
  /\ phase = "ready"
  /\ rpc[t] = "idle"
  /\ ngetfsl
  /\ UNCHANGED <<phase, devVars, rpc, left>>

fsl_read(t) ==
  \/ GetWord(t) \/ GetNothing(t) \/ Clear(t) \/ TestEnabled(t)
  \/ Arm(t) \/ EnableIrq(t) \/ Woken(t)

FslNext ==
  \/ HwPut \/ LinkReset \/ RequestIrq \/ CdevAdd \/ SetEnabled \/ RemoveDev \/ Interrupt
  \/ \E t \in users : (\E n \in 1 .. MaxRead : ReadCall(t, n)) \/ fsl_read(t)
  \/ \E t \in users \intersect Readers : Interrupted(t)
  \/ \E t \in users \intersect Pollers : IoctlRead(t)

FslSpec == FslInit /\ [][FslNext]_fslVars

\* An enabled interrupt is served, module loading and readers run on.
FslFairSpec ==
  /\ FslSpec
  /\ WF_fslVars(Interrupt)
  /\ WF_fslVars(RequestIrq \/ CdevAdd \/ SetEnabled)
  /\ \A t \in Threads : WF_fslVars(fsl_read(t))

-----------------------------------------------------------------------------
\* A reader between finding the flag down and having the interrupt enabled.
Enabling(t) == rpc[t] \in {"arm", "enable"} \/ (rpc[t] = "test" /\ irq_enabled = 0)

\* Whoever sleeps with nothing counted can be woken: the interrupt is enabled,
\* or another reader is about to enable it.  The comment in fsl_interrupt says
\* that it is suppressed only "until all data is read".  Nobody polls: a poller
\* clears the count that a woken reader has not seen yet.
SleeperArmed ==
  users \intersect Pollers = {} =>
    \A t \in users : rpc[t] = "wait" /\ irq_count = 0 =>
      depth = 0 \/ \E u \in users : Enabling(u)

\* enable_irq undoes a disable_irq_nosync: the flag and the kernel's depth agree
\* when it is called, so that the kernel never warns of an unbalanced enable, as
\* long as the device has one reader; two may both find the flag down.
EnableBalanced ==
  Cardinality(users) <= 1 => \A t \in users : rpc[t] = "enable" => depth = 1

\* irq_count is an unsigned short.  The comment at it says that it "should never
\* exceed 1"; an interrupt that was enabled before irq_count = 0 makes it 2, and
\* there is one more for every reader that is about to enable.
CountBounded == irq_count <= 1 + Cardinality(users \intersect Readers)

\* The two counts an interrupt leaves behind, irq_count and the kernel's depth of
\* disables, stay what the readers take them for.
CountsSound == FslTypeOK /\ EnableBalanced /\ CountBounded

\* Readers do not all sleep on a word: no wake-up is lost between the empty
\* ngetfsl and the wait, whichever reader the interrupt then serves, unless a
\* reset takes the word away.
WordWakes ==
  (fill > 0 /\ users # {} /\ users \intersect Pollers = {} /\ \A t \in users : rpc[t] = "wait")
    ~> (fill = 0 \/ \E t \in users : rpc[t] # "wait")
=============================================================================
