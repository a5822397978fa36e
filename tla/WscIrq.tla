------------------------------- MODULE WscIrq --------------------------------
(***************************************************************************)
(* Interrupts on the WonderSwan, from reset: the part of wsccrt0           *)
(* (bld/libwsc/startup/a/wsccrt0.asm) that sets the controller up, and     *)
(* set_hw_irq (bld/libwsc/lib/c/irq.c), which a program calls to install   *)
(* its handlers.  The processor may take an interrupt between any two      *)
(* steps; set_hw_irq itself takes no precaution.                           *)
(*                                                                         *)
(* A program keeps one of two styles.  "masked" is that of both examples   *)
(* (src/examples): interrupts are off while main calls set_hw_irq; then    *)
(* handlers may call it too.  "plain" uses that main starts with           *)
(* interrupts on (README.md): only main calls it, and with interrupts on   *)
(* only for an interrupt it has not enabled yet.                           *)
(***************************************************************************)
EXTENDS Integers, FiniteSets

CONSTANTS
    Irq,        \* numbers of the hardware interrupts in use, of 0..7
    Handler,    \* the handlers of the program
    Exception   \* processor exceptions (vectors 0 to 7) the program may cause

ASSUME IrqAssumption ==
    /\ Irq \subseteq 0..7 /\ Exception \subseteq 0..7
    /\ Handler \cap {"none", "halt", "wrong"} = {}

VARIABLES
    cpu,      \* what the main program executes
    style,    \* how the program calls set_hw_irq
    iflag,    \* the interrupt flag
    base,     \* REG_INT_BASE
    enable,   \* REG_INT_ENABLE, as the set of its bits
    status,   \* REG_INT_STATUS, likewise
    vec,      \* the interrupt vectors, [off, seg]: whose offset, whose segment
    call,     \* the call of set_hw_irq main is in: [irq, handler, irqs]
    serving,  \* the interrupts being served, with the one in progress
    owner,    \* history: the handler installed for each interrupt
    stale     \* history: interrupts latched before anyone asked for them

machine == <<base, enable, status, vec>>
irqvars == <<cpu, style, iflag, machine, call, serving, owner, stale>>

None == "none"
Vector == 0..15
Word == Handler \cup {"none", "halt", "wrong"}
Start == {"vectors", "disable", "ack", "sti"}
Setting == {"ack-one", "read", "store", "stored-off", "stored-seg", "enable"}
Ended == {"wild", "astray", "halted"}
Idle == [irq |-> 0, by |-> None, acked |-> FALSE]
NoCall == [irq |-> 0, handler |-> None, irqs |-> {}]

-----------------------------------------------------------------------------
(* wsccrt0, with interrupts off since reset.  RAM, and with it the         *)
(* vectors, has been cleared; the controller is in any state.              *)

IrqInit ==
    /\ cpu = "vectors"
    /\ style \in {"masked", "plain"}
    /\ iflag = FALSE
    /\ base = 0
    /\ enable \in SUBSET Irq /\ status \in SUBSET Irq
    /\ vec = [v \in Vector |-> [off |-> None, seg |-> None]]
    /\ call = NoCall
    /\ serving = Idle
    /\ owner = [n \in Irq |-> None]
    /\ stale = status

\* Sixteen words, each the offset of halt_system: the first eight vectors, with
\* an offset where the segment belongs.
SetVectors ==
    /\ cpu = "vectors"
    /\ base' = 8
    /\ vec' = [v \in Vector |-> IF v < 8 THEN [off |-> "halt", seg |-> "wrong"]
                                ELSE vec[v]]
    /\ cpu' = "disable"
    /\ UNCHANGED <<style, iflag, enable, status, call, serving, owner, stale>>

DisableAll ==
    /\ cpu = "disable"
    /\ enable' = {}
    /\ cpu' = "ack"
    /\ UNCHANGED <<style, iflag, base, status, vec, call, serving, owner, stale>>

AckAll ==
    /\ cpu = "ack"
    /\ status' = {} /\ stale' = {}
    /\ cpu' = "sti"
    /\ UNCHANGED <<style, iflag, base, enable, vec, call, serving, owner>>

EnterMain ==
    /\ cpu = "sti"
    /\ iflag' = TRUE
    /\ cpu' = "main"
    /\ UNCHANGED <<style, machine, call, serving, owner, stale>>

-----------------------------------------------------------------------------
(* set_hw_irq, called by main.                                             *)

DisableIrq ==
    /\ cpu = "main" /\ serving = Idle /\ iflag
    /\ iflag' = FALSE
    /\ UNCHANGED <<cpu, style, machine, call, serving, owner, stale>>

EnableIrq ==
    /\ cpu = "main" /\ serving = Idle /\ ~iflag
    /\ iflag' = TRUE
    /\ UNCHANGED <<cpu, style, machine, call, serving, owner, stale>>

\* 1 << irq_num
OfMask(n) == 2 ^ n                   \* mutant: a mask taken for a number
Bit(n) == n

\* main calls set_hw_irq(h, n); nothing has been done yet.
Call ==
    /\ cpu = "main" /\ serving = Idle
    /\ \E n \in Irq, h \in Handler :
          /\ ~iflag \/ (style = "plain" /\ n \notin enable)
          /\ call' = [irq |-> n, handler |-> h, irqs |-> {}]
    /\ cpu' = "ack-one"
    /\ UNCHANGED <<style, iflag, machine, serving, owner, stale>>

NotAcked(n) == status                \* mutant: no OUTB to REG_INT_ACK
Acked(n) == status \ {Bit(n)}
AckOne ==
    /\ cpu = "ack-one" /\ serving = Idle
    /\ status' = Acked(call.irq)
    /\ stale' = stale \cap status'
    /\ cpu' = "read"
    /\ UNCHANGED <<style, iflag, base, enable, vec, call, serving, owner>>

OnlyNew(n) == {Bit(n)}               \* mutant: the other interrupts forgotten
WithNew(n) == enable \cup {Bit(n)}
EnableFirst ==                       \* mutant: REG_INT_ENABLE before the vector
    /\ cpu = "read" /\ serving = Idle
    /\ enable' = WithNew(call.irq)
    /\ call' = [call EXCEPT !.irqs = WithNew(call.irq)]
    /\ cpu' = "store"
    /\ UNCHANGED <<style, iflag, base, status, vec, serving, owner, stale>>

ReadEnable ==
    /\ cpu = "read" /\ serving = Idle
    /\ call' = [call EXCEPT !.irqs = WithNew(call.irq)]
    /\ cpu' = "store"
    /\ UNCHANGED <<style, iflag, machine, serving, owner, stale>>

\* *p = handler is two stores of 16 bits, in the order the compiler likes.
StoreHalf ==
    /\ cpu = "store" /\ serving = Idle
    /\ \/ /\ vec' = [vec EXCEPT ![base + call.irq].off = call.handler]
          /\ cpu' = "stored-off"
       \/ /\ vec' = [vec EXCEPT ![base + call.irq].seg = call.handler]
          /\ cpu' = "stored-seg"
    /\ UNCHANGED <<style, iflag, base, enable, status, call, serving, owner, stale>>

StoreRest ==
    /\ cpu \in {"stored-off", "stored-seg"} /\ serving = Idle
    /\ vec' = [vec EXCEPT ![base + call.irq] = [off |-> call.handler,
                                                seg |-> call.handler]]
    /\ cpu' = "enable"
    /\ UNCHANGED <<style, iflag, base, enable, status, call, serving, owner, stale>>

WriteEnable ==
    /\ cpu = "enable" /\ serving = Idle
    /\ enable' = call.irqs
    /\ owner' = [owner EXCEPT ![call.irq] = call.handler]
    /\ call' = NoCall
    /\ cpu' = "main"
    /\ UNCHANGED <<style, iflag, base, status, vec, serving, stale>>

-----------------------------------------------------------------------------
(* The hardware and the handlers.                                          *)

\* A cause of interrupt n is latched: always when n is enabled, perhaps when not.
Event(n) ==
    /\ n \notin status
    /\ cpu \notin Ended
    /\ status' = status \cup {n}
    /\ stale' = IF n \in enable \/ (call.irq = n /\ call.handler # None)
                THEN stale ELSE stale \cup {n}
    /\ UNCHANGED <<cpu, style, iflag, base, enable, vec, call, serving, owner>>

\* The processor goes where vector v says: to a handler, to halt_system, or,
\* when offset and segment do not belong together, anywhere.
Target(v) == IF vec[v].off = vec[v].seg THEN vec[v].off ELSE "wrong"

Pending == status \cap enable
First == CHOOSE n \in Pending : \A m \in Pending : m <= n

\* The highest interrupt pending is taken and the flag is cleared.
Dispatch ==
    /\ iflag /\ serving = Idle /\ Pending # {}
    /\ iflag' = FALSE              \* in a handler and in the wild alike
    /\ IF Target(base + First) \in Handler
       THEN serving' = [irq |-> First, by |-> Target(base + First), acked |-> FALSE]
            /\ UNCHANGED cpu
       ELSE cpu' = "wild" /\ UNCHANGED serving
    /\ UNCHANGED <<style, machine, call, owner, stale>>

\* A handler of a "masked" program may itself call set_hw_irq.  Nothing can
\* interrupt it, and what it does to the machine is one step.
Install ==
    /\ serving # Idle /\ ~serving.acked /\ style = "masked"
    /\ \E n \in Irq, h \in Handler :
          /\ status' = Acked(n)
          /\ stale' = stale \cap status'
          /\ vec' = [vec EXCEPT ![base + n] = [off |-> h, seg |-> h]]
          /\ enable' = WithNew(n)
          /\ owner' = [owner EXCEPT ![n] = h]
    /\ UNCHANGED <<cpu, style, iflag, base, call, serving>>

\* ack_hw_irq at the end of the handler ...
AckServed ==
    /\ serving # Idle /\ ~serving.acked
    /\ status' = status \ {serving.irq}
    /\ stale' = stale \cap status'
    /\ serving' = [serving EXCEPT !.acked = TRUE]
    /\ UNCHANGED <<cpu, style, iflag, base, enable, vec, call, owner>>

\* ... and iret.
Return ==
    /\ serving # Idle /\ serving.acked
    /\ serving' = Idle
    /\ iflag' = TRUE
    /\ UNCHANGED <<cpu, style, machine, call, owner, stale>>

\* A processor exception, such as a division by zero, in main.
Raise ==
    /\ cpu = "main" /\ serving = Idle
    /\ \E e \in Exception :
          cpu' = IF Target(e) = "halt" THEN "halted" ELSE "astray"
    /\ iflag' = FALSE
    /\ UNCHANGED <<style, machine, call, serving, owner, stale>>

SetHwIrq == AckOne \/ ReadEnable \/ StoreHalf \/ StoreRest \/ WriteEnable
Handle == Install \/ AckServed \/ Return

IrqNext ==
    \/ SetVectors \/ DisableAll \/ AckAll \/ EnterMain
    \/ DisableIrq \/ EnableIrq \/ Call \/ SetHwIrq
    \/ \E n \in Irq : Event(n)
    \/ Dispatch \/ Handle \/ Raise

IrqSpec == IrqInit /\ [][IrqNext]_irqvars

-----------------------------------------------------------------------------
IrqTypeOK ==
    /\ cpu \in Start \cup {"main"} \cup Setting \cup Ended
    /\ style \in {"masked", "plain"} /\ iflag \in BOOLEAN /\ base \in {0, 8}
    /\ enable \subseteq Irq /\ status \subseteq Irq
    /\ vec \in [Vector -> [off : Word, seg : Word]]
    /\ call \in [irq : Irq \cup {0}, handler : Handler \cup {None}, irqs : SUBSET Irq]
    /\ serving \in [irq : Irq, by : Handler, acked : BOOLEAN] \cup {Idle}
    /\ owner \in [Irq -> Handler \cup {None}]
    /\ stale \subseteq Irq

\* irq.c set_hw_irq, wsccrt0.asm: wherever a hardware interrupt hits, between the
\* two halves of a vector included, it finds a whole vector of a handler.
VectorReady == cpu # "wild"

\* irq.c set_hw_irq: once a handler has been installed its interrupt stays enabled
\* and its vector stays the last one installed, whoever installs others, in main
\* or in a handler.  (During a second call for the same interrupt, it is off.)
InstalledStays ==
    \A n \in Irq : owner[n] # None =>
        /\ n \in enable
        /\ \/ vec[base + n] = [off |-> owner[n], seg |-> owner[n]]
           \/ cpu \in Setting /\ call.irq = n /\ ~iflag

\* irq.c set_hw_irq, wsccrt0.asm: an event latched before the program asked for its
\* interrupt, even before the reset, never makes a handler run.
NoStaleEvent ==
    [][serving = Idle /\ serving' # Idle => serving'.irq \notin stale]_irqvars

\* wsccrt0.asm "All uninitialized irqs will halt the system..": an interrupt or an
\* exception nobody has a handler for ends in halt_system.
UninitializedHalts == cpu \notin {"wild", "astray"}
=============================================================================
