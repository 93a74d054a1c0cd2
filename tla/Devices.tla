------------------------------ MODULE Devices ------------------------------
(***************************************************************************)
(* The interrupt controller (i8259.c), the real-time clock                 *)
(* (devices/rtc.c), the handlers of the keyboard, the clock and the PIT as *)
(* far as they concern the two, and the part of the boot (kernel.c) during *)
(* which interrupts are already on.                                        *)
(*                                                                         *)
(* All gates are trap gates (interrupts.c:118-138): a handler may itself   *)
(* be interrupted before its cli and again after its sti, when it still    *)
(* owes the controller the end of interrupt.  So a handler is three steps, *)
(* the one between cli and sti atomic, and a thread carries a stack of     *)
(* handlers with it when the PIT takes the CPU away.  What a key does is   *)
(* the subject of LineInput and Processes; here it only matters that the   *)
(* first switch to a terminal starts a shell inside the handler.           *)
(***************************************************************************)
EXTENDS Integers, Sequences

CONSTANTS
  MAX_TERMINALS,  \* number of terminals, each with one kernel thread
  Frequencies,    \* frequencies a program may ask for
  Hertz,          \* those that set_rtc_frequency knows: powers of 2, 2 to 1024
  Readers,        \* terminals whose programs read the clock
  Writers,        \* terminals whose programs set its rate
  Windows,        \* {"select"}: an interrupt may come between a port select and its use
  MaxFrames       \* bound on the clock handlers that wait on one thread's stack

ASSUME TerminalsAssumption == MAX_TERMINALS \in Nat \ {0}
ASSUME HertzAssumption == 2 \in Hertz
ASSUME ProgramsAssumption == Readers \cup Writers \subseteq 0 .. MAX_TERMINALS - 1
ASSUME FramesAssumption == MaxFrames \in Nat

Terminals == 0 .. MAX_TERMINALS - 1
NoTerm == -1

\* Interrupt lines, and the vectors i8259_init gives them.
PIT_LINE == 0
KEYBOARD_IRQ == 1
SLAVE_PORT == 2
RTC_IRQ == 8
Lines == {PIT_LINE, KEYBOARD_IRQ, SLAVE_PORT, RTC_IRQ}
PORT_COUNT == 8
ICW2_MASTER == 32
ICW2_SLAVE == 40

Vector(l) ==
  IF l < PORT_COUNT THEN ICW2_MASTER + l ELSE ICW2_SLAVE + l - PORT_COUNT

\* The exceptions with a wrapper that passes their number on to exception_handler; the
\* table of wrappers has room for NUM_EXCEPTIONS, 32.
Exceptions == 0 .. 19

\* The IDT: exceptions, the three devices, system calls; nothing else is present.
IDT ==
  [v \in 0 .. 255 |->
     CASE v \in Exceptions  -> "exception_handler"
       [] v = 32            -> "pit_handler"
       [] v = 33            -> "keyboard_handler"
       [] v = 40            -> "rtc_handler"
       [] v = 128           -> "sys_call_linkage"
       [] OTHER             -> "absent"]

\* The line whose end of interrupt a handler sends.
Served == [keyboard_handler |-> KEYBOARD_IRQ, rtc_handler |-> RTC_IRQ]

Booting == {"boot", "pit", "paging", "launch"}
Writing == {"select", "get", "again", "put", "selectc", "getc", "eoi"}
Ops == Booting \cup Writing \cup {"off", "user", "wait"}

VARIABLES
  mask,    \* lines masked in the controller
  irr,     \* lines with a request pending in the controller
  isr,     \* lines in service in the controller
  index,   \* register of the clock chip selected by its index port
  regA,    \* register A: rate, and whether the time base is still what it was
  raised,  \* the clock has raised its line and register C was not read since
  flag,    \* rtc_interrupt_flag
  paging,  \* init_paging has run
  run,     \* thread on the CPU
  op,      \* next step of each thread outside its handlers
  frames,  \* handlers on the stack of each thread, the running one last
  lost,    \* threads whose context a first terminal switch did not save
  asked,   \* frequency, the local variable of rtc_write
  prev,    \* prev of set_rtc_frequency: does it hold the time base?
  seen,    \* history: a clock interrupt was handled since the thread began to wait
  last,    \* history: thread that wrote register A last
  cpu      \* "ok" or "astray"

pic    == <<mask, irr, isr>>
chip   == <<index, regA, raised>>
thread == <<op, asked, prev>>
vars   == <<pic, chip, flag, paging, run, thread, frames, lost, seen, last, cpu>>

Frame == [handler : DOMAIN Served, at : {"entry", "owes"}]

TypeOK ==
  /\ mask \subseteq Lines /\ irr \subseteq {KEYBOARD_IRQ, RTC_IRQ} /\ isr \subseteq Lines
  /\ index \in {"A", "C"}
  /\ regA \in [rate : Hertz, kept : BOOLEAN]
  /\ raised \in BOOLEAN /\ flag \in {0, 1} /\ paging \in BOOLEAN
  /\ run \in Terminals
  /\ op \in [Terminals -> Ops]
  /\ frames \in [Terminals -> Seq(Frame)]
  /\ lost \subseteq Terminals
  /\ asked \in [Terminals -> Frequencies \cup Hertz]
  /\ prev \in [Terminals -> BOOLEAN] /\ seen \in [Terminals -> BOOLEAN]
  /\ last \in Terminals \cup {NoTerm}
  /\ cpu \in {"ok", "astray"}

\* entry has loaded the IDT; interrupts are off and all lines masked.
Init ==
  /\ mask = Lines /\ irr = {} /\ isr = {}
  /\ index = "A" /\ regA = [rate |-> 2, kept |-> TRUE] /\ raised = FALSE
  /\ flag = 0 /\ paging = FALSE
  /\ run = 0
  /\ op = [t \in Terminals |-> IF t = 0 THEN "boot" ELSE "off"]
  /\ frames = [t \in Terminals |-> <<>>]
  /\ lost = {}
  /\ asked = [t \in Terminals |-> 2]
  /\ prev = [t \in Terminals |-> FALSE] /\ seen = [t \in Terminals |-> FALSE]
  /\ last = NoTerm
  /\ cpu = "ok"

-----------------------------------------------------------------------------
(* The interrupt controller                                                *)

Master(l) == IF l < PORT_COUNT THEN l ELSE SLAVE_PORT

\* Fully nested: a request waits for the end of every interrupt in service on a
\* line of the same or a higher priority.
Deliverable(l) ==
  /\ l \in irr \ mask
  /\ Master(l) \notin mask
  /\ l \notin isr
  /\ \A k \in isr : k < PORT_COUNT => Master(l) < k

\* What stays masked when the lines of ls are enabled.
enable_irq(ls) == mask \ ls

\* What is in service after the end of interrupt for line l.
send_eoi(l) == isr \ {l, Master(l)}

\* The keyboard raises its line.
Press ==
  /\ cpu = "ok"
  /\ KEYBOARD_IRQ \notin irr \cup mask
  /\ irr' = irr \cup {KEYBOARD_IRQ}
  /\ UNCHANGED <<mask, isr, chip, flag, paging, run, thread, frames, lost, seen, last, cpu>>

\* The clock raises its line once, until register C is read.
ClockTicks ==
  /\ cpu = "ok"
  /\ RTC_IRQ \notin mask
  /\ ~ raised
  /\ raised' = TRUE
  /\ irr' = irr \cup {RTC_IRQ}
  /\ UNCHANGED <<mask, isr, index, regA, flag, paging, run, thread, frames, lost, seen,
                 last, cpu>>

-----------------------------------------------------------------------------
(* The handlers                                                            *)

\* The thread has selected a register of the clock and is about to access it.
Selected == op[run] \in {"get", "put"} /\ frames[run] = <<>>

InterruptsOn ==
  /\ cpu = "ok"
  /\ op[run] # "boot"
  /\ Selected => "select" \in Windows

\* The keyboard or the clock interrupts the running thread.
Interrupt(l) ==
  /\ InterruptsOn
  /\ l \in {KEYBOARD_IRQ, RTC_IRQ}
  /\ Deliverable(l)
  /\ Len(frames[run]) < MaxFrames
  /\ irr' = irr \ {l}
  /\ isr' = isr \cup {l, Master(l)}
  /\ frames' = [frames EXCEPT ![run] =
                  Append(@, [handler |-> IDT[Vector(l)], at |-> "entry"])]
  /\ UNCHANGED <<mask, chip, flag, paging, run, thread, lost, seen, last, cpu>>

\* Thread t runs handler h and has reached the given step of it.
In(t, h, step) ==
  /\ cpu = "ok" /\ run = t
  /\ frames[t] # <<>>
  /\ frames[t][Len(frames[t])] = [handler |-> h, at |-> step]

Owes(t) == frames' = [frames EXCEPT ![t][Len(frames[t])].at = "owes"]
Return(t) == frames' = [frames EXCEPT ![t] = SubSeq(@, 1, Len(@) - 1)]

Raised_NotRead == raised
\* The clock may raise its line again once register C was read.
Raised == FALSE

\* rtc_handler between cli and sti.
HandleClock(t) ==
  /\ In(t, "rtc_handler", "entry")
  /\ index' = "C"
  /\ raised' = Raised
  /\ flag' = 1
  /\ seen' = [u \in Terminals |-> op[u] = "wait"]
  /\ Owes(t)
  /\ UNCHANGED <<pic, regA, paging, run, thread, lost, last, cpu>>

\* keyboard_handler between cli and sti.
HandleKey(t) ==
  /\ In(t, "keyboard_handler", "entry")
  /\ Owes(t)
  /\ UNCHANGED <<pic, chip, flag, paging, run, thread, lost, seen, last, cpu>>

FirstEoi_None == isr
FirstEoi == send_eoi(KEYBOARD_IRQ)

\* The first switch to terminal u starts its shell on top of the handler, which
\* never returns; before paging is on, the shell has no page to be loaded to.
FirstSwitch(t, u) ==
  /\ In(t, "keyboard_handler", "entry")
  /\ op[u] = "off"
  /\ isr' = FirstEoi
  /\ Return(t)
  /\ lost' = lost \cup {t}
  /\ run' = u
  /\ op' = [op EXCEPT ![u] = "user"]
  /\ cpu' = IF paging THEN "ok" ELSE "astray"
  /\ UNCHANGED <<mask, irr, chip, flag, paging, asked, prev, seen, last>>

\* The end of a handler.
SendEoi(t, h) ==
  /\ In(t, h, "owes")
  /\ isr' = send_eoi(Served[h])
  /\ Return(t)
  /\ UNCHANGED <<mask, irr, chip, flag, paging, run, thread, lost, seen, last, cpu>>

\* The PIT has the highest priority and pit_handler first sends the end of
\* interrupt, so its line is never seen in service.  Once there is a process it hands
\* the CPU to a thread.  Whether a thread whose context was not saved is found again
\* depends on what is left of its stack.
Pit(u) ==
  /\ InterruptsOn
  /\ PIT_LINE \notin mask
  /\ op[u] # "off"
  /\ op[run] \in Booting \/ op[u] \in Booting => u = run
  /\ run' = u
  /\ lost' = lost \ {u}
  /\ cpu' \in {"ok"} \cup (IF u \in lost THEN {"astray"} ELSE {})
  /\ UNCHANGED <<pic, chip, flag, paging, thread, frames, seen, last>>

-----------------------------------------------------------------------------
(* The boot: interrupts are on from the sti at the end of rtc_open          *)

At(t, step) == cpu = "ok" /\ run = t /\ frames[t] = <<>> /\ op[t] = step
Goto(t, step) == op' = [op EXCEPT ![t] = step]

\* rtc_init, without interrupts: the slowest rate, and register C is read.
rtc_init ==
  /\ index' = "C"
  /\ raised' = FALSE
  /\ regA' = [regA EXCEPT !.rate = 2]
  /\ last' = NoTerm

\* i8259_init, keyboard_init and rtc_open unmask the lines of their devices.
InitDevices ==
  /\ At(0, "boot")
  /\ mask' = enable_irq({SLAVE_PORT, KEYBOARD_IRQ, RTC_IRQ})
  /\ rtc_init
  /\ Goto(0, "pit")
  /\ UNCHANGED <<irr, isr, flag, paging, run, asked, prev, frames, lost, seen, cpu>>

InitPit ==
  /\ At(0, "pit")
  /\ mask' = enable_irq({PIT_LINE})
  /\ Goto(0, "paging")
  /\ UNCHANGED <<irr, isr, chip, flag, paging, run, asked, prev, frames, lost, seen, last, cpu>>

InitPaging ==
  /\ At(0, "paging")
  /\ paging' = TRUE
  /\ Goto(0, "launch")
  /\ UNCHANGED <<pic, chip, flag, run, asked, prev, frames, lost, seen, last, cpu>>

LaunchShell ==
  /\ At(0, "launch")
  /\ Goto(0, "user")
  /\ UNCHANGED <<pic, chip, flag, paging, run, asked, prev, frames, lost, seen, last, cpu>>

Boot == InitDevices \/ InitPit \/ InitPaging \/ LaunchShell

-----------------------------------------------------------------------------
(* The clock as a file                                                     *)

Open(t) ==
  /\ At(t, "user")
  /\ rtc_init
  /\ mask' = enable_irq({RTC_IRQ})
  /\ UNCHANGED <<irr, isr, flag, paging, run, thread, frames, lost, seen, cpu>>

Cleared_Not == flag
Cleared == 0

Read(t) ==
  /\ At(t, "user")
  /\ t \in Readers
  /\ flag' = Cleared
  /\ seen' = [seen EXCEPT ![t] = FALSE]
  /\ Goto(t, "wait")
  /\ UNCHANGED <<pic, chip, paging, run, asked, prev, frames, lost, last, cpu>>

ReadReturns(t) ==
  /\ At(t, "wait")
  /\ flag # 0
  /\ seen' = [seen EXCEPT ![t] = FALSE]
  /\ Goto(t, "user")
  /\ UNCHANGED <<pic, chip, flag, paging, run, asked, prev, frames, lost, last, cpu>>

Accepted_Any == Frequencies
Accepted == Hertz

\* set_rtc_frequency returns at once for a frequency it does not know.
Write(t) ==
  \E f \in Frequencies :
    /\ At(t, "user")
    /\ t \in Writers
    /\ asked' = [asked EXCEPT ![t] = f]
    /\ Goto(t, IF f \in Accepted THEN "select" ELSE "selectc")
    /\ UNCHANGED <<pic, chip, flag, paging, run, prev, frames, lost, seen, last, cpu>>

\* An outb of a register number to the index port.
Select(t, step, register, next) ==
  /\ At(t, step)
  /\ index' = register
  /\ Goto(t, next)
  /\ UNCHANGED <<pic, regA, raised, flag, paging, run, asked, prev, frames, lost, seen,
                 last, cpu>>

\* Register A holds the time base; of register C there is nothing to keep, and
\* reading it lets the clock raise its line again.
ReadPrevious(t) ==
  /\ At(t, "get")
  /\ prev' = [prev EXCEPT ![t] = index = "A" /\ regA.kept]
  /\ raised' = (raised /\ index = "A")
  /\ Goto(t, "again")
  /\ UNCHANGED <<pic, index, regA, flag, paging, run, asked, frames, lost, seen, last, cpu>>

NewA(t) == [rate |-> asked[t], kept |-> prev[t]]

\* Register C cannot be written.
PutRate(t) ==
  /\ At(t, "put")
  /\ regA' = IF index = "A" THEN NewA(t) ELSE regA
  /\ last' = t
  /\ prev' = [prev EXCEPT ![t] = FALSE]
  /\ Goto(t, "selectc")
  /\ UNCHANGED <<pic, index, raised, flag, paging, run, asked, frames, lost, seen, cpu>>

ReadC(t) ==
  /\ At(t, "getc")
  /\ raised' = (raised /\ index = "A")
  /\ Goto(t, "eoi")
  /\ UNCHANGED <<pic, index, regA, flag, paging, run, asked, prev, frames, lost, seen, last, cpu>>

\* rtc_write ends an interrupt of the clock, whether one is in service or not.
WriteReturns(t) ==
  /\ At(t, "eoi")
  /\ isr' = send_eoi(RTC_IRQ)
  /\ asked' = [asked EXCEPT ![t] = 2]
  /\ last' = IF last = t THEN NoTerm ELSE last
  /\ Goto(t, "user")
  /\ UNCHANGED <<mask, irr, chip, flag, paging, run, prev, frames, lost, seen, cpu>>

WriteSteps(t) ==
  \/ Select(t, "select", "A", "get") \/ ReadPrevious(t)
  \/ Select(t, "again", "A", "put") \/ PutRate(t)
  \/ Select(t, "selectc", "C", "getc") \/ ReadC(t)
  \/ WriteReturns(t)

Stopped == cpu = "astray" /\ UNCHANGED vars

-----------------------------------------------------------------------------
Handlers(t) ==
  \/ HandleClock(t) \/ HandleKey(t)
  \/ \E h \in DOMAIN Served : SendEoi(t, h)
  \/ \E u \in Terminals : FirstSwitch(t, u)

Next ==
  \/ Press \/ ClockTicks
  \/ \E l \in Lines : Interrupt(l)
  \/ Boot
  \/ \E t \in Terminals :
       \/ Handlers(t) \/ Pit(t)
       \/ Open(t) \/ Read(t) \/ ReadReturns(t) \/ Write(t) \/ WriteSteps(t)
  \/ Stopped

Spec == Init /\ [][Next]_vars

-----------------------------------------------------------------------------
(* Properties                                                              *)

Pending(h, step) ==
  \E t \in Terminals : \E i \in 1 .. Len(frames[t]) :
    frames[t][i].handler = h /\ frames[t][i].at \in step

\* Every line in service is owed its end of interrupt by a handler that has not
\* finished: none is dropped between the sti of a handler and its send_eoi
\* (keyboard.c:246, rtc.c:67), by the shell started inside the handler
\* (scheduler.c:51) or by the end of interrupt that rtc_write sends (rtc.c:116).
InServiceOwed ==
  \A l \in isr :
    \E h \in DOMAIN Served : l \in {Served[h], Master(Served[h])} /\ Pending(h, {"entry", "owes"})

\* While the clock holds its line, a handler that reads register C is still to
\* come (rtc.c:58): the accesses to the register by rtc_write and rtc_open and a
\* thread that waits to enter its handler never leave the clock mute.
ClockArmed == raised => RTC_IRQ \in irr \/ Pending("rtc_handler", {"entry"})

\* Register A has a rate the kernel knows and its time base, and once a program has
\* written it last, the rate that program asked for (rtc.c:145), whatever another
\* program that sets the rate at the same time left in the registers.
RateSet ==
  /\ regA.rate \in Hertz /\ regA.kept
  /\ \A t \in Terminals :
       last = t /\ op[t] \in {"selectc", "getc", "eoi"} => regA.rate = asked[t]

\* rtc.c:76, "Wait until a new RTC int is recieved": a reader that a clock interrupt
\* came for finds the flag set.
TickWakes == \A t \in Terminals : op[t] = "wait" /\ seen[t] => flag # 0

\* rtc_read "must return only after an RTC interrupt has occurred" (rtc.c:77),
\* one that was handled after the call, not one the flag still told of.
WaitsForTick ==
  [][\A t \in Terminals : op[t] = "wait" /\ op'[t] = "user" => seen[t]]_vars
=============================================================================
