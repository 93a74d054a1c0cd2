----------------------------- MODULE Processes -----------------------------
(***************************************************************************)
(* Process control of the kernel: the execute and halt system calls        *)
(* (system_calls.c), the round-robin scheduler the PIT interrupt runs      *)
(* (scheduler.c, devices/pit.c) and the terminal switch the keyboard       *)
(* interrupt runs (scheduler.c).                                           *)
(*                                                                         *)
(* One terminal carries one kernel thread: a parent stays inside execute   *)
(* until its child halts, so a thread is named by its terminal.  All gates *)
(* of the IDT are trap gates (interrupts.c:119), hence interrupts stay on  *)
(* in system calls and an execute or halt is cut into the steps between    *)
(* which an interrupt makes a difference.  The code between cli and sti is *)
(* one step, and so is a run of the scheduler: a keyboard interrupt inside *)
(* the scheduler is left to the model of the video mapping.                *)
(***************************************************************************)
EXTENDS Integers, FiniteSets, FiniteSetsExt

CONSTANTS
  MAX_TERMINALS,   \* number of terminals: 3 in terminal.h
  NUM_PIDS,        \* number of process slots: 6 in system_calls.c
  Preemptible,     \* steps before which the timer may interrupt (all, in the code)
  Patience         \* how far the user gets ahead of the kernel, see UserWaits

Launching == {"alloc", "map", "load", "rest", "pcb", "esp0", "switch", "activate",
              "announce", "spin"}
Pc == Launching \cup {"off", "user", "halt", "reap"}

ASSUME TerminalsAssumption == MAX_TERMINALS \in Nat \ {0}
ASSUME PidsAssumption == NUM_PIDS \in Nat /\ MAX_TERMINALS <= NUM_PIDS
ASSUME PreemptibleAssumption == Preemptible \subseteq Pc
ASSUME PatienceAssumption == Patience \in {"patient", "hasty", "none"}

Terminals == 0 .. MAX_TERMINALS - 1
Pids == 0 .. NUM_PIDS - 1
NoPid == -1        \* a null current_pcb, a parent of -1, a get_pid that fails
NoTerm == -1
Bases == Terminals \* process slots reserved for the base shells

VARIABLES
  active,  \* active_terminal: the terminal on the screen
  sched,   \* scheduled_terminal: the terminal whose process owns the CPU
  init,    \* initialized_terminals
  apid,    \* terminals[t].active_pid
  cur,     \* process of current_pcb, NoPid when null
  inUse,   \* pcb->in_use
  ppid,    \* pcb->parent_process_id
  caller,  \* process whose execute frame pcb->ebp_val and esp_val point to
  home,    \* history: terminal whose thread created the process
  page,    \* process slot the 128MB page is mapped to
  esp0,    \* process whose kernel stack tss.esp0 points to
  image,   \* process whose program image, or half of it, the slot's page holds
  saved,   \* pcb->scheduling_esp_val: thread whose frame it points to, and
           \* whether that frame is still the thread's latest
  left,    \* history: thread a first terminal switch left behind in a process
  run,     \* thread on the CPU
  pc,      \* next kernel step of each thread
  lpid,    \* process_id, the local variable of execute
  exc,     \* exception_in_child
  how,     \* history: how the thread's process came to halt
  rv,      \* ret_val, the local variable of halt
  cpu      \* "ok", "hung" in the scheduler's loop or "derailed" by a bad frame

tree  == <<inUse, ppid, caller, home>>
mmu   == <<page, esp0, image>>
ctx   == <<saved, left>>
leave == <<exc, how, rv>>
vars  == <<active, sched, init, apid, cur, tree, mmu, ctx, run, pc, lpid, leave, cpu>>

\* pcb->process_id: 0 in a PCB that no process owns, for halt resets it.  The
\* terminals' histories h tell which PCBs are owned.
process_id(h, p) == IF h[p] = NoTerm THEN 0 ELSE p

\* Half of the image of process p.
Half(p) == NUM_PIDS + p
Images == Pids \cup {Half(p) : p \in Pids} \cup {NoPid}

Context == [th : Terminals \cup {NoTerm}, fresh : BOOLEAN]

TypeOK ==
  /\ active \in Terminals /\ sched \in Terminals
  /\ init \in [Terminals -> BOOLEAN]
  /\ apid \in [Terminals -> Pids]
  /\ cur \in Pids \cup {NoPid}
  /\ inUse \in [Pids -> BOOLEAN]
  /\ ppid \in [Pids -> Pids \cup {NoPid}]
  /\ caller \in [Pids -> Pids \cup {NoPid}]
  /\ home \in [Pids -> Terminals \cup {NoTerm}]
  /\ page \in Pids /\ esp0 \in Pids
  /\ image \in [Pids -> Images]
  /\ saved \in [Pids -> Context]
  /\ left \in [Pids -> Terminals \cup {NoTerm}]
  /\ run \in Terminals \cup {NoTerm}
  /\ pc \in [Terminals -> Pc]
  /\ lpid \in [Terminals -> Pids]
  /\ exc \in BOOLEAN
  /\ how \in [Terminals -> {"exit", "fault"}]
  /\ rv \in [Terminals -> {"status", "256"}]
  /\ cpu \in {"ok", "derailed", "hung"}

\* entry has enabled interrupts and calls execute("shell") on terminal 0.
Init ==
  /\ active = 0 /\ sched = 0
  /\ init = [t \in Terminals |-> FALSE]
  /\ apid = [t \in Terminals |-> 0]
  /\ cur = NoPid
  /\ inUse = [p \in Pids |-> FALSE]
  /\ ppid = [p \in Pids |-> 0]
  /\ caller = [p \in Pids |-> NoPid]
  /\ home = [p \in Pids |-> NoTerm]
  /\ page = 0 /\ esp0 = 0
  /\ image = [p \in Pids |-> NoPid]
  /\ saved = [p \in Pids |-> [th |-> NoTerm, fresh |-> FALSE]]
  /\ left = [p \in Pids |-> NoTerm]
  /\ run = 0
  /\ pc = [t \in Terminals |-> IF t = 0 THEN "alloc" ELSE "off"]
  /\ lpid = [t \in Terminals |-> 0]
  /\ exc = FALSE
  /\ how = [t \in Terminals |-> "exit"]
  /\ rv = [t \in Terminals |-> "status"]
  /\ cpu = "ok"

-----------------------------------------------------------------------------
(* The user.  A patient user lets a command act while its terminal is on   *)
(* the screen and switches terminals while nothing starts.  A hasty one    *)
(* waits for the shells of the terminals only, but not for the commands    *)
(* typed into them.  A third kind waits for nothing.                       *)

OnScreen == Patience = "patient" => sched = active

Restarting(t) == pc[t] \in {"halt", "reap"} /\ apid[t] \in Bases
Quiet == \A t \in Terminals : pc[t] \notin Launching /\ ~ Restarting(t)
ShellsUp ==
  /\ cur # NoPid
  /\ \A t \in Terminals :
       /\ pc[t] \in Launching => init[t] /\ pc[t] # "spin"
       /\ ~ Restarting(t)

UserWaits ==
  /\ Patience = "patient" => Quiet
  /\ Patience = "hasty" => ShellsUp
UserWaitsLonger == Patience \in {"patient", "hasty"} => Quiet

At(t, step) == cpu = "ok" /\ run = t /\ pc[t] = step
Goto(t, step) == pc' = [pc EXCEPT ![t] = step]

-----------------------------------------------------------------------------
(* execute                                                                 *)

\* The command names a program: an execute that returns -1 changes nothing.
Execute(t) ==
  /\ At(t, "user")
  /\ OnScreen
  /\ Goto(t, "alloc")
  /\ UNCHANGED <<active, sched, init, apid, cur, tree, mmu, ctx, run, lpid, leave, cpu>>

FreePids == {p \in Pids : ~ inUse[p]}
GetPid_NoFailure == IF FreePids = {} THEN NUM_PIDS ELSE Min(FreePids)
GetPid == IF FreePids = {} THEN NoPid ELSE Min(FreePids)

NewPid == IF init[active] THEN GetPid ELSE active

AllocPid(t) ==
  /\ At(t, "alloc")
  /\ NewPid # NoPid
  /\ lpid' = [lpid EXCEPT ![t] = NewPid]
  /\ Goto(t, "map")
  /\ UNCHANGED <<active, sched, init, apid, cur, tree, mmu, ctx, run, leave, cpu>>

\* No process left: execute returns -1 to the shell that called it, or to a halt
\* that goes on with its null current_pcb.
NoPidLeft(t) ==
  /\ At(t, "alloc")
  /\ NewPid = NoPid
  /\ cpu' = IF cur = NoPid THEN "derailed" ELSE "ok"
  /\ Goto(t, "user")
  /\ UNCHANGED <<active, sched, init, apid, cur, tree, mmu, ctx, run, lpid, leave>>

MapPage(t) ==
  /\ At(t, "map")
  /\ page' = lpid[t]
  /\ Goto(t, "load")
  /\ UNCHANGED <<active, sched, init, apid, cur, tree, esp0, image, ctx, run, lpid, leave, cpu>>

\* read_data copies byte by byte through the 128MB page, wherever that is mapped by
\* now.  Two halves show what an interrupt between two bytes can do.
LoadImage(t) ==
  /\ At(t, "load")
  /\ image' = [image EXCEPT ![page] = Half(lpid[t])]
  /\ Goto(t, "rest")
  /\ UNCHANGED <<active, sched, init, apid, cur, tree, page, esp0, ctx, run, lpid, leave, cpu>>

\* The image is whole if the page still is the one that took the first half.
LoadRest(t) ==
  /\ At(t, "rest")
  /\ image' = [image EXCEPT ![page] = IF @ = Half(lpid[t]) THEN lpid[t] ELSE NoPid]
  /\ Goto(t, "pcb")
  /\ UNCHANGED <<active, sched, init, apid, cur, tree, page, esp0, ctx, run, lpid, leave, cpu>>

\* The first shell also reserves the slots of the other base shells.
Claimed_NoReserve(p) == {p}
Claimed(p) == {p} \cup (IF p = 0 THEN Bases ELSE {})

\* Process 0 puts terminal 0 on the screen.
CreatePcb(t) ==
  LET p == lpid[t] IN
  /\ At(t, "pcb")
  /\ inUse' = [q \in Pids |-> inUse[q] \/ q \in Claimed(p)]
  /\ active' = IF p = 0 THEN 0 ELSE active
  /\ ppid' = [ppid EXCEPT ![p] = IF p \in Bases THEN NoPid ELSE apid[active]]
  /\ home' = [home EXCEPT ![p] = t]
  /\ Goto(t, "esp0")
  /\ UNCHANGED <<sched, init, apid, cur, caller, mmu, ctx, run, lpid, leave, cpu>>

SetStack(t) ==
  /\ At(t, "esp0")
  /\ esp0' = lpid[t]
  /\ caller' = [caller EXCEPT ![lpid[t]] = cur]
  /\ Goto(t, "switch")
  /\ UNCHANGED <<active, sched, init, apid, cur, inUse, ppid, home, page, image, ctx,
                 run, lpid, leave, cpu>>

SwitchPcb(t) ==
  /\ At(t, "switch")
  /\ cur' = lpid[t]
  /\ Goto(t, "activate")
  /\ UNCHANGED <<active, sched, init, apid, tree, mmu, ctx, run, lpid, leave, cpu>>

\* execute is left for user mode, and its process_id is not read again.
EnterUser(t) == Goto(t, "user") /\ lpid' = [lpid EXCEPT ![t] = 0]

\* The process of current_pcb becomes the foreground of the terminal on screen.
Activate(t) ==
  /\ At(t, "activate")
  /\ apid' = [apid EXCEPT ![active] = process_id(home, cur)]
  /\ \/ init[active] /\ EnterUser(t)
     \/ ~ init[active] /\ Goto(t, "announce") /\ UNCHANGED lpid
  /\ UNCHANGED <<active, sched, init, cur, tree, mmu, ctx, run, leave, cpu>>

Announce(t) ==
  /\ At(t, "announce")
  /\ init' = [init EXCEPT ![active] = TRUE]
  /\ Goto(t, "spin")
  /\ UNCHANGED <<active, sched, apid, cur, tree, mmu, ctx, run, lpid, leave, cpu>>

\* Leaves the busy wait and enters the shell by iret.
Spin(t) ==
  /\ At(t, "spin")
  /\ active = sched
  /\ EnterUser(t)
  /\ UNCHANGED <<active, sched, init, apid, cur, tree, mmu, ctx, run, leave, cpu>>

-----------------------------------------------------------------------------
(* halt                                                                    *)

Leaves(t, cause) ==
  /\ At(t, "user")
  /\ cur \in Bases => OnScreen
  /\ how' = [how EXCEPT ![t] = cause]
  /\ exc' = (exc \/ cause = "fault")
  /\ Goto(t, "halt")
  /\ UNCHANGED <<active, sched, init, apid, cur, tree, mmu, ctx, run, lpid, rv, cpu>>

Exit(t) == Leaves(t, "exit")     \* the halt system call
Fault(t) == Leaves(t, "fault")   \* exception_handler sets the flag, jumps to halt

HaltStatus(t) ==
  /\ At(t, "halt")
  /\ rv' = [rv EXCEPT ![t] = IF exc THEN "256" ELSE "status"]
  /\ exc' = FALSE
  /\ Goto(t, "reap")
  /\ UNCHANGED <<active, sched, init, apid, cur, tree, mmu, ctx, run, lpid, how, cpu>>

Freed_Parent == IF ppid[cur] = NoPid THEN cur ELSE ppid[cur]
Freed_None == NoPid
Freed == cur

\* A reclaimed process: its slot is free, and what its page holds is nobody's
\* program.  The locals of halt die with its frame.
Reclaim(t) ==
  /\ inUse' = [p \in Pids |-> inUse[p] /\ p # Freed]
  /\ ppid' = [ppid EXCEPT ![cur] = 0]
  /\ caller' = [caller EXCEPT ![cur] = NoPid]
  /\ home' = [home EXCEPT ![cur] = NoTerm]
  /\ image' = [q \in Pids |-> IF image[q] \in {cur, Half(cur)} THEN NoPid ELSE image[q]]
  /\ how' = [how EXCEPT ![t] = "exit"]
  /\ rv' = [rv EXCEPT ![t] = "status"]

\* A base shell is started again, on its own kernel stack, without a current_pcb.
RestartShell(t) ==
  /\ At(t, "reap")
  /\ process_id(home, cur) \in Bases
  /\ Reclaim(t)
  /\ esp0' = process_id(home, cur)
  /\ cur' = NoPid
  /\ Goto(t, "alloc")
  /\ UNCHANGED <<active, sched, init, apid, page, ctx, run, lpid, exc, cpu>>

HandedBack_Active == active
HandedBack == sched   \* the terminal that returns to the parent

\* Any other process hands its terminal back to its parent, as far as the parent's
\* PCB still has its id, and returns into the frame of its caller; in another
\* process's frame the parent may go astray.
ReturnToParent(t) ==
  LET parent == ppid[cur] IN
  /\ At(t, "reap")
  /\ process_id(home, cur) \notin Bases
  /\ parent \in Pids
  /\ Reclaim(t)
  /\ esp0' = parent
  /\ page' = process_id(home', parent)
  /\ cur' = parent
  /\ apid' = [apid EXCEPT ![HandedBack] = process_id(home', parent)]
  /\ cpu' \in {"ok"} \cup (IF caller[cur] = parent THEN {} ELSE {"derailed"})
  /\ Goto(t, "user")
  /\ UNCHANGED <<active, sched, init, ctx, run, lpid, exc>>

\* User code that runs on another program's image or another process's kernel
\* stack is undefined: it may go on as if nothing was wrong, or go astray.
Astray(t) ==
  /\ At(t, "user")
  /\ cur # NoPid
  /\ image[page] # cur \/ esp0 # cur
  /\ cpu' = "derailed"
  /\ UNCHANGED <<active, sched, init, apid, cur, tree, mmu, ctx, run, pc, lpid, leave>>

-----------------------------------------------------------------------------
(* The interrupts                                                          *)

Initialized == {t \in Terminals : init[t]}

After_OneShort(s, k) == IF s + k < MAX_TERMINALS - 1 THEN s + k ELSE 0
\* The terminal k places after s, for k up to MAX_TERMINALS (the code's % wraps once).
After(s, k) == IF s + k < MAX_TERMINALS THEN s + k ELSE s + k - MAX_TERMINALS
Distances_FromSelf == 0 .. MAX_TERMINALS - 1
Distances == 1 .. MAX_TERMINALS
NextTerminal ==
  After(sched, Min({k \in Distances : init[After(sched, k)]}))

\* pit_handler runs the scheduler only while there is a current process.
Interruptible_Always == cpu = "ok" /\ run # NoTerm /\ pc[run] \in Preemptible
Interruptible == cpu = "ok" /\ run # NoTerm /\ pc[run] \in Preemptible /\ cur # NoPid

Parked_OnScreen == [saved EXCEPT ![apid[active]] = [th |-> run, fresh |-> TRUE]]

\* The frame that becomes cur's saved context when the timer interrupts it.
Parked == [saved EXCEPT ![cur] = [th |-> run, fresh |-> TRUE]]

SwitchTo_NoPage(t) ==
  /\ sched' = t
  /\ cur' = apid[t]
  /\ esp0' = process_id(home, apid[t])
  /\ UNCHANGED <<page, active, init, apid, tree, image, pc, lpid, leave>>

\* What the scheduler does up to the point where it loads the saved frame.
SwitchTo(t) ==
  /\ sched' = t
  /\ cur' = apid[t]
  /\ esp0' = process_id(home, apid[t])
  /\ page' = process_id(home, apid[t])
  /\ UNCHANGED <<active, init, apid, tree, image, pc, lpid, leave>>

\* The saved frame is the latest one of its thread, which continues from it.
Tick ==
  LET p == apid[NextTerminal] IN
  /\ Interruptible
  /\ Initialized # {}
  /\ SwitchTo(NextTerminal)
  /\ Parked[p].fresh
  /\ saved' = [Parked EXCEPT ![p].fresh = FALSE]
  /\ run' = Parked[p].th
  /\ UNCHANGED <<left, cpu>>

\* The saved frame is an old one.  If the thread left the process by a first
\* terminal switch, the words at the old place may happen to lead back to it.
TickStale ==
  LET p == apid[NextTerminal] IN
  /\ Interruptible
  /\ Initialized # {}
  /\ SwitchTo(NextTerminal)
  /\ ~ Parked[p].fresh
  /\ saved' = Parked
  /\ \/ /\ cpu' = "derailed"
        /\ run' = NoTerm
        /\ UNCHANGED left
     \/ /\ left[p] # NoTerm
        /\ Parked[p].th = left[p]
        /\ run' = left[p]
        /\ left' = [left EXCEPT ![p] = NoTerm]
        /\ UNCHANGED cpu

\* No terminal is initialised: the search for the next one never ends.
TickHangs ==
  /\ Interruptible
  /\ Initialized = {}
  /\ saved' = Parked
  /\ cpu' = "hung"
  /\ UNCHANGED <<active, sched, init, apid, cur, tree, mmu, left, run, pc, lpid, leave>>

\* Alt+F1, Alt+F2, ... on a terminal that has its shell.
TerminalSwitch(t) ==
  /\ cpu = "ok"
  /\ UserWaits
  /\ t # active
  /\ init[t]
  /\ active' = t
  /\ UNCHANGED <<sched, init, apid, cur, tree, mmu, ctx, run, pc, lpid, leave, cpu>>

\* The first switch to a terminal starts its shell on top of the interrupted
\* thread, whose context nobody saves.
FirstSwitch(t) ==
  /\ cpu = "ok"
  /\ UserWaitsLonger
  /\ t # active
  /\ ~ init[t]
  /\ active' = t
  /\ Goto(t, "alloc")
  /\ run' = t
  /\ left' = IF cur = NoPid THEN left ELSE [left EXCEPT ![cur] = run]
  /\ UNCHANGED <<sched, init, apid, cur, tree, mmu, saved, lpid, leave, cpu>>

\* A hung or derailed kernel does nothing the source describes.
Stopped == cpu # "ok" /\ UNCHANGED vars

-----------------------------------------------------------------------------
Kernel(t) ==
  \/ AllocPid(t) \/ NoPidLeft(t) \/ MapPage(t) \/ LoadImage(t) \/ LoadRest(t)
  \/ CreatePcb(t) \/ SetStack(t) \/ SwitchPcb(t) \/ Activate(t) \/ Announce(t) \/ Spin(t)
  \/ HaltStatus(t) \/ RestartShell(t) \/ ReturnToParent(t)

User(t) == Execute(t) \/ Exit(t) \/ Fault(t) \/ Astray(t)

Switch(t) == TerminalSwitch(t) \/ FirstSwitch(t)

Timer == Tick \/ TickStale \/ TickHangs

Next ==
  \/ \E t \in Terminals : Kernel(t) \/ User(t) \/ Switch(t)
  \/ Timer
  \/ Stopped

Spec == Init /\ [][Next]_vars

\* The PIT fires at 20 Hz, and its quantum leaves a scheduled thread time for
\* many kernel steps; a thread can take one only while it has the CPU.
Fairness == SF_vars(Timer) /\ \A t \in Terminals : SF_vars(Kernel(t))

FairSpec == Spec /\ Fairness
-----------------------------------------------------------------------------
(* Properties                                                              *)

Alive == cpu = "ok"

Children(p) == {q \in Pids \ Bases : inUse[q] /\ ppid[q] = p}

\* Thread t is about to record the caller of the process it has just created.
Unrecorded(q) == \E t \in Terminals : pc[t] = "esp0" /\ lpid[t] = q

\* execute (system_calls.c:269, 290) and halt (93-119): every live program was
\* started by a live process of its own terminal, which is both the parent that
\* halt makes current and the caller into whose frame it returns, and which waits
\* for no other child.
ProcessTree ==
  Alive => \A q \in Pids \ Bases : inUse[q] =>
    /\ inUse[ppid[q]]
    /\ home[ppid[q]] = home[q]
    /\ Unrecorded(q) \/ caller[q] = ppid[q]
    /\ Cardinality(Children(ppid[q])) = 1

\* Thread t has freed its base shell and not yet created it again.
Relaunching(t) ==
  /\ run = t /\ cur = NoPid /\ apid[t] = t
  /\ pc[t] \in {"alloc", "map", "load", "rest", "pcb"}

\* execute:297 and halt:106: the process a terminal schedules is the newest one
\* of that terminal's chain, so that no terminal runs a parent whose child lives
\* nor a process of another terminal.
ForegroundIsNewest ==
  Alive => \A t \in Terminals : init[t] =>
    /\ Relaunching(t) \/ (inUse[apid[t]] /\ home[apid[t]] = t)
    /\ \A q \in Children(apid[t]) : lpid[t] = q /\ pc[t] \in {"esp0", "switch", "activate"}

\* execute:258-267 and get_pid: the slots of the base shells go to the shells of
\* their own terminals for good, however often a base shell exits.
BaseSlotsKept ==
  Alive => \A t \in Terminals :
    pc[t] \in Launching \ {"alloc"} => lpid[t] = t \/ lpid[t] \notin Bases

\* get_pid (system_calls.c:633, "next available process_id"): the process id that a
\* launch is about to put into its PCB belongs to no live process.
PidIsFree ==
  Alive => \A t \in Terminals :
    pc[t] \in {"map", "load", "rest", "pcb"} /\ inUse[lpid[t]] => lpid[t] = t /\ ~ init[t]

\* scheduler (scheduler.c:84-137): a terminal that waits for its turn can be
\* resumed where its thread was last interrupted, unless a first terminal switch
\* abandoned that thread.
ContextsSurvive ==
  Alive => \A t \in Terminals : init[t] /\ t # sched =>
    \/ saved[apid[t]] = [th |-> t, fresh |-> TRUE]
    \/ left[apid[t]] = t
    \/ pc[t] = "spin" /\ run = t

\* execute:233-291, scheduler:107-111 and halt:95-104: in user mode the 128MB
\* page holds the current process's own program in the process's own slot, and
\* the next trap enters the process's own kernel stack.
OwnMachineState ==
  Alive /\ pc[run] = "user" => page = cur /\ image[page] = cur /\ esp0 = cur

\* system_calls.c:43: halt reports 256 if and only if the process ended by an
\* exception.
StatusTold ==
  Alive => \A t \in Terminals : pc[t] = "reap" => (rv[t] = "256" <=> how[t] = "fault")

\* halt:75 and get_pid: a process with a live child is never reclaimed.
ParentsStay ==
  [][Alive => \A p \in Pids : inUse[p] /\ Children(p) # {} => inUse'[p]]_vars

\* execute:134-313: a launch that got a process id reaches user mode.
LaunchEnds ==
  \A t \in Terminals : pc[t] = "map" ~> (pc[t] = "user" \/ ~ Alive)

\* scheduler:95-103: every initialised terminal gets the CPU again and again.
TerminalsServed ==
  \A t \in Terminals : init[t] ~> (sched = t \/ ~ Alive)

\* scheduler.c:95, "find next scheduled terminal/pcb to run": there is one
\* whenever the timer runs the scheduler.
SchedulerFindsOne == cpu # "hung"

\* scheduler.c:95-103 and pit.c:33: the search for the next terminal fails only
\* between the switch of the very first shell to its own PCB and the announcement of
\* its terminal, whatever halts, restarts and terminal switches come later.
HangsOnlyAtBoot ==
  cpu = "hung" =>
    /\ Initialized = {}
    /\ run = 0 /\ pc[0] \in {"activate", "announce"}

\* scheduler.c:72, "swap ebp, esp to new terminal (swap tss.esp0 as well)": a
\* process in user mode enters the kernel on its own stack.
OwnKernelStack ==
  Alive /\ pc[run] = "user" /\ cur # NoPid => esp0 = cur

\* execute, system_calls.c:236, "copy program data to 4MB space in directory":
\* a process starts in user mode with its program in its own page.
StartsOwnProgram ==
  Alive /\ pc[run] = "user" /\ cur # NoPid => image[cur] = cur
=============================================================================
