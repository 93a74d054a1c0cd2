-------------------------- MODULE Processes_proofs --------------------------
(***************************************************************************)
(* Theorems about Processes, for every number of terminals and processes,  *)
(* every set of preemptible steps and, where a theorem does not say        *)
(* otherwise, every user.                                                  *)
(***************************************************************************)
EXTENDS ProcessesInv, LeastFacts, TLAPS

ConstantAssumptions ==
  /\ MAX_TERMINALS \in Nat \ {0}
  /\ NUM_PIDS \in Nat
  /\ MAX_TERMINALS <= NUM_PIDS

LEMMA Constants == ConstantAssumptions
BY TerminalsAssumption, PidsAssumption DEF ConstantAssumptions

-----------------------------------------------------------------------------
(* The helpers                                                             *)

\* get_pid hands out a process id that is not in use, or none.
LEMMA GetPidType ==
  ASSUME NewPid # NoPid, active \in Terminals
  PROVE  NewPid \in Pids /\ (init[active] => NewPid \in FreePids)
<1>1. CASE ~ init[active]
  BY <1>1, Constants DEF ConstantAssumptions, NewPid, Terminals, Pids
<1>2. CASE init[active]
  <2>1. FreePids # {} /\ NewPid = Min(FreePids)
    BY <1>2 DEF NewPid, GetPid
  <2>2. FreePids \in SUBSET Nat /\ FreePids \subseteq Pids
    BY Constants DEF ConstantAssumptions, FreePids, Pids
  <2> QED BY <2>1, <2>2, MinIsLeast
<1> QED BY <1>1, <1>2

\* The scheduler's search ends at an initialised terminal when there is one.
LEMMA NextTerminalType ==
  ASSUME sched \in Terminals, Initialized # {}
  PROVE  NextTerminal \in Initialized
<1> DEFINE K == {k \in Distances : init[After(sched, k)]}
<1>1. PICK t \in Terminals : init[t]
  BY DEF Initialized
<1>2. PICK k \in Distances : After(sched, k) = t
  <2>1. CASE sched < t
    <3>1. t - sched \in Distances /\ After(sched, t - sched) = t
      BY <2>1, Constants DEF ConstantAssumptions, Terminals, Distances, After
    <3> QED BY <3>1
  <2>2. CASE ~ (sched < t)
    <3> DEFINE d == t - sched + MAX_TERMINALS
    <3>1. d \in Distances /\ sched + d = t + MAX_TERMINALS
      BY <2>2, Constants DEF ConstantAssumptions, Terminals, Distances
    <3>2. After(sched, d) = t
      BY <3>1, Constants DEF ConstantAssumptions, Terminals, After
    <3> QED BY <3>1, <3>2
  <2> QED BY <2>1, <2>2
<1>3. K # {} /\ K \in SUBSET Nat
  BY <1>1, <1>2, Constants DEF ConstantAssumptions, Distances
<1>4. Min(K) \in Distances /\ init[After(sched, Min(K))]
  BY <1>3, MinIsLeast
<1>5. After(sched, Min(K)) \in Terminals
  BY <1>4, Constants DEF ConstantAssumptions, Terminals, Distances, After
<1> QED BY <1>4, <1>5 DEF NextTerminal, Initialized

\* A PCB holds the id of its own process, or 0.
LEMMA ProcessIdType ==
  ASSUME NEW h, NEW p \in Pids
  PROVE  process_id(h, p) \in Pids /\ process_id(h, p) # NoPid
<1>1. 0 \in Pids /\ NoPid \notin Pids
  BY Constants DEF ConstantAssumptions, Pids, NoPid
<1> QED BY <1>1 DEF process_id

-----------------------------------------------------------------------------
(* Types.  Between the reclaiming of a base shell and the switch to the    *)
(* process that replaces it there is no current process; the type of the   *)
(* state rests on the kernel never leaving execute in that window.         *)

LEMMA InitTyped == Init => TypeInv
<1> SUFFICES ASSUME Init PROVE TypeInv
  OBVIOUS
<1>1. 0 \in Terminals /\ 0 \in Pids /\ NoPid = -1 /\ NoTerm = -1
  BY Constants DEF ConstantAssumptions, Terminals, Pids, NoPid, NoTerm
<1>2. pc \in [Terminals -> Pc] /\ pc[0] = "alloc"
  BY <1>1 DEF Init, Pc, Launching
<1>3. saved \in [Pids -> Context] /\ \A p \in Pids : ~ saved[p].fresh
  BY <1>1 DEF Init, Context
<1>4. rv \in [Terminals -> {"status", "256"}] /\ how \in [Terminals -> {"exit", "fault"}]
  BY DEF Init
<1>5. /\ init \in [Terminals -> BOOLEAN] /\ inUse \in [Pids -> BOOLEAN]
      /\ exc \in BOOLEAN
  BY DEF Init
<1>6. image \in [Pids -> Images]
  BY DEF Init, Images
<1>7. TypeOK
  BY <1>1, <1>2, <1>3, <1>4, <1>5, <1>6 DEF Init, TypeOK
<1> QED BY <1>1, <1>2, <1>3, <1>7 DEF TypeInv, Init, PreSwitch

LEMMA KernelTyped ==
  ASSUME TypeInv, NEW t \in Terminals, Kernel(t)
  PROVE  TypeInv'
<1> USE DEF At, Goto, tree, mmu, ctx, leave, TypeInv, TypeOK, PreSwitch, Pc, Launching
<1>1. CASE AllocPid(t)
  <2>1. NewPid \in Pids
    BY <1>1, GetPidType DEF AllocPid
  <2> QED BY <1>1, <2>1 DEF AllocPid
<1>2. CASE NoPidLeft(t)
  BY <1>2 DEF NoPidLeft
<1>3. CASE MapPage(t)
  BY <1>3 DEF MapPage
<1>4. CASE LoadImage(t) \/ LoadRest(t)
  <2>1. lpid[t] \in Images /\ Half(lpid[t]) \in Images /\ NoPid \in Images
    BY DEF Images
  <2>2. image' \in [Pids -> Images]
    BY <1>4, <2>1 DEF LoadImage, LoadRest
  <2> QED BY <1>4, <2>2 DEF LoadImage, LoadRest
<1>5. CASE CreatePcb(t)
  <2>1. 0 \in Terminals /\ apid[active] \in Pids
    BY Constants DEF ConstantAssumptions, Terminals
  <2> QED BY <1>5, <2>1 DEF CreatePcb
<1>6. CASE SetStack(t)
  BY <1>6 DEF SetStack
<1>7. CASE SwitchPcb(t)
  <2>1. cur' \in Pids /\ cur' # NoPid
    BY <1>7, Constants DEF SwitchPcb, ConstantAssumptions, Pids, NoPid
  <2> QED BY <1>7, <2>1 DEF SwitchPcb
<1>8. CASE Activate(t)
  <2>1. cur \in Pids /\ cur # NoPid
    BY <1>8 DEF Activate
  <2>2. 0 \in Pids
    BY Constants DEF ConstantAssumptions, Pids
  <2>3. process_id(home, cur) \in Pids
    BY <2>1, ProcessIdType
  <2> QED BY <1>8, <2>1, <2>2, <2>3 DEF Activate, EnterUser
<1>9. CASE Announce(t)
  BY <1>9 DEF Announce
<1>10. CASE Spin(t)
  <2>1. 0 \in Pids
    BY Constants DEF ConstantAssumptions, Pids
  <2> QED BY <1>10, <2>1 DEF Spin, EnterUser
<1>11. CASE HaltStatus(t)
  BY <1>11 DEF HaltStatus
<1>12. CASE RestartShell(t)
  <2>1. cur \in Pids /\ 0 \in Pids
    BY <1>12, Constants DEF RestartShell, ConstantAssumptions, Pids
  <2>2. process_id(home, cur) \in Pids
    BY <2>1, ProcessIdType
  <2>3. image' \in [Pids -> Images]
    BY <1>12 DEF RestartShell, Reclaim, Images
  <2> QED BY <1>12, <2>1, <2>2, <2>3 DEF RestartShell, Reclaim
<1>13. CASE ReturnToParent(t)
  <2>1. ppid[cur] \in Pids /\ ppid[cur] # NoPid /\ cur \in Pids /\ 0 \in Pids
    BY <1>13, Constants DEF ReturnToParent, ConstantAssumptions, Pids, NoPid
  <2>2. process_id(home', ppid[cur]) \in Pids
    BY <2>1, ProcessIdType
  <2>3. image' \in [Pids -> Images]
    BY <1>13 DEF ReturnToParent, Reclaim, Images
  <2> QED BY <1>13, <2>1, <2>2, <2>3 DEF ReturnToParent, Reclaim, HandedBack
<1> QED BY <1>1, <1>2, <1>3, <1>4, <1>5, <1>6, <1>7, <1>8, <1>9, <1>10, <1>11,
  <1>12, <1>13 DEF Kernel

LEMMA UserTyped ==
  ASSUME TypeInv, NEW t \in Terminals, User(t)
  PROVE  TypeInv'
<1> USE DEF At, Goto, tree, mmu, ctx, leave, TypeInv, TypeOK, PreSwitch, Pc, Launching
<1>1. CASE Execute(t)
  BY <1>1 DEF Execute
<1>2. CASE \E cause \in {"exit", "fault"} : Leaves(t, cause)
  BY <1>2 DEF Leaves
<1>3. CASE Astray(t)
  BY <1>3 DEF Astray
<1> QED BY <1>1, <1>2, <1>3 DEF User, Exit, Fault

LEMMA SwitchTyped ==
  ASSUME TypeInv, NEW t \in Terminals, Switch(t)
  PROVE  TypeInv'
<1> USE DEF Goto, tree, mmu, ctx, leave, TypeInv, TypeOK, PreSwitch, Pc, Launching
<1>1. CASE TerminalSwitch(t)
  BY <1>1 DEF TerminalSwitch
<1>2. CASE FirstSwitch(t)
  BY <1>2 DEF FirstSwitch
<1> QED BY <1>1, <1>2 DEF Switch

\* The process the timer switches to, and the context it finds there.
LEMMA NextProcessTyped ==
  ASSUME TypeInv, Interruptible, Initialized # {}
  PROVE  /\ NextTerminal \in Terminals
         /\ apid[NextTerminal] \in Pids /\ apid[NextTerminal] # NoPid
         /\ Parked \in [Pids -> Context]
         /\ Parked[apid[NextTerminal]].th \in Terminals \cup {NoTerm}
         /\ \A p \in Pids : Parked[p].fresh => Parked[p].th # NoTerm
<1>1. NextTerminal \in Terminals
  BY NextTerminalType DEF TypeInv, TypeOK, Initialized
<1>2. apid[NextTerminal] \in Pids
  BY <1>1 DEF TypeInv, TypeOK
<1>3. apid[NextTerminal] # NoPid
  BY <1>2, Constants DEF ConstantAssumptions, Pids, NoPid
<1>4. [th |-> run, fresh |-> TRUE] \in Context
  BY DEF TypeInv, TypeOK, Interruptible, Context
<1>5. Parked \in [Pids -> Context]
  BY <1>4 DEF TypeInv, TypeOK, Parked
<1>6. Parked[apid[NextTerminal]].th \in Terminals \cup {NoTerm}
  BY <1>2, <1>5 DEF Context
<1>7. ASSUME NEW p \in Pids, Parked[p].fresh
      PROVE  Parked[p].th # NoTerm
  BY <1>4, <1>7 DEF TypeInv, TypeOK, Parked, Interruptible
<1> QED BY <1>1, <1>2, <1>3, <1>5, <1>6, <1>7

LEMMA TimerTyped ==
  ASSUME TypeInv, Timer
  PROVE  TypeInv'
<1> DEFINE p == apid[NextTerminal]
<1> USE DEF tree, mmu, leave
<1>1. CASE Tick
  <2>1. Interruptible /\ Initialized # {}
    BY <1>1 DEF Tick
  <2>2. /\ NextTerminal \in Terminals /\ p \in Pids /\ p # NoPid
        /\ Parked \in [Pids -> Context]
        /\ Parked[p].th \in Terminals \cup {NoTerm}
        /\ \A q \in Pids : Parked[q].fresh => Parked[q].th # NoTerm
    BY <2>1, NextProcessTyped
  <2>3. saved' \in [Pids -> Context] /\ \A q \in Pids : saved'[q].fresh => saved'[q].th # NoTerm
    <3>1. saved' = [Parked EXCEPT ![p].fresh = FALSE]
      BY <1>1 DEF Tick
    <3> HIDE DEF p
    <3> QED BY <2>2, <3>1 DEF Context
  <2>4. run' \in Terminals
    BY <1>1, <2>2 DEF Tick
  <2>5. cur' = p /\ cur' # NoPid
    BY <1>1, <2>2 DEF Tick, SwitchTo
  <2>6. process_id(home, p) \in Pids
    BY <2>2, ProcessIdType
  <2> QED BY <1>1, <2>2, <2>3, <2>4, <2>5, <2>6 DEF Tick, SwitchTo, TypeInv, TypeOK
<1>2. CASE TickStale
  <2>1. Interruptible /\ Initialized # {}
    BY <1>2 DEF TickStale
  <2>2. /\ NextTerminal \in Terminals /\ p \in Pids /\ p # NoPid
        /\ Parked \in [Pids -> Context]
        /\ \A q \in Pids : Parked[q].fresh => Parked[q].th # NoTerm
    BY <2>1, NextProcessTyped
  <2>3. cur' = p /\ cur' # NoPid
    BY <1>2, <2>2 DEF TickStale, SwitchTo
  <2>4. process_id(home, p) \in Pids
    BY <2>2, ProcessIdType
  <2> QED BY <1>2, <2>2, <2>3, <2>4 DEF TickStale, SwitchTo, TypeInv, TypeOK
<1>3. CASE TickHangs
  <2>1. [th |-> run, fresh |-> TRUE] \in Context
    BY <1>3 DEF TickHangs, Interruptible, TypeInv, TypeOK, Context
  <2>2. saved' \in [Pids -> Context] /\ \A q \in Pids : saved'[q].fresh => saved'[q].th # NoTerm
    BY <1>3, <2>1 DEF TickHangs, Parked, TypeInv, TypeOK, Interruptible
  <2> QED BY <1>3, <2>2 DEF TickHangs, TypeInv, TypeOK, ctx
<1> QED BY <1>1, <1>2, <1>3 DEF Timer

LEMMA NextTyped == TypeInv /\ [Next]_vars => TypeInv'
<1> SUFFICES ASSUME TypeInv, [Next]_vars PROVE TypeInv'
  OBVIOUS
<1>1. CASE UNCHANGED vars
  BY <1>1 DEF vars, tree, mmu, ctx, leave, TypeInv, TypeOK
<1>2. CASE Next
  BY <1>1, <1>2, KernelTyped, UserTyped, SwitchTyped, TimerTyped DEF Next, Stopped
<1> QED BY <1>1, <1>2

\* Every variable of the process control keeps its type, for any number of
\* terminals and processes, any preemption and any user: execute, halt and the
\* scheduler never leave the arrays of terminals and process slots.
THEOREM TypeCorrect == Spec => []TypeOK
<1>1. TypeInv => TypeOK
  BY DEF TypeInv
<1> QED BY <1>1, InitTyped, NextTyped, PTL DEF Spec

-----------------------------------------------------------------------------
(* The search of the scheduler.  Until the first shell is announced only   *)
(* thread 0 runs, in execute, and current_pcb is null until the switch.    *)

Booting ==
  /\ run = 0
  /\ \/ cur = NoPid /\ pc[0] \in PreSwitch
     \/ pc[0] \in {"activate", "announce"}

SearchInv ==
  /\ TypeInv
  /\ cpu = "ok" /\ Initialized = {} => Booting
  /\ HangsOnlyAtBoot

\* The part of SearchInv that a step must show anew.
Searching == (cpu = "ok" /\ Initialized = {} => Booting) /\ HangsOnlyAtBoot

LEMMA SearchStep ==
  ASSUME Patience # "none", SearchInv, [Next]_vars
  PROVE  SearchInv'
<1> USE DEF SearchInv, Searching, HangsOnlyAtBoot
<1>1. TypeInv'
  BY NextTyped
<1>2. ASSUME NEW t \in Terminals, Kernel(t)
      PROVE  Searching'
  <2> USE DEF At, Goto, Booting, PreSwitch, Initialized, tree, mmu, ctx, leave
  <2>1. CASE Announce(t)
    BY <2>1 DEF Announce, TypeInv, TypeOK
  <2>2. CASE SwitchPcb(t) \/ Activate(t)
    BY <2>2 DEF SwitchPcb, Activate, EnterUser, TypeInv, TypeOK
  <2>3. CASE AllocPid(t) \/ NoPidLeft(t) \/ MapPage(t) \/ LoadImage(t) \/ LoadRest(t)
    BY <2>3 DEF AllocPid, NoPidLeft, MapPage, LoadImage, LoadRest, NewPid, TypeInv, TypeOK
  <2>4. CASE CreatePcb(t) \/ SetStack(t)
    BY <2>4 DEF CreatePcb, SetStack, TypeInv, TypeOK
  <2>5. CASE Spin(t) \/ HaltStatus(t) \/ RestartShell(t) \/ ReturnToParent(t)
    BY <2>5 DEF Spin, EnterUser, HaltStatus, RestartShell, ReturnToParent, TypeInv, TypeOK
  <2> QED BY <1>2, <2>1, <2>2, <2>3, <2>4, <2>5 DEF Kernel
<1>3. ASSUME NEW t \in Terminals, User(t)
      PROVE  Searching'
  <2>1. cpu = "ok" /\ Initialized # {}
    BY <1>3 DEF User, Execute, Exit, Fault, Leaves, Astray, At, Booting, PreSwitch
  <2>2. Initialized' = Initialized /\ cpu' # "hung"
    BY <1>3 DEF User, Execute, Exit, Fault, Leaves, Astray, At, Initialized
  <2> QED BY <2>1, <2>2
<1>4. ASSUME NEW t \in Terminals, Switch(t)
      PROVE  Searching'
  <2>1. CASE TerminalSwitch(t)
    BY <1>4, <2>1 DEF TerminalSwitch, Initialized, TypeInv, TypeOK
  <2>2. CASE FirstSwitch(t)
    <3>1. Quiet /\ run \in Terminals /\ cpu = "ok"
      BY <2>2, PatienceAssumption DEF FirstSwitch, UserWaitsLonger, TypeInv
    <3>2. Initialized # {}
      BY <2>2, <3>1 DEF Quiet, Booting, PreSwitch, Launching, FirstSwitch
    <3>3. Initialized' = Initialized /\ cpu' = cpu
      BY <2>2 DEF FirstSwitch, Initialized
    <3> QED BY <3>1, <3>2, <3>3
  <2> QED BY <1>4, <2>1, <2>2 DEF Switch
<1>5. CASE Tick \/ TickStale
  <2>1. Initialized # {}
    BY <1>5 DEF Tick, TickStale
  <2>2. Initialized' = Initialized /\ cpu' # "hung"
    BY <1>5 DEF Tick, TickStale, SwitchTo, Initialized, Interruptible
  <2> QED BY <1>1, <2>1, <2>2
<1>6. CASE TickHangs
  <2>1. Booting /\ cur # NoPid /\ Initialized = {}
    BY <1>6 DEF TickHangs, Interruptible
  <2>2. run' = run /\ pc' = pc /\ Initialized' = Initialized /\ cpu' = "hung"
    BY <1>6 DEF TickHangs, Initialized
  <2> QED BY <1>1, <2>1, <2>2 DEF Booting
<1>7. ASSUME UNCHANGED vars
      PROVE  Searching'
  BY <1>7 DEF vars, Initialized, Booting
<1> QED BY <1>1, <1>2, <1>3, <1>4, <1>5, <1>6, <1>7 DEF Next, Stopped, Timer

\* scheduler.c:95-101: however the timer interrupts execute and halt, the search for
\* the next terminal fails to end in one place only, the launch of the very first
\* shell between the switch to its PCB and the announcement of its terminal, if the
\* user waits for the shells of the terminals.
THEOREM SearchEnds ==
  ASSUME Patience # "none"
  PROVE  Spec => []HangsOnlyAtBoot
<1>1. Init => SearchInv
  BY InitTyped DEF SearchInv, TypeInv, Init, Booting, HangsOnlyAtBoot, PreSwitch
<1>2. SearchInv /\ [Next]_vars => SearchInv'
  BY SearchStep
<1>3. SearchInv => HangsOnlyAtBoot
  BY DEF SearchInv
<1> QED BY <1>1, <1>2, <1>3, PTL DEF Spec
=============================================================================
