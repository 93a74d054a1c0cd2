---------------------------- MODULE ProcessesInv ----------------------------
(***************************************************************************)
(* The inductive invariant behind the process tree of Processes, for a     *)
(* patient user: where each thread stands relative to current_pcb, the     *)
(* terminals, the process slots and the contexts the scheduler saved.      *)
(***************************************************************************)
EXTENDS Processes

PreSwitch == {"alloc", "map", "load", "rest", "pcb", "esp0", "switch"}
InProgram == {"user", "halt", "reap"}
Created == {"esp0", "switch", "activate", "announce"}

Booted == Initialized # {}

\* Only the terminal on the screen starts a program or restarts its shell.
ScreenInv ==
  \A t \in Terminals : pc[t] \in Launching \/ Restarting(t) => t = active

\* A terminal is initialised exactly when its first shell has been announced.
StageInv ==
  /\ \A t \in Terminals :
       IF init[t] THEN pc[t] \notin {"off", "announce"}
                  ELSE pc[t] \in PreSwitch \cup {"off", "activate", "announce"}
  /\ ~ Booted => run = 0 /\ pc[0] # "off"

\* Where the running thread stands relative to the scheduled process.
RunInv ==
  /\ pc[run] # "off"
  /\ pc[run] \in InProgram => sched = run /\ cur = apid[run]
  /\ pc[run] \in PreSwitch /\ init[run] =>
       sched = run /\ (cur = apid[run] \/ (cur = NoPid /\ apid[run] = run))
  /\ pc[run] \in PreSwitch /\ ~ init[run] =>
       IF Booted THEN init[sched] /\ cur = apid[sched] ELSE cur = NoPid
  /\ pc[run] = "activate" => cur = lpid[run] /\ (init[run] => sched = run)
  /\ pc[run] = "announce" => cur = lpid[run] /\ apid[run] = lpid[run]
  /\ pc[run] = "spin" => cur = apid[run]

\* The slot that the launch of thread t holds, and the process it has put there.
HoldsSlot(t, p) ==
  /\ ~ init[t] => p = t
  /\ init[t] => p = t \/ p \notin Bases
  /\ init[t] /\ p = t =>
       apid[t] = t /\ (pc[t] \in PreSwitch => run = t /\ cur = NoPid)
  /\ init[t] /\ run = t /\ cur = NoPid => p = t
  /\ pc[t] \notin Created => (inUse[p] => ~ init[t])
  /\ pc[t] \in Created => inUse[p] /\ home[p] = t /\ Children(p) = {}
  /\ pc[t] \in Created /\ p \notin Bases => ppid[p] = apid[t]

LaunchInv ==
  \A t \in Terminals : pc[t] \in Launching \ {"alloc", "spin"} => HoldsSlot(t, lpid[t])

\* A thread waits in execute only for the first shell of its terminal.
SpinInv == \A t \in Terminals : pc[t] = "spin" => lpid[t] = t

\* Live processes form one chain for each initialised terminal.
TreeInv ==
  /\ \A q \in Pids \ Bases : inUse[q] =>
       /\ ppid[q] \in Pids /\ inUse[ppid[q]]
       /\ home[q] \in Terminals /\ init[home[q]]
       /\ home[ppid[q]] = home[q]
       /\ Unrecorded(q) \/ caller[q] = ppid[q]
  /\ \A q, r \in Pids \ Bases :
       inUse[q] /\ inUse[r] /\ ppid[q] = ppid[r] => q = r

\* The slots of the base shells.
BaseInv ==
  /\ \A b \in Bases : home[b] \in {NoTerm, b}
  /\ Booted \/ pc[0] \in Created => \A b \in Bases : inUse[b] \/ Relaunching(b)

\* The process a terminal schedules ends its chain.
ForeInv ==
  \A t \in Terminals : init[t] =>
    /\ IF Relaunching(t) THEN ~ inUse[apid[t]]
                        ELSE inUse[apid[t]] /\ home[apid[t]] = t
    /\ \A q \in Children(apid[t]) : q = lpid[t] /\ pc[t] \in Created

\* What the thread of a saved context was doing when the timer interrupted it as
\* process p: running its terminal's process, starting the first shell of a
\* terminal on top of another one's process, or about to activate process p.
ParkedAs(v, p) ==
  \/ init[v] /\ p = apid[v] /\ pc[v] # "activate"
  \/ ~ init[v] /\ pc[v] \in PreSwitch /\ \E u \in Terminals : init[u] /\ p = apid[u]
  \/ pc[v] \in {"activate", "announce"} /\ p = lpid[v]

\* The contexts the scheduler may resume are those of other threads, one each.
ContextInv ==
  /\ \A p \in Pids : saved[p].fresh => saved[p].th # run /\ ParkedAs(saved[p].th, p)
  /\ \A p, q \in Pids : saved[p].fresh /\ saved[q].fresh /\ saved[p].th = saved[q].th => p = q
  /\ cur # NoPid => ~ saved[cur].fresh

\* A thread abandoned by a first switch stays in its terminal's process.
LeftInv ==
  \A p \in Pids : left[p] # NoTerm =>
    /\ left[p] # run /\ init[left[p]] /\ apid[left[p]] = p /\ pc[left[p]] \in InProgram
    /\ saved[p].fresh => saved[p].th # left[p]

TypeInv ==
  /\ TypeOK
  /\ cpu = "ok" => run \in Terminals
  /\ cpu = "ok" /\ cur = NoPid => pc[run] \in PreSwitch
  /\ \A p \in Pids : saved[p].fresh => saved[p].th # NoTerm

InStep ==
  /\ ScreenInv /\ StageInv /\ RunInv
  /\ LaunchInv /\ SpinInv /\ TreeInv /\ BaseInv /\ ForeInv
  /\ ContextInv /\ LeftInv

\* The invariant that the process tree, the foreground of every terminal, the
\* reserved slots and the uniqueness of process ids follow from: execute, halt and
\* the scheduler keep current_pcb, the terminals and the saved contexts in step.
PatientInv == TypeInv /\ (Alive => InStep)

\* A terminal that is not running can be resumed: its process has the latest frame
\* of its thread, or a first switch abandoned the thread in it.
ResumeInv ==
  \A t \in Terminals \ {run} : init[t] =>
    \/ saved[apid[t]] = [th |-> t, fresh |-> TRUE]
    \/ left[apid[t]] = t
=============================================================================
