------------------------- MODULE ProcessTree_proofs -------------------------
(***************************************************************************)
(* The process tree, for every number of terminals and processes and every *)
(* interruption by the timer, with a patient user: PatientInv is inductive *)
(* and the properties of the tree follow from it.  There is one lemma for  *)
(* each action and in it one step for each conjunct of InStep.  The last   *)
(* section is about the context switch.                                    *)
(***************************************************************************)
EXTENDS Processes_proofs, FiniteSetTheorems

\* A command acts on its own terminal.
\* The PCB of a process that has one holds its id.
LEMMA OwnId ==
  ASSUME NEW h, NEW p \in Pids, h[p] \in Terminals
  PROVE  process_id(h, p) = p
<1>1. NoTerm \notin Terminals
  BY Constants DEF ConstantAssumptions, Terminals, NoTerm
<1> QED BY <1>1 DEF process_id

LEMMA ExecuteKeeps ==
  ASSUME TypeInv, TypeInv', InStep, Patience = "patient", cpu' = "ok",
         NEW t \in Terminals, Execute(t)
  PROVE  InStep'
<1> USE DEF At, Goto, tree, mmu, ctx, leave, Execute, OnScreen, TypeInv, TypeOK,
    InStep
<1>1. ScreenInv'
  BY DEF ScreenInv, Restarting, Launching, StageInv, Booted, Initialized, RunInv,
    InProgram, PreSwitch
<1>2. StageInv'
  BY DEF StageInv, Booted, Initialized, ScreenInv, Restarting, Launching, RunInv,
    InProgram, PreSwitch
<1>3. RunInv'
  BY DEF RunInv, Booted, Initialized, InProgram, PreSwitch, ScreenInv, Restarting,
    Launching, StageInv
<1>4. LaunchInv'
  BY DEF LaunchInv, HoldsSlot, Children, Launching, Created, PreSwitch
<1>5. SpinInv'
  BY DEF SpinInv
<1>6. TreeInv'
  BY DEF TreeInv, Unrecorded
<1>7. BaseInv'
  BY DEF BaseInv, Booted, Initialized, Relaunching, Created
<1>8. ForeInv'
  BY DEF ForeInv, Relaunching, Children, Created, ScreenInv, Restarting, Launching,
    StageInv, Booted, Initialized, RunInv, InProgram, PreSwitch
<1>9. ContextInv'
  BY DEF ContextInv, ParkedAs, PreSwitch
<1>10. LeftInv'
  BY DEF LeftInv, InProgram
<1> QED BY <1>1, <1>2, <1>3, <1>4, <1>5, <1>6, <1>7, <1>8, <1>9, <1>10

\* A restarted shell gets its own slot back, a program none of the reserved ones.
LEMMA AllocPidKeeps ==
  ASSUME TypeInv, TypeInv', InStep, Patience = "patient", cpu' = "ok",
         NEW t \in Terminals, AllocPid(t)
  PROVE  InStep'
<1> USE DEF At, Goto, tree, mmu, ctx, leave, AllocPid, TypeInv, TypeOK, InStep
<1>1. t = active /\ \A u \in Terminals \ {t} : pc[u] \notin Launching
  BY DEF ScreenInv, Launching
<1>2. NewPid \in Pids /\ (init[t] => NewPid \in FreePids)
  BY <1>1, GetPidType
<1>3. ~ init[t] => NewPid = t
  BY <1>1 DEF NewPid
<1>4. ASSUME init[t], cur = NoPid
      PROVE  NewPid = t /\ apid[t] = t
  <2>1. apid[t] = t /\ ~ inUse[t]
    BY <1>4, Constants DEF ConstantAssumptions, Pids, NoPid, RunInv, PreSwitch, ForeInv,
      Relaunching
  <2>2. t \in FreePids /\ FreePids \in SUBSET Nat
    BY <2>1, Constants DEF ConstantAssumptions, FreePids, Terminals, Pids
  <2>3. NewPid = Min(FreePids)
    BY <1>1, <1>4, <2>2 DEF NewPid, GetPid
  <2>4. NewPid \in FreePids /\ NewPid <= t
    BY <2>2, <2>3, MinIsLeast
  <2>5. NewPid \in Bases
    BY <2>4, Constants DEF ConstantAssumptions, FreePids, Terminals, Pids, Bases
  <2>6. Relaunching(NewPid)
    BY <1>4, <2>4, <2>5 DEF BaseInv, Booted, Initialized, FreePids
  <2> QED BY <2>1, <2>6 DEF Relaunching
<1>5. ASSUME init[t], cur # NoPid
      PROVE  NewPid \notin Bases
  BY <1>2, <1>5 DEF BaseInv, Booted, Initialized, FreePids, Relaunching
<1>6. ScreenInv'
  BY DEF ScreenInv, Restarting, Launching
<1>7. StageInv'
  BY DEF StageInv, Booted, Initialized, ScreenInv, Restarting, Launching, RunInv,
    InProgram, PreSwitch
<1>8. RunInv'
  BY DEF RunInv, Booted, Initialized, InProgram, PreSwitch
<1>9. LaunchInv'
  BY <1>1, <1>2, <1>3, <1>4, <1>5 DEF LaunchInv, HoldsSlot, Children, Launching, Created,
    PreSwitch, FreePids, Bases
<1>10. SpinInv'
  BY DEF SpinInv
<1>11. TreeInv'
  BY DEF TreeInv, Unrecorded
<1>12. BaseInv'
  BY DEF BaseInv, Booted, Initialized, Relaunching, Created
<1>13. ForeInv'
  BY DEF ForeInv, Relaunching, Children, Created
<1>14. ContextInv'
  BY DEF ContextInv, ParkedAs, PreSwitch
<1>15. LeftInv'
  BY DEF LeftInv, InProgram
<1> QED BY <1>6, <1>7, <1>8, <1>9, <1>10, <1>11, <1>12, <1>13, <1>14, <1>15

LEMMA NoPidLeftKeeps ==
  ASSUME TypeInv, TypeInv', InStep, Patience = "patient", cpu' = "ok",
         NEW t \in Terminals, NoPidLeft(t)
  PROVE  InStep'
<1> USE DEF At, Goto, tree, mmu, ctx, leave, NoPidLeft, TypeInv, TypeOK, InStep
<1>1. t = active
  BY DEF ScreenInv, Launching
<1>2. init[t] /\ cur # NoPid
  BY <1>1, Constants DEF ConstantAssumptions, NewPid, Terminals, NoPid
<1>3. ScreenInv'
  BY DEF ScreenInv, Restarting, Launching
<1>4. StageInv'
  BY <1>2 DEF StageInv, Booted, Initialized
<1>5. RunInv'
  BY <1>2 DEF RunInv, Booted, Initialized, InProgram, PreSwitch
<1>6. LaunchInv'
  BY DEF LaunchInv, HoldsSlot, Children, Launching, Created, PreSwitch
<1>7. SpinInv'
  BY DEF SpinInv
<1>8. TreeInv'
  BY DEF TreeInv, Unrecorded
<1>9. BaseInv'
  BY DEF BaseInv, Booted, Initialized, Relaunching, Created
<1>10. ForeInv'
  BY DEF ForeInv, Relaunching, Children, Created
<1>11. ContextInv'
  BY DEF ContextInv, ParkedAs, PreSwitch
<1>12. LeftInv'
  BY DEF LeftInv, InProgram
<1> QED BY <1>3, <1>4, <1>5, <1>6, <1>7, <1>8, <1>9, <1>10, <1>11, <1>12

LEMMA MapPageKeeps ==
  ASSUME TypeInv, TypeInv', InStep, Patience = "patient", cpu' = "ok",
         NEW t \in Terminals, MapPage(t)
  PROVE  InStep'
<1> USE DEF At, Goto, tree, mmu, ctx, leave, MapPage, TypeInv, TypeOK, InStep
<1>1. ScreenInv'
  BY DEF ScreenInv, Restarting, Launching
<1>2. StageInv'
  BY DEF StageInv, Booted, Initialized, ScreenInv, Restarting, Launching, RunInv,
    InProgram, PreSwitch
<1>3. RunInv'
  BY DEF RunInv, Booted, Initialized, InProgram, PreSwitch
<1>4. LaunchInv'
  BY DEF LaunchInv, HoldsSlot, Children, Launching, Created, PreSwitch
<1>5. SpinInv'
  BY DEF SpinInv
<1>6. TreeInv'
  BY DEF TreeInv, Unrecorded
<1>7. BaseInv'
  BY DEF BaseInv, Booted, Initialized, Relaunching, Created
<1>8. ForeInv'
  BY DEF ForeInv, Relaunching, Children, Created
<1>9. ContextInv'
  BY DEF ContextInv, ParkedAs, PreSwitch
<1>10. LeftInv'
  BY DEF LeftInv, InProgram
<1> QED BY <1>1, <1>2, <1>3, <1>4, <1>5, <1>6, <1>7, <1>8, <1>9, <1>10

LEMMA LoadImageKeeps ==
  ASSUME TypeInv, TypeInv', InStep, Patience = "patient", cpu' = "ok",
         NEW t \in Terminals, LoadImage(t) \/ LoadRest(t)
  PROVE  InStep'
<1>0. /\ run = t /\ pc[t] \in {"load", "rest"}
      /\ pc' = [pc EXCEPT ![t] = IF pc[t] = "load" THEN "rest" ELSE "pcb"]
      /\ UNCHANGED <<active, sched, init, apid, cur, tree, ctx, run, lpid, leave, cpu>>
  BY DEF LoadImage, LoadRest, At, Goto
<1> USE <1>0 DEF tree, ctx, TypeInv, TypeOK, InStep
<1>1. ScreenInv'
  BY DEF ScreenInv, Restarting, Launching
<1>2. StageInv'
  BY DEF StageInv, Booted, Initialized, ScreenInv, Restarting, Launching, RunInv,
    InProgram, PreSwitch
<1>3. RunInv'
  BY DEF RunInv, Booted, Initialized, InProgram, PreSwitch
<1>4. LaunchInv'
  BY DEF LaunchInv, HoldsSlot, Children, Launching, Created, PreSwitch
<1>5. SpinInv'
  BY DEF SpinInv
<1>6. TreeInv'
  BY DEF TreeInv, Unrecorded
<1>7. BaseInv'
  BY DEF BaseInv, Booted, Initialized, Relaunching, Created
<1>8. ForeInv'
  BY DEF ForeInv, Relaunching, Children, Created
<1>9. ContextInv'
  BY DEF ContextInv, ParkedAs, PreSwitch
<1>10. LeftInv'
  BY DEF LeftInv, InProgram
<1> QED BY <1>1, <1>2, <1>3, <1>4, <1>5, <1>6, <1>7, <1>8, <1>9, <1>10

\* The new process becomes the only child of its terminal's foreground.
LEMMA CreatePcbKeeps ==
  ASSUME TypeInv, TypeInv', InStep, Patience = "patient", cpu' = "ok",
         NEW t \in Terminals, CreatePcb(t)
  PROVE  InStep'
<1> USE DEF At, Goto, tree, mmu, ctx, leave, CreatePcb, Claimed, TypeInv, TypeOK,
    InStep
<1>0. PICK p \in Pids : p = lpid[t]
  OBVIOUS
<1>1. t = active /\ \A u \in Terminals \ {t} : pc[u] \notin Launching
  BY DEF ScreenInv, Launching
<1>2. /\ p \in Bases => p = t
      /\ ~ init[t] => p = t
      /\ init[t] => ~ inUse[p]
      /\ init[t] /\ p = t => apid[t] = t /\ cur = NoPid
      /\ init[t] /\ cur = NoPid => p = t
  BY <1>0 DEF LaunchInv, HoldsSlot, Launching, PreSwitch, Created
<1>3. active' = active
  BY <1>0, <1>1, <1>2, Constants DEF ConstantAssumptions, Bases, Terminals
<1>4. ASSUME NEW q \in Pids \ Bases, inUse[q]
      PROVE  ppid[q] # p
  <2>1. inUse[ppid[q]] /\ home[q] = home[ppid[q]] /\ home[q] \in Terminals /\ init[home[q]]
    BY <1>4 DEF TreeInv
  <2>2. ~ init[t] => home[t] \in {NoTerm, t}
    BY DEF BaseInv, Bases
  <2>3. NoTerm \notin Terminals
    BY Constants DEF ConstantAssumptions, NoTerm, Terminals
  <2> QED BY <1>2, <2>1, <2>2, <2>3
<1>5. p \notin Bases => /\ init[t] /\ ~ inUse[p]
                        /\ inUse[apid[t]] /\ home[apid[t]] = t
                        /\ apid[t] # p
                        /\ Children(apid[t]) = {}
  BY <1>2 DEF ForeInv, Relaunching, Created, Bases
<1>6. /\ \A q \in Pids \ Bases : inUse'[q] = (inUse[q] \/ q = p)
      /\ \A q \in Pids : inUse[q] \/ q = p => inUse'[q]
      /\ home' = [home EXCEPT ![p] = t]
      /\ ppid' = [ppid EXCEPT ![p] = IF p \in Bases THEN NoPid ELSE apid[t]]
  BY <1>0, <1>1
<1>7. NoTerm \notin Terminals /\ (p \in Bases => home[p] \in {NoTerm, p})
  BY Constants DEF ConstantAssumptions, NoTerm, Terminals, BaseInv
<1>8. ScreenInv'
  BY <1>1, <1>3 DEF ScreenInv, Launching, Restarting
<1>9. StageInv'
  BY DEF StageInv, Booted, Initialized, ScreenInv, Restarting, Launching, RunInv,
    InProgram, PreSwitch
<1>10. RunInv'
  BY DEF RunInv, Booted, Initialized, InProgram, PreSwitch
<1>11. LaunchInv'
  <2>1. Children(p)' = {}
    BY <1>4, <1>5, <1>6 DEF Children
  <2>2. \A u \in Terminals \ {t} : pc'[u] \notin Launching
    BY <1>1
  <2>3. lpid'[t] = p /\ pc'[t] = "esp0" /\ run' = t /\ cur' = cur
    BY <1>0
  <2> QED BY <1>2, <1>5, <1>6, <2>1, <2>2, <2>3
    DEF LaunchInv, HoldsSlot, Launching, Created, PreSwitch
<1>12. SpinInv'
  BY DEF SpinInv
<1>13. TreeInv'
  <2>1. ASSUME NEW q \in Pids \ Bases, inUse'[q], q # p
        PROVE  /\ ppid'[q] \in Pids /\ inUse'[ppid'[q]]
               /\ home'[q] \in Terminals /\ init'[home'[q]]
               /\ home'[ppid'[q]] = home'[q]
               /\ Unrecorded(q)' \/ caller'[q] = ppid'[q]
    BY <1>2, <1>4, <1>6, <2>1 DEF TreeInv, Unrecorded
  <2>2. ASSUME p \notin Bases
        PROVE  /\ ppid'[p] \in Pids /\ inUse'[ppid'[p]]
               /\ home'[p] \in Terminals /\ init'[home'[p]]
               /\ home'[ppid'[p]] = home'[p]
    BY <1>2, <1>5, <1>6, <2>2
  <2>3. Unrecorded(p)'
    BY <1>0 DEF Unrecorded
  <2>4. ASSUME NEW q \in Pids \ Bases, NEW r \in Pids \ Bases,
               inUse'[q], inUse'[r], ppid'[q] = ppid'[r]
        PROVE  q = r
    BY <1>2, <1>5, <1>6, <2>4 DEF TreeInv, Children
  <2> QED BY ONLY <2>1, <2>2, <2>3, <2>4 DEF TreeInv
<1>14. BaseInv'
  <2>1. \A b \in Bases : home'[b] \in {NoTerm, b}
    BY <1>2, <1>6 DEF BaseInv
  <2>2. ASSUME ~ Booted, pc[0] \notin Created, pc'[0] \in Created, NEW b \in Bases
        PROVE  inUse'[b]
    <3>1. t = 0 /\ ~ init[t]
      BY <2>2 DEF Booted, Initialized
    <3>2. p = 0
      BY <1>2, <3>1
    <3>3. b \in Pids
      BY <2>2, Constants DEF ConstantAssumptions, Terminals, Pids, Bases
    <3>4. b \in Claimed(lpid[t])
      BY <1>0, <2>2, <3>2
    <3>5. inUse' = [q \in Pids |-> inUse[q] \/ q \in Claimed(lpid[t])]
      OBVIOUS
    <3> QED BY ONLY <3>3, <3>4, <3>5
  <2>3. ASSUME Booted \/ pc[0] \in Created, NEW b \in Bases
        PROVE  inUse'[b]
    BY <1>2, <1>6, <2>3, Constants
    DEF ConstantAssumptions, Terminals, Pids, BaseInv, Relaunching, Bases
  <2>4. init' = init
    OBVIOUS
  <2> QED BY ONLY <2>1, <2>2, <2>3, <2>4 DEF BaseInv, Booted, Initialized
<1>15. ForeInv'
  <2> SUFFICES ASSUME NEW u \in Terminals, init[u]
               PROVE  /\ IF Relaunching(u)' THEN ~ inUse'[apid'[u]]
                                            ELSE inUse'[apid'[u]] /\ home'[apid'[u]] = u
                      /\ \A q \in Children(apid[u])' : q = lpid'[u] /\ pc'[u] \in Created
    BY DEF ForeInv
  <2>1. ~ Relaunching(u)'
    BY DEF Relaunching
  <2>2. Relaunching(u) => u = t /\ p = t /\ apid[u] = p
    BY <1>2 DEF Relaunching
  <2>3. ~ Relaunching(u) => inUse[apid[u]] /\ home[apid[u]] = u
    BY DEF ForeInv
  <2>4. ~ Relaunching(u) => apid[u] # p
    BY <1>2, <1>5, <1>7, <2>3
  <2>5. inUse'[apid'[u]] /\ home'[apid'[u]] = u
    BY <1>2, <1>6, <2>2, <2>3, <2>4
  <2>6. ASSUME NEW q \in Children(apid[u])'
        PROVE  q = lpid'[u] /\ pc'[u] \in Created
    <3>1. CASE q = p
      <4>1. p \notin Bases /\ apid[u] = apid[t]
        BY <1>2, <1>6, <2>6, <3>1 DEF Children
      <4>2. u = t
        BY <1>5, <2>2, <2>3, <4>1
      <4> QED BY <1>0, <3>1, <4>2 DEF Created
    <3>2. CASE q # p
      <4>1. q \in Children(apid[u])
        BY <1>2, <1>6, <2>6, <3>2 DEF Children
      <4>2. q = lpid[u] /\ pc[u] \in Created
        BY <4>1 DEF ForeInv
      <4> QED BY <4>2 DEF Created
    <3> QED BY <3>1, <3>2
  <2> QED BY <2>1, <2>5, <2>6
<1>16. ContextInv'
  BY DEF ContextInv, ParkedAs, PreSwitch
<1>17. LeftInv'
  BY DEF LeftInv, InProgram
<1> QED BY <1>8, <1>9, <1>10, <1>11, <1>12, <1>13, <1>14, <1>15, <1>16, <1>17

LEMMA SetStackKeeps ==
  ASSUME TypeInv, TypeInv', InStep, Patience = "patient", cpu' = "ok",
         NEW t \in Terminals, SetStack(t)
  PROVE  InStep'
<1> USE DEF At, Goto, tree, mmu, ctx, leave, SetStack, TypeInv, TypeOK, InStep
<1>1. ScreenInv'
  BY DEF ScreenInv, Restarting, Launching
<1>2. StageInv'
  BY DEF StageInv, Booted, Initialized, ScreenInv, Restarting, Launching, RunInv,
    InProgram, PreSwitch
<1>3. RunInv'
  BY DEF RunInv, Booted, Initialized, InProgram, PreSwitch
<1>4. LaunchInv'
  BY DEF LaunchInv, HoldsSlot, Children, Launching, Created, PreSwitch
<1>5. SpinInv'
  BY DEF SpinInv
<1>6. TreeInv'
  BY DEF TreeInv, Unrecorded, ScreenInv, Restarting, Launching, StageInv, Booted,
    Initialized, RunInv, InProgram, PreSwitch, LaunchInv, HoldsSlot, Children,
    Created, ForeInv, Relaunching
<1>7. BaseInv'
  BY DEF BaseInv, Booted, Initialized, Relaunching, Created
<1>8. ForeInv'
  BY DEF ForeInv, Relaunching, Children, Created
<1>9. ContextInv'
  BY DEF ContextInv, ParkedAs, PreSwitch
<1>10. LeftInv'
  BY DEF LeftInv, InProgram
<1> QED BY <1>1, <1>2, <1>3, <1>4, <1>5, <1>6, <1>7, <1>8, <1>9, <1>10

LEMMA SwitchPcbKeeps ==
  ASSUME TypeInv, TypeInv', InStep, Patience = "patient", cpu' = "ok",
         NEW t \in Terminals, SwitchPcb(t)
  PROVE  InStep'
<1> USE DEF At, Goto, tree, mmu, ctx, leave, SwitchPcb, TypeInv, TypeOK, InStep
<1> DEFINE p == lpid[t]
<1>1. \A u \in Terminals \ {t} : pc[u] \notin Launching
  BY DEF ScreenInv, Launching
<1>2. p \in Pids /\ home[p] = t
  BY DEF LaunchInv, HoldsSlot, Launching, Created
<1>3. ~ saved[p].fresh
  <2> SUFFICES ASSUME saved[p].fresh PROVE FALSE
    OBVIOUS
  <2> DEFINE v == saved[p].th
  <2>1. v \in Terminals /\ v # t /\ ParkedAs(v, p)
    BY <1>2 DEF ContextInv, Context
  <2>2. ~ (init[v] /\ p = apid[v])
    BY <1>2, <2>1 DEF ForeInv, Relaunching
  <2> QED BY <1>1, <2>1, <2>2 DEF ParkedAs, PreSwitch, Launching
<1>4. ScreenInv'
  BY DEF ScreenInv, Restarting, Launching
<1>5. StageInv'
  BY DEF StageInv, Booted, Initialized
<1>6. RunInv'
  BY DEF RunInv, Booted, Initialized, InProgram, PreSwitch
<1>7. LaunchInv'
  BY DEF LaunchInv, HoldsSlot, Children, Launching, Created, PreSwitch
<1>8. SpinInv'
  BY DEF SpinInv
<1>9. TreeInv'
  BY DEF TreeInv, Unrecorded
<1>10. BaseInv'
  BY DEF BaseInv, Booted, Initialized, Relaunching, Created
<1>11. ForeInv'
  BY DEF ForeInv, Relaunching, Children, Created
<1>12. ContextInv'
  BY <1>3 DEF ContextInv, ParkedAs, PreSwitch, Context
<1>13. LeftInv'
  BY DEF LeftInv, InProgram
<1> QED BY <1>4, <1>5, <1>6, <1>7, <1>8, <1>9, <1>10, <1>11, <1>12, <1>13

\* The new process becomes the foreground of its terminal.
LEMMA ActivateKeeps ==
  ASSUME TypeInv, TypeInv', InStep, Patience = "patient", cpu' = "ok",
         NEW t \in Terminals, Activate(t)
  PROVE  InStep'
<1>0. /\ At(t, "activate") /\ apid' = [apid EXCEPT ![active] = cur]
      /\ \/ init[active] /\ EnterUser(t)
         \/ ~ init[active] /\ Goto(t, "announce") /\ UNCHANGED lpid
      /\ UNCHANGED <<active, sched, init, cur, tree, ctx, run>>
  <2>1. cur = lpid[t] /\ cur \in Pids /\ home[cur] = t
    BY DEF Activate, At, TypeInv, TypeOK, InStep, RunInv, LaunchInv, HoldsSlot, Launching, Created
  <2>2. process_id(home, cur) = cur
    BY <2>1, OwnId
  <2> QED BY <2>2 DEF Activate
<1> USE <1>0 DEF At, Goto, tree, ctx, EnterUser, TypeInv, TypeOK, InStep
<1>1. t = active /\ \A u \in Terminals \ {t} : pc[u] \notin Launching
  BY DEF ScreenInv, Launching
<1>2. ScreenInv'
  BY DEF ScreenInv, Restarting, Launching
<1>3. StageInv'
  BY DEF StageInv, Booted, Initialized, ScreenInv, Restarting, Launching, RunInv,
    InProgram, PreSwitch
<1>4. RunInv'
  BY DEF RunInv, Booted, Initialized, InProgram, PreSwitch, ScreenInv, Restarting,
    Launching, StageInv
<1>5. LaunchInv'
  <2>1. \A u \in Terminals \ {t} : pc'[u] \notin Launching
    BY <1>1
  <2>2. CASE init[t]
    BY <1>1, <2>1, <2>2 DEF LaunchInv, HoldsSlot, Launching
  <2>3. CASE ~ init[t]
    BY <1>1, <2>1, <2>3 DEF LaunchInv, HoldsSlot, Launching, Created, Children, Bases
  <2> QED BY <2>2, <2>3
<1>6. SpinInv'
  BY DEF SpinInv
<1>7. TreeInv'
  BY DEF TreeInv, Unrecorded
<1>8. BaseInv'
  BY DEF BaseInv, Booted, Initialized, Relaunching, Created, ScreenInv, Restarting,
    Launching, StageInv, RunInv, InProgram, PreSwitch
<1>9. ForeInv'
  BY DEF ForeInv, Relaunching, Children, Created, ScreenInv, Restarting, Launching,
    StageInv, Booted, Initialized, RunInv, InProgram, PreSwitch, LaunchInv,
    HoldsSlot
<1>10. ContextInv'
  <2> SUFFICES ASSUME NEW p \in Pids, saved[p].fresh
               PROVE  ParkedAs(saved[p].th, p)'
    BY DEF ContextInv
  <2> DEFINE v == saved[p].th
  <2>1. v \in Terminals /\ v # t /\ ParkedAs(v, p)
    BY DEF ContextInv, Context
  <2>2. init[v] /\ p = apid[v] /\ pc[v] # "activate"
    BY <1>1, <2>1 DEF ParkedAs, PreSwitch, Launching
  <2> QED BY <1>1, <2>1, <2>2 DEF ParkedAs
<1>11. LeftInv'
  BY DEF LeftInv, InProgram, ScreenInv, Restarting, Launching, StageInv, Booted,
    Initialized, RunInv, PreSwitch
<1> QED BY <1>2, <1>3, <1>4, <1>5, <1>6, <1>7, <1>8, <1>9, <1>10, <1>11

LEMMA AnnounceKeeps ==
  ASSUME TypeInv, TypeInv', InStep, Patience = "patient", cpu' = "ok",
         NEW t \in Terminals, Announce(t)
  PROVE  InStep'
<1> USE DEF At, Goto, tree, mmu, ctx, leave, Announce, TypeInv, TypeOK, InStep
<1>1. ScreenInv'
  BY DEF ScreenInv, Restarting, Launching
<1>2. StageInv'
  BY DEF StageInv, Booted, Initialized, ScreenInv, Restarting, Launching, RunInv,
    InProgram, PreSwitch
<1>3. RunInv'
  BY DEF RunInv, Booted, Initialized, InProgram, PreSwitch
<1>4. LaunchInv'
  BY DEF LaunchInv, HoldsSlot, Children, Launching, Created, PreSwitch, ScreenInv,
    Restarting, StageInv, Booted, Initialized, RunInv, InProgram
<1>5. SpinInv'
  BY DEF SpinInv, LaunchInv, HoldsSlot, StageInv, Launching
<1>6. TreeInv'
  BY DEF TreeInv, Unrecorded
<1>7. BaseInv'
  BY DEF BaseInv, Booted, Initialized, Relaunching, Created, ScreenInv, Restarting,
    Launching, StageInv, RunInv, InProgram, PreSwitch
<1>8. ForeInv'
  BY DEF ForeInv, Relaunching, Children, Created, ScreenInv, Restarting, Launching,
    StageInv, Booted, Initialized, RunInv, InProgram, PreSwitch, LaunchInv,
    HoldsSlot
<1>9. ContextInv'
  BY DEF ContextInv, ParkedAs, PreSwitch, ScreenInv, Restarting, Launching,
    StageInv, Booted, Initialized, RunInv, InProgram
<1>10. LeftInv'
  BY DEF LeftInv, InProgram
<1> QED BY <1>1, <1>2, <1>3, <1>4, <1>5, <1>6, <1>7, <1>8, <1>9, <1>10

LEMMA SpinKeeps ==
  ASSUME TypeInv, TypeInv', InStep, Patience = "patient", cpu' = "ok",
         NEW t \in Terminals, Spin(t)
  PROVE  InStep'
<1> USE DEF At, Goto, tree, mmu, ctx, leave, Spin, EnterUser, TypeInv, TypeOK,
    InStep
<1>1. ScreenInv'
  BY DEF ScreenInv, Restarting, Launching
<1>2. StageInv'
  BY DEF StageInv, Booted, Initialized, ScreenInv, Restarting, Launching, RunInv,
    InProgram, PreSwitch
<1>3. RunInv'
  BY DEF RunInv, Booted, Initialized, InProgram, PreSwitch, ScreenInv, Restarting,
    Launching, StageInv
<1>4. LaunchInv'
  BY DEF LaunchInv, HoldsSlot, Children, Launching, Created, PreSwitch
<1>5. SpinInv'
  BY DEF SpinInv
<1>6. TreeInv'
  BY DEF TreeInv, Unrecorded
<1>7. BaseInv'
  BY DEF BaseInv, Booted, Initialized, Relaunching, Created
<1>8. ForeInv'
  BY DEF ForeInv, Relaunching, Children, Created
<1>9. ContextInv'
  BY DEF ContextInv, ParkedAs, PreSwitch
<1>10. LeftInv'
  BY DEF LeftInv, InProgram
<1> QED BY <1>1, <1>2, <1>3, <1>4, <1>5, <1>6, <1>7, <1>8, <1>9, <1>10

LEMMA HaltStatusKeeps ==
  ASSUME TypeInv, TypeInv', InStep, Patience = "patient", cpu' = "ok",
         NEW t \in Terminals, HaltStatus(t)
  PROVE  InStep'
<1> USE DEF At, Goto, tree, mmu, ctx, leave, HaltStatus, TypeInv, TypeOK, InStep
<1>1. ScreenInv'
  BY DEF ScreenInv, Restarting, Launching
<1>2. StageInv'
  BY DEF StageInv, Booted, Initialized, ScreenInv, Restarting, Launching, RunInv,
    InProgram, PreSwitch
<1>3. RunInv'
  BY DEF RunInv, Booted, Initialized, InProgram, PreSwitch
<1>4. LaunchInv'
  BY DEF LaunchInv, HoldsSlot, Children, Launching, Created, PreSwitch
<1>5. SpinInv'
  BY DEF SpinInv
<1>6. TreeInv'
  BY DEF TreeInv, Unrecorded
<1>7. BaseInv'
  BY DEF BaseInv, Booted, Initialized, Relaunching, Created
<1>8. ForeInv'
  BY DEF ForeInv, Relaunching, Children, Created
<1>9. ContextInv'
  BY DEF ContextInv, ParkedAs, PreSwitch
<1>10. LeftInv'
  BY DEF LeftInv, InProgram
<1> QED BY <1>1, <1>2, <1>3, <1>4, <1>5, <1>6, <1>7, <1>8, <1>9, <1>10

\* A base shell dies and starts again in its own slot.
LEMMA RestartShellKeeps ==
  ASSUME TypeInv, TypeInv', InStep, Patience = "patient", cpu' = "ok",
         NEW t \in Terminals, RestartShell(t)
  PROVE  InStep'
<1>0. /\ At(t, "reap") /\ cur \in Bases
      /\ inUse' = [p \in Pids |-> inUse[p] /\ p # cur]
      /\ ppid' = [ppid EXCEPT ![cur] = 0]
      /\ caller' = [caller EXCEPT ![cur] = NoPid]
      /\ home' = [home EXCEPT ![cur] = NoTerm]
      /\ cur' = NoPid /\ Goto(t, "alloc")
      /\ UNCHANGED <<active, sched, init, apid, ctx, run, lpid>>
  <2>1. At(t, "reap") /\ process_id(home, cur) \in Bases
    BY DEF RestartShell
  <2>2. cur = apid[t] /\ init[t] /\ cur \in Pids
    BY <2>1 DEF At, TypeInv, TypeOK, InStep, RunInv, StageInv, InProgram, PreSwitch
  <2>3. home[cur] = t
    BY <2>1, <2>2 DEF At, InStep, ForeInv, Relaunching
  <2> QED BY <2>1, <2>2, <2>3, OwnId DEF RestartShell, Reclaim, Freed
<1> USE <1>0 DEF At, Goto, tree, ctx, TypeInv, TypeOK, InStep
<1>1. sched = t /\ cur = apid[t] /\ init[t]
  BY DEF RunInv, StageInv, InProgram, PreSwitch
<1>2. inUse[cur] /\ home[cur] = t /\ Children(cur) = {}
  <2>1. pc[t] = "reap" /\ t \in Terminals /\ cur = apid[t] /\ init[t] /\ ForeInv
    BY <1>1
  <2> QED BY ONLY <2>1 DEF ForeInv, Relaunching, Created
<1>3. cur = t
  BY <1>2, Constants DEF ConstantAssumptions, BaseInv, NoTerm, Terminals
<1>4. ScreenInv'
  BY DEF ScreenInv, Restarting, Launching, StageInv, Booted, Initialized, RunInv,
    InProgram, PreSwitch
<1>5. StageInv'
  BY DEF StageInv, Booted, Initialized
<1>6. RunInv'
  BY <1>1, <1>3 DEF RunInv, PreSwitch, InProgram
<1>7. LaunchInv'
  BY DEF LaunchInv, HoldsSlot, Children, Launching, Created, PreSwitch, ScreenInv,
    Restarting, StageInv, Booted, Initialized, RunInv, InProgram
<1>8. SpinInv'
  BY DEF SpinInv
<1>9. TreeInv'
  BY DEF TreeInv, Unrecorded, ScreenInv, Restarting, Launching, StageInv, Booted,
    Initialized, RunInv, InProgram, PreSwitch, LaunchInv, HoldsSlot, Children,
    Created, ForeInv, Relaunching
<1>10. BaseInv'
  <2>1. Relaunching(t)'
    BY <1>1, <1>3 DEF Relaunching
  <2>2. Booted
    BY <1>1 DEF Booted, Initialized
  <2>3. \A b \in Bases : b # t => inUse[b]
    BY <2>2 DEF BaseInv, Relaunching
  <2>4. \A b \in Bases : b # t => inUse'[b]
    <3>1. \A b \in Bases : b \in Pids
      BY Constants DEF ConstantAssumptions, Bases, Terminals, Pids
    <3> QED BY ONLY <1>0, <1>3, <2>3, <3>1
  <2>5. \A b \in Bases : home'[b] \in {NoTerm, b}
    BY Constants DEF ConstantAssumptions, BaseInv, Bases, Terminals, Pids
  <2> HIDE DEF TypeInv, TypeOK, InStep, At, Goto
  <2> QED BY <2>1, <2>4, <2>5 DEF BaseInv
<1>11. ForeInv'
  <2>0. UNCHANGED <<init, apid>>
    OBVIOUS
  <2> SUFFICES ASSUME NEW u \in Terminals, init[u]
               PROVE  /\ IF Relaunching(u)' THEN ~ inUse'[apid'[u]]
                                            ELSE inUse'[apid'[u]] /\ home'[apid'[u]] = u
                      /\ \A q \in Children(apid[u])' : q = lpid'[u] /\ pc'[u] \in Created
    <3> HIDE DEF TypeInv, TypeOK, InStep, At, Goto
    <3> QED BY <2>0 DEF ForeInv
  <2>1. \A q \in Children(apid[u])' : q \in Children(apid[u])
    BY DEF Children
  <2>2. CASE u = t
    <3>1. Relaunching(t)'
      BY <1>1, <1>3 DEF Relaunching
    <3> QED BY <1>1, <1>2, <2>1, <2>2, <3>1
  <2>3. CASE u # t
    <3>1. ~ Relaunching(u) /\ ~ Relaunching(u)'
      BY <2>3 DEF Relaunching
    <3>2. inUse[apid[u]] /\ home[apid[u]] = u /\ apid[u] # cur
      BY <1>2, <2>3, <3>1 DEF ForeInv
    <3>3. \A q \in Children(apid[u]) : q = lpid[u] /\ pc[u] \in Created
      BY DEF ForeInv
    <3> QED BY <2>1, <2>3, <3>1, <3>2, <3>3
  <2> QED BY <2>2, <2>3
<1>12. ContextInv'
  BY DEF ContextInv, ParkedAs, PreSwitch
<1>13. LeftInv'
  BY DEF LeftInv, InProgram
<1> QED BY <1>4, <1>5, <1>6, <1>7, <1>8, <1>9, <1>10, <1>11, <1>12, <1>13

\* The newest process of the terminal dies and its parent takes over.
LEMMA ReturnToParentKeeps ==
  ASSUME TypeInv, TypeInv', InStep, Patience = "patient", cpu' = "ok",
         NEW t \in Terminals, ReturnToParent(t)
  PROVE  InStep'
<1> DEFINE parent == ppid[cur]
<1>0. /\ At(t, "reap") /\ cur \in Pids \ Bases /\ parent \in Pids
      /\ inUse' = [p \in Pids |-> inUse[p] /\ p # cur]
      /\ ppid' = [ppid EXCEPT ![cur] = 0]
      /\ caller' = [caller EXCEPT ![cur] = NoPid]
      /\ home' = [home EXCEPT ![cur] = NoTerm]
      /\ cur' = parent /\ apid' = [apid EXCEPT ![sched] = parent] /\ Goto(t, "user")
      /\ UNCHANGED <<active, sched, init, ctx, run, lpid>>
  <2>1. At(t, "reap") /\ process_id(home, cur) \notin Bases /\ parent \in Pids
    BY DEF ReturnToParent
  <2>2. cur = apid[t] /\ init[t] /\ cur \in Pids
    BY <2>1 DEF At, TypeInv, TypeOK, InStep, RunInv, StageInv, InProgram, PreSwitch
  <2>3. inUse[cur] /\ home[cur] = t /\ Children(cur) = {}
    BY <2>1, <2>2 DEF At, InStep, ForeInv, Relaunching, Created
  <2>4. cur \in Pids \ Bases
    BY <2>1, <2>2, <2>3, OwnId
  <2>5. home[parent] = t /\ parent # cur
    BY <2>3, <2>4 DEF InStep, TreeInv, Children
  <2>6. home' = [home EXCEPT ![cur] = NoTerm]
    BY DEF ReturnToParent, Reclaim
  <2>7. home'[parent] = t
    BY <2>1, <2>5, <2>6 DEF TypeInv, TypeOK
  <2>8. process_id(home', parent) = parent
    BY <2>1, <2>7, OwnId
  <2> QED BY <2>1, <2>4, <2>8 DEF ReturnToParent, Reclaim, Freed, HandedBack
<1> USE <1>0 DEF At, Goto, tree, ctx, TypeInv, TypeOK, InStep
<1>1. sched = t /\ cur = apid[t] /\ init[t]
  BY DEF RunInv, StageInv, InProgram, PreSwitch
<1>2. inUse[cur] /\ home[cur] = t /\ Children(cur) = {}
  <2>1. pc[t] = "reap" /\ t \in Terminals /\ cur = apid[t] /\ init[t] /\ ForeInv
    BY <1>1
  <2> QED BY ONLY <2>1 DEF ForeInv, Relaunching, Created
<1>3. /\ inUse[parent] /\ home[parent] = t /\ parent # cur
      /\ \A q \in Pids \ Bases : inUse[q] /\ ppid[q] = parent => q = cur
  BY <1>2 DEF TreeInv, Children
<1>4. ASSUME NEW u \in Terminals, u # t, init[u]
      PROVE  /\ inUse[apid[u]] /\ home[apid[u]] = u
             /\ apid[u] # cur /\ apid[u] # parent /\ apid'[u] = apid[u]
  BY <1>1, <1>2, <1>3, <1>4 DEF ForeInv, Relaunching
<1>5. /\ inUse' = [p \in Pids |-> inUse[p] /\ p # cur]
      /\ ppid' = [ppid EXCEPT ![cur] = 0]
      /\ home' = [home EXCEPT ![cur] = NoTerm]
      /\ apid' = [apid EXCEPT ![t] = parent]
  BY <1>1
<1>6. cur \in Pids \ Bases /\ cur # NoPid
      /\ ppid \in [Pids -> Pids \cup {NoPid}] /\ home \in [Pids -> Terminals \cup {NoTerm}]
  BY Constants DEF ConstantAssumptions, Pids, NoPid
<1>7. ScreenInv'
  BY DEF ScreenInv, Restarting, Launching, StageInv, Booted, Initialized, RunInv,
    InProgram, PreSwitch
<1>8. StageInv'
  BY DEF StageInv, Booted, Initialized, ScreenInv, Restarting, Launching, RunInv,
    InProgram, PreSwitch
<1>9. RunInv'
  BY DEF RunInv, Booted, Initialized, InProgram, PreSwitch
<1>10. LaunchInv'
  <2> SUFFICES ASSUME NEW u \in Terminals, pc'[u] \in Launching \ {"alloc", "spin"}
               PROVE  HoldsSlot(u, lpid[u])'
    BY DEF LaunchInv
  <2>1. u # t /\ pc'[u] = pc[u] /\ lpid'[u] = lpid[u] /\ apid'[u] = apid[u] /\ run' = t
    BY <1>1, <1>5 DEF Launching
  <2>2. pc[u] \in Created => inUse[lpid[u]] /\ home[lpid[u]] = u /\ Children(lpid[u]) = {}
    BY <2>1 DEF LaunchInv, HoldsSlot, Created
  <2>3. pc[u] \in Created => lpid[u] # cur
    BY <1>2, <2>1, <2>2
  <2>4. Children(lpid[u])' \subseteq Children(lpid[u]) \cup {q \in {cur} : inUse'[q]}
    BY <2>1 DEF Children
  <2>5. ~ inUse'[cur]
    OBVIOUS
  <2>6. HoldsSlot(u, lpid[u])
    BY <2>1 DEF LaunchInv
  <2>7. lpid[u] \in Pids /\ run = t /\ init' = init
    OBVIOUS
  <2> QED BY ONLY <1>5, <1>6, <2>1, <2>2, <2>3, <2>4, <2>5, <2>6, <2>7 DEF HoldsSlot
<1>11. SpinInv'
  BY DEF SpinInv
<1>12. TreeInv'
  <2>1. ASSUME NEW q \in Pids \ Bases, inUse'[q]
        PROVE  q # cur /\ inUse[q] /\ ppid'[q] = ppid[q] /\ ppid[q] # cur /\ home'[q] = home[q]
    BY ONLY <1>2, <1>5, <1>6, <2>1 DEF Children
  <2>2. ASSUME NEW q \in Pids \ Bases, inUse'[q]
        PROVE  /\ ppid'[q] \in Pids /\ inUse'[ppid'[q]]
               /\ home'[q] \in Terminals /\ init'[home'[q]]
               /\ home'[ppid'[q]] = home'[q]
    BY <2>1, <2>2 DEF TreeInv
  <2>3. ASSUME NEW q \in Pids \ Bases, inUse'[q]
        PROVE  Unrecorded(q)' \/ caller'[q] = ppid'[q]
    <3>1. Unrecorded(q) => Unrecorded(q)'
      BY DEF Unrecorded
    <3> QED BY <2>1, <2>3, <3>1 DEF TreeInv
  <2>4. ASSUME NEW q \in Pids \ Bases, NEW r \in Pids \ Bases,
               inUse'[q], inUse'[r], ppid'[q] = ppid'[r]
        PROVE  q = r
    BY <2>1, <2>4 DEF TreeInv
  <2> QED BY ONLY <2>2, <2>3, <2>4 DEF TreeInv
<1>13. BaseInv'
  <2>1. \A b \in Bases : inUse'[b] = inUse[b] /\ home'[b] = home[b]
    BY <1>5, <1>6, Constants DEF ConstantAssumptions, Bases, Terminals, Pids
  <2> QED BY <1>1, <2>1 DEF BaseInv, Booted, Initialized, Relaunching
<1>14. ForeInv'
  <2> SUFFICES ASSUME NEW u \in Terminals, init[u]
               PROVE  /\ IF Relaunching(u)' THEN ~ inUse'[apid'[u]]
                                            ELSE inUse'[apid'[u]] /\ home'[apid'[u]] = u
                      /\ \A q \in Children(apid[u])' : q = lpid'[u] /\ pc'[u] \in Created
    BY DEF ForeInv
  <2>1. ~ Relaunching(u)'
    BY DEF Relaunching
  <2>2. inUse'[apid'[u]] /\ home'[apid'[u]] = u
    BY <1>3, <1>4, <1>5
  <2>3. ASSUME NEW q \in Children(apid[u])'
        PROVE  q # cur /\ q \in Children(apid'[u])
    BY ONLY <1>5, <1>6, <2>3 DEF Children
  <2>4. u = t => Children(apid'[u]) \subseteq {cur}
    BY <1>3, <1>5 DEF Children
  <2>5. u # t => \A q \in Children(apid'[u]) : q = lpid[u] /\ pc[u] \in Created
    BY <1>4 DEF ForeInv
  <2> QED BY <2>1, <2>2, <2>3, <2>4, <2>5
<1>15. ContextInv'
  <2>1. ASSUME NEW p \in Pids, saved[p].fresh
        PROVE  /\ p # cur /\ saved[p].th # t /\ saved[p].th \in Terminals
               /\ ParkedAs(saved[p].th, p)
    BY <1>6, <2>1 DEF ContextInv, Context
  <2>2. ASSUME NEW p \in Pids, NEW v \in Terminals, saved[p].fresh, v = saved[p].th
        PROVE  ParkedAs(v, p)'
    <3>1. v # t /\ ParkedAs(v, p) /\ p # apid[t]
      BY <1>1, <2>1, <2>2
    <3>2. (\E u \in Terminals : init[u] /\ p = apid[u]) =>
             (\E u \in Terminals : init'[u] /\ p = apid'[u])
      BY <1>5, <3>1
    <3>3. pc'[v] = pc[v] /\ apid'[v] = apid[v]
      BY <1>5, <3>1
    <3> QED BY <3>1, <3>2, <3>3 DEF ParkedAs
  <2>3. ~ saved[parent].fresh
    <3> SUFFICES ASSUME saved[parent].fresh PROVE FALSE
      OBVIOUS
    <3> DEFINE v == saved[parent].th
    <3>1. v # t /\ v \in Terminals /\ ParkedAs(v, parent)
      BY <2>1
    <3>2. \A u \in Terminals : init[u] => parent # apid[u]
      BY <1>1, <1>3, <1>4
    <3>3. pc[v] \in {"activate", "announce"} => home[lpid[v]] = v
      BY <3>1 DEF LaunchInv, HoldsSlot, Launching, Created
    <3> QED BY <1>3, <3>1, <3>2, <3>3 DEF ParkedAs
  <2> QED BY <2>1, <2>2, <2>3 DEF ContextInv
<1>16. LeftInv'
  BY DEF LeftInv, InProgram, ScreenInv, Restarting, Launching, StageInv, Booted,
    Initialized, RunInv, PreSwitch
<1> QED BY <1>7, <1>8, <1>9, <1>10, <1>11, <1>12, <1>13, <1>14, <1>15, <1>16

LEMMA ExitKeeps ==
  ASSUME TypeInv, TypeInv', InStep, Patience = "patient", cpu' = "ok",
         NEW t \in Terminals, Exit(t)
  PROVE  InStep'
<1> USE DEF At, Goto, tree, mmu, ctx, leave, Exit, Leaves, OnScreen, TypeInv,
    TypeOK, InStep
<1>1. ScreenInv'
  BY DEF ScreenInv, Restarting, Launching, StageInv, Booted, Initialized, RunInv,
    InProgram, PreSwitch
<1>2. StageInv'
  BY DEF StageInv, Booted, Initialized, ScreenInv, Restarting, Launching, RunInv,
    InProgram, PreSwitch
<1>3. RunInv'
  BY DEF RunInv, Booted, Initialized, InProgram, PreSwitch
<1>4. LaunchInv'
  BY DEF LaunchInv, HoldsSlot, Children, Launching, Created, PreSwitch
<1>5. SpinInv'
  BY DEF SpinInv
<1>6. TreeInv'
  BY DEF TreeInv, Unrecorded
<1>7. BaseInv'
  BY DEF BaseInv, Booted, Initialized, Relaunching, Created
<1>8. ForeInv'
  BY DEF ForeInv, Relaunching, Children, Created
<1>9. ContextInv'
  BY DEF ContextInv, ParkedAs, PreSwitch
<1>10. LeftInv'
  BY DEF LeftInv, InProgram
<1> QED BY <1>1, <1>2, <1>3, <1>4, <1>5, <1>6, <1>7, <1>8, <1>9, <1>10

LEMMA FaultKeeps ==
  ASSUME TypeInv, TypeInv', InStep, Patience = "patient", cpu' = "ok",
         NEW t \in Terminals, Fault(t)
  PROVE  InStep'
<1> USE DEF At, Goto, tree, mmu, ctx, leave, Fault, Leaves, OnScreen, TypeInv,
    TypeOK, InStep
<1>1. ScreenInv'
  BY DEF ScreenInv, Restarting, Launching, StageInv, Booted, Initialized, RunInv,
    InProgram, PreSwitch
<1>2. StageInv'
  BY DEF StageInv, Booted, Initialized, ScreenInv, Restarting, Launching, RunInv,
    InProgram, PreSwitch
<1>3. RunInv'
  BY DEF RunInv, Booted, Initialized, InProgram, PreSwitch
<1>4. LaunchInv'
  BY DEF LaunchInv, HoldsSlot, Children, Launching, Created, PreSwitch
<1>5. SpinInv'
  BY DEF SpinInv
<1>6. TreeInv'
  BY DEF TreeInv, Unrecorded
<1>7. BaseInv'
  BY DEF BaseInv, Booted, Initialized, Relaunching, Created
<1>8. ForeInv'
  BY DEF ForeInv, Relaunching, Children, Created
<1>9. ContextInv'
  BY DEF ContextInv, ParkedAs, PreSwitch
<1>10. LeftInv'
  BY DEF LeftInv, InProgram
<1> QED BY <1>1, <1>2, <1>3, <1>4, <1>5, <1>6, <1>7, <1>8, <1>9, <1>10

LEMMA TerminalSwitchKeeps ==
  ASSUME TypeInv, TypeInv', InStep, Patience = "patient", cpu' = "ok",
         NEW t \in Terminals, TerminalSwitch(t)
  PROVE  InStep'
<1> USE DEF At, Goto, tree, mmu, ctx, leave, TerminalSwitch, UserWaits, Quiet,
    TypeInv, TypeOK, InStep
<1>1. ScreenInv'
  BY DEF ScreenInv, Restarting, Launching
<1>2. StageInv'
  BY DEF StageInv, Booted, Initialized
<1>3. RunInv'
  BY DEF RunInv, Booted, Initialized, InProgram, PreSwitch
<1>4. LaunchInv'
  BY DEF LaunchInv, HoldsSlot, Children, Launching, Created, PreSwitch
<1>5. SpinInv'
  BY DEF SpinInv
<1>6. TreeInv'
  BY DEF TreeInv, Unrecorded
<1>7. BaseInv'
  BY DEF BaseInv, Booted, Initialized, Relaunching, Created
<1>8. ForeInv'
  BY DEF ForeInv, Relaunching, Children, Created
<1>9. ContextInv'
  BY DEF ContextInv, ParkedAs, PreSwitch
<1>10. LeftInv'
  BY DEF LeftInv, InProgram
<1> QED BY <1>1, <1>2, <1>3, <1>4, <1>5, <1>6, <1>7, <1>8, <1>9, <1>10

\* The interrupted thread is left in its process.
LEMMA FirstSwitchKeeps ==
  ASSUME TypeInv, TypeInv', InStep, Patience = "patient", cpu' = "ok",
         NEW t \in Terminals, FirstSwitch(t)
  PROVE  InStep'
<1> USE DEF At, Goto, tree, mmu, ctx, leave, FirstSwitch, UserWaitsLonger, Quiet,
    TypeInv, TypeOK, InStep
<1>1. pc[run] \in InProgram /\ init[run] /\ run # t
  BY DEF RunInv, StageInv, Pc, Launching, InProgram, PreSwitch
<1>2. sched = run /\ cur = apid[run] /\ cur \in Pids /\ cur # NoPid
  BY <1>1, Constants DEF ConstantAssumptions, RunInv, Pids, NoPid
<1>3. ScreenInv'
  BY DEF ScreenInv, Restarting, Launching
<1>4. StageInv'
  BY DEF StageInv, Booted, Initialized, ScreenInv, Restarting, Launching, RunInv,
    InProgram, PreSwitch
<1>5. RunInv'
  BY <1>1, <1>2 DEF RunInv, Booted, Initialized, InProgram, PreSwitch
<1>6. LaunchInv'
  BY DEF LaunchInv, HoldsSlot, Children, Launching, Created, PreSwitch
<1>7. SpinInv'
  BY DEF SpinInv
<1>8. TreeInv'
  BY DEF TreeInv, Unrecorded, ScreenInv, Restarting, Launching, StageInv, Booted,
    Initialized, RunInv, InProgram, PreSwitch
<1>9. BaseInv'
  BY DEF BaseInv, Booted, Initialized, Relaunching, Created, ScreenInv, Restarting,
    Launching, StageInv, RunInv, InProgram, PreSwitch
<1>10. ForeInv'
  BY DEF ForeInv, Relaunching, Children, Created, ScreenInv, Restarting, Launching,
    StageInv, Booted, Initialized, RunInv, InProgram, PreSwitch
<1>11. ContextInv'
  BY DEF ContextInv, ParkedAs, PreSwitch, ScreenInv, Restarting, Launching,
    StageInv, Booted, Initialized, RunInv, InProgram
<1>12. LeftInv'
  BY <1>1, <1>2 DEF LeftInv, ContextInv, InProgram
<1> QED BY <1>3, <1>4, <1>5, <1>6, <1>7, <1>8, <1>9, <1>10, <1>11, <1>12

\* The context the timer finds belongs to the next terminal, or to the first
\* launch that runs on top of it.
LEMMA TickKeeps ==
  ASSUME TypeInv, TypeInv', InStep, Patience = "patient", cpu' = "ok",
         Tick
  PROVE  InStep'
<1> USE DEF At, Goto, tree, mmu, ctx, leave, Tick, SwitchTo, Parked, Interruptible,
    TypeInv, TypeOK, InStep
<1> DEFINE n == NextTerminal
<1> DEFINE p == apid[n]
<1>1. /\ Interruptible /\ Initialized # {} /\ cur # NoPid
      /\ n \in Terminals /\ init[n] /\ p \in Pids /\ p # NoPid
      /\ Parked \in [Pids -> Context]
  BY NextProcessTyped, NextTerminalType DEF Initialized
<1>2. \A u \in Terminals : init[u] => inUse[apid[u]] /\ home[apid[u]] = u
  BY <1>1 DEF ForeInv, Relaunching
<1>3. /\ sched' = n /\ cur' = p
      /\ UNCHANGED <<active, init, apid, inUse, ppid, caller, home, pc, lpid>>
  OBVIOUS
<1>4. ASSUME NEW q \in Pids
      PROVE  /\ Parked[q].fresh => ParkedAs(Parked[q].th, q)
             /\ q # cur => Parked[q] = saved[q]
             /\ q = cur => Parked[q] = [th |-> run, fresh |-> TRUE]
  <2>1. ParkedAs(run, cur)
    BY <1>1 DEF RunInv, StageInv, ParkedAs, Booted, Initialized, Pc, Launching, InProgram, PreSwitch
  <2>2. /\ q # cur => Parked[q] = saved[q]
        /\ q = cur => Parked[q] = [th |-> run, fresh |-> TRUE]
    BY DEF Parked
  <2> QED BY <2>1, <2>2 DEF ContextInv

<1>5. ASSUME NEW q \in Pids, NEW r \in Pids, Parked[q].fresh, Parked[r].fresh,
             Parked[q].th = Parked[r].th
      PROVE  q = r
  BY <1>4, <1>5 DEF ContextInv
<1> DEFINE v == Parked[p].th
<1>6. /\ Parked[p].fresh /\ run' = v /\ v \in Terminals
      /\ saved' = [Parked EXCEPT ![p].fresh = FALSE]
  BY <1>1
<1>7. \/ v = n /\ pc[n] # "activate"
      \/ ~ init[v] /\ pc[v] \in PreSwitch
      \/ v = n /\ pc[n] = "activate" /\ lpid[n] = p
  <2>1. ParkedAs(v, p)
    BY <1>1, <1>4, <1>6
  <2>2. pc[v] \in {"activate", "announce"} => home[lpid[v]] = v
    BY <1>6 DEF LaunchInv, HoldsSlot, Launching, Created
  <2>3. init[n] => pc[n] # "announce"
    BY <1>1 DEF StageInv
  <2> QED BY <1>1, <1>2, <1>6, <2>1, <2>2, <2>3 DEF ParkedAs
<1>8. \A q \in Pids : saved'[q].fresh => q # p /\ Parked[q].fresh /\ saved'[q].th = Parked[q].th
  BY <1>1, <1>6 DEF Context
<1> HIDE DEF n, p, v
<1>9. ScreenInv'
  BY DEF ScreenInv, Restarting, Launching
<1>10. StageInv'
  BY DEF StageInv, Booted, Initialized
<1>11. RunInv'
  <2>1. pc[n] # "announce" /\ pc[n] # "off"
    BY <1>1 DEF StageInv
  <2> HIDE DEF Tick, SwitchTo, Parked, Interruptible, TypeInv, TypeOK, InStep, At, Goto
  <2> QED BY <1>1, <1>3, <1>6, <1>7, <2>1 DEF RunInv, Booted, Initialized,
        InProgram, PreSwitch, p
<1>12. LaunchInv'
  BY <1>1, <1>3 DEF LaunchInv, HoldsSlot, Children, Launching, Created, PreSwitch
<1>13. SpinInv'
  BY DEF SpinInv
<1>14. TreeInv'
  BY DEF TreeInv, Unrecorded
<1>15. BaseInv'
  BY DEF BaseInv, Booted, Initialized, Relaunching, Created
<1>16. ForeInv'
  BY <1>1, <1>3 DEF ForeInv, Relaunching, Children
<1>17. ContextInv'
  <2>1. ~ saved'[cur'].fresh
    BY <1>1, <1>3, <1>8
  <2>2. ASSUME NEW q \in Pids, NEW w, saved'[q].fresh, w = saved'[q].th
        PROVE  w # run' /\ ParkedAs(w, q)'
    <3>1. q # p /\ Parked[q].fresh /\ w = Parked[q].th
      BY <1>8, <2>2
    <3>2. w # v
      BY <1>1, <1>5, <1>6, <3>1 DEF v
    <3>3. ParkedAs(w, q)
      BY <1>4, <3>1
    <3>4. ParkedAs(w, q)'
      BY <1>3, <3>3 DEF ParkedAs
    <3> QED BY <1>6, <3>2, <3>4
  <2>3. ASSUME NEW q \in Pids, NEW r \in Pids, saved'[q].fresh, saved'[r].fresh,
               saved'[q].th = saved'[r].th
        PROVE  q = r
    BY ONLY <1>5, <1>8, <2>3
  <2> QED BY <2>1, <2>2, <2>3 DEF ContextInv
<1>18. LeftInv'
  <2> SUFFICES ASSUME NEW q \in Pids, left[q] # NoTerm
               PROVE  left[q] # run' /\ (saved'[q].fresh => saved'[q].th # left[q])
    BY <1>3 DEF LeftInv
  <2>1. /\ left[q] # run /\ init[left[q]] /\ apid[left[q]] = q /\ pc[left[q]] \in InProgram
        /\ saved[q].fresh => saved[q].th # left[q]
    BY DEF LeftInv
  <2>2. Parked[q].fresh => Parked[q].th # left[q]
    BY <1>4, <2>1
  <2>3. left[q] # v
    BY <1>6, <1>7, <2>1, <2>2 DEF v, p
  <2> QED BY <1>6, <1>8, <2>2, <2>3
<1> QED BY <1>9, <1>10, <1>11, <1>12, <1>13, <1>14, <1>15, <1>16, <1>17, <1>18

\* An abandoned thread is found again in its own process.
LEMMA TickStaleKeeps ==
  ASSUME TypeInv, TypeInv', InStep, Patience = "patient", cpu' = "ok",
         TickStale
  PROVE  InStep'
<1> USE DEF At, Goto, tree, mmu, ctx, leave, TickStale, SwitchTo, Parked,
    Interruptible, TypeInv, TypeOK, InStep
<1> DEFINE n == NextTerminal
<1> DEFINE p == apid[n]
<1>1. /\ Interruptible /\ Initialized # {} /\ cur # NoPid
      /\ n \in Terminals /\ init[n] /\ p \in Pids /\ p # NoPid
      /\ Parked \in [Pids -> Context]
  BY NextProcessTyped, NextTerminalType DEF Initialized
<1>2. \A u \in Terminals : init[u] => inUse[apid[u]] /\ home[apid[u]] = u
  BY <1>1 DEF ForeInv, Relaunching
<1>3. /\ sched' = n /\ cur' = p
      /\ UNCHANGED <<active, init, apid, inUse, ppid, caller, home, pc, lpid>>
  OBVIOUS
<1>4. ASSUME NEW q \in Pids
      PROVE  /\ Parked[q].fresh => ParkedAs(Parked[q].th, q)
             /\ q # cur => Parked[q] = saved[q]
             /\ q = cur => Parked[q] = [th |-> run, fresh |-> TRUE]
  <2>1. ParkedAs(run, cur)
    BY <1>1 DEF RunInv, StageInv, ParkedAs, Booted, Initialized, Pc, Launching, InProgram, PreSwitch
  <2>2. /\ q # cur => Parked[q] = saved[q]
        /\ q = cur => Parked[q] = [th |-> run, fresh |-> TRUE]
    BY DEF Parked
  <2> QED BY <2>1, <2>2 DEF ContextInv

<1> DEFINE v == left[p]
<1>5. /\ ~ Parked[p].fresh /\ saved' = Parked /\ run' = v /\ v # NoTerm
      /\ left' = [left EXCEPT ![p] = NoTerm]
  OBVIOUS
<1>6. v = n /\ v # run /\ pc[v] \in InProgram
  BY <1>1, <1>2, <1>5 DEF LeftInv
<1> HIDE DEF n, p
<1>7. ScreenInv'
  BY DEF ScreenInv, Restarting, Launching
<1>8. StageInv'
  BY DEF StageInv, Booted, Initialized
<1>9. RunInv'
  BY <1>1, <1>3, <1>5, <1>6 DEF RunInv, InProgram, PreSwitch, p
<1>10. LaunchInv'
  BY <1>1, <1>3 DEF LaunchInv, HoldsSlot, Children, Launching, Created, PreSwitch
<1>11. SpinInv'
  BY DEF SpinInv
<1>12. TreeInv'
  BY DEF TreeInv, Unrecorded
<1>13. BaseInv'
  BY DEF BaseInv, Booted, Initialized, Relaunching, Created
<1>14. ForeInv'
  <2>1. \A u \in Terminals : init[u] => ~ Relaunching(u)
    BY <1>1 DEF ForeInv, Relaunching
  <2>2. \A u \in Terminals : ~ Relaunching(u)'
    BY <1>1, <1>3 DEF Relaunching
  <2>3. \A u \in Terminals : Children(apid[u])' = Children(apid[u])
    BY <1>3 DEF Children
  <2>4. ForeInv
    OBVIOUS
  <2> HIDE DEF TickStale, SwitchTo, Parked, Interruptible, TypeInv, TypeOK, InStep
  <2> QED BY <1>2, <1>3, <2>2, <2>3, <2>4 DEF ForeInv
<1>15. ContextInv'
  <2>1. ~ saved'[cur'].fresh
    BY <1>3, <1>5
  <2>2. ASSUME NEW q \in Pids, NEW w, Parked[q].fresh, w = Parked[q].th
        PROVE  w # v /\ ParkedAs(w, q)'
    <3>1. ParkedAs(w, q)
      BY <1>4, <2>2
    <3>2. q = cur => w # v
      BY <1>4, <1>6, <2>2
    <3>3. w = v => q = p
      BY <1>1, <1>6, <3>1 DEF ParkedAs, InProgram, PreSwitch, p
    <3>4. q # p
      BY <1>5, <2>2
    <3>5. ParkedAs(w, q)'
      BY <1>3, <3>1 DEF ParkedAs
    <3> QED BY <3>3, <3>4, <3>5
  <2>3. ASSUME NEW q \in Pids, NEW r \in Pids, Parked[q].fresh, Parked[r].fresh,
               Parked[q].th = Parked[r].th
        PROVE  q = r
    BY <1>4, <2>3 DEF ContextInv
  <2> QED BY <1>5, <2>1, <2>2, <2>3 DEF ContextInv
<1>16. LeftInv'
  BY DEF LeftInv, InProgram
<1> QED BY <1>7, <1>8, <1>9, <1>10, <1>11, <1>12, <1>13, <1>14, <1>15, <1>16
-----------------------------------------------------------------------------
(* The invariant                                                           *)

LEMMA InitPatient == Init => PatientInv
<1> SUFFICES ASSUME Init PROVE InStep
  BY InitTyped DEF PatientInv
<1>1. 0 \in Terminals /\ Initialized = {} /\ NoTerm \notin Terminals
  BY Constants DEF ConstantAssumptions, Init, Terminals, Initialized, NoTerm
<1>2. ScreenInv /\ StageInv /\ RunInv
  BY <1>1 DEF Init, ScreenInv, StageInv, RunInv, Restarting, Booted, Initialized,
    Launching, InProgram, PreSwitch
<1>3. LaunchInv /\ SpinInv /\ TreeInv /\ BaseInv /\ ForeInv
  BY <1>1, Constants DEF ConstantAssumptions, Init, LaunchInv, SpinInv, TreeInv, BaseInv,
    ForeInv, Booted, Launching, Created, Bases, Terminals, Pids, Initialized
<1>4. ContextInv /\ LeftInv
  BY DEF Init, ContextInv, LeftInv
<1> QED BY <1>2, <1>3, <1>4 DEF InStep

LEMMA NextPatient ==
  ASSUME Patience = "patient"
  PROVE  PatientInv /\ [Next]_vars => PatientInv'
<1> SUFFICES ASSUME PatientInv, [Next]_vars, cpu' = "ok" PROVE InStep'
  BY NextTyped DEF PatientInv, Alive
<1>1. TypeInv /\ TypeInv'
  BY NextTyped DEF PatientInv
<1>2. CASE UNCHANGED vars
  <2>1. InStep
    BY <1>2 DEF PatientInv, Alive, vars
  <2> QED BY <1>2, <2>1 DEF vars, tree, mmu, ctx, leave, InStep, ScreenInv, StageInv,
    RunInv, LaunchInv, HoldsSlot, SpinInv, TreeInv, BaseInv, ForeInv, ContextInv, LeftInv,
    ParkedAs, Relaunching, Restarting, Unrecorded, Children, Booted, Initialized
<1>3. ASSUME NEW t \in Terminals, Kernel(t)
      PROVE  InStep'
  <2>1. InStep
    BY <1>3 DEF PatientInv, Alive, Kernel, AllocPid, NoPidLeft, MapPage, LoadImage, LoadRest, CreatePcb,
      SetStack, SwitchPcb, Activate, Announce, Spin, HaltStatus, RestartShell, ReturnToParent, At
  <2> QED BY <1>1, <1>3, <2>1, AllocPidKeeps, NoPidLeftKeeps, MapPageKeeps, LoadImageKeeps,
    CreatePcbKeeps, SetStackKeeps, SwitchPcbKeeps, ActivateKeeps, AnnounceKeeps, SpinKeeps,
    HaltStatusKeeps, RestartShellKeeps, ReturnToParentKeeps DEF Kernel
<1>4. ASSUME NEW t \in Terminals, User(t)
      PROVE  InStep'
  <2>1. ~ Astray(t)
    BY DEF Astray
  <2>2. InStep
    BY <1>4 DEF PatientInv, Alive, User, Execute, Exit, Fault, Leaves, Astray, At
  <2> QED BY <1>1, <1>4, <2>1, <2>2, ExecuteKeeps, ExitKeeps, FaultKeeps DEF User
<1>5. ASSUME NEW t \in Terminals, Switch(t)
      PROVE  InStep'
  <2>1. InStep
    BY <1>5 DEF PatientInv, Alive, Switch, TerminalSwitch, FirstSwitch
  <2> QED BY <1>1, <1>5, <2>1, TerminalSwitchKeeps, FirstSwitchKeeps DEF Switch
<1>6. ASSUME Timer
      PROVE  InStep'
  <2>1. ~ TickHangs
    BY DEF TickHangs
  <2>2. InStep
    BY <1>6 DEF PatientInv, Alive, Timer, Tick, TickStale, TickHangs, Interruptible
  <2> QED BY <1>1, <1>6, <2>1, <2>2, TickKeeps, TickStaleKeeps DEF Timer
<1> QED BY <1>2, <1>3, <1>4, <1>5, <1>6 DEF Next, Stopped

\* The inductive invariant holds: for every patient user, and wherever the timer
\* interrupts execute and halt, the kernel's records stay in step until the CPU is
\* derailed or hangs.
THEOREM PatientCorrect ==
  ASSUME Patience = "patient"
  PROVE  Spec => []PatientInv
<1>1. PatientInv /\ [Next]_vars => PatientInv'
  BY NextPatient
<1> QED BY <1>1, InitPatient, PTL DEF Spec

-----------------------------------------------------------------------------
(* What follows from it                                                    *)

\* system_calls.c:269, 290 and 93-119: every live program was started by a live
\* process of its own terminal, its parent and its caller, and is its only child.
THEOREM TreeCorrect ==
  ASSUME Patience = "patient"
  PROVE  Spec => []ProcessTree
<1>1. ASSUME PatientInv PROVE ProcessTree
  <2> SUFFICES ASSUME Alive, NEW q \in Pids \ Bases, inUse[q]
               PROVE  /\ inUse[ppid[q]]
                      /\ home[ppid[q]] = home[q]
                      /\ Unrecorded(q) \/ caller[q] = ppid[q]
                      /\ Cardinality(Children(ppid[q])) = 1
    BY DEF ProcessTree
  <2>1. TreeInv
    BY <1>1 DEF PatientInv, InStep
  <2>2. Children(ppid[q]) = {q}
    BY <2>1 DEF TreeInv, Children
  <2>3. Cardinality({q}) = 1
    BY FS_Singleton
  <2> QED BY <2>1, <2>2, <2>3 DEF TreeInv
<1> QED BY <1>1, PatientCorrect, PTL

\* system_calls.c:297 and 106: the process a terminal schedules is the newest of
\* that terminal's chain.
THEOREM ForegroundCorrect ==
  ASSUME Patience = "patient"
  PROVE  Spec => []ForegroundIsNewest
<1>1. ASSUME PatientInv PROVE ForegroundIsNewest
  <2> SUFFICES ASSUME Alive, NEW t \in Terminals, init[t]
               PROVE  /\ Relaunching(t) \/ (inUse[apid[t]] /\ home[apid[t]] = t)
                      /\ \A q \in Children(apid[t]) :
                           lpid[t] = q /\ pc[t] \in {"esp0", "switch", "activate"}
    BY DEF ForegroundIsNewest
  <2>1. ForeInv /\ StageInv
    BY <1>1 DEF PatientInv, InStep
  <2> QED BY <2>1 DEF ForeInv, StageInv, Created
<1> QED BY <1>1, PatientCorrect, PTL

\* system_calls.c:258-267: the slot of a base shell goes to the shells of its own
\* terminal for good.
THEOREM BaseSlotsCorrect ==
  ASSUME Patience = "patient"
  PROVE  Spec => []BaseSlotsKept
<1>1. ASSUME PatientInv PROVE BaseSlotsKept
  <2> SUFFICES ASSUME Alive, NEW t \in Terminals, pc[t] \in Launching \ {"alloc"}
               PROVE  lpid[t] = t \/ lpid[t] \notin Bases
    BY DEF BaseSlotsKept
  <2>1. LaunchInv /\ SpinInv
    BY <1>1 DEF PatientInv, InStep
  <2> QED BY <2>1 DEF LaunchInv, HoldsSlot, SpinInv
<1> QED BY <1>1, PatientCorrect, PTL

\* system_calls.c:75: halt frees the slot of the running process only, and that
\* process has no child left.
THEOREM ParentsCorrect ==
  ASSUME Patience = "patient"
  PROVE  Spec => ParentsStay
<1> DEFINE Stay == Alive => \A p \in Pids : inUse[p] /\ Children(p) # {} => inUse'[p]
<1>1. ASSUME PatientInv, [Next]_vars PROVE [Stay]_vars
  <2> SUFFICES ASSUME Alive, Next, NEW p \in Pids, inUse[p], Children(p) # {}
               PROVE  inUse'[p]
    BY <1>1
  <2>1. TypeInv /\ InStep
    BY <1>1 DEF PatientInv
  <2>2. ASSUME NEW t \in Terminals, RestartShell(t) \/ ReturnToParent(t)
        PROVE  inUse'[p]
    <3>1. pc[run] = "reap" /\ run \in Terminals /\ inUse' = [q \in Pids |-> inUse[q] /\ q # cur]
      BY <2>1, <2>2 DEF RestartShell, ReturnToParent, Reclaim, Freed, At, TypeInv
    <3>2. sched = run /\ cur = apid[run] /\ init[run]
      BY <2>1, <3>1 DEF InStep, RunInv, StageInv, InProgram, PreSwitch
    <3>3. Children(cur) = {}
      BY <2>1, <3>1, <3>2 DEF InStep, ForeInv, Created
    <3> QED BY <3>1, <3>3
  <2>3. ASSUME NEW t \in Terminals, CreatePcb(t)
        PROVE  inUse'[p]
    BY <2>3 DEF CreatePcb
  <2>4. ASSUME NEW t \in Terminals, Kernel(t)
        PROVE  inUse'[p]
    BY <2>2, <2>3, <2>4 DEF Kernel, AllocPid, NoPidLeft, MapPage, LoadImage, LoadRest, SetStack, SwitchPcb,
      Activate, Announce, Spin, HaltStatus, tree
  <2>5. ASSUME NEW t \in Terminals, User(t) \/ Switch(t)
        PROVE  inUse'[p]
    BY <2>5 DEF User, Switch, Execute, Exit, Fault, Leaves, Astray, TerminalSwitch, FirstSwitch, tree
  <2>6. CASE Timer
    BY <2>6 DEF Timer, Tick, TickStale, TickHangs, SwitchTo, tree
  <2>7. CASE Stopped
    BY <2>7 DEF Stopped, Alive
  <2> QED BY <2>4, <2>5, <2>6, <2>7 DEF Next
<1>2. Spec => []PatientInv
  BY PatientCorrect
<1> QED BY <1>1, <1>2, PTL DEF Spec, ParentsStay

-----------------------------------------------------------------------------
(* The context switch, for a patient user: no context is lost if the timer *)
(* spares one step of execute.                                             *)

\* As long as the kernel is alive, what PatientInv says is InStep.
LEMMA AliveInStep == PatientInv /\ Alive => TypeInv /\ InStep /\ run \in Terminals
BY DEF PatientInv, TypeInv, Alive

\* A kernel that is alive after a step was so before.
LEMMA StepAlive == Next /\ Alive' => Alive
<1>1. ASSUME NEW t \in Terminals, Kernel(t) \/ User(t) \/ Switch(t)
      PROVE  Alive
  BY <1>1 DEF Kernel, User, Switch, AllocPid, NoPidLeft, MapPage, LoadImage, LoadRest, CreatePcb, SetStack,
    SwitchPcb, Activate, Announce, Spin, HaltStatus, RestartShell, ReturnToParent, Execute, Exit,
    Fault, Leaves, Astray, TerminalSwitch, FirstSwitch, At, Alive
<1>2. Timer => Alive
  BY DEF Timer, Tick, TickStale, TickHangs, Interruptible, Alive
<1>3. Stopped => ~ Alive'
  BY DEF Stopped, vars, Alive
<1> QED BY <1>1, <1>2, <1>3 DEF Next

\* A thread in a program, or in execute of an initialised terminal up to the
\* activation, is that of the scheduled terminal's process.
LEMMA RunsOwn ==
  ASSUME PatientInv, Alive, init[run], cur # NoPid, pc[run] # "activate"
  PROVE  cur = apid[run]
<1>1. TypeInv /\ InStep /\ run \in Terminals
  BY AliveInStep
<1>2. pc[run] \in InProgram \cup PreSwitch \cup {"announce", "spin", "off"}
  BY <1>1 DEF TypeInv, TypeOK, Pc, Launching, InProgram, PreSwitch
<1>3. pc[run] \notin {"off", "announce"}
  BY <1>1 DEF InStep, StageInv
<1> QED BY <1>1, <1>2, <1>3 DEF InStep, RunInv

\* No two terminals have the same process, unless one restarts its shell.
LEMMA OwnForeground ==
  ASSUME PatientInv, Alive, NEW t \in Terminals, NEW u \in Terminals, init[t], init[u],
         apid[t] = apid[u], ~ Relaunching(t), ~ Relaunching(u)
  PROVE  t = u
<1>1. ForeInv
  BY AliveInStep DEF InStep
<1> QED BY <1>1 DEF ForeInv

\* The first switch to a terminal interrupts a thread in its program.
LEMMA SwitchInProgram ==
  ASSUME PatientInv, Alive, Patience = "patient", NEW t \in Terminals, FirstSwitch(t)
  PROVE  /\ pc[run] \in InProgram /\ init[run] /\ cur = apid[run]
         /\ \A u \in Terminals : pc[u] \notin Launching
<1>1. TypeInv /\ InStep /\ run \in Terminals
  BY AliveInStep
<1>2. \A u \in Terminals : pc[u] \notin Launching
  BY DEF FirstSwitch, UserWaitsLonger, Quiet
<1>3. pc[run] \in InProgram
  BY <1>1, <1>2 DEF TypeInv, TypeOK, Pc, InStep, RunInv, InProgram
<1>4. init[run]
  BY <1>1, <1>3 DEF InStep, StageInv, InProgram, PreSwitch
<1> QED BY <1>1, <1>2, <1>3, <1>4 DEF InStep, RunInv

-----------------------------------------------------------------------------
(* Contexts                                                                *)

Spared == "activate" \notin Preemptible

\* The timer parks the running thread in its terminal's process, and parks over
\* nothing that is still needed.
LEMMA ParkedResumes ==
  ASSUME PatientInv, Alive, ResumeInv, Spared, Interruptible,
         NEW t \in Terminals, init[t], left[apid[t]] # t
  PROVE  Parked[apid[t]] = [th |-> t, fresh |-> TRUE]
<1>1. TypeInv /\ InStep /\ run \in Terminals /\ cur \in Pids
  BY AliveInStep DEF Interruptible, TypeInv, TypeOK
<1>2. saved \in [Pids -> Context] /\ apid[t] \in Pids
  BY <1>1 DEF TypeInv, TypeOK
<1>3. CASE t = run
  <2>1. cur = apid[run]
    BY <1>3, RunsOwn DEF Spared, Interruptible
  <2> QED BY <1>1, <1>2, <1>3, <2>1 DEF Parked
<1>4. CASE t # run
  <2>1. saved[apid[t]] = [th |-> t, fresh |-> TRUE]
    BY <1>4 DEF ResumeInv
  <2>2. apid[t] # cur
    BY <1>1, <2>1 DEF InStep, ContextInv, Interruptible
  <2> QED BY <1>2, <2>1, <2>2 DEF Parked
<1> QED BY <1>3, <1>4

LEMMA TickResumes ==
  ASSUME PatientInv, Alive, ResumeInv, Spared, Tick
  PROVE  ResumeInv'
<1> DEFINE p == apid[NextTerminal]
<1>1. /\ Interruptible
      /\ saved' = [Parked EXCEPT ![p].fresh = FALSE]
      /\ run' = Parked[p].th /\ left' = left /\ apid' = apid /\ init' = init
  BY DEF Tick, SwitchTo
<1>2. Parked \in [Pids -> Context] /\ apid \in [Terminals -> Pids]
  BY <1>1, AliveInStep DEF Parked, TypeInv, TypeOK, Interruptible, Context
<1> SUFFICES ASSUME NEW t \in Terminals, t # run', init[t], left[apid[t]] # t
             PROVE  saved'[apid[t]] = [th |-> t, fresh |-> TRUE]
  BY <1>1 DEF ResumeInv
<1>3. Parked[apid[t]] = [th |-> t, fresh |-> TRUE]
  BY <1>1, ParkedResumes
<1>4. apid[t] # p
  BY <1>1, <1>3
<1> HIDE DEF p
<1> QED BY <1>1, <1>2, <1>3, <1>4

LEMMA TickStaleResumes ==
  ASSUME PatientInv, Alive, ResumeInv, Spared, TickStale, cpu' = "ok"
  PROVE  ResumeInv'
<1> DEFINE p == apid[NextTerminal]
<1>1. /\ Interruptible
      /\ saved' = Parked
      /\ run' = left[p] /\ left' = [left EXCEPT ![p] = NoTerm] /\ apid' = apid /\ init' = init
  BY DEF TickStale, SwitchTo
<1>2. left \in [Pids -> Terminals \cup {NoTerm}]
  BY AliveInStep DEF TypeInv, TypeOK
<1> SUFFICES ASSUME NEW t \in Terminals, t # run', init[t]
             PROVE  \/ saved'[apid[t]] = [th |-> t, fresh |-> TRUE]
                    \/ left'[apid[t]] = t
  BY <1>1 DEF ResumeInv
<1>3. CASE left[apid[t]] = t
  <2>1. apid[t] # p
    BY <1>1, <1>3
  <2> HIDE DEF p
  <2> QED BY <1>1, <1>3, <2>1
<1>4. CASE left[apid[t]] # t
  BY <1>1, <1>4, ParkedResumes
<1> QED BY <1>3, <1>4

LEMMA FirstSwitchResumes ==
  ASSUME PatientInv, Alive, Patience = "patient", ResumeInv, NEW u \in Terminals, FirstSwitch(u)
  PROVE  ResumeInv'
<1>1. /\ pc[run] \in InProgram /\ init[run] /\ cur = apid[run] /\ run \in Terminals
      /\ \A t \in Terminals : pc[t] \notin Launching
  BY SwitchInProgram, AliveInStep
<1>2. apid \in [Terminals -> Pids] /\ left \in [Pids -> Terminals \cup {NoTerm}]
  BY AliveInStep DEF TypeInv, TypeOK
<1>3. left' = [left EXCEPT ![cur] = run]
  BY <1>1, <1>2, Constants DEF FirstSwitch, ConstantAssumptions, Pids, NoPid
<1>4. saved' = saved /\ apid' = apid /\ init' = init
  BY DEF FirstSwitch
<1> SUFFICES ASSUME NEW t \in Terminals, init[t]
             PROVE  \/ saved[apid[t]] = [th |-> t, fresh |-> TRUE]
                    \/ left'[apid[t]] = t
  BY <1>4 DEF ResumeInv
<1>5. CASE t = run
  BY <1>1, <1>2, <1>3, <1>5
<1>6. CASE t # run
  <2>1. ~ Relaunching(t) /\ ~ Relaunching(run)
    BY <1>1 DEF Relaunching, Launching
  <2>2. apid[t] # cur
    BY <1>1, <1>6, <2>1, OwnForeground
  <2> QED BY <1>2, <1>3, <1>6, <2>2 DEF ResumeInv
<1> QED BY <1>5, <1>6

\* The steps of a thread change the process of its own terminal only.
LEMMA KernelResumes ==
  ASSUME PatientInv, Alive, ResumeInv, NEW t \in Terminals, Kernel(t)
  PROVE  ResumeInv'
<1>1. TypeInv /\ InStep /\ run \in Terminals
  BY AliveInStep
<1> USE <1>1 DEF TypeInv, TypeOK, At, Goto, ResumeInv, tree, mmu, ctx, leave
<1>2. CASE \/ AllocPid(t) \/ NoPidLeft(t) \/ MapPage(t) \/ LoadImage(t) \/ LoadRest(t)
           \/ CreatePcb(t) \/ SetStack(t) \/ SwitchPcb(t) \/ Spin(t) \/ HaltStatus(t) \/ RestartShell(t)
  BY <1>2 DEF AllocPid, NoPidLeft, MapPage, LoadImage, LoadRest, CreatePcb, SetStack, SwitchPcb, Spin,
     HaltStatus, RestartShell
<1>3. CASE Activate(t) \/ Announce(t)
  <2>1. active = run
    BY <1>3 DEF Activate, Announce, InStep, ScreenInv, Launching
  <2> QED BY <1>3, <2>1 DEF Activate, Announce
<1>4. CASE ReturnToParent(t)
  <2>1. sched = run
    BY <1>4 DEF ReturnToParent, InStep, RunInv, InProgram
  <2> QED BY <1>4, <2>1 DEF ReturnToParent, HandedBack
<1> QED BY <1>2, <1>3, <1>4 DEF Kernel

LEMMA NextResumes ==
  ASSUME Patience = "patient", Spared
  PROVE  PatientInv /\ (Alive => ResumeInv) /\ [Next]_vars => (Alive => ResumeInv)'
<1> SUFFICES ASSUME PatientInv, Alive => ResumeInv, [Next]_vars, Alive'
             PROVE  ResumeInv'
  OBVIOUS
<1>1. CASE UNCHANGED vars
  BY <1>1 DEF vars, ctx, ResumeInv, Alive
<1>2. CASE Next
  <2>1. Alive /\ ResumeInv
    BY <1>2, StepAlive
  <2>2. ASSUME NEW t \in Terminals, User(t) \/ TerminalSwitch(t)
        PROVE  ResumeInv'
    BY <2>1, <2>2 DEF User, Execute, Exit, Fault, Leaves, Astray, TerminalSwitch, ctx, ResumeInv
  <2>3. CASE Timer
    BY <2>1, <2>3, TickResumes, TickStaleResumes DEF Timer, TickHangs, Alive
  <2>4. CASE Stopped
    BY <2>1, <2>4 DEF Stopped, Alive
  <2> QED BY <1>2, <2>1, <2>2, <2>3, <2>4, KernelResumes, FirstSwitchResumes DEF Next, Switch
<1> QED BY <1>1, <1>2

\* scheduler.c:84-137: if the timer does not interrupt execute between current_pcb and
\* active_pid (system_calls.c:294, 297), a terminal that waits for its turn can always be
\* resumed where its thread was last interrupted, unless a first terminal switch abandoned it.
THEOREM ContextsCorrect ==
  ASSUME Patience = "patient", Spared
  PROVE  Spec => []ContextsSurvive
<1>1. Init => ResumeInv
  BY DEF Init, ResumeInv
<1>2. PatientInv /\ (Alive => ResumeInv) => ContextsSurvive
  <2> SUFFICES ASSUME PatientInv, Alive, ResumeInv, NEW t \in Terminals, init[t], t # sched, t = run
               PROVE  pc[t] = "spin"
    BY DEF ContextsSurvive, ResumeInv
  <2>1. TypeInv /\ InStep
    BY AliveInStep
  <2>2. pc[t] \in InProgram \cup PreSwitch \cup {"activate", "announce", "spin", "off"}
    BY <2>1 DEF TypeInv, TypeOK, Pc, Launching, InProgram, PreSwitch
  <2> QED BY <2>1, <2>2 DEF InStep, RunInv, StageInv
<1>3. Spec => []PatientInv
  BY PatientCorrect
<1>4. PatientInv /\ (Alive => ResumeInv) /\ [Next]_vars => (Alive => ResumeInv)'
  BY NextResumes
<1> QED BY <1>1, <1>2, <1>3, <1>4, PTL DEF Spec
=============================================================================
