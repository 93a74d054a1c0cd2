--------------------------- MODULE Devices_proofs ---------------------------
(***************************************************************************)
(* What Devices promises, for any number of terminals and any depth of     *)
(* nested handlers: the interrupt controller and the clock never wait for  *)
(* what nobody owes them, and a read of the clock waits for a tick.        *)
(***************************************************************************)
EXTENDS Devices, SequenceTheorems, TLAPS

-----------------------------------------------------------------------------
(* The stacks of handlers                                                  *)

\* Some thread has handler frame f on its stack.
Has(fr, f) == \E t \in Terminals : \E i \in 1 .. Len(fr[t]) : fr[t][i] = f

Top(t) == frames[t][Len(frames[t])]
Stacks == frames \in [Terminals -> Seq(Frame)]

LEMMA PendingHas ==
  ASSUME Stacks, NEW h \in DOMAIN Served, NEW S \in SUBSET {"entry", "owes"}
  PROVE  Pending(h, S) <=> \E f \in Frame : Has(frames, f) /\ f.handler = h /\ f.at \in S
<1>1. \A t \in Terminals : \A i \in 1 .. Len(frames[t]) : frames[t][i] \in Frame
  BY ElementOfSeq DEF Stacks
<1> QED BY <1>1 DEF Pending, Has

LEMMA PendingNext ==
  ASSUME Stacks', NEW h \in DOMAIN Served, NEW S \in SUBSET {"entry", "owes"}
  PROVE  Pending(h, S)' <=> \E f \in Frame : Has(frames', f) /\ f.handler = h /\ f.at \in S
<1>1. \A t \in Terminals : \A i \in 1 .. Len(frames'[t]) : frames'[t][i] \in Frame
  BY ElementOfSeq DEF Stacks
<1> QED BY <1>1 DEF Pending, Has

LEMMA Pushed ==
  ASSUME Stacks, NEW u \in Terminals, NEW g \in Frame,
         frames' = [frames EXCEPT ![u] = Append(@, g)]
  PROVE  /\ Stacks'
         /\ \A f \in Frame : Has(frames, f) => Has(frames', f)
         /\ Has(frames', g)
<1> DEFINE s == frames[u]
           r == Append(s, g)
<1>1. s \in Seq(Frame)
  BY DEF Stacks
<1>2. /\ r \in Seq(Frame) /\ Len(r) = Len(s) + 1 /\ Len(s) \in Nat
      /\ \A i \in 1 .. Len(s) : r[i] = s[i]
      /\ r[Len(s) + 1] = g
  BY <1>1, AppendProperties, LenProperties
<1>3. frames'[u] = r /\ \A t \in Terminals \ {u} : frames'[t] = frames[t]
  BY DEF Stacks
<1>4. Stacks'
  BY <1>2 DEF Stacks
<1> HIDE DEF r
<1>5. Has(frames', g)
  BY <1>2, <1>3 DEF Has
<1>6. ASSUME NEW f \in Frame, Has(frames, f) PROVE Has(frames', f)
  <2>1. PICK t \in Terminals : \E i \in 1 .. Len(frames[t]) : frames[t][i] = f
    BY <1>6 DEF Has
  <2>2. PICK i \in 1 .. Len(frames[t]) : frames[t][i] = f
    BY <2>1
  <2>3. CASE t = u
    <3>1. i \in 1 .. Len(r) /\ r[i] = f
      BY <1>2, <2>2, <2>3
    <3> QED BY <1>3, <2>3, <3>1 DEF Has
  <2>4. CASE t # u
    BY <1>3, <2>2, <2>4 DEF Has
  <2> QED BY <2>3, <2>4
<1> QED BY <1>4, <1>5, <1>6

LEMMA Popped ==
  ASSUME Stacks, NEW u \in Terminals, frames[u] # <<>>, Return(u)
  PROVE  /\ Stacks'
         /\ \A f \in Frame : f # Top(u) /\ Has(frames, f) => Has(frames', f)
<1> DEFINE s == frames[u]
           n == Len(s) - 1
           r == SubSeq(s, 1, n)
<1>1. s \in Seq(Frame) /\ n \in Nat
  BY EmptySeq, LenProperties DEF Stacks
<1>2. \A i \in 1 .. n : s[i] \in Frame
  BY <1>1, ElementOfSeq
<1>3. /\ r \in Seq(Frame) /\ Len(r) = n
      /\ \A i \in 1 .. n : r[i] = s[i]
  <2>1. /\ r \in Seq(Frame)
        /\ Len(r) = IF 1 <= n THEN n - 1 + 1 ELSE 0
        /\ \A i \in 1 .. n - 1 + 1 : r[i] = s[1 + i - 1]
    <3> HIDE DEF n
    <3> QED BY <1>1, <1>2, SubSeqProperties
  <2> QED BY <1>1, <2>1
<1>4. frames'[u] = r /\ \A t \in Terminals \ {u} : frames'[t] = frames[t]
  BY DEF Stacks, Return
<1>5. Stacks'
  BY <1>3 DEF Stacks, Return
<1> HIDE DEF r
<1>6. ASSUME NEW f \in Frame, f # Top(u), Has(frames, f) PROVE Has(frames', f)
  <2>1. PICK t \in Terminals : \E i \in 1 .. Len(frames[t]) : frames[t][i] = f
    BY <1>6 DEF Has
  <2>2. PICK i \in 1 .. Len(frames[t]) : frames[t][i] = f
    BY <2>1
  <2>3. CASE t = u
    <3>1. i # Len(s)
      BY <1>6, <2>2, <2>3 DEF Top
    <3>2. i \in 1 .. Len(r) /\ r[i] = f
      BY <1>1, <1>3, <2>2, <2>3, <3>1
    <3> QED BY <1>4, <2>3, <3>2 DEF Has
  <2>4. CASE t # u
    BY <1>4, <2>2, <2>4 DEF Has
  <2> QED BY <2>3, <2>4
<1> QED BY <1>5, <1>6

LEMMA Owed ==
  ASSUME Stacks, NEW u \in Terminals, frames[u] # <<>>, Owes(u)
  PROVE  /\ Stacks'
         /\ \A f \in Frame : f # Top(u) /\ Has(frames, f) => Has(frames', f)
         /\ Has(frames', [handler |-> Top(u).handler, at |-> "owes"])
<1> DEFINE s == frames[u]
           n == Len(s)
           r == [s EXCEPT ![n].at = "owes"]
<1>1. s \in Seq(Frame) /\ n \in Nat \ {0}
  BY EmptySeq, LenProperties DEF Stacks
<1>2. \A i \in 1 .. n : s[i] \in Frame
  BY <1>1, ElementOfSeq
<1>3. s \in [1 .. n -> Frame]
  BY <1>1, <1>2, LenProperties
<1>4. /\ r \in [1 .. n -> Frame]
      /\ r[n] = [handler |-> s[n].handler, at |-> "owes"]
      /\ \A i \in 1 .. n : i # n => r[i] = s[i]
  <2> HIDE DEF n, s
  <2> QED BY <1>1, <1>3 DEF Frame
<1>5. r \in Seq(Frame) /\ Len(r) = n
  BY <1>1, <1>4
<1>6. frames'[u] = r /\ \A t \in Terminals \ {u} : frames'[t] = frames[t]
  BY DEF Stacks, Owes
<1>7. Stacks'
  BY <1>5 DEF Stacks, Owes
<1> HIDE DEF r
<1>8. Has(frames', [handler |-> Top(u).handler, at |-> "owes"])
  BY <1>1, <1>4, <1>5, <1>6 DEF Has, Top
<1>9. ASSUME NEW f \in Frame, f # Top(u), Has(frames, f) PROVE Has(frames', f)
  <2>1. PICK t \in Terminals : \E i \in 1 .. Len(frames[t]) : frames[t][i] = f
    BY <1>9 DEF Has
  <2>2. PICK i \in 1 .. Len(frames[t]) : frames[t][i] = f
    BY <2>1
  <2>3. CASE t = u
    <3>1. i # n
      BY <1>9, <2>2, <2>3 DEF Top
    <3>2. i \in 1 .. Len(r) /\ r[i] = f
      BY <1>4, <1>5, <2>2, <2>3, <3>1
    <3> QED BY <1>6, <2>3, <3>2 DEF Has
  <2>4. CASE t # u
    BY <1>6, <2>2, <2>4 DEF Has
  <2> QED BY <2>3, <2>4
<1> QED BY <1>7, <1>8, <1>9

-----------------------------------------------------------------------------
(* Lines and handlers                                                      *)

LEMMA Handled ==
  /\ DOMAIN Served = {"keyboard_handler", "rtc_handler"}
  /\ Served["keyboard_handler"] = KEYBOARD_IRQ
  /\ Served["rtc_handler"] = RTC_IRQ
BY DEF Served

LEMMA Interrupted ==
  /\ IDT[Vector(KEYBOARD_IRQ)] = "keyboard_handler"
  /\ IDT[Vector(RTC_IRQ)] = "rtc_handler"
BY DEF IDT, Vector, KEYBOARD_IRQ, RTC_IRQ, PORT_COUNT, ICW2_MASTER, ICW2_SLAVE, Exceptions

LEMMA Masters ==
  Master(KEYBOARD_IRQ) = KEYBOARD_IRQ /\ Master(RTC_IRQ) = SLAVE_PORT
BY DEF Master, KEYBOARD_IRQ, RTC_IRQ, SLAVE_PORT, PORT_COUNT

LEMMA TopOf ==
  ASSUME NEW t \in Terminals, NEW h \in DOMAIN Served, NEW step \in {"entry", "owes"},
         In(t, h, step)
  PROVE  frames[t] # <<>> /\ Top(t) = [handler |-> h, at |-> step]
BY DEF In, Top

-----------------------------------------------------------------------------
(* Types                                                                   *)

\* A frequency on its way to the clock is one that it knows.
AskedInv ==
  \A t \in Terminals : op[t] \in {"select", "get", "again", "put"} => asked[t] \in Hertz

Typed == TypeOK /\ AskedInv

LEMMA InitTyped == Init => Typed
<1> SUFFICES ASSUME Init PROVE Typed
  OBVIOUS
<1>1. 0 \in Terminals
  BY TerminalsAssumption DEF Terminals
<1>2. \A t \in Terminals : <<>> \in Seq(Frame)
  BY EmptySeq
<1> QED BY <1>1, <1>2, HertzAssumption DEF Init, Typed, TypeOK, AskedInv, Ops, Booting, Lines

LEMMA BootTyped ==
  ASSUME Typed, Boot
  PROVE  Typed'
<1> USE HertzAssumption DEF Typed, TypeOK, AskedInv, Ops, Booting, Goto, At, rtc_init,
                            pic, chip, thread
<1>0. 0 \in Terminals
  BY TerminalsAssumption DEF Terminals
<1>1. CASE InitDevices
  BY <1>0, <1>1 DEF enable_irq, InitDevices
<1>2. CASE InitPit
  BY <1>0, <1>2 DEF enable_irq, InitPit
<1>3. CASE InitPaging
  BY <1>0, <1>3 DEF InitPaging
<1>4. CASE LaunchShell
  BY <1>0, <1>4 DEF LaunchShell
<1> QED BY <1>1, <1>2, <1>3, <1>4 DEF Boot

LEMMA HandlersTyped ==
  ASSUME Typed, NEW t \in Terminals, Handlers(t)
  PROVE  Typed'
<1> USE DEF Typed, TypeOK, AskedInv
<1>0. Stacks
  BY DEF Stacks
<1>1. CASE HandleClock(t)
  <2>1. Stacks'
    BY <1>0, <1>1, Owed DEF HandleClock, In
  <2> QED BY <1>1, <2>1 DEF HandleClock, Raised, Stacks, thread, pic
<1>2. CASE HandleKey(t)
  <2>1. Stacks'
    BY <1>0, <1>2, Owed DEF HandleKey, In
  <2> QED BY <1>2, <2>1 DEF HandleKey, Stacks, thread, pic, chip
<1>3. ASSUME NEW h \in DOMAIN Served, SendEoi(t, h)
      PROVE  Typed'
  <2>1. Stacks'
    BY <1>0, <1>3, Popped DEF SendEoi, In
  <2> QED BY <1>3, <2>1 DEF SendEoi, send_eoi, Stacks, thread, chip
<1>4. ASSUME NEW u \in Terminals, FirstSwitch(t, u)
      PROVE  Typed'
  <2>1. Stacks'
    BY <1>0, <1>4, Popped DEF FirstSwitch, In
  <2> QED BY <1>4, <2>1 DEF FirstSwitch, FirstEoi, send_eoi, Stacks, chip, Ops
<1> QED BY <1>1, <1>2, <1>3, <1>4 DEF Handlers

LEMMA FileTyped ==
  ASSUME Typed, NEW t \in Terminals,
         Open(t) \/ Read(t) \/ ReadReturns(t) \/ Write(t)
  PROVE  Typed'
<1> USE HertzAssumption DEF Typed, TypeOK, AskedInv, Goto, At, Ops, Writing, pic, chip, thread
<1>1. CASE Open(t)
  BY <1>1 DEF enable_irq, Open, rtc_init
<1>2. CASE Read(t)
  BY <1>2 DEF Read, Cleared
<1>3. CASE ReadReturns(t)
  BY <1>3 DEF ReadReturns
<1>4. CASE Write(t)
  BY <1>4 DEF Write, Accepted
<1> QED BY <1>1, <1>2, <1>3, <1>4

LEMMA WriteTyped ==
  ASSUME Typed, NEW t \in Terminals, WriteSteps(t)
  PROVE  Typed'
<1> USE HertzAssumption DEF Typed, TypeOK, AskedInv, Goto, At, Ops, Writing, pic, chip, thread
<1>1. CASE \/ Select(t, "select", "A", "get") \/ Select(t, "again", "A", "put")
           \/ Select(t, "selectc", "C", "getc")
  BY <1>1 DEF Select
<1>2. CASE ReadPrevious(t)
  BY <1>2 DEF ReadPrevious
<1>3. CASE PutRate(t)
  BY <1>3 DEF PutRate, NewA
<1>4. CASE ReadC(t)
  BY <1>4 DEF ReadC
<1>5. CASE WriteReturns(t)
  BY <1>5 DEF WriteReturns, send_eoi
<1> QED BY <1>1, <1>2, <1>3, <1>4, <1>5 DEF WriteSteps

LEMMA NextTyped == Typed /\ [Next]_vars => Typed'
<1> SUFFICES ASSUME Typed, [Next]_vars PROVE Typed'
  OBVIOUS
<1>1. CASE Press \/ ClockTicks
  BY <1>1 DEF Press, ClockTicks, Typed, TypeOK, AskedInv, chip, thread
<1>2. ASSUME NEW l \in Lines, Interrupt(l)
      PROVE  Typed'
  <2>1. l \in {KEYBOARD_IRQ, RTC_IRQ} /\ Master(l) \in Lines
    BY <1>2, Masters DEF Interrupt, Lines
  <2>2. [handler |-> IDT[Vector(l)], at |-> "entry"] \in Frame
    BY <2>1, Handled, Interrupted DEF Frame
  <2>3. Stacks' /\ run \in Terminals
    BY <1>2, <2>2, Pushed DEF Interrupt, Typed, TypeOK, Stacks
  <2> QED BY <1>2, <2>1, <2>3 DEF Interrupt, Typed, TypeOK, AskedInv, Stacks, chip, thread
<1>3. ASSUME NEW u \in Terminals, Pit(u)
      PROVE  Typed'
  BY <1>3 DEF Pit, Typed, TypeOK, AskedInv, pic, chip, thread
<1>4. CASE Stopped \/ UNCHANGED vars
  BY <1>4 DEF Stopped, vars, Typed, TypeOK, AskedInv, pic, chip, thread
<1> QED BY <1>1, <1>2, <1>3, <1>4, BootTyped, HandlersTyped, FileTyped, WriteTyped DEF Next

\* Devices: no line, register, frequency or handler outside what the code defines is
\* ever used, and no frequency that set_rtc_frequency refuses reaches the clock.
THEOREM TypeCorrect == Spec => []TypeOK
<1>1. Spec => []Typed
  BY InitTyped, NextTyped, PTL DEF Spec
<1> QED BY <1>1, PTL DEF Typed

-----------------------------------------------------------------------------
(* What is owed                                                            *)

\* A step in terms of the frames: those in G may go.
Keeps(G) == \A f \in Frame \ G : Has(frames, f) => Has(frames', f)

LEMMA HandlersKeep ==
  ASSUME TypeOK, NEW t \in Terminals, NEW h \in DOMAIN Served, NEW step \in {"entry", "owes"},
         In(t, h, step), Owes(t) \/ Return(t)
  PROVE  /\ Stacks /\ Stacks'
         /\ Keeps({[handler |-> h, at |-> step]})
         /\ Owes(t) => Has(frames', [handler |-> h, at |-> "owes"])
<1>1. Stacks
  BY DEF TypeOK, Stacks
<1>2. frames[t] # <<>> /\ Top(t) = [handler |-> h, at |-> step]
  BY TopOf
<1>3. CASE Owes(t)
  BY <1>1, <1>2, <1>3, Owed DEF Keeps
<1>4. CASE Return(t) /\ ~ Owes(t)
  BY <1>1, <1>2, <1>4, Popped DEF Keeps
<1> QED BY <1>3, <1>4, <1>1

LEMMA OwedStep ==
  ASSUME TypeOK, Stacks', InServiceOwed, NEW h \in DOMAIN Served,
         Keeps({[handler |-> h, at |-> "entry"], [handler |-> h, at |-> "owes"]}),
         isr' \subseteq isr \ {Served[h], Master(Served[h])}
  PROVE  InServiceOwed'
<1> SUFFICES ASSUME NEW l \in isr'
             PROVE  \E k \in DOMAIN Served :
                      l \in {Served[k], Master(Served[k])} /\ Pending(k, {"entry", "owes"})'
  BY DEF InServiceOwed
<1>1. Stacks
  BY DEF TypeOK, Stacks
<1>2. PICK k \in DOMAIN Served :
        l \in {Served[k], Master(Served[k])} /\ Pending(k, {"entry", "owes"})
  BY DEF InServiceOwed
<1>3. k # h
  BY <1>2
<1>4. PICK f \in Frame : Has(frames, f) /\ f.handler = k
  BY <1>1, <1>2, PendingHas
<1>5. Has(frames', f) /\ f.at \in {"entry", "owes"}
  BY <1>3, <1>4 DEF Keeps, Frame
<1> QED BY <1>2, <1>4, <1>5, PendingNext

\* Every step that only keeps frames, or turns a frame's end into a debt, and puts
\* nothing into service, leaves the debts as they are.
LEMMA KeptStep ==
  ASSUME TypeOK, Stacks', InServiceOwed, isr' \subseteq isr,
         \A f \in Frame : Has(frames, f) =>
           \E g \in Frame : g.handler = f.handler /\ Has(frames', g)
  PROVE  InServiceOwed'
<1> SUFFICES ASSUME NEW l \in isr'
             PROVE  \E k \in DOMAIN Served :
                      l \in {Served[k], Master(Served[k])} /\ Pending(k, {"entry", "owes"})'
  BY DEF InServiceOwed
<1>1. Stacks
  BY DEF TypeOK, Stacks
<1>2. PICK k \in DOMAIN Served :
        l \in {Served[k], Master(Served[k])} /\ Pending(k, {"entry", "owes"})
  BY DEF InServiceOwed
<1>3. PICK f \in Frame : Has(frames, f) /\ f.handler = k
  BY <1>1, <1>2, PendingHas
<1>4. PICK g \in Frame : g.handler = k /\ Has(frames', g)
  BY <1>3
<1>5. g.at \in {"entry", "owes"}
  BY DEF Frame
<1> QED BY <1>2, <1>4, <1>5, PendingNext

\* The steps that leave the stacks alone put nothing into service.
Still ==
  \/ Press \/ ClockTicks \/ Boot \/ Stopped \/ UNCHANGED vars
  \/ \E t \in Terminals :
       Pit(t) \/ Open(t) \/ Read(t) \/ ReadReturns(t) \/ Write(t) \/ WriteSteps(t)

LEMMA StillKeeps ==
  ASSUME Still
  PROVE  frames' = frames /\ isr' \subseteq isr
<1> USE DEF pic, chip, thread
<1>1. CASE Press \/ ClockTicks \/ Stopped \/ UNCHANGED vars
  BY <1>1 DEF Press, ClockTicks, Stopped, vars
<1>2. CASE Boot
  BY <1>2 DEF enable_irq, Boot, InitDevices, InitPit, InitPaging, LaunchShell
<1>3. ASSUME NEW t \in Terminals, Pit(t) \/ Open(t) \/ Read(t) \/ ReadReturns(t) \/ Write(t)
      PROVE  frames' = frames /\ isr' \subseteq isr
  BY <1>3 DEF enable_irq, Pit, Open, Read, ReadReturns, Write
<1>4. ASSUME NEW t \in Terminals, WriteSteps(t)
      PROVE  frames' = frames /\ isr' \subseteq isr
  BY <1>4 DEF WriteSteps, Select, ReadPrevious, PutRate, ReadC, WriteReturns, send_eoi
<1> QED BY <1>1, <1>2, <1>3, <1>4 DEF Still

LEMMA NextServed ==
  ASSUME Typed, InServiceOwed, [Next]_vars
  PROVE  InServiceOwed'
<1>0. TypeOK /\ Stacks /\ Stacks'
  BY NextTyped DEF Typed, TypeOK, Stacks
<1>1. CASE Still
  BY <1>0, <1>1, StillKeeps, KeptStep
<1>2. ASSUME NEW l \in Lines, Interrupt(l)
      PROVE  InServiceOwed'
  <2> DEFINE g == [handler |-> IDT[Vector(l)], at |-> "entry"]
  <2>1. l \in {KEYBOARD_IRQ, RTC_IRQ} /\ isr' = isr \cup {l, Master(l)}
    BY <1>2 DEF Interrupt
  <2>2. g \in Frame /\ g.handler \in DOMAIN Served /\ Served[g.handler] = l
    BY <2>1, Handled, Interrupted DEF Frame
  <2> HIDE DEF g
  <2>3. /\ \A f \in Frame : Has(frames, f) => Has(frames', f)
        /\ Has(frames', g)
    BY <1>0, <1>2, <2>2, Pushed DEF Interrupt, TypeOK, g
  <2>4. ASSUME NEW k \in isr
        PROVE  \E h \in DOMAIN Served :
                 k \in {Served[h], Master(Served[h])} /\ Pending(h, {"entry", "owes"})'
    <3>1. PICK h \in DOMAIN Served :
            k \in {Served[h], Master(Served[h])} /\ Pending(h, {"entry", "owes"})
      BY DEF InServiceOwed
    <3>2. PICK f \in Frame : Has(frames, f) /\ f.handler = h /\ f.at \in {"entry", "owes"}
      BY <1>0, <3>1, PendingHas
    <3> QED BY <1>0, <2>3, <3>1, <3>2, PendingNext
  <2>5. Pending(g.handler, {"entry", "owes"})'
    BY <1>0, <2>2, <2>3, PendingNext DEF Frame
  <2> QED BY <2>1, <2>2, <2>4, <2>5 DEF InServiceOwed
<1>3. ASSUME NEW t \in Terminals, NEW h \in DOMAIN Served,
             In(t, h, "entry"), Owes(t), isr' = isr
      PROVE  InServiceOwed'
  <2> DEFINE e == [handler |-> h, at |-> "entry"]
             o == [handler |-> h, at |-> "owes"]
  <2>1. Keeps({e}) /\ Has(frames', o)
    BY <1>0, <1>3, HandlersKeep
  <2>2. \A f \in Frame : Has(frames, f) =>
          \E g \in Frame : g.handler = f.handler /\ Has(frames', g)
    BY <2>1 DEF Keeps, Frame
  <2> QED BY <1>0, <1>3, <2>2, KeptStep
<1>4. ASSUME NEW t \in Terminals, HandleClock(t) \/ HandleKey(t)
      PROVE  InServiceOwed'
  BY <1>3, <1>4, Handled DEF HandleClock, HandleKey, pic
<1>5. ASSUME NEW t \in Terminals, NEW h \in DOMAIN Served, SendEoi(t, h)
      PROVE  InServiceOwed'
  <2>1. Keeps({[handler |-> h, at |-> "owes"]})
    BY <1>0, <1>5, HandlersKeep DEF SendEoi
  <2>2. Keeps({[handler |-> h, at |-> "entry"], [handler |-> h, at |-> "owes"]})
    BY <2>1 DEF Keeps
  <2> QED BY <1>0, <1>5, <2>2, OwedStep DEF SendEoi, send_eoi
<1>6. ASSUME NEW t \in Terminals, NEW u \in Terminals, FirstSwitch(t, u)
      PROVE  InServiceOwed'
  <2> DEFINE h == "keyboard_handler"
  <2>1. h \in DOMAIN Served /\ Served[h] = KEYBOARD_IRQ
    BY Handled
  <2> HIDE DEF h
  <2>2. Keeps({[handler |-> h, at |-> "entry"]})
    BY <1>0, <1>6, <2>1, HandlersKeep DEF FirstSwitch, h
  <2>3. Keeps({[handler |-> h, at |-> "entry"], [handler |-> h, at |-> "owes"]})
    BY <2>2 DEF Keeps
  <2>4. isr' \subseteq isr \ {Served[h], Master(Served[h])}
    BY <1>6, <2>1, Masters DEF FirstSwitch, FirstEoi, send_eoi
  <2> QED BY <1>0, <2>1, <2>3, <2>4, OwedStep
<1> QED BY <1>1, <1>2, <1>4, <1>5, <1>6 DEF Next, Handlers, Still

-----------------------------------------------------------------------------
(* The clock                                                               *)

Entered == [handler |-> "rtc_handler", at |-> "entry"]

LEMMA ArmedHas ==
  /\ Stacks => (Pending("rtc_handler", {"entry"}) <=> Has(frames, Entered))
  /\ Stacks' => (Pending("rtc_handler", {"entry"})' <=> Has(frames', Entered))
  /\ Entered \in Frame
<1>1. Entered \in Frame
  BY Handled DEF Frame, Entered
<1>2. \A f \in Frame : f.handler = "rtc_handler" /\ f.at \in {"entry"} <=> f = Entered
  BY Handled DEF Frame, Entered
<1>3. "rtc_handler" \in DOMAIN Served /\ {"entry"} \in SUBSET {"entry", "owes"}
  BY Handled
<1>4. ASSUME Stacks PROVE Pending("rtc_handler", {"entry"}) <=> Has(frames, Entered)
  BY <1>1, <1>2, <1>3, <1>4, PendingHas
<1>5. ASSUME Stacks' PROVE Pending("rtc_handler", {"entry"})' <=> Has(frames', Entered)
  BY <1>1, <1>2, <1>3, <1>5, PendingNext
<1> QED BY <1>1, <1>4, <1>5

\* A step that neither raises the line nor takes the request or the handler away.
LEMMA ArmedStep ==
  ASSUME Stacks, Stacks', ClockArmed,
         raised' => raised,
         RTC_IRQ \in irr => RTC_IRQ \in irr',
         Has(frames, Entered) => Has(frames', Entered)
  PROVE  ClockArmed'
BY ArmedHas DEF ClockArmed

LEMMA StillArmed ==
  ASSUME Still
  PROVE  RTC_IRQ \in irr => RTC_IRQ \in irr'
<1> USE DEF pic, chip, thread
<1>1. CASE Press \/ ClockTicks \/ Stopped \/ UNCHANGED vars
  BY <1>1 DEF Press, ClockTicks, Stopped, vars
<1>2. CASE Boot
  BY <1>2 DEF enable_irq, Boot, InitDevices, InitPit, InitPaging, LaunchShell
<1>3. ASSUME NEW t \in Terminals, Pit(t) \/ Open(t) \/ Read(t) \/ ReadReturns(t) \/ Write(t)
      PROVE  irr' = irr
  BY <1>3 DEF enable_irq, Pit, Open, Read, ReadReturns, Write
<1>4. ASSUME NEW t \in Terminals, WriteSteps(t)
      PROVE  irr' = irr
  BY <1>4 DEF WriteSteps, Select, ReadPrevious, PutRate, ReadC, WriteReturns
<1> QED BY <1>1, <1>2, <1>3, <1>4 DEF Still

LEMMA StillRaised ==
  ASSUME Still, raised \in BOOLEAN
  PROVE  (raised' => raised) \/ RTC_IRQ \in irr'
<1> USE DEF pic, chip, thread
<1>1. CASE Press \/ ClockTicks \/ Stopped \/ UNCHANGED vars
  BY <1>1 DEF Press, ClockTicks, Stopped, vars
<1>2. CASE Boot
  BY <1>2 DEF enable_irq, Boot, InitDevices, InitPit, InitPaging, LaunchShell, rtc_init
<1>3. ASSUME NEW t \in Terminals, Pit(t) \/ Open(t) \/ Read(t) \/ ReadReturns(t) \/ Write(t)
      PROVE  raised' => raised
  BY <1>3 DEF enable_irq, Pit, Open, Read, ReadReturns, Write, rtc_init
<1>4. ASSUME NEW t \in Terminals, WriteSteps(t)
      PROVE  raised' => raised
  BY <1>4 DEF WriteSteps, Select, ReadPrevious, PutRate, ReadC, WriteReturns
<1> QED BY <1>1, <1>2, <1>3, <1>4 DEF Still

LEMMA NextArmed ==
  ASSUME Typed, ClockArmed, [Next]_vars
  PROVE  ClockArmed'
<1>0. TypeOK /\ Stacks /\ Stacks'
  BY NextTyped DEF Typed, TypeOK, Stacks
<1>1. CASE Still
  <2>1. frames' = frames /\ (RTC_IRQ \in irr => RTC_IRQ \in irr')
    BY <1>1, StillKeeps, StillArmed
  <2>2. CASE raised' => raised
    BY <1>0, <2>1, <2>2, ArmedStep
  <2>3. CASE RTC_IRQ \in irr'
    BY <2>3 DEF ClockArmed
  <2> QED BY <1>0, <1>1, <2>2, <2>3, StillRaised DEF TypeOK
<1>2. ASSUME NEW l \in Lines, Interrupt(l)
      PROVE  ClockArmed'
  <2> DEFINE g == [handler |-> IDT[Vector(l)], at |-> "entry"]
  <2>1. l \in {KEYBOARD_IRQ, RTC_IRQ} /\ irr' = irr \ {l} /\ raised' = raised
    BY <1>2 DEF Interrupt, chip
  <2>2. g \in Frame /\ (l = RTC_IRQ => g = Entered)
    BY <2>1, Handled, Interrupted DEF Frame, Entered
  <2> HIDE DEF g
  <2>3. (Has(frames, Entered) => Has(frames', Entered)) /\ Has(frames', g)
    BY <1>0, <1>2, <2>2, Pushed, ArmedHas DEF Interrupt, TypeOK, g
  <2> QED BY <1>0, <2>1, <2>2, <2>3, ArmedHas DEF ClockArmed, KEYBOARD_IRQ, RTC_IRQ
<1>3. ASSUME NEW t \in Terminals, NEW h \in DOMAIN Served, NEW step \in {"entry", "owes"},
             In(t, h, step), Owes(t) \/ Return(t),
             h # "rtc_handler" \/ step # "entry",
             irr' = irr, raised' = raised
      PROVE  ClockArmed'
  <2>1. Keeps({[handler |-> h, at |-> step]})
    BY <1>0, <1>3, HandlersKeep
  <2>2. Has(frames, Entered) => Has(frames', Entered)
    BY <1>3, <2>1, ArmedHas DEF Keeps, Entered
  <2> QED BY <1>0, <1>3, <2>2, ArmedStep
<1>4. ASSUME NEW t \in Terminals, HandleClock(t)
      PROVE  ClockArmed'
  BY <1>4 DEF HandleClock, Raised, ClockArmed
<1>5. ASSUME NEW t \in Terminals, HandleKey(t)
      PROVE  ClockArmed'
  BY <1>3, <1>5, Handled DEF HandleKey, pic, chip
<1>6. ASSUME NEW t \in Terminals, NEW h \in DOMAIN Served, SendEoi(t, h)
      PROVE  ClockArmed'
  BY <1>3, <1>6 DEF SendEoi, chip
<1>7. ASSUME NEW t \in Terminals, NEW u \in Terminals, FirstSwitch(t, u)
      PROVE  ClockArmed'
  BY <1>3, <1>7, Handled DEF FirstSwitch, chip
<1> QED BY <1>1, <1>2, <1>4, <1>5, <1>6, <1>7 DEF Next, Handlers, Still

-----------------------------------------------------------------------------
(* What holds from the boot on                                             *)

\* At the boot no line is in service, and the clock has not raised its line.
LEMMA InitQuiet == Init => InServiceOwed /\ ClockArmed
BY DEF Init, InServiceOwed, ClockArmed

\* Devices: no handler loses the end of interrupt it owes (keyboard.c:246, rtc.c:67),
\* however the handlers nest, whichever threads the PIT takes away inside them, and
\* whatever rtc_write or a shell started inside a handler ends in their place.
THEOREM ServedLines == Spec => []InServiceOwed
<1>1. Typed /\ InServiceOwed /\ [Next]_vars => Typed' /\ InServiceOwed'
  BY NextTyped, NextServed
<1>2. Init => Typed /\ InServiceOwed
  BY InitTyped, InitQuiet
<1> QED BY <1>1, <1>2, PTL DEF Spec

\* Devices: the clock never holds its line with nobody left to read register C
\* (rtc.c:58), so that a program waiting for a tick waits for one that can come.
THEOREM ClockNeverMute == Spec => []ClockArmed
<1>1. Typed /\ ClockArmed /\ [Next]_vars => Typed' /\ ClockArmed'
  BY NextTyped, NextArmed
<1>2. Init => Typed /\ ClockArmed
  BY InitTyped, InitQuiet
<1> QED BY <1>1, <1>2, PTL DEF Spec

-----------------------------------------------------------------------------
(* The ticks                                                               *)

\* A thread that waits while the flag is up has seen a clock interrupt.
SeenInv ==
  \A t \in Terminals : op[t] = "wait" /\ flag # 0 => seen[t]

LEMMA HandlersSeen ==
  ASSUME Typed, SeenInv, NEW t \in Terminals, Handlers(t)
  PROVE  SeenInv' /\ \A v \in Terminals : op[v] = "wait" => op'[v] = "wait"
<1> USE DEF Typed, TypeOK, SeenInv, thread
<1>1. CASE HandleClock(t)
  BY <1>1 DEF HandleClock
<1>2. CASE HandleKey(t) \/ \E h \in DOMAIN Served : SendEoi(t, h)
  BY <1>2 DEF HandleKey, SendEoi
<1>3. ASSUME NEW u \in Terminals, FirstSwitch(t, u)
      PROVE  SeenInv' /\ \A v \in Terminals : op[v] = "wait" => op'[v] = "wait"
  BY <1>3 DEF FirstSwitch
<1> QED BY <1>1, <1>2, <1>3 DEF Handlers

LEMMA FileSeen ==
  ASSUME Typed, SeenInv, NEW t \in Terminals,
         Open(t) \/ Read(t) \/ ReadReturns(t) \/ Write(t) \/ WriteSteps(t)
  PROVE  /\ SeenInv'
         /\ \A v \in Terminals : op[v] = "wait" /\ op'[v] = "user" => seen[v]
<1> USE DEF Typed, TypeOK, SeenInv, Goto, At, thread
<1>1. CASE Open(t)
  BY <1>1 DEF enable_irq, Open
<1>2. CASE Read(t)
  BY <1>2 DEF Read, Cleared
<1>3. CASE ReadReturns(t)
  BY <1>3 DEF ReadReturns
<1>4. CASE Write(t)
  BY <1>4 DEF Write
<1>5. CASE WriteSteps(t)
  BY <1>5 DEF WriteSteps, Select, ReadPrevious, PutRate, ReadC, WriteReturns
<1> QED BY <1>1, <1>2, <1>3, <1>4, <1>5

LEMMA NextSeen ==
  ASSUME Typed, SeenInv, [Next]_vars
  PROVE  /\ SeenInv'
         /\ \A v \in Terminals : op[v] = "wait" /\ op'[v] = "user" => seen[v]
<1> DEFINE Goal == /\ SeenInv'
                   /\ \A v \in Terminals : op[v] = "wait" /\ op'[v] = "user" => seen[v]
<1> USE DEF Typed, TypeOK, SeenInv, thread
<1>1. CASE Press \/ ClockTicks \/ Stopped \/ UNCHANGED vars
  BY <1>1 DEF Press, ClockTicks, Stopped, vars
<1>2. ASSUME (\E l \in Lines : Interrupt(l)) \/ (\E u \in Terminals : Pit(u))
      PROVE  Goal
  BY <1>2 DEF Interrupt, Pit
<1>3. CASE Boot
  BY <1>3 DEF enable_irq, Boot, InitDevices, InitPit, InitPaging, LaunchShell, Goto, At
<1>4. ASSUME NEW t \in Terminals, Handlers(t)
      PROVE  Goal
  BY <1>4, HandlersSeen
<1>5. ASSUME NEW t \in Terminals,
             Open(t) \/ Read(t) \/ ReadReturns(t) \/ Write(t) \/ WriteSteps(t)
      PROVE  Goal
  <2> HIDE DEF Typed, SeenInv
  <2> QED BY <1>5, FileSeen
<1> QED BY <1>1, <1>2, <1>3, <1>4, <1>5 DEF Next

\* Devices: rtc_read returns only after a clock interrupt that was handled since it
\* was called (rtc.c:77), with any number of readers that share the flag.
THEOREM ReadWaits == Spec => WaitsForTick
<1>1. Typed /\ SeenInv /\ [Next]_vars => Typed' /\ SeenInv'
  BY NextTyped, NextSeen
<1>2. Init => Typed /\ SeenInv
  BY InitTyped DEF Init, SeenInv
<1>3. Typed /\ SeenInv /\ [Next]_vars =>
        [\A t \in Terminals : op[t] = "wait" /\ op'[t] = "user" => seen[t]]_vars
  BY NextSeen
<1> QED BY <1>1, <1>2, <1>3, PTL DEF Spec, WaitsForTick
=============================================================================
