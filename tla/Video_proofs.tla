---------------------------- MODULE Video_proofs ----------------------------
(***************************************************************************)
(* No process writes to the back buffer of another terminal, whatever      *)
(* comes between the steps of the scheduler; and the video memory          *)
(* implements one screen for each terminal if none of the unguarded        *)
(* windows occurs.  Both hold for every number of terminals and lines.     *)
(***************************************************************************)
EXTENDS Video, SequenceTheorems, TLAPS

LEMMA ScreenIsNoTerminal == Screen \notin Terminals /\ 0 \in Terminals
BY TerminalsAssumption DEF Screen, Terminals

\* What is put on a page or rubbed out stays a text of terminals.
LEMMA PutType ==
  ASSUME NEW s \in Seq(Terminals), NEW t \in Terminals
  PROVE  Put(s, t) \in Seq(Terminals)
<1>1. Len(s) < NUM_ROWS \/ s # <<>>
  BY RowsAssumption, EmptySeq
<1>2. s # <<>> => Tail(s) \in Seq(Terminals)
  BY HeadTailProperties
<1> QED BY <1>1, <1>2, AppendProperties DEF Put

LEMMA RubType ==
  ASSUME NEW s \in Seq(Terminals)
  PROVE  Rub(s) \in Seq(Terminals)
<1>1. CASE s = <<>>
  BY <1>1 DEF Rub
<1>2. CASE s # <<>>
  <2>1. Len(s) \in Nat \ {0}
    BY <1>2, EmptySeq, LenProperties
  <2>2. \A i \in 1 .. Len(s) - 1 : s[i] \in Terminals
    BY <2>1, ElementOfSeq
  <2>3. SubSeq(s, 1, Len(s) - 1) \in Seq(Terminals)
    BY <2>1, <2>2, SubSeqProperties
  <2> QED BY <1>2, <2>3 DEF Rub
<1> QED BY <1>1, <1>2

-----------------------------------------------------------------------------
(* The pages of a process, with every window open                          *)

\* The scheduler's branch and the mapping it has not changed yet.
PageInv ==
  /\ OwnPage
  /\ phase \in {"idle", "choose", "remap"}
  /\ phase = "remap" => choice \in {Screen, sched}

LEMMA NextPaged == PageInv /\ [Next]_vars => PageInv'
<1> SUFFICES ASSUME PageInv, [Next]_vars PROVE PageInv'
  OBVIOUS
<1> USE DEF PageInv, OwnPage
<1>1. CASE Write \/ Announce \/ Relaunch \/ Select
  BY <1>1 DEF Write, Announce, Relaunch, Select
<1>2. CASE Choose \/ Remap
  BY <1>2 DEF Choose, Chosen, Remap
<1>3. ASSUME NEW t \in Terminals, Switch(t)
      PROVE  PageInv'
  BY <1>3 DEF Switch, Remapped, CopyMap
<1>4. CASE Backspace \/ Clear
  BY <1>4 DEF Backspace, Clear, Edit
<1>5. CASE UNCHANGED vars
  BY <1>5 DEF vars
<1> QED BY <1>1, <1>2, <1>3, <1>4, <1>5 DEF Next

\* scheduler.c:39-43, 113-122, terminal.c:243-246: with a key between any two steps of
\* the scheduler, with edits of the scheduled screen and restarts of the first shell, a
\* process never writes to the back buffer of another terminal.
THEOREM OwnPageKept == Spec => []OwnPage
<1>1. Init => PageInv
  BY DEF Init, PageInv, OwnPage
<1>2. PageInv => OwnPage
  BY DEF PageInv
<1> QED BY <1>1, <1>2, NextPaged, PTL DEF Spec

-----------------------------------------------------------------------------
(* The mapping, without the windows                                        *)

LEMMA InitMapped == Init => MapInv
BY ScreenIsNoTerminal, EmptySeq DEF Init, MapInv, TypeOK, OwnScreen, Home, Pages

LEMMA NextMapped ==
  ASSUME Windows = {}
  PROVE  MapInv /\ [Next]_vars => MapInv'
<1> SUFFICES ASSUME MapInv, [Next]_vars PROVE MapInv'
  OBVIOUS
<1> USE ScreenIsNoTerminal DEF MapInv, TypeOK, OwnScreen, Home, Pages
<1>1. CASE Write
  <2>1. Put(page[vmap], sched) \in Seq(Terminals)
    BY PutType
  <2> QED BY <1>1, <2>1 DEF Write
<1>2. CASE Announce
  BY <1>2 DEF Announce
<1>3. CASE Relaunch
  BY <1>3 DEF Relaunch
<1>4. CASE Select
  BY <1>4 DEF Select
<1>5. CASE Choose
  BY <1>5 DEF Choose, Chosen
<1>6. CASE Remap
  BY <1>6 DEF Remap
<1>7. ASSUME NEW t \in Terminals, Switch(t)
      PROVE  MapInv'
  <2>1. CopyMap = Screen /\ phase = "idle"
    BY <1>7 DEF Switch, KeyPressed, CopyMap
  <2>2. page' \in [Pages -> Seq(Terminals)]
    BY <1>7, <2>1 DEF Switch, Copied
  <2> QED BY <1>7, <2>1, <2>2 DEF Switch, Remapped
<1>8. ASSUME NEW text \in Seq(Terminals), Edit(text)
      PROVE  MapInv'
  BY <1>8 DEF Edit, KeyPressed
<1>9. CASE Backspace
  <2>1. Rub(page[Screen]) \in Seq(Terminals)
    BY RubType
  <2> QED BY <1>8, <1>9, <2>1 DEF Backspace
<1>10. CASE Clear
  BY <1>8, <1>10, EmptySeq DEF Clear
<1>11. CASE UNCHANGED vars
  BY <1>11 DEF vars
<1> QED BY <1>1, <1>2, <1>3, <1>4, <1>5, <1>6, <1>7, <1>9, <1>10, <1>11 DEF Next

\* The mapping that the refinement below rests on: without the windows it is right when
\* a process runs, and so is the branch of the scheduler when it remaps.
LEMMA MapKept ==
  ASSUME Windows = {}
  PROVE  Spec => []MapInv
<1>1. MapInv /\ [Next]_vars => MapInv'
  BY NextMapped
<1> QED BY <1>1, InitMapped, PTL DEF Spec

-----------------------------------------------------------------------------
(* The screens                                                             *)

LEMMA InitScreens == Init => Logical!Init
BY ScreenIsNoTerminal DEF Init, Logical!Init, Text, Home, Pages

LEMMA NextScreens ==
  ASSUME Windows = {}, MapInv, [Next]_vars
  PROVE  [Logical!Next]_<<active, Text>>
<1> USE ScreenIsNoTerminal DEF MapInv, TypeOK, Pages
<1>1. CASE Write
  <2>1. vmap = Home(sched) /\ page' = [page EXCEPT ![Home(sched)] = Put(@, sched)]
    BY <1>1 DEF Write, OwnScreen
  <2>2. Text' = [t \in Terminals |-> page'[Home(t)]]
    BY <1>1 DEF Write, Text, Home
  <2>3. \A t \in Terminals : page'[Home(t)] =
          IF t = sched THEN Put(page[Home(t)], sched) ELSE page[Home(t)]
    BY <2>1 DEF Home
  <2>4. Text' = [Text EXCEPT ![sched] = Put(@, sched)]
    BY <2>2, <2>3 DEF Text
  <2> QED BY <1>1, <2>4 DEF Write, Logical!Next, Logical!Write, Logical!Put, Put
<1>2. CASE Announce \/ Relaunch \/ Select \/ Choose \/ Remap \/ UNCHANGED vars
  <2>1. active' = active /\ page' = page
    BY <1>2 DEF Announce, Relaunch, Select, Choose, Remap, vars
  <2> QED BY <2>1 DEF Text, Home
<1>3. ASSUME NEW t \in Terminals, Switch(t)
      PROVE  Logical!Next
  <2>1. CopyMap = Screen
    BY <1>3 DEF Switch, KeyPressed, CopyMap, OwnScreen, Home
  <2>2. /\ active' = t /\ t # active
        /\ page' = [page EXCEPT ![active] = page[Screen], ![Screen] = page[t]]
    BY <1>3, <2>1 DEF Switch, Copied
  <2>3. Text' = Text
    BY <2>2 DEF Text, Home
  <2> QED BY <2>2, <2>3 DEF Logical!Next, Logical!Show
<1>4. ASSUME NEW text, Edit(text)
      PROVE  active' = active /\ Text' = [Text EXCEPT ![active] = text]
  BY <1>4 DEF Edit, Text, Home
<1>5. Text[active] = page[Screen]
  BY DEF Text, Home
<1>6. CASE Backspace
  BY <1>4, <1>5, <1>6 DEF Backspace, Logical!Next, Logical!Erase, Logical!Rub, Rub
<1>7. CASE Clear
  BY <1>4, <1>7 DEF Clear, Logical!Next, Logical!Clear
<1> QED BY <1>1, <1>2, <1>3, <1>6, <1>7 DEF Next

\* scheduler.c:26-44 and 113-122: without the windows, the pages and the mapping
\* implement a screen of its own for every terminal.
THEOREM ScreensCorrect ==
  ASSUME Windows = {}
  PROVE  Spec => LogicalScreens
<1>1. MapInv /\ [Next]_vars => [Logical!Next]_<<active, Text>>
  BY NextScreens
<1>2. Spec => []MapInv
  BY MapKept
<1> QED BY <1>1, <1>2, InitScreens, PTL DEF Spec, LogicalScreens, Logical!Spec

-----------------------------------------------------------------------------
(* The texts                                                               *)

Own(s, t) == \A i \in 1 .. Len(s) : s[i] = t

LEMMA PutOwn ==
  ASSUME NEW t \in Terminals, NEW s \in Seq(Terminals), Own(s, t)
  PROVE  Own(Put(s, t), t)
<1>1. CASE Len(s) < NUM_ROWS
  BY <1>1, AppendProperties DEF Own, Put
<1>2. CASE ~ (Len(s) < NUM_ROWS)
  <2>1. s # <<>>
    BY <1>2, RowsAssumption, EmptySeq
  <2>2. /\ Tail(s) \in Seq(Terminals) /\ Len(Tail(s)) = Len(s) - 1
        /\ \A i \in 1 .. Len(Tail(s)) : Tail(s)[i] = s[i + 1]
    BY <2>1, HeadTailProperties
  <2>3. Own(Tail(s), t)
    <3>1. ASSUME NEW i \in 1 .. Len(Tail(s)) PROVE Tail(s)[i] = t
      BY <2>2, LenProperties DEF Own
    <3> QED BY <3>1 DEF Own
  <2>4. Put(s, t) = Append(Tail(s), t)
    BY <1>2 DEF Put
  <2>5. \A i \in 1 .. Len(Append(Tail(s), t)) : Append(Tail(s), t)[i] = t
    <3> DEFINE r == Tail(s)
    <3>1. r \in Seq(Terminals) /\ Len(r) \in Nat /\ \A i \in 1 .. Len(r) : r[i] = t
      BY <2>2, <2>3, LenProperties DEF Own
    <3> HIDE DEF r
    <3>2. /\ Len(Append(r, t)) = Len(r) + 1
          /\ \A i \in 1 .. Len(r) : Append(r, t)[i] = r[i]
          /\ Append(r, t)[Len(r) + 1] = t
      BY <3>1, AppendProperties
    <3>3. \A i \in 1 .. Len(Append(r, t)) : Append(r, t)[i] = t
      BY <3>1, <3>2
    <3> QED BY <3>3 DEF r
  <2> QED BY <2>4, <2>5 DEF Own
<1> QED BY <1>1, <1>2

LEMMA RubOwn ==
  ASSUME NEW t \in Terminals, NEW s \in Seq(Terminals), Own(s, t)
  PROVE  Own(Rub(s), t)
<1>1. CASE s = <<>>
  BY <1>1 DEF Rub
<1>2. CASE s # <<>>
  <2>1. Len(s) \in Nat \ {0}
    BY <1>2, EmptySeq, LenProperties
  <2>2. \A i \in 1 .. Len(s) - 1 : s[i] \in Terminals
    BY <2>1, ElementOfSeq
  <2> DEFINE n == Len(s) - 1
             r == SubSeq(s, 1, n)
  <2> n \in Nat
    BY <2>1
  <2>3. /\ Len(r) = IF 1 <= n THEN n - 1 + 1 ELSE 0
        /\ \A i \in 1 .. n - 1 + 1 : r[i] = s[1 + i - 1]
    <3> HIDE DEF n
    <3> QED BY <2>2, SubSeqProperties DEF n
  <2>4. \A i \in 1 .. Len(r) : r[i] = t
    BY <2>1, <2>3 DEF Own
  <2> QED BY <1>2, <2>4 DEF Rub, Own
<1> QED BY <1>1, <1>2

LEMMA InitOwn == Init => OwnText
BY ScreenIsNoTerminal, EmptySeq DEF Init, OwnText, Text, Home, Pages

LEMMA NextOwn ==
  ASSUME MapInv, OwnText, [Logical!Next]_<<active, Text>>
  PROVE  OwnText'
<1>1. /\ active \in Terminals
      /\ Text \in [Terminals -> Seq(Terminals)]
  BY DEF MapInv, TypeOK, Text, Home, Pages
<1>2. \A t \in Terminals : Own(Text[t], t)
  BY DEF OwnText, Own
<1>3. SUFFICES \A t \in Terminals : Own(Text'[t], t)
  BY DEF OwnText, Own
<1>4. ASSUME NEW t \in Terminals, Logical!Write(t)
      PROVE  \A u \in Terminals : Own(Text'[u], u)
  <2>1. Text' = [Text EXCEPT ![t] = Put(@, t)]
    BY <1>4 DEF Logical!Write, Logical!Put, Put
  <2>2. Own(Put(Text[t], t), t)
    BY <1>1, <1>2, PutOwn
  <2> QED BY <1>1, <1>2, <2>1, <2>2
<1>5. CASE Logical!Erase
  <2>1. Text' = [Text EXCEPT ![active] = Rub(@)]
    BY <1>5 DEF Logical!Erase, Logical!Rub, Rub
  <2>2. Own(Rub(Text[active]), active)
    BY <1>1, <1>2, RubOwn
  <2> QED BY <1>1, <1>2, <2>1, <2>2
<1>6. CASE Logical!Clear
  <2>1. Own(<<>>, active)
    BY EmptySeq DEF Own
  <2> QED BY <1>1, <1>2, <1>6, <2>1 DEF Logical!Clear
<1>7. CASE UNCHANGED <<active, Text>> \/ \E t \in Terminals : Logical!Show(t)
  BY <1>2, <1>7 DEF Logical!Show
<1> QED BY <1>4, <1>5, <1>6, <1>7 DEF Logical!Next

\* scheduler.c:33-37: without the windows, no switch brings the text of one terminal
\* to the screen or the back buffer of another.
THEOREM TextsCorrect ==
  ASSUME Windows = {}
  PROVE  Spec => []OwnText
<1>1. MapInv /\ OwnText /\ [Next]_vars => OwnText'
  BY NextScreens, NextOwn
<1>2. Spec => []MapInv
  BY MapKept
<1> QED BY <1>1, <1>2, InitOwn, PTL DEF Spec
=============================================================================
