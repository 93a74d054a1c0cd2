-------------------------- MODULE FileCalls_proofs -------------------------
(***************************************************************************)
(* The file calls keep what Descriptors promises, for every image, every   *)
(* number of processes and descriptors and every length, if no command     *)
(* ends with a space.                                                      *)
(***************************************************************************)
EXTENDS FileCalls, LeastFacts, SequenceTheorems

-----------------------------------------------------------------------------
(* The image                                                               *)

LEMMA LengthOf ==
  ASSUME NEW m \in Nat, NEW t, t = [k \in 1 .. m |-> t[k]]
  PROVE  Len(t) = m
<1> DEFINE S == {t[k] : k \in 1 .. m}
<1>1. t \in [1 .. m -> S]
  OBVIOUS
<1>2. t \in Seq(S)
  BY <1>1, SeqDef
<1>3. Len(t) \in Nat /\ 1 .. Len(t) = 1 .. m
  BY <1>1, <1>2, LenProperties
<1> QED BY <1>3

LEMMA NextMultiple ==
  ASSUME NEW B \in Nat, NEW a \in Nat, NEW b \in Nat, a < b
  PROVE  a * B + B <= b * B
<1>1. b * B = a * B + (b - a) * B
  OBVIOUS
<1>2. (b - a) * B >= B
  OBVIOUS
<1>3. a * B \in Nat /\ b * B \in Nat
  OBVIOUS
<1> QED BY <1>1, <1>2, <1>3

\* A position is in one place of the blocks only.
LEMMA OnePlace ==
  ASSUME NEW B \in Nat \ {0}, NEW i \in Nat, NEW j \in Nat,
         NEW k \in 0 .. B - 1, NEW m \in 0 .. B - 1,
         i * B + k = j * B + m
  PROVE  i = j /\ k = m
<1>1. i * B \in Nat /\ j * B \in Nat
  OBVIOUS
<1>2. ~ (i < j) /\ ~ (j < i)
  BY <1>1, NextMultiple
<1> QED BY <1>1, <1>2

LEMMA DivMod ==
  ASSUME NEW B \in Nat \ {0}, NEW k \in Nat
  PROVE  /\ k \div B \in Nat /\ k % B \in 0 .. B - 1
         /\ (k \div B) * B + (k % B) = k
<1>1. k % B \in 0 .. B - 1 /\ k \div B \in Nat
  OBVIOUS
<1>2. k = B * (k \div B) + (k % B)
  OBVIOUS
<1>3. B * (k \div B) = (k \div B) * B
  BY <1>1
<1> QED BY <1>1, <1>2, <1>3

\* read_data takes each byte from the block and the place it is in.
LEMMA ByteOfText ==
  ASSUME NEW n \in DOMAIN Inodes, NEW k \in 1 .. Inodes[n].size
  PROVE  Text(n)[k] = Byte(n, k - 1)
<1> DEFINE B == BLOCK_BYTES
           L == Len(Inodes[n].blocks)
           i == (k - 1) \div B
           m == (k - 1) % B
<1>1. B \in Nat \ {0} /\ L \in Nat /\ k - 1 \in Nat /\ k - 1 < B * L
  BY SizesAssumption, InodesAssumption, LenProperties
<1>2. i \in Nat /\ m \in 0 .. B - 1 /\ i * B + m = k - 1
  BY <1>1, DivMod
<1>3. i < L
  <2>1. B * L = L * B /\ i * B \in Nat /\ L * B \in Nat
    BY <1>1, <1>2
  <2>2. L < i => L * B + B <= i * B
    BY <1>1, <1>2, NextMultiple
  <2>3. L # i /\ ~ (L < i)
    BY <1>1, <1>2, <2>1, <2>2
  <2> QED BY <1>1, <1>2, <2>3
<1>4. <<i, m>> \in Places(n) /\ <<i, m>>[1] * B + <<i, m>>[2] = k - 1
  BY <1>1, <1>2, <1>3 DEF Places
<1>5. Place(n, k - 1) \in Places(n) /\ Place(n, k - 1)[1] * B + Place(n, k - 1)[2] = k - 1
  BY <1>4 DEF Place
<1>6. PICK p \in Places(n) : p = Place(n, k - 1) /\ p[1] * B + p[2] = i * B + m
  BY <1>2, <1>5
<1>7. p[1] \in Nat /\ p[2] \in 0 .. B - 1
  BY <1>1 DEF Places
<1>8. p[1] = i /\ p[2] = m
  <2>1. \A a \in Nat, b \in 0 .. B - 1 : a * B + b = i * B + m => a = i /\ b = m
    <3> HIDE DEF i, m, B
    <3> QED BY <1>1, <1>2, OnePlace
  <2> QED BY <2>1, <1>6, <1>7
<1> QED BY <1>6, <1>8 DEF Text, Byte

LEMMA LengthOfText ==
  ASSUME NEW n \in DOMAIN Inodes
  PROVE  Len(Text(n)) = Inodes[n].size
BY InodesAssumption, SizesAssumption, LengthOf DEF Text

\* The searches of the directory return an entry that matches, and the first.
LEMMA FirstFound ==
  ASSUME NEW S \in SUBSET Indices
  PROVE  /\ First(S) # NotFound <=> S # {}
         /\ S # {} => First(S) \in S /\ \A i \in S : First(S) <= i
<1>1. NumDentries \in Nat /\ S \in SUBSET Nat
  BY DentriesAssumption, LenProperties DEF NumDentries, Indices
<1>2. CASE S # {}
  <2>1. First(S) = Min(S) /\ Min(S) \in S /\ \A i \in S : Min(S) <= i
    BY <1>1, <1>2, MinIsLeast DEF First
  <2> QED BY <1>1, <1>2, <2>1 DEF NotFound
<1> QED BY <1>2 DEF First, NotFound

LEMMA DentryType ==
  ASSUME NEW i \in Indices
  PROVE  /\ i + 1 \in DOMAIN Dentries /\ Dentry(i) = Dentries[i + 1]
         /\ Dentry(i).type \in Types /\ Dentry(i).inode \in DOMAIN Inodes
         /\ [type |-> Dentry(i).type, inode |-> Dentry(i).inode] \in Things
<1>1. NumDentries \in Nat /\ DOMAIN Dentries = 1 .. NumDentries
  BY DentriesAssumption, LenProperties DEF NumDentries
<1>2. i + 1 \in 1 .. NumDentries
  BY <1>1 DEF Indices
<1>3. Dentries[i + 1] \in [name : Names, type : Types, inode : DOMAIN Inodes]
  BY <1>1, <1>2, DentriesAssumption, ElementOfSeq DEF NumDentries
<1> QED BY <1>1, <1>2, <1>3 DEF Dentry, Things

LEMMA NameFound ==
  ASSUME NEW name, DentryByName(name) # NotFound
  PROVE  DentryByName(name) \in Indices
<1> DEFINE S == {i \in Indices : Dentry(i).name = name}
<1>1. First(S) # NotFound /\ S \in SUBSET Indices
  BY DEF DentryByName
<1>2. First(S) \in S
  BY <1>1, FirstFound
<1> QED BY <1>2 DEF DentryByName

\* read takes what was opened as a directory for one, though the clock has the
\* same inode number.
LEMMA DirectoryKind ==
  ASSUME NEW d \in Things, d.type = "dir"
  PROVE  Dentry(DentryByInode(d.inode)).type = "dir"
<1> DEFINE S == {i \in Indices : Dentry(i).inode = d.inode}
           h == DentryByInode(d.inode)
<1>1. NumDentries \in Nat /\ DOMAIN Dentries = 1 .. NumDentries
  BY DentriesAssumption, LenProperties DEF NumDentries
<1>2. PICK j \in DOMAIN Dentries : Dentries[j].inode = d.inode /\ Dentries[j].type = "dir"
  BY DEF Things
<1>3. j - 1 \in S
  BY <1>1, <1>2 DEF Indices, Dentry
<1>4. h \in S /\ \A i \in S : h <= i
  BY <1>3, FirstFound DEF DentryByInode
<1>5. h \in Nat /\ h + 1 \in DOMAIN Dentries /\ Dentries[h + 1].inode = d.inode
  BY <1>1, <1>4 DEF Indices, Dentry
<1>6. SUFFICES ASSUME Dentries[h + 1].type # "dir" PROVE FALSE
  BY DEF Dentry
<1>7. PICK k \in DOMAIN Dentries :
        /\ Dentries[k].inode = d.inode /\ Dentries[k].type = "dir"
        /\ \A m \in 1 .. k - 1 : Dentries[m].inode # d.inode
  BY <1>2, <1>5, <1>6, KindsAssumption
<1>8. k - 1 \in S
  BY <1>1, <1>7 DEF Indices, Dentry
<1>9. h + 1 <= k /\ k \in Nat
  BY <1>1, <1>4, <1>5, <1>8
<1>10. ~ (h + 1 \in 1 .. k - 1)
  BY <1>5, <1>7
<1> QED BY <1>5, <1>6, <1>7, <1>9, <1>10

-----------------------------------------------------------------------------
(* The descriptors                                                         *)

LEMMA ReplyOnly ==
  ASSUME FdInv, UNCHANGED <<live, fds, arg, given>>
  PROVE  FdInv'
BY DEF FdInv, TypeOK, OpenElement, Thing

LEMMA InitFds == Init => FdInv
BY FdsAssumption, BlankAssumption DEF Init, FdInv, TypeOK, Fds, Available, Empty, Element, Args

LEMMA ExecuteFds ==
  ASSUME FdInv, NEW s \in Slots, NEW c \in Commands, Execute(s, c)
  PROVE  FdInv'
<1> USE DEF FdInv, TypeOK, Execute
<1>1. 0 \in Fds /\ 1 \in Fds
  BY FdsAssumption DEF Fds
<1>2. Stdio \in Element /\ Empty \in Element
  BY DEF Stdio, Empty, Element
<1>3. fds' \in [Slots -> [Fds -> Element]]
  BY <1>2
<1>4. arg' \in [Slots -> Args] /\ given' \in [Slots -> Args]
  BY BlankAssumption DEF Stored, Args
<1>5. \A f \in Available : fds'[s][f] = Empty
  BY DEF Available
<1>6. fds'[s][0] = Stdio /\ fds'[s][1] = Stdio
  BY <1>1
<1>7. \A q \in Slots \ {s} : fds'[q] = fds[q]
  OBVIOUS
<1> QED BY <1>3, <1>4, <1>5, <1>6, <1>7

LEMMA HaltFds ==
  ASSUME FdInv, NEW s \in Slots, Halt(s)
  PROVE  FdInv'
<1> USE DEF FdInv, TypeOK, Halt
<1>1. Empty \in Element
  BY DEF Empty, Element
<1>2. fds' \in [Slots -> [Fds -> Element]]
  BY <1>1
<1>3. \A f \in Available : fds'[s][f] = Empty
  BY DEF OpenElement, Available, Thing
<1>4. \A q \in Slots \ {s} : fds'[q] = fds[q]
  OBVIOUS
<1> QED BY <1>2, <1>3, <1>4

\* A call that gives one descriptor of its own process a new, correct element.
LEMMA ElementFds ==
  ASSUME FdInv, NEW s \in live, NEW f \in Available, NEW e \in Element,
         e = Empty \/ OpenElement(e),
         fds' = [fds EXCEPT ![s][f] = e], UNCHANGED <<live, arg, given>>
  PROVE  FdInv'
<1> USE DEF FdInv, TypeOK
<1>1. f \in Fds /\ f # 0 /\ f # 1 /\ s \in Slots
  BY DEF Available
<1>2. fds' \in [Slots -> [Fds -> Element]]
  BY <1>1
<1>3. fds'[s][0] = fds[s][0] /\ fds'[s][1] = fds[s][1]
  BY <1>1, FdsAssumption DEF Fds
<1>4. \A g \in Available : fds'[s][g] = IF g = f THEN e ELSE fds[s][g]
  BY <1>1 DEF Available
<1>5. \A q \in Slots \ {s} : fds'[q] = fds[q]
  OBVIOUS
<1> QED BY <1>2, <1>3, <1>4, <1>5 DEF OpenElement, Thing

LEMMA OpenFds ==
  ASSUME FdInv, NEW s \in live, NEW name \in Names, Open(s, name),
         UNCHANGED <<live, arg, given>>
  PROVE  /\ FdInv'
         /\ Min(FreeFds[s]) \in Available /\ fds[s][Min(FreeFds[s])] = Empty
<1> DEFINE f == Min(FreeFds[s])
           d == Dentry(DentryByName(name))
           e == [table |-> d.type, inode |-> d.inode, pos |-> 0, flags |-> 1]
<1>1. s \in Slots /\ FreeFds[s] = {g \in Fds : fds[s][g].flags # 1}
  BY DEF FdInv, TypeOK, FreeFds
<1>2. f \in FreeFds[s]
  <2>1. FreeFds[s] \in SUBSET Nat /\ FreeFds[s] # {}
    BY <1>1 DEF Open, Fds
  <2> HIDE DEF f
  <2> QED BY <2>1, MinIsLeast DEF f
<1>3. f \in Available
  <2>1. fds[s][0].flags = 1 /\ fds[s][1].flags = 1
    BY DEF FdInv, Stdio
  <2> HIDE DEF f
  <2> QED BY <1>1, <1>2, <2>1 DEF Available
<1>4. fds[s][f] = Empty
  BY <1>1, <1>2, <1>3 DEF FdInv, OpenElement
<1>5. /\ d.type \in Types /\ d.inode \in DOMAIN Inodes
      /\ [type |-> d.type, inode |-> d.inode] \in Things
  BY NameFound, DentryType DEF Open
<1>6. d.inode \in Nat /\ Inodes[d.inode].size >= 0
  BY <1>5, DentriesAssumption, InodesAssumption
<1>7. e \in Element /\ OpenElement(e)
  BY <1>5, <1>6 DEF Element, OpenElement, Thing
<1>8. fds' = [fds EXCEPT ![s][f] = e]
  BY DEF Open
<1> QED BY <1>3, <1>4, <1>7, <1>8, ElementFds

\* What every descriptor that a call may read has.
LEMMA ActiveElement ==
  ASSUME FdInv, NEW s \in live, NEW f \in Available, Active(s, f)
  PROVE  fds[s][f] \in Element /\ OpenElement(fds[s][f])
BY DEF FdInv, TypeOK, Active, Available, Empty

\* A call that moves the position of a descriptor, within the file if it is one.
LEMMA PositionFds ==
  ASSUME FdInv, NEW s \in live, NEW f \in Available, Active(s, f), NEW p \in Nat,
         fds' = [fds EXCEPT ![s][f].pos = p], UNCHANGED <<live, arg, given>>,
         fds[s][f].table = "file" => p <= Inodes[fds[s][f].inode].size
  PROVE  FdInv'
<1> DEFINE e == [fds[s][f] EXCEPT !.pos = p]
<1>1. fds[s][f] \in Element /\ OpenElement(fds[s][f])
  BY ActiveElement
<1>2. e \in Element /\ OpenElement(e)
  BY <1>1 DEF Element, OpenElement, Thing
<1>3. fds' = [fds EXCEPT ![s][f] = e]
  BY DEF FdInv, TypeOK, Available
<1> HIDE DEF e
<1> QED BY <1>2, <1>3, ElementFds

\* read_data stops at the end of the file, which no position lies beyond.
LEMMA CopiedWithin ==
  ASSUME FdInv, NEW s \in live, NEW f \in Available, Active(s, f), NEW n \in Sizes,
         fds[s][f].table = "file"
  PROVE  LET e == fds[s][f]
             size == Inodes[e.inode].size
         IN  /\ e.inode \in DOMAIN Inodes /\ e.pos \in 0 .. size /\ size \in Nat /\ n \in Nat
             /\ e.pos + n < WORD
             /\ Copied(e.inode, e.pos, n) = (IF e.pos + n < size THEN n ELSE size - e.pos)
             /\ (e.pos + Copied(e.inode, e.pos, n)) % WORD = e.pos + Copied(e.inode, e.pos, n)
<1> DEFINE e == fds[s][f]
           size == Inodes[e.inode].size
<1>1. e \in Element /\ OpenElement(e)
  BY ActiveElement
<1>2. e.inode \in DOMAIN Inodes
  <2>1. PICK i \in DOMAIN Dentries : Dentries[i].inode = e.inode
    BY <1>1 DEF OpenElement, Thing, Things
  <2>2. Dentries[i] \in [name : Names, type : Types, inode : DOMAIN Inodes]
    <3>1. i \in 1 .. Len(Dentries)
      BY DentriesAssumption, LenProperties
    <3> QED BY <3>1, DentriesAssumption, ElementOfSeq
  <2> QED BY <2>1, <2>2
<1>3. size \in 0 .. WORD - 1 /\ WORD \in Nat /\ n \in Nat /\ size + n < WORD
  BY <1>2, InodesAssumption, SizesAssumption, LengthsAssumption
<1>4. e.pos \in Nat /\ e.pos <= size
  BY <1>1 DEF Element, OpenElement
<1>5. \A k \in 0 .. WORD - 1 : k % WORD = k
  BY <1>3
<1>6. (e.pos + n) % WORD = e.pos + n
  <2>1. e.pos + n \in 0 .. WORD - 1
    BY <1>3, <1>4
  <2> QED BY <1>5, <2>1, Zenon
<1>7. Copied(e.inode, e.pos, n) = (IF e.pos + n < size THEN n ELSE size - e.pos)
  BY <1>3, <1>4, <1>6 DEF Copied, End
<1>8. e.pos + Copied(e.inode, e.pos, n) \in 0 .. WORD - 1
  BY <1>3, <1>4, <1>7
<1> QED BY <1>2, <1>3, <1>4, <1>5, <1>7, <1>8

LEMMA CloseFds ==
  ASSUME FdInv, NEW s \in live, NEW f \in Asked, Close(s, f), UNCHANGED <<live, arg, given>>
  PROVE  FdInv'
<1>1. f \in Available /\ fds' = [fds EXCEPT ![s][f] = Empty]
  BY DEF Close
<1>2. Empty \in Element
  BY DEF Empty, Element
<1> QED BY <1>1, <1>2, ElementFds

LEMMA ReadFds ==
  ASSUME FdInv, NEW s \in live, NEW f \in Asked, NEW n \in Sizes,
         ReadFile(s, f, n) \/ ReadDirectoryEntry(s, f, n) \/ ReadClock(s, f, n),
         UNCHANGED <<live, arg, given>>
  PROVE  FdInv'
<1> DEFINE e == fds[s][f]
<1>1. f \in Available /\ Active(s, f)
  BY DEF ReadFile, ReadDirectoryEntry, ReadClock
<1>2. e.pos \in Nat /\ WORD \in Nat \ {0}
  BY <1>1, ActiveElement, SizesAssumption DEF Element
<1>3. CASE ReadFile(s, f, n)
  <2> DEFINE p == e.pos + Copied(e.inode, e.pos, n)
  <2>1. e.table = "file" /\ fds' = [fds EXCEPT ![s][f].pos = p]
    BY <1>1, <1>3, CopiedWithin DEF ReadFile
  <2>2. p \in Nat /\ p <= Inodes[e.inode].size
    BY <1>1, <2>1, CopiedWithin
  <2> HIDE DEF p
  <2> QED BY <1>1, <2>1, <2>2, PositionFds
<1>4. CASE ReadDirectoryEntry(s, f, n)
  <2> DEFINE p == IF Kind(e) = "dir" THEN e.pos + 1 ELSE e.pos
  <2>1. p \in Nat /\ e.table # "file" /\ fds' = [fds EXCEPT ![s][f].pos = p]
    BY <1>2, <1>4 DEF ReadDirectoryEntry
  <2> HIDE DEF p
  <2> QED BY <1>1, <2>1, PositionFds
<1>5. CASE ReadClock(s, f, n)
  <2> DEFINE p == IF Kind(e) = "dir" THEN (e.pos + 1) % WORD ELSE e.pos
  <2>1. p \in Nat /\ e.table # "file" /\ fds' = [fds EXCEPT ![s][f].pos = p]
    BY <1>2, <1>5 DEF ReadClock
  <2> HIDE DEF p
  <2> QED BY <1>1, <2>1, PositionFds
<1> QED BY <1>3, <1>4, <1>5

LEMMA CallFds ==
  ASSUME FdInv, NEW s \in Slots, Call(s)
  PROVE  FdInv'
<1> USE DEF Call
<1>1. s \in live /\ UNCHANGED <<live, arg, given>>
  OBVIOUS
<1>2. CASE UNCHANGED fds
  BY <1>1, <1>2, ReplyOnly
<1>3. CASE \E name \in Names : Open(s, name)
  BY <1>1, <1>3, OpenFds
<1>4. CASE \E f \in Asked : Close(s, f)
  BY <1>1, <1>4, CloseFds
<1>5. CASE \E f \in Asked, n \in Sizes :
             ReadFile(s, f, n) \/ ReadDirectoryEntry(s, f, n) \/ ReadClock(s, f, n)
  BY <1>1, <1>5, ReadFds
<1> QED BY <1>2, <1>3, <1>4, <1>5
        DEF OpenFails, CloseFails, ReadFails, WriteFails, Write, ReadTerminal, GetArgs

LEMMA NextFds == FdInv /\ [Next]_vars => FdInv'
<1> SUFFICES ASSUME FdInv, [Next]_vars PROVE FdInv'
  OBVIOUS
<1>1. CASE UNCHANGED vars
  BY <1>1, ReplyOnly DEF vars
<1>2. CASE Next
  BY <1>2, ExecuteFds, HaltFds, CallFds DEF Next
<1> QED BY <1>1, <1>2

\* The descriptors of a live process are what it opened and nothing a process
\* before it in the slot left behind (open, close, execute, halt).
THEOREM FdCorrect == Spec => []FdInv
<1>1. Init => FdInv
  BY InitFds
<1>2. FdInv /\ [Next]_vars => FdInv'
  BY NextFds
<1> QED BY <1>1, <1>2, PTL DEF Spec

\* If no command ends with a space, every program gets its own argument (execute
\* and getargs).
LEMMA ArgumentCorrect == ASSUME Blank \notin Commands PROVE Spec => []OwnArgument
<1>1. Init => OwnArgument
  BY DEF Init, OwnArgument
<1>2. FdInv /\ OwnArgument /\ [Next]_vars => OwnArgument'
  <2> SUFFICES ASSUME FdInv, OwnArgument, [Next]_vars PROVE OwnArgument'
    OBVIOUS
  <2> USE DEF FdInv, TypeOK, OwnArgument
  <2>1. CASE \E s \in Slots, c \in Commands : Execute(s, c)
    BY <2>1 DEF Execute, Stored
  <2>2. CASE \E s \in Slots : Halt(s) \/ Call(s)
    BY <2>2 DEF Halt, Call
  <2>3. CASE UNCHANGED vars
    BY <2>3 DEF vars
  <2> QED BY <2>1, <2>2, <2>3 DEF Next
<1> QED BY <1>1, <1>2, FdCorrect, PTL DEF Spec

-----------------------------------------------------------------------------
(* The refinement                                                          *)

LEMMA FilesOf ==
  ASSUME FdInv, NEW s \in Slots, NEW b, fds' = [fds EXCEPT ![s] = b]
  PROVE  Files' = [Files EXCEPT ![s] = OpenFiles(b)]
BY DEF FdInv, TypeOK, Files

LEMMA FilesSame == ASSUME UNCHANGED fds PROVE UNCHANGED Files
BY DEF Files, OpenFiles, Opened, Thing, Delivered

LEMMA ArrayOpened ==
  ASSUME NEW a \in [Fds -> Element], NEW f \in Available, NEW e \in Element, e.flags = 1
  PROVE  OpenFiles([a EXCEPT ![f] = e]) =
           [g \in DOMAIN OpenFiles(a) \cup {f} |->
              IF g = f THEN Opened(e) ELSE OpenFiles(a)[g]]
<1> DEFINE b == [a EXCEPT ![f] = e]
<1>1. b \in [Fds -> Element] /\ b[f] = e /\ \A g \in Available \ {f} : b[g] = a[g]
  BY DEF Available
<1>2. {g \in Available : b[g].flags = 1} = {g \in Available : a[g].flags = 1} \cup {f}
  BY <1>1
<1> HIDE DEF b
<1>3. OpenFiles(b) = [g \in DOMAIN OpenFiles(a) \cup {f} |->
                        IF g = f THEN Opened(e) ELSE OpenFiles(a)[g]]
  <2>1. \A g \in Available : (g # f /\ b[g].flags = 1) => a[g].flags = 1 /\ b[g] = a[g]
    BY <1>1
  <2>2. \A c \in {a, b} : OpenFiles(c) = [g \in {h \in Available : c[h].flags = 1} |-> Opened(c[g])]
    BY DEF OpenFiles
  <2> QED BY <1>1, <1>2, <2>1, <2>2
<1> QED BY <1>3 DEF b

LEMMA ArrayClosed ==
  ASSUME NEW a \in [Fds -> Element], NEW f \in Available
  PROVE  OpenFiles([a EXCEPT ![f] = Empty]) =
           [g \in DOMAIN OpenFiles(a) \ {f} |-> OpenFiles(a)[g]]
<1> DEFINE b == [a EXCEPT ![f] = Empty]
<1>1. b[f].flags # 1 /\ \A g \in Available \ {f} : b[g] = a[g]
  BY DEF Available, Empty
<1>2. {g \in Available : b[g].flags = 1} = {g \in Available : a[g].flags = 1} \ {f}
  BY <1>1
<1> HIDE DEF b
<1>3. OpenFiles(b) = [g \in DOMAIN OpenFiles(a) \ {f} |-> OpenFiles(a)[g]]
  BY <1>1, <1>2 DEF OpenFiles
<1> QED BY <1>3 DEF b

LEMMA InitPromise == Init => Promise!Init
<1> SUFFICES ASSUME Init PROVE Promise!Init
  OBVIOUS
<1>1. \A s \in Slots : OpenFiles(fds[s]) = Promise!NoFiles
  BY DEF Init, OpenFiles, Empty, Available, Promise!NoFiles
<1>2. Files = [s \in Slots |-> Promise!NoFiles]
  BY <1>1 DEF Files
<1> QED BY <1>2 DEF Init, Promise!Init

\* A new program has no open files, and neither has a slot whose process ended.
LEMMA ExecutePromise ==
  ASSUME FdInv, NEW s \in Slots, NEW c \in Commands \ {Blank}, Execute(s, c)
  PROVE  Promise!Start(s)
<1> DEFINE b == [f \in Fds |-> IF f \in {0, 1} THEN Stdio ELSE Empty]
<1>1. OpenFiles(b) = Promise!NoFiles
  BY DEF OpenFiles, Available, Empty, Promise!NoFiles
<1>2. Files' = [Files EXCEPT ![s] = Promise!NoFiles]
  BY <1>1, FilesOf DEF Execute
<1>3. c \in Args /\ given' = [given EXCEPT ![s] = c] /\ UNCHANGED reply
  BY DEF Args, Execute
<1> QED BY <1>2, <1>3 DEF Promise!Start

LEMMA HaltPromise ==
  ASSUME FdInv, NEW s \in Slots, Halt(s)
  PROVE  Promise!Exit(s)
<1> DEFINE b == [f \in Fds |-> IF f \in Available /\ fds[s][f].flags = 1 THEN Empty ELSE fds[s][f]]
<1>1. OpenFiles(b) = Promise!NoFiles
  BY DEF OpenFiles, Available, Empty, Promise!NoFiles
<1>2. fds' = [fds EXCEPT ![s] = b]
  BY DEF Halt
<1>3. Files' = [Files EXCEPT ![s] = Promise!NoFiles]
  BY <1>1, <1>2, FilesOf
<1> QED BY <1>3 DEF Halt, Promise!Exit

\* The open files of a process are its active descriptors.
LEMMA ActiveIsOpen ==
  ASSUME FdInv, NEW s \in Slots, NEW f
  PROVE  /\ f \in DOMAIN Files[s] <=> f \in Available /\ Active(s, f)
         /\ f \in DOMAIN Files[s] => Files[s][f] = Opened(fds[s][f])
BY DEF Files, OpenFiles, Active, Available

LEMMA OpenPromise ==
  ASSUME FdInv, NEW s \in live, NEW name \in Names, Open(s, name),
         UNCHANGED <<live, arg, given>>
  PROVE  Promise!Open(s, name)
<1> DEFINE f == Min(FreeFds[s])
           d == Dentry(DentryByName(name))
           e == [table |-> d.type, inode |-> d.inode, pos |-> 0, flags |-> 1]
           found == [type |-> d.type, inode |-> d.inode]
           a == fds[s]
<1>1. f \in Available /\ a[f] = Empty /\ s \in Slots /\ a \in [Fds -> Element]
  BY OpenFds DEF FdInv, TypeOK
<1>2. fds' = [fds EXCEPT ![s][f] = e] /\ reply' = [op |-> "open", slot |-> s, on |-> name,
                                                     ret |-> f, data |-> <<>>]
  BY DEF Open, Answer
<1>3. d.type \in Types /\ d.inode \in Nat /\ NumDentries \in Nat
  <2>1. d.type \in Types /\ d.inode \in DOMAIN Inodes
    BY NameFound, DentryType DEF Open
  <2> QED BY <2>1, DentriesAssumption, LenProperties DEF NumDentries
<1>4. e \in Element /\ Opened(e) = [of |-> found, at |-> 0]
  BY <1>3 DEF Element, Opened, Thing, Delivered, Types
<1>5. name \in Existing
  BY DEF Existing, Open
<1>6. Files' = [Files EXCEPT ![s] = OpenFiles([a EXCEPT ![f] = e])]
  <2>1. fds' = [fds EXCEPT ![s] = [a EXCEPT ![f] = e]]
    BY <1>2
  <2> HIDE DEF a, f, e
  <2> QED BY <1>1, <2>1, FilesOf
<1>7. OpenFiles(a) = Files[s]
  BY <1>1 DEF Files
<1>8. OpenFiles([a EXCEPT ![f] = e]) =
        [g \in DOMAIN Files[s] \cup {f} |->
           IF g = f THEN [of |-> found, at |-> 0] ELSE Files[s][g]]
  <2>1. e.flags = 1
    OBVIOUS
  <2> HIDE DEF a, f, e, found
  <2>2. OpenFiles([a EXCEPT ![f] = e]) =
          [g \in DOMAIN OpenFiles(a) \cup {f} |->
             IF g = f THEN Opened(e) ELSE OpenFiles(a)[g]]
    BY <1>1, <1>4, <2>1, ArrayOpened
  <2> QED BY <1>4, <1>7, <2>2
<1>9. f \notin DOMAIN Files[s]
  <2> HIDE DEF f
  <2> QED BY <1>1, ActiveIsOpen DEF Active, Empty
<1>10. Files' = [Files EXCEPT ![s] =
          [g \in DOMAIN Files[s] \cup {f} |->
             IF g = f THEN [of |-> found, at |-> 0] ELSE Files[s][g]]]
  BY <1>6, <1>8
<1> HIDE DEF f, e, a
<1> QED BY <1>1, <1>2, <1>5, <1>9, <1>10 DEF Promise!Open, Promise!Answer

LEMMA OpenFailsPromise ==
  ASSUME FdInv, NEW s \in live, NEW name \in Names, OpenFails(s, name)
  PROVE  Promise!Open(s, name)
<1>1. UNCHANGED Files /\ Promise!Answer("open", s, name, -1, <<>>)
  BY FilesSame DEF OpenFails, Answer, Promise!Answer
<1>2. CASE FreeFds[s] = {}
  <2>1. s \in Slots
    BY DEF FdInv, TypeOK
  <2>2. \A f \in Available : Active(s, f)
    BY <1>2, <2>1 DEF FreeFds, Available, Active
  <2>3. Available \subseteq DOMAIN Files[s]
    BY <2>1, <2>2, ActiveIsOpen
  <2> QED BY <1>1, <2>3 DEF Promise!Open
<1>3. CASE DentryByName(name) = NotFound
  BY <1>1, <1>3 DEF Promise!Open, Existing
<1> QED BY <1>2, <1>3 DEF OpenFails

LEMMA ClosePromise ==
  ASSUME FdInv, NEW s \in live, NEW f, Close(s, f)
  PROVE  f \in DOMAIN Files[s] /\ Promise!Close(s, f)
<1> DEFINE a == fds[s]
<1>1. s \in Slots /\ a \in [Fds -> Element] /\ f \in Available /\ Active(s, f)
  BY DEF FdInv, TypeOK, Close
<1>2. fds' = [fds EXCEPT ![s] = [a EXCEPT ![f] = Empty]]
  BY DEF Close
<1>3. OpenFiles(a) = Files[s]
  BY <1>1 DEF Files
<1>4. f \in DOMAIN Files[s] /\ Promise!Answer("close", s, f, 0, <<>>)
  BY <1>1, ActiveIsOpen DEF Close, Answer, Promise!Answer
<1> HIDE DEF a
<1>5. Files' = [Files EXCEPT ![s] = OpenFiles([a EXCEPT ![f] = Empty])]
  BY <1>1, <1>2, FilesOf
<1>6. OpenFiles([a EXCEPT ![f] = Empty]) = [g \in DOMAIN Files[s] \ {f} |-> Files[s][g]]
  <2>1. OpenFiles([a EXCEPT ![f] = Empty]) =
          [g \in DOMAIN OpenFiles(a) \ {f} |-> OpenFiles(a)[g]]
    BY <1>1, ArrayClosed
  <2> QED BY <1>3, <2>1
<1> QED BY <1>4, <1>5, <1>6 DEF Promise!Close, Promise!Answer

\* A call that moves a position moves the delivered part of the open file.
LEMMA MovedFile ==
  ASSUME FdInv, NEW s \in live, NEW f \in Available, Active(s, f), NEW p \in Nat,
         fds' = [fds EXCEPT ![s][f].pos = p],
         NEW t, t = Delivered([fds[s][f] EXCEPT !.pos = p])
  PROVE  /\ f \in DOMAIN Files[s] /\ Files[s][f] = Opened(fds[s][f])
         /\ \A g : g = [Files EXCEPT ![s][f].at = t] => Files' = g
<1> DEFINE a == fds[s]
           e == [a[f] EXCEPT !.pos = p]
<1>1. s \in Slots /\ a \in [Fds -> Element] /\ a[f] \in Element /\ a[f].flags = 1
  BY DEF FdInv, TypeOK, Active, Available
<1>2. f \in DOMAIN Files[s] /\ Files[s][f] = Opened(a[f])
  BY <1>1, ActiveIsOpen
<1>3. e \in Element /\ e.flags = 1 /\ Opened(e) = [Opened(a[f]) EXCEPT !.at = t]
  BY <1>1 DEF Element, Opened, Thing
<1>4. fds' = [fds EXCEPT ![s] = [a EXCEPT ![f] = e]]
  BY <1>1 DEF FdInv, TypeOK
<1>5. OpenFiles(a) = Files[s]
  BY <1>1 DEF Files
<1> HIDE DEF a, e
<1>6. Files' = [Files EXCEPT ![s] = OpenFiles([a EXCEPT ![f] = e])]
  BY <1>1, <1>4, FilesOf
<1>7. OpenFiles([a EXCEPT ![f] = e]) =
        [g \in DOMAIN OpenFiles(a) \cup {f} |-> IF g = f THEN Opened(e) ELSE OpenFiles(a)[g]]
  <2>1. ASSUME NEW x \in [Fds -> Element], NEW y \in Element, y.flags = 1
        PROVE  OpenFiles([x EXCEPT ![f] = y]) =
                 [g \in DOMAIN OpenFiles(x) \cup {f} |-> IF g = f THEN Opened(y) ELSE OpenFiles(x)[g]]
    BY <2>1, ArrayOpened
  <2> QED BY <1>1, <1>3, <2>1
<1>8. OpenFiles([a EXCEPT ![f] = e]) = [Files[s] EXCEPT ![f].at = t]
  <2>1. DOMAIN Files[s] \cup {f} = DOMAIN Files[s]
    BY <1>2
  <2>2. Files[s] = [g \in DOMAIN Files[s] |-> Files[s][g]]
    BY <1>5 DEF OpenFiles
  <2>3. OpenFiles([a EXCEPT ![f] = e]) =
          [g \in DOMAIN Files[s] |-> IF g = f THEN [Files[s][f] EXCEPT !.at = t] ELSE Files[s][g]]
    BY <1>2, <1>3, <1>5, <1>7, <2>1
  <2> HIDE DEF OpenFiles, Files
  <2> QED BY <1>2, <2>2, <2>3
<1> QED BY <1>2, <1>6, <1>8 DEF a

LEMMA MovedPromise ==
  ASSUME FdInv, NEW s \in live, NEW f \in Available, Active(s, f), NEW p \in Nat, NEW n \in Sizes,
         fds' = [fds EXCEPT ![s][f].pos = p],
         NEW t, t = Delivered([fds[s][f] EXCEPT !.pos = p]),
         t = Promise!Upto(Opened(fds[s][f]), n),
         reply' = [op |-> "read", slot |-> s, on |-> f, ret |-> t - Delivered(fds[s][f]),
                   data |-> Promise!Part(Opened(fds[s][f]), n)]
  PROVE  f \in DOMAIN Files[s] /\ Promise!Read(s, f)
<1>1. f \in DOMAIN Files[s] /\ Files[s][f] = Opened(fds[s][f])
  BY MovedFile
<1>2. Files' = [Files EXCEPT ![s][f].at = t]
  <2> DEFINE g == [Files EXCEPT ![s][f].at = t]
  <2> SUFFICES Files' = g
    OBVIOUS
  <2>1. g = [Files EXCEPT ![s][f].at = t]
    OBVIOUS
  <2> HIDE DEF g
  <2> QED BY MovedFile, <2>1
<1>3. Opened(fds[s][f]).at = Delivered(fds[s][f])
  BY DEF Opened
<1>4. /\ Promise!Upto(Files[s][f], n) = t
      /\ Promise!Part(Files[s][f], n) = Promise!Part(Opened(fds[s][f]), n)
      /\ Files[s][f].at = Delivered(fds[s][f])
  BY <1>1, <1>3
<1> QED BY <1>1, <1>2, <1>4 DEF Promise!Read, Promise!Answer

\* What there is to read in an open file.
LEMMA ContentsOf ==
  ASSUME NEW e \in Element, OpenElement(e)
  PROVE  /\ e.table = "file" => Contents[Thing(e)] = Text(e.inode)
         /\ e.table = "dir" => Contents[Thing(e)] = Listing
         /\ e.table = "rtc" => Contents[Thing(e)] = <<>>
<1>1. Thing(e) \in Things /\ Thing(e).type = e.table /\ Thing(e).inode = e.inode
  BY DEF OpenElement, Thing
<1> QED BY <1>1 DEF Contents

LEMMA ReadFilePromise ==
  ASSUME FdInv, NEW s \in live, NEW f \in Asked, NEW n \in Sizes, ReadFile(s, f, n)
  PROVE  f \in DOMAIN Files[s] /\ Promise!Read(s, f)
<1> DEFINE e == fds[s][f]
           size == Inodes[e.inode].size
           copied == Copied(e.inode, e.pos, n)
           p == e.pos + copied
<1>1. f \in Available /\ Active(s, f) /\ e.table = "file"
  BY DEF ReadFile
<1>2. /\ e.inode \in DOMAIN Inodes /\ e.pos \in 0 .. size /\ size \in Nat /\ n \in Nat
      /\ copied = (IF e.pos + n < size THEN n ELSE size - e.pos)
      /\ p % WORD = p
  BY <1>1, CopiedWithin
<1>3. e \in Element /\ OpenElement(e)
  BY <1>1, ActiveElement
<1>4. Contents[Thing(e)] = Text(e.inode) /\ Len(Text(e.inode)) = size
  BY <1>1, <1>2, <1>3, ContentsOf, LengthOfText
<1>5. p \in Nat /\ p = (IF e.pos + n < size THEN e.pos + n ELSE size)
  BY <1>2
<1>6. fds' = [fds EXCEPT ![s][f].pos = p]
  BY <1>2 DEF ReadFile
<1>7. Delivered(e) = e.pos /\ Delivered([e EXCEPT !.pos = p]) = p
  BY <1>1, <1>3 DEF Delivered, Element
<1>8. Promise!Upto(Opened(e), n) = p
  BY <1>1, <1>4, <1>5, <1>7 DEF Promise!Upto, Opened, Thing
<1>9. Promise!Part(Opened(e), n) = ReadData(e.inode, e.pos, n)
  <2>1. p - e.pos = copied /\ copied \in Nat
    BY <1>2
  <2>2. \A k \in 1 .. copied : Text(e.inode)[e.pos + k] = Byte(e.inode, e.pos + k - 1)
    BY <1>2, <1>5, <2>1, ByteOfText
  <2>3. Promise!Part(Opened(e), n) = [k \in 1 .. copied |-> Text(e.inode)[e.pos + k]]
    BY <1>4, <1>7, <1>8, <2>1 DEF Promise!Part, Opened
  <2> QED BY <2>2, <2>3 DEF ReadData
<1>10. p - Delivered(e) = copied
  BY <1>2, <1>7
<1>11. reply' = [op |-> "read", slot |-> s, on |-> f, ret |-> p - Delivered(e),
                 data |-> Promise!Part(Opened(e), n)]
  BY <1>9, <1>10 DEF ReadFile, Answer
<1> HIDE DEF p, copied
<1> QED BY <1>1, <1>5, <1>6, <1>7, <1>8, <1>11, MovedPromise

LEMMA ReadDirectoryPromise ==
  ASSUME FdInv, NEW s \in live, NEW f \in Asked, NEW n \in Sizes, ReadDirectoryEntry(s, f, n)
  PROVE  f \in DOMAIN Files[s] /\ Promise!Read(s, f)
<1> DEFINE e == fds[s][f]
           N == NumDentries
           p == e.pos + 1
           at == IF e.pos < N THEN e.pos ELSE N
           t == IF p < N THEN p ELSE N
<1>1. f \in Available /\ Active(s, f) /\ e.table = "dir"
  BY DEF ReadDirectoryEntry
<1>2. e \in Element /\ OpenElement(e)
  BY <1>1, ActiveElement
<1>3. Kind(e) = "dir"
  BY <1>1, <1>2, DirectoryKind DEF Kind, OpenElement, Thing
<1>4. fds' = [fds EXCEPT ![s][f].pos = p] /\ reply' =
        [op |-> "read", slot |-> s, on |-> f, ret |-> Len(ReadDirectory(e.pos)),
         data |-> ReadDirectory(e.pos)]
  BY <1>3 DEF ReadDirectoryEntry, Answer
<1>5. N \in Nat /\ e.pos \in Nat /\ p \in Nat
  BY <1>2, DentriesAssumption, LenProperties DEF NumDentries, Element
<1>6. Contents[Thing(e)] = Listing /\ Len(Listing) = N
  BY <1>1, <1>2, <1>5, ContentsOf, LengthOf DEF Listing
<1>7. Delivered(e) = at /\ Delivered([e EXCEPT !.pos = p]) = t
  BY <1>1, <1>2 DEF Delivered, Element
<1>8. Promise!Upto(Opened(e), n) = t
  BY <1>1, <1>5, <1>6, <1>7 DEF Promise!Upto, Opened, Thing
<1>9. Promise!Part(Opened(e), n) = ReadDirectory(e.pos) /\ Len(ReadDirectory(e.pos)) = t - at
  <2>1. Promise!Part(Opened(e), n) = [k \in 1 .. t - at |-> Listing[at + k]]
    BY <1>6, <1>7, <1>8 DEF Promise!Part, Opened
  <2>2. CASE e.pos < N
    <3>1. at = e.pos /\ t - at = 1 /\ Listing[at + 1] = Dentry(e.pos).name
      BY <1>5, <2>2 DEF Listing, Dentry
    <3>2. Promise!Part(Opened(e), n) = [k \in 1 .. 1 |-> Dentry(e.pos).name]
      BY <2>1, <3>1
    <3>3. ReadDirectory(e.pos) = <<Dentry(e.pos).name>>
      BY <2>2 DEF ReadDirectory
    <3> HIDE DEF at, t
    <3> QED BY <3>1, <3>2, <3>3
  <2>3. CASE ~ (e.pos < N)
    <3>1. t - at = 0 /\ ReadDirectory(e.pos) = <<>>
      BY <1>5, <2>3 DEF ReadDirectory
    <3> HIDE DEF at, t
    <3> QED BY <2>1, <3>1
  <2> QED BY <2>2, <2>3
<1> HIDE DEF p, t, at
<1> QED BY <1>1, <1>4, <1>5, <1>7, <1>8, <1>9, MovedPromise

LEMMA ReadClockPromise ==
  ASSUME FdInv, NEW s \in live, NEW f \in Asked, NEW n \in Sizes, ReadClock(s, f, n)
  PROVE  f \in DOMAIN Files[s] /\ Promise!Read(s, f)
<1> DEFINE e == fds[s][f]
           p == IF Kind(e) = "dir" THEN (e.pos + 1) % WORD ELSE e.pos
           t == 0
<1>1. f \in Available /\ Active(s, f) /\ e.table = "rtc"
  BY DEF ReadClock
<1>2. e \in Element /\ OpenElement(e)
  BY <1>1, ActiveElement
<1>3. p \in Nat /\ n \in Nat
  BY <1>2, SizesAssumption, LengthsAssumption DEF Element
<1>4. fds' = [fds EXCEPT ![s][f].pos = p] /\ reply' =
        [op |-> "read", slot |-> s, on |-> f, ret |-> 0, data |-> <<>>]
  BY DEF ReadClock, Answer
<1>5. Delivered(e) = t /\ Delivered([e EXCEPT !.pos = p]) = t
  BY <1>1, <1>2 DEF Delivered, Element
<1>6. Contents[Thing(e)] = <<>>
  BY <1>1, <1>2, ContentsOf
<1>7. Promise!Upto(Opened(e), n) = t
  BY <1>1, <1>3, <1>5, <1>6 DEF Promise!Upto, Opened, Thing
<1>8. Promise!Part(Opened(e), n) = <<>>
  BY <1>5, <1>6, <1>7 DEF Promise!Part, Opened
<1>9. t - Delivered(e) = 0
  BY <1>5
<1> HIDE DEF p, t
<1> QED BY <1>1, <1>3, <1>4, <1>5, <1>7, <1>8, <1>9, MovedPromise

LEMMA RefusePromise ==
  ASSUME FdInv, NEW s \in live, NEW f \in Asked,
         CloseFails(s, f) \/ ReadFails(s, f) \/ WriteFails(s, f)
  PROVE  f \in Asked \ DOMAIN Files[s] /\ Promise!Refuse(s, f)
<1>1. s \in Slots /\ UNCHANGED Files
  BY FilesSame DEF FdInv, TypeOK, CloseFails, ReadFails, WriteFails
<1>2. f \notin DOMAIN Files[s]
  BY <1>1, ActiveIsOpen DEF CloseFails, ReadFails, WriteFails, Available
<1> QED BY <1>1, <1>2
        DEF CloseFails, ReadFails, WriteFails, Answer, Promise!Refuse, Promise!Answer

LEMMA WritePromise ==
  ASSUME FdInv, NEW s \in live, NEW f \in Asked, NEW n \in Sizes, Write(s, f, n)
  PROVE  Promise!Terminal(s) \/ (f \in DOMAIN Files[s] /\ Promise!Write(s, f))
<1>1. s \in Slots /\ UNCHANGED Files
  BY FilesSame DEF FdInv, TypeOK, Write
<1>2. CASE f = 1
  BY <1>1, <1>2 DEF Write, Answer, Promise!Terminal, Promise!Answer
<1>3. CASE f # 1
  <2>1. f \in Available /\ Active(s, f)
    BY <1>3 DEF Write, Active, Available
  <2>2. f \in DOMAIN Files[s] /\ Files[s][f].of.type = fds[s][f].table
    <3>1. f \in DOMAIN Files[s] /\ Files[s][f] = Opened(fds[s][f])
      BY <1>1, <2>1, ActiveIsOpen
    <3>2. Opened(fds[s][f]).of.type = fds[s][f].table
      BY DEF Opened, Thing
    <3> QED BY <3>1, <3>2
  <2> QED BY <1>1, <1>3, <2>2 DEF Write, Answer, Promise!Write, Promise!Answer
<1> QED BY <1>2, <1>3

LEMMA CallPromise ==
  ASSUME FdInv, OwnArgument, NEW s \in Slots, Call(s)
  PROVE  Promise!Call(s)
<1>1. s \in live /\ UNCHANGED <<live, arg, given>>
  BY DEF Call
<1> USE DEF Promise!Call
<1>2. CASE \E name \in Names : Open(s, name)
  BY <1>1, <1>2, OpenPromise
<1>3. CASE \E name \in Names : OpenFails(s, name)
  BY <1>1, <1>3, OpenFailsPromise
<1>4. CASE \E f \in Asked : Close(s, f)
  BY <1>1, <1>4, ClosePromise
<1>5. CASE \E f \in Asked, n \in Sizes :
             ReadFile(s, f, n) \/ ReadDirectoryEntry(s, f, n) \/ ReadClock(s, f, n)
  BY <1>1, <1>5, ReadFilePromise, ReadDirectoryPromise, ReadClockPromise
<1>6. CASE \E f \in Asked, n \in Sizes : Write(s, f, n)
  BY <1>1, <1>6, WritePromise
<1>7. CASE \E f \in Asked : CloseFails(s, f) \/ ReadFails(s, f) \/ WriteFails(s, f)
  BY <1>1, <1>7, RefusePromise
<1>8. CASE \E n \in Sizes : ReadTerminal(s, n)
  <2>1. Promise!Terminal(s)
    BY <1>8, FilesSame DEF ReadTerminal, Answer, Promise!Terminal, Promise!Answer
  <2> QED BY <1>1, <2>1
<1>9. CASE GetArgs(s)
  <2>1. arg[s] = given[s]
    BY <1>1 DEF OwnArgument
  <2>2. Promise!GetArgs(s)
    BY <1>9, <2>1, FilesSame DEF GetArgs, Answer, Promise!GetArgs, Promise!Answer
  <2> QED BY <1>1, <2>2
<1> QED BY <1>2, <1>3, <1>4, <1>5, <1>6, <1>7, <1>8, <1>9 DEF Call

LEMMA NextPromise ==
  ASSUME Blank \notin Commands, FdInv, OwnArgument, [Next]_vars
  PROVE  [Promise!Next]_<<Files, given, reply>>
<1>1. CASE UNCHANGED vars
  BY <1>1, FilesSame DEF vars
<1>2. CASE Next
  BY <1>2, ExecutePromise, HaltPromise, CallPromise DEF Next, Promise!Next
<1> QED BY <1>1, <1>2

\* If no command ends with a space, the file calls implement Descriptors: the
\* fd_array, the dispatch by inode number and the copying block by block deliver
\* what programs are promised.
THEOREM PromiseKept == ASSUME Blank \notin Commands PROVE Spec => KeepsPromise
<1>1. Init => Promise!Init
  BY InitPromise
<1>2. FdInv /\ OwnArgument /\ [Next]_vars => [Promise!Next]_<<Files, given, reply>>
  BY NextPromise
<1>3. Spec => []FdInv
  BY FdCorrect
<1>4. Spec => []OwnArgument
  BY ArgumentCorrect
<1> QED BY <1>1, <1>2, <1>3, <1>4, PTL DEF Spec, KeepsPromise, Promise!Spec
=============================================================================
