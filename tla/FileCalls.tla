----------------------------- MODULE FileCalls -----------------------------
(***************************************************************************)
(* The system calls on files (system_calls.c): open, close, read, write    *)
(* and getargs, and what execute and halt do to the descriptors and the    *)
(* argument of a process.  Every call works on the PCB of its own process, *)
(* so a call is one step.                                                  *)
(***************************************************************************)
EXTENDS FileImage

CONSTANTS
  Slots,            \* process slots
  FD_ARRAY_LENGTH,  \* descriptors of a process: 8 in system_calls.h
  Sizes,            \* nbytes of the calls
  LineLengths,      \* lengths of the lines that the terminal delivers
  Commands,         \* what follows the program's name in a command
  NoArg,            \* nothing
  Blank             \* a space and nothing

Args == (Commands \cup {NoArg}) \ {Blank}

RateBytes == 4      \* NBYTES_SIZE of rtc.h

ASSUME FdsAssumption == FD_ARRAY_LENGTH \in Nat /\ FD_ARRAY_LENGTH > 2
\* A length that reaches over the end of a uint32_t is read_data's to refuse.
ASSUME LengthsAssumption ==
  /\ Sizes \subseteq Nat
  /\ \A n \in DOMAIN Inodes, len \in Sizes : Inodes[n].size + len < WORD

ASSUME BlankAssumption == Blank # NoArg

Fds == 0 .. FD_ARRAY_LENGTH - 1
Available == Fds \ {0, 1}
Asked == -1 .. FD_ARRAY_LENGTH        \* descriptors a program may pass

VARIABLES
  live,   \* slots with a process
  fds,    \* fd_array of each PCB
  arg,    \* arg of each PCB
  given,  \* history: the argument the process was started with
  reply   \* history: the last call and its result

vars == <<live, fds, arg, given, reply>>

Element == [table : Types \cup {"none", "terminal"}, inode : Nat, pos : Nat, flags : {0, 1}]

Empty == [table |-> "none", inode |-> 0, pos |-> 0, flags |-> 0]
Stdio == [table |-> "terminal", inode |-> 0, pos |-> 0, flags |-> 1]

Init ==
  /\ live = {}
  /\ fds = [s \in Slots |-> [f \in Fds |-> Empty]]
  /\ arg = [s \in Slots |-> NoArg]
  /\ given = [s \in Slots |-> NoArg]
  /\ reply = [op |-> "none", slot |-> 0, on |-> 0, ret |-> 0, data |-> <<>>]

Answer(op, s, on, ret, data) ==
  reply' = [op |-> op, slot |-> s, on |-> on, ret |-> ret, data |-> data]

\* The argument is copied only if the command goes on after the space.
Stored(s, c) == IF c = Blank THEN arg[s] ELSE c

\* What execute does to the PCB, and halt below.
Execute(s, c) ==
  /\ s \notin live
  /\ live' = live \cup {s}
  /\ fds' = [fds EXCEPT ![s] = [f \in Fds |-> IF f \in {0, 1} THEN Stdio ELSE Empty]]
  /\ arg' = [arg EXCEPT ![s] = Stored(s, c)]
  /\ given' = [given EXCEPT ![s] = IF c = Blank THEN NoArg ELSE c]
  /\ UNCHANGED reply

\* halt closes every descriptor, which leaves the first two as they are.
Halt(s) ==
  /\ s \in live
  /\ live' = live \ {s}
  /\ fds' = [fds EXCEPT ![s] =
       [f \in Fds |-> IF f \in Available /\ @[f].flags = 1 THEN Empty ELSE @[f]]]
  /\ UNCHANGED <<arg, given, reply>>

Active(s, f) == f \in Fds /\ fds[s][f].flags = 1

FreeFds_Any == [s \in Slots |-> Fds]
FreeFds == [s \in Slots |-> {f \in Fds : fds[s][f].flags # 1}]

\* Opens the first entry of that name; opening the clock also sets its rate.
Open(s, name) ==
  LET f == Min(FreeFds[s])
      d == Dentry(DentryByName(name))
  IN
  /\ FreeFds[s] # {}
  /\ DentryByName(name) # NotFound
  /\ fds' = [fds EXCEPT ![s][f] = [table |-> d.type, inode |-> d.inode, pos |-> 0, flags |-> 1]]
  /\ Answer("open", s, name, f, <<>>)

OpenFails(s, name) ==
  /\ FreeFds[s] = {} \/ DentryByName(name) = NotFound
  /\ Answer("open", s, name, -1, <<>>)
  /\ UNCHANGED fds

Close(s, f) ==
  /\ f \in Available /\ Active(s, f)
  /\ fds' = [fds EXCEPT ![s][f] = Empty]
  /\ Answer("close", s, f, 0, <<>>)

CloseFails(s, f) ==
  /\ f \notin Available \/ ~ Active(s, f)
  /\ Answer("close", s, f, -1, <<>>)
  /\ UNCHANGED fds

\* read takes the type of an open file from the first entry with its inode number
\* and calls the read function of its table.
Kind(e) == Dentry(DentryByInode(e.inode)).type

ReadFile(s, f, n) ==
  LET e == fds[s][f]
      copied == Copied(e.inode, e.pos, n)
  IN
  /\ f \in Available /\ Active(s, f)
  /\ e.table = "file" /\ Kind(e) = "file"
  /\ fds' = [fds EXCEPT ![s][f].pos = (@ + copied) % WORD]
  /\ Answer("read", s, f, copied, ReadData(e.inode, e.pos, n))

\* The position counts the reads, also those after the last entry.  A read of the
\* directory as the clock's type would take the descriptor for the position.
ReadDirectoryEntry(s, f, n) ==
  LET e == fds[s][f]
      index == IF Kind(e) = "dir" THEN e.pos ELSE f
  IN
  /\ f \in Available /\ Active(s, f)
  /\ e.table = "dir" /\ Kind(e) \in Special
  /\ e.pos + 1 < WORD                   \* bound: fewer than 2^32 reads of a directory
  /\ fds' = [fds EXCEPT ![s][f].pos = IF Kind(e) = "dir" THEN @ + 1 ELSE @]
  /\ Answer("read", s, f, Len(ReadDirectory(index)), ReadDirectory(index))

\* rtc_read waits for an interrupt, whatever it is passed.
ReadClock(s, f, n) ==
  LET e == fds[s][f] IN
  /\ f \in Available /\ Active(s, f)
  /\ e.table = "rtc" /\ Kind(e) \in Special
  /\ fds' = [fds EXCEPT ![s][f].pos = IF Kind(e) = "dir" THEN (@ + 1) % WORD ELSE @]
  /\ Answer("read", s, f, 0, <<>>)

\* terminal_read delivers the line that was typed, whatever nbytes it is passed.
ReadTerminal(s, n) ==
  /\ Active(s, 0)
  /\ \E line \in LineLengths : Answer("read", s, 0, line, <<>>)
  /\ UNCHANGED fds

ReadFails(s, f) ==
  /\ f = 1 \/ ~ Active(s, f)
  /\ Answer("read", s, f, -1, <<>>)
  /\ UNCHANGED fds

\* write reaches the terminal and the clock.  terminal_write counts the bytes up to
\* the first NUL, and none if there are more than MAX_INPUT_BUF_LEN.
Write(s, f, n) ==
  /\ f # 0 /\ Active(s, f)
  /\ \/ f = 1 /\ \E k \in 0 .. n : Answer("write", s, f, k, <<>>)
     \/ LET written == fds[s][f].table = "rtc" /\ n = RateBytes IN
        f # 1 /\ Answer("write", s, f, IF written THEN n ELSE -1, <<>>)
  /\ UNCHANGED fds

WriteFails(s, f) ==
  /\ f = 0 \/ ~ Active(s, f)
  /\ Answer("write", s, f, -1, <<>>)
  /\ UNCHANGED fds

GetArgs(s) ==
  /\ Answer("getargs", s, 0, 0, <<arg[s]>>)
  /\ UNCHANGED fds

Call(s) ==
  /\ s \in live
  /\ \/ \E name \in Names : Open(s, name) \/ OpenFails(s, name)
     \/ \E f \in Asked : CloseFails(s, f) \/ ReadFails(s, f) \/ WriteFails(s, f)
     \/ \E f \in Asked : Close(s, f)
     \/ \E f \in Asked, n \in Sizes :
          \/ ReadFile(s, f, n) \/ ReadDirectoryEntry(s, f, n) \/ ReadClock(s, f, n)
          \/ Write(s, f, n)
     \/ \E n \in Sizes : ReadTerminal(s, n)
     \/ GetArgs(s)
  /\ UNCHANGED <<live, arg, given>>

Next == \E s \in Slots : (\E c \in Commands : Execute(s, c)) \/ Halt(s) \/ Call(s)

Spec == Init /\ [][Next]_vars

-----------------------------------------------------------------------------
(* Properties                                                              *)

Things == {[type |-> Dentries[i].type, inode |-> Dentries[i].inode] : i \in DOMAIN Dentries}

Listing == [i \in 1 .. NumDentries |-> Dentries[i].name]

Contents ==
  [d \in Things |-> CASE d.type = "file" -> Text(d.inode)
                      [] d.type = "dir"  -> Listing
                      [] d.type = "rtc"  -> <<>>]

Existing == {name \in Names : DentryByName(name) # NotFound}

Thing(e) == [type |-> e.table, inode |-> e.inode]

\* How much of an open file has been delivered.
Delivered(e) ==
  CASE e.table = "file" -> e.pos
    [] e.table = "dir"  -> IF e.pos < NumDentries THEN e.pos ELSE NumDentries
    [] e.table = "rtc"  -> 0

Opened(e) == [of |-> Thing(e), at |-> Delivered(e)]

\* The open files of a process with fd_array a.
OpenFiles(a) ==
  [f \in {g \in Available : a[g].flags = 1} |-> Opened(a[f])]

Files == [s \in Slots |-> OpenFiles(fds[s])]

Promise == INSTANCE Descriptors WITH
  Found <- [name \in Existing |->
              [type  |-> Dentry(DentryByName(name)).type,
               inode |-> Dentry(DentryByName(name)).inode]],
  files <- Files, args <- given

\* system_calls.c:335-540 and filesystem.c: the fd_array, the dispatch by inode
\* number and the copying block by block implement what programs are promised.
KeepsPromise == Promise!Spec

\* execute, system_calls.c:128: "Parsing Args": a program gets the argument of its
\* own command.
OwnArgument == \A s \in live : arg[s] = given[s]

TypeOK ==
  /\ live \subseteq Slots
  /\ fds \in [Slots -> [Fds -> Element]]
  /\ arg \in [Slots -> Args] /\ given \in [Slots -> Args]

OpenElement(e) ==
  /\ e.flags = 1
  /\ Thing(e) \in Things
  /\ e.table = "file" => e.pos <= Inodes[e.inode].size

\* open, close, execute and halt: whatever process used the slot before, a live
\* process has its terminal at 0 and 1 and else only what it opened, a dead one
\* has nothing open, and a position never passes the end of a file.
FdInv ==
  /\ TypeOK
  /\ \A s \in live : fds[s][0] = Stdio /\ fds[s][1] = Stdio
  /\ \A s \in Slots, f \in Available :
       fds[s][f] = Empty \/ (s \in live /\ OpenElement(fds[s][f]))
=============================================================================
