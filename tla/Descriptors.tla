---------------------------- MODULE Descriptors ----------------------------
(***************************************************************************)
(* What the file calls promise a program: a descriptor stands for what its *)
(* open found until it is closed, successive reads of it deliver its       *)
(* contents in order, each part once, then nothing, calls are refused for  *)
(* a reason only, and a new program starts without open files and with its *)
(* own argument.                                                           *)
(***************************************************************************)
EXTENDS Integers, Sequences

CONSTANTS
  Slots,         \* processes
  Asked,         \* descriptors a program may pass
  Available,     \* those that open hands out
  Sizes,         \* lengths a program may pass
  LineLengths,   \* lengths of the lines typed for it
  Args, NoArg,   \* arguments of programs
  Names, Found,  \* file names, and what those that exist stand for
  Contents,      \* what there is to read in each such thing
  RateBytes      \* length of a rate written to the clock

VARIABLES
  files,  \* open files of each process, [of, at] by descriptor
  args,   \* argument of each process
  reply   \* the last call and its result

NoFiles == [f \in {} |-> 0]

Answer(op, s, on, ret, data) ==
  reply' = [op |-> op, slot |-> s, on |-> on, ret |-> ret, data |-> data]

Init ==
  /\ files = [s \in Slots |-> NoFiles]
  /\ args = [s \in Slots |-> NoArg]
  /\ reply = [op |-> "none", slot |-> 0, on |-> 0, ret |-> 0, data |-> <<>>]

Start(s) ==
  /\ \E a \in Args : args' = [args EXCEPT ![s] = a]
  /\ files' = [files EXCEPT ![s] = NoFiles]
  /\ UNCHANGED reply

Exit(s) ==
  /\ files' = [files EXCEPT ![s] = NoFiles]
  /\ UNCHANGED <<args, reply>>

Open(s, name) ==
  \/ /\ name \in DOMAIN Found
     /\ \E f \in Available \ DOMAIN files[s] :
          /\ files' = [files EXCEPT ![s] = [g \in DOMAIN files[s] \cup {f} |->
               IF g = f THEN [of |-> Found[name], at |-> 0] ELSE files[s][g]]]
          /\ Answer("open", s, name, f, <<>>)
  \/ /\ name \notin DOMAIN Found \/ Available \subseteq DOMAIN files[s]
     /\ Answer("open", s, name, -1, <<>>)
     /\ UNCHANGED files

Close(s, f) ==
  /\ files' = [files EXCEPT ![s] = [g \in DOMAIN files[s] \ {f} |-> files[s][g]]]
  /\ Answer("close", s, f, 0, <<>>)

\* The next part of an open file: n bytes, or one entry of a directory.
Upto(file, n) ==
  LET end == file.at + (IF file.of.type = "dir" THEN 1 ELSE n) IN
  IF end < Len(Contents[file.of]) THEN end ELSE Len(Contents[file.of])
Part(file, n) ==
  [k \in 1 .. Upto(file, n) - file.at |-> Contents[file.of][file.at + k]]

Read(s, f) ==
  \E n \in Sizes :
    /\ files' = [files EXCEPT ![s][f].at = Upto(files[s][f], n)]
    /\ Answer("read", s, f, Upto(files[s][f], n) - files[s][f].at, Part(files[s][f], n))

\* Only the clock can be written.
Write(s, f) ==
  \E n \in Sizes :
    /\ Answer("write", s, f, IF files[s][f].of.type = "rtc" /\ n = RateBytes THEN n ELSE -1, <<>>)
    /\ UNCHANGED files

\* A line of the terminal is delivered whole, and of what is written at most all.
Terminal(s) ==
  /\ \/ \E line \in LineLengths : Answer("read", s, 0, line, <<>>)
     \/ \E n \in Sizes : \E k \in 0 .. n : Answer("write", s, 1, k, <<>>)
  /\ UNCHANGED files

Refuse(s, f) ==
  /\ \E op \in {"read", "write", "close"} : Answer(op, s, f, -1, <<>>)
  /\ UNCHANGED files

GetArgs(s) ==
  /\ Answer("getargs", s, 0, 0, <<args[s]>>)
  /\ UNCHANGED files

Call(s) ==
  /\ \/ \E name \in Names : Open(s, name)
     \/ \E f \in DOMAIN files[s] : Close(s, f) \/ Read(s, f) \/ Write(s, f)
     \/ \E f \in Asked \ DOMAIN files[s] : Refuse(s, f)
     \/ Terminal(s) \/ GetArgs(s)
  /\ UNCHANGED args

Next == \E s \in Slots : Start(s) \/ Exit(s) \/ Call(s)

Spec == Init /\ [][Next]_<<files, args, reply>>
=============================================================================
