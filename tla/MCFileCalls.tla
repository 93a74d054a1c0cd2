---------------------------- MODULE MCFileCalls ----------------------------
(***************************************************************************)
(* A small image for FileCalls: a directory and a clock that share inode 0 *)
(* as in the kernel's image, a file of two blocks that are not neighbours, *)
(* the last one not full, and a file that fills its block.                 *)
(***************************************************************************)
EXTENDS FileCalls

CONSTANTS dot, rtc, long, short, missing, s1, a1

SmallNames == {dot, rtc, long, short, missing}

SmallDentries == <<[name |-> dot,   type |-> "dir",  inode |-> 0],
                   [name |-> long,  type |-> "file", inode |-> 2],
                   [name |-> rtc,   type |-> "rtc",  inode |-> 0],
                   [name |-> short, type |-> "file", inode |-> 1]>>

SmallInodes ==
  [n \in 0 .. 2 |-> CASE n = 0 -> [size |-> 0, blocks |-> <<>>]
                      [] n = 1 -> [size |-> 2, blocks |-> <<1>>]
                      [] n = 2 -> [size |-> 3, blocks |-> <<2, 0>>]]

SmallBlocks == [b \in 0 .. 2 |-> [k \in 0 .. 1 |-> 2 * b + k]]

Lengths == {1, 2, 4}

\* An empty line and a longer one, each with its newline.
Typed == {1, 3}

OneSlot == {s1}

\* Commands without and with a space at the end.
Plain == {NoArg, a1}
Trailing == Plain \cup {Blank}
=============================================================================
