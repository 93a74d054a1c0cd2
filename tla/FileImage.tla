----------------------------- MODULE FileImage -----------------------------
(***************************************************************************)
(* The read-only file system image and the functions that read it          *)
(* (devices/filesystem.c).  A file is an inode: its size and the numbers   *)
(* of the data blocks that hold it.                                        *)
(***************************************************************************)
EXTENDS Integers, Sequences, FiniteSets, FiniteSetsExt

CONSTANTS
  BLOCK_BYTES,  \* bytes in a data block: 4096 in filesystem.h
  WORD,         \* values of a uint32_t: 2^32
  Names,        \* what a program may ask for
  Dentries,     \* the valid directory entries of the boot block, in order
  Inodes,       \* size and block numbers by inode number
  Blocks        \* bytes by block number and offset

Types == {"rtc", "dir", "file"}
Special == {"rtc", "dir"}

\* What the kernel's image satisfies: inodes and blocks that exist,
\* and inode numbers that tell the type of an entry, except that the clock and the
\* directory share one and the directory comes first.
ASSUME SizesAssumption == BLOCK_BYTES \in Nat \ {0} /\ WORD \in Nat \ {0}
ASSUME DentriesAssumption ==
  /\ Dentries \in Seq([name : Names, type : Types, inode : DOMAIN Inodes])
  /\ DOMAIN Inodes \subseteq Nat
ASSUME InodesAssumption ==
  \A n \in DOMAIN Inodes :
    /\ Inodes[n].size \in 0 .. WORD - 1
    /\ Inodes[n].blocks \in Seq(DOMAIN Blocks)
    /\ Inodes[n].size <= BLOCK_BYTES * Len(Inodes[n].blocks)
ASSUME KindsAssumption ==
  \A i, j \in DOMAIN Dentries : Dentries[i].inode = Dentries[j].inode =>
    \/ Dentries[i].type = Dentries[j].type
    \/ /\ {Dentries[i].type, Dentries[j].type} = Special
       /\ \E k \in DOMAIN Dentries :
            /\ Dentries[k].inode = Dentries[i].inode /\ Dentries[k].type = "dir"
            /\ \A m \in 1 .. k - 1 : Dentries[m].inode # Dentries[i].inode

NumDentries == Len(Dentries)
Indices == 0 .. NumDentries - 1
Dentry(i) == Dentries[i + 1]

NotFound == -1
First(S) == IF S = {} THEN NotFound ELSE Min(S)

DentryByName(name) == First({i \in Indices : Dentry(i).name = name})
DentryByInode(n) == First({i \in Indices : Dentry(i).inode = n})

\* Byte k of a file.
Byte_FirstBlock(n, k) == Blocks[Inodes[n].blocks[1]][k % BLOCK_BYTES]
Byte(n, k) == Blocks[Inodes[n].blocks[k \div BLOCK_BYTES + 1]][k % BLOCK_BYTES]

\* How many bytes the loop of read_data copies; its end is a uint32_t.
End(n, offset, length) ==
  LET end == (offset + length) % WORD IN
  IF end < Inodes[n].size THEN end ELSE Inodes[n].size
Copied(n, offset, length) ==
  IF End(n, offset, length) < offset THEN 0 ELSE End(n, offset, length) - offset

\* read_data on an inode that exists.
ReadData(n, offset, length) ==
  [k \in 1 .. Copied(n, offset, length) |-> Byte(n, offset + k - 1)]

\* directory_read: the name of an entry, nothing past the last one.
ReadDirectory(index) == IF index < NumDentries THEN <<Dentry(index).name>> ELSE <<>>

-----------------------------------------------------------------------------
(* What a file holds: its blocks one after the other, up to its size.      *)

Places(n) == (0 .. Len(Inodes[n].blocks) - 1) \X (0 .. BLOCK_BYTES - 1)
Place(n, k) == CHOOSE p \in Places(n) : p[1] * BLOCK_BYTES + p[2] = k
Text(n) ==
  [k \in 1 .. Inodes[n].size |->
     Blocks[Inodes[n].blocks[Place(n, k - 1)[1] + 1]][Place(n, k - 1)[2]]]
=============================================================================
