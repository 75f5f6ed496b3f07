--------------------------- MODULE FileProperties ---------------------------
(***************************************************************************)
(* What the file system owes to the processes and to its disk.             *)
(***************************************************************************)
EXTENDS Files

Symmetry == Permutations(Process)

(* The inode that dir_remove has opened.                                   *)
Removing(p) == proc[p].call = "remove" /\ proc[p].pc \in {"erase", "remove", "close"}

(* The inodes a process holds a reference to.                              *)
Held(p) ==
  {proc[p].fd_arr[fd] : fd \in Descriptors(p)}
    \cup ({proc[p].thread_owned_exec} \ {NoSector})
    \cup IF Removing(p) THEN {proc[p].sector} ELSE {}

HeldByAll == UNION {Held(p) : p \in Process}

(* The sectors of a file.                                                  *)
SectorsOf(s) == {s} \cup IF inodes[s].open_cnt > 0 THEN inodes[s].data ELSE inodeData[s]

(* The sectors of a half made or half removed file.                        *)
AtWork(p) ==
  proc[p].data \cup IF proc[p].pc \in {"data", "inode", "add", "undo"} THEN {proc[p].sector} ELSE {}

Owners == {<< "file", s >> : s \in Named \cup HeldByAll} \cup {<< "process", p >> : p \in Process}

Owned(o) == IF o[1] = "file" THEN SectorsOf(o[2]) ELSE AtWork(o[2])

(* Two files never share a sector and none of their sectors is free, and a *)
(* file that was removed keeps its sectors until the last process that has *)
(* it open closes it; so the assertion of free_map_release never fails.    *)
SectorsOwned ==
  /\ \A s \in HeldByAll : inodes[s].open_cnt > 0
  /\ \A o \in Owners : Owned(o) \subseteq freeMap
  /\ \A o1, o2 \in Owners : o1 # o2 => Owned(o1) \cap Owned(o2) = {}

(* A sector in use that belongs to nobody was leaked in one of two known   *)
(* ways: filesys_create failed at the directory entry, or the power failed.*)
(* Closing, removing and undoing leak nothing.                             *)
OnlyKnownLeaks == freeMap \subseteq lost \cup UNION {Owned(o) : o \in Owners}

(* Whenever the power fails, the disk is one to go on with: the files the  *)
(* directory names have sectors of their own that the free map on disk     *)
(* does not call free.                                                     *)
DiskConsistent ==
  /\ \A s \in Named : {s} \cup inodeData[s] \subseteq diskMap
  /\ \A m, n \in Name :
       m # n /\ entries[m] # NoSector /\ entries[n] # NoSector =>
         ({entries[m]} \cup inodeData[entries[m]]) \cap ({entries[n]} \cup inodeData[entries[n]]) = {}

(* From file_deny_write until its process closes it an executable is not   *)
(* written: no write that passed the check of deny_write_cnt is still on   *)
(* its way, so that what is paged in later is the program that was loaded. *)
TextUnchanged ==
  \A p, q \in Process :
    proc[p].pc = "write" /\ proc[q].deny_write => proc[p].sector # proc[q].thread_owned_exec

=============================================================================
