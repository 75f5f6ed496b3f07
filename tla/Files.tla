------------------------------- MODULE Files --------------------------------
(***************************************************************************)
(* The Pintos file system under the system calls: the free map, the inodes *)
(* on disk and in memory, the root directory, and the processes that       *)
(* create, remove, open, write and close files, are loaded from one and    *)
(* exit (filesys.c, inode.c, directory.c, file.c, free-map.c, syscall.c,   *)
(* load and process_exit of process.c).                                    *)
(*                                                                         *)
(* A step makes at most one write to the disk, so that power may fail      *)
(* between any two of them.  The disk driver blocks there, so these are    *)
(* also the points where another process runs; the list of open inodes is  *)
(* taken to change in one piece.  The handlers hold file_lock_global; load *)
(* and process_exit do not, and Unlocked names the ones of these two that  *)
(* may run while another process is in the file system.                    *)
(***************************************************************************)
EXTENDS Integers, Sequences, FiniteSets, TLC

CONSTANTS
  Process, Name,
  Program,          (* the name the disk is delivered with                 *)
  Sector,           (* the sectors after the free map's and the root's     *)
  Sizes,            (* how many data sectors a new file may ask for        *)
  DirEntries,       (* how many entries the root directory has room for    *)
  MaxOpens,         (* bound: descriptors a process opens in its life      *)
  Unlocked,         (* of "load" and "exit"                                *)
  Nobody

ASSUME FilesAssumption ==
  /\ Sector \subseteq Nat \ {0} /\ Sizes \subseteq Nat
  /\ DirEntries \in Nat /\ MaxOpens \in Nat
  /\ Unlocked \subseteq {"load", "exit"}
  /\ Nobody \notin Process /\ Program \in Name

NoSector == 0       (* the sector of the free map: no file's inode         *)

VARIABLES
  entries,          (* disk: the inode sector of a name, or NoSector       *)
  inodeData,        (* disk: the data sectors the inode in a sector names  *)
  diskMap,          (* disk: the sectors the free map file calls in use    *)
  freeMap,          (* memory: the sectors in use                          *)
  inodes,           (* memory: the open inode of a sector; open_cnt = 0    *)
                    (* says there is none                                  *)
  file_lock_global, (* its holder                                          *)
  proc,             (* where each process is                               *)
  lost              (* ghost: sectors known to be leaked                   *)

disk == << entries, inodeData, diskMap >>
vars == << entries, inodeData, diskMap, freeMap, inodes, file_lock_global, proc, lost >>

Closed == [open_cnt |-> 0, deny_write_cnt |-> 0, removed |-> FALSE, data |-> {}]

(* call: what it is doing in the file system; write_map: the free map it   *)
(* changed still has to go to disk; thread_owned_exec: the executable,     *)
(* a local variable of load at first, with the deny_write of its file.     *)
NoProcess == [call |-> "dead", pc |-> "dead", name |-> "", sector |-> NoSector, data |-> {},
              size |-> 0, write_map |-> FALSE, fd_arr |-> << >>,
              thread_owned_exec |-> NoSector, deny_write |-> FALSE]

(* The disk holds one program, from which the first process is loaded.     *)
Init ==
  /\ \E s \in Sector :
       /\ \A t \in Sector : s <= t
       /\ entries = [n \in Name |-> IF n = Program THEN s ELSE NoSector]
       /\ inodeData = [t \in Sector |-> IF t = s THEN {s + 1} ELSE {}]
       /\ diskMap = {s, s + 1}
  /\ freeMap = diskMap /\ lost = {}
  /\ inodes = [s \in Sector |-> Closed]
  /\ file_lock_global = Nobody
  /\ proc = [p \in Process |-> NoProcess]

Set(p, process) == proc' = [proc EXCEPT ![p] = process]

(* The part of the code a process is in.                                   *)
Part(p) ==
  CASE proc[p].call \in {"user", "dead"} -> "outside"
    [] proc[p].call \in {"load", "exit"} -> proc[p].call
    [] OTHER -> "handler"

MayEnter(p, part) ==
  \A q \in Process \ {p} :
    Part(q) = "outside" \/ part \in Unlocked \/ Part(q) \in Unlocked

Running(p) == proc[p].call = "user"

Descriptors(p) == {fd \in DOMAIN proc[p].fd_arr : proc[p].fd_arr[fd] # NoSector}

At(p, pc) == proc[p].pc = pc /\ ~proc[p].write_map

---------------------------------------------------------------------------
(* free-map.c                                                              *)

Extent(first, count) == first .. (first + count - 1)

FirstFit(count) ==
  {k \in Sector : Extent(k, count) \subseteq Sector \ freeMap
                    /\ \A j \in Sector : j < k => ~(Extent(j, count) \subseteq Sector \ freeMap)}

(* The second half of free_map_allocate and free_map_release.              *)
WriteFreeMap(p) ==
  /\ proc[p].write_map
  /\ diskMap' = freeMap
  /\ Set(p, [proc[p] EXCEPT !.write_map = FALSE])
  /\ UNCHANGED << entries, inodeData, freeMap, inodes, file_lock_global, lost >>

---------------------------------------------------------------------------
(* System calls                                                            *)

(* A handler starts: it gets the lock.                                     *)
GetLock(p) ==
  /\ Running(p) /\ file_lock_global = Nobody /\ MayEnter(p, "handler")
  /\ file_lock_global' = p

Enter(p, process) == GetLock(p) /\ Set(p, process)

Return(p) ==
  /\ At(p, "return")
  /\ file_lock_global' = Nobody
  /\ Set(p, [proc[p] EXCEPT !.call = "user", !.pc = "user", !.name = "",
                                 !.sector = NoSector, !.size = 0])
  /\ UNCHANGED << disk, freeMap, inodes, lost >>

Create(p) ==
  /\ \E n \in Name, k \in Sizes :
       Enter(p, [proc[p] EXCEPT !.call = "create", !.pc = "sector", !.name = n, !.size = k])
  /\ UNCHANGED << disk, freeMap, inodes, lost >>

(* filesys_create: a sector for the inode, ...                             *)
AllocateInode(p) ==
  /\ At(p, "sector")
  /\ \/ /\ FirstFit(1) = {}
        /\ Set(p, [proc[p] EXCEPT !.pc = "return"])
        /\ UNCHANGED freeMap
     \/ \E s \in FirstFit(1) :
          /\ freeMap' = freeMap \cup {s}
          /\ Set(p, [proc[p] EXCEPT !.pc = "data", !.sector = s, !.write_map = TRUE])
  /\ UNCHANGED << disk, inodes, file_lock_global, lost >>

(* Mutant: the free map is not written after the data was allocated.       *)
AllocateDataUnsaved(p) ==
  /\ At(p, "data")
  /\ \/ /\ FirstFit(proc[p].size) = {}
        /\ Set(p, [proc[p] EXCEPT !.pc = "undo"])
        /\ UNCHANGED freeMap
     \/ \E s \in FirstFit(proc[p].size) :
          /\ freeMap' = freeMap \cup Extent(s, proc[p].size)
          /\ Set(p, [proc[p] EXCEPT !.pc = "inode", !.data = Extent(s, proc[p].size)])
  /\ UNCHANGED << disk, inodes, file_lock_global, lost >>

(* ... sectors for the data, ...                                           *)
AllocateData(p) ==
  /\ At(p, "data")
  /\ \/ /\ FirstFit(proc[p].size) = {}
        /\ Set(p, [proc[p] EXCEPT !.pc = "undo"])
        /\ UNCHANGED freeMap
     \/ \E s \in FirstFit(proc[p].size) :
          /\ freeMap' = freeMap \cup Extent(s, proc[p].size)
          /\ Set(p, [proc[p] EXCEPT !.pc = "inode", !.data = Extent(s, proc[p].size),
                                          !.write_map = TRUE])
  /\ UNCHANGED << disk, inodes, file_lock_global, lost >>

(* ... the inode, with its data zeroed, ...                                *)
WriteInode(p) ==
  /\ At(p, "inode")
  /\ inodeData' = [inodeData EXCEPT ![proc[p].sector] = proc[p].data]
  /\ Set(p, [proc[p] EXCEPT !.pc = "add"])
  /\ UNCHANGED << entries, diskMap, freeMap, inodes, file_lock_global, lost >>

(* ... and the entry.  When the name is taken or the directory is full     *)
(* only the sector of the inode is given back.                             *)
AddEntry(p) ==
  /\ At(p, "add")
  /\ LET full == Cardinality({n \in Name : entries[n] # NoSector}) = DirEntries
     IN IF entries[proc[p].name] # NoSector \/ full
          THEN /\ lost' = lost \cup proc[p].data
               /\ Set(p, [proc[p] EXCEPT !.pc = "undo", !.data = {}])
               /\ UNCHANGED entries
          ELSE /\ entries' = [entries EXCEPT ![proc[p].name] = proc[p].sector]
               /\ Set(p, [proc[p] EXCEPT !.pc = "return", !.data = {}])
               /\ UNCHANGED lost
  /\ UNCHANGED << inodeData, diskMap, freeMap, inodes, file_lock_global >>

UndoCreate(p) ==
  /\ At(p, "undo")
  /\ freeMap' = freeMap \ {proc[p].sector}
  /\ Set(p, [proc[p] EXCEPT !.pc = "return", !.write_map = TRUE])
  /\ UNCHANGED << disk, inodes, file_lock_global, lost >>

Open(p) ==
  /\ Len(proc[p].fd_arr) < MaxOpens
  /\ \E n \in Name : Enter(p, [proc[p] EXCEPT !.call = "open", !.pc = "lookup", !.name = n])
  /\ UNCHANGED << disk, freeMap, inodes, lost >>

Remove(p) ==
  /\ \E n \in Name : Enter(p, [proc[p] EXCEPT !.call = "remove", !.pc = "lookup", !.name = n])
  /\ UNCHANGED << disk, freeMap, inodes, lost >>

(* A new process is made from an executable.  It is not one that still has *)
(* the lock.                                                               *)
Load(p) ==
  /\ proc[p].call = "dead" /\ file_lock_global # p /\ MayEnter(p, "load")
  /\ \E n \in Name : Set(p, [proc[p] EXCEPT !.call = "load", !.pc = "lookup", !.name = n])
  /\ UNCHANGED << disk, freeMap, inodes, file_lock_global, lost >>

Lookup(p) ==
  /\ At(p, "lookup")
  /\ LET s == entries[proc[p].name]
     IN IF s # NoSector THEN Set(p, [proc[p] EXCEPT !.pc = "open", !.sector = s])
        ELSE IF proc[p].call = "load" THEN Set(p, NoProcess)
        ELSE Set(p, [proc[p] EXCEPT !.pc = "return"])
  /\ UNCHANGED << disk, freeMap, inodes, file_lock_global, lost >>

(* inode_open, and what the caller does with the inode.                    *)
OpenInode(p) ==
  /\ At(p, "open")
  /\ LET s == proc[p].sector
         inode == IF inodes[s].open_cnt = 0 THEN [Closed EXCEPT !.data = inodeData[s]] ELSE inodes[s]
     IN /\ inodes' = [inodes EXCEPT ![s] = [inode EXCEPT !.open_cnt = inode.open_cnt + 1]]
        /\ CASE proc[p].call = "open" ->
                  Set(p, [proc[p] EXCEPT !.pc = "return", !.fd_arr = Append(@, s)])
             [] proc[p].call = "remove" -> Set(p, [proc[p] EXCEPT !.pc = "erase"])
             [] proc[p].call = "load" ->
                  Set(p, [proc[p] EXCEPT !.pc = "deny", !.sector = NoSector,
                                         !.thread_owned_exec = s])
  /\ UNCHANGED << disk, freeMap, file_lock_global, lost >>

EraseEntry(p) ==
  /\ At(p, "erase")
  /\ entries' = [entries EXCEPT ![proc[p].name] = NoSector]
  /\ Set(p, [proc[p] EXCEPT !.pc = "remove"])
  /\ UNCHANGED << inodeData, diskMap, freeMap, inodes, file_lock_global, lost >>

RemoveInode(p) ==
  /\ At(p, "remove")
  /\ inodes' = [inodes EXCEPT ![proc[p].sector].removed = TRUE]
  /\ Set(p, [proc[p] EXCEPT !.pc = "close"])
  /\ UNCHANGED << disk, freeMap, file_lock_global, lost >>

(* load has read the header: it gives up, or nobody may write the file     *)
(* while the program runs.                                                 *)
DenyWrite(p) ==
  /\ At(p, "deny")
  /\ \/ /\ Set(p, [proc[p] EXCEPT !.call = "exit", !.pc = "close"])
        /\ UNCHANGED inodes
     \/ /\ inodes[proc[p].thread_owned_exec].data # {}
        /\ inodes' = [inodes EXCEPT ![proc[p].thread_owned_exec].deny_write_cnt = @ + 1]
        /\ Set(p, [proc[p] EXCEPT !.pc = "read", !.deny_write = TRUE])
  /\ UNCHANGED << disk, freeMap, file_lock_global, lost >>

Loaded(p) ==
  /\ At(p, "read")
  /\ \/ Set(p, [proc[p] EXCEPT !.call = "user", !.pc = "user", !.name = ""])
     \/ Set(p, [proc[p] EXCEPT !.call = "exit", !.pc = "close"])
  /\ UNCHANGED << disk, freeMap, inodes, file_lock_global, lost >>

(* Mutant: a write does not look at deny_write_cnt.                        *)
WriteUnchecked(p) ==
  /\ \E s \in {proc[p].fd_arr[fd] : fd \in Descriptors(p)} :
       Enter(p, [proc[p] EXCEPT !.call = "write", !.pc = "write", !.sector = s])
  /\ UNCHANGED << disk, freeMap, inodes, lost >>

(* A write looks at deny_write_cnt before it reads and writes sectors.     *)
(* What is in the sectors of a file is left out.                           *)
Write(p) ==
  /\ \E s \in {proc[p].fd_arr[fd] : fd \in Descriptors(p)} :
       Enter(p, [proc[p] EXCEPT !.call = "write", !.sector = s,
                   !.pc = IF inodes[s].deny_write_cnt = 0 THEN "write" ELSE "return"])
  /\ UNCHANGED << disk, freeMap, inodes, lost >>

WriteData(p) ==
  /\ At(p, "write")
  /\ Set(p, [proc[p] EXCEPT !.pc = "return"])
  /\ UNCHANGED << disk, freeMap, inodes, file_lock_global, lost >>

(* Mutant: the sectors of a removed file go with the first process that    *)
(* closes it.                                                              *)
CloseInodeEarly(p, s, deny_write, after) ==
  LET inode == [inodes[s] EXCEPT !.open_cnt = inodes[s].open_cnt - 1,
                 !.deny_write_cnt = inodes[s].deny_write_cnt - IF deny_write THEN 1 ELSE 0]
      last == inode.open_cnt = 0 \/ inode.removed
  IN /\ inodes' = [inodes EXCEPT ![s] = IF last THEN Closed ELSE inode]
     /\ IF last /\ inode.removed
          THEN /\ freeMap' = freeMap \ {s}
               /\ Set(p, [after EXCEPT !.pc = "release", !.data = inode.data,
                                   !.write_map = TRUE])
          ELSE UNCHANGED freeMap /\ Set(p, after)
     /\ UNCHANGED << disk, lost >>

(* file_close and inode_close.  The last one out of a removed file gives   *)
(* its sectors back before the process goes on as after says.              *)
CloseInode(p, s, deny_write, after) ==
  LET inode == [inodes[s] EXCEPT !.open_cnt = inodes[s].open_cnt - 1,
                 !.deny_write_cnt = inodes[s].deny_write_cnt - IF deny_write THEN 1 ELSE 0]
      last == inode.open_cnt = 0
  IN /\ inodes' = [inodes EXCEPT ![s] = IF last THEN Closed ELSE inode]
     /\ IF last /\ inode.removed
          THEN /\ freeMap' = freeMap \ {s}
               /\ Set(p, [after EXCEPT !.pc = "release", !.data = inode.data,
                                   !.write_map = TRUE])
          ELSE UNCHANGED freeMap /\ Set(p, after)
     /\ UNCHANGED << disk, lost >>

CloseRemoved(p) ==
  /\ At(p, "close") /\ proc[p].call = "remove"
  /\ CloseInode(p, proc[p].sector, FALSE, [proc[p] EXCEPT !.pc = "return"])
  /\ UNCHANGED file_lock_global

Close(p) ==
  /\ GetLock(p)
  /\ \E fd \in Descriptors(p) :
       CloseInode(p, proc[p].fd_arr[fd], FALSE,
                  [proc[p] EXCEPT !.call = "close", !.pc = "return", !.fd_arr[fd] = NoSector])

(* process_exit                                                            *)
Exit(p) ==
  /\ Running(p) /\ MayEnter(p, "exit")
  /\ Set(p, [proc[p] EXCEPT !.call = "exit", !.pc = "close"])
  /\ UNCHANGED << disk, freeMap, inodes, file_lock_global, lost >>

(* A read or a write through a closed descriptor: the handler faults on    *)
(* the null pointer, and the process exits with the lock in its hands.     *)
Fault(p) ==
  /\ Descriptors(p) # DOMAIN proc[p].fd_arr
  /\ Enter(p, [proc[p] EXCEPT !.call = "exit", !.pc = "close"])
  /\ UNCHANGED << disk, freeMap, inodes, lost >>

(* The descriptors are closed one after the other, ...                     *)
CloseDescriptor(p) ==
  /\ At(p, "close") /\ proc[p].call = "exit"
  /\ \E fd \in Descriptors(p) :
       /\ \A i \in Descriptors(p) : fd <= i
       /\ CloseInode(p, proc[p].fd_arr[fd], FALSE,
                     [proc[p] EXCEPT !.fd_arr[fd] = NoSector])
  /\ UNCHANGED file_lock_global

(* Mutant: process_exit does not close the executable.                     *)
ForgetExecutable(p) ==
  /\ At(p, "close") /\ proc[p].call = "exit" /\ Descriptors(p) = {}
  /\ proc[p].thread_owned_exec # NoSector
  /\ Set(p, [proc[p] EXCEPT !.thread_owned_exec = NoSector, !.deny_write = FALSE])
  /\ UNCHANGED << disk, freeMap, inodes, file_lock_global, lost >>

(* ... and then the executable.                                            *)
CloseExecutable(p) ==
  /\ At(p, "close") /\ proc[p].call = "exit" /\ Descriptors(p) = {}
  /\ proc[p].thread_owned_exec # NoSector
  /\ CloseInode(p, proc[p].thread_owned_exec, proc[p].deny_write,
                [proc[p] EXCEPT !.thread_owned_exec = NoSector, !.deny_write = FALSE])
  /\ UNCHANGED file_lock_global

Exited(p) ==
  /\ At(p, "close") /\ proc[p].call = "exit" /\ Descriptors(p) = {}
  /\ proc[p].thread_owned_exec = NoSector
  /\ Set(p, NoProcess)
  /\ UNCHANGED << disk, freeMap, inodes, file_lock_global, lost >>

ReleaseData(p) ==
  /\ At(p, "release")
  /\ freeMap' = freeMap \ proc[p].data
  /\ Set(p, [proc[p] EXCEPT !.pc = IF proc[p].call = "exit" THEN "close" ELSE "return",
                            !.data = {}, !.write_map = TRUE])
  /\ UNCHANGED << disk, inodes, file_lock_global, lost >>

---------------------------------------------------------------------------
Named == {entries[n] : n \in Name} \ {NoSector}

(* Power fails, or the kernel panics, and the machine boots from its disk. *)
PowerFailure ==
  /\ freeMap' = diskMap
  /\ inodes' = [s \in Sector |-> Closed]
  /\ file_lock_global' = Nobody
  /\ proc' = [p \in Process |-> NoProcess]
  /\ lost' = diskMap \ UNION {{s} \cup inodeData[s] : s \in Named}
  /\ UNCHANGED disk

Next ==
  \/ \E p \in Process :
       \/ Create(p) \/ Open(p) \/ Remove(p) \/ Write(p) \/ Close(p) \/ Exit(p) \/ Fault(p)
       \/ Load(p) \/ Lookup(p) \/ OpenInode(p) \/ EraseEntry(p) \/ RemoveInode(p)
       \/ AllocateInode(p) \/ AllocateData(p) \/ WriteInode(p) \/ AddEntry(p) \/ UndoCreate(p)
       \/ DenyWrite(p) \/ Loaded(p) \/ WriteData(p) \/ WriteFreeMap(p)
       \/ CloseRemoved(p) \/ CloseDescriptor(p) \/ CloseExecutable(p) \/ Exited(p)
       \/ ReleaseData(p) \/ Return(p)
  \/ PowerFailure

Spec == Init /\ [][Next]_vars

=============================================================================
