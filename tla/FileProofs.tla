------------------------------ MODULE FileProofs ------------------------------
(***************************************************************************)
(* Proofs about the file system, for every set of processes, of names and  *)
(* of sectors, every size of the root directory and of new files, any      *)
(* number of descriptors, and process_exit under the lock or outside it:   *)
(* who owns each sector, what is leaked, what a power failure finds on the *)
(* disk, and that nobody writes a running program.  load takes its turn    *)
(* with the handlers, as in the run files; with load outside the lock      *)
(* the properties are false, as the run late_write shows.                  *)
(*                                                                         *)
(* IInv ties four things together: where each process is in its call       *)
(* (Shaped, Excluded, Fitting), the counters of an open inode and the      *)
(* references there are to it (Counted), the inode in memory and the one on *)
(* disk (Remembered), and the owner of every sector in use (Owner).  A step *)
(* belongs to one of a few kinds, by what it does to the references and to *)
(* the owners, and there is one lemma for a kind: QuietStep, SectorStep,   *)
(* OpeningStep, ClosingStep; steps of a kind of their own are proved whole. *)
(***************************************************************************)
EXTENDS FileProperties, FiniteSetTheorems, TLAPS

---------------------------------------------------------------------------
(* What a process carries.                                                 *)
Calls == {"dead", "user", "create", "open", "remove", "load", "write", "close", "exit"}
Pcs == {"dead", "user", "sector", "data", "inode", "add", "undo", "lookup", "open", "erase",
        "remove", "deny", "read", "write", "close", "release", "return"}
Names == Name \cup {""}
Places == Sector \cup {NoSector}
Counts == Sizes \cup {0}

Proc == [call : Calls, pc : Pcs, name : Names, sector : Places, data : SUBSET Nat,
         size : Counts, write_map : BOOLEAN, fd_arr : Seq(Places),
         thread_owned_exec : Places, deny_write : BOOLEAN]

Inode == [open_cnt : Nat, deny_write_cnt : Nat, removed : BOOLEAN, data : SUBSET Nat]

TypeOK ==
  /\ entries \in [Name -> Places]
  /\ inodeData \in [Sector -> SUBSET Nat]
  /\ diskMap \in SUBSET Nat /\ freeMap \in SUBSET Nat /\ lost \in SUBSET Nat
  /\ inodes \in [Sector -> Inode]
  /\ file_lock_global \in Process \cup {Nobody}
  /\ proc \in [Process -> Proc]

(* Which call brings a process to which place.                             *)
Walks(r) ==
  /\ r.pc = "dead" <=> r.call = "dead"
  /\ r.pc = "user" <=> r.call = "user"
  /\ r.pc \in {"sector", "data", "inode", "add", "undo"} => r.call = "create"
  /\ r.pc \in {"lookup", "open"} => r.call \in {"open", "remove", "load"}
  /\ r.pc \in {"erase", "remove"} => r.call = "remove"
  /\ r.pc \in {"deny", "read"} => r.call = "load"
  /\ r.pc = "write" => r.call = "write"
  /\ r.pc = "close" => r.call \in {"remove", "exit"}
  /\ r.pc = "release" => r.call \in {"remove", "close", "exit"}
  /\ r.pc = "return" => r.call \in {"create", "open", "remove", "write", "close"}

(* What its variables hold at each place: a name or a sector from the      *)
(* moment it is looked up, data only between its allocation and its owner, *)
(* an executable only once it is open.                                     *)
Carries(r) ==
  /\ r.pc \in {"sector", "data", "inode", "add", "lookup", "open", "erase"} => r.name \in Name
  /\ r.pc \in {"data", "inode", "add", "undo", "open", "erase", "remove", "write"} => r.sector \in Sector
  /\ r.pc = "close" /\ r.call = "remove" => r.sector \in Sector
  /\ r.pc \notin {"inode", "add", "release"} => r.data = {}
  /\ r.pc \in {"inode", "add"} => r.sector \notin r.data
  /\ r.deny_write => r.thread_owned_exec # NoSector
  /\ r.call = "load" /\ r.pc # "read" => ~r.deny_write
  /\ r.call = "load" /\ r.pc \in {"lookup", "open"} => r.thread_owned_exec = NoSector
  /\ r.pc \in {"deny", "read"} => r.thread_owned_exec # NoSector
  /\ r.call \in {"dead", "load"} => r.fd_arr = << >>
  /\ r.call = "dead" => r.thread_owned_exec = NoSector /\ ~r.deny_write

Shaped == \A p \in Process : Walks(proc[p]) /\ Carries(proc[p])

(* At most one process is in a handler or in load, and a handler has the   *)
(* lock.                                                                   *)
Inside(r) == r.call \notin {"user", "dead", "exit"}
Excluded ==
  /\ \A p \in Process : Part(p) = "handler" => file_lock_global = p
  /\ \A p, q \in Process : Inside(proc[p]) /\ Inside(proc[q]) => p = q

(* The references to an inode, each with its place: a descriptor, the      *)
(* executable (0), the inode that dir_remove has open (-1).                *)
Refers(r, k, s) ==
  \/ k \in DOMAIN r.fd_arr /\ r.fd_arr[k] = s
  \/ k = 0 /\ r.thread_owned_exec = s
  \/ k = -1 /\ r.call = "remove" /\ r.pc \in {"erase", "remove", "close"} /\ r.sector = s

Refs(s) == {x \in Process \X Int : Refers(proc[x[1]], x[2], s)}
Deniers(s) == {p \in Process : proc[p].deny_write /\ proc[p].thread_owned_exec = s}

(* open_cnt and deny_write_cnt count exactly these.                        *)
Counted ==
  /\ \A s \in Sector : IsFiniteSet(Refs(s)) /\ inodes[s].open_cnt = Cardinality(Refs(s))
  /\ \A s \in Sector : IsFiniteSet(Deniers(s)) /\ inodes[s].deny_write_cnt = Cardinality(Deniers(s))

Opened == {s \in Sector : Refs(s) # {}}

(* An open inode is a copy of the one on disk; it is marked removed only   *)
(* when its name is gone, and when its name is gone it is marked, or is    *)
(* about to be.                                                            *)
Remembered ==
  \A s \in Sector :
    /\ s \notin Opened => inodes[s] = Closed
    /\ s \in Opened => inodes[s].data = inodeData[s]
    /\ inodes[s].removed => s \notin Named
    /\ s \in Opened /\ ~inodes[s].removed =>
         s \in Named \/ \E p \in Process : proc[p].pc = "remove" /\ proc[p].sector = s

(* What a process has read is still so: the entry it looked up, the name   *)
(* it erased, the inode it wrote, and that the file may be written.        *)
Fits(r) ==
  /\ r.pc \in {"open", "erase"} => entries[r.name] = r.sector
  /\ r.pc = "remove" => r.sector \notin Named
  /\ r.pc = "add" => inodeData[r.sector] = r.data
  /\ r.pc = "write" => inodes[r.sector].deny_write_cnt = 0
Fitting == \A p \in Process : Fits(proc[p])
Injective == \A m, n \in Name : entries[m] = entries[n] /\ entries[m] # NoSector => m = n

(* Every sector in use belongs to one file that is named or open (L, with  *)
(* the sectors B), to one process that works on it (W), or is leaked.      *)
Works(r) == r.data \cup IF r.pc \in {"data", "inode", "add", "undo"} THEN {r.sector} ELSE {}

Owning(L, B, W, free, leaked) ==
  /\ \A s \in L : B[s] \subseteq free
  /\ \A s, t \in L : s # t => B[s] \cap B[t] = {}
  /\ \A p \in Process : W[p] \subseteq free
  /\ \A p, q \in Process : p # q => W[p] \cap W[q] = {}
  /\ \A s \in L, p \in Process : B[s] \cap W[p] = {}
  /\ \A x \in free : x \in leaked \/ (\E s \in L : x \in B[s]) \/ (\E p \in Process : x \in W[p])

Live == Named \cup Opened
Bodies == [s \in Sector |-> {s} \cup inodeData[s]]
Working == [p \in Process |-> Works(proc[p])]

Owner == Owning(Live, Bodies, Working, freeMap, lost)
Apart == \A s \in Live : s \notin inodeData[s]

(* The free map on disk has the sectors of every named file, and those     *)
(* that a process is about to put in a file, unless it has yet to write    *)
(* the map.                                                                *)
Saved ==
  /\ \A s \in Named : Bodies[s] \subseteq diskMap
  /\ \A p \in Process :
       proc[p].pc \in {"data", "inode", "add"} /\ ~proc[p].write_map => Works(proc[p]) \subseteq diskMap

(* The inductive invariant.                                                *)
IInv ==
  /\ TypeOK /\ Shaped /\ Excluded /\ Counted /\ Remembered /\ Fitting /\ Injective
  /\ Owner /\ Apart /\ Saved

---------------------------------------------------------------------------
(* The sets of constants of the types.                                     *)
LEMMA Words ==
  /\ {"dead", "user", "create", "open", "remove", "load", "write", "close", "exit"} \subseteq Calls
  /\ "dead" \in Pcs /\ "user" \in Pcs /\ "sector" \in Pcs /\ "data" \in Pcs /\ "inode" \in Pcs
  /\ "add" \in Pcs /\ "undo" \in Pcs /\ "lookup" \in Pcs /\ "open" \in Pcs /\ "erase" \in Pcs
  /\ "remove" \in Pcs /\ "deny" \in Pcs /\ "read" \in Pcs /\ "write" \in Pcs
  /\ "close" \in Pcs /\ "release" \in Pcs /\ "return" \in Pcs
BY DEF Calls, Pcs

LEMMA NumbersFit ==
  /\ NoSector \in Places /\ Sector \subseteq Places /\ NoSector \notin Sector
  /\ 0 \in Counts /\ Sizes \subseteq Counts /\ Counts \subseteq Nat /\ Places \subseteq Nat
  /\ Sector \subseteq Nat
  /\ Name \subseteq Names /\ "" \in Names
<1>1. Name \subseteq Names /\ "" \in Names
  BY Zenon DEF Names
<1>2. Sector \subseteq Nat \ {0} /\ Sizes \subseteq Nat
  BY Zenon, FilesAssumption
<1>3. NoSector \in Places /\ Sector \subseteq Places /\ NoSector \notin Sector /\ Places \subseteq Nat
  BY <1>2 DEF Places, NoSector
<1>4. 0 \in Counts /\ Sizes \subseteq Counts /\ Counts \subseteq Nat
  BY <1>2 DEF Counts
<1>q. QED BY <1>1, <1>2, <1>3, <1>4

(* Only p moves.                                                           *)
LEMMA SetMoves ==
  ASSUME TypeOK, NEW p \in Process, NEW n \in Proc, Set(p, n)
  PROVE  /\ proc' \in [Process -> Proc] /\ proc'[p] = n
         /\ \A q \in Process : q # p => proc'[q] = proc[q]
BY DEF TypeOK, Set

(* Part, by the call.                                                      *)
LEMMA PartIs ==
  ASSUME TypeOK, NEW p \in Process
  PROVE  /\ Part(p) = "outside" <=> proc[p].call \in {"user", "dead"}
         /\ Part(p) = "load" <=> proc[p].call = "load"
         /\ Part(p) = "exit" <=> proc[p].call = "exit"
         /\ Part(p) = "handler" <=> proc[p].call \in {"create", "open", "remove", "write", "close"}
         /\ Inside(proc[p]) <=> Part(p) \in {"load", "handler"}
BY DEF TypeOK, Part, Proc, Calls, Inside

(* Whoever may enter finds nobody else inside.                             *)
LEMMA EnterAlone ==
  ASSUME "load" \notin Unlocked, TypeOK, Excluded, NEW p \in Process,
         \/ MayEnter(p, "load")
         \/ MayEnter(p, "handler") /\ file_lock_global = Nobody
  PROVE  \A q \in Process : q # p => ~Inside(proc[q])
<1>1. "handler" \notin Unlocked /\ "outside" \notin Unlocked
  BY FilesAssumption
<1>2. ASSUME NEW q \in Process, q # p, Inside(proc[q]) PROVE FALSE
  <2>1. Part(q) \in {"load", "handler"}
    BY <1>2, PartIs
  <2>2. Part(q) = "outside" \/ "load" \in Unlocked \/ Part(q) \in Unlocked
        \/ (file_lock_global = Nobody /\ (Part(q) \in Unlocked \/ "handler" \in Unlocked))
    BY <1>2 DEF MayEnter
  <2>3. Part(q) = "handler" => file_lock_global # Nobody
    BY <1>2, FilesAssumption DEF Excluded
  <2>q. QED BY <2>1, <2>2, <2>3, <1>1, FilesAssumption
<1>q. QED BY <1>2

(* Only p moves, and it comes in only when nobody else is in.              *)
LEMMA ExclusionKept ==
  ASSUME TypeOK, Excluded, NEW p \in Process, NEW n \in Proc, Set(p, n), TypeOK',
         Inside(n) => Inside(proc[p]) \/ \A q \in Process : q # p => ~Inside(proc[q]),
         \/ file_lock_global' = file_lock_global
              /\ (Inside(n) /\ n.call # "load" => Part(p) = "handler")
         \/ file_lock_global' = p /\ file_lock_global = Nobody
         \/ file_lock_global' = Nobody /\ file_lock_global = p /\ ~Inside(n)
  PROVE  Excluded'
<1>1. proc'[p] = n /\ \A q \in Process : q # p => proc'[q] = proc[q]
  BY SetMoves
<1>2. \A q \in Process : q # p => (Part(q)' = "handler" <=> Part(q) = "handler")
  BY <1>1, PartIs DEF Part
<1>3. ASSUME NEW q \in Process, Part(q)' = "handler" PROVE file_lock_global' = q
  <2>1. proc'[q].call \in {"create", "open", "remove", "write", "close"}
    BY <1>3 DEF TypeOK, Part, Proc, Calls
  <2>2. CASE q = p
    BY <2>1, <2>2, <1>1 DEF Inside, Excluded
  <2>3. CASE q # p
    BY <2>3, <1>1, <1>2, <1>3, FilesAssumption DEF Excluded
  <2>q. QED BY <2>2, <2>3
<1>4. ASSUME NEW q1 \in Process, NEW q2 \in Process, Inside(proc'[q1]), Inside(proc'[q2])
      PROVE  q1 = q2
  BY <1>1, <1>4 DEF Excluded
<1>q. QED BY <1>3, <1>4 DEF Excluded

---------------------------------------------------------------------------
(* References                                                              *)

LEMMA RefsSame ==
  ASSUME TypeOK, NEW p \in Process, NEW n \in Proc, Set(p, n), NEW s \in Sector,
         \A k \in Int : Refers(n, k, s) <=> Refers(proc[p], k, s)
  PROVE  Refs(s)' = Refs(s)
<1>1. proc'[p] = n /\ \A q \in Process : q # p => proc'[q] = proc[q]
  BY SetMoves
<1>2. \A q \in Process, k \in Int : Refers(proc'[q], k, s) <=> Refers(proc[q], k, s)
  BY <1>1
<1>3. \A x \in Process \X Int : Refers(proc'[x[1]], x[2], s) <=> Refers(proc[x[1]], x[2], s)
  BY <1>2
<1>q. QED BY <1>3 DEF Refs

LEMMA RefsAdded ==
  ASSUME TypeOK, NEW p \in Process, NEW n \in Proc, Set(p, n), NEW s \in Sector, NEW i \in Int,
         ~Refers(proc[p], i, s),
         \A k \in Int : Refers(n, k, s) <=> Refers(proc[p], k, s) \/ k = i
  PROVE  Refs(s)' = Refs(s) \cup {<< p, i >>} /\ << p, i >> \notin Refs(s)
<1>1. proc'[p] = n /\ \A q \in Process : q # p => proc'[q] = proc[q]
  BY SetMoves
<1>2. \A q \in Process, k \in Int :
        Refers(proc'[q], k, s) <=> Refers(proc[q], k, s) \/ (q = p /\ k = i)
  BY <1>1
<1>3. \A x \in Process \X Int :
        Refers(proc'[x[1]], x[2], s) <=> Refers(proc[x[1]], x[2], s) \/ x = << p, i >>
  BY <1>2
<1>q. QED BY <1>3 DEF Refs

LEMMA RefsRemoved ==
  ASSUME TypeOK, NEW p \in Process, NEW n \in Proc, Set(p, n), NEW s \in Sector, NEW i \in Int,
         Refers(proc[p], i, s),
         \A k \in Int : Refers(n, k, s) <=> Refers(proc[p], k, s) /\ k # i
  PROVE  Refs(s)' = Refs(s) \ {<< p, i >>} /\ << p, i >> \in Refs(s)
<1>1. proc'[p] = n /\ \A q \in Process : q # p => proc'[q] = proc[q]
  BY SetMoves
<1>2. \A q \in Process, k \in Int :
        Refers(proc'[q], k, s) <=> Refers(proc[q], k, s) /\ ~(q = p /\ k = i)
  BY <1>1
<1>3. \A x \in Process \X Int :
        Refers(proc'[x[1]], x[2], s) <=> Refers(proc[x[1]], x[2], s) /\ x # << p, i >>
  BY <1>2
<1>q. QED BY <1>3 DEF Refs

LEMMA DeniersSame ==
  ASSUME TypeOK, NEW p \in Process, NEW n \in Proc, Set(p, n), NEW s \in Sector,
         (n.deny_write /\ n.thread_owned_exec = s)
           <=> (proc[p].deny_write /\ proc[p].thread_owned_exec = s)
  PROVE  Deniers(s)' = Deniers(s)
<1>1. proc'[p] = n /\ \A q \in Process : q # p => proc'[q] = proc[q]
  BY SetMoves
<1>q. QED BY <1>1 DEF Deniers

---------------------------------------------------------------------------
(* A step of p that makes or takes no references and no sectors, and       *)
(* touches nothing but where p is and the lock.                            *)

LEMMA ShapedKept ==
  ASSUME TypeOK, Shaped, NEW p \in Process, NEW n \in Proc, Set(p, n), Walks(n), Carries(n)
  PROVE  Shaped'
<1>1. proc'[p] = n /\ \A q \in Process : q # p => proc'[q] = proc[q]
  BY SetMoves
<1>q. QED BY <1>1 DEF Shaped, Walks, Carries

SameRefs(n, r) ==
  /\ \A s \in Sector, k \in Int : Refers(n, k, s) <=> Refers(r, k, s)
  /\ \A s \in Sector : (n.deny_write /\ n.thread_owned_exec = s)
                         <=> (r.deny_write /\ r.thread_owned_exec = s)

LEMMA RefsKept ==
  ASSUME TypeOK, NEW p \in Process, NEW n \in Proc, Set(p, n), SameRefs(n, proc[p])
  PROVE  /\ \A s \in Sector : Refs(s)' = Refs(s) /\ Deniers(s)' = Deniers(s)
         /\ Opened' = Opened
<1>1. ASSUME NEW s \in Sector PROVE Refs(s)' = Refs(s) /\ Deniers(s)' = Deniers(s)
  BY RefsSame, DeniersSame DEF SameRefs
<1>q. QED BY <1>1 DEF Opened

(* What p works on may change, and nothing else does.                      *)
LEMMA WorkingMoves ==
  ASSUME TypeOK, NEW p \in Process, NEW n \in Proc, Set(p, n)
  PROVE  /\ Working' = [Working EXCEPT ![p] = Works(n)]
         /\ Working \in [Process -> SUBSET Nat] /\ Working[p] = Works(proc[p])
<1>1. proc'[p] = n /\ \A q \in Process : q # p => proc'[q] = proc[q]
  BY SetMoves
<1>2. \A r \in Proc : Works(r) \in SUBSET Nat
  BY NumbersFit DEF Works, Proc
<1>3. \A q \in Process : proc[q] \in Proc
  BY DEF TypeOK
<1>4. Working \in [Process -> SUBSET Nat]
  BY <1>2, <1>3 DEF Working
<1>5. \A q \in Process : Works(proc'[q]) = IF q = p THEN Works(n) ELSE Works(proc[q])
  BY <1>1
<1>6. Working' = [q \in Process |-> Works(proc'[q])]
  BY DEF Working, Works
<1>q. QED BY <1>4, <1>5, <1>6 DEF Working

Quiet(p, n) ==
  /\ SameRefs(n, proc[p]) /\ Works(n) = Works(proc[p])
  /\ n.pc \notin {"data", "inode", "add", "remove"} /\ proc[p].pc # "remove"
  /\ Walks(n) /\ Carries(n) /\ Fits(n)

LEMMA QuietStep ==
  ASSUME IInv, NEW p \in Process, NEW n \in Proc, Set(p, n), Quiet(p, n),
         Excluded', file_lock_global' \in Process \cup {Nobody},
         UNCHANGED << disk, freeMap, inodes, lost >>
  PROVE  IInv'
<1>1. proc'[p] = n /\ (\A q \in Process : q # p => proc'[q] = proc[q])
      /\ proc' \in [Process -> Proc]
  BY SetMoves DEF IInv
<1>2. TypeOK'
  BY <1>1 DEF IInv, TypeOK, disk
<1>3. Shaped'
  BY ShapedKept DEF IInv, Quiet
<1>4. (\A s \in Sector : Refs(s)' = Refs(s) /\ Deniers(s)' = Deniers(s)) /\ Opened' = Opened
  BY RefsKept DEF IInv, Quiet
<1>5. Named' = Named
  BY DEF Named, disk
<1>6. Counted'
  BY <1>4 DEF IInv, Counted
<1>7. Remembered'
  <2>1. ASSUME NEW s \in Sector, \E q \in Process : proc[q].pc = "remove" /\ proc[q].sector = s
        PROVE  \E q \in Process : proc'[q].pc = "remove" /\ proc'[q].sector = s
    BY <2>1, <1>1 DEF Quiet
  <2>q. QED BY <2>1, <1>4, <1>5 DEF IInv, Remembered, Closed, disk
<1>8. Fitting'
  BY <1>1, <1>5 DEF IInv, Fitting, Fits, Quiet, disk
<1>9. Injective'
  BY DEF IInv, Injective, disk
<1>10. Working' = Working
  BY WorkingMoves DEF IInv, Quiet
<1>11. Live' = Live /\ Bodies' = Bodies
  BY <1>4, <1>5 DEF Live, Bodies, disk
<1>12. Owner' /\ Apart'
  BY <1>10, <1>11 DEF IInv, Owner, Owning, Apart, disk
<1>13. Saved'
  BY <1>1, <1>5, <1>11 DEF IInv, Saved, Quiet, disk, Works
<1>q. QED BY <1>2, <1>3, <1>6, <1>7, <1>8, <1>9, <1>12, <1>13 DEF IInv

(* What the invariant says of one process.                                 *)
LEMMA Now ==
  ASSUME IInv, NEW p \in Process
  PROVE  /\ proc[p] \in Proc /\ Walks(proc[p]) /\ Carries(proc[p]) /\ Fits(proc[p])
         /\ TypeOK /\ Excluded
BY DEF IInv, TypeOK, Shaped, Fitting

(* Exclusion after p starts a handler, or stays on its side.               *)
LEMMA Entered ==
  ASSUME "load" \notin Unlocked, IInv, NEW p \in Process, NEW n \in Proc, Set(p, n), GetLock(p)
  PROVE  Excluded' /\ file_lock_global' \in Process \cup {Nobody}
<1>1. proc' \in [Process -> Proc]
  BY SetMoves DEF IInv
<1>2. proc'[p] = n /\ \A q \in Process : q # p => proc'[q] = proc[q]
  BY SetMoves DEF IInv
<1>3. \A q \in Process : q # p => ~Inside(proc[q])
  BY EnterAlone DEF IInv, GetLock
<1>4. file_lock_global' = p
  BY DEF GetLock
<1>5. ASSUME NEW q \in Process, Part(q)' = "handler" PROVE file_lock_global' = q
  <2>1. proc'[q].call \in {"create", "open", "remove", "write", "close"}
    BY <1>5, <1>1 DEF Part, Proc, Calls
  <2>2. Inside(proc'[q])
    BY <2>1 DEF Inside
  <2>q. QED BY <2>2, <1>2, <1>3, <1>4
<1>q. QED BY <1>2, <1>3, <1>4, <1>5 DEF Excluded

LEMMA Stayed ==
  ASSUME IInv, NEW p \in Process, NEW n \in Proc, Set(p, n),
         n.call = proc[p].call \/ n.call \in {"user", "dead", "exit"},
         file_lock_global' = file_lock_global
  PROVE  Excluded' /\ file_lock_global' \in Process \cup {Nobody}
<1>1. proc' \in [Process -> Proc]
  BY SetMoves DEF IInv
<1>2. proc'[p] = n /\ \A q \in Process : q # p => proc'[q] = proc[q]
  BY SetMoves DEF IInv
<1>3. \A q \in Process : Inside(proc'[q]) => Inside(proc[q])
  BY <1>2 DEF Inside
<1>5. ASSUME NEW q \in Process, Part(q)' = "handler" PROVE file_lock_global' = q
  <2>1. proc'[q].call \in {"create", "open", "remove", "write", "close"}
    BY <1>5, <1>1 DEF Part, Proc, Calls
  <2>2. proc[q].call = proc'[q].call
    BY <2>1, <1>2
  <2>3. Part(q) = "handler"
    BY <2>1, <2>2, PartIs DEF IInv
  <2>q. QED BY <2>3 DEF IInv, Excluded
<1>q. QED BY <1>3, <1>5 DEF IInv, Excluded, TypeOK

---------------------------------------------------------------------------
(* The quiet steps.                                                        *)
LEMMA CreateStep ==
  ASSUME "load" \notin Unlocked, IInv, NEW p \in Process, Create(p)
  PROVE  IInv'
<1> DEFINE r == proc[p]
<1>0. r \in Proc /\ Walks(r) /\ Carries(r) /\ Fits(r)
  BY Now
<1>1. PICK m \in Name, k \in Sizes :
        Enter(p, [r EXCEPT !.call = "create", !.pc = "sector", !.name = m, !.size = k])
  BY DEF Create
<1>2. PICK n : n = [r EXCEPT !.call = "create", !.pc = "sector", !.name = m, !.size = k]
  OBVIOUS
<1>3. n \in Proc
  BY <1>0, <1>2, Words, NumbersFit DEF Proc
<1>4. n.call = "create" /\ n.pc = "sector" /\ n.name = m /\ n.sector = r.sector /\ n.data = r.data
      /\ n.fd_arr = r.fd_arr /\ n.thread_owned_exec = r.thread_owned_exec
      /\ n.deny_write = r.deny_write
  BY <1>0, <1>2 DEF Proc
<1>5. Set(p, n) /\ GetLock(p) /\ r.call = "user"
  BY <1>1, <1>2 DEF Enter, GetLock, Running
<1>6. Quiet(p, n)
  BY <1>0, <1>4, <1>5 DEF Quiet, SameRefs, Refers, Works, Walks, Carries, Fits
<1>7. Excluded' /\ file_lock_global' \in Process \cup {Nobody}
  BY <1>3, <1>5, Entered
<1>q. QED BY <1>3, <1>5, <1>6, <1>7, QuietStep DEF Create

LEMMA OpenStep ==
  ASSUME "load" \notin Unlocked, IInv, NEW p \in Process, Open(p)
  PROVE  IInv'
<1> DEFINE r == proc[p]
<1>0. r \in Proc /\ Walks(r) /\ Carries(r) /\ Fits(r)
  BY Now
<1>1. PICK m \in Name : Enter(p, [r EXCEPT !.call = "open", !.pc = "lookup", !.name = m])
  BY DEF Open
<1>2. PICK n : n = [r EXCEPT !.call = "open", !.pc = "lookup", !.name = m]
  OBVIOUS
<1>3. n \in Proc
  BY <1>0, <1>2, Words, NumbersFit, <1>1 DEF Proc
<1>4. n.call = "open" /\ n.pc = "lookup" /\ n.name = m /\ n.sector = r.sector /\ n.data =
      r.data /\ n.fd_arr = r.fd_arr /\ n.thread_owned_exec = r.thread_owned_exec /\
      n.deny_write = r.deny_write
  BY <1>0, <1>2 DEF Proc
<1>5. Set(p, n) /\ GetLock(p) /\ r.call = "user"
  BY <1>1, <1>2 DEF Enter, GetLock, Running
<1>6. Quiet(p, n)
  BY <1>0, <1>4, <1>5 DEF Quiet, SameRefs, Refers, Works, Walks, Carries, Fits
<1>7. Excluded' /\ file_lock_global' \in Process \cup {Nobody}
  BY <1>3, <1>4, <1>5, Entered
<1>q. QED BY <1>3, <1>5, <1>6, <1>7, QuietStep DEF Open, disk

LEMMA RemoveStep ==
  ASSUME "load" \notin Unlocked, IInv, NEW p \in Process, Remove(p)
  PROVE  IInv'
<1> DEFINE r == proc[p]
<1>0. r \in Proc /\ Walks(r) /\ Carries(r) /\ Fits(r)
  BY Now
<1>1. PICK m \in Name : Enter(p, [r EXCEPT !.call = "remove", !.pc = "lookup", !.name = m])
  BY DEF Remove
<1>2. PICK n : n = [r EXCEPT !.call = "remove", !.pc = "lookup", !.name = m]
  OBVIOUS
<1>3. n \in Proc
  BY <1>0, <1>2, Words, NumbersFit, <1>1 DEF Proc
<1>4. n.call = "remove" /\ n.pc = "lookup" /\ n.name = m /\ n.sector = r.sector /\ n.data =
      r.data /\ n.fd_arr = r.fd_arr /\ n.thread_owned_exec = r.thread_owned_exec /\
      n.deny_write = r.deny_write
  BY <1>0, <1>2 DEF Proc
<1>5. Set(p, n) /\ GetLock(p) /\ r.call = "user"
  BY <1>1, <1>2 DEF Enter, GetLock, Running
<1>6. Quiet(p, n)
  BY <1>0, <1>4, <1>5 DEF Quiet, SameRefs, Refers, Works, Walks, Carries, Fits
<1>7. Excluded' /\ file_lock_global' \in Process \cup {Nobody}
  BY <1>3, <1>4, <1>5, Entered
<1>q. QED BY <1>3, <1>5, <1>6, <1>7, QuietStep DEF Remove, disk

LEMMA WriteStep ==
  ASSUME "load" \notin Unlocked, IInv, NEW p \in Process, Write(p)
  PROVE  IInv'
<1> DEFINE r == proc[p]
<1>0. r \in Proc /\ Walks(r) /\ Carries(r) /\ Fits(r)
  BY Now
<1>1. PICK s \in {r.fd_arr[fd] : fd \in Descriptors(p)} :
        Enter(p, [r EXCEPT !.call = "write", !.sector = s,
                           !.pc = IF inodes[s].deny_write_cnt = 0 THEN "write" ELSE "return"])
  BY DEF Write
<1>a. s \in Sector
  BY <1>0, <1>1 DEF Descriptors, Proc, Places
<1>b. PICK pc \in {"write", "return"} :
        pc = IF inodes[s].deny_write_cnt = 0 THEN "write" ELSE "return"
  OBVIOUS
<1>2. PICK n : n = [r EXCEPT !.call = "write", !.sector = s, !.pc = pc]
  OBVIOUS
<1>3. n \in Proc
  BY <1>0, <1>2, Words, NumbersFit, <1>a, <1>b DEF Proc
<1>4. n.call = "write" /\ n.pc = pc /\ n.name = r.name /\ n.sector = s /\ n.data = r.data
      /\ n.fd_arr = r.fd_arr /\ n.thread_owned_exec = r.thread_owned_exec /\ n.deny_write =
      r.deny_write
  BY <1>0, <1>2 DEF Proc
<1>5. Set(p, n) /\ GetLock(p) /\ r.call = "user"
  BY <1>1, <1>2, <1>b DEF Enter, GetLock, Running
<1>6. Quiet(p, n)
  BY <1>0, <1>4, <1>5, <1>a, <1>b DEF Quiet, SameRefs, Refers, Works, Walks, Carries, Fits
<1>7. Excluded' /\ file_lock_global' \in Process \cup {Nobody}
  BY <1>3, <1>4, <1>5, Entered
<1>q. QED BY <1>3, <1>5, <1>6, <1>7, QuietStep DEF Write, disk

LEMMA WriteDataStep ==
  ASSUME IInv, NEW p \in Process, WriteData(p)
  PROVE  IInv'
<1> DEFINE r == proc[p]
<1>0. r \in Proc /\ Walks(r) /\ Carries(r) /\ Fits(r)
  BY Now
<1>2. PICK n : n = [r EXCEPT !.pc = "return"]
  OBVIOUS
<1>3. n \in Proc
  BY <1>0, <1>2, Words, NumbersFit DEF Proc
<1>4. n.call = r.call /\ n.pc = "return" /\ n.name = r.name /\ n.sector = r.sector /\
      n.data = r.data /\ n.fd_arr = r.fd_arr /\ n.thread_owned_exec = r.thread_owned_exec
      /\ n.deny_write = r.deny_write
  BY <1>0, <1>2 DEF Proc
<1>5. Set(p, n) /\ r.pc = "write" /\ UNCHANGED file_lock_global
  BY <1>2 DEF WriteData, At
<1>6. Quiet(p, n)
  BY <1>0, <1>4, <1>5 DEF Quiet, SameRefs, Refers, Works, Walks, Carries, Fits
<1>7. Excluded' /\ file_lock_global' \in Process \cup {Nobody}
  BY <1>3, <1>4, <1>5, Stayed
<1>q. QED BY <1>3, <1>5, <1>6, <1>7, QuietStep DEF WriteData, disk

LEMMA ExitStep ==
  ASSUME IInv, NEW p \in Process, Exit(p)
  PROVE  IInv'
<1> DEFINE r == proc[p]
<1>0. r \in Proc /\ Walks(r) /\ Carries(r) /\ Fits(r)
  BY Now
<1>2. PICK n : n = [r EXCEPT !.call = "exit", !.pc = "close"]
  OBVIOUS
<1>3. n \in Proc
  BY <1>0, <1>2, Words, NumbersFit DEF Proc
<1>4. n.call = "exit" /\ n.pc = "close" /\ n.name = r.name /\ n.sector = r.sector /\ n.data
      = r.data /\ n.fd_arr = r.fd_arr /\ n.thread_owned_exec = r.thread_owned_exec /\
      n.deny_write = r.deny_write
  BY <1>0, <1>2 DEF Proc
<1>5. Set(p, n) /\ r.call = "user" /\ UNCHANGED file_lock_global
  BY <1>2 DEF Exit, Running
<1>6. Quiet(p, n)
  BY <1>0, <1>4, <1>5 DEF Quiet, SameRefs, Refers, Works, Walks, Carries, Fits
<1>7. Excluded' /\ file_lock_global' \in Process \cup {Nobody}
  BY <1>3, <1>4, <1>5, Stayed
<1>q. QED BY <1>3, <1>5, <1>6, <1>7, QuietStep DEF Exit, disk

LEMMA FaultStep ==
  ASSUME "load" \notin Unlocked, IInv, NEW p \in Process, Fault(p)
  PROVE  IInv'
<1> DEFINE r == proc[p]
<1>0. r \in Proc /\ Walks(r) /\ Carries(r) /\ Fits(r)
  BY Now
<1>2. PICK n : n = [r EXCEPT !.call = "exit", !.pc = "close"]
  OBVIOUS
<1>3. n \in Proc
  BY <1>0, <1>2, Words, NumbersFit DEF Proc
<1>4. n.call = "exit" /\ n.pc = "close" /\ n.name = r.name /\ n.sector = r.sector /\ n.data
      = r.data /\ n.fd_arr = r.fd_arr /\ n.thread_owned_exec = r.thread_owned_exec /\
      n.deny_write = r.deny_write
  BY <1>0, <1>2 DEF Proc
<1>5. Set(p, n) /\ GetLock(p) /\ r.call = "user"
  BY <1>2 DEF Fault, Enter, GetLock, Running
<1>6. Quiet(p, n)
  BY <1>0, <1>4, <1>5 DEF Quiet, SameRefs, Refers, Works, Walks, Carries, Fits
<1>7. Excluded' /\ file_lock_global' \in Process \cup {Nobody}
  BY <1>3, <1>4, <1>5, Entered
<1>q. QED BY <1>3, <1>5, <1>6, <1>7, QuietStep DEF Fault, disk

(* Exclusion after p starts to load a program, and after it returns.       *)
LEMMA Loading ==
  ASSUME "load" \notin Unlocked, IInv, NEW p \in Process, NEW n \in Proc, Set(p, n),
         MayEnter(p, "load"), n.call = "load", file_lock_global' = file_lock_global
  PROVE  Excluded' /\ file_lock_global' \in Process \cup {Nobody}
<1>1. proc' \in [Process -> Proc]
  BY SetMoves DEF IInv
<1>2. proc'[p] = n /\ \A q \in Process : q # p => proc'[q] = proc[q]
  BY SetMoves DEF IInv
<1>3. \A q \in Process : q # p => ~Inside(proc[q])
  BY EnterAlone DEF IInv
<1>4. ASSUME NEW q \in Process PROVE Part(q)' # "handler"
  <2>1. Part(q)' = "handler" => proc'[q].call \in {"create", "open", "remove", "write", "close"}
    BY <1>1 DEF Part, Proc, Calls
  <2>2. Part(q)' = "handler" => Inside(proc'[q]) /\ proc'[q].call # "load"
    BY <2>1 DEF Inside
  <2>q. QED BY <2>2, <1>2, <1>3
<1>q. QED BY <1>2, <1>3, <1>4 DEF Excluded, IInv, TypeOK

LEMMA Returned ==
  ASSUME IInv, NEW p \in Process, NEW n \in Proc, Set(p, n), proc[p].pc = "return",
         n.call = "user", file_lock_global' = Nobody
  PROVE  Excluded' /\ file_lock_global' \in Process \cup {Nobody}
<1>1. proc' \in [Process -> Proc]
  BY SetMoves DEF IInv
<1>2. proc'[p] = n /\ \A q \in Process : q # p => proc'[q] = proc[q]
  BY SetMoves DEF IInv
<1>0. Walks(proc[p]) /\ Excluded
  BY Now
<1>3. \A q \in Process : q # p => ~Inside(proc[q])
  BY <1>0 DEF Excluded, Walks, Inside
<1>4. ASSUME NEW q \in Process PROVE Part(q)' # "handler"
  <2>1. Part(q)' = "handler" => proc'[q].call \in {"create", "open", "remove", "write", "close"}
    BY <1>1 DEF Part, Proc, Calls
  <2>2. Part(q)' = "handler" => Inside(proc'[q])
    BY <2>1 DEF Inside
  <2>3. ~Inside(n)
    BY DEF Inside
  <2>q. QED BY <2>2, <2>3, <1>2, <1>3
<1>5. ~Inside(n)
  BY DEF Inside
<1>q. QED BY <1>2, <1>3, <1>4, <1>5 DEF Excluded

LEMMA LoadStep ==
  ASSUME "load" \notin Unlocked, IInv, NEW p \in Process, Load(p)
  PROVE  IInv'
<1> DEFINE r == proc[p]
<1>0. r \in Proc /\ Walks(r) /\ Carries(r) /\ Fits(r)
  BY Now
<1>1. PICK m \in Name : Set(p, [r EXCEPT !.call = "load", !.pc = "lookup", !.name = m])
  BY DEF Load
<1>2. PICK n : n = [r EXCEPT !.call = "load", !.pc = "lookup", !.name = m]
  OBVIOUS
<1>3. n \in Proc
  BY <1>0, <1>2, Words, NumbersFit, <1>1 DEF Proc
<1>4. n.call = "load" /\ n.pc = "lookup" /\ n.name = m /\ n.sector = r.sector /\ n.data =
      r.data /\ n.fd_arr = r.fd_arr /\ n.thread_owned_exec = r.thread_owned_exec /\
      n.deny_write = r.deny_write
  BY <1>0, <1>2 DEF Proc
<1>5. Set(p, n) /\ MayEnter(p, "load") /\ r.call = "dead" /\ UNCHANGED file_lock_global
  BY <1>1, <1>2 DEF Load
<1>6. Quiet(p, n)
  BY <1>0, <1>4, <1>5 DEF Quiet, SameRefs, Refers, Works, Walks, Carries, Fits
<1>7. Excluded' /\ file_lock_global' \in Process \cup {Nobody}
  BY <1>3, <1>4, <1>5, Loading
<1>q. QED BY <1>3, <1>5, <1>6, <1>7, QuietStep DEF Load, disk

LEMMA ReturnStep ==
  ASSUME IInv, NEW p \in Process, Return(p)
  PROVE  IInv'
<1> DEFINE r == proc[p]
<1>0. r \in Proc /\ Walks(r) /\ Carries(r) /\ Fits(r)
  BY Now
<1>2. PICK n : n = [r EXCEPT !.call = "user", !.pc = "user", !.name = "", !.sector = NoSector, !.size = 0]
  OBVIOUS
<1>3. n \in Proc
  BY <1>0, <1>2, Words, NumbersFit DEF Proc
<1>4. n.call = "user" /\ n.pc = "user" /\ n.name = "" /\ n.sector = NoSector /\ n.data =
      r.data /\ n.fd_arr = r.fd_arr /\ n.thread_owned_exec = r.thread_owned_exec /\
      n.deny_write = r.deny_write
  BY <1>0, <1>2 DEF Proc
<1>5. Set(p, n) /\ r.pc = "return" /\ file_lock_global' = Nobody
  BY <1>2 DEF Return, At
<1>6. Quiet(p, n)
  BY <1>0, <1>4, <1>5 DEF Quiet, SameRefs, Refers, Works, Walks, Carries, Fits
<1>7. Excluded' /\ file_lock_global' \in Process \cup {Nobody}
  BY <1>3, <1>4, <1>5, Returned
<1>q. QED BY <1>3, <1>5, <1>6, <1>7, QuietStep DEF Return, disk

LEMMA AllocateInodeFails ==
  ASSUME IInv, NEW p \in Process, At(p, "sector"), Set(p, [proc[p] EXCEPT !.pc = "return"]),
         UNCHANGED << disk, freeMap, inodes, file_lock_global, lost >>
  PROVE  IInv'
<1> DEFINE r == proc[p]
<1>0. r \in Proc /\ Walks(r) /\ Carries(r) /\ Fits(r)
  BY Now
<1>2. PICK n : n = [r EXCEPT !.pc = "return"]
  OBVIOUS
<1>3. n \in Proc
  BY <1>0, <1>2, Words, NumbersFit DEF Proc
<1>4. n.call = r.call /\ n.pc = "return" /\ n.name = r.name /\ n.sector = r.sector /\
      n.data = r.data /\ n.fd_arr = r.fd_arr /\ n.thread_owned_exec = r.thread_owned_exec
      /\ n.deny_write = r.deny_write
  BY <1>0, <1>2 DEF Proc
<1>5. Set(p, n) /\ r.pc = "sector" /\ UNCHANGED file_lock_global
  BY <1>2 DEF At
<1>6. Quiet(p, n)
  BY <1>0, <1>4, <1>5 DEF Quiet, SameRefs, Refers, Works, Walks, Carries, Fits
<1>7. Excluded' /\ file_lock_global' \in Process \cup {Nobody}
  BY <1>3, <1>4, <1>5, Stayed
<1>q. QED BY <1>3, <1>5, <1>6, <1>7, QuietStep DEF disk

LEMMA AllocateDataFails ==
  ASSUME IInv, NEW p \in Process, At(p, "data"), Set(p, [proc[p] EXCEPT !.pc = "undo"]),
         UNCHANGED << disk, freeMap, inodes, file_lock_global, lost >>
  PROVE  IInv'
<1> DEFINE r == proc[p]
<1>0. r \in Proc /\ Walks(r) /\ Carries(r) /\ Fits(r)
  BY Now
<1>2. PICK n : n = [r EXCEPT !.pc = "undo"]
  OBVIOUS
<1>3. n \in Proc
  BY <1>0, <1>2, Words, NumbersFit DEF Proc
<1>4. n.call = r.call /\ n.pc = "undo" /\ n.name = r.name /\ n.sector = r.sector /\ n.data
      = r.data /\ n.fd_arr = r.fd_arr /\ n.thread_owned_exec = r.thread_owned_exec /\
      n.deny_write = r.deny_write
  BY <1>0, <1>2 DEF Proc
<1>5. Set(p, n) /\ r.pc = "data" /\ UNCHANGED file_lock_global
  BY <1>2 DEF At
<1>6. Quiet(p, n)
  BY <1>0, <1>4, <1>5 DEF Quiet, SameRefs, Refers, Works, Walks, Carries, Fits
<1>7. Excluded' /\ file_lock_global' \in Process \cup {Nobody}
  BY <1>3, <1>4, <1>5, Stayed
<1>q. QED BY <1>3, <1>5, <1>6, <1>7, QuietStep DEF disk

LEMMA LoadFails ==
  ASSUME IInv, NEW p \in Process, proc[p].pc \in {"deny", "read"}, Set(p, [proc[p] EXCEPT !.call = "exit", !.pc = "close"]),
         UNCHANGED << disk, freeMap, inodes, file_lock_global, lost >>
  PROVE  IInv'
<1> DEFINE r == proc[p]
<1>0. r \in Proc /\ Walks(r) /\ Carries(r) /\ Fits(r)
  BY Now
<1>2. PICK n : n = [r EXCEPT !.call = "exit", !.pc = "close"]
  OBVIOUS
<1>3. n \in Proc
  BY <1>0, <1>2, Words, NumbersFit DEF Proc
<1>4. n.call = "exit" /\ n.pc = "close" /\ n.name = r.name /\ n.sector = r.sector /\ n.data
      = r.data /\ n.fd_arr = r.fd_arr /\ n.thread_owned_exec = r.thread_owned_exec /\
      n.deny_write = r.deny_write
  BY <1>0, <1>2 DEF Proc
<1>5. Set(p, n) /\ r.pc \in {"deny", "read"} /\ UNCHANGED file_lock_global
  BY <1>2
<1>6. Quiet(p, n)
  BY <1>0, <1>4, <1>5 DEF Quiet, SameRefs, Refers, Works, Walks, Carries, Fits
<1>7. Excluded' /\ file_lock_global' \in Process \cup {Nobody}
  BY <1>3, <1>4, <1>5, Stayed
<1>q. QED BY <1>3, <1>5, <1>6, <1>7, QuietStep DEF disk

LEMMA LoadSucceeds ==
  ASSUME IInv, NEW p \in Process, At(p, "read"), Set(p, [proc[p] EXCEPT !.call = "user", !.pc = "user", !.name = ""]),
         UNCHANGED << disk, freeMap, inodes, file_lock_global, lost >>
  PROVE  IInv'
<1> DEFINE r == proc[p]
<1>0. r \in Proc /\ Walks(r) /\ Carries(r) /\ Fits(r)
  BY Now
<1>2. PICK n : n = [r EXCEPT !.call = "user", !.pc = "user", !.name = ""]
  OBVIOUS
<1>3. n \in Proc
  BY <1>0, <1>2, Words, NumbersFit DEF Proc
<1>4. n.call = "user" /\ n.pc = "user" /\ n.name = "" /\ n.sector = r.sector /\ n.data =
      r.data /\ n.fd_arr = r.fd_arr /\ n.thread_owned_exec = r.thread_owned_exec /\
      n.deny_write = r.deny_write
  BY <1>0, <1>2 DEF Proc
<1>5. Set(p, n) /\ r.pc = "read" /\ UNCHANGED file_lock_global
  BY <1>2 DEF At
<1>6. Quiet(p, n)
  BY <1>0, <1>4, <1>5 DEF Quiet, SameRefs, Refers, Works, Walks, Carries, Fits
<1>7. Excluded' /\ file_lock_global' \in Process \cup {Nobody}
  BY <1>3, <1>4, <1>5, Stayed
<1>q. QED BY <1>3, <1>5, <1>6, <1>7, QuietStep DEF disk

LEMMA LookupFails ==
  ASSUME IInv, NEW p \in Process, proc[p].call # "load", At(p, "lookup"), Set(p, [proc[p] EXCEPT !.pc = "return"]),
         UNCHANGED << disk, freeMap, inodes, file_lock_global, lost >>
  PROVE  IInv'
<1> DEFINE r == proc[p]
<1>0. r \in Proc /\ Walks(r) /\ Carries(r) /\ Fits(r)
  BY Now
<1>2. PICK n : n = [r EXCEPT !.pc = "return"]
  OBVIOUS
<1>3. n \in Proc
  BY <1>0, <1>2, Words, NumbersFit DEF Proc
<1>4. n.call = r.call /\ n.pc = "return" /\ n.name = r.name /\ n.sector = r.sector /\
      n.data = r.data /\ n.fd_arr = r.fd_arr /\ n.thread_owned_exec = r.thread_owned_exec
      /\ n.deny_write = r.deny_write
  BY <1>0, <1>2 DEF Proc
<1>5. Set(p, n) /\ r.pc = "lookup" /\ UNCHANGED file_lock_global
  BY <1>2 DEF At
<1>6. Quiet(p, n)
  BY <1>0, <1>4, <1>5 DEF Quiet, SameRefs, Refers, Works, Walks, Carries, Fits
<1>7. Excluded' /\ file_lock_global' \in Process \cup {Nobody}
  BY <1>3, <1>4, <1>5, Stayed
<1>q. QED BY <1>3, <1>5, <1>6, <1>7, QuietStep DEF disk

LEMMA LookupFinds ==
  ASSUME IInv, NEW p \in Process, NEW s \in Sector, entries[proc[p].name] = s,
         At(p, "lookup"), Set(p, [proc[p] EXCEPT !.pc = "open", !.sector = s]),
         UNCHANGED << disk, freeMap, inodes, file_lock_global, lost >>
  PROVE  IInv'
<1> DEFINE r == proc[p]
<1>0. r \in Proc /\ Walks(r) /\ Carries(r) /\ Fits(r)
  BY Now
<1>2. PICK n : n = [r EXCEPT !.pc = "open", !.sector = s]
  OBVIOUS
<1>3. n \in Proc
  BY <1>0, <1>2, Words, NumbersFit DEF Proc
<1>4. n.call = r.call /\ n.pc = "open" /\ n.name = r.name /\ n.sector = s /\ n.data =
      r.data /\ n.fd_arr = r.fd_arr /\ n.thread_owned_exec = r.thread_owned_exec /\
      n.deny_write = r.deny_write
  BY <1>0, <1>2 DEF Proc
<1>5. Set(p, n) /\ r.pc = "lookup" /\ UNCHANGED file_lock_global
  BY <1>2 DEF At
<1>6. Quiet(p, n)
  BY <1>0, <1>4, <1>5 DEF Quiet, SameRefs, Refers, Works, Walks, Carries, Fits
<1>7. Excluded' /\ file_lock_global' \in Process \cup {Nobody}
  BY <1>3, <1>4, <1>5, Stayed
<1>q. QED BY <1>3, <1>5, <1>6, <1>7, QuietStep DEF disk

(* A process that is gone.                                                 *)
LEMMA NobodyFits == NoProcess \in Proc
<1>1. << >> \in Seq(Places) /\ {} \in SUBSET Nat
  OBVIOUS
<1>2. "dead" \in Calls /\ "dead" \in Pcs
  BY Words
<1>q. QED BY Zenon, <1>1, <1>2, NumbersFit DEF Proc, NoProcess

LEMMA LookupGivesUp ==
  ASSUME IInv, NEW p \in Process, proc[p].call = "load", At(p, "lookup"),
         Set(p, NoProcess),
         UNCHANGED << disk, freeMap, inodes, file_lock_global, lost >>
  PROVE  IInv'
<1> DEFINE r == proc[p]
<1>0. r \in Proc /\ Walks(r) /\ Carries(r) /\ Fits(r)
  BY Now
<1>2. PICK n : n = NoProcess
  OBVIOUS
<1>3. n \in Proc
  BY <1>2, NobodyFits
<1>4. n.call = "dead" /\ n.pc = "dead" /\ n.data = {} /\ n.fd_arr = << >> /\ ~n.deny_write
      /\ n.thread_owned_exec = NoSector
  BY <1>2 DEF NoProcess
<1>5. Set(p, n) /\ r.pc = "lookup" /\ UNCHANGED file_lock_global
  BY <1>2 DEF At
<1>6. Quiet(p, n)
  <2>1. /\ \A s \in Sector, k \in Int : ~Refers(r, k, s) /\ ~Refers(n, k, s)
        /\ ~r.deny_write
    <3>1. DOMAIN << >> = {}
      OBVIOUS
    <3>2. \A k \in DOMAIN r.fd_arr : r.fd_arr[k] = NoSector
      BY <1>0, <1>5, <3>1 DEF Carries, Descriptors
    <3>3. r.thread_owned_exec = NoSector /\ ~(r.call = "remove")
      BY <1>0, <1>5 DEF Carries, Walks
    <3>4. ~r.deny_write
      BY <3>3, <1>0 DEF Carries
    <3>q. QED BY <3>1, <3>2, <3>3, <3>4, <1>4, NumbersFit DEF Refers
  <2>q. QED BY <2>1, <1>0, <1>4, <1>5 DEF Quiet, SameRefs, Works, Walks, Carries, Fits
<1>7. Excluded' /\ file_lock_global' \in Process \cup {Nobody}
  BY <1>3, <1>4, <1>5, Stayed
<1>q. QED BY <1>3, <1>5, <1>6, <1>7, QuietStep DEF disk

LEMMA Gone ==
  ASSUME IInv, NEW p \in Process, proc[p].call = "exit", At(p, "close"), Descriptors(p) = {},
         proc[p].thread_owned_exec = NoSector,
         Set(p, NoProcess),
         UNCHANGED << disk, freeMap, inodes, file_lock_global, lost >>
  PROVE  IInv'
<1> DEFINE r == proc[p]
<1>0. r \in Proc /\ Walks(r) /\ Carries(r) /\ Fits(r)
  BY Now
<1>2. PICK n : n = NoProcess
  OBVIOUS
<1>3. n \in Proc
  BY <1>2, NobodyFits
<1>4. n.call = "dead" /\ n.pc = "dead" /\ n.data = {} /\ n.fd_arr = << >> /\ ~n.deny_write
      /\ n.thread_owned_exec = NoSector
  BY <1>2 DEF NoProcess
<1>5. Set(p, n) /\ r.pc = "close" /\ UNCHANGED file_lock_global
  BY <1>2 DEF At
<1>6. Quiet(p, n)
  <2>1. /\ \A s \in Sector, k \in Int : ~Refers(r, k, s) /\ ~Refers(n, k, s)
        /\ ~r.deny_write
    <3>1. DOMAIN << >> = {}
      OBVIOUS
    <3>2. \A k \in DOMAIN r.fd_arr : r.fd_arr[k] = NoSector
      BY <1>0, <1>5, <3>1 DEF Carries, Descriptors
    <3>3. r.thread_owned_exec = NoSector /\ ~(r.call = "remove")
      BY <1>0, <1>5 DEF Carries, Walks
    <3>4. ~r.deny_write
      BY <3>3, <1>0 DEF Carries
    <3>q. QED BY <3>1, <3>2, <3>3, <3>4, <1>4, NumbersFit DEF Refers
  <2>q. QED BY <2>1, <1>0, <1>4, <1>5 DEF Quiet, SameRefs, Works, Walks, Carries, Fits
<1>7. Excluded' /\ file_lock_global' \in Process \cup {Nobody}
  BY <1>3, <1>4, <1>5, Stayed
<1>q. QED BY <1>3, <1>5, <1>6, <1>7, QuietStep DEF disk

LEMMA LookupStep ==
  ASSUME IInv, NEW p \in Process, Lookup(p)
  PROVE  IInv'
<1>1. proc[p].name \in Name /\ entries[proc[p].name] \in Places
  BY Now DEF Lookup, At, Carries, TypeOK
<1>2. CASE entries[proc[p].name] # NoSector
  BY <1>1, <1>2, LookupFinds DEF Lookup, Places
<1>3. CASE entries[proc[p].name] = NoSector /\ proc[p].call = "load"
  BY <1>3, LookupGivesUp DEF Lookup
<1>4. CASE entries[proc[p].name] = NoSector /\ proc[p].call # "load"
  BY <1>4, LookupFails DEF Lookup
<1>q. QED BY <1>2, <1>3, <1>4

LEMMA LoadedStep ==
  ASSUME IInv, NEW p \in Process, Loaded(p)
  PROVE  IInv'
BY LoadSucceeds, LoadFails DEF Loaded, At

LEMMA ExitedStep ==
  ASSUME IInv, NEW p \in Process, Exited(p)
  PROVE  IInv'
BY Gone DEF Exited

---------------------------------------------------------------------------
(* Who owns which sector: L are the files, B their sectors, W the sectors  *)
(* that processes are working on.                                          *)

(* A process takes free sectors.                                           *)
LEMMA TakeSectors ==
  ASSUME NEW L, NEW B, NEW W \in [Process -> SUBSET Nat], NEW free, NEW leaked,
         NEW p \in Process, NEW X \in SUBSET Nat,
         Owning(L, B, W, free, leaked), X \cap free = {}
  PROVE  Owning(L, B, [W EXCEPT ![p] = W[p] \cup X], free \cup X, leaked)
<1> PICK V : V = [W EXCEPT ![p] = W[p] \cup X]
  OBVIOUS
<1>1. V[p] = W[p] \cup X /\ \A q \in Process : q # p => V[q] = W[q]
  OBVIOUS
<1>2. \A q \in Process : W[q] \subseteq V[q] /\ V[q] \subseteq W[q] \cup X
  BY <1>1
<1>q. QED BY <1>1, <1>2 DEF Owning

(* It gives all of its sectors back.                                       *)
LEMMA GiveSectors ==
  ASSUME NEW L, NEW B, NEW W \in [Process -> SUBSET Nat], NEW free, NEW leaked,
         NEW p \in Process, Owning(L, B, W, free, leaked)
  PROVE  Owning(L, B, [W EXCEPT ![p] = {}], free \ W[p], leaked)
<1> PICK V : V = [W EXCEPT ![p] = {}]
  OBVIOUS
<1>1. V[p] = {} /\ \A q \in Process : q # p => V[q] = W[q]
  OBVIOUS
<1>q. QED BY <1>1 DEF Owning

(* It forgets some of them.                                                *)
LEMMA LeakSectors ==
  ASSUME NEW L, NEW B, NEW W \in [Process -> SUBSET Nat], NEW free, NEW leaked,
         NEW p \in Process, NEW X, NEW Y \in SUBSET Nat,
         Owning(L, B, W, free, leaked), W[p] = X \cup Y
  PROVE  Owning(L, B, [W EXCEPT ![p] = Y], free, leaked \cup X)
<1> PICK V : V = [W EXCEPT ![p] = Y]
  OBVIOUS
<1>1. V[p] = Y /\ \A q \in Process : q # p => V[q] = W[q]
  OBVIOUS
<1>q. QED BY <1>1 DEF Owning

(* What it works on becomes a file.                                        *)
LEMMA HandOver ==
  ASSUME NEW L, NEW B, NEW W \in [Process -> SUBSET Nat], NEW free, NEW leaked,
         NEW p \in Process, NEW s, Owning(L, B, W, free, leaked), B[s] = W[p]
  PROVE  Owning(L \cup {s}, B, [W EXCEPT ![p] = {}], free, leaked)
<1> PICK V : V = [W EXCEPT ![p] = {}]
  OBVIOUS
<1>1. V[p] = {} /\ \A q \in Process : q # p => V[q] = W[q]
  OBVIOUS
<1>q. QED BY <1>1 DEF Owning

(* A file becomes what it works on, the inode's sector given back.         *)
LEMMA TakeApart ==
  ASSUME NEW L, NEW B, NEW W \in [Process -> SUBSET Nat], NEW free, NEW leaked,
         NEW p \in Process, NEW s \in L, NEW D \in SUBSET Nat,
         Owning(L, B, W, free, leaked), B[s] = {s} \cup D, s \notin D, W[p] = {}
  PROVE  Owning(L \ {s}, B, [W EXCEPT ![p] = D], free \ {s}, leaked)
<1> PICK V : V = [W EXCEPT ![p] = D]
  OBVIOUS
<1>1. V[p] = D /\ \A q \in Process : q # p => V[q] = W[q]
  OBVIOUS
<1>q. QED BY <1>1 DEF Owning

(* Only sectors that are in no file are written.                           *)
LEMMA Rewritten ==
  ASSUME NEW L, NEW B, NEW C, NEW W, NEW free, NEW leaked,
         Owning(L, B, W, free, leaked), \A s \in L : C[s] = B[s]
  PROVE  Owning(L, C, W, free, leaked)
BY DEF Owning

---------------------------------------------------------------------------
(* A step of p that takes or gives sectors, but makes or takes no          *)
(* references and leaves the directory and the inodes alone.               *)

SectorMove(p, n) ==
  /\ SameRefs(n, proc[p]) /\ Walks(n) /\ Carries(n) /\ Fits(n) /\ n.call = proc[p].call
  /\ proc[p].pc = "remove" => n.pc = "remove" /\ n.sector = proc[p].sector
  /\ n.pc \in {"data", "inode", "add"} /\ ~n.write_map => Works(n) \subseteq diskMap'

LEMMA SectorStep ==
  ASSUME IInv, NEW p \in Process, NEW n \in Proc, Set(p, n), SectorMove(p, n),
         freeMap' \in SUBSET Nat, lost' \in SUBSET Nat, diskMap' \in {diskMap, freeMap}, Owner',
         UNCHANGED << entries, inodeData, inodes, file_lock_global >>
  PROVE  IInv'
<1>1. proc'[p] = n /\ (\A q \in Process : q # p => proc'[q] = proc[q])
      /\ proc' \in [Process -> Proc]
  BY SetMoves DEF IInv
<1>2. TypeOK'
  BY <1>1 DEF IInv, TypeOK
<1>3. Shaped'
  BY ShapedKept DEF IInv, SectorMove
<1>4. (\A s \in Sector : Refs(s)' = Refs(s) /\ Deniers(s)' = Deniers(s)) /\ Opened' = Opened
  BY RefsKept DEF IInv, SectorMove
<1>5. Named' = Named
  BY DEF Named
<1>6. Counted'
  BY <1>4 DEF IInv, Counted
<1>7. Remembered'
  <2>1. ASSUME NEW s \in Sector, \E q \in Process : proc[q].pc = "remove" /\ proc[q].sector = s
        PROVE  \E q \in Process : proc'[q].pc = "remove" /\ proc'[q].sector = s
    BY <2>1, <1>1 DEF SectorMove
  <2>q. QED BY <2>1, <1>4, <1>5 DEF IInv, Remembered, Closed
<1>8. Fitting'
  BY <1>1, <1>5 DEF IInv, Fitting, Fits, SectorMove
<1>9. Injective'
  BY DEF IInv, Injective
<1>10. Live' = Live /\ Bodies' = Bodies
  BY <1>4, <1>5 DEF Live, Bodies
<1>11. Apart'
  BY <1>10 DEF IInv, Apart
<1>12. Saved'
  <2>1. Named \subseteq Live
    BY DEF Live
  <2>2. \A s \in Named : Bodies[s] \subseteq diskMap'
    BY <2>1 DEF IInv, Saved, Owner, Owning
  <2>3. ASSUME NEW q \in Process, q # p, proc[q].pc \in {"data", "inode", "add"}, ~proc[q].write_map
        PROVE  Works(proc[q]) \subseteq diskMap'
    <3>1. Works(proc[q]) \subseteq diskMap
      BY <2>3 DEF IInv, Saved
    <3>2. Works(proc[q]) \subseteq freeMap
      BY DEF IInv, Owner, Owning, Working
    <3>q. QED BY <3>1, <3>2
  <2>4. \A q \in Process : proc'[q].pc \in {"data", "inode", "add"} /\ ~proc'[q].write_map
          => Works(proc'[q]) \subseteq diskMap'
    BY <2>3, <1>1 DEF SectorMove
  <2>q. QED BY <2>2, <2>4, <1>5, <1>10 DEF Saved, Works
<1>13. Excluded'
  BY Stayed DEF SectorMove
<1>q. QED BY <1>2, <1>3, <1>6, <1>7, <1>8, <1>9, <1>11, <1>12, <1>13 DEF IInv

(* The steps that move sectors.                                            *)
LEMMA WriteFreeMapStep ==
  ASSUME IInv, NEW p \in Process, WriteFreeMap(p)
  PROVE  IInv'
<1> DEFINE r == proc[p]
<1>0. r \in Proc /\ Walks(r) /\ Carries(r) /\ Fits(r) /\ TypeOK
  BY Now
<1>2. PICK n : n = [r EXCEPT !.write_map = FALSE]
  OBVIOUS
<1>3. n \in Proc
  BY <1>0, <1>2, Words, NumbersFit DEF Proc
<1>4. n.call = r.call /\ n.pc = r.pc /\ n.name = r.name /\ n.sector = r.sector /\ n.data =
      r.data /\ n.fd_arr = r.fd_arr /\ n.thread_owned_exec = r.thread_owned_exec /\
      n.deny_write = r.deny_write /\ n.write_map = FALSE
  BY <1>0, <1>2 DEF Proc
<1>5. Set(p, n) /\ diskMap' = freeMap
      /\ UNCHANGED << entries, inodeData, freeMap, inodes, file_lock_global, lost >>
  BY <1>2 DEF WriteFreeMap
<1>z. Works(r) \subseteq freeMap
  BY DEF IInv, Owner, Owning, Working
<1>6. SectorMove(p, n)
  BY <1>0, <1>4, <1>5, <1>z DEF SectorMove, SameRefs, Refers, Works, Walks, Carries, Fits
<1>7. Working' = [Working EXCEPT ![p] = Works(n)] /\ Working[p] = Works(r)
      /\ Working \in [Process -> SUBSET Nat]
  BY <1>0, <1>3, <1>5, WorkingMoves
<1>8. Live' = Live /\ Bodies' = Bodies
  <2>1. Opened' = Opened
    BY <1>0, <1>3, <1>5, <1>6, RefsKept DEF SectorMove
  <2>q. QED BY <2>1, <1>5 DEF Live, Named, Bodies
<1>9. Owner'
  <2>1. Owning(Live, Bodies, Working, freeMap, lost)
    BY DEF IInv, Owner
  <2>2. Owning(Live, Bodies, Working', freeMap, lost)
    <3>1. Working' = Working
      BY <1>4, <1>7 DEF Works
    <3>q. QED BY <2>1, <3>1
  <2>q. QED BY <2>2, <1>5, <1>8 DEF Owner
<1>10. freeMap' \in SUBSET Nat /\ lost' \in SUBSET Nat
  BY <1>0, <1>5, NumbersFit DEF TypeOK, Proc, Extent
<1>q. QED BY <1>3, <1>5, <1>6, <1>9, <1>10, SectorStep

LEMMA AllocateInodeFinds ==
  ASSUME IInv, NEW p \in Process, NEW s \in FirstFit(1), At(p, "sector"), freeMap' = freeMap \cup {s},
         Set(p, [proc[p] EXCEPT !.pc = "data", !.sector = s, !.write_map = TRUE]),
         UNCHANGED << disk, inodes, file_lock_global, lost >>
  PROVE  IInv'
<1> DEFINE r == proc[p]
<1>0. r \in Proc /\ Walks(r) /\ Carries(r) /\ Fits(r) /\ TypeOK
  BY Now
<1>2. PICK n : n = [r EXCEPT !.pc = "data", !.sector = s, !.write_map = TRUE]
  OBVIOUS
<1>x. PICK X : X = {s}
  OBVIOUS
<1>v. Extent(s, 1) = {s}
  <2>1. s \in Nat
    BY NumbersFit DEF FirstFit
  <2>2. s + 1 - 1 = s
    BY <2>1
  <2>3. Extent(s, 1) = s .. s
    BY <2>2 DEF Extent
  <2>q. QED BY <2>1, <2>3
<1>y. X \cap freeMap = {} /\ X \in SUBSET Nat /\ X \subseteq Sector
  BY <1>x, <1>v, NumbersFit DEF FirstFit
<1>a. s \in Sector
  BY DEF FirstFit
<1>3. n \in Proc
  BY <1>0, <1>2, <1>a, Words, NumbersFit DEF Proc
<1>4. n.call = r.call /\ n.pc = "data" /\ n.name = r.name /\ n.sector = s /\ n.data =
      r.data /\ n.fd_arr = r.fd_arr /\ n.thread_owned_exec = r.thread_owned_exec /\
      n.deny_write = r.deny_write /\ n.write_map = TRUE
  BY <1>0, <1>2 DEF Proc
<1>5. Set(p, n) /\ r.pc = "sector" /\ freeMap' = freeMap \cup X
      /\ UNCHANGED << entries, inodeData, diskMap, inodes, file_lock_global, lost >>
  BY <1>2, <1>x DEF At, disk
<1>6. SectorMove(p, n)
  BY <1>0, <1>4, <1>5, <1>a, <1>x, <1>y DEF SectorMove, SameRefs, Refers, Works, Walks, Carries, Fits
<1>7. Working' = [Working EXCEPT ![p] = Works(n)] /\ Working[p] = Works(r)
      /\ Working \in [Process -> SUBSET Nat]
  BY <1>0, <1>3, <1>5, WorkingMoves
<1>8. Live' = Live /\ Bodies' = Bodies
  <2>1. Opened' = Opened
    BY <1>0, <1>3, <1>5, <1>6, RefsKept DEF SectorMove
  <2>q. QED BY <2>1, <1>5 DEF Live, Named, Bodies
<1>9. Owner'
  <2>1. Owning(Live, Bodies, Working, freeMap, lost)
    BY DEF IInv, Owner
  <2>2. Owning(Live, Bodies, Working', freeMap \cup X, lost)
    <3>1. Working' = [Working EXCEPT ![p] = Working[p] \cup X]
      BY <1>0, <1>4, <1>5, <1>7, <1>x DEF Works, Carries
    <3>2. Owning(Live, Bodies, [Working EXCEPT ![p] = Working[p] \cup X], freeMap \cup X, lost)
      BY Zenon, <2>1, <1>7, <1>y, TakeSectors
    <3>q. QED BY <3>1, <3>2
  <2>q. QED BY <2>2, <1>5, <1>8 DEF Owner
<1>10. freeMap' \in SUBSET Nat /\ lost' \in SUBSET Nat
  BY <1>0, <1>5, NumbersFit, <1>y DEF TypeOK, Proc, Extent
<1>q. QED BY <1>3, <1>5, <1>6, <1>9, <1>10, SectorStep

LEMMA AllocateDataFinds ==
  ASSUME IInv, NEW p \in Process, NEW s \in FirstFit(proc[p].size), At(p, "data"),
         freeMap' = freeMap \cup Extent(s, proc[p].size),
         Set(p, [proc[p] EXCEPT !.pc = "inode", !.data = Extent(s, proc[p].size),
                                !.write_map = TRUE]),
         UNCHANGED << disk, inodes, file_lock_global, lost >>
  PROVE  IInv'
<1> DEFINE r == proc[p]
<1>0. r \in Proc /\ Walks(r) /\ Carries(r) /\ Fits(r) /\ TypeOK
  BY Now
<1>2. PICK n : n = [r EXCEPT !.pc = "inode", !.data = Extent(s, r.size), !.write_map = TRUE]
  OBVIOUS
<1>x. PICK X : X = Extent(s, r.size)
  OBVIOUS
<1>y. X \cap freeMap = {} /\ X \in SUBSET Nat /\ X \subseteq Sector
  BY <1>0, <1>x, NumbersFit DEF FirstFit, Extent, Proc
<1>3. n \in Proc
  BY <1>0, <1>2, <1>x, <1>y, Words, NumbersFit DEF Proc
<1>a. r.sector \notin X
  <2>1. At(p, "data") /\ r.sector \in Working[p]
    BY DEF Working, Works, At
  <2>q. QED BY <2>1, <1>y DEF IInv, Owner, Owning
<1>4. n.call = r.call /\ n.pc = "inode" /\ n.name = r.name /\ n.sector = r.sector /\ n.data
      = X /\ n.fd_arr = r.fd_arr /\ n.thread_owned_exec = r.thread_owned_exec /\
      n.deny_write = r.deny_write /\ n.write_map = TRUE
  BY <1>0, <1>2, <1>x DEF Proc
<1>5. Set(p, n) /\ r.pc = "data" /\ freeMap' = freeMap \cup X
      /\ UNCHANGED << entries, inodeData, diskMap, inodes, file_lock_global, lost >>
  BY <1>2, <1>x DEF At, disk
<1>6. SectorMove(p, n)
  BY <1>0, <1>4, <1>5, <1>a, <1>x, <1>y DEF SectorMove, SameRefs, Refers, Works, Walks, Carries, Fits
<1>7. Working' = [Working EXCEPT ![p] = Works(n)] /\ Working[p] = Works(r)
      /\ Working \in [Process -> SUBSET Nat]
  BY <1>0, <1>3, <1>5, WorkingMoves
<1>8. Live' = Live /\ Bodies' = Bodies
  <2>1. Opened' = Opened
    BY <1>0, <1>3, <1>5, <1>6, RefsKept DEF SectorMove
  <2>q. QED BY <2>1, <1>5 DEF Live, Named, Bodies
<1>9. Owner'
  <2>1. Owning(Live, Bodies, Working, freeMap, lost)
    BY DEF IInv, Owner
  <2>2. Owning(Live, Bodies, Working', freeMap \cup X, lost)
    <3>1. Working' = [Working EXCEPT ![p] = Working[p] \cup X]
      BY <1>0, <1>4, <1>5, <1>7, <1>x DEF Works, Carries
    <3>2. Owning(Live, Bodies, [Working EXCEPT ![p] = Working[p] \cup X], freeMap \cup X, lost)
      BY Zenon, <2>1, <1>7, <1>y, TakeSectors
    <3>q. QED BY <3>1, <3>2
  <2>q. QED BY <2>2, <1>5, <1>8 DEF Owner
<1>10. freeMap' \in SUBSET Nat /\ lost' \in SUBSET Nat
  BY <1>0, <1>5, NumbersFit, <1>y DEF TypeOK, Proc, Extent
<1>q. QED BY <1>3, <1>5, <1>6, <1>9, <1>10, SectorStep

LEMMA AddEntryLeaks ==
  ASSUME IInv, NEW p \in Process, At(p, "add"), lost' = lost \cup proc[p].data,
         Set(p, [proc[p] EXCEPT !.pc = "undo", !.data = {}]),
         UNCHANGED << entries, inodeData, diskMap, freeMap, inodes, file_lock_global >>
  PROVE  IInv'
<1> DEFINE r == proc[p]
<1>0. r \in Proc /\ Walks(r) /\ Carries(r) /\ Fits(r) /\ TypeOK
  BY Now
<1>2. PICK n : n = [r EXCEPT !.pc = "undo", !.data = {}]
  OBVIOUS
<1>3. n \in Proc
  BY <1>0, <1>2, Words, NumbersFit DEF Proc
<1>4. n.call = r.call /\ n.pc = "undo" /\ n.name = r.name /\ n.sector = r.sector /\ n.data
      = {} /\ n.fd_arr = r.fd_arr /\ n.thread_owned_exec = r.thread_owned_exec /\
      n.deny_write = r.deny_write /\ n.write_map = r.write_map
  BY <1>0, <1>2 DEF Proc
<1>5. Set(p, n) /\ r.pc = "add" /\ lost' = lost \cup r.data
      /\ UNCHANGED << entries, inodeData, diskMap, freeMap, inodes, file_lock_global >>
  BY <1>2 DEF At
<1>6. SectorMove(p, n)
  BY <1>0, <1>4, <1>5 DEF SectorMove, SameRefs, Refers, Works, Walks, Carries, Fits
<1>7. Working' = [Working EXCEPT ![p] = Works(n)] /\ Working[p] = Works(r)
      /\ Working \in [Process -> SUBSET Nat]
  BY <1>0, <1>3, <1>5, WorkingMoves
<1>8. Live' = Live /\ Bodies' = Bodies
  <2>1. Opened' = Opened
    BY <1>0, <1>3, <1>5, <1>6, RefsKept DEF SectorMove
  <2>q. QED BY <2>1, <1>5 DEF Live, Named, Bodies
<1>9. Owner'
  <2>1. Owning(Live, Bodies, Working, freeMap, lost)
    BY DEF IInv, Owner
  <2>2. Owning(Live, Bodies, Working', freeMap, lost \cup r.data)
    <3>1. Works(r) = r.data \cup {r.sector} /\ Works(n) = {r.sector}
      BY <1>4, <1>5 DEF Works
    <3>2. {r.sector} \in SUBSET Nat
      BY <1>0, NumbersFit DEF Proc
    <3>q. QED BY <2>1, <3>1, <3>2, <1>7, LeakSectors
  <2>q. QED BY <2>2, <1>5, <1>8 DEF Owner
<1>10. freeMap' \in SUBSET Nat /\ lost' \in SUBSET Nat
  BY <1>0, <1>5, NumbersFit DEF TypeOK, Proc, Extent
<1>q. QED BY <1>3, <1>5, <1>6, <1>9, <1>10, SectorStep

LEMMA UndoCreateStep ==
  ASSUME IInv, NEW p \in Process, UndoCreate(p)
  PROVE  IInv'
<1> DEFINE r == proc[p]
<1>0. r \in Proc /\ Walks(r) /\ Carries(r) /\ Fits(r) /\ TypeOK
  BY Now
<1>2. PICK n : n = [r EXCEPT !.pc = "return", !.write_map = TRUE]
  OBVIOUS
<1>3. n \in Proc
  BY <1>0, <1>2, Words, NumbersFit DEF Proc
<1>4. n.call = r.call /\ n.pc = "return" /\ n.name = r.name /\ n.sector = r.sector /\
      n.data = r.data /\ n.fd_arr = r.fd_arr /\ n.thread_owned_exec = r.thread_owned_exec
      /\ n.deny_write = r.deny_write /\ n.write_map = TRUE
  BY <1>0, <1>2 DEF Proc
<1>5. Set(p, n) /\ r.pc = "undo" /\ freeMap' = freeMap \ Works(r)
      /\ UNCHANGED << entries, inodeData, diskMap, inodes, file_lock_global, lost >>
  BY <1>0, <1>2 DEF UndoCreate, At, disk, Works, Carries
<1>6. SectorMove(p, n)
  BY <1>0, <1>4, <1>5 DEF SectorMove, SameRefs, Refers, Works, Walks, Carries, Fits
<1>7. Working' = [Working EXCEPT ![p] = Works(n)] /\ Working[p] = Works(r)
      /\ Working \in [Process -> SUBSET Nat]
  BY <1>0, <1>3, <1>5, WorkingMoves
<1>8. Live' = Live /\ Bodies' = Bodies
  <2>1. Opened' = Opened
    BY <1>0, <1>3, <1>5, <1>6, RefsKept DEF SectorMove
  <2>q. QED BY <2>1, <1>5 DEF Live, Named, Bodies
<1>9. Owner'
  <2>1. Owning(Live, Bodies, Working, freeMap, lost)
    BY DEF IInv, Owner
  <2>2. Owning(Live, Bodies, Working', freeMap \ Works(r), lost)
    <3>1. Works(n) = {}
      BY <1>0, <1>4, <1>5 DEF Works, Carries
    <3>q. QED BY <2>1, <3>1, <1>7, GiveSectors
  <2>q. QED BY <2>2, <1>5, <1>8 DEF Owner
<1>10. freeMap' \in SUBSET Nat /\ lost' \in SUBSET Nat
  BY <1>0, <1>5, NumbersFit DEF TypeOK, Proc, Extent
<1>q. QED BY <1>3, <1>5, <1>6, <1>9, <1>10, SectorStep

LEMMA ReleaseDataStep ==
  ASSUME IInv, NEW p \in Process, ReleaseData(p)
  PROVE  IInv'
<1> DEFINE r == proc[p]
<1>0. r \in Proc /\ Walks(r) /\ Carries(r) /\ Fits(r) /\ TypeOK
  BY Now
<1>x. PICK pc \in {"close", "return"} :
        pc = IF r.call = "exit" THEN "close" ELSE "return"
  OBVIOUS
<1>2. PICK n : n = [r EXCEPT !.pc = pc, !.data = {}, !.write_map = TRUE]
  OBVIOUS
<1>3. n \in Proc
  BY <1>0, <1>2, <1>x, Words, NumbersFit DEF Proc
<1>4. n.call = r.call /\ n.pc = pc /\ n.name = r.name /\ n.sector = r.sector /\ n.data = {}
      /\ n.fd_arr = r.fd_arr /\ n.thread_owned_exec = r.thread_owned_exec /\ n.deny_write =
      r.deny_write /\ n.write_map = TRUE
  BY <1>0, <1>2 DEF Proc
<1>5. Set(p, n) /\ r.pc = "release" /\ freeMap' = freeMap \ Works(r)
      /\ UNCHANGED << entries, inodeData, diskMap, inodes, file_lock_global, lost >>
  BY <1>0, <1>2, <1>x DEF ReleaseData, At, disk, Works, Carries
<1>6. SectorMove(p, n)
  BY <1>0, <1>4, <1>5, <1>x DEF SectorMove, SameRefs, Refers, Works, Walks, Carries, Fits
<1>7. Working' = [Working EXCEPT ![p] = Works(n)] /\ Working[p] = Works(r)
      /\ Working \in [Process -> SUBSET Nat]
  BY <1>0, <1>3, <1>5, WorkingMoves
<1>8. Live' = Live /\ Bodies' = Bodies
  <2>1. Opened' = Opened
    BY <1>0, <1>3, <1>5, <1>6, RefsKept DEF SectorMove
  <2>q. QED BY <2>1, <1>5 DEF Live, Named, Bodies
<1>9. Owner'
  <2>1. Owning(Live, Bodies, Working, freeMap, lost)
    BY DEF IInv, Owner
  <2>2. Owning(Live, Bodies, Working', freeMap \ Works(r), lost)
    <3>1. Works(n) = {}
      BY <1>0, <1>4, <1>5, <1>x DEF Works, Carries
    <3>q. QED BY <2>1, <3>1, <1>7, GiveSectors
  <2>q. QED BY <2>2, <1>5, <1>8 DEF Owner
<1>10. freeMap' \in SUBSET Nat /\ lost' \in SUBSET Nat
  BY <1>0, <1>5, NumbersFit DEF TypeOK, Proc, Extent
<1>q. QED BY <1>3, <1>5, <1>6, <1>9, <1>10, SectorStep

LEMMA AllocateInodeStep ==
  ASSUME IInv, NEW p \in Process, AllocateInode(p)
  PROVE  IInv'
BY AllocateInodeFinds, AllocateInodeFails DEF AllocateInode

LEMMA AllocateDataStep ==
  ASSUME IInv, NEW p \in Process, AllocateData(p)
  PROVE  IInv'
BY AllocateDataFinds, AllocateDataFails DEF AllocateData

---------------------------------------------------------------------------
(* Only one process at a time is in a handler or in load.                  *)

Beside(r) ==
  /\ ~Inside(r)
  /\ r.pc \notin {"sector", "data", "inode", "add", "undo", "lookup", "open", "erase", "remove",
                  "deny", "read", "write"}

LEMMA Alone ==
  ASSUME IInv, NEW p \in Process, Inside(proc[p]) \/ ~Beside(proc[p])
  PROVE  \A q \in Process : q # p => Beside(proc[q])
<1>1. \A q \in Process : Walks(proc[q])
  BY Now
<1>2. \A q \in Process : Beside(proc[q]) <=> ~Inside(proc[q])
  BY <1>1 DEF Beside, Inside, Walks
<1>q. QED BY <1>2 DEF IInv, Excluded

(* The sectors a process works on belong to no file.                       *)
LEMMA NotLive ==
  ASSUME IInv, NEW p \in Process, NEW s \in Sector, s \in Works(proc[p])
  PROVE  s \notin Live
<1>1. s \in Working[p] /\ s \in Bodies[s]
  BY DEF Working, Bodies
<1>q. QED BY <1>1 DEF IInv, Owner, Owning

LEMMA LiveSectors ==
  ASSUME TypeOK
  PROVE  Named \subseteq Sector /\ Opened \subseteq Sector /\ Live \subseteq Sector
BY DEF TypeOK, Named, Opened, Live, Places

(* inode_create writes the inode: its sector is in no file yet.            *)
LEMMA WriteInodeStep ==
  ASSUME IInv, NEW p \in Process, WriteInode(p)
  PROVE  IInv'
<1> DEFINE r == proc[p]
<1>0. r \in Proc /\ Walks(r) /\ Carries(r) /\ Fits(r) /\ TypeOK
  BY Now
<1>2. PICK n : n = [r EXCEPT !.pc = "add"]
  OBVIOUS
<1>3. n \in Proc
  BY <1>0, <1>2, Words, NumbersFit DEF Proc
<1>4. n.call = r.call /\ n.pc = "add" /\ n.name = r.name /\ n.sector = r.sector /\ n.data =
      r.data /\ n.fd_arr = r.fd_arr /\ n.thread_owned_exec = r.thread_owned_exec /\
      n.deny_write = r.deny_write /\ n.write_map = r.write_map
  BY <1>0, <1>2 DEF Proc
<1>5. Set(p, n) /\ r.pc = "inode" /\ ~r.write_map
      /\ inodeData' = [inodeData EXCEPT ![r.sector] = r.data]
      /\ UNCHANGED << entries, diskMap, freeMap, inodes, file_lock_global, lost >>
  BY <1>2 DEF WriteInode, At
<1>6. proc'[p] = n /\ (\A q \in Process : q # p => proc'[q] = proc[q])
      /\ proc' \in [Process -> Proc]
  BY <1>0, <1>3, <1>5, SetMoves
<1>7. Working' = [Working EXCEPT ![p] = Works(n)] /\ Working[p] = Works(r)
      /\ Working \in [Process -> SUBSET Nat]
  BY <1>0, <1>3, <1>5, WorkingMoves
<1>8. \A q \in Process : q # p => Beside(proc[q])
  BY <1>0, <1>5, Alone DEF Beside
<1>9. SameRefs(n, r)
  BY <1>4, <1>5 DEF SameRefs, Refers
<1>10. (\A s \in Sector : Refs(s)' = Refs(s) /\ Deniers(s)' = Deniers(s)) /\ Opened' = Opened
  BY <1>0, <1>3, <1>5, <1>9, RefsKept
<1>11. r.sector \in Sector /\ r.data \in SUBSET Nat
  BY <1>0, <1>5 DEF Carries, Proc
<1>12. r.sector \notin Live
  BY <1>5, <1>11, NotLive DEF Works
<1>13. \A s \in Live : inodeData'[s] = inodeData[s] /\ Bodies'[s] = Bodies[s]
  BY <1>0, <1>5, <1>11, <1>12, LiveSectors DEF TypeOK, Bodies
<1>14. Named' = Named /\ Live' = Live /\ Working' = Working
  <2>1. Works(n) = Works(r)
    BY <1>4, <1>5 DEF Works
  <2>q. QED BY <2>1, <1>5, <1>7, <1>10 DEF Named, Live
<1>15. inodeData'[r.sector] = r.data
  BY <1>0, <1>5, <1>11 DEF TypeOK
<1>t1. TypeOK'
  BY <1>0, <1>5, <1>6, <1>11 DEF TypeOK
<1>t2. Shaped'
  <2>1. Walks(n) /\ Carries(n)
    BY <1>0, <1>4, <1>5 DEF Walks, Carries
  <2>q. QED BY <2>1, <1>0, <1>3, <1>5, ShapedKept DEF IInv
<1>t3. Excluded'
  BY <1>3, <1>4, <1>5, Stayed
<1>t4. Counted'
  BY <1>5, <1>10 DEF IInv, Counted
<1>t5. Remembered'
  <2>1. \A q \in Process : proc[q].pc = "remove" => proc'[q] = proc[q]
    BY <1>5, <1>6
  <2>2. Opened \subseteq Live
    BY DEF Live
  <2>3. ASSUME NEW s \in Sector
        PROVE  /\ s \notin Opened => inodes[s] = Closed
               /\ s \in Opened => inodes[s].data = inodeData[s]
               /\ inodes[s].removed => s \notin Named
               /\ s \in Opened /\ ~inodes[s].removed =>
                     s \in Named \/ \E q \in Process : proc[q].pc = "remove" /\ proc[q].sector = s
    BY DEF IInv, Remembered
  <2>4. ASSUME NEW s \in Sector, NEW q \in Process, proc[q].pc = "remove", proc[q].sector = s
        PROVE  \E v \in Process : proc'[v].pc = "remove" /\ proc'[v].sector = s
    BY <2>1, <2>4
  <2>q. QED BY <2>2, <2>3, <2>4, <1>5, <1>10, <1>13, <1>14 DEF Remembered, Closed
<1>t6. Fitting'
  <2>1. \A q \in Process : q # p => Fits(proc[q])'
    BY <1>6, <1>8 DEF Fits, Beside
  <2>2. Fits(proc[p])'
    BY <1>4, <1>6, <1>15 DEF Fits
  <2>q. QED BY <2>1, <2>2 DEF Fitting
<1>t7. Injective'
  BY <1>5 DEF IInv, Injective
<1>t8. Owner'
  <2>1. Owning(Live, Bodies', Working, freeMap, lost)
    BY <1>13, Rewritten DEF IInv, Owner
  <2>q. QED BY <2>1, <1>5, <1>14 DEF Owner
<1>t9. Apart'
  BY <1>13, <1>14 DEF IInv, Apart
<1>t10. Saved'
  <2>1. \A s \in Named : Bodies'[s] \subseteq diskMap
    BY <1>13 DEF IInv, Saved, Live
  <2>2. \A q \in Process : q # p => proc'[q].pc \notin {"data", "inode", "add"}
    BY <1>6, <1>8 DEF Beside
  <2>3. Works(proc'[p]) \subseteq diskMap
    BY <1>4, <1>5, <1>6 DEF Works, IInv, Saved
  <2>4. Works(proc[p])' \subseteq diskMap'
    BY <2>3, <1>5 DEF Works
  <2>q. QED BY <2>1, <2>2, <2>4, <1>5, <1>14 DEF Saved
<1>q. QED
  BY <1>t1, <1>t2, <1>t3, <1>t4, <1>t5, <1>t6, <1>t7, <1>t8, <1>t9, <1>t10 DEF IInv

(* dir_add: what the process made becomes a file.                          *)
LEMMA AddEntryMakes ==
  ASSUME IInv, NEW p \in Process, At(p, "add"), entries[proc[p].name] = NoSector,
         Set(p, [proc[p] EXCEPT !.pc = "return", !.data = {}]),
         entries' = [entries EXCEPT ![proc[p].name] = proc[p].sector],
         UNCHANGED << inodeData, diskMap, freeMap, inodes, file_lock_global, lost >>
  PROVE  IInv'
<1> DEFINE r == proc[p]
<1>0. r \in Proc /\ Walks(r) /\ Carries(r) /\ Fits(r) /\ TypeOK
  BY Now
<1>2. PICK n : n = [r EXCEPT !.pc = "return", !.data = {}]
  OBVIOUS
<1>3. n \in Proc
  BY <1>0, <1>2, Words, NumbersFit DEF Proc
<1>4. n.call = r.call /\ n.pc = "return" /\ n.name = r.name /\ n.sector = r.sector /\
      n.data = {} /\ n.fd_arr = r.fd_arr /\ n.thread_owned_exec = r.thread_owned_exec /\
      n.deny_write = r.deny_write /\ n.write_map = r.write_map
  BY <1>0, <1>2 DEF Proc
<1>5. Set(p, n) /\ r.pc = "add" /\ ~r.write_map /\ entries[r.name] = NoSector
      /\ entries' = [entries EXCEPT ![r.name] = r.sector]
      /\ UNCHANGED << inodeData, diskMap, freeMap, inodes, file_lock_global, lost >>
  BY <1>2 DEF At
<1>6. proc'[p] = n /\ (\A q \in Process : q # p => proc'[q] = proc[q])
      /\ proc' \in [Process -> Proc]
  BY <1>0, <1>3, <1>5, SetMoves
<1>7. Working' = [Working EXCEPT ![p] = Works(n)] /\ Working[p] = Works(r)
      /\ Working \in [Process -> SUBSET Nat]
  BY <1>0, <1>3, <1>5, WorkingMoves
<1>8. \A q \in Process : q # p => Beside(proc[q])
  BY <1>0, <1>5, Alone DEF Beside
<1>9. SameRefs(n, r)
  BY <1>4, <1>5 DEF SameRefs, Refers
<1>10. (\A s \in Sector : Refs(s)' = Refs(s) /\ Deniers(s)' = Deniers(s)) /\ Opened' = Opened
  BY <1>0, <1>3, <1>5, <1>9, RefsKept
<1>11. r.sector \in Sector /\ r.name \in Name
  BY <1>0, <1>5 DEF Carries
<1>12. r.sector \notin Live
  BY <1>5, <1>11, NotLive DEF Works
<1>a. \A m \in Name : entries'[m] = IF m = r.name THEN r.sector ELSE entries[m]
  BY <1>0, <1>5, <1>11 DEF TypeOK
<1>13. Named' = Named \cup {r.sector}
  <2>1. r.sector # NoSector
    BY <1>11, NumbersFit
  <2>q. QED BY <2>1, <1>a, <1>5, <1>11 DEF Named
<1>14. Live' = Live \cup {r.sector} /\ Bodies' = Bodies
  BY <1>5, <1>10, <1>13 DEF Live, Bodies
<1>15. Works(n) = {} /\ Bodies[r.sector] = Works(r) /\ r.sector \notin inodeData[r.sector]
  BY <1>0, <1>4, <1>5, <1>11 DEF Works, Bodies, Fits, Carries
<1>t1. TypeOK'
  BY <1>0, <1>5, <1>6, <1>11, NumbersFit DEF TypeOK
<1>t2. Shaped'
  <2>1. Walks(n) /\ Carries(n)
    BY <1>0, <1>4, <1>5 DEF Walks, Carries
  <2>q. QED BY <2>1, <1>0, <1>3, <1>5, ShapedKept DEF IInv
<1>t3. Excluded'
  BY <1>3, <1>4, <1>5, Stayed
<1>t4. Counted'
  BY <1>5, <1>10 DEF IInv, Counted
<1>t5. Remembered'
  <2>1. \A q \in Process : proc[q].pc # "remove"
    BY <1>5, <1>8 DEF Beside
  <2>2. r.sector \notin Opened
    BY <1>12 DEF Live
  <2>3. inodes[r.sector] = Closed
    BY <2>2, <1>11 DEF IInv, Remembered
  <2>4. ~inodes[r.sector].removed
    BY <2>3 DEF Closed
  <2>5. \A s \in Sector : /\ s \notin Opened => inodes[s] = Closed
                          /\ s \in Opened => inodes[s].data = inodeData[s]
                          /\ inodes[s].removed => s \notin Named
                          /\ s \in Opened /\ ~inodes[s].removed => s \in Named
    BY <2>1 DEF IInv, Remembered
  <2>q. QED BY <2>4, <2>5, <1>5, <1>10, <1>13 DEF Remembered, Closed
<1>t6. Fitting'
  <2>1. \A q \in Process : q # p => Fits(proc[q])'
    BY <1>6, <1>8 DEF Fits, Beside
  <2>2. Fits(proc[p])'
    BY <1>4, <1>6 DEF Fits
  <2>q. QED BY <2>1, <2>2 DEF Fitting
<1>t7. Injective'
  <2>1. \A m \in Name : entries[m] # r.sector
    BY <1>11, <1>12, NumbersFit DEF Live, Named
  <2>q. QED BY <2>1, <1>a DEF IInv, Injective
<1>t8. Owner'
  <2>1. Owning(Live, Bodies, Working, freeMap, lost)
    BY DEF IInv, Owner
  <2>2. Owning(Live \cup {r.sector}, Bodies, [Working EXCEPT ![p] = {}], freeMap, lost)
    BY Zenon, <2>1, <1>7, <1>15, HandOver
  <2>q. QED BY <2>2, <1>5, <1>7, <1>14, <1>15 DEF Owner
<1>t9. Apart'
  BY <1>5, <1>14, <1>15 DEF IInv, Apart
<1>t10. Saved'
  <2>1. Works(r) \subseteq diskMap
    BY <1>5 DEF IInv, Saved
  <2>2. \A s \in Named' : Bodies'[s] \subseteq diskMap
    BY <2>1, <1>13, <1>14, <1>15 DEF IInv, Saved
  <2>3. \A q \in Process : proc'[q].pc \notin {"data", "inode", "add"}
    BY <1>4, <1>6, <1>8 DEF Beside
  <2>q. QED BY <2>2, <2>3, <1>5 DEF Saved
<1>q. QED
  BY <1>t1, <1>t2, <1>t3, <1>t4, <1>t5, <1>t6, <1>t7, <1>t8, <1>t9, <1>t10 DEF IInv

LEMMA AddEntryStep ==
  ASSUME IInv, NEW p \in Process, AddEntry(p)
  PROVE  IInv'
BY AddEntryLeaks, AddEntryMakes DEF AddEntry

(* dir_remove erases the name of a file that it has open itself.           *)
LEMMA EraseEntryStep ==
  ASSUME IInv, NEW p \in Process, EraseEntry(p)
  PROVE  IInv'
<1> DEFINE r == proc[p]
<1>0. r \in Proc /\ Walks(r) /\ Carries(r) /\ Fits(r) /\ TypeOK
  BY Now
<1>2. PICK n : n = [r EXCEPT !.pc = "remove"]
  OBVIOUS
<1>3. n \in Proc
  BY <1>0, <1>2, Words, NumbersFit DEF Proc
<1>4. n.call = r.call /\ n.pc = "remove" /\ n.name = r.name /\ n.sector = r.sector /\
      n.data = r.data /\ n.fd_arr = r.fd_arr /\ n.thread_owned_exec = r.thread_owned_exec
      /\ n.deny_write = r.deny_write /\ n.write_map = r.write_map
  BY <1>0, <1>2 DEF Proc
<1>5. Set(p, n) /\ r.pc = "erase"
      /\ entries' = [entries EXCEPT ![r.name] = NoSector]
      /\ UNCHANGED << inodeData, diskMap, freeMap, inodes, file_lock_global, lost >>
  BY <1>2 DEF EraseEntry, At
<1>6. proc'[p] = n /\ (\A q \in Process : q # p => proc'[q] = proc[q])
      /\ proc' \in [Process -> Proc]
  BY <1>0, <1>3, <1>5, SetMoves
<1>7. Working' = [Working EXCEPT ![p] = Works(n)] /\ Working[p] = Works(r)
      /\ Working \in [Process -> SUBSET Nat]
  BY <1>0, <1>3, <1>5, WorkingMoves
<1>8. \A q \in Process : q # p => Beside(proc[q])
  BY <1>0, <1>5, Alone DEF Beside
<1>9. SameRefs(n, r)
  BY <1>0, <1>4, <1>5 DEF SameRefs, Refers
<1>10. (\A s \in Sector : Refs(s)' = Refs(s) /\ Deniers(s)' = Deniers(s)) /\ Opened' = Opened
  BY <1>0, <1>3, <1>5, <1>9, RefsKept
<1>11. r.sector \in Sector /\ r.name \in Name /\ r.call = "remove" /\ entries[r.name] = r.sector
  BY <1>0, <1>5 DEF Carries, Walks, Fits
<1>12. r.sector \in Opened
  <2>1. Refers(r, -1, r.sector)
    BY <1>5, <1>11 DEF Refers
  <2>2. << p, -1 >> \in Refs(r.sector)
    BY <2>1 DEF Refs
  <2>q. QED BY <2>2, <1>11 DEF Opened
<1>a. \A m \in Name : entries'[m] = IF m = r.name THEN NoSector ELSE entries[m]
  BY <1>0, <1>5, <1>11 DEF TypeOK
<1>13. Named' = Named \ {r.sector}
  <2>1. r.sector # NoSector
    BY <1>11, NumbersFit
  <2>2. \A m \in Name : m # r.name => entries[m] # r.sector
    BY <2>1, <1>11 DEF IInv, Injective
  <2>q. QED BY <2>1, <2>2, <1>a, <1>11 DEF Named
<1>14. Live' = Live /\ Bodies' = Bodies
  <2>1. r.sector \in Named
    BY <1>11, NumbersFit DEF Named
  <2>q. QED BY <2>1, <1>5, <1>10, <1>12, <1>13 DEF Live, Bodies
<1>15. Working' = Working
  <2>1. Works(n) = Works(r)
    BY <1>4, <1>5 DEF Works
  <2>q. QED BY <2>1, <1>7
<1>t1. TypeOK'
  BY <1>0, <1>5, <1>6, NumbersFit DEF TypeOK
<1>t2. Shaped'
  <2>1. Walks(n) /\ Carries(n)
    BY <1>0, <1>4, <1>5 DEF Walks, Carries
  <2>q. QED BY <2>1, <1>0, <1>3, <1>5, ShapedKept DEF IInv
<1>t3. Excluded'
  BY <1>3, <1>4, <1>5, Stayed
<1>t4. Counted'
  BY <1>5, <1>10 DEF IInv, Counted
<1>t5. Remembered'
  <2>1. \A q \in Process : proc[q].pc # "remove"
    BY <1>5, <1>8 DEF Beside
  <2>2. \A s \in Sector : /\ s \notin Opened => inodes[s] = Closed
                          /\ s \in Opened => inodes[s].data = inodeData[s]
                          /\ inodes[s].removed => s \notin Named
                          /\ s \in Opened /\ ~inodes[s].removed => s \in Named
    BY <2>1 DEF IInv, Remembered
  <2>3. proc'[p].pc = "remove" /\ proc'[p].sector = r.sector
    BY <1>4, <1>6
  <2>q. QED BY <2>2, <2>3, <1>5, <1>10, <1>13 DEF Remembered, Closed
<1>t6. Fitting'
  <2>1. \A q \in Process : q # p => Fits(proc[q])'
    BY <1>6, <1>8 DEF Fits, Beside
  <2>2. Fits(proc[p])'
    BY <1>4, <1>6, <1>13 DEF Fits
  <2>q. QED BY <2>1, <2>2 DEF Fitting
<1>t7. Injective'
  BY <1>a DEF IInv, Injective
<1>t8. Owner'
  BY <1>5, <1>14, <1>15 DEF IInv, Owner
<1>t9. Apart'
  BY <1>5, <1>14 DEF IInv, Apart
<1>t10. Saved'
  <2>3. \A q \in Process : proc'[q].pc \notin {"data", "inode", "add"}
    BY <1>4, <1>6, <1>8 DEF Beside
  <2>q. QED BY <2>3, <1>5, <1>13, <1>14 DEF IInv, Saved
<1>q. QED
  BY <1>t1, <1>t2, <1>t3, <1>t4, <1>t5, <1>t6, <1>t7, <1>t8, <1>t9, <1>t10 DEF IInv

(* inode_remove marks it.                                                  *)
LEMMA RemoveInodeStep ==
  ASSUME IInv, NEW p \in Process, RemoveInode(p)
  PROVE  IInv'
<1> DEFINE r == proc[p]
<1>0. r \in Proc /\ Walks(r) /\ Carries(r) /\ Fits(r) /\ TypeOK
  BY Now
<1>2. PICK n : n = [r EXCEPT !.pc = "close"]
  OBVIOUS
<1>3. n \in Proc
  BY <1>0, <1>2, Words, NumbersFit DEF Proc
<1>4. n.call = r.call /\ n.pc = "close" /\ n.name = r.name /\ n.sector = r.sector /\ n.data
      = r.data /\ n.fd_arr = r.fd_arr /\ n.thread_owned_exec = r.thread_owned_exec /\
      n.deny_write = r.deny_write /\ n.write_map = r.write_map
  BY <1>0, <1>2 DEF Proc
<1>5. Set(p, n) /\ r.pc = "remove"
      /\ inodes' = [inodes EXCEPT ![r.sector].removed = TRUE]
      /\ UNCHANGED << entries, inodeData, diskMap, freeMap, file_lock_global, lost >>
  BY <1>2 DEF RemoveInode, At, disk
<1>6. proc'[p] = n /\ (\A q \in Process : q # p => proc'[q] = proc[q])
      /\ proc' \in [Process -> Proc]
  BY <1>0, <1>3, <1>5, SetMoves
<1>7. Working' = [Working EXCEPT ![p] = Works(n)] /\ Working[p] = Works(r)
      /\ Working \in [Process -> SUBSET Nat]
  BY <1>0, <1>3, <1>5, WorkingMoves
<1>8. \A q \in Process : q # p => Beside(proc[q])
  BY <1>0, <1>5, Alone DEF Beside
<1>9. SameRefs(n, r)
  BY <1>0, <1>4, <1>5 DEF SameRefs, Refers
<1>10. (\A s \in Sector : Refs(s)' = Refs(s) /\ Deniers(s)' = Deniers(s)) /\ Opened' = Opened
  BY <1>0, <1>3, <1>5, <1>9, RefsKept
<1>11. r.sector \in Sector /\ r.call = "remove" /\ r.sector \notin Named
  BY <1>0, <1>5 DEF Carries, Walks, Fits
<1>12. r.sector \in Opened
  <2>1. Refers(r, -1, r.sector)
    BY <1>5, <1>11 DEF Refers
  <2>2. << p, -1 >> \in Refs(r.sector)
    BY <2>1 DEF Refs
  <2>q. QED BY <2>2, <1>11 DEF Opened
<1>a. /\ inodes' \in [Sector -> Inode] /\ inodes'[r.sector].removed
      /\ inodes'[r.sector].data = inodes[r.sector].data
      /\ inodes'[r.sector].open_cnt = inodes[r.sector].open_cnt
      /\ inodes'[r.sector].deny_write_cnt = inodes[r.sector].deny_write_cnt
      /\ \A s \in Sector : s # r.sector => inodes'[s] = inodes[s]
  BY <1>0, <1>5, <1>11 DEF TypeOK, Inode
<1>13. Named' = Named
  BY <1>5 DEF Named
<1>14. Live' = Live /\ Bodies' = Bodies
  BY <1>5, <1>10, <1>13 DEF Live, Bodies
<1>15. Working' = Working
  <2>1. Works(n) = Works(r)
    BY <1>4, <1>5 DEF Works
  <2>q. QED BY <2>1, <1>7
<1>t1. TypeOK'
  BY <1>0, <1>5, <1>6, <1>a DEF TypeOK
<1>t2. Shaped'
  <2>1. Walks(n) /\ Carries(n)
    BY <1>0, <1>4, <1>5 DEF Walks, Carries
  <2>q. QED BY <2>1, <1>0, <1>3, <1>5, ShapedKept DEF IInv
<1>t3. Excluded'
  BY <1>3, <1>4, <1>5, Stayed
<1>t4. Counted'
  BY <1>5, <1>10, <1>a DEF IInv, Counted
<1>t5. Remembered'
  <2>1. \A s \in Sector, q \in Process : proc[q].pc = "remove" /\ proc[q].sector = s => s = r.sector
    BY <1>5, <1>8 DEF Beside
  <2>2. \A s \in Sector : /\ s \notin Opened => inodes[s] = Closed
                          /\ s \in Opened => inodes[s].data = inodeData[s]
                          /\ inodes[s].removed => s \notin Named
                          /\ s \in Opened /\ ~inodes[s].removed => s \in Named \/ s = r.sector
    BY <2>1 DEF IInv, Remembered
  <2>3. Closed' = Closed
    BY DEF Closed
  <2>4. ASSUME NEW s \in Sector
        PROVE  /\ s \notin Opened => inodes'[s] = Closed
               /\ s \in Opened => inodes'[s].data = inodeData[s]
               /\ inodes'[s].removed => s \notin Named
               /\ s \in Opened /\ ~inodes'[s].removed => s \in Named
    <3>1. CASE s = r.sector
      BY <3>1, <2>2, <1>a, <1>11, <1>12
    <3>2. CASE s # r.sector
      BY <3>2, <2>2, <1>a
    <3>q. QED BY <3>1, <3>2
  <2>q. QED BY <2>3, <2>4, <1>5, <1>10, <1>13 DEF Remembered
<1>t6. Fitting'
  <2>1. \A q \in Process : q # p => Fits(proc[q])'
    BY <1>6, <1>8 DEF Fits, Beside
  <2>2. Fits(proc[p])'
    BY <1>4, <1>6 DEF Fits
  <2>q. QED BY <2>1, <2>2 DEF Fitting
<1>t7. Injective'
  BY <1>5 DEF IInv, Injective
<1>t8. Owner'
  BY <1>5, <1>14, <1>15 DEF IInv, Owner
<1>t9. Apart'
  BY <1>5, <1>14 DEF IInv, Apart
<1>t10. Saved'
  <2>3. \A q \in Process : proc'[q].pc \notin {"data", "inode", "add"}
    BY <1>4, <1>6, <1>8 DEF Beside
  <2>q. QED BY <2>3, <1>5, <1>13, <1>14 DEF IInv, Saved
<1>q. QED
  BY <1>t1, <1>t2, <1>t3, <1>t4, <1>t5, <1>t6, <1>t7, <1>t8, <1>t9, <1>t10 DEF IInv

---------------------------------------------------------------------------
(* A process gets a reference to an inode.                                 *)

Opening(p, n, i, s) ==
  /\ proc[p].pc = "open" /\ proc[p].sector = s
  /\ n.pc \in {"return", "erase", "deny"} /\ n.call = proc[p].call
  /\ Walks(n) /\ Carries(n) /\ Fits(n)
  /\ \A k \in Int, t \in Sector :
       /\ ~Refers(proc[p], i, t)
       /\ Refers(n, k, t) <=> Refers(proc[p], k, t) \/ (k = i /\ t = s)
  /\ ~n.deny_write \/ n.thread_owned_exec = proc[p].thread_owned_exec
  /\ n.deny_write = proc[p].deny_write

LEMMA OpeningRefs ==
  ASSUME IInv, NEW p \in Process, NEW n \in Proc, NEW i \in Int, NEW s \in Sector, Set(p, n),
         Opening(p, n, i, s)
  PROVE  /\ \A t \in Sector : Deniers(t)' = Deniers(t)
         /\ \A t \in Sector : t # s => Refs(t)' = Refs(t)
         /\ Refs(s)' = Refs(s) \cup {<< p, i >>} /\ << p, i >> \notin Refs(s)
         /\ Opened' = Opened \cup {s}
<1>0. TypeOK
  BY Now
<1>1. ASSUME NEW t \in Sector PROVE Deniers(t)' = Deniers(t)
  BY <1>0, DeniersSame DEF Opening
<1>2. ASSUME NEW t \in Sector, t # s PROVE Refs(t)' = Refs(t)
  BY <1>0, <1>2, RefsSame DEF Opening
<1>3. Refs(s)' = Refs(s) \cup {<< p, i >>} /\ << p, i >> \notin Refs(s)
  BY <1>0, RefsAdded DEF Opening
<1>4. Opened' = Opened \cup {s}
  BY <1>2, <1>3 DEF Opened
<1>q. QED BY <1>1, <1>2, <1>3, <1>4

LEMMA OpeningStep ==
  ASSUME IInv, NEW p \in Process, NEW n \in Proc, NEW i \in Int, NEW s \in Sector, Set(p, n),
         Opening(p, n, i, s), NEW inode,
         inode = IF inodes[s].open_cnt = 0 THEN [Closed EXCEPT !.data = inodeData[s]] ELSE inodes[s],
         inodes' = [inodes EXCEPT ![s] = [inode EXCEPT !.open_cnt = inode.open_cnt + 1]],
         UNCHANGED << disk, freeMap, file_lock_global, lost >>
  PROVE  IInv'
<1> DEFINE r == proc[p]
<1>0. r \in Proc /\ Walks(r) /\ Carries(r) /\ Fits(r) /\ TypeOK
  BY Now
<1>5. UNCHANGED << entries, inodeData, diskMap, freeMap, file_lock_global, lost >>
  BY DEF disk
<1>6. proc'[p] = n /\ (\A q \in Process : q # p => proc'[q] = proc[q])
      /\ proc' \in [Process -> Proc]
  BY <1>0, SetMoves
<1>7. r.name \in Name /\ entries[r.name] = s
  BY <1>0 DEF Opening, Carries, Fits
<1>8. s \in Named
  BY <1>7, NumbersFit DEF Named
<1>9. /\ \A t \in Sector : Deniers(t)' = Deniers(t)
      /\ \A t \in Sector : t # s => Refs(t)' = Refs(t)
      /\ Refs(s)' = Refs(s) \cup {<< p, i >>} /\ << p, i >> \notin Refs(s)
      /\ Opened' = Opened \cup {s}
  BY OpeningRefs
<1>10. /\ IsFiniteSet(Refs(s)) /\ inodes[s].open_cnt = Cardinality(Refs(s))
       /\ IsFiniteSet(Refs(s)') /\ Cardinality(Refs(s)') = inodes[s].open_cnt + 1
  BY <1>9, FS_AddElement, FS_CardinalityType DEF IInv, Counted
<1>11. inodes[s].open_cnt = 0 <=> s \notin Opened
  BY <1>10, FS_EmptySet DEF Opened
<1>12. /\ s \notin Opened => inodes[s] = Closed
       /\ s \in Opened => inodes[s].data = inodeData[s]
       /\ ~inodes[s].removed
  BY <1>8 DEF IInv, Remembered
<1>13. /\ inodes' \in [Sector -> Inode]
       /\ inodes'[s].open_cnt = inodes[s].open_cnt + 1
       /\ inodes'[s].deny_write_cnt = inodes[s].deny_write_cnt
       /\ inodes'[s].data = inodeData[s] /\ ~inodes'[s].removed
       /\ \A t \in Sector : t # s => inodes'[t] = inodes[t]
  <2>0. inodes[s] \in Inode /\ inodeData[s] \in SUBSET Nat
    BY <1>0 DEF TypeOK
  <2>1. /\ inode \in Inode /\ inode.data = inodeData[s] /\ ~inode.removed
        /\ inode.open_cnt = inodes[s].open_cnt /\ inode.deny_write_cnt = inodes[s].deny_write_cnt
    <3>1. CASE inodes[s].open_cnt = 0
      <4>1. inode = [Closed EXCEPT !.data = inodeData[s]] /\ inodes[s] = Closed
        BY <3>1, <1>11, <1>12
      <4>q. QED BY <4>1, <2>0 DEF Inode, Closed
    <3>2. CASE inodes[s].open_cnt # 0
      BY <3>2, <2>0, <1>11, <1>12
    <3>q. QED BY <3>1, <3>2
  <2>2. PICK e : e = [inode EXCEPT !.open_cnt = inode.open_cnt + 1]
    OBVIOUS
  <2>3. e \in Inode /\ e.open_cnt = inodes[s].open_cnt + 1
        /\ e.deny_write_cnt = inodes[s].deny_write_cnt /\ e.data = inodeData[s] /\ ~e.removed
    BY <2>1, <2>2 DEF Inode
  <2>4. inodes' = [inodes EXCEPT ![s] = e]
    BY <2>2
  <2>q. QED BY <2>3, <2>4, <1>0 DEF TypeOK
<1>14. Named' = Named /\ Live' = Live /\ Bodies' = Bodies
  BY <1>5, <1>8, <1>9 DEF Named, Live, Bodies
<1>15. Working' = Working
  <2>1. Works(n) = Works(r)
    BY <1>0 DEF Opening, Works, Carries
  <2>q. QED BY <2>1, <1>0, WorkingMoves
<1>t1. TypeOK'
  BY <1>0, <1>5, <1>6, <1>13 DEF TypeOK
<1>t2. Shaped'
  BY ShapedKept DEF IInv, Opening
<1>t3. Excluded'
  BY <1>5, Stayed DEF Opening
<1>t4. Counted'
  <2>1. ASSUME NEW t \in Sector
        PROVE  IsFiniteSet(Refs(t))' /\ inodes'[t].open_cnt = Cardinality(Refs(t)')
    BY <1>9, <1>10, <1>13 DEF IInv, Counted
  <2>2. ASSUME NEW t \in Sector
        PROVE  IsFiniteSet(Deniers(t))' /\ inodes'[t].deny_write_cnt = Cardinality(Deniers(t)')
    BY <1>9, <1>13 DEF IInv, Counted
  <2>q. QED BY <2>1, <2>2 DEF Counted
<1>t5. Remembered'
  <2>1. ASSUME NEW t \in Sector, \E q \in Process : proc[q].pc = "remove" /\ proc[q].sector = t
        PROVE  \E q \in Process : proc'[q].pc = "remove" /\ proc'[q].sector = t
    BY <2>1, <1>6 DEF Opening
  <2>2. \A t \in Sector :
          /\ t \notin Opened => inodes[t] = Closed
          /\ t \in Opened => inodes[t].data = inodeData[t]
          /\ inodes[t].removed => t \notin Named
          /\ t \in Opened /\ ~inodes[t].removed =>
                t \in Named \/ \E q \in Process : proc[q].pc = "remove" /\ proc[q].sector = t
    BY DEF IInv, Remembered
  <2>q. QED BY <2>1, <2>2, <1>5, <1>8, <1>9, <1>13, <1>14 DEF Remembered, Closed
<1>t6. Fitting'
  <2>1. \A q \in Process : q # p => Beside(proc[q])
    BY Alone DEF Opening, Beside
  <2>2. \A q \in Process : q # p => Fits(proc[q])'
    BY <2>1, <1>6 DEF Fits, Beside
  <2>3. Fits(proc[p])'
    BY <1>5, <1>6, <1>14 DEF Fits, Opening
  <2>q. QED BY <2>2, <2>3 DEF Fitting
<1>t7. Injective'
  BY <1>5 DEF IInv, Injective
<1>t8. Owner'
  BY <1>5, <1>14, <1>15 DEF IInv, Owner
<1>t9. Apart'
  BY <1>5, <1>14 DEF IInv, Apart
<1>t10. Saved'
  BY <1>5, <1>6, <1>14 DEF IInv, Saved, Opening, Works
<1>q. QED
  BY <1>t1, <1>t2, <1>t3, <1>t4, <1>t5, <1>t6, <1>t7, <1>t8, <1>t9, <1>t10 DEF IInv

(* A descriptor more, and a descriptor closed.                             *)
LEMMA Appended ==
  ASSUME NEW S, NEW arr \in Seq(S), NEW s \in S, NEW more, more = Append(arr, s),
         NEW i, i = Len(arr) + 1
  PROVE  /\ more \in Seq(S) /\ DOMAIN more = DOMAIN arr \cup {i} /\ more[i] = s
         /\ i \notin DOMAIN arr /\ i # 0 /\ i # -1
         /\ \A k \in DOMAIN arr : more[k] = arr[k]
OBVIOUS

(* A descriptor for open, an inode of its own for remove, the executable   *)
(* for load.                                                               *)
LEMMA OpenInodeStep ==
  ASSUME IInv, NEW p \in Process, OpenInode(p)
  PROVE  IInv'
<1> DEFINE r == proc[p]
<1>0. r \in Proc /\ Walks(r) /\ Carries(r) /\ Fits(r)
  BY Now
<1>1. PICK s \in Sector : s = r.sector
  BY <1>0 DEF OpenInode, At, Carries
<1>2. PICK inode : inode = IF inodes[s].open_cnt = 0 THEN [Closed EXCEPT !.data = inodeData[s]]
                                                    ELSE inodes[s]
  OBVIOUS
<1>3. /\ r.pc = "open" /\ inodes' = [inodes EXCEPT ![s] = [inode EXCEPT !.open_cnt = inode.open_cnt + 1]]
      /\ UNCHANGED << disk, freeMap, file_lock_global, lost >>
  BY <1>1, <1>2 DEF OpenInode, At
<1>4. CASE r.call = "open"
  <2>1. PICK arr : arr = Append(r.fd_arr, s)
    OBVIOUS
  <2>2. PICK n : n = [r EXCEPT !.pc = "return", !.fd_arr = arr]
    OBVIOUS
  <2>3. PICK i \in Int : i = Len(r.fd_arr) + 1
    BY <1>0 DEF Proc
  <2>4. /\ arr \in Seq(Places) /\ DOMAIN arr = DOMAIN r.fd_arr \cup {i} /\ arr[i] = s
        /\ i \notin DOMAIN r.fd_arr /\ i # 0 /\ i # -1
        /\ \A k \in DOMAIN r.fd_arr : arr[k] = r.fd_arr[k]
    <3>1. r.fd_arr \in Seq(Places) /\ s \in Places
      BY <1>0, NumbersFit DEF Proc
    <3>q. QED BY <2>1, <2>3, <3>1, Appended
  <2>5. n \in Proc
    BY <1>0, <2>2, <2>4, Words DEF Proc
  <2>6. n.call = r.call /\ n.pc = "return" /\ n.name = r.name /\ n.sector = s /\ n.data = r.data
        /\ n.fd_arr = arr /\ n.thread_owned_exec = r.thread_owned_exec
        /\ n.deny_write = r.deny_write
    BY <1>0, <1>1, <2>2 DEF Proc
  <2>7. Set(p, n)
    BY <1>1, <1>4, <2>1, <2>2 DEF OpenInode
  <2>8. Opening(p, n, i, s)
    BY <1>0, <1>1, <1>3, <1>4, <2>4, <2>6 DEF Opening, Walks, Carries, Fits, Refers
  <2>q. QED BY <1>2, <1>3, <2>5, <2>7, <2>8, OpeningStep
<1>5. CASE r.call = "remove"
  <2>2. PICK n : n = [r EXCEPT !.pc = "erase"]
    OBVIOUS
  <2>3. PICK i \in Int : i = -1
    OBVIOUS
  <2>5. n \in Proc
    BY <1>0, <2>2, Words DEF Proc
  <2>6. n.call = r.call /\ n.pc = "erase" /\ n.name = r.name /\ n.sector = s /\ n.data = r.data
        /\ n.fd_arr = r.fd_arr /\ n.thread_owned_exec = r.thread_owned_exec
        /\ n.deny_write = r.deny_write
    BY <1>0, <1>1, <2>2 DEF Proc
  <2>7. Set(p, n)
    BY <1>5, <2>2 DEF OpenInode
  <2>8. Opening(p, n, i, s)
    <3>1. -1 \notin DOMAIN r.fd_arr
      BY <1>0 DEF Proc
    <3>q. QED
      BY <1>0, <1>1, <1>3, <1>5, <2>3, <2>6, <3>1 DEF Opening, Walks, Carries, Fits, Refers
  <2>q. QED BY <1>2, <1>3, <2>5, <2>7, <2>8, OpeningStep
<1>6. CASE r.call = "load"
  <2>2. PICK n : n = [r EXCEPT !.pc = "deny", !.sector = NoSector, !.thread_owned_exec = s]
    OBVIOUS
  <2>3. PICK i \in Int : i = 0
    OBVIOUS
  <2>5. n \in Proc
    BY <1>0, <2>2, Words, NumbersFit DEF Proc
  <2>6. n.call = r.call /\ n.pc = "deny" /\ n.name = r.name /\ n.sector = NoSector
        /\ n.data = r.data /\ n.fd_arr = r.fd_arr /\ n.thread_owned_exec = s
        /\ n.deny_write = r.deny_write
    BY <1>0, <2>2 DEF Proc
  <2>7. Set(p, n)
    BY <1>1, <1>6, <2>2 DEF OpenInode
  <2>8. Opening(p, n, i, s)
    <3>1. 0 \notin DOMAIN r.fd_arr /\ r.thread_owned_exec = NoSector
      BY <1>0, <1>3, <1>6 DEF Proc, Carries
    <3>q. QED
      BY <1>0, <1>1, <1>3, <1>6, <2>3, <2>6, <3>1, NumbersFit
         DEF Opening, Walks, Carries, Fits, Refers
  <2>q. QED BY <1>2, <1>3, <2>5, <2>7, <2>8, OpeningStep
<1>q. QED
  BY <1>0, <1>3, <1>4, <1>5, <1>6 DEF Walks

(* file_deny_write: one denier more, and nobody is about to write.         *)
LEMMA DenyWriteSucceeds ==
  ASSUME IInv, NEW p \in Process, At(p, "deny"), NEW s \in Sector, s = proc[p].thread_owned_exec,
         Set(p, [proc[p] EXCEPT !.pc = "read", !.deny_write = TRUE]),
         inodes' = [inodes EXCEPT ![s].deny_write_cnt = inodes[s].deny_write_cnt + 1],
         UNCHANGED << disk, freeMap, file_lock_global, lost >>
  PROVE  IInv'
<1> DEFINE r == proc[p]
<1>0. r \in Proc /\ Walks(r) /\ Carries(r) /\ Fits(r) /\ TypeOK
  BY Now
<1>2. PICK n : n = [r EXCEPT !.pc = "read", !.deny_write = TRUE]
  OBVIOUS
<1>3. n \in Proc
  BY <1>0, <1>2, Words, NumbersFit DEF Proc
<1>4. n.call = r.call /\ n.pc = "read" /\ n.name = r.name /\ n.sector = r.sector /\ n.data
      = r.data /\ n.fd_arr = r.fd_arr /\ n.thread_owned_exec = r.thread_owned_exec /\
      n.deny_write = TRUE /\ n.write_map = r.write_map
  BY <1>0, <1>2 DEF Proc
<1>5. Set(p, n) /\ r.pc = "deny" /\ r.thread_owned_exec = s
      /\ inodes' = [inodes EXCEPT ![s].deny_write_cnt = inodes[s].deny_write_cnt + 1]
      /\ UNCHANGED << entries, inodeData, diskMap, freeMap, file_lock_global, lost >>
  BY <1>2 DEF At, disk
<1>6. proc'[p] = n /\ (\A q \in Process : q # p => proc'[q] = proc[q])
      /\ proc' \in [Process -> Proc]
  BY <1>0, <1>3, <1>5, SetMoves
<1>7. Working' = [Working EXCEPT ![p] = Works(n)] /\ Working[p] = Works(r)
      /\ Working \in [Process -> SUBSET Nat]
  BY <1>0, <1>3, <1>5, WorkingMoves
<1>8. \A q \in Process : q # p => Beside(proc[q])
  BY <1>0, <1>5, Alone DEF Beside
<1>9. \A t \in Sector, k \in Int : Refers(n, k, t) <=> Refers(r, k, t)
  BY <1>0, <1>4, <1>5 DEF Refers
<1>10. (\A t \in Sector : Refs(t)' = Refs(t)) /\ Opened' = Opened
  <2>1. \A t \in Sector : Refs(t)' = Refs(t)
    BY <1>0, <1>3, <1>5, <1>9, RefsSame
  <2>q. QED BY <2>1 DEF Opened
<1>11. s \in Opened
  <2>1. Refers(r, 0, s)
    BY <1>5 DEF Refers
  <2>2. << p, 0 >> \in Refs(s)
    BY <2>1 DEF Refs
  <2>q. QED BY <2>2 DEF Opened
<1>12. /\ \A t \in Sector : t # s => Deniers(t)' = Deniers(t)
       /\ Deniers(s)' = Deniers(s) \cup {p} /\ p \notin Deniers(s)
  <2>1. ~r.deny_write
    BY <1>0, <1>5 DEF Walks, Carries
  <2>q. QED BY <2>1, <1>4, <1>5, <1>6 DEF Deniers
<1>a. /\ inodes' \in [Sector -> Inode] /\ inodes'[s].removed = inodes[s].removed
      /\ inodes'[s].data = inodes[s].data
      /\ inodes'[s].open_cnt = inodes[s].open_cnt
      /\ inodes'[s].deny_write_cnt = inodes[s].deny_write_cnt + 1
      /\ \A t \in Sector : t # s => inodes'[t] = inodes[t]
  BY <1>0, <1>5 DEF TypeOK, Inode
<1>13. Named' = Named
  BY <1>5 DEF Named
<1>14. Live' = Live /\ Bodies' = Bodies
  BY <1>5, <1>10, <1>13 DEF Live, Bodies
<1>15. Working' = Working
  <2>1. Works(n) = Works(r)
    BY <1>4, <1>5 DEF Works
  <2>q. QED BY <2>1, <1>7
<1>t1. TypeOK'
  BY <1>0, <1>5, <1>6, <1>a DEF TypeOK
<1>t2. Shaped'
  <2>1. Walks(n) /\ Carries(n)
    BY <1>0, <1>4, <1>5 DEF Walks, Carries
  <2>q. QED BY <2>1, <1>0, <1>3, <1>5, ShapedKept DEF IInv
<1>t3. Excluded'
  BY <1>3, <1>4, <1>5, Stayed
<1>t4. Counted'
  <2>1. /\ IsFiniteSet(Deniers(s)) /\ inodes[s].deny_write_cnt = Cardinality(Deniers(s))
        /\ IsFiniteSet(Deniers(s)') /\ Cardinality(Deniers(s)') = inodes[s].deny_write_cnt + 1
    BY <1>12, FS_AddElement DEF IInv, Counted
  <2>2. ASSUME NEW t \in Sector
        PROVE  IsFiniteSet(Refs(t))' /\ inodes'[t].open_cnt = Cardinality(Refs(t)')
    BY <1>10, <1>a DEF IInv, Counted
  <2>3. ASSUME NEW t \in Sector
        PROVE  IsFiniteSet(Deniers(t))' /\ inodes'[t].deny_write_cnt = Cardinality(Deniers(t)')
    <3>1. IsFiniteSet(Deniers(t)) /\ inodes[t].deny_write_cnt = Cardinality(Deniers(t))
      BY DEF IInv, Counted
    <3>2. CASE t = s
      BY <3>2, <2>1, <1>a
    <3>3. CASE t # s
      BY <3>1, <3>3, <1>12, <1>a
    <3>q. QED BY <3>2, <3>3
  <2>q. QED BY <2>2, <2>3 DEF Counted
<1>t5. Remembered'
  <2>1. \A q \in Process : proc[q].pc # "remove"
    BY <1>5, <1>8 DEF Beside
  <2>2. \A t \in Sector : /\ t \notin Opened => inodes[t] = Closed
                          /\ t \in Opened => inodes[t].data = inodeData[t]
                          /\ inodes[t].removed => t \notin Named
                          /\ t \in Opened /\ ~inodes[t].removed => t \in Named
    BY <2>1 DEF IInv, Remembered
  <2>q. QED BY <2>2, <1>5, <1>a, <1>10, <1>11, <1>13 DEF Remembered, Closed
<1>t6. Fitting'
  <2>1. \A q \in Process : q # p => Fits(proc[q])'
    BY <1>6, <1>8 DEF Fits, Beside
  <2>2. Fits(proc[p])'
    BY <1>4, <1>6 DEF Fits
  <2>q. QED BY <2>1, <2>2 DEF Fitting
<1>t7. Injective'
  BY <1>5 DEF IInv, Injective
<1>t8. Owner'
  BY <1>5, <1>14, <1>15 DEF IInv, Owner
<1>t9. Apart'
  BY <1>5, <1>14 DEF IInv, Apart
<1>t10. Saved'
  <2>3. \A q \in Process : proc'[q].pc \notin {"data", "inode", "add"}
    BY <1>4, <1>6, <1>8 DEF Beside
  <2>q. QED BY <2>3, <1>5, <1>13, <1>14 DEF IInv, Saved
<1>q. QED
  BY <1>t1, <1>t2, <1>t3, <1>t4, <1>t5, <1>t6, <1>t7, <1>t8, <1>t9, <1>t10 DEF IInv

LEMMA DenyWriteStep ==
  ASSUME IInv, NEW p \in Process, DenyWrite(p)
  PROVE  IInv'
<1>1. CASE UNCHANGED inodes /\ Set(p, [proc[p] EXCEPT !.call = "exit", !.pc = "close"])
  BY <1>1, LoadFails DEF DenyWrite, At
<1>2. CASE /\ inodes' = [inodes EXCEPT ![proc[p].thread_owned_exec].deny_write_cnt =
                           inodes[proc[p].thread_owned_exec].deny_write_cnt + 1]
           /\ Set(p, [proc[p] EXCEPT !.pc = "read", !.deny_write = TRUE])
  <2>1. PICK s \in Sector : s = proc[p].thread_owned_exec
    BY Now DEF DenyWrite, At, Carries, Proc, Places
  <2>q. QED BY <1>2, <2>1, DenyWriteSucceeds DEF DenyWrite
<1>q. QED BY <1>1, <1>2 DEF DenyWrite

---------------------------------------------------------------------------
(* A process gives up a reference to an inode.                             *)

Closing(p, n, i, s, deny_write) ==
  /\ proc[p].pc \in {"user", "close"} /\ n.pc \in {"return", "close", "release"}
  /\ Walks(n) /\ Carries(n)
  /\ Refers(proc[p], i, s) /\ \A t \in Sector : Refers(proc[p], i, t) => t = s
  /\ \A k \in Int, t \in Sector : Refers(n, k, t) <=> Refers(proc[p], k, t) /\ k # i
  /\ \A t \in Sector : (n.deny_write /\ n.thread_owned_exec = t)
                         <=> (proc[p].deny_write /\ proc[p].thread_owned_exec = t /\ ~deny_write)
  /\ deny_write => proc[p].deny_write /\ proc[p].thread_owned_exec = s

LEMMA ClosingRefs ==
  ASSUME IInv, NEW p \in Process, NEW n \in Proc, NEW i \in Int, NEW s \in Sector,
         NEW deny_write \in BOOLEAN, Set(p, n), Closing(p, n, i, s, deny_write)
  PROVE  /\ \A t \in Sector : t # s => Deniers(t)' = Deniers(t) /\ Refs(t)' = Refs(t)
         /\ Refs(s)' = Refs(s) \ {<< p, i >>} /\ << p, i >> \in Refs(s)
         /\ Deniers(s)' = IF deny_write THEN Deniers(s) \ {p} ELSE Deniers(s)
         /\ deny_write => p \in Deniers(s)
<1>0. TypeOK
  BY Now
<1>1. proc'[p] = n /\ (\A q \in Process : q # p => proc'[q] = proc[q])
  BY <1>0, SetMoves
<1>2. ASSUME NEW t \in Sector, t # s PROVE Refs(t)' = Refs(t)
  BY <1>0, <1>2, RefsSame DEF Closing
<1>3. ASSUME NEW t \in Sector, t # s PROVE Deniers(t)' = Deniers(t)
  <2>1. (n.deny_write /\ n.thread_owned_exec = t)
           <=> (proc[p].deny_write /\ proc[p].thread_owned_exec = t)
    BY <1>3 DEF Closing
  <2>q. QED BY <2>1, <1>0, DeniersSame
<1>4. Refs(s)' = Refs(s) \ {<< p, i >>} /\ << p, i >> \in Refs(s)
  BY <1>0, RefsRemoved DEF Closing
<1>5. CASE deny_write
  <2>1. Deniers(s)' = Deniers(s) \ {p} /\ p \in Deniers(s)
    BY <1>1, <1>5 DEF Deniers, Closing
  <2>q. QED BY <2>1, <1>2, <1>3, <1>4, <1>5
<1>6. CASE ~deny_write
  <2>1. Deniers(s)' = Deniers(s)
    BY <1>0, <1>6, DeniersSame DEF Closing
  <2>q. QED BY <2>1, <1>2, <1>3, <1>4, <1>6
<1>q. QED BY <1>5, <1>6

(* The counters after that.                                                *)
LEMMA ClosingCounts ==
  ASSUME IInv, NEW p \in Process, NEW n \in Proc, NEW i \in Int, NEW s \in Sector,
         NEW deny_write \in BOOLEAN, Set(p, n), Closing(p, n, i, s, deny_write)
  PROVE  /\ inodes[s].open_cnt \in Nat \ {0}
         /\ IsFiniteSet(Refs(s)') /\ Cardinality(Refs(s)') = inodes[s].open_cnt - 1
         /\ inodes[s].deny_write_cnt - (IF deny_write THEN 1 ELSE 0) \in Nat
         /\ IsFiniteSet(Deniers(s)')
         /\ Cardinality(Deniers(s)') = inodes[s].deny_write_cnt - (IF deny_write THEN 1 ELSE 0)
<1>1. /\ IsFiniteSet(Refs(s)) /\ inodes[s].open_cnt = Cardinality(Refs(s))
      /\ IsFiniteSet(Deniers(s)) /\ inodes[s].deny_write_cnt = Cardinality(Deniers(s))
  BY DEF IInv, Counted
<1>2. Refs(s)' = Refs(s) \ {<< p, i >>} /\ << p, i >> \in Refs(s)
  BY ClosingRefs
<1>3. IsFiniteSet(Refs(s)') /\ Cardinality(Refs(s)') = inodes[s].open_cnt - 1
  BY <1>1, <1>2, FS_RemoveElement
<1>4. inodes[s].open_cnt \in Nat \ {0}
  <2>1. Refs(s) # {}
    BY <1>2
  <2>q. QED BY <2>1, <1>1, FS_EmptySet, FS_CardinalityType
<1>5. CASE deny_write
  <2>1. Deniers(s)' = Deniers(s) \ {p} /\ p \in Deniers(s)
    BY <1>5, ClosingRefs
  <2>2. IsFiniteSet(Deniers(s)') /\ Cardinality(Deniers(s)') = inodes[s].deny_write_cnt - 1
    BY <1>1, <2>1, FS_RemoveElement
  <2>3. inodes[s].deny_write_cnt - 1 \in Nat
    BY <2>2, FS_CardinalityType
  <2>q. QED BY <1>3, <1>4, <1>5, <2>2, <2>3
<1>6. CASE ~deny_write
  <2>1. Deniers(s)' = Deniers(s)
    BY <1>6, ClosingRefs
  <2>2. inodes[s].deny_write_cnt \in Nat
    BY <1>1, FS_CardinalityType
  <2>q. QED BY <1>1, <1>3, <1>4, <1>6, <2>1, <2>2
<1>q. QED BY <1>5, <1>6

(* The inode in memory after that: one reference less, or closed.          *)
Lessened(s, deny_write, inode) ==
  \/ inode.open_cnt = inodes[s].open_cnt - 1 /\ inode.open_cnt # 0
       /\ inode.deny_write_cnt = inodes[s].deny_write_cnt - (IF deny_write THEN 1 ELSE 0)
       /\ inode.data = inodes[s].data /\ inode.removed = inodes[s].removed
  \/ inodes[s].open_cnt = 1 /\ inode = Closed

(* All but the owners.                                                     *)
LEMMA ClosingKeeps ==
  ASSUME IInv, NEW p \in Process, NEW n \in Proc, NEW i \in Int, NEW s \in Sector,
         NEW deny_write \in BOOLEAN, Set(p, n), Closing(p, n, i, s, deny_write),
         NEW inode \in Inode, inodes' = [inodes EXCEPT ![s] = inode],
         Lessened(s, deny_write, inode),
         Excluded', file_lock_global' \in Process \cup {Nobody},
         freeMap' \in SUBSET Nat, UNCHANGED << disk, lost >>
  PROVE  /\ TypeOK' /\ Shaped' /\ Excluded' /\ Counted' /\ Remembered' /\ Fitting' /\ Injective'
         /\ Saved' /\ Named' = Named /\ Bodies' = Bodies
         /\ Opened' = IF inodes[s].open_cnt = 1 THEN Opened \ {s} ELSE Opened
         /\ inodes[s].open_cnt = 1 /\ ~inodes[s].removed => s \in Named
<1> USE DEF Lessened
<1>0. TypeOK
  BY Now
<1>5. UNCHANGED << entries, inodeData, diskMap, lost >>
  BY DEF disk
<1>6. proc'[p] = n /\ (\A q \in Process : q # p => proc'[q] = proc[q])
      /\ proc' \in [Process -> Proc]
  BY <1>0, SetMoves
<1>7. /\ \A t \in Sector : t # s => Deniers(t)' = Deniers(t) /\ Refs(t)' = Refs(t)
      /\ Refs(s)' = Refs(s) \ {<< p, i >>} /\ << p, i >> \in Refs(s)
  BY ClosingRefs
<1>8. /\ inodes[s].open_cnt \in Nat \ {0}
      /\ IsFiniteSet(Refs(s)') /\ Cardinality(Refs(s)') = inodes[s].open_cnt - 1
      /\ IsFiniteSet(Deniers(s)')
      /\ Cardinality(Deniers(s)') = inodes[s].deny_write_cnt - (IF deny_write THEN 1 ELSE 0)
  BY ClosingCounts
<1>9. Refs(s)' = {} <=> inodes[s].open_cnt = 1
  BY <1>8, FS_EmptySet
<1>10. Opened' = IF inodes[s].open_cnt = 1 THEN Opened \ {s} ELSE Opened
  BY <1>7, <1>9 DEF Opened
<1>11. /\ inodes' \in [Sector -> Inode] /\ inodes'[s] = inode
       /\ \A t \in Sector : t # s => inodes'[t] = inodes[t]
  BY <1>0 DEF TypeOK
<1>12. Named' = Named /\ Bodies' = Bodies
  BY <1>5 DEF Named, Bodies
<1>13. inodes[s].open_cnt = 1 => Deniers(s)' = {}
  <2>1. ASSUME NEW q \in Deniers(s)' PROVE << q, 0 >> \in Refs(s)'
    <3>1. q \in Process /\ proc'[q].thread_owned_exec = s
      BY DEF Deniers
    <3>2. Refers(proc'[q], 0, s)
      BY <3>1 DEF Refers
    <3>q. QED BY <3>1, <3>2 DEF Refs, Refers
  <2>q. QED BY <2>1, <1>9
<1>14. inodes[s].open_cnt = 1 /\ ~inodes[s].removed => s \in Named
  <2>1. SUFFICES ASSUME inodes[s].open_cnt = 1, ~inodes[s].removed, s \notin Named
                 PROVE  FALSE
    OBVIOUS
  <2>2. s \in Opened
    BY <1>7 DEF Opened
  <2>3. PICK q \in Process : proc[q].pc = "remove" /\ proc[q].sector = s
    BY <2>1, <2>2 DEF IInv, Remembered
  <2>4. q # p
    BY <2>3 DEF Closing
  <2>5. Refers(proc[q], -1, s)
    BY <2>3, Now DEF Refers, Walks
  <2>6. << q, -1 >> \in Refs(s)
    BY <2>5 DEF Refs
  <2>q. QED BY <2>1, <2>4, <2>6, <1>7, <1>9
<1>t1. TypeOK'
  BY <1>0, <1>5, <1>6, <1>11 DEF TypeOK
<1>t2. Shaped'
  BY <1>0, ShapedKept DEF IInv, Closing
<1>t4. Counted'
  <2>1. /\ inodes'[s].open_cnt = Cardinality(Refs(s)')
        /\ inodes'[s].deny_write_cnt = Cardinality(Deniers(s)')
    BY <1>8, <1>9, <1>11, <1>13, FS_EmptySet DEF Closed
  <2>2. ASSUME NEW t \in Sector
        PROVE  IsFiniteSet(Refs(t))' /\ inodes'[t].open_cnt = Cardinality(Refs(t)')
    BY <2>1, <1>7, <1>8, <1>11 DEF IInv, Counted
  <2>3. ASSUME NEW t \in Sector
        PROVE  IsFiniteSet(Deniers(t))' /\ inodes'[t].deny_write_cnt = Cardinality(Deniers(t)')
    BY <2>1, <1>7, <1>8, <1>11 DEF IInv, Counted
  <2>q. QED BY <2>2, <2>3 DEF Counted
<1>t5. Remembered'
  <2>1. ASSUME NEW t \in Sector, \E q \in Process : proc[q].pc = "remove" /\ proc[q].sector = t
        PROVE  \E q \in Process : proc'[q].pc = "remove" /\ proc'[q].sector = t
    BY <2>1, <1>6 DEF Closing
  <2>2. \A t \in Sector :
          /\ t \notin Opened => inodes[t] = Closed
          /\ t \in Opened => inodes[t].data = inodeData[t]
          /\ inodes[t].removed => t \notin Named
          /\ t \in Opened /\ ~inodes[t].removed =>
                t \in Named \/ \E q \in Process : proc[q].pc = "remove" /\ proc[q].sector = t
    BY DEF IInv, Remembered
  <2>3. s \in Opened
    BY <1>7 DEF Opened
  <2>4. CASE inodes[s].open_cnt = 1
    <3>1. inode = Closed /\ ~inode.removed
      BY <2>4, <1>8 DEF Closed
    <3>2. s \notin Opened' /\ inodes'[s] = Closed
      BY <3>1, <2>4, <1>10, <1>11
    <3>3. \A t \in Sector : t # s => (t \in Opened' <=> t \in Opened)
      BY <2>4, <1>10
    <3>4. Closed' = Closed
      BY DEF Closed
    <3>q. QED BY <3>1, <3>2, <3>3, <3>4, <2>1, <2>2, <1>5, <1>11, <1>12 DEF Remembered
  <2>5. CASE inodes[s].open_cnt # 1
    <3>1. inode.data = inodes[s].data /\ inode.removed = inodes[s].removed
      BY <2>5
    <3>2. \A t \in Sector : inodes'[t].data = inodes[t].data /\ inodes'[t].removed = inodes[t].removed
      BY <3>1, <1>11
    <3>3. \A t \in Sector : t \notin Opened => inodes'[t] = Closed
      BY <2>2, <2>3, <1>11
    <3>4. Closed' = Closed
      BY DEF Closed
    <3>q. QED BY <3>2, <3>3, <3>4, <2>1, <2>2, <2>5, <1>5, <1>10, <1>12 DEF Remembered
  <2>q. QED BY <2>4, <2>5
<1>t6. Fitting'
  <2>1. inodes[s].deny_write_cnt = 0 => inodes'[s].deny_write_cnt = 0
    <3>1. inodes[s].deny_write_cnt - (IF deny_write THEN 1 ELSE 0) \in Nat
      BY ClosingCounts
    <3>q. QED BY <3>1, <1>11 DEF Closed
  <2>2. ASSUME NEW q \in Process, q # p, proc[q].pc = "write"
        PROVE  inodes'[proc[q].sector].deny_write_cnt = 0
    <3>1. proc[q].sector \in Sector /\ inodes[proc[q].sector].deny_write_cnt = 0
      BY <2>2, Now DEF Carries, Fits
    <3>q. QED BY <3>1, <2>1, <1>11
  <2>3. \A q \in Process : q # p => Fits(proc[q])'
    BY <2>2, <1>5, <1>6, <1>12, Now DEF Fits
  <2>4. Fits(proc[p])'
    BY <1>6 DEF Fits, Closing
  <2>q. QED BY <2>3, <2>4 DEF Fitting
<1>t7. Injective'
  BY <1>5 DEF IInv, Injective
<1>t10. Saved'
  BY <1>5, <1>6, <1>12 DEF IInv, Saved, Closing, Works
<1>q. QED
  BY <1>t1, <1>t2, <1>t4, <1>t5, <1>t6, <1>t7, <1>t10, <1>10, <1>12, <1>14

(* inode_close: the last one out of a removed file takes it apart.         *)
LEMMA ClosingStep ==
  ASSUME "load" \notin Unlocked, IInv, NEW p \in Process, NEW after \in Proc, NEW i \in Int,
         NEW s \in Sector, NEW deny_write \in BOOLEAN,
         CloseInode(p, s, deny_write, after), Closing(p, after, i, s, deny_write),
         after.pc \in {"return", "close"}, after.call \in {"remove", "close", "exit"},
         ~(after.call = "remove" /\ after.pc = "close"),
         \/ GetLock(p)
         \/ after.call = proc[p].call /\ file_lock_global' = file_lock_global
  PROVE  IInv'
<1> DEFINE r == proc[p]
<1>0. r \in Proc /\ Walks(r) /\ Carries(r) /\ TypeOK
  BY Now
<1>1. PICK inode : inode = [inodes[s] EXCEPT !.open_cnt = inodes[s].open_cnt - 1,
                 !.deny_write_cnt = inodes[s].deny_write_cnt - IF deny_write THEN 1 ELSE 0]
  OBVIOUS
<1>2. PICK next : next = IF inode.open_cnt = 0 THEN Closed ELSE inode
  OBVIOUS
<1>3. /\ inodes' = [inodes EXCEPT ![s] = next]
      /\ IF inode.open_cnt = 0 /\ inode.removed
           THEN /\ freeMap' = freeMap \ {s}
                /\ Set(p, [after EXCEPT !.pc = "release", !.data = inode.data, !.write_map = TRUE])
           ELSE freeMap' = freeMap /\ Set(p, after)
      /\ UNCHANGED << disk, lost >>
  BY <1>1, <1>2 DEF CloseInode
<1>4. inodes[s] \in Inode
  BY <1>0 DEF TypeOK
<1>5. inode.removed = inodes[s].removed /\ inode.data = inodes[s].data
      /\ inode.open_cnt = inodes[s].open_cnt - 1
      /\ inode.deny_write_cnt = inodes[s].deny_write_cnt - IF deny_write THEN 1 ELSE 0
  BY <1>1, <1>4 DEF Inode
<1>6. s \in Opened
  <2>1. Refers(r, i, s)
    BY DEF Closing
  <2>2. << p, i >> \in Refs(s)
    BY <2>1 DEF Refs
  <2>q. QED BY <2>2 DEF Opened
<1>7. inodes[s].data = inodeData[s] /\ inodeData[s] \in SUBSET Nat /\ s \in Live
  BY <1>0, <1>6 DEF IInv, Remembered, TypeOK, Live
<1>8. Owning(Live, Bodies, Working, freeMap, lost)
  BY DEF IInv, Owner
<1>9. freeMap \in SUBSET Nat /\ UNCHANGED << entries, inodeData, diskMap, lost >>
  BY <1>0, <1>3 DEF TypeOK, disk
<1>10. r.data = {} /\ Works(r) = {}
  BY <1>0 DEF Closing, Carries, Works
(* the record p has next, its reference gone *)
<1>11. ASSUME NEW n \in Proc, Set(p, n), Closing(p, n, i, s, deny_write), n.call = after.call,
              freeMap' \in SUBSET Nat
       PROVE  /\ TypeOK' /\ Shaped' /\ Excluded' /\ Counted' /\ Remembered' /\ Fitting'
              /\ Injective' /\ Saved' /\ Named' = Named /\ Bodies' = Bodies
              /\ Opened' = IF inodes[s].open_cnt = 1 THEN Opened \ {s} ELSE Opened
              /\ inodes[s].open_cnt = 1 /\ ~inodes[s].removed => s \in Named
              /\ inodes[s].open_cnt \in Nat \ {0}
  <2>1. /\ inodes[s].open_cnt \in Nat \ {0}
        /\ inodes[s].deny_write_cnt - (IF deny_write THEN 1 ELSE 0) \in Nat
    BY <1>11, ClosingCounts
  <2>2. inode \in Inode
    <3>1. PICK o \in Nat : o = inodes[s].open_cnt - 1
      BY <2>1
    <3>2. PICK d \in Nat : d = inodes[s].deny_write_cnt - (IF deny_write THEN 1 ELSE 0)
      BY <2>1
    <3>3. inode = [inodes[s] EXCEPT !.open_cnt = o, !.deny_write_cnt = d]
      BY <1>1, <3>1, <3>2
    <3>q. QED BY <1>4, <3>3 DEF Inode
  <2>3. next \in Inode
    BY <1>2, <2>2 DEF Inode, Closed
  <2>4. Lessened(s, deny_write, next)
    BY <1>2, <1>5, <2>1 DEF Lessened
  <2>5. Excluded' /\ file_lock_global' \in Process \cup {Nobody}
    BY <1>11, Entered, Stayed
  <2>6. inodes' = [inodes EXCEPT ![s] = next] /\ UNCHANGED << disk, lost >>
    BY <1>3
  <2>7. Set(p, n) /\ Closing(p, n, i, s, deny_write) /\ freeMap' \in SUBSET Nat
    BY <1>11
  <2>q. QED BY <2>1, <2>3, <2>4, <2>5, <2>6, <2>7, ClosingKeeps
<1>12. CASE inode.open_cnt = 0 /\ inode.removed
  <2>1. PICK n : n = [after EXCEPT !.pc = "release", !.data = inode.data, !.write_map = TRUE]
    OBVIOUS
  <2>2. inode.data \in SUBSET Nat
    BY <1>4, <1>5 DEF Inode
  <2>3. n \in Proc
    BY <2>1, <2>2, Words DEF Proc
  <2>4. n.call = after.call /\ n.pc = "release" /\ n.name = after.name
        /\ n.sector = after.sector /\ n.data = inode.data /\ n.fd_arr = after.fd_arr
        /\ n.thread_owned_exec = after.thread_owned_exec /\ n.deny_write = after.deny_write
    BY <2>1 DEF Proc
  <2>5. Walks(n) /\ Carries(n)
    BY <2>4 DEF Closing, Walks, Carries
  <2>6. \A k \in Int, t \in Sector : Refers(n, k, t) <=> Refers(after, k, t)
    BY <2>4 DEF Refers
  <2>7. Closing(p, n, i, s, deny_write)
    BY <2>4, <2>5, <2>6 DEF Closing
  <2>8. freeMap' = freeMap \ {s} /\ Set(p, n)
    BY <1>3, <1>12, <2>1
  <2>9. /\ TypeOK' /\ Shaped' /\ Excluded' /\ Counted' /\ Remembered' /\ Fitting'
        /\ Injective' /\ Saved' /\ Named' = Named /\ Bodies' = Bodies
        /\ Opened' = Opened \ {s}
    <3>1. freeMap' \in SUBSET Nat
      BY <1>9, <2>8
    <3>2. /\ TypeOK' /\ Shaped' /\ Excluded' /\ Counted' /\ Remembered' /\ Fitting'
          /\ Injective' /\ Saved' /\ Named' = Named /\ Bodies' = Bodies
          /\ Opened' = IF inodes[s].open_cnt = 1 THEN Opened \ {s} ELSE Opened
          /\ inodes[s].open_cnt \in Nat \ {0}
      BY <1>11, <2>3, <2>4, <2>7, <2>8, <3>1
    <3>3. inodes[s].open_cnt = 1
      BY <1>5, <1>12, <3>2
    <3>q. QED BY <3>2, <3>3
  <2>10. s \notin Named
    BY <1>5, <1>12 DEF IInv, Remembered
  <2>11. Live' = Live \ {s}
    BY <2>9, <2>10 DEF Live
  <2>12. Works(n) = inodeData[s]
    BY <1>5, <1>7, <2>4 DEF Works
  <2>13. Working' = [Working EXCEPT ![p] = inodeData[s]] /\ Working[p] = {}
         /\ Working \in [Process -> SUBSET Nat]
    BY <1>0, <1>10, <2>3, <2>8, <2>12, WorkingMoves
  <2>14. s \notin inodeData[s] /\ Bodies[s] = {s} \cup inodeData[s]
    BY <1>7 DEF IInv, Apart, Bodies
  <2>15. Owning(Live \ {s}, Bodies, [Working EXCEPT ![p] = inodeData[s]], freeMap \ {s}, lost)
    BY Zenon, <1>7, <1>8, <2>13, <2>14, TakeApart
  <2>16. Owner'
    BY <1>9, <2>8, <2>9, <2>11, <2>13, <2>15 DEF Owner
  <2>17. Apart'
    BY <1>9, <2>11 DEF IInv, Apart
  <2>q. QED BY <2>9, <2>16, <2>17 DEF IInv
<1>13. CASE ~(inode.open_cnt = 0 /\ inode.removed)
  <2>1. freeMap' = freeMap /\ Set(p, after)
    BY <1>3, <1>13
  <2>2. /\ TypeOK' /\ Shaped' /\ Excluded' /\ Counted' /\ Remembered' /\ Fitting'
        /\ Injective' /\ Saved' /\ Named' = Named /\ Bodies' = Bodies
        /\ Opened' = IF inodes[s].open_cnt = 1 THEN Opened \ {s} ELSE Opened
        /\ inodes[s].open_cnt = 1 /\ ~inodes[s].removed => s \in Named
        /\ inodes[s].open_cnt \in Nat \ {0}
    BY <1>9, <1>11, <2>1
  <2>3. inodes[s].open_cnt = 1 => s \in Named
    BY <1>5, <1>13, <2>2
  <2>4. Live' = Live
    BY <2>2, <2>3 DEF Live
  <2>5. Working' = Working
    <3>1. Works(after) = {}
      BY DEF Closing, Carries, Works
    <3>q. QED BY <1>0, <1>10, <2>1, <3>1, WorkingMoves
  <2>6. Owner' /\ Apart'
    BY <1>9, <2>1, <2>2, <2>4, <2>5 DEF IInv, Owner, Apart
  <2>q. QED BY <2>2, <2>6 DEF IInv
<1>q. QED BY <1>12, <1>13

LEMMA Replaced ==
  ASSUME NEW S, NEW arr \in Seq(S), NEW i \in DOMAIN arr, NEW x \in S,
         NEW other, other = [arr EXCEPT ![i] = x]
  PROVE  /\ other \in Seq(S) /\ DOMAIN other = DOMAIN arr /\ other[i] = x
         /\ \A k \in DOMAIN other : k # i => other[k] = arr[k]
OBVIOUS

(* The four places that close a file.                                      *)
LEMMA CloseStep ==
  ASSUME "load" \notin Unlocked, IInv, NEW p \in Process, Close(p)
  PROVE  IInv'
<1> DEFINE r == proc[p]
<1>0. r \in Proc /\ Walks(r) /\ Carries(r)
  BY Now
<1>1. PICK fd \in Descriptors(p) :
        CloseInode(p, r.fd_arr[fd], FALSE, [r EXCEPT !.call = "close", !.pc = "return", !.fd_arr[fd] = NoSector])
  BY DEF Close
<1>2. PICK s \in Sector : s = r.fd_arr[fd]
  BY <1>0 DEF Descriptors, Proc, Places
<1>3. PICK arr : arr = [r.fd_arr EXCEPT ![fd] = NoSector]
  OBVIOUS
<1>4. /\ fd \in DOMAIN r.fd_arr /\ r.fd_arr \in Seq(Places) /\ fd \in Int /\ fd # 0 /\ fd # -1
  BY <1>0, <1>1 DEF Descriptors, Proc
<1>5. /\ arr \in Seq(Places) /\ DOMAIN arr = DOMAIN r.fd_arr /\ arr[fd] = NoSector
      /\ \A k \in DOMAIN arr : k # fd => arr[k] = r.fd_arr[k]
  BY <1>3, <1>4, NumbersFit, Replaced
<1>6. PICK n : n = [r EXCEPT !.call = "close", !.pc = "return", !.fd_arr[fd] = NoSector]
  OBVIOUS
<1>7. n = [r EXCEPT !.call = "close", !.pc = "return", !.fd_arr = arr]
  BY <1>0, <1>3, <1>6 DEF Proc
<1>8. n \in Proc
  BY <1>0, <1>5, <1>7, Words DEF Proc
<1>9. n.call = "close" /\ n.pc = "return" /\ n.name = r.name /\ n.sector = r.sector /\ n.data = r.data
      /\ n.fd_arr = arr /\ n.thread_owned_exec = r.thread_owned_exec
      /\ n.deny_write = r.deny_write
  BY <1>0, <1>7 DEF Proc
<1>10. GetLock(p) /\ r.call = "user"
  BY DEF Close, GetLock, Running, At
<1>11. CloseInode(p, s, FALSE, n)
  BY <1>1, <1>2, <1>6
<1>12. Closing(p, n, fd, s, FALSE)
  <2>1. \A k \in Int, t \in Sector : Refers(n, k, t) <=> Refers(r, k, t) /\ k # fd
    BY <1>0, <1>4, <1>5, <1>9, <1>10, NumbersFit DEF Refers, Walks
  <2>2. Refers(r, fd, s) /\ \A t \in Sector : Refers(r, fd, t) => t = s
    BY <1>2, <1>4 DEF Refers
  <2>3. Walks(n) /\ Carries(n)
    BY <1>0, <1>9, <1>10 DEF Walks, Carries
  <2>4. n.pc \in {"return", "close", "release"} /\ r.pc \in {"user", "close"}
    BY <1>0, <1>9, <1>10 DEF Walks
  <2>q. QED BY <1>9, <2>1, <2>2, <2>3, <2>4 DEF Closing
<1>q. QED BY <1>4, <1>8, <1>9, <1>10, <1>11, <1>12, ClosingStep

LEMMA CloseDescriptorStep ==
  ASSUME "load" \notin Unlocked, IInv, NEW p \in Process, CloseDescriptor(p)
  PROVE  IInv'
<1> DEFINE r == proc[p]
<1>0. r \in Proc /\ Walks(r) /\ Carries(r)
  BY Now
<1>1. PICK fd \in Descriptors(p) :
        CloseInode(p, r.fd_arr[fd], FALSE, [r EXCEPT !.fd_arr[fd] = NoSector])
  BY DEF CloseDescriptor
<1>2. PICK s \in Sector : s = r.fd_arr[fd]
  BY <1>0 DEF Descriptors, Proc, Places
<1>3. PICK arr : arr = [r.fd_arr EXCEPT ![fd] = NoSector]
  OBVIOUS
<1>4. /\ fd \in DOMAIN r.fd_arr /\ r.fd_arr \in Seq(Places) /\ fd \in Int /\ fd # 0 /\ fd # -1
  BY <1>0, <1>1 DEF Descriptors, Proc
<1>5. /\ arr \in Seq(Places) /\ DOMAIN arr = DOMAIN r.fd_arr /\ arr[fd] = NoSector
      /\ \A k \in DOMAIN arr : k # fd => arr[k] = r.fd_arr[k]
  BY <1>3, <1>4, NumbersFit, Replaced
<1>6. PICK n : n = [r EXCEPT !.fd_arr[fd] = NoSector]
  OBVIOUS
<1>7. n = [r EXCEPT !.fd_arr = arr]
  BY <1>0, <1>3, <1>6 DEF Proc
<1>8. n \in Proc
  BY <1>0, <1>5, <1>7, Words DEF Proc
<1>9. n.call = r.call /\ n.pc = r.pc /\ n.name = r.name /\ n.sector = r.sector /\ n.data = r.data
      /\ n.fd_arr = arr /\ n.thread_owned_exec = r.thread_owned_exec
      /\ n.deny_write = r.deny_write
  BY <1>0, <1>7 DEF Proc
<1>10. r.pc = "close" /\ r.call = "exit" /\ file_lock_global' = file_lock_global
  BY DEF CloseDescriptor, GetLock, Running, At
<1>11. CloseInode(p, s, FALSE, n)
  BY <1>1, <1>2, <1>6
<1>12. Closing(p, n, fd, s, FALSE)
  <2>1. \A k \in Int, t \in Sector : Refers(n, k, t) <=> Refers(r, k, t) /\ k # fd
    BY <1>0, <1>4, <1>5, <1>9, <1>10, NumbersFit DEF Refers, Walks
  <2>2. Refers(r, fd, s) /\ \A t \in Sector : Refers(r, fd, t) => t = s
    BY <1>2, <1>4 DEF Refers
  <2>3. Walks(n) /\ Carries(n)
    BY <1>0, <1>9, <1>10 DEF Walks, Carries
  <2>4. n.pc \in {"return", "close", "release"} /\ r.pc \in {"user", "close"}
    BY <1>0, <1>9, <1>10 DEF Walks
  <2>q. QED BY <1>9, <2>1, <2>2, <2>3, <2>4 DEF Closing
<1>q. QED BY <1>4, <1>8, <1>9, <1>10, <1>11, <1>12, ClosingStep

LEMMA CloseRemovedStep ==
  ASSUME "load" \notin Unlocked, IInv, NEW p \in Process, CloseRemoved(p)
  PROVE  IInv'
<1> DEFINE r == proc[p]
<1>0. r \in Proc /\ Walks(r) /\ Carries(r)
  BY Now
<1>1. r.pc = "close" /\ r.call = "remove" /\ file_lock_global' = file_lock_global
  BY DEF CloseRemoved, At
<1>2. PICK s \in Sector : s = r.sector
  BY <1>0, <1>1 DEF Proc, Places, Carries
<1>3. PICK n : n = [r EXCEPT !.pc = "return"]
  OBVIOUS
<1>4. n \in Proc
  BY <1>0, <1>3, Words, NumbersFit DEF Proc
<1>5. n.call = r.call /\ n.pc = "return" /\ n.name = r.name /\ n.sector = r.sector
      /\ n.data = r.data /\ n.fd_arr = r.fd_arr
      /\ n.thread_owned_exec = r.thread_owned_exec /\ n.deny_write = r.deny_write
  BY <1>0, <1>3 DEF Proc
<1>6. PICK i \in Int : i = -1
  OBVIOUS
<1>7. PICK deny_write \in BOOLEAN : deny_write = FALSE
  BY <1>0 DEF Proc
<1>8. CloseInode(p, s, deny_write, n)
  BY <1>1, <1>2, <1>3, <1>7 DEF CloseRemoved
<1>9. i \notin DOMAIN r.fd_arr
  BY <1>0, <1>6 DEF Proc
<1>10. Closing(p, n, i, s, deny_write)
  <2>1. \A k \in Int, t \in Sector : Refers(n, k, t) <=> Refers(r, k, t) /\ k # i
    <3>1. \A t \in Sector : ~Refers(n, i, t)
      <4>1. i \notin DOMAIN n.fd_arr
        BY <1>5, <1>9
      <4>2. (i = 0 => n.thread_owned_exec = NoSector) /\ (i = -1 => n.pc = "return")
        BY <1>1, <1>5, <1>6
      <4>3. \A t \in Sector : t # NoSector
        BY NumbersFit
      <4>q. QED BY <4>1, <4>2, <4>3 DEF Refers
    <3>2. \A k \in Int, t \in Sector : k # i => (Refers(n, k, t) <=> Refers(r, k, t))
      BY <1>1, <1>5, <1>6 DEF Refers
    <3>q. QED BY <3>1, <3>2
  <2>2. Refers(r, i, s) /\ \A t \in Sector : Refers(r, i, t) => t = s
    BY <1>1, <1>2, <1>6, <1>9 DEF Refers
  <2>3. Walks(n) /\ Carries(n)
    BY <1>0, <1>1, <1>5 DEF Walks, Carries
  <2>4. \A t \in Sector : (n.deny_write /\ n.thread_owned_exec = t)
                           <=> (r.deny_write /\ r.thread_owned_exec = t /\ ~deny_write)
    BY <1>0, <1>1, <1>2, <1>5, <1>7, NumbersFit DEF Proc
  <2>q. QED BY <1>1, <1>2, <1>5, <1>7, <2>1, <2>2, <2>3, <2>4 DEF Closing
<1>q. QED BY <1>1, <1>4, <1>5, <1>8, <1>10, ClosingStep

LEMMA CloseExecutableStep ==
  ASSUME "load" \notin Unlocked, IInv, NEW p \in Process, CloseExecutable(p)
  PROVE  IInv'
<1> DEFINE r == proc[p]
<1>0. r \in Proc /\ Walks(r) /\ Carries(r)
  BY Now
<1>1. r.pc = "close" /\ r.call = "exit" /\ r.thread_owned_exec # NoSector /\ file_lock_global' = file_lock_global
  BY DEF CloseExecutable, At
<1>2. PICK s \in Sector : s = r.thread_owned_exec
  BY <1>0, <1>1 DEF Proc, Places, Carries
<1>3. PICK n : n = [r EXCEPT !.thread_owned_exec = NoSector, !.deny_write = FALSE]
  OBVIOUS
<1>4. n \in Proc
  BY <1>0, <1>3, Words, NumbersFit DEF Proc
<1>5. n.call = r.call /\ n.pc = r.pc /\ n.name = r.name /\ n.sector = r.sector
      /\ n.data = r.data /\ n.fd_arr = r.fd_arr
      /\ n.thread_owned_exec = NoSector /\ ~n.deny_write
  BY <1>0, <1>3 DEF Proc
<1>6. PICK i \in Int : i = 0
  OBVIOUS
<1>7. PICK deny_write \in BOOLEAN : deny_write = r.deny_write
  BY <1>0 DEF Proc
<1>8. CloseInode(p, s, deny_write, n)
  BY <1>1, <1>2, <1>3, <1>7 DEF CloseExecutable
<1>9. i \notin DOMAIN r.fd_arr
  BY <1>0, <1>6 DEF Proc
<1>10. Closing(p, n, i, s, deny_write)
  <2>1. \A k \in Int, t \in Sector : Refers(n, k, t) <=> Refers(r, k, t) /\ k # i
    <3>1. \A t \in Sector : ~Refers(n, i, t)
      <4>1. i \notin DOMAIN n.fd_arr
        BY <1>5, <1>9
      <4>2. (i = 0 => n.thread_owned_exec = NoSector) /\ (i = -1 => n.pc = "return")
        BY <1>1, <1>5, <1>6
      <4>3. \A t \in Sector : t # NoSector
        BY NumbersFit
      <4>q. QED BY <4>1, <4>2, <4>3 DEF Refers
    <3>2. \A k \in Int, t \in Sector : k # i => (Refers(n, k, t) <=> Refers(r, k, t))
      BY <1>1, <1>5, <1>6 DEF Refers
    <3>q. QED BY <3>1, <3>2
  <2>2. Refers(r, i, s) /\ \A t \in Sector : Refers(r, i, t) => t = s
    BY <1>1, <1>2, <1>6, <1>9 DEF Refers
  <2>3. Walks(n) /\ Carries(n)
    BY <1>0, <1>1, <1>5 DEF Walks, Carries
  <2>4. \A t \in Sector : (n.deny_write /\ n.thread_owned_exec = t)
                           <=> (r.deny_write /\ r.thread_owned_exec = t /\ ~deny_write)
    BY <1>0, <1>1, <1>2, <1>5, <1>7, NumbersFit DEF Proc
  <2>q. QED BY <1>1, <1>2, <1>5, <1>7, <2>1, <2>2, <2>3, <2>4 DEF Closing
<1>q. QED BY <1>1, <1>4, <1>5, <1>8, <1>10, ClosingStep

---------------------------------------------------------------------------
(* Nobody is in the file system: at the beginning and after a reboot.      *)

AtBoot ==
  /\ TypeOK /\ Injective /\ Apart
  /\ proc = [p \in Process |-> NoProcess] /\ inodes = [s \in Sector |-> Closed]
  /\ file_lock_global = Nobody /\ freeMap = diskMap
  /\ \A s, t \in Named : s # t => Bodies[s] \cap Bodies[t] = {}
  /\ \A s \in Named : Bodies[s] \subseteq diskMap
  /\ \A x \in diskMap : x \in lost \/ \E s \in Named : x \in Bodies[s]

LEMMA Booted == AtBoot => IInv
<1> SUFFICES ASSUME AtBoot PROVE IInv
  OBVIOUS
<1>0. TypeOK /\ Injective /\ Apart
  BY DEF AtBoot
<1>1. \A p \in Process : proc[p] = NoProcess
  BY DEF AtBoot
<1>2. ASSUME NEW p \in Process
      PROVE  /\ proc[p].call = "dead" /\ proc[p].pc = "dead" /\ proc[p].data = {}
             /\ proc[p].fd_arr = << >> /\ proc[p].thread_owned_exec = NoSector
             /\ ~proc[p].deny_write
  <2>1. PICK r : r = NoProcess
    OBVIOUS
  <2>2. /\ r.call = "dead" /\ r.pc = "dead" /\ r.data = {} /\ r.fd_arr = << >>
        /\ r.thread_owned_exec = NoSector /\ ~r.deny_write
    BY <2>1 DEF NoProcess
  <2>3. proc[p] = r
    BY <1>1, <2>1
  <2>q. QED BY <2>2, <2>3
<1>3. ASSUME NEW p \in Process, NEW k \in Int, NEW s \in Sector PROVE ~Refers(proc[p], k, s)
  <2>1. DOMAIN << >> = {}
    OBVIOUS
  <2>q. QED BY <1>2, <2>1, NumbersFit DEF Refers
<1>4. \A s \in Sector : Refs(s) = {} /\ Deniers(s) = {}
  BY <1>2, <1>3 DEF Refs, Deniers
<1>5. Opened = {} /\ Live = Named
  BY <1>4 DEF Opened, Live
<1>6. \A p \in Process : Works(proc[p]) = {}
  BY <1>2 DEF Works
<1>7. \A p \in Process : Working[p] = {}
  BY <1>6 DEF Working
<1>8. \A s \in Sector : inodes[s] = Closed
  BY DEF AtBoot
<1>t2. Shaped
  BY <1>2 DEF Shaped, Walks, Carries
<1>t3. Excluded
  <2>1. ASSUME NEW p \in Process PROVE Part(p) # "handler" /\ ~Inside(proc[p])
    BY <1>2 DEF Part, Inside
  <2>q. QED BY <2>1 DEF Excluded
<1>t4. Counted
  <2>1. Closed.open_cnt = 0 /\ Closed.deny_write_cnt = 0
    BY DEF Closed
  <2>q. QED BY <1>4, <1>8, <2>1, FS_EmptySet DEF Counted
<1>t5. Remembered
  <2>1. ~Closed.removed
    BY DEF Closed
  <2>q. QED BY <1>5, <1>8, <2>1 DEF Remembered
<1>t6. Fitting
  BY <1>2 DEF Fitting, Fits
<1>t8. Owner
  BY <1>5, <1>7 DEF Owner, Owning, AtBoot
<1>t10. Saved
  BY <1>2 DEF Saved, AtBoot
<1>q. QED BY <1>0, <1>t2, <1>t3, <1>t4, <1>t5, <1>t6, <1>t8, <1>t10 DEF IInv

(* The disk as it is delivered.                                            *)
LEMMA InitBooted == Init => IInv
<1> SUFFICES ASSUME Init PROVE IInv
  OBVIOUS
<1>1. PICK s \in Sector :
        /\ entries = [n \in Name |-> IF n = Program THEN s ELSE NoSector]
        /\ inodeData = [t \in Sector |-> IF t = s THEN {s + 1} ELSE {}]
        /\ diskMap = {s, s + 1}
  BY DEF Init
<1>2. freeMap = diskMap /\ lost = {} /\ inodes = [t \in Sector |-> Closed]
      /\ file_lock_global = Nobody /\ proc = [p \in Process |-> NoProcess]
  BY DEF Init
<1>3. s \in Nat /\ s # NoSector
  BY NumbersFit
<1>4. \A n \in Name : entries[n] = IF n = Program THEN s ELSE NoSector
  BY <1>1
<1>5. Program \in Name
  BY Zenon, FilesAssumption
<1>6. Named = {s}
  BY <1>3, <1>4, <1>5 DEF Named
<1>7. Bodies[s] = {s, s + 1} /\ inodeData[s] = {s + 1}
  BY <1>1 DEF Bodies
<1>8. TypeOK
  <2>1. entries \in [Name -> Places]
    BY <1>1, NumbersFit
  <2>2. inodeData \in [Sector -> SUBSET Nat] /\ diskMap \in SUBSET Nat
    BY <1>1, <1>3
  <2>3. inodes \in [Sector -> Inode]
    BY <1>2 DEF Closed, Inode
  <2>4. proc \in [Process -> Proc]
    BY <1>2, NobodyFits
  <2>q. QED BY <1>2, <2>1, <2>2, <2>3, <2>4 DEF TypeOK
<1>9. Injective
  BY <1>4 DEF Injective
<1>10. Apart
  <2>1. Opened = {}
    <3>1. \A p \in Process, k \in Int, t \in Sector : ~Refers(proc[p], k, t)
      <4>1. DOMAIN << >> = {}
        OBVIOUS
      <4>q. QED BY <4>1, <1>2, NumbersFit DEF NoProcess, Refers
    <3>q. QED BY <3>1 DEF Opened, Refs
  <2>q. QED BY <1>3, <1>6, <1>7, <2>1 DEF Apart, Live
<1>q. QED BY <1>1, <1>2, <1>6, <1>7, <1>8, <1>9, <1>10, Booted DEF AtBoot

(* The disk as the power failure leaves it: Saved is what is needed.       *)
LEMMA PowerFailureStep ==
  ASSUME IInv, PowerFailure
  PROVE  IInv'
<1>0. TypeOK
  BY DEF IInv
<1>1. /\ freeMap' = diskMap /\ inodes' = [s \in Sector |-> Closed] /\ file_lock_global' = Nobody
      /\ proc' = [p \in Process |-> NoProcess]
      /\ UNCHANGED << entries, inodeData, diskMap >>
  BY DEF PowerFailure, disk
<1>2. Named' = Named /\ Bodies' = Bodies
  BY <1>1 DEF Named, Bodies
<1>3. lost' = diskMap \ UNION {Bodies[s] : s \in Named}
  <2>1. \A s \in Named : Bodies[s] = {s} \cup inodeData[s]
    BY <1>0, LiveSectors DEF Bodies
  <2>q. QED BY <2>1 DEF PowerFailure
<1>4. TypeOK'
  <2>1. inodes' \in [Sector -> Inode]
    BY <1>1 DEF Closed, Inode
  <2>2. proc' \in [Process -> Proc]
    BY <1>1, NobodyFits
  <2>3. lost' \in SUBSET Nat
    BY <1>0, <1>3 DEF TypeOK
  <2>q. QED BY <1>0, <1>1, <2>1, <2>2, <2>3 DEF TypeOK
<1>5. Injective'
  BY <1>1 DEF IInv, Injective
<1>6. Opened' = {}
  <2>1. \A p \in Process, k \in Int, t \in Sector : ~Refers(proc'[p], k, t)
    <3>1. DOMAIN << >> = {}
      OBVIOUS
    <3>q. QED BY <3>1, <1>1, NumbersFit DEF NoProcess, Refers
  <2>2. \A s \in Sector : Refs(s)' = {}
    BY <2>1 DEF Refs
  <2>q. QED BY <2>2 DEF Opened
<1>7. Apart'
  BY <1>1, <1>2, <1>6 DEF IInv, Apart, Live
<1>8. \A s, t \in Named : s # t => Bodies[s] \cap Bodies[t] = {}
  BY DEF IInv, Owner, Owning, Live
<1>9. \A s \in Named : Bodies[s] \subseteq diskMap
  BY DEF IInv, Saved
<1>10. \A x \in diskMap : x \in lost' \/ \E s \in Named : x \in Bodies[s]
  BY <1>3
<1>11. /\ \A s, t \in Named' : s # t => Bodies'[s] \cap Bodies'[t] = {}
       /\ \A s \in Named' : Bodies'[s] \subseteq diskMap'
       /\ \A x \in diskMap' : x \in lost' \/ \E s \in Named' : x \in Bodies'[s]
  BY <1>1, <1>2, <1>8, <1>9, <1>10
<1>12. AtBoot'
  BY <1>1, <1>4, <1>5, <1>7, <1>11 DEF AtBoot
<1>q. QED BY <1>12, Booted, PTL

---------------------------------------------------------------------------
(* IInv is inductive.                                                      *)
LEMMA NextKeeps ==
  ASSUME "load" \notin Unlocked, IInv, [Next]_vars
  PROVE  IInv'
<1>1. ASSUME NEW p \in Process, Create(p) PROVE IInv'
  BY <1>1, CreateStep
<1>2. ASSUME NEW p \in Process, Open(p) PROVE IInv'
  BY <1>2, OpenStep
<1>3. ASSUME NEW p \in Process, Remove(p) PROVE IInv'
  BY <1>3, RemoveStep
<1>4. ASSUME NEW p \in Process, Write(p) PROVE IInv'
  BY <1>4, WriteStep
<1>5. ASSUME NEW p \in Process, Close(p) PROVE IInv'
  BY <1>5, CloseStep
<1>6. ASSUME NEW p \in Process, Exit(p) PROVE IInv'
  BY <1>6, ExitStep
<1>7. ASSUME NEW p \in Process, Fault(p) PROVE IInv'
  BY <1>7, FaultStep
<1>8. ASSUME NEW p \in Process, Load(p) PROVE IInv'
  BY <1>8, LoadStep
<1>9. ASSUME NEW p \in Process, Lookup(p) PROVE IInv'
  BY <1>9, LookupStep
<1>10. ASSUME NEW p \in Process, OpenInode(p) PROVE IInv'
  BY <1>10, OpenInodeStep
<1>11. ASSUME NEW p \in Process, EraseEntry(p) PROVE IInv'
  BY <1>11, EraseEntryStep
<1>12. ASSUME NEW p \in Process, RemoveInode(p) PROVE IInv'
  BY <1>12, RemoveInodeStep
<1>13. ASSUME NEW p \in Process, AllocateInode(p) PROVE IInv'
  BY <1>13, AllocateInodeStep
<1>14. ASSUME NEW p \in Process, AllocateData(p) PROVE IInv'
  BY <1>14, AllocateDataStep
<1>15. ASSUME NEW p \in Process, WriteInode(p) PROVE IInv'
  BY <1>15, WriteInodeStep
<1>16. ASSUME NEW p \in Process, AddEntry(p) PROVE IInv'
  BY <1>16, AddEntryStep
<1>17. ASSUME NEW p \in Process, UndoCreate(p) PROVE IInv'
  BY <1>17, UndoCreateStep
<1>18. ASSUME NEW p \in Process, DenyWrite(p) PROVE IInv'
  BY <1>18, DenyWriteStep
<1>19. ASSUME NEW p \in Process, Loaded(p) PROVE IInv'
  BY <1>19, LoadedStep
<1>20. ASSUME NEW p \in Process, WriteData(p) PROVE IInv'
  BY <1>20, WriteDataStep
<1>21. ASSUME NEW p \in Process, WriteFreeMap(p) PROVE IInv'
  BY <1>21, WriteFreeMapStep
<1>22. ASSUME NEW p \in Process, CloseRemoved(p) PROVE IInv'
  BY <1>22, CloseRemovedStep
<1>23. ASSUME NEW p \in Process, CloseDescriptor(p) PROVE IInv'
  BY <1>23, CloseDescriptorStep
<1>24. ASSUME NEW p \in Process, CloseExecutable(p) PROVE IInv'
  BY <1>24, CloseExecutableStep
<1>25. ASSUME NEW p \in Process, Exited(p) PROVE IInv'
  BY <1>25, ExitedStep
<1>26. ASSUME NEW p \in Process, ReleaseData(p) PROVE IInv'
  BY <1>26, ReleaseDataStep
<1>27. ASSUME NEW p \in Process, Return(p) PROVE IInv'
  BY <1>27, ReturnStep
<1>28. CASE PowerFailure
  BY <1>28, PowerFailureStep
<1>29. CASE UNCHANGED vars
  <2>1. UNCHANGED << entries, inodeData, diskMap, freeMap, inodes, file_lock_global, proc, lost >>
    BY <1>29 DEF vars
  <2>2. TypeOK' /\ Shaped' /\ Excluded' /\ Injective' /\ Fitting'
    BY <2>1 DEF IInv, TypeOK, Shaped, Excluded, Part, Injective, Fitting, Fits, Named
  <2>3. Named' = Named /\ Bodies' = Bodies /\ Opened' = Opened /\ Working' = Working
    BY <2>1 DEF Named, Bodies, Opened, Refs, Working
  <2>4. Counted' /\ Remembered'
    BY <2>1, <2>3 DEF IInv, Counted, Remembered, Refs, Deniers
  <2>5. Owner' /\ Apart' /\ Saved'
    BY <2>1, <2>3 DEF IInv, Owner, Apart, Saved, Live
  <2>q. QED BY <2>2, <2>4, <2>5 DEF IInv
<1>q. QED
  BY <1>1, <1>2, <1>3, <1>4, <1>5, <1>6, <1>7, <1>8, <1>9, <1>10, <1>11, <1>12, <1>13, <1>14,
     <1>15, <1>16, <1>17, <1>18, <1>19, <1>20, <1>21, <1>22, <1>23, <1>24, <1>25, <1>26, <1>27,
     <1>28, <1>29
     DEF Next

---------------------------------------------------------------------------
(* What the invariant says of the properties.                              *)

(* Held and Owned, as the properties speak of them.                        *)
LEMMA HeldIsOpened ==
  ASSUME IInv
  PROVE  HeldByAll = Opened /\ HeldByAll \subseteq Sector
<1>1. ASSUME NEW p \in Process, NEW s \in Held(p)
      PROVE  s \in Sector /\ \E k \in Int : Refers(proc[p], k, s)
  <2>0. proc[p] \in Proc /\ Carries(proc[p]) /\ Walks(proc[p])
    BY Now
  <2>1. CASE \E fd \in Descriptors(p) : s = proc[p].fd_arr[fd]
    <3>1. PICK fd \in Descriptors(p) : s = proc[p].fd_arr[fd]
      BY <2>1
    <3>2. fd \in Int /\ fd \in DOMAIN proc[p].fd_arr /\ proc[p].fd_arr[fd] \in Places
          /\ s # NoSector
      BY <2>0, <3>1 DEF Descriptors, Proc
    <3>q. QED BY <3>1, <3>2 DEF Refers, Places
  <2>2. CASE s = proc[p].thread_owned_exec /\ s # NoSector
    <3>1. Refers(proc[p], 0, s)
      BY <2>2 DEF Refers
    <3>q. QED BY <2>0, <2>2, <3>1 DEF Proc, Places
  <2>3. CASE Removing(p) /\ s = proc[p].sector
    <3>1. Refers(proc[p], -1, s)
      BY <2>3 DEF Refers, Removing
    <3>2. s \in Sector
      BY <2>0, <2>3 DEF Removing, Carries
    <3>q. QED BY <3>1, <3>2
  <2>q. QED BY <2>1, <2>2, <2>3 DEF Held
<1>2. ASSUME NEW p \in Process, NEW k \in Int, NEW s \in Sector, Refers(proc[p], k, s)
      PROVE  s \in Held(p)
  BY <1>2, NumbersFit DEF Refers, Held, Descriptors, Removing
<1>3. \A s \in Sector : Refs(s) # {} <=> \E p \in Process, k \in Int : Refers(proc[p], k, s)
  <2>1. \A s \in Sector, x \in Process \X Int : x \in Refs(s) <=> Refers(proc[x[1]], x[2], s)
    BY DEF Refs
  <2>2. ASSUME NEW s \in Sector, NEW p \in Process, NEW k \in Int, Refers(proc[p], k, s)
        PROVE  Refs(s) # {}
    <3>1. << p, k >> \in Refs(s)
      BY <2>1, <2>2
    <3>q. QED BY <3>1
  <2>3. ASSUME NEW s \in Sector, Refs(s) # {}
        PROVE  \E p \in Process, k \in Int : Refers(proc[p], k, s)
    BY <2>3 DEF Refs
  <2>q. QED BY <2>2, <2>3
<1>q. QED BY <1>1, <1>2, <1>3 DEF HeldByAll, Opened

LEMMA OwnedIs ==
  ASSUME IInv
  PROVE  /\ \A s \in Live : Owned(<< "file", s >>) = Bodies[s]
         /\ \A p \in Process : Owned(<< "process", p >>) = Working[p]
         /\ \A o \in Owners : \/ \E s \in Live : o = << "file", s >>
                              \/ \E p \in Process : o = << "process", p >>
         /\ \A s \in Live : << "file", s >> \in Owners
         /\ \A p \in Process : << "process", p >> \in Owners
         /\ \A s \in HeldByAll : inodes[s].open_cnt > 0
<1>0. HeldByAll = Opened /\ TypeOK /\ Live \subseteq Sector /\ Opened \subseteq Sector
  BY HeldIsOpened, LiveSectors DEF IInv
<1>1. \A s \in Sector : inodes[s].open_cnt \in Nat /\ (inodes[s].open_cnt > 0 <=> s \in Opened)
  BY FS_EmptySet, FS_CardinalityType DEF IInv, Counted, Opened
<1>2. ASSUME NEW s \in Live PROVE Owned(<< "file", s >>) = Bodies[s]
  <2>1. SectorsOf(s) = {s} \cup inodeData[s]
    <3>1. s \in Sector
      BY <1>0
    <3>2. inodes[s].open_cnt > 0 => inodes[s].data = inodeData[s]
      BY <1>1, <3>1 DEF IInv, Remembered
    <3>q. QED BY <3>2 DEF SectorsOf
  <2>2. Owned(<< "file", s >>) = SectorsOf(s)
    BY DEF Owned
  <2>q. QED BY <1>0, <2>1, <2>2 DEF Bodies
<1>3. ASSUME NEW p \in Process PROVE Owned(<< "process", p >>) = Working[p]
  <2>1. AtWork(p) = Works(proc[p])
    BY DEF AtWork, Works
  <2>2. Owned(<< "process", p >>) = AtWork(p)
    BY DEF Owned
  <2>q. QED BY <2>1, <2>2 DEF Working
<1>4. Owners = {<< "file", s >> : s \in Live} \cup {<< "process", p >> : p \in Process}
  BY <1>0 DEF Owners, Live
<1>q. QED BY <1>0, <1>1, <1>2, <1>3, <1>4

LEMMA SectorsOwnedHolds == IInv => SectorsOwned
<1> SUFFICES ASSUME IInv PROVE SectorsOwned
  OBVIOUS
<1>1. Owning(Live, Bodies, Working, freeMap, lost)
  BY DEF IInv, Owner
<1>2. \A o \in Owners : Owned(o) \subseteq freeMap
  BY <1>1, OwnedIs DEF Owning
<1>3. ASSUME NEW o1 \in Owners, NEW o2 \in Owners, o1 # o2 PROVE Owned(o1) \cap Owned(o2) = {}
  <2>1. CASE \E s, t \in Live : o1 = << "file", s >> /\ o2 = << "file", t >>
    BY <1>1, <1>3, <2>1, OwnedIs DEF Owning
  <2>2. CASE \E s \in Live, p \in Process :
               \/ o1 = << "file", s >> /\ o2 = << "process", p >>
               \/ o2 = << "file", s >> /\ o1 = << "process", p >>
    BY <1>1, <2>2, OwnedIs DEF Owning
  <2>3. CASE \E p, q \in Process : o1 = << "process", p >> /\ o2 = << "process", q >>
    BY <1>1, <1>3, <2>3, OwnedIs DEF Owning
  <2>q. QED BY <2>1, <2>2, <2>3, OwnedIs
<1>q. QED BY <1>2, <1>3, OwnedIs DEF SectorsOwned

LEMMA OnlyKnownLeaksHolds == IInv => OnlyKnownLeaks
<1> SUFFICES ASSUME IInv, NEW x \in freeMap
             PROVE  x \in lost \/ \E o \in Owners : x \in Owned(o)
  BY DEF OnlyKnownLeaks
<1>1. \/ x \in lost \/ (\E s \in Live : x \in Bodies[s]) \/ \E p \in Process : x \in Working[p]
  BY DEF IInv, Owner, Owning
<1>q. QED BY <1>1, OwnedIs

LEMMA DiskConsistentHolds == IInv => DiskConsistent
<1> SUFFICES ASSUME IInv PROVE DiskConsistent
  OBVIOUS
<1>1. Named \subseteq Sector /\ Named \subseteq Live
  BY LiveSectors DEF IInv, Live
<1>2. \A s \in Named : Bodies[s] = {s} \cup inodeData[s]
  BY <1>1 DEF Bodies
<1>3. \A s \in Named : {s} \cup inodeData[s] \subseteq diskMap
  BY <1>2 DEF IInv, Saved
<1>4. ASSUME NEW m \in Name, NEW n \in Name, m # n, entries[m] # NoSector, entries[n] # NoSector
      PROVE  ({entries[m]} \cup inodeData[entries[m]])
                \cap ({entries[n]} \cup inodeData[entries[n]]) = {}
  <2>1. entries[m] \in Named /\ entries[n] \in Named
    BY <1>4 DEF Named
  <2>2. entries[m] # entries[n]
    BY <1>4 DEF IInv, Injective
  <2>3. Bodies[entries[m]] \cap Bodies[entries[n]] = {}
    BY <1>1, <2>1, <2>2 DEF IInv, Owner, Owning
  <2>q. QED BY <1>2, <2>1, <2>3
<1>q. QED BY <1>3, <1>4 DEF DiskConsistent

LEMMA TextUnchangedHolds == IInv => TextUnchanged
<1> SUFFICES ASSUME IInv, NEW p \in Process, NEW q \in Process,
                    proc[p].pc = "write", proc[q].deny_write,
                    proc[p].sector = proc[q].thread_owned_exec
             PROVE  FALSE
  BY DEF TextUnchanged
<1>1. PICK s \in Sector : s = proc[p].sector
  BY Now DEF Carries
<1>2. Cardinality(Deniers(s)) = 0 /\ IsFiniteSet(Deniers(s))
  BY <1>1, Now DEF IInv, Counted, Fits
<1>3. q \in Deniers(s)
  BY <1>1 DEF Deniers
<1>q. QED BY <1>2, <1>3, FS_EmptySet

LEMMA Invariance == ASSUME "load" \notin Unlocked PROVE Spec => []IInv
<1>1. IInv /\ [Next]_vars => IInv'
  BY NextKeeps
<1>q. QED BY <1>1, InitBooted, PTL DEF Spec

(* Two files never share a sector and none of their sectors is free, so    *)
(* the assertion of free_map_release never fails, whatever is opened,      *)
(* removed, closed or killed in whichever order, and whenever the power    *)
(* fails.                                                                  *)
THEOREM SectorsHaveOwners ==
  ASSUME "load" \notin Unlocked PROVE Spec => []SectorsOwned
BY Invariance, SectorsOwnedHolds, PTL

(* No sector is lost but by filesys_create when dir_add fails and by a     *)
(* power failure.                                                          *)
THEOREM LeaksAreKnown ==
  ASSUME "load" \notin Unlocked PROVE Spec => []OnlyKnownLeaks
BY Invariance, OnlyKnownLeaksHolds, PTL

(* At every write to the disk the directory and the free map on it agree:  *)
(* the order in which filesys_create and inode_close write is safe.        *)
THEOREM DiskStaysConsistent ==
  ASSUME "load" \notin Unlocked PROVE Spec => []DiskConsistent
BY Invariance, DiskConsistentHolds, PTL

(* No write that looked at deny_write_cnt before file_deny_write reaches   *)
(* an executable after it.                                                 *)
THEOREM TextStays ==
  ASSUME "load" \notin Unlocked PROVE Spec => []TextUnchanged
BY Invariance, TextUnchangedHolds, PTL
=============================================================================
