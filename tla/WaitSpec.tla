------------------------------ MODULE WaitSpec ------------------------------
(***************************************************************************)
(* What a user program may rely on when it calls wait (the comment of      *)
(* process_wait, userprog/process.c): the first wait for a child blocks    *)
(* until the child has exited and is answered with the code it exited      *)
(* with, -1 when it was killed; every other wait is answered with -1.      *)
(***************************************************************************)
EXTENDS Integers

CONSTANTS Process, Codes, Killed, NULL

VARIABLES
  children,   (* the children a process may wait for                       *)
  exitCode,   (* NULL until a process has exited                           *)
  asking,     (* whom a process waits for, NULL outside wait               *)
  waited,     (* the children whose wait was answered                      *)
  answer      (* the last child waited for, and the answer                 *)

wvars == << children, exitCode, asking, waited, answer >>

Init ==
  /\ children = [p \in Process |-> {}]
  /\ exitCode = [p \in Process |-> NULL]
  /\ asking = [p \in Process |-> NULL]
  /\ waited = {}
  /\ answer = [p \in Process |-> [child |-> NULL, code |-> Killed]]

(* An exec succeeds; the child may have exited already.                    *)
Start(p, q) ==
  /\ asking[p] = NULL
  /\ \A r \in Process : q \notin children[r]
  /\ children' = [children EXCEPT ![p] = @ \cup {q}]
  /\ UNCHANGED << exitCode, asking, waited, answer >>

Exit(p, c) ==
  /\ asking[p] = NULL /\ exitCode[p] = NULL
  /\ exitCode' = [exitCode EXCEPT ![p] = c]
  /\ UNCHANGED << children, asking, waited, answer >>

(* A process that has exited lets go of a child.                           *)
Leave(p, q) ==
  /\ exitCode[p] # NULL
  /\ children' = [children EXCEPT ![p] = @ \ {q}]
  /\ UNCHANGED << exitCode, asking, waited, answer >>

Ask(p, q) ==
  /\ asking[p] = NULL /\ exitCode[p] = NULL
  /\ asking' = [asking EXCEPT ![p] = q]
  /\ UNCHANGED << children, exitCode, waited, answer >>

(* The first wait for a child ends with its code, ...                      *)
Deliver(p, q) ==
  /\ q \in children[p] \ waited /\ exitCode[q] # NULL
  /\ answer' = [answer EXCEPT ![p] = [child |-> q, code |-> exitCode[q]]]
  /\ waited' = waited \cup {q}

(* ... and only a wait for somebody else ends without one.                 *)
Refuse(p, q) ==
  /\ q \notin children[p] \ waited
  /\ answer' = [answer EXCEPT ![p] = [child |-> q, code |-> Killed]]
  /\ UNCHANGED waited

Return(p) ==
  /\ asking[p] # NULL
  /\ Deliver(p, asking[p]) \/ Refuse(p, asking[p])
  /\ asking' = [asking EXCEPT ![p] = NULL]
  /\ UNCHANGED << children, exitCode >>

Next ==
  \E p \in Process :
    \/ Return(p)
    \/ \E q \in Process : Start(p, q) \/ Leave(p, q) \/ Ask(p, q)
    \/ \E c \in Codes : Exit(p, c)

Spec == Init /\ [][Next]_wvars
=============================================================================
