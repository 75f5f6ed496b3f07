-------------------------------- MODULE Rtp --------------------------------
(***************************************************************************)
(* The reliable transport protocol of the networking course: one Sender    *)
(* (Sender.py) that sends a file of N chunks to one Receiver (Receiver.py) *)
(* over UDP.  The channel loses, reorders and duplicates packets; a packet *)
(* whose checksum fails is lost to the receiver and a timeout to the       *)
(* sender.                                                                 *)
(*                                                                         *)
(* Each side is a loop around recv: one action is what a side does with    *)
(* one packet, or with the timeout of recv, all its sends included.        *)
(* Timeouts are early: they may happen whatever is in the channel.         *)
(***************************************************************************)
EXTENDS Integers, Sequences, FiniteSets

CONSTANTS
  N,                (* chunks of the file                                  *)
  BufferSize,       (* buffer_size of the sender, max_buf_size of the      *)
                    (* receiver                                            *)
  RetransmitLimit,  (* retransmit_limit                                    *)
  SackModes,        (* the values of sackMode the receiver is started with *)
  MaxDups,          (* bound on the packets the channel duplicates         *)
  MayExpire         (* whether the receiver may drop the connection        *)

ASSUME RtpAssumption ==
  /\ N \in Nat \ {0} /\ BufferSize \in Nat \ {0}
  /\ RetransmitLimit \in Nat \ {0} /\ MaxDups \in Nat
  /\ SackModes \in SUBSET BOOLEAN /\ MayExpire \in BOOLEAN

VARIABLES
  phase,            (* of the sender: "handshake", "sending" or "done"     *)
  cum_seq, end_seq,
  times_received,   (* of chunk numbers only: for others nothing reads it  *)
  connected,        (* the sender's address is in self.connections         *)
  current_seqno,
  seqnums,          (* the sequence numbers buffered out of order          *)
  outfile,          (* the chunks written to the file                      *)
  sackMode,         (* of the receiver                                     *)
  toReceiver, toSender,
  dups

senderVars   == << phase, cum_seq, end_seq, times_received >>
receiverVars == << connected, current_seqno, seqnums, outfile, sackMode >>
vars == << senderVars, receiverVars, toReceiver, toSender, dups >>

(* The keys of cache: read_data numbers the chunks from 1.                 *)
Cache == 1 .. N

Packet(type, seqno) == [type |-> type, seqno |-> seqno]
Syn        == Packet("syn", 0)
Dat(seqno) == Packet("dat", seqno)
Fin(seqno) == Packet("fin", seqno)
Packets == {Syn} \cup { Dat(n) : n \in Cache } \cup {Fin(N + 1)}

(* An acknowledgement names the next sequence number expected and, in sack *)
(* mode, the ones buffered beyond it.                                      *)
Acks == [seqno : 1 .. N + 2,
         sacks : IF TRUE \in SackModes THEN SUBSET (1 .. N + 1) ELSE {{}}]

Init ==
  /\ phase = "handshake" /\ cum_seq = 0 /\ end_seq = 0
  /\ times_received = [n \in Cache |-> 0]
  /\ connected = FALSE /\ current_seqno = -1 /\ seqnums = {} /\ outfile = << >>
  /\ sackMode \in SackModes
  /\ toReceiver = {Syn} /\ toSender = {} /\ dups = 0

Send(packets) == toReceiver' = toReceiver \cup packets

(* recv takes a packet from the channel, or leaves a duplicate of it.      *)
Take(channel, m) ==
  \/ channel' = channel \ {m} /\ UNCHANGED dups
  \/ dups < MaxDups /\ dups' = dups + 1 /\ UNCHANGED channel

-----------------------------------------------------------------------------
(* The sender.                                                             *)

(* send_handshake: a timeout sends syn again, any reply starts the         *)
(* transfer.                                                               *)
HandshakeTimeout ==
  /\ phase = "handshake"
  /\ Send({Syn})
  /\ UNCHANGED << senderVars, receiverVars, toSender, dups >>

HandshakeReply(m) ==
  /\ phase = "handshake"
  /\ m \in toSender /\ Take(toSender, m)
  /\ phase' = "sending" /\ cum_seq' = 1
  /\ Send({Dat(1)})
  /\ UNCHANGED << end_seq, times_received, receiverVars >>

(* Mutation of GivesUp: a timeout ends the loop once the fin is out.       *)
GivesUpAfterFin == end_seq # 0

(* A timeout ends the loop when there is no chunk to send again.           *)
GivesUp == cum_seq \notin Cache

(* Mutation of Resent: nothing is sent again.                              *)
ResentNothing == {}

Resent == {Dat(cum_seq)}

Timeout ==
  /\ phase = "sending"
  /\ IF GivesUp THEN phase' = "done" /\ UNCHANGED toReceiver
                ELSE phase' = phase /\ Send(Resent)
  /\ UNCHANGED << cum_seq, end_seq, times_received, receiverVars, toSender, dups >>

(* Mutation of Window: one packet too many.                                *)
WindowTooWide(first, width) == first .. first + width

(* The range the main loop iterates over.                                  *)
Window(first, width) == first .. first + width - 1

(* The chunks of the window, and the fin, once, when the window reaches    *)
(* past the last chunk.                                                    *)
SendWindow(first, width, resent) ==
  LET window == Window(first, width)
      past   == { n \in window : n \notin Cache }
      data   == { Dat(n) : n \in window \cap Cache }
  IN IF past # {} /\ end_seq = 0
     THEN LET n == CHOOSE n \in past : \A m \in past : n <= m IN
          Send(resent \cup data \cup {Fin(n)}) /\ end_seq' = n + 1
     ELSE Send(resent \cup data) /\ UNCHANGED end_seq

(* The acknowledgement that makes retransmit_packets send its chunk again. *)
FastRetransmits(n) == n \in Cache /\ times_received[n] + 1 >= RetransmitLimit

(* One turn of the loop of start for an acknowledgement; send_sacks sends  *)
(* every chunk of a sack list.                                             *)
ReceiveAck(m) ==
  LET n      == m.seqno
      sacked == { Dat(k) : k \in m.sacks \cap Cache }
  IN
  /\ phase = "sending"
  /\ m \in toSender /\ Take(toSender, m)
  /\ cum_seq' = n
  /\ \/ /\ n \notin Cache /\ n = end_seq
        /\ phase' = "done"
        /\ Send(sacked)
        /\ UNCHANGED << end_seq, times_received >>
     \/ /\ n \in Cache \/ n # end_seq
        /\ phase' = phase
        /\ IF FastRetransmits(n)
           THEN /\ times_received' = [times_received EXCEPT ![n] = 0]
                /\ SendWindow(n, BufferSize - 1 - Cardinality(m.sacks),
                              sacked \cup {Dat(n)})
           ELSE /\ times_received' =
                     [k \in Cache |-> times_received[k] + (IF k = n THEN 1 ELSE 0)]
                /\ SendWindow(n, BufferSize - Cardinality(m.sacks), sacked)
  /\ UNCHANGED receiverVars

-----------------------------------------------------------------------------
(* The receiver.                                                           *)

(* Mutation of Run: the scan does not stop at a gap.                       *)
RunSkipsGaps(base, buffered) == buffered

(* The numbers that the scan of Connection.ack takes off the buffer: those *)
(* that follow base without a gap.                                         *)
Run(base, buffered) == { n \in buffered : base + 1 .. n \subseteq buffered }

(* The window of the receiver.                                             *)
Accepts(seqno, current) == seqno > current /\ seqno <= current + BufferSize

(* Connection.ack on a connection in state (current, buffered): the new    *)
(* state, and the numbers handed on to the file.                           *)
Acked(seqno, current, buffered) ==
  LET arrived == buffered \cup {seqno}
      taken   == Run(current, arrived)
  IN  IF Accepts(seqno, current)
      THEN [current |-> current + Cardinality(taken), buffered |-> arrived \ taken,
            taken |-> taken]
      ELSE [current |-> current, buffered |-> buffered, taken |-> {}]

(* Mutation of Answer: what is buffered counts as received.                *)
AnswerCountsBuffered(ack) ==
  [seqno |-> ack.current + 1 + Cardinality(ack.buffered),
   sacks |-> IF sackMode THEN ack.buffered ELSE {}]

Answer(ack) == [seqno |-> ack.current + 1, sacks |-> IF sackMode THEN ack.buffered ELSE {}]

(* The chunks with the numbers in S, in order.  The fin carries no data.   *)
Sorted(S) ==
  [i \in 1 .. Cardinality(S) |->
     CHOOSE n \in S : Cardinality({ m \in S : m <= n }) = i]

Chunks(ack) == Sorted(ack.taken \cap Cache)

(* Mutation of Fresh: every syn makes a new connection.                    *)
FreshAlways == TRUE

(* Whether _handle_syn makes a new Connection, which opens the file anew.  *)
Fresh == ~connected

HandleSyn ==
  /\ Syn \in toReceiver
  /\ Take(toReceiver, Syn)
  /\ LET ack == Acked(0, IF Fresh THEN -1 ELSE current_seqno,
                         IF Fresh THEN {} ELSE seqnums)
     IN /\ outfile' = IF Fresh THEN << >> ELSE outfile
        /\ current_seqno' = ack.current /\ seqnums' = ack.buffered
        /\ toSender' = toSender \cup {Answer(ack)}
  /\ connected' = TRUE
  /\ UNCHANGED << senderVars, sackMode >>

(* _handle_dat and _handle_fin: ignored without a connection.              *)
HandleDat(m) ==
  /\ m \in toReceiver \ {Syn} /\ Take(toReceiver, m)
  /\ IF ~connected
     THEN UNCHANGED << current_seqno, seqnums, outfile, toSender >>
     ELSE LET ack == Acked(m.seqno, current_seqno, seqnums) IN
          /\ outfile' = outfile \o Chunks(ack)
          /\ current_seqno' = ack.current /\ seqnums' = ack.buffered
          /\ toSender' = toSender \cup {Answer(ack)}
  /\ UNCHANGED << senderVars, connected, sackMode >>

(* _cleanup drops a connection that has heard nothing for `timeout'        *)
(* seconds.  No packet spends that long in the channel.                    *)
Cleanup ==
  /\ MayExpire
  /\ connected /\ toReceiver = {} /\ toSender = {}
  /\ connected' = FALSE /\ current_seqno' = -1 /\ seqnums' = {}
  /\ UNCHANGED << senderVars, outfile, sackMode, toReceiver, toSender, dups >>

-----------------------------------------------------------------------------
(* The channel loses a packet, or its checksum does not fit.               *)
Lose ==
  \/ \E m \in toReceiver : toReceiver' = toReceiver \ {m} /\ UNCHANGED toSender
  \/ \E m \in toSender : toSender' = toSender \ {m} /\ UNCHANGED toReceiver

Next ==
  \/ HandshakeTimeout \/ Timeout \/ HandleSyn \/ Cleanup
  \/ \E m \in toSender : HandshakeReply(m) \/ ReceiveAck(m)
  \/ \E m \in toReceiver : HandleDat(m)
  \/ Lose /\ UNCHANGED << senderVars, receiverVars, dups >>

Spec == Init /\ [][Next]_vars

(* recv times out when nothing comes, both programs run, and the channel   *)
(* does not lose for ever what would bring the transfer forward: a syn,    *)
(* the first chunk not acknowledged, or an acknowledgement of more.        *)
Fairness ==
  /\ WF_vars(HandshakeTimeout) /\ WF_vars(Timeout)
  /\ SF_vars(HandleSyn)
  /\ SF_vars(\E m \in toReceiver : m.seqno = cum_seq /\ HandleDat(m))
  /\ SF_vars(\E m \in toSender : HandshakeReply(m))
  /\ SF_vars(\E m \in toSender : ReceiveAck(m) /\ cum_seq' > cum_seq)

FairSpec == Spec /\ Fairness
=============================================================================
