--------------------------- MODULE RtpProperties ---------------------------
(***************************************************************************)
(* What the transport protocol promises of a transfer (Rtp).               *)
(***************************************************************************)
EXTENDS Rtp

(* Every variable has its type: sequence numbers stay within the file and  *)
(* its fin, and the counters of acknowledgements below retransmit_limit.   *)
TypeOK ==
  /\ phase \in {"handshake", "sending", "done"}
  /\ cum_seq \in 0 .. N + 2 /\ end_seq \in {0, N + 2}
  /\ times_received \in [Cache -> 0 .. RetransmitLimit - 1]
  /\ connected \in BOOLEAN /\ current_seqno \in -1 .. N + 1
  /\ seqnums \in SUBSET (1 .. N + 1)
  /\ outfile \in Seq(Cache)
  /\ sackMode \in SackModes
  /\ toReceiver \in SUBSET Packets /\ toSender \in SUBSET Acks
  /\ dups \in 0 .. MaxDups

(* The number of chunks the receiver has told the sender it holds.         *)
Held(seqno) == IF seqno > N THEN N ELSE seqno

(* The file is written in order: it is always the first chunks, each once, *)
(* and as many as the connection has acknowledged, whatever was lost,      *)
(* duplicated or came late.                                                *)
InOrder ==
  /\ outfile = [i \in 1 .. Len(outfile) |-> i]
  /\ connected => Len(outfile) = Held(current_seqno)

(* The sender never takes for received what the receiver has not written:  *)
(* cum_seq, and every acknowledgement on its way, lags behind the file.    *)
SenderBelief ==
  /\ phase # "handshake" => Held(cum_seq - 1) <= Len(outfile)
  /\ \A m \in toSender : Held(m.seqno - 1) <= Len(outfile)

(* When the sender stops, by the last acknowledgement or by a timeout, the *)
(* receiver has written the whole file.                                    *)
DoneMeansDelivered == phase = "done" => Len(outfile) = N

(* Nothing the sender has in flight lies outside the receiver's window:    *)
(* what arrives is buffered or is old, and is never refused as too new.    *)
NoOverrun ==
  connected => \A m \in toReceiver : m.seqno <= current_seqno + BufferSize

(* The four properties above do not imply themselves; with what follows    *)
(* they do.  A transfer begins with nothing but syns under way, and a new  *)
(* connection is only made while that is so.                               *)
HandshakeInv ==
  /\ phase = "handshake" => /\ outfile = << >> /\ end_seq = 0
                            /\ toReceiver \subseteq {Syn}
                            /\ current_seqno <= 0 /\ seqnums = {}
  /\ phase # "handshake" => cum_seq > 0
  /\ toSender # {} => connected
  /\ Syn \in toReceiver /\ ~connected => phase = "handshake"

(* A connection has buffered what lies in its window beyond the next chunk *)
(* it waits for, and no acknowledgement runs ahead of it.                  *)
ConnectionInv ==
  /\ ~connected => current_seqno = -1 /\ seqnums = {}
  /\ connected => /\ current_seqno >= 0
                  /\ \A n \in seqnums : /\ n > current_seqno + 1
                                       /\ n <= current_seqno + BufferSize
                  /\ \A m \in toSender :
                       /\ m.seqno <= current_seqno + 1
                       /\ \A n \in m.sacks : n <= current_seqno + BufferSize
                  /\ phase # "handshake" => cum_seq <= current_seqno + 1

(* Nobody has seen the fin before it was sent.                             *)
FinInv ==
  end_seq = 0 => /\ current_seqno <= N /\ N + 1 \notin seqnums
                 /\ Fin(N + 1) \notin toReceiver

(* Whatever the length of the file, the window and the number of packets   *)
(* lost or duplicated, every step keeps these together.                    *)
RtpInv ==
  /\ TypeOK /\ HandshakeInv /\ ConnectionInv /\ FinInv
  /\ InOrder /\ SenderBelief /\ DoneMeansDelivered /\ NoOverrun

(* A write is for good: no packet, late or duplicated, and no clean-up     *)
(* makes the receiver start the file anew during a transfer.               *)
NeverTruncated == [][Len(outfile') >= Len(outfile)]_vars

(* The receiver has given up the connection in the middle of the transfer. *)
(* Nothing sets it up again, and the sender repeats its chunk for ever.    *)
Dropped == phase = "sending" /\ ~connected

(* Every transfer ends unless that happens.                                *)
TransferEnds == <>(phase = "done" \/ Dropped)

=============================================================================
