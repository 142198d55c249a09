--------------------------- MODULE HomaPrintPacket ---------------------------
(***************************************************************************)
(* homa_print_packet and homa_print_packet_short (src/homa_utils.c), which *)
(* describe a packet in a caller's buffer of buf_len bytes by a series of  *)
(* homa_snprintf calls, each appending one piece of text.                  *)
(*                                                                         *)
(* Text is abstracted to lengths: each piece asks for some number of       *)
(* characters (a choice from PieceLens), and the model follows what        *)
(* homa_snprintf makes of that request.  A packet is abstracted to the     *)
(* header fields the control flow reads: its type, gso_segs, the           *)
(* homa_skb_info seg_length and data_bytes, homa_data_len and num_acks.    *)
(***************************************************************************)
EXTENDS Integers, Sequences

CONSTANTS
    BufLen,     \* buf_len
    PieceLens,  \* lengths a formatted piece may ask for
    Packets,    \* the packets considered, as records (see PacketFields)
    Variants,   \* which printers are run: "full", "short"
    MaxAcks     \* HOMA_MAX_ACKS_PER_PKT, the size of ack_header.acks

Types == {"DATA", "GRANT", "RESEND", "UNKNOWN", "BUSY", "CUTOFFS", "FREEZE",
          "NEED_ACK", "ACK", "bogus"}

PacketFields == [null : BOOLEAN, type : Types, gso : Nat, sl : Nat, db : Nat,
                 dl : Nat, acks : Nat]

ASSUME PrintPacketAssumption ==
    /\ BufLen \in Nat \ {0}
    /\ PieceLens \subseteq Nat
    /\ Packets \subseteq PacketFields
    /\ Variants \subseteq {"full", "short"}
    /\ MaxAcks \in Nat

VARIABLES
    fn,      \* the printer running
    pkt,     \* the packet it describes
    pc,      \* where it is
    used,    \* the local used: characters in the buffer
    wanted,  \* characters the pieces asked for so far
    seg,     \* the local seg_length
    left,    \* the local data_left
    i,       \* the loop variable of the segment or ack loop
    segs,    \* the data lengths printed so far for a DATA packet
    acked    \* the indexes of h->acks that were read

vars == <<fn, pkt, pc, used, wanted, seg, left, i, segs, acked>>

Lesser(a, b) == IF a < b THEN a ELSE b

-----------------------------------------------------------------------------
(* Seeded fault: a piece that does not fit returns size, counting the      *)
(* terminating null as text.                                               *)
HomaSnprintfNoRoomForNul(u, n) ==
    CASE u >= BufLen - 1 -> u
      [] n >= BufLen - u -> BufLen
      [] OTHER           -> u + n

(* homa_snprintf, lines 625-641: the new value of used after appending a   *)
(* piece of n characters (the kernel vsnprintf returns n, never < 0).      *)
HomaSnprintf(u, n) ==
    CASE u >= BufLen - 1 -> u
      [] n >= BufLen - u -> BufLen - 1
      [] OTHER           -> u + n

\* One homa_snprintf call of some piece, then control moves to "to".
Emit(to) ==
    /\ \E n \in PieceLens : /\ used' = HomaSnprintf(used, n)
                            /\ wanted' = wanted + n
    /\ pc' = to

\* A plain snprintf at the start of the buffer, as the short form and the
\* NULL path do; the bytes it writes are bounded by buf_len.
EmitPlain(to) ==
    /\ \E n \in PieceLens : /\ used' = Lesser(n, BufLen - 1)
                            /\ wanted' = n
    /\ pc' = to

(* homa_print_packet_short has no NULL check: line 485 reads the header   *)
(* through skb at once.  Its callers pass a packet, so only the full      *)
(* printer is given a NULL skb.                                            *)
Init ==
    /\ fn \in Variants
    /\ pkt \in {p \in Packets : fn = "short" => ~p.null}
    /\ pc = "start"
    /\ used = 0
    /\ wanted = 0
    /\ seg = 0
    /\ left = 0
    /\ i = 0
    /\ segs = <<>>
    /\ acked = {}

-----------------------------------------------------------------------------
(* homa_print_packet, lines 334-338: a NULL skb is reported and returned.  *)
NullSkb ==
    /\ fn = "full" /\ pc = "start" /\ pkt.null
    /\ EmitPlain("done")
    /\ UNCHANGED <<fn, pkt, seg, left, i, segs, acked>>

(* Lines 340-349: the common header line, then the switch on the type.     *)
(* A type with no case of its own adds nothing.                            *)
Header ==
    /\ fn = "full" /\ pc = "start" /\ ~pkt.null
    /\ Emit(CASE pkt.type = "DATA" -> "data"
               [] pkt.type \in {"GRANT", "RESEND", "CUTOFFS"} -> "field"
               [] pkt.type = "ACK" -> "acks"
               [] OTHER -> "end")
    /\ UNCHANGED <<fn, pkt, seg, left, i, segs, acked>>

(* Seeded fault: seg_length is not clamped to data_bytes.                  *)
DataLineNoClamp ==
    /\ fn = "full" /\ pc = "data"
    /\ LET s == IF pkt.gso = 0 THEN pkt.dl ELSE pkt.sl
       IN /\ seg' = s
          /\ left' = IF pkt.gso = 0 THEN 0 ELSE pkt.db - s
          /\ segs' = <<s>>
    /\ Emit("cutoff")
    /\ UNCHANGED <<fn, pkt, i, acked>>

(* Lines 351-370: seg_length and data_left from the skb info, seg_length   *)
(* clamped to data_bytes; the message_length / offset / data_length line.  *)
DataLine ==
    /\ fn = "full" /\ pc = "data"
    /\ LET s == IF pkt.gso = 0 THEN pkt.dl ELSE Lesser(pkt.sl, pkt.db)
       IN /\ seg' = s
          /\ left' = IF pkt.gso = 0 THEN 0 ELSE pkt.db - s
          /\ segs' = <<s>>
    /\ Emit("cutoff")
    /\ UNCHANGED <<fn, pkt, i, acked>>

(* Lines 371-380: three optional pieces, each printed when its header      *)
(* field (cutoff_version, retransmit, gso_type) asks for it.               *)
DataOption ==
    /\ fn = "full"
    /\ pc \in {"cutoff", "retransmit", "tso"}
    /\ LET to == CASE pc = "cutoff" -> "retransmit"
                   [] pc = "retransmit" -> "tso"
                   [] OTHER -> "gso"
       IN \/ Emit(to)
          \/ pc' = to /\ UNCHANGED <<used, wanted>>
    /\ UNCHANGED <<fn, pkt, seg, left, i, segs, acked>>

(* Lines 381-384: one segment needs no list; otherwise ", extra segs" and  *)
(* the loop from gso_segs-1 down.                                          *)
ExtraSegs ==
    /\ fn = "full" /\ pc = "gso"
    /\ \/ pkt.gso <= 1 /\ pc' = "end" /\ UNCHANGED <<used, wanted, i>>
       \/ pkt.gso > 1 /\ Emit("loop") /\ i' = pkt.gso - 1
    /\ UNCHANGED <<fn, pkt, seg, left, segs, acked>>

(* One iteration of the extra-segment loop, the same in both printers      *)
(* (lines 385-399 and 507-521): the last segment is cut to the data left.  *)
(* The offset printed with it is not modelled.                             *)
SegStep ==
    /\ pc = "loop" /\ i > 0
    /\ LET s == Lesser(seg, left)
       IN /\ seg' = s
          /\ left' = left - s
          /\ segs' = Append(segs, s)
    /\ i' = i - 1
    /\ Emit("loop")
    /\ UNCHANGED <<fn, pkt, acked>>

LoopDone ==
    /\ pc = "loop" /\ i <= 0
    /\ pc' = IF fn = "full" THEN "end" ELSE "done"
    /\ UNCHANGED <<fn, pkt, used, wanted, seg, left, i, segs, acked>>

(* Lines 403-448: GRANT, RESEND and CUTOFFS add one line of fields.        *)
Field ==
    /\ fn = "full" /\ pc = "field"
    /\ Emit("end")
    /\ UNCHANGED <<fn, pkt, seg, left, i, segs, acked>>

(* Lines 449-463: ", acks", then one entry per ack the header counts,      *)
(* read from h->acks[i] for i below num_acks.                              *)
AckHead ==
    /\ fn = "full" /\ pc = "acks"
    /\ Emit("ackloop")
    /\ i' = 0
    /\ UNCHANGED <<fn, pkt, seg, left, segs, acked>>

AckStep ==
    /\ pc = "ackloop"
    /\ \/ /\ i < pkt.acks
          /\ acked' = acked \cup {i}
          /\ i' = i + 1
          /\ Emit("ackloop")
       \/ /\ i >= pkt.acks
          /\ pc' = "end"
          /\ UNCHANGED <<used, wanted, i, acked>>
    /\ UNCHANGED <<fn, pkt, seg, left, segs>>

(* Lines 464-468: buffer[buf_len-1] = 0 and return.                         *)
Terminate ==
    /\ pc = "end"
    /\ pc' = "done"
    /\ UNCHANGED <<fn, pkt, used, wanted, seg, left, i, segs, acked>>

-----------------------------------------------------------------------------
(* homa_print_packet_short, lines 486-505: seg_length is taken from the    *)
(* skb info as it is, and the first segment starts the buffer.             *)
ShortData ==
    /\ fn = "short" /\ pc = "start" /\ pkt.type = "DATA"
    /\ LET s == IF pkt.gso = 0 THEN pkt.dl ELSE pkt.sl
       IN /\ seg' = s
          /\ left' = IF pkt.gso = 0 THEN 0 ELSE pkt.db - s
          /\ segs' = <<s>>
    /\ i' = pkt.gso - 1
    /\ EmitPlain("loop")
    /\ UNCHANGED <<fn, pkt, acked>>

(* Lines 524-563: every other type is one snprintf of a fixed form.        *)
ShortOther ==
    /\ fn = "short" /\ pc = "start" /\ pkt.type # "DATA"
    /\ EmitPlain("done")
    /\ UNCHANGED <<fn, pkt, seg, left, i, segs, acked>>

Next ==
    \/ NullSkb \/ Header \/ DataLine \/ DataOption \/ ExtraSegs
    \/ SegStep \/ LoopDone \/ Field \/ AckHead \/ AckStep \/ Terminate
    \/ ShortData \/ ShortOther

\* A printer is a plain function call: it returns, and then nothing happens.
Spec == Init /\ [][Next]_vars

-----------------------------------------------------------------------------
(* homa_snprintf's contract (its comment): used is the number of           *)
(* characters in the buffer, which is what the pieces asked for until the *)
(* buffer fills, and then buf_len-1, leaving room for the terminating     *)
(* null, whatever the number and lengths of the pieces appended.           *)
UsedIsTextLength ==
    used = Lesser(wanted, BufLen - 1)

\* The lengths in s add up to t and none is negative: the running totals
\* ps climb from 0 to t by the elements of s, so they stay within 0 .. t.
AddsUpTo(s, t) ==
    /\ \A k \in DOMAIN s : s[k] >= 0
    /\ \E ps \in [0 .. Len(s) -> 0 .. t] :
          /\ ps[0] = 0
          /\ ps[Len(s)] = t
          /\ \A k \in 1 .. Len(s) : ps[k] = ps[k - 1] + s[k]

(* The data lengths homa_print_packet lists for a DATA packet add up to   *)
(* the bytes the skb carries (data_bytes), none of them negative: the      *)
(* description tells the reader exactly which bytes are in the packet.    *)
(* The short form is exempt: it prints seg_length unclamped (line 497).    *)
SegmentsCoverData ==
    (fn = "full" /\ pc = "done" /\ pkt.type = "DATA" /\ pkt.gso >= 1) =>
        AddsUpTo(segs, pkt.db)

(* The ack loop reads only entries of the header's acks array: a           *)
(* num_acks field taken from the wire is never trusted beyond it.          *)
AckReadsInBounds ==
    \A k \in acked : k < MaxAcks

=============================================================================
