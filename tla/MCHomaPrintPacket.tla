------------------------- MODULE MCHomaPrintPacket -------------------------
(* A 10-byte buffer and pieces of 2 or 5 characters: a description fills  *)
(* it after a few pieces, so both the fitting and the truncating branch of *)
(* homa_snprintf are taken.  DATA packets are the GSO packets Homa builds: *)
(* gso_segs is the number of seg_length pieces data_bytes needs; ACK       *)
(* packets count up to HOMA_MAX_ACKS_PER_PKT (5) acks.                    *)
EXTENDS HomaPrintPacket

MCBufLen == 10
MCPieceLens == {2, 5}
MCMaxAcks == 5

CeilDiv(a, b) == (a + b - 1) \div b

Other(t, n) == [null |-> FALSE, type |-> t, gso |-> 0, sl |-> 0, db |-> 0,
                dl |-> 0, acks |-> n]

MCDataPackets ==
    {[null |-> FALSE, type |-> "DATA", gso |-> CeilDiv(d, s), sl |-> s, db |-> d,
      dl |-> 0, acks |-> 0] : s \in 2 .. 3, d \in 1 .. 7}
    \cup {[null |-> FALSE, type |-> "DATA", gso |-> 0, sl |-> 0, db |-> 0,
           dl |-> d, acks |-> 0] : d \in 0 .. 2}

\* Well-formed packets of every type, and a NULL skb.
MCPackets ==
    MCDataPackets
    \cup {Other(t, 0) : t \in Types \ {"DATA", "ACK"}}
    \cup {Other("ACK", n) : n \in 0 .. MCMaxAcks}
    \cup {[Other("UNKNOWN", 0) EXCEPT !.null = TRUE]}

\* ACK packets whose num_acks field exceeds the array.
MCBadAckPackets == {Other("ACK", n) : n \in MCMaxAcks + 1 .. MCMaxAcks + 2}

MCBothVariants == {"full", "short"}
MCFull == {"full"}
MCShort == {"short"}
=============================================================================
