------------------------ MODULE HomaPrintPacketProofs ------------------------
(***************************************************************************)
(* Proofs about homa_print_packet and homa_print_packet_short (module      *)
(* HomaPrintPacket), for every buffer length, every set of piece lengths   *)
(* and every packet.                                                       *)
(***************************************************************************)
EXTENDS HomaPrintPacket, TLAPS

(* The DATA packets Homa builds: gso_segs counts the seg_length pieces    *)
(* needed to carry data_bytes, so gso_segs * seg_length reaches it; and a  *)
(* NULL skb has no header to be a DATA packet.                              *)
GsoPackets ==
    \A p \in Packets : p.type = "DATA" /\ p.gso >= 1 =>
                        ~p.null /\ p.db <= p.gso * p.sl

(* What the proofs need of the variables.                                  *)
PTypeOK ==
    /\ pkt \in Packets
    /\ used \in Nat
    /\ wanted \in Nat
    /\ i \in Int
    /\ acked \subseteq Int

(* The inductive invariant: the text length is what homa_snprintf's        *)
(* contract says, and every ack read so far is below the header's count.   *)
TInv ==
    /\ PTypeOK
    /\ UsedIsTextLength
    /\ \A k \in acked : k < pkt.acks

(* The full printer describing a GSO DATA packet, the case               *)
(* SegmentsCoverData is about.                                              *)
GsoData == fn = "full" /\ pkt.type = "DATA" /\ pkt.gso >= 1

(* How many segments the printer has still to list after this one.         *)
Remaining ==
    IF pc = "loop" THEN i ELSE IF pc \in {"end", "done"} THEN 0 ELSE pkt.gso - 1

(* The variables the segment list is built from.                          *)
STypeOK ==
    /\ pkt \in Packets /\ fn \in {"full", "short"}
    /\ seg \in Int /\ left \in Int /\ i \in Int /\ segs \in Seq(Int)

(* Before line 351 nothing is listed.                                      *)
SegsPending == pc \in {"start", "data"} /\ segs = << >>

(* From line 351 on, the lengths listed so far add up to the bytes already *)
(* accounted for (data_bytes - data_left), and the data left fits in the   *)
(* segments still to come, each of at most seg_length.                     *)
SegsListed ==
    /\ pc \in {"cutoff", "retransmit", "tso", "gso", "loop", "end", "done"}
    /\ seg >= 0 /\ left >= 0 /\ Remaining >= 0
    /\ left <= Remaining * seg
    /\ AddsUpTo(segs, pkt.db - left)

(* The segment invariant.                                                  *)
SInv == STypeOK /\ (GsoData => SegsPending \/ SegsListed)

-----------------------------------------------------------------------------
(* One homa_snprintf call keeps used equal to the characters asked for,    *)
(* cut at buf_len-1: a full buffer stays full, a piece that does not fit   *)
(* fills it, and one that fits is appended whole.                          *)
LEMMA SnprintfKeepsLength ==
    ASSUME NEW u \in Nat, NEW w \in Nat, NEW n \in Nat,
           u = Lesser(w, BufLen - 1)
    PROVE  /\ HomaSnprintf(u, n) = Lesser(w + n, BufLen - 1)
           /\ HomaSnprintf(u, n) \in Nat
<1> USE PrintPacketAssumption
<1>1. CASE u >= BufLen - 1
  BY <1>1 DEF HomaSnprintf, Lesser
<1>2. CASE u < BufLen - 1 /\ n >= BufLen - u
  BY <1>2 DEF HomaSnprintf, Lesser
<1>3. CASE u < BufLen - 1 /\ n < BufLen - u
  BY <1>3 DEF HomaSnprintf, Lesser
<1>4. QED
  BY <1>1, <1>2, <1>3

(* A step that appends one piece keeps the invariant's text conjuncts.     *)
LEMMA EmitKeeps ==
    ASSUME NEW to, TInv, Emit(to)
    PROVE  used' \in Nat /\ wanted' \in Nat /\ UsedIsTextLength'
<1>1. PICK n \in PieceLens : used' = HomaSnprintf(used, n) /\ wanted' = wanted + n
  BY DEF Emit
<1>2. n \in Nat
  BY PrintPacketAssumption
<1>3. QED
  BY <1>1, <1>2, SnprintfKeepsLength DEF TInv, PTypeOK, UsedIsTextLength

(* So does a plain snprintf at the start of the buffer.                    *)
LEMMA EmitPlainKeeps ==
    ASSUME NEW to, EmitPlain(to)
    PROVE  used' \in Nat /\ wanted' \in Nat /\ UsedIsTextLength'
<1>1. PICK n \in PieceLens : used' = Lesser(n, BufLen - 1) /\ wanted' = n
  BY DEF EmitPlain
<1>2. n \in Nat
  BY PrintPacketAssumption
<1>3. QED
  BY <1>1, <1>2, PrintPacketAssumption DEF UsedIsTextLength, Lesser

(* A packet taken from Packets has the field types of PacketFields.        *)
LEMMA PacketTypes ==
    ASSUME NEW p \in Packets
    PROVE  /\ p.gso \in Nat /\ p.acks \in Nat /\ p.sl \in Nat /\ p.db \in Nat
           /\ p.dl \in Nat /\ p.type \in Types /\ p.null \in BOOLEAN
BY PrintPacketAssumption DEF PacketFields

(* A single length x adds up to x.                                         *)
LEMMA AddsUpToOne ==
    ASSUME NEW x \in Nat
    PROVE  AddsUpTo(<< x >>, x)
<1> DEFINE ps == [k \in 0 .. 1 |-> IF k = 0 THEN 0 ELSE x]
<1>1. Len(<< x >>) = 1 /\ << x >>[1] = x /\ DOMAIN << x >> = 1 .. 1
  OBVIOUS
<1> SUFFICES \E q \in [0 .. Len(<< x >>) -> 0 .. x] :
               /\ q[0] = 0
               /\ q[Len(<< x >>)] = x
               /\ \A k \in 1 .. Len(<< x >>) : q[k] = q[k - 1] + << x >>[k]
  BY <1>1 DEF AddsUpTo
<1> WITNESS ps \in [0 .. Len(<< x >>) -> 0 .. x]
<1> QED
  BY <1>1

(* Appending a length x to lengths that add up to t gives t + x.  The      *)
(* running totals are extended by one, t + x.                              *)
LEMMA AddsUpToAppend ==
    ASSUME NEW s \in Seq(Int), NEW t \in Int, NEW x \in Nat, AddsUpTo(s, t)
    PROVE  AddsUpTo(Append(s, x), t + x)
<1> DEFINE n == Len(s)
           s2 == Append(s, x)
<1>1. PICK ps \in [0 .. n -> 0 .. t] :
        /\ ps[0] = 0
        /\ ps[n] = t
        /\ \A k \in 1 .. n : ps[k] = ps[k - 1] + s[k]
  BY DEF AddsUpTo
<1>2. /\ n \in Nat /\ Len(s2) = n + 1 /\ DOMAIN s2 = 1 .. n + 1
      /\ s2[n + 1] = x /\ \A k \in 1 .. n : s2[k] = s[k]
  OBVIOUS
<1>3. \A k \in DOMAIN s2 : s2[k] >= 0
  BY <1>2 DEF AddsUpTo
<1> DEFINE ps2 == [k \in 0 .. n + 1 |-> IF k <= n THEN ps[k] ELSE t + x]
<1>4. ps2 \in [0 .. Len(s2) -> 0 .. t + x]
  BY <1>1, <1>2
<1>5. ps2[0] = 0 /\ ps2[Len(s2)] = t + x
  BY <1>1, <1>2
<1>6. \A k \in 1 .. Len(s2) : ps2[k] = ps2[k - 1] + s2[k]
  BY <1>1, <1>2
<1> SUFFICES \E q \in [0 .. Len(s2) -> 0 .. t + x] :
               /\ q[0] = 0
               /\ q[Len(s2)] = t + x
               /\ \A k \in 1 .. Len(s2) : q[k] = q[k - 1] + s2[k]
  BY <1>3 DEF AddsUpTo
<1> WITNESS ps2 \in [0 .. Len(s2) -> 0 .. t + x]
<1> QED
  BY <1>4, <1>5, <1>6

(* The printers start with an empty buffer and nothing read.              *)
LEMMA TInvInit == Init => TInv
BY PrintPacketAssumption DEF Init, TInv, PTypeOK, UsedIsTextLength, Lesser

(* Every step keeps TInv.                                                  *)
LEMMA TInvStep == TInv /\ [Next]_vars => TInv'
<1> SUFFICES ASSUME TInv, [Next]_vars PROVE TInv'
  OBVIOUS
<1>0. pkt \in Packets /\ pkt.gso \in Nat /\ pkt.acks \in Nat /\ i \in Int
  BY PacketTypes DEF TInv, PTypeOK
\* The steps that append one piece and leave i and acked alone.
<1>1. CASE Header \/ DataLine \/ Field
  <2>1. PICK to : Emit(to)
    BY <1>1 DEF Header, DataLine, Field
  <2>2. QED
    BY <1>0, <1>1, <2>1, EmitKeeps DEF Header, DataLine, Field, TInv, PTypeOK
<1>2. CASE NullSkb \/ ShortOther
  <2>1. PICK to : EmitPlain(to)
    BY <1>2 DEF NullSkb, ShortOther
  <2>2. QED
    BY <1>0, <1>2, <2>1, EmitPlainKeeps DEF NullSkb, ShortOther, TInv, PTypeOK
<1>3. CASE ShortData
  <2>1. PICK to : EmitPlain(to)
    BY <1>3 DEF ShortData
  <2>2. QED
    BY <1>0, <1>3, <2>1, EmitPlainKeeps DEF ShortData, TInv, PTypeOK
<1>4. CASE DataOption
  <2>1. CASE \E to : Emit(to)
    BY <1>0, <1>4, <2>1, EmitKeeps DEF DataOption, TInv, PTypeOK
  <2>2. CASE ~\E to : Emit(to)
    BY <1>0, <1>4, <2>2 DEF DataOption, TInv, PTypeOK, UsedIsTextLength
  <2>3. QED
    BY <2>1, <2>2
<1>5. CASE ExtraSegs
  <2>1. CASE pkt.gso <= 1
    BY <1>0, <1>5, <2>1 DEF ExtraSegs, TInv, PTypeOK, UsedIsTextLength
  <2>2. CASE pkt.gso > 1
    <3>1. PICK to : Emit(to)
      BY <1>0, <1>5, <2>2 DEF ExtraSegs
    <3>2. QED
      BY <1>0, <1>5, <2>2, <3>1, EmitKeeps DEF ExtraSegs, TInv, PTypeOK
  <2>3. QED
    BY <1>0, <2>1, <2>2
<1>6. CASE SegStep
  <2>1. PICK to : Emit(to)
    BY <1>6 DEF SegStep
  <2>2. i' = i - 1 /\ acked' = acked /\ pkt' = pkt
    BY <1>6 DEF SegStep
  <2>3. QED
    BY <1>0, <2>1, <2>2, EmitKeeps DEF TInv, PTypeOK
<1>11. CASE AckHead
  <2>1. PICK to : Emit(to)
    BY <1>11 DEF AckHead
  <2>2. i' = 0 /\ acked' = acked /\ pkt' = pkt
    BY <1>11 DEF AckHead
  <2>3. QED
    BY <1>0, <2>1, <2>2, EmitKeeps DEF TInv, PTypeOK
<1>7. CASE AckStep
  <2>1. CASE i < pkt.acks
    <3>1. PICK to : Emit(to)
      BY <1>0, <1>7, <2>1 DEF AckStep
    <3>2. acked' = acked \cup {i} /\ i' = i + 1 /\ pkt' = pkt
      BY <1>0, <1>7, <2>1 DEF AckStep
    <3>3. QED
      BY <1>0, <2>1, <3>1, <3>2, EmitKeeps DEF TInv, PTypeOK
  <2>2. CASE i >= pkt.acks
    <3>1. UNCHANGED <<used, wanted, i, acked, pkt>>
      BY <1>0, <1>7, <2>2 DEF AckStep
    <3>2. QED
      BY <1>0, <3>1 DEF TInv, PTypeOK, UsedIsTextLength
  <2>3. QED
    BY <1>0, <2>1, <2>2
<1>8. CASE LoopDone \/ Terminate
  BY <1>0, <1>8 DEF LoopDone, Terminate, TInv, PTypeOK, UsedIsTextLength
<1>9. CASE UNCHANGED vars
  BY <1>0, <1>9 DEF vars, TInv, PTypeOK, UsedIsTextLength
<1>10. QED
  BY <1>1, <1>2, <1>3, <1>4, <1>5, <1>6, <1>7, <1>8, <1>9, <1>11 DEF Next

(* The printers start with nothing listed.                                *)
LEMMA SInvInit == Init => SInv
BY PrintPacketAssumption DEF Init, SInv, STypeOK, SegsPending

(* Every step keeps SInv, for the DATA packets Homa builds.                *)
LEMMA SInvStep ==
    ASSUME GsoPackets
    PROVE  SInv /\ [Next]_vars => SInv'
<1> SUFFICES ASSUME SInv, [Next]_vars PROVE SInv'
  OBVIOUS
<1>0. /\ pkt \in Packets /\ pkt.gso \in Nat /\ pkt.sl \in Nat /\ pkt.db \in Nat
      /\ pkt.dl \in Nat
  BY PacketTypes DEF SInv, STypeOK
<1>1. pkt' = pkt /\ fn' = fn
  BY DEF Next, vars, NullSkb, Header, DataLine, DataOption, ExtraSegs, SegStep,
         LoopDone, Field, AckHead, AckStep, Terminate, ShortData, ShortOther
<1>2. STypeOK'
  <2>1. seg \in Int /\ left \in Int /\ i \in Int /\ segs \in Seq(Int)
    BY DEF SInv, STypeOK
  <2>2. CASE NullSkb \/ Header \/ DataOption \/ ExtraSegs \/ LoopDone \/ Field
             \/ AckHead \/ AckStep \/ Terminate \/ ShortOther
    <3>1. /\ seg' = seg /\ left' = left /\ segs' = segs
          /\ i' \in {i, 0, pkt.gso - 1, i + 1}
      BY <2>2 DEF NullSkb, Header, DataOption, ExtraSegs, LoopDone, Field,
                  AckHead, AckStep, Terminate, ShortOther
    <3>2. QED
      BY <1>0, <1>1, <2>1, <3>1 DEF SInv, STypeOK
  <2>3. CASE DataLine \/ ShortData
    <3>1. \E sv \in Nat :
            /\ seg' = sv /\ segs' = << sv >>
            /\ left' \in {0, pkt.db - sv} /\ i' \in {i, pkt.gso - 1}
      BY <1>0, <2>3 DEF DataLine, ShortData, Lesser
    <3>2. QED
      BY <1>0, <1>1, <2>1, <3>1 DEF SInv, STypeOK
  <2>4. CASE SegStep
    <3>1. /\ seg' = Lesser(seg, left) /\ left' = left - Lesser(seg, left)
          /\ segs' = Append(segs, Lesser(seg, left)) /\ i' = i - 1
      BY <2>4 DEF SegStep
    <3>2. QED
      BY <1>1, <2>1, <3>1 DEF SInv, STypeOK, Lesser
  <2>5. CASE UNCHANGED vars
    BY <2>5 DEF vars, SInv, STypeOK
  <2>6. QED
    BY <2>2, <2>3, <2>4, <2>5 DEF Next
<1> SUFFICES ASSUME GsoData PROVE SegsPending' \/ SegsListed'
  BY <1>1, <1>2 DEF SInv, GsoData
<1>3. ~pkt.null /\ pkt.db <= pkt.gso * pkt.sl /\ pkt.gso >= 1 /\ fn = "full"
  BY DEF GsoPackets, SInv, STypeOK, GsoData
<1>4. SegsPending \/ SegsListed
  BY DEF SInv
<1>5. CASE Header
  <2>1. pc = "start" /\ pc' = "data" /\ segs' = segs
    BY <1>5, <1>3 DEF Header, Emit, GsoData
  <2>2. QED
    BY <2>1, <1>4 DEF SegsPending, SegsListed
<1>6. CASE DataLine
  <2> DEFINE sv == Lesser(pkt.sl, pkt.db)
  <2>1. /\ seg' = sv /\ left' = pkt.db - sv /\ segs' = << sv >>
        /\ pc' = "cutoff"
    BY <1>6, <1>3 DEF DataLine, Emit
  <2>2. sv \in Nat /\ pkt.db - sv >= 0 /\ pkt.db - sv <= (pkt.gso - 1) * sv
    BY <1>0, <1>3 DEF Lesser
  <2>3. AddsUpTo(segs', pkt'.db - left')
    BY <1>0, <1>1, <2>1, <2>2, AddsUpToOne
  <2>4. pc' = "cutoff" /\ Remaining' = pkt.gso - 1
    BY <1>1, <2>1 DEF Remaining
  <2>5. left' <= Remaining' * seg' /\ seg' >= 0 /\ left' >= 0 /\ Remaining' >= 0
    BY <1>0, <1>3, <2>1, <2>2, <2>4
  <2>6. QED
    BY <2>1, <2>3, <2>5 DEF SegsListed
<1>7. CASE DataOption
  <2>1. pc \in {"cutoff", "retransmit", "tso"} /\ pc' \in {"retransmit", "tso", "gso"}
        /\ UNCHANGED <<seg, left, i, segs>>
    BY <1>7 DEF DataOption, Emit
  <2>2. QED
    BY <1>1, <1>4, <2>1 DEF SegsPending, SegsListed, Remaining
<1>8. CASE ExtraSegs
  <2>1. pc = "gso" /\ UNCHANGED <<seg, left, segs>>
    BY <1>8 DEF ExtraSegs
  <2>2. SegsListed
    BY <1>4, <2>1 DEF SegsPending
  <2>3. CASE pkt.gso <= 1
    <3>1. pc' = "end" /\ pkt.gso = 1
      BY <1>0, <1>8, <2>3, <1>3 DEF ExtraSegs
    <3>2. left <= 0 * seg
      BY <2>1, <2>2, <3>1 DEF SegsListed, Remaining
    <3>3. QED
      BY <1>1, <2>1, <2>2, <3>1, <3>2 DEF SegsListed, Remaining, SInv, STypeOK
  <2>4. CASE pkt.gso > 1
    <3>1. pc' = "loop" /\ i' = pkt.gso - 1
      BY <1>0, <1>8, <2>4 DEF ExtraSegs, Emit
    <3>2. QED
      BY <1>1, <2>1, <2>2, <3>1 DEF SegsListed, Remaining
  <2>5. QED
    BY <2>3, <2>4, <1>0
<1>9. CASE SegStep
  <2> DEFINE sv == Lesser(seg, left)
  <2>1. /\ pc = "loop" /\ i > 0 /\ pc' = "loop" /\ i' = i - 1
        /\ seg' = sv /\ left' = left - sv /\ segs' = Append(segs, sv)
    BY <1>9 DEF SegStep, Emit
  <2>2. SegsListed /\ left <= i * seg /\ seg >= 0 /\ left >= 0
    BY <1>4, <2>1 DEF SegsPending, SegsListed, Remaining
  <2>3. /\ seg \in Int /\ left \in Int /\ i \in Int /\ segs \in Seq(Int)
    BY DEF SInv, STypeOK
  <2>4. sv \in Nat /\ left - sv >= 0 /\ left - sv <= (i - 1) * sv
    BY <2>1, <2>2, <2>3 DEF Lesser
  <2>5. AddsUpTo(Append(segs, sv), (pkt.db - left) + sv)
    BY <1>0, <2>2, <2>3, <2>4, AddsUpToAppend DEF SegsListed
  <2>6. QED
    BY <1>0, <1>1, <2>1, <2>3, <2>4, <2>5 DEF SegsListed, Remaining
<1>10. CASE LoopDone
  <2>1. pc = "loop" /\ i <= 0 /\ pc' = "end" /\ UNCHANGED <<seg, left, i, segs>>
    BY <1>10, <1>3 DEF LoopDone
  <2>2. SegsListed /\ i = 0
    BY <1>4, <2>1 DEF SegsPending, SegsListed, Remaining, SInv, STypeOK
  <2>3. QED
    BY <1>1, <2>1, <2>2 DEF SegsListed, Remaining, SInv, STypeOK
<1>11. CASE Terminate
  <2>1. pc = "end" /\ pc' = "done" /\ UNCHANGED <<seg, left, i, segs>>
    BY <1>11 DEF Terminate
  <2>2. QED
    BY <1>1, <1>4, <2>1 DEF SegsPending, SegsListed, Remaining
<1>12. CASE NullSkb \/ ShortData \/ ShortOther
  BY <1>12, <1>3 DEF NullSkb, ShortData, ShortOther
<1>13. CASE Field \/ AckHead \/ AckStep
  BY <1>13, <1>4 DEF Field, AckHead, AckStep, SegsPending, SegsListed
<1>14. CASE UNCHANGED vars
  BY <1>14, <1>4 DEF vars, SegsPending, SegsListed, Remaining
<1>15. QED
  BY <1>5, <1>6, <1>7, <1>8, <1>9, <1>10, <1>11, <1>12, <1>13, <1>14 DEF Next

-----------------------------------------------------------------------------
(* homa_snprintf's contract holds for every buffer length and every piece  *)
(* lengths, through any number of pieces: used is the text asked for, cut  *)
(* at buf_len-1, so the terminating null always fits.                      *)
THEOREM TextLengthInvariant == Spec => []UsedIsTextLength
<1>1. TInv => UsedIsTextLength
  BY DEF TInv
<1>2. QED
  BY <1>1, TInvInit, TInvStep, PTL DEF Spec

(* For the DATA packets Homa builds, the segment lengths homa_print_packet *)
(* lists (lines 351-399) add up to data_bytes with none negative, for      *)
(* every gso_segs, seg_length and data_bytes: clamping seg_length to       *)
(* data_bytes and cutting each segment to data_left leaves no byte out and *)
(* none counted twice.                                                      *)
THEOREM SegmentsCoverDataInvariant ==
    ASSUME GsoPackets
    PROVE  Spec => []SegmentsCoverData
<1>1. SInv => SegmentsCoverData
  <2> SUFFICES ASSUME SInv, fn = "full", pc = "done", pkt.type = "DATA",
                      pkt.gso >= 1
               PROVE  AddsUpTo(segs, pkt.db)
    BY DEF SegmentsCoverData
  <2>1. SegsListed /\ Remaining = 0
    BY DEF SInv, GsoData, SegsPending, SegsListed, Remaining
  <2>2. seg \in Int /\ left \in Int /\ pkt.db \in Nat
    BY PacketTypes DEF SInv, STypeOK
  <2>3. left = 0
    BY <2>1, <2>2 DEF SegsListed
  <2>4. QED
    BY <2>1, <2>2, <2>3 DEF SegsListed
<1>2. QED
  BY <1>1, SInvInit, SInvStep, PTL DEF Spec

=============================================================================
