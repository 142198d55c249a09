------------------------- MODULE MCHomaPrintBuffers -------------------------
(* The ring of homa_print_ipv6_addr has four buffers.  One caller holds at *)
(* most four results (the use the comment provides for); two cores are     *)
(* enough for every race on next_buf.                                      *)
EXTENDS HomaPrintBuffers

CONSTANTS c1, c2

MCOneCore == {c1}
MCTwoCores == {c1, c2}
MCNumBufs == 4
MCMaxHeld == 4
MCMaxHeldTwo == 2
MCAllBuilds == {"merged", "split"}
MCMergedBuild == {"merged"}
MCSplitBuild == {"split"}
=============================================================================
