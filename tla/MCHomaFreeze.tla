---------------------------- MODULE MCHomaFreeze ----------------------------
(* Two cores, so that two matching anomalies can race through homa_freeze; *)
(* three peers, so that a broadcast has a failing send with sends after   *)
(* it; two freeze types, so that a mismatching anomaly exists.            *)
EXTENDS HomaFreeze

CONSTANTS c1, c2, p1, p2, p3

MCCores == {c1, c2}
MCPeers == {p1, p2, p3}
MCFreezeTypes == {1, 2}
MCMaxArms == 2
=============================================================================
