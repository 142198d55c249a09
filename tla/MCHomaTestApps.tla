---------------------------- MODULE MCHomaTestApps ----------------------------
(* Two client sockets and a two-slot contexts[], so that a server taking   *)
(* three clients stores past its end; up to two failures or signals, so    *)
(* that a failure can follow a SIGINT or an earlier failure.               *)
EXTENDS HomaTestApps

MCNumSockets == 2
MCMaxEvents == 2
MCMaxConns == 3
MCMaxFaults == 2

\* All four programs and every kind of failure, the TCP peer's end of
\* stream included.
MCPrograms == ClientPrograms \cup ServerPrograms
MCFaults == FaultKinds

\* The TCP client whose server is not listening: connect fails.
MCTcpClient == {"tcp_client"}
MCSetupFaults == {"setup"}
MCOneFault == 1
=============================================================================
