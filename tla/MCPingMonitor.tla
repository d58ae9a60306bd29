--------------------------- MODULE MCPingMonitor ----------------------------
(* PingMonitor for TLC.                                                    *)
EXTENDS PingMonitor

\* Peers that leave their timeout to the global configuration.
GlobalTimeout == [p \in Peers |-> Timeout]
=============================================================================
