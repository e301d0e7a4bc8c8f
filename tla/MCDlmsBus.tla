----------------------------- MODULE MCDlmsBus -----------------------------
(***************************************************************************)
(* TLC instance of DlmsBus: four polled hubs and two push hubs on three    *)
(* UARTs.  Two polled hubs share bus_1, one polled hub and both push hubs  *)
(* share bus_2 (so one setup() fails), bus_3 has a polled hub of its own.  *)
(***************************************************************************)
EXTENDS DlmsBus

CONSTANTS h1, h2, h3, h4, p1, p2, bus_1, bus_2, bus_3

MCHubs == {h1, h2, h3, h4, p1, p2}
MCPushHubs == {p1, p2}
MCUarts == {bus_1, bus_2, bus_3}
MCParent == [h \in MCHubs |-> CASE h \in {h1, h2} -> bus_1
                                [] h = h4         -> bus_3
                                [] OTHER          -> bus_2]

=============================================================================
