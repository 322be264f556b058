------------------------- MODULE MC_RouteController -------------------------
(* Small instance of RouteController for TLC: two hosts, so that a host edit *)
(* can make the cached Route, the order and the certificate disagree.        *)
EXTENDS RouteController

MC_Hosts == {"www.example.com", "shop.example.com"}
MC_InitHost == "www.example.com"
MC_NoHost == ""

\* outcome records what the last handler run returned and is read only by
\* properties; states that differ only in it have the same futures.
MC_View == <<route, cache, synced, queued, requeues, strayItem, ca, nextOrder, overdue,
             certPhase, expRoute, expRS, expSvc, edits>>
=============================================================================
