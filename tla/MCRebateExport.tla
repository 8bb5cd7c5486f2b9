--------------------------- MODULE MCRebateExport ---------------------------
(***************************************************************************)
(* RebateExport for TLC.                                                   *)
(***************************************************************************)
EXTENDS RebateExport, TLC

CONSTANTS r1, r2, master, web

MCRebates == {r1, r2}
MCTwoExporters == {master, web}
=============================================================================
