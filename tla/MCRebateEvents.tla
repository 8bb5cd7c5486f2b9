--------------------------- MODULE MCRebateEvents ---------------------------
(* An instance of RebateEvents for TLC.                                    *)
EXTENDS RebateEvents
=============================================================================
