------------------------ MODULE MCTransactionImport ------------------------
(* Instances of TransactionImport for TLC.                                 *)
EXTENDS TransactionImport, TLC

CONSTANTS i1, i2, i3

MCImports == {i1, i2, i3}
MCUploads == {i3}
MCVersions == {"v1", "v2"}
MCMalformed == {"v2"}
=============================================================================
