---------------------------- MODULE MCRecordFile ----------------------------
(***************************************************************************)
(* Small instances of RecordFile.  With blocks of three, the records 1 to 7*)
(* reach into a third block (the first holds 1 and 2 only, as 0 is         *)
(* AppStart, which is not kept).                                           *)
(***************************************************************************)
EXTENDS RecordFile
=============================================================================
