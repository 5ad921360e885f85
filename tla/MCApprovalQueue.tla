---------------------------- MODULE MCApprovalQueue ----------------------------
(***************************************************************************)
(* Small instances of ApprovalQueue.  A tick is one poll interval of half  *)
(* a second, so two ticks are a second; a timeout of 1 to 3 s stands for   *)
(* the 300 s of the code and leaves room for two to six polls.             *)
(***************************************************************************)
EXTENDS ApprovalQueue
=============================================================================
