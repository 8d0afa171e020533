------------------------------ MODULE Switch ------------------------------
(***************************************************************************)
(* The stateful part of the switch as the store sees it: the program that  *)
(* run_fw.sh or the overwrite configuration loads decides what an          *)
(* AppendReply, a ReplySwitch and a ReadIndexReq do to the registers. A    *)
(* read is looked up in the same way by both programs.                     *)
(***************************************************************************)
EXTENDS SwitchOverwrite

CONSTANT Program

ASSUME ProgramAssumption == Program \in {"fw", "overwrite"}

Granted(r, m) == IF Program = "fw" THEN FwGranted(r, m) ELSE OwGranted(r, m)
NewIndex(r, m) == IF Program = "fw" THEN FwNewIndex(r, m) ELSE OwNewIndex(r, m)
DeleteIndex(r, m) ==
    IF Program = "fw" THEN FwDeleteIndex(r, m) ELSE OwDeleteIndex(r, m)
Hit(r, m) == FwHit(r, m)
LogId(r, m) == FwLogId(r, m)
=============================================================================
