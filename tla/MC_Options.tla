----------------------------- MODULE MC_Options -----------------------------
(***************************************************************************)
(* Every option of every wrapper, read three times in every build; all but *)
(* that of disna, whose char2jobcond is not right.                         *)
(***************************************************************************)
EXTENDS Options

EveryBuild == [errors : {"throw", "assert", "ignore"}, ndebug : BOOLEAN]
AllButJobCond == DOMAIN Enums \ {"jobcond"}
=============================================================================
