---------------------------- MODULE MCIRBuilder ----------------------------
(* IRBuilder for TLC: functions of many statements with plain conditions,  *)
(* and functions of few statements with nested && and ||.                  *)
EXTENDS IRBuilder

MCBounds == {<<4, 0>>, <<2, 3>>}
=============================================================================
