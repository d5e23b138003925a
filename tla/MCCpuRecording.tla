--------------------------- MODULE MCCpuRecording ----------------------------
(* CpuRecording for TLC: the application has one Lua and one C function. *)
EXTENDS CpuRecording, TLC

CONSTANTS lua, c1, api

MCLuaFunctions == {lua}
MCCFunctions == {c1, api}

\* The more ticks, the shallower the stack; and the first recording has most of both.
FewAtOnce == Len(stack) + ticks <= IF made > 1 THEN 1 ELSE 4
==============================================================================
