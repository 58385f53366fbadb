---------------------------- MODULE MCSoxEvents ----------------------------
(* Sequences for the constants of SoxEvents, which a cfg cannot write.     *)
EXTENDS SoxEvents

TreeOnly == <<"tree">>
TreeRuntime == <<"tree", "runtime">>
=============================================================================
