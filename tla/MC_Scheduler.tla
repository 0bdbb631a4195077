---------------------------- MODULE MC_Scheduler ----------------------------
EXTENDS Scheduler

(* USER_SHELL_SCRIPT is b"" in this build (proc/mod.rs:16): sys_read     *)
(* returns 0 and the shell task only sleeps.                               *)
MCScript == <<>>
=============================================================================
