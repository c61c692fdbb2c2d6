---------------------------- MODULE MCJvmtiAgent ----------------------------
(* One update of the application, and up to three agents in a process: two *)
(* that an init which failed afterwards has left, and one more.            *)
EXTENDS JvmtiAgent

MCMaxVersion == 2
MCMaxAgents == 3
=============================================================================
