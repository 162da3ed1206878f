---------------------------- MODULE MCSupervisor ----------------------------
(* Instances of Supervisor: the whole state space is finite. *)
EXTENDS Supervisor

\* Any file may lie at the public paths before the start, and another server
\* may bind them at any moment.
MC_PublicSockets == {"handler", "control"}
MC_Intruded == {"handler", "control"}

=============================================================================
