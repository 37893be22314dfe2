---------------------------- MODULE MCConnector ----------------------------
(***************************************************************************)
(* Connector for model checking: two commands, whose clusters offer the    *)
(* same port, as all clusters with the default ports do.                   *)
(***************************************************************************)
EXTENDS Connector

MCPort == [c \in Conns |-> "4002"]

=============================================================================
