-------------------------------- MODULE MCAgent --------------------------------
(***************************************************************************)
(* A small instance of Occupant and AgentStart.                            *)
(***************************************************************************)
EXTENDS Occupant

\* A pattern for each command, and the same with a typing error.
TypedPatterns == [meant : {{c} : c \in Commands}, compiles : BOOLEAN]
==============================================================================
