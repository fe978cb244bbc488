--------------------------- MODULE MCAgentWrites ---------------------------
(* AgentWrites on a small instance: two tool calls, a shot of two fields.  *)
EXTENDS AgentWrites, TLC

CONSTANTS one, two

SlotSymmetry == Permutations(Slots)

=============================================================================
