----------------------------- MODULE MCSession -----------------------------
(* Session on small instances: the callers, and which methods they use.     *)
EXTENDS Session, TLC

CONSTANTS view, other, third

\* The in-place drivers, as the host uses them: with the desktop driver every
\* statement and every fingerprint is a call that others may overtake.
InPlaceCalls == {"write", "check", "close"}

\* A working copy saved by exporting it, with views that write to it directly.
CopyCalls == CallNames \ {"check"}

CallerSymmetry == Permutations(Callers)

=============================================================================
