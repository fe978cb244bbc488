----------------------------- MODULE MCMcpRelay -----------------------------
(* Instances of McpRelay for TLC.                                          *)
EXTENDS McpRelay

CONSTANTS f1, f2, r1, r2   \* films and roots

Says(op, film, root) == [op |-> op, film |-> film, root |-> root]

(* One film is opened as app.db says, the other with a root, which may be  *)
(* set to another.                                                         *)
FewLines == {Says("init", None, None), Says("open", f1, None),
             Says("open", f2, r1), Says("set_root", None, r2)}

EveryLine == Line
=============================================================================
