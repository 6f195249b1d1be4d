--------------------------- MODULE ChannelService ---------------------------
(* The broker implements the command service: a refinement mapping from       *)
(* ChannelHub to CommandService.                                              *)
EXTENDS ChannelHub

phaseOf ==
    [c \in Cmds |-> IF pc[c] \in {"idle", "done"} THEN pc[c] ELSE "open"]

Service ==
    INSTANCE CommandService WITH phase <- phaseOf, answer <- answer, replied <- replied

(* Every behaviour of the broker, seen from its /command callers, is one the  *)
(* command service allows: one answer per request, a response only of the     *)
(* browser and only to that command, and after "write failed" none at all.    *)
ImplementsCommandService == Service!Spec
=============================================================================
