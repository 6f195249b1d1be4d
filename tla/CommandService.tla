--------------------------- MODULE CommandService ---------------------------
(* What POST /command of the broker promises its callers, with the socket,    *)
(* the ids, the maps and the goroutines taken away: each request is answered  *)
(* at most once; a response is the browser's, to that very command; and a     *)
(* caller that is told the request was bad or the write failed can be sure    *)
(* that the browser never answers the command.                                *)
EXTENDS Naturals

CONSTANTS Cmds, None

VARIABLES
    phase,      \* of each request: idle, open or done
    answer,     \* what its caller was told
    replied     \* the commands the browser has answered

vars == <<phase, answer, replied>>

Init ==
    /\ phase = [c \in Cmds |-> "idle"]
    /\ answer = [c \in Cmds |-> [status |-> "none", body |-> None]]
    /\ replied = {}

Close(c, from, status, body) ==
    /\ phase[c] = from
    /\ phase' = [phase EXCEPT ![c] = "done"]
    /\ answer' = [answer EXCEPT ![c] = [status |-> status, body |-> body]]
    /\ UNCHANGED replied

Refuse(c) == Close(c, "idle", "bad_request", None)

Accept(c) ==
    /\ phase[c] = "idle"
    /\ phase' = [phase EXCEPT ![c] = "open"]
    /\ UNCHANGED <<answer, replied>>

BrowserAnswers(c) ==
    /\ phase[c] # "idle"
    /\ answer[c].status \notin {"bad_request", "write_failed"}
    /\ replied' = replied \cup {c}
    /\ UNCHANGED <<phase, answer>>

Deliver(c) == c \in replied /\ Close(c, "open", "ok", c)

NotSent(c) == c \notin replied /\ Close(c, "open", "write_failed", None)

GiveUp(c) == \E status \in {"closed", "timeout"} : Close(c, "open", status, None)

Next ==
    \E c \in Cmds : \/ Refuse(c) \/ Accept(c) \/ BrowserAnswers(c)
                    \/ Deliver(c) \/ NotSent(c) \/ GiveUp(c)

Spec == Init /\ [][Next]_vars
=============================================================================
