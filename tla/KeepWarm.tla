------------------------------ MODULE KeepWarm ------------------------------
(* The timing of one supervisor of internal/session/store.go: a ticker whose  *)
(* channel holds one tick and drops the rest, a probe that takes up to the    *)
(* client's timeout, and a hub that ends a cloud session which it has not     *)
(* heard of for Idle.  SessionStore has what the supervisors of all sessions  *)
(* do to the store; here is when, on a discrete clock.                        *)
(*                                                                            *)
(* Time passes in steps of one unit, and only when nothing is due: the select *)
(* takes a waiting tick, and the client gives up, at once.                    *)
EXTENDS Integers

CONSTANTS
    CloudHeartbeat, LocalWatch,     \* the tunables: 60 s and 15 s
    Timeout,                        \* of the store's HTTP client: 20 s
    Idle,                           \* of a cloud provider: 90 s
    Lag                             \* bound on the time from creation to Add

Longer(a, b) == IF a < b THEN b ELSE a

ASSUME TimesAssumption ==
    /\ CloudHeartbeat \in Nat \ {0} /\ LocalWatch \in Nat \ {0}
    /\ Timeout \in Nat \ {0} /\ Idle \in Nat /\ Lag \in Nat

ASSUME TunablesAssumption == Lag + Longer(CloudHeartbeat, Timeout) + Timeout < Idle

VARIABLES
    kind,       \* local or cloud
    pc,         \* of supervise: select, probe, gone (reaped)
    timer,      \* until the ticker fires again
    tick,       \* whether a tick waits in t.C
    spent,      \* since the probe under way was sent
    answer,     \* of the hub to it: none (not reached yet), ok or dead
    remote,     \* the session at its hub: alive, ended, idled (out)
    quiet,      \* since the hub last heard of it
    dead        \* since it ended

vars == <<kind, pc, timer, tick, spent, answer, remote, quiet, dead>>

interval == IF kind = "cloud" THEN CloudHeartbeat ELSE LocalWatch

(* Add: the session has been created not long ago. *)
Init ==
    /\ kind \in {"local", "cloud"}
    /\ pc = "select" /\ timer = interval /\ tick = FALSE
    /\ spent = 0 /\ answer = "none"
    /\ remote = "alive" /\ quiet \in 0..Lag /\ dead = 0

-----------------------------------------------------------------------------
(* case <-t.C: the probe is sent. *)
Tick ==
    /\ pc = "select" /\ tick
    /\ tick' = FALSE
    /\ pc' = "probe" /\ spent' = 0 /\ answer' = "none"
    /\ UNCHANGED <<kind, timer, remote, quiet, dead>>

(* The probe reaches the hub: "this read also resets the idle timer". *)
Reach ==
    /\ pc = "probe" /\ answer = "none"
    /\ answer' = IF remote = "alive" THEN "ok" ELSE "dead"
    /\ quiet' = IF remote = "alive" THEN 0 ELSE quiet
    /\ UNCHANGED <<kind, pc, timer, tick, spent, remote, dead>>

(* Mutant of Mark: the interval begins when the probe is through. *)
MarkSleeps ==
    /\ pc = "probe" /\ answer = "ok"
    /\ pc' = "select"
    /\ timer' = interval /\ tick' = FALSE
    /\ UNCHANGED <<kind, spent, answer, remote, quiet, dead>>

(* 200: the session lives, back to the select. *)
Mark ==
    /\ pc = "probe" /\ answer = "ok"
    /\ pc' = "select"
    /\ UNCHANGED <<kind, timer, tick, spent, answer, remote, quiet, dead>>

(* Mutant of Reap: what does not answer may only be slow. *)
ReapIfAnswered ==
    /\ pc = "probe"
    /\ pc' = IF answer = "dead" THEN "gone" ELSE "select"
    /\ UNCHANGED <<kind, timer, tick, spent, answer, remote, quiet, dead>>

(* Another status, or an error, the timeout's among them: reaped. *)
Reap ==
    /\ pc = "probe"
    /\ pc' = "gone"
    /\ UNCHANGED <<kind, timer, tick, spent, answer, remote, quiet, dead>>

(* The driver, the device or another client ends the session. *)
RemoteEnds ==
    /\ pc # "gone" /\ remote = "alive"
    /\ remote' = "ended" /\ dead' = 0
    /\ UNCHANGED <<kind, pc, timer, tick, spent, answer, quiet>>

(* One unit of time: the ticker, whose tick is dropped if one waits already,  *)
(* the client's clock, and the provider's.                                    *)
Pass ==
    /\ \/ pc = "select" /\ ~tick
       \/ pc = "probe" /\ spent < Timeout
    /\ timer' = IF timer = 1 THEN interval ELSE timer - 1
    /\ tick' = (tick \/ timer = 1)
    /\ spent' = IF pc = "probe" THEN spent + 1 ELSE spent
    /\ IF remote = "alive"
       THEN /\ quiet' = quiet + 1 /\ dead' = 0
            /\ remote' = IF kind = "cloud" /\ quiet + 1 >= Idle THEN "idled" ELSE "alive"
       ELSE /\ dead' = dead + 1 /\ UNCHANGED <<remote, quiet>>
    /\ UNCHANGED <<kind, pc, answer>>

Terminated == pc = "gone" /\ UNCHANGED vars

Next == Tick \/ Reach \/ Mark \/ Reap \/ RemoteEnds \/ Pass \/ Terminated

Spec == Init /\ [][Next]_vars

-----------------------------------------------------------------------------
(* Properties *)

(* Every variable has its type; the ticker fires within its interval, and a   *)
(* probe takes no longer than the client allows.                              *)
TypeOK ==
    /\ kind \in {"local", "cloud"} /\ pc \in {"select", "probe", "gone"}
    /\ timer \in 1..interval /\ tick \in BOOLEAN
    /\ spent \in 0..Timeout /\ answer \in {"none", "ok", "dead"}
    /\ remote \in {"alive", "ended", "idled"} /\ quiet \in Nat /\ dead \in Nat

(* Keep-warm: however long each probe takes, and whichever ticks are dropped, *)
(* a cloud session that is tracked never idles out at its provider.  It needs *)
(* more than a heartbeat shorter than the idle time: a late probe after an    *)
(* early one is a heartbeat and a timeout apart.                              *)
NeverIdlesOut == remote # "idled"

(* Death watch: a session that ended is reaped no later than an interval and  *)
(* a timeout after, and with a timeout longer than the interval, as a local   *)
(* session has it, two timeouts.                                              *)
DeathNoticed == pc # "gone" => dead <= Longer(interval, Timeout) + Timeout
=============================================================================
