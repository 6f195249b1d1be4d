---------------------------- MODULE SessionChain ----------------------------
(* cmd/session/main.go: one composed WebDriver session as a chain of HTTP     *)
(* calls: status, new session, an adb forward for the live stream, some       *)
(* device commands, a screenshot, an inspector, and the end: the session is   *)
(* deleted, or left alive for its user.  The hub is the environment.  A call  *)
(* can be lost on the way, refused, or carried out without its answer getting *)
(* back within the client's timeout; sessions die by themselves, and those    *)
(* without newCommandTimeout = 0 when they idle too long.                     *)
EXTENDS Naturals, Sequences

VARIABLES
    flags,      \* the command line: keep, inspector, shot, mjpeg
    pc,         \* the link of the chain that is next, or exit
    keep,       \* *keep, which the inspector's launch may set
    handle,     \* sid: none, own (of the session created) or blank
    calls,      \* history: the calls of the chain [link, handle]
    broken,     \* history: the links that failed
    told,       \* what the user was told at the end
    attached,   \* whether an inspector was launched on the session
    remote,     \* the session at the hub: none, alive or ended
    immortal    \* whether it was created with newCommandTimeout = 0

vars == <<flags, pc, keep, handle, calls, broken, told, attached, remote,
          immortal>>

Chain == <<"status", "create", "forward", "deviceInfo", "pressKey", "swipe",
           "screenshot", "inspector", "end">>
Acts == {"deviceInfo", "pressKey", "swipe", "screenshot"}

Init ==
    /\ flags \in [keep : BOOLEAN, inspector : BOOLEAN, shot : BOOLEAN, mjpeg : BOOLEAN]
    /\ pc = "status" /\ keep = flags.keep
    /\ handle = "none" /\ calls = <<>> /\ broken = {} /\ told = "nothing"
    /\ attached = FALSE /\ remote = "none" /\ immortal = FALSE

(* The links that this command line leaves out. *)
Skipped == (IF flags.mjpeg THEN {} ELSE {"forward"})
      \cup (IF flags.shot THEN {} ELSE {"screenshot"})
      \cup (IF flags.inspector THEN {} ELSE {"inspector"})

Goto(link) ==
    LET later == {i \in 1..Len(Chain) : Chain[i] \notin Skipped
                     /\ \E j \in 1..(i - 1) : Chain[j] = link}
    IN pc' = Chain[CHOOSE i \in later : \A j \in later : i <= j]

Exit(what) == pc' = "exit" /\ told' = what

(* A broken link only leaves a word on the terminal. *)
Breaks(link) == broken' = broken \cup {link}

(* call: one HTTP call under the handle the chain has. *)
call(link) ==
    /\ pc = link
    /\ calls' = Append(calls, [link |-> link, handle |-> handle])

-----------------------------------------------------------------------------
(* GET /status: ready, or the chain ends here with exit code 1. *)
Status ==
    /\ call("status")
    /\ \/ Goto("status") /\ UNCHANGED <<broken, told>>
       \/ Breaks("status") /\ Exit("not_ready")
    /\ UNCHANGED <<flags, keep, handle, attached, remote, immortal>>

(* Mutant of WillOutlive: no session idles out. *)
WillOutliveAlways == TRUE

(* "the session outlives this run; don't let it idle out" *)
WillOutlive == flags.keep \/ flags.inspector

(* The hub creates a session under the capabilities of the request ... *)
HubCreates == remote' = "alive" /\ immortal' = WillOutlive

(* ... and answers with its id; an answer whose value has no sessionId leaves *)
(* the handle blank.                                                          *)
Created ==
    /\ call("create")
    /\ HubCreates
    /\ handle' \in {"own", "blank"}
    /\ Goto("create")
    /\ UNCHANGED <<flags, keep, broken, told, attached>>

(* Mutant of CreateFails: the chain goes on without a session. *)
CreateFailsOn ==
    /\ call("create")
    /\ HubCreates \/ UNCHANGED <<remote, immortal>>
    /\ Breaks("create") /\ Goto("create")
    /\ UNCHANGED <<flags, keep, handle, told, attached>>

(* The answer is an error, is lost or comes too late: exit code 1, whether    *)
(* or not the hub has created the session.                                    *)
CreateFails ==
    /\ call("create")
    /\ HubCreates \/ UNCHANGED <<remote, immortal>>
    /\ Breaks("create") /\ Exit("create_failed")
    /\ UNCHANGED <<flags, keep, handle, attached>>

(* adb forward and a look at the port; a failure of either is only printed. *)
Forward ==
    /\ pc = "forward"
    /\ UNCHANGED broken \/ Breaks("forward")
    /\ Goto("forward")
    /\ UNCHANGED <<flags, keep, handle, calls, told, attached, remote, immortal>>

(* Mutant of Act: a command that failed is sent again. *)
ActRetries(link) ==
    /\ call(link)
    /\ \/ Goto(link) /\ UNCHANGED broken
       \/ Breaks(link) /\ UNCHANGED pc
    /\ UNCHANGED <<flags, keep, handle, told, attached, remote, immortal>>

(* A mobile: command or the screenshot, which a session that is gone and a     *)
(* blank handle do not get through: the chain goes on all the same.           *)
Act(link) ==
    /\ call(link)
    /\ \/ handle = "own" /\ remote = "alive" /\ UNCHANGED broken
       \/ Breaks(link)
    /\ Goto(link)
    /\ UNCHANGED <<flags, keep, handle, told, attached, remote, immortal>>

(* Mutant of Launch: the session is not kept for the inspector. *)
LaunchOnly ==
    /\ pc = "inspector"
    /\ attached' = TRUE
    /\ Goto("inspector")
    /\ UNCHANGED <<flags, keep, handle, calls, broken, told, remote, immortal>>

(* launchInspector starts the program, which attaches to the session. *)
Launch ==
    /\ pc = "inspector"
    /\ attached' = TRUE /\ keep' = TRUE
    /\ Goto("inspector")
    /\ UNCHANGED <<flags, handle, calls, broken, told, remote, immortal>>

LaunchFails ==
    /\ pc = "inspector"
    /\ Breaks("inspector") /\ Goto("inspector")
    /\ UNCHANGED <<flags, keep, handle, calls, told, attached, remote, immortal>>

Keep ==
    /\ pc = "end" /\ keep
    /\ Exit("left_alive")
    /\ UNCHANGED <<flags, keep, handle, calls, broken, attached, remote, immortal>>

(* DELETE under a handle that is the session's: the hub ends it. *)
Delete ==
    /\ ~keep /\ call("end") /\ handle = "own" /\ remote = "alive"
    /\ remote' = "ended"
    /\ Exit("deleted")
    /\ UNCHANGED <<flags, keep, handle, broken, attached, immortal>>

(* The answer to DELETE is an error, or does not come: the hub may have ended *)
(* the session all the same.  "delete failed", and exit code 0.               *)
DeleteFails ==
    /\ ~keep /\ call("end")
    /\ \/ UNCHANGED remote
       \/ handle = "own" /\ remote' = "ended"
    /\ Breaks("end") /\ Exit("delete_failed")
    /\ UNCHANGED <<flags, keep, handle, attached, immortal>>

-----------------------------------------------------------------------------
(* The device or the driver fails. *)
SessionDies ==
    /\ remote = "alive" /\ remote' = "ended"
    /\ UNCHANGED <<flags, pc, keep, handle, calls, broken, told, attached, immortal>>

(* newCommandTimeout passes without a command. *)
SessionIdlesOut ==
    /\ remote = "alive" /\ ~immortal /\ remote' = "ended"
    /\ UNCHANGED <<flags, pc, keep, handle, calls, broken, told, attached, immortal>>

Terminated == pc = "exit" /\ remote # "alive" /\ UNCHANGED vars

Link ==
    \/ Status \/ Created \/ CreateFails \/ Forward \/ Launch \/ LaunchFails
    \/ Keep \/ Delete \/ DeleteFails
    \/ \E link \in Acts : Act(link)

Next == Link \/ SessionDies \/ SessionIdlesOut \/ Terminated

(* The chain's calls have a timeout; the hub ends sessions that idle. *)
FairSpec == Init /\ [][Next]_vars /\ WF_vars(Link) /\ WF_vars(SessionIdlesOut)

-----------------------------------------------------------------------------
(* Properties *)

(* Every variable has its type, and the chain makes no more calls than it has *)
(* links that call.                                                           *)
TypeOK ==
    /\ flags \in [keep : BOOLEAN, inspector : BOOLEAN, shot : BOOLEAN, mjpeg : BOOLEAN]
    /\ pc \in {Chain[i] : i \in 1..Len(Chain)} \cup {"exit"} /\ keep \in BOOLEAN
    /\ handle \in {"none", "own", "blank"}
    /\ calls \in Seq([link : {Chain[i] : i \in 1..Len(Chain)}, handle : {"none", "own", "blank"}])
    /\ Len(calls) < Len(Chain) - 1
    /\ broken \subseteq {Chain[i] : i \in 1..Len(Chain)}
    /\ told \in {"nothing", "not_ready", "create_failed", "left_alive", "deleted",
                 "delete_failed"}
    /\ attached \in BOOLEAN /\ remote \in {"none", "alive", "ended"} /\ immortal \in BOOLEAN

(* The calls after the new session go out under the handle of its answer, and *)
(* a DELETE is the last of them.                                              *)
OneHandle ==
    \A i \in 1..Len(calls) :
        /\ calls[i].link \in {"status", "create"} <=> i <= 2
        /\ i > 2 => calls[i].handle = handle /\ handle # "none"
        /\ calls[i].link = "end" => i = Len(calls) /\ pc = "exit"

(* Exit code 1 is for a failed status or creation and for nothing else, and   *)
(* "deleted" for a session whose DELETE went through under its own handle.    *)
HonestEnd ==
    /\ told \in {"not_ready", "create_failed"}
          <=> pc = "exit" /\ broken \cap {"status", "create"} # {}
    /\ told = "deleted" => handle = "own" /\ "end" \notin broken

(* "The session id returned by one call must thread through every later       *)
(* call": it does, from the creation to the DELETE, also past links that      *)
(* broke; but it may be blank, as line 162 takes what it finds.  "Any broken  *)
(* link fails the chain" holds of the first two alone: the chain exits with 1 *)
(* exactly when one of them broke, with 0 whatever broke later, and a DELETE  *)
(* that failed is never reported as done.                                     *)
HandleThreads == OneHandle /\ HonestEnd

(* A chain that is over leaves a session behind only if the user was told:    *)
(* that it was left alive, and then it was created so that it does not idle   *)
(* out, or that its creation or its end did not work out; and the session an  *)
(* inspector was attached to is never deleted by the chain.                   *)
LeftAliveOpenly ==
    /\ pc = "exit" /\ remote = "alive" =>
        \/ told = "left_alive" /\ immortal
        \/ told \in {"create_failed", "delete_failed"}
    /\ attached => \A i \in 1..Len(calls) : calls[i].link # "end"

(* Who did not ask for a session that outlives the run is not left with one:  *)
(* whatever was lost, refused or timed out, it is gone in the end.            *)
NoSessionOutstays == [](pc = "exit" /\ ~flags.keep /\ ~flags.inspector
                           => <>(remote # "alive"))
=============================================================================
