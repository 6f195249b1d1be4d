----------------------------- MODULE ChannelHub -----------------------------
(* The broker of cmd/channel/main.go: one held WebSocket to a browser, shared *)
(* by any number of HTTP callers.  One goroutine reads the socket (read),     *)
(* every /command, /events and /await request runs in a goroutine of its own, *)
(* and the maps pending and subs are guarded by h.mu.  What the code does     *)
(* while it holds h.mu is one step here; so is each channel operation, each   *)
(* call of the socket and each atomic counter.                                *)
(*                                                                            *)
(* A frame is [id, body].  The body is all that matters of its text: for a    *)
(* command's response or its echo, the command it belongs to; for an event,   *)
(* an element of Events.  The browser is the environment: it may answer late, *)
(* out of order or twice, send frames nobody asked for, and hang up.          *)
EXTENDS Integers, Sequences, FiniteSets

CONSTANTS
    Cmds,       \* the POST /command requests
    Streams,    \* the GET /events requests
    Awaits,     \* the GET /await requests
    Events,     \* texts of the frames the browser sends of its own accord
    Contains,   \* Contains[a]: the bodies whose text contains a's ?contains=
    SubCap,     \* capacity of a subscriber's channel (256 in the code)
    MaxFrames,  \* bound on the frames the browser sends
    MaxRequests,    \* bound on the requests that arrive
    None        \* no command

Subs   == Streams \cup Awaits
Bodies == Cmds \cup Events
NoId    == -1           \* a frame without an "id" member
StrayId == 0            \* an id the broker never hands out
Frame  == [id : Int, body : Bodies]
Entry  == [id : Int, ch : Cmds]

ASSUME Disjoint ==
    /\ Cmds \cap Events = {}
    /\ Cmds \cap Subs = {}
    /\ Streams \cap Awaits = {}
    /\ None \notin Bodies
ASSUME ContainsType == Contains \in [Awaits -> SUBSET Bodies]
ASSUME Bounds == SubCap \in Nat \ {0} /\ MaxFrames \in Nat /\ MaxRequests \in Nat

VARIABLES
    (* handleCommand *)
    nextCmd,    \* atomic counter of command ids
    pc,         \* where each /command handler is
    id,         \* the id it was given
    answer,     \* what its caller was told
    cmdCount,   \* commands written
    (* the hub, guarded by mu, and the channels in its maps *)
    pending,    \* map: command id -> response channel (named by its command)
    resp,       \* contents of each response channel, capacity 1
    subs,       \* map of subscribers; the counter nextSub only makes keys distinct
    buf,        \* contents of each subscriber's channel, as positions in log
    closed,     \* channels that were closed
    (* read *)
    rpc, rframe, rch,   \* where the reader is, its frame, the channel it found
    evtCount,           \* id-less frames read
    (* handleEvents, handleAwait *)
    spc,        \* where each subscriber's handler is
    got,        \* positions it took from its channel
    outcome,    \* how an /await or /events request ended
    (* history: what the subscribers are measured against *)
    log,        \* every frame fanned out, in order
    since,      \* length of log when the subscriber registered
    lost,       \* positions that found the subscriber's channel full
    (* the browser and the socket *)
    up, wire, sent, replied, frames

cmdVars     == <<nextCmd, pc, id, answer, cmdCount>>
chanVars    == <<resp, closed>>
readVars    == <<rpc, rframe, rch, evtCount>>
subVars     == <<spc, got, outcome, since>>
fanVars     == <<buf, log, lost>>
browserVars == <<up, wire, sent, replied, frames>>
vars == <<cmdVars, pending, chanVars, subs, readVars, subVars, fanVars, browserVars>>

NoAnswer == [status |-> "none", body |-> None]
NoFrame  == [id |-> NoId, body |-> None]

(* newHub, after main dialled the socket.                                     *)
Init ==
    /\ nextCmd = 0 /\ cmdCount = 0 /\ evtCount = 0
    /\ pc = [c \in Cmds |-> "idle"]
    /\ id = [c \in Cmds |-> StrayId]
    /\ answer = [c \in Cmds |-> NoAnswer]
    /\ pending = {} /\ subs = {} /\ closed = {}
    /\ resp = [c \in Cmds |-> <<>>]
    /\ buf = [s \in Subs |-> <<>>]
    /\ rpc = "read" /\ rframe = NoFrame /\ rch = None
    /\ spc = [s \in Subs |-> "idle"]
    /\ got = [s \in Subs |-> <<>>]
    /\ outcome = [s \in Subs |-> "none"]
    /\ log = <<>>
    /\ since = [s \in Subs |-> 0]
    /\ lost = [s \in Subs |-> {}]
    /\ up = TRUE /\ wire = <<>> /\ sent = {} /\ replied = {} /\ frames = 0

-----------------------------------------------------------------------------
(* Shared operations *)

(* Mutant of fanout: a full channel drops its oldest frame instead. *)
fanoutDropsOldest(f) ==
    /\ log' = Append(log, f)
    /\ buf' = [s \in Subs |->
                 IF s \notin subs THEN buf[s]
                 ELSE Append(IF Len(buf[s]) >= SubCap THEN Tail(buf[s]) ELSE buf[s],
                             Len(log) + 1)]
    /\ UNCHANGED lost

(* fanout: under mu, offer the frame to every subscriber; one whose channel   *)
(* is full does not get it.                                                   *)
fanout(f) ==
    LET n == Len(log) + 1
        full(s) == Len(buf[s]) >= SubCap
    IN /\ log' = Append(log, f)
       /\ buf' = [s \in Subs |-> IF s \in subs /\ ~full(s)
                                 THEN Append(buf[s], n) ELSE buf[s]]
       /\ lost' = [s \in Subs |-> IF s \in subs /\ full(s)
                                  THEN lost[s] \cup {n} ELSE lost[s]]

(* delete(h.pending, i) and h.pending[i] = ch *)
Without(i)  == {p \in pending : p.id # i}
With(i, ch) == Without(i) \cup {[id |-> i, ch |-> ch]}

Reply(c, status, body) ==
    answer' = [answer EXCEPT ![c] = [status |-> status, body |-> body]]

Goto(c, from, to) ==
    /\ pc[c] = from
    /\ pc' = [pc EXCEPT ![c] = to]

(* One more request comes in. *)
Arrives ==
    Cardinality({c \in Cmds : pc[c] # "idle"} \cup {s \in Subs : spc[s] # "idle"})
        < MaxRequests

-----------------------------------------------------------------------------
(* handleCommand *)

(* The body does not decode, or names no method: 400, before any id is taken. *)
BadRequest(c) ==
    /\ Arrives
    /\ Goto(c, "idle", "done")
    /\ Reply(c, "bad_request", None)
    /\ UNCHANGED <<nextCmd, id, cmdCount, pending, chanVars, subs, readVars,
                   subVars, fanVars, browserVars>>

(* Mutant of Begin: the counter is read and written without atomicity, and    *)
(* the increment is lost.                                                     *)
BeginLosesUpdate(c) ==
    /\ Arrives
    /\ Goto(c, "idle", "register")
    /\ id' = [id EXCEPT ![c] = nextCmd + 1]
    /\ UNCHANGED <<nextCmd, answer, cmdCount, pending, chanVars, subs, readVars,
                   subVars, fanVars, browserVars>>

(* id := atomic.AddInt64(&h.nextCmd, 1) *)
Begin(c) ==
    /\ Arrives
    /\ Goto(c, "idle", "register")
    /\ nextCmd' = nextCmd + 1
    /\ id' = [id EXCEPT ![c] = nextCmd + 1]
    /\ UNCHANGED <<answer, cmdCount, pending, chanVars, subs, readVars, subVars,
                   fanVars, browserVars>>

(* h.pending[id] = ch, before the command is on the wire. *)
Register(c) ==
    /\ Goto(c, "register", "write")
    /\ pending' = With(id[c], c)
    /\ UNCHANGED <<nextCmd, id, answer, cmdCount, chanVars, subs, readVars,
                   subVars, fanVars, browserVars>>

(* WriteText returns nil.  After the peer is gone the kernel may still take   *)
(* the bytes, so success does not mean that the browser has the command.      *)
WriteText(c) ==
    /\ Goto(c, "write", "count")
    /\ sent' = IF up THEN sent \cup {[id |-> id[c], ch |-> c]} ELSE sent
    /\ UNCHANGED <<nextCmd, id, answer, cmdCount, pending, chanVars, subs,
                   readVars, subVars, fanVars, up, wire, replied, frames>>

(* atomic.AddInt64(&h.cmdCount, 1): the browser may have answered by now. *)
Count(c) ==
    /\ Goto(c, "count", "echo")
    /\ cmdCount' = cmdCount + 1
    /\ UNCHANGED <<nextCmd, id, answer, pending, chanVars, subs, readVars,
                   subVars, fanVars, browserVars>>

(* Mutant of WriteFails: the command is counted although it was not written.  *)
WriteFailsCounted(c) ==
    /\ ~up
    /\ Goto(c, "write", "unregister")
    /\ cmdCount' = cmdCount + 1
    /\ UNCHANGED <<nextCmd, id, answer, pending, chanVars, subs,
                   readVars, subVars, fanVars, browserVars>>

(* WriteText fails: the socket is gone. *)
WriteFails(c) ==
    /\ ~up
    /\ Goto(c, "write", "unregister")
    /\ UNCHANGED <<nextCmd, id, answer, cmdCount, pending, chanVars, subs,
                   readVars, subVars, fanVars, browserVars>>

(* Mutant of WriteFailed: the command is echoed although it was not written. *)
WriteFailedEchoes(c) ==
    /\ Goto(c, "unregister", "done")
    /\ pending' = Without(id[c])
    /\ Reply(c, "write_failed", None)
    /\ fanout([id |-> id[c], body |-> c])
    /\ UNCHANGED <<nextCmd, id, cmdCount, chanVars, subs, readVars, subVars,
                   browserVars>>

(* ... delete(h.pending, id) and 502. *)
WriteFailed(c) ==
    /\ Goto(c, "unregister", "done")
    /\ pending' = Without(id[c])
    /\ Reply(c, "write_failed", None)
    /\ UNCHANGED <<nextCmd, id, cmdCount, chanVars, subs, readVars, subVars,
                   fanVars, browserVars>>

(* The witness echo: the command itself, with its id, to every subscriber. *)
Echo(c) ==
    /\ Goto(c, "echo", "wait")
    /\ fanout([id |-> id[c], body |-> c])
    /\ UNCHANGED <<nextCmd, id, answer, cmdCount, pending, chanVars, subs,
                   readVars, subVars, browserVars>>

(* select: the response arrived.  w.Write(resp) to the caller comes after     *)
(* this, and nothing of the hub waits for it.                                 *)
Receive(c) ==
    /\ resp[c] # <<>>
    /\ Goto(c, "wait", "done")
    /\ Reply(c, "ok", Head(resp[c]).body)
    /\ resp' = [resp EXCEPT ![c] = Tail(@)]
    /\ UNCHANGED <<nextCmd, id, cmdCount, pending, closed, subs, readVars,
                   subVars, fanVars, browserVars>>

(* select: the channel is closed and empty: 502. *)
ReceiveClosed(c) ==
    /\ resp[c] = <<>> /\ c \in closed
    /\ Goto(c, "wait", "done")
    /\ Reply(c, "closed", None)
    /\ UNCHANGED <<nextCmd, id, cmdCount, pending, chanVars, subs, readVars,
                   subVars, fanVars, browserVars>>

(* Mutant of Timeout: the timer only guards against a socket that died. *)
TimeoutIfDown(c) ==
    /\ ~up
    /\ Goto(c, "wait", "expire")
    /\ UNCHANGED <<nextCmd, id, answer, cmdCount, pending, chanVars, subs,
                   readVars, subVars, fanVars, browserVars>>

(* select: the timer fired; Go picks any ready case, so a response that is    *)
(* already in the channel may lose.                                           *)
Timeout(c) ==
    /\ Goto(c, "wait", "expire")
    /\ UNCHANGED <<nextCmd, id, answer, cmdCount, pending, chanVars, subs,
                   readVars, subVars, fanVars, browserVars>>

(* ... delete(h.pending, id) and 504. *)
TimedOut(c) ==
    /\ Goto(c, "expire", "done")
    /\ pending' = Without(id[c])
    /\ Reply(c, "timeout", None)
    /\ UNCHANGED <<nextCmd, id, cmdCount, chanVars, subs, readVars, subVars,
                   fanVars, browserVars>>

-----------------------------------------------------------------------------
(* read: the only reader of the socket *)

(* A frame arrived; one without an id is an event. *)
ReadText ==
    /\ rpc = "read" /\ wire # <<>>
    /\ rframe' = Head(wire)
    /\ wire' = Tail(wire)
    /\ rpc' = IF rframe'.id = NoId THEN "count" ELSE "take"
    /\ UNCHANGED <<cmdVars, pending, chanVars, subs, rch, evtCount, subVars,
                   fanVars, up, sent, replied, frames>>

(* atomic.AddInt64(&h.evtCount, 1), before the event is fanned out. *)
CountEvent ==
    /\ rpc = "count" /\ rpc' = "fan"
    /\ evtCount' = evtCount + 1
    /\ UNCHANGED <<cmdVars, pending, chanVars, subs, rframe, rch, subVars,
                   fanVars, browserVars>>

(* ReadText fails once the peer is gone and what it sent has been read. *)
ReadFails ==
    /\ rpc = "read" /\ ~up /\ wire = <<>>
    /\ rpc' = "shutdown"
    /\ UNCHANGED <<cmdVars, pending, chanVars, subs, rframe, rch, evtCount,
                   subVars, fanVars, browserVars>>

(* Mutant of Take: the entry is looked up but not deleted. *)
TakeKeeps ==
    /\ rpc = "take"
    /\ \/ \E p \in pending : p.id = rframe.id /\ rch' = p.ch /\ rpc' = "send"
       \/ /\ \A p \in pending : p.id # rframe.id
          /\ rpc' = "read" /\ UNCHANGED rch
    /\ UNCHANGED <<cmdVars, pending, chanVars, subs, rframe, evtCount, subVars,
                   fanVars, browserVars>>

(* Under mu: look the id up and delete it. *)
Take ==
    /\ rpc = "take"
    /\ pending' = Without(rframe.id)
    /\ \/ \E p \in pending : p.id = rframe.id /\ rch' = p.ch /\ rpc' = "send"
       \/ /\ \A p \in pending : p.id # rframe.id
          /\ rpc' = "read" /\ UNCHANGED rch
    /\ UNCHANGED <<cmdVars, chanVars, subs, rframe, evtCount, subVars, fanVars,
                   browserVars>>

(* ch <- raw, outside mu: it would block on a full channel. *)
Send ==
    /\ rpc = "send" /\ Len(resp[rch]) < 1
    /\ resp' = [resp EXCEPT ![rch] = Append(@, rframe)]
    /\ rpc' = "read" /\ rch' = None
    /\ UNCHANGED <<cmdVars, pending, closed, subs, rframe, evtCount, subVars,
                   fanVars, browserVars>>

Fan ==
    /\ rpc = "fan"
    /\ fanout(rframe)
    /\ rpc' = "read"
    /\ UNCHANGED <<cmdVars, pending, chanVars, subs, rframe, rch, evtCount,
                   subVars, browserVars>>

(* Mutants of Shutdown: subscribers stay in the map; the response channels,   *)
(* or the subscribers' channels, are forgotten but not closed.                *)
ShutdownKeepsSubs ==
    /\ rpc = "shutdown"
    /\ closed' = closed \cup {p.ch : p \in pending} \cup subs
    /\ pending' = {} /\ rpc' = "done"
    /\ UNCHANGED <<cmdVars, resp, subs, rframe, rch, evtCount, subVars, fanVars,
                   browserVars>>

ShutdownForgetsPending ==
    /\ rpc = "shutdown"
    /\ closed' = closed \cup subs
    /\ pending' = {} /\ subs' = {} /\ rpc' = "done"
    /\ UNCHANGED <<cmdVars, resp, rframe, rch, evtCount, subVars, fanVars,
                   browserVars>>

ShutdownForgetsSubs ==
    /\ rpc = "shutdown"
    /\ closed' = closed \cup {p.ch : p \in pending}
    /\ pending' = {} /\ subs' = {} /\ rpc' = "done"
    /\ UNCHANGED <<cmdVars, resp, rframe, rch, evtCount, subVars, fanVars,
                   browserVars>>

(* shutdown: close and forget every channel. *)
Shutdown ==
    /\ rpc = "shutdown"
    /\ closed' = closed \cup {p.ch : p \in pending} \cup subs
    /\ pending' = {} /\ subs' = {}
    /\ rpc' = "done"
    /\ UNCHANGED <<cmdVars, resp, rframe, rch, evtCount, subVars, fanVars,
                   browserVars>>

-----------------------------------------------------------------------------
(* handleEvents and handleAwait *)

(* h.subs[id] = ch; /events then tells its client that it subscribed, /await  *)
(* goes straight to its select.                                               *)
Subscribe(s) ==
    /\ Arrives
    /\ spc[s] = "idle"
    /\ spc' = [spc EXCEPT ![s] = IF s \in Streams THEN "write" ELSE "live"]
    /\ subs' = subs \cup {s}
    /\ since' = [since EXCEPT ![s] = Len(log)]
    /\ UNCHANGED <<cmdVars, pending, chanVars, readVars, got, outcome, fanVars,
                   browserVars>>

Finish(s, next, how) ==
    /\ spc[s] = "live"
    /\ spc' = [spc EXCEPT ![s] = next]
    /\ outcome' = [outcome EXCEPT ![s] = how]

Pop(s) ==
    /\ buf[s] # <<>>
    /\ got' = [got EXCEPT ![s] = Append(@, Head(buf[s]))]
    /\ buf' = [buf EXCEPT ![s] = Tail(@)]

(* /events: take the next frame, to write it to the SSE stream. *)
Stream(s) ==
    /\ spc[s] = "live"
    /\ spc' = [spc EXCEPT ![s] = "write"]
    /\ Pop(s)
    /\ UNCHANGED <<cmdVars, pending, chanVars, subs, readVars, outcome,
                   since, log, lost, browserVars>>

(* The write to the client returns, with an error or without: neither handler *)
(* looks.  A stream goes back to its select, an answered /await is finished.  *)
(* The server sets no write deadline: a client that takes no bytes holds the  *)
(* handler here.                                                              *)
Flush(s) ==
    /\ spc[s] = "write"
    /\ spc' = [spc EXCEPT ![s] = IF outcome[s] = "none" THEN "live" ELSE "leave"]
    /\ UNCHANGED <<cmdVars, pending, chanVars, subs, readVars, got, outcome,
                   since, fanVars, browserVars>>

(* /await: answer with the first frame whose text contains the query, and     *)
(* skip every other one.                                                      *)
Matches(a, f) == f.body \in Contains[a]

AwaitHit(a) ==
    /\ Pop(a)
    /\ Matches(a, log[Head(buf[a])])
    /\ Finish(a, "write", "event")
    /\ UNCHANGED <<cmdVars, pending, chanVars, subs, readVars, since, log, lost,
                   browserVars>>

(* Mutant of AwaitSkip: a miss throws away all that is buffered. *)
AwaitSkipDrains(a) ==
    /\ spc[a] = "live" /\ buf[a] # <<>>
    /\ ~Matches(a, log[Head(buf[a])])
    /\ buf' = [buf EXCEPT ![a] = <<>>]
    /\ got' = [got EXCEPT ![a] = Append(@, Head(buf[a]))]
    /\ UNCHANGED <<cmdVars, pending, chanVars, subs, readVars, spc, outcome,
                   since, log, lost, browserVars>>

AwaitSkip(a) ==
    /\ spc[a] = "live"
    /\ Pop(a)
    /\ ~Matches(a, log[Head(buf[a])])
    /\ UNCHANGED <<cmdVars, pending, chanVars, subs, readVars, spc, outcome,
                   since, log, lost, browserVars>>

(* The channel is closed and drained. *)
Closed(s) ==
    /\ buf[s] = <<>> /\ s \in closed
    /\ Finish(s, "leave", "closed")
    /\ UNCHANGED <<cmdVars, pending, chanVars, subs, readVars, got, since,
                   fanVars, browserVars>>

(* r.Context().Done(): the caller went away. *)
Gone(s) ==
    /\ Finish(s, "leave", "gone")
    /\ UNCHANGED <<cmdVars, pending, chanVars, subs, readVars, got, since,
                   fanVars, browserVars>>

(* /await: its deadline passed: 504. *)
Deadline(a) ==
    /\ Finish(a, "leave", "timeout")
    /\ UNCHANGED <<cmdVars, pending, chanVars, subs, readVars, got, since,
                   fanVars, browserVars>>

(* Mutant of Leave: the handler returns without the deferred delete. *)
LeaveForgets(s) ==
    /\ spc[s] = "leave"
    /\ spc' = [spc EXCEPT ![s] = "done"]
    /\ UNCHANGED <<cmdVars, pending, chanVars, subs, readVars, got, outcome,
                   since, fanVars, browserVars>>

(* The deferred delete(h.subs, id). *)
Leave(s) ==
    /\ spc[s] = "leave"
    /\ spc' = [spc EXCEPT ![s] = "done"]
    /\ subs' = subs \ {s}
    /\ UNCHANGED <<cmdVars, pending, chanVars, readVars, got, outcome, since,
                   fanVars, browserVars>>

-----------------------------------------------------------------------------
(* The browser *)

Transmit(f) ==
    /\ up /\ frames < MaxFrames
    /\ frames' = frames + 1
    /\ wire' = Append(wire, f)
    /\ UNCHANGED <<cmdVars, pending, chanVars, subs, readVars, subVars, fanVars,
                   up, sent>>

(* It answers a command it has: in any order, late, or again. *)
Respond ==
    \E p \in sent : /\ Transmit([id |-> p.id, body |-> p.ch])
                    /\ replied' = replied \cup {p.ch}

(* It reports an event, or answers an id the broker never gave out. *)
Emit ==
    \E e \in Events, i \in {NoId, StrayId} :
        Transmit([id |-> i, body |-> e]) /\ UNCHANGED replied

(* It hangs up; what was still on its way may be lost. *)
HangUp ==
    /\ up
    /\ up' = FALSE
    /\ \E n \in 0..Len(wire) : wire' = SubSeq(wire, 1, n)
    /\ UNCHANGED <<cmdVars, pending, chanVars, subs, readVars, subVars, fanVars,
                   sent, replied, frames>>

-----------------------------------------------------------------------------
(* Every request that came was served and the reader is gone. *)
Terminated ==
    /\ \A c \in Cmds : pc[c] \in {"idle", "done"}
    /\ \A s \in Subs : spc[s] \in {"idle", "done"}
    /\ rpc = "done"
    /\ UNCHANGED vars

Command(c) ==
    \/ BadRequest(c) \/ Begin(c) \/ Register(c) \/ WriteText(c) \/ WriteFails(c)
    \/ WriteFailed(c) \/ Count(c) \/ Echo(c) \/ Receive(c) \/ ReceiveClosed(c) \/ Timeout(c)
    \/ TimedOut(c)

Reader == ReadText \/ ReadFails \/ Take \/ Send \/ CountEvent \/ Fan \/ Shutdown

Subscriber ==
    \/ \E s \in Subs : Subscribe(s) \/ Flush(s) \/ Closed(s) \/ Gone(s) \/ Leave(s)
    \/ \E s \in Streams : Stream(s)
    \/ \E a \in Awaits : AwaitHit(a) \/ AwaitSkip(a) \/ Deadline(a)

Browser == Respond \/ Emit \/ HangUp

Next ==
    \/ \E c \in Cmds : Command(c)
    \/ Reader
    \/ Subscriber
    \/ Browser
    \/ Terminated

(* The scheduler runs every goroutine that can run, and timers fire.  Nothing *)
(* makes a write finish, on the held socket or to a subscriber's client (none *)
(* has a deadline), a caller arrive or go away, or the browser do anything.   *)
Fairness ==
    /\ \A c \in Cmds : /\ WF_vars(Register(c)) /\ WF_vars(WriteFailed(c))
                       /\ WF_vars(Count(c)) /\ WF_vars(Echo(c)) /\ WF_vars(TimedOut(c))
                       /\ WF_vars(Receive(c) \/ ReceiveClosed(c) \/ Timeout(c))
    /\ WF_vars(Reader)
    /\ \A s \in Streams : WF_vars(Stream(s) \/ Closed(s))
    /\ \A a \in Awaits : WF_vars(AwaitHit(a) \/ AwaitSkip(a) \/ Closed(a)) /\ WF_vars(Deadline(a))
    /\ \A s \in Subs : WF_vars(Leave(s))

Spec     == Init /\ [][Next]_vars
FairSpec == Spec /\ Fairness
-----------------------------------------------------------------------------
(* Properties *)

Waiting == {"write", "count", "echo", "wait"}   \* registered, and may still be answered
Written == {"ok", "closed", "timeout"}  \* answers given after the write
Serving == {"live", "write", "leave"}   \* subscribers that may be in the map

(* Every variable has its type; response channels hold at most one frame, and *)
(* subscriber channels at most SubCap.                                        *)
TypeOK ==
    /\ nextCmd \in Nat /\ cmdCount \in Nat /\ evtCount \in Nat /\ frames \in Nat
    /\ pc \in [Cmds -> {"idle", "register", "write", "unregister", "count",
                        "echo", "wait", "expire", "done"}]
    /\ id \in [Cmds -> Nat]
    /\ answer \in [Cmds -> [status : {"none", "bad_request", "write_failed", "ok",
                                     "closed", "timeout"},
                            body : Bodies \cup {None}]]
    /\ pending \subseteq Entry /\ sent \subseteq Entry
    /\ resp \in [Cmds -> Seq(Frame)]
    /\ \A c \in Cmds : Len(resp[c]) <= 1
    /\ subs \subseteq Subs
    /\ buf \in [Subs -> Seq(Nat)]
    /\ \A s \in Subs : Len(buf[s]) <= SubCap
    /\ closed \subseteq Cmds \cup Subs
    /\ rpc \in {"read", "take", "send", "count", "fan", "shutdown", "done"}
    /\ rframe \in Frame \cup {NoFrame}
    /\ rch \in Cmds \cup {None}
    /\ spc \in [Subs -> {"idle", "live", "write", "leave", "done"}]
    /\ got \in [Subs -> Seq(Nat)]
    /\ outcome \in [Subs -> {"none", "event", "closed", "gone", "timeout"}]
    /\ log \in Seq(Frame)
    /\ since \in [Subs -> Nat]
    /\ lost \in [Subs -> SUBSET Nat]
    /\ up \in BOOLEAN /\ wire \in Seq(Frame)
    /\ replied \subseteq Cmds

(* A /command caller that gets a response gets the browser's response to its  *)
(* own command, however many callers share the socket and in whatever order,  *)
(* however late or often the browser answers ("concurrent consumers never     *)
(* collide on the id space").                                                 *)
NoCrossedResponse ==
    \A c \in Cmds : answer[c].status = "ok" => answer[c].body = c /\ c \in replied

(* The four ways a response can still reach the handler of c. *)
InMap(c)    == \E p \in pending : p.ch = c
InHand(c)   == rpc = "send" /\ rch = c
InChan(c)   == resp[c] # <<>>
Released(c) == c \in closed

(* A handler that is registered and not yet answered is reachable in exactly  *)
(* one way: the reader finds it in the map, is about to send to it, has sent  *)
(* to it, or has closed its channel.  So no routed response is lost, none     *)
(* comes twice, and shutdown forgets nobody that registered before it.        *)
OneRoute ==
    \A c \in Cmds : pc[c] \in Waiting =>
        /\ InMap(c) \/ InHand(c) \/ InChan(c) \/ Released(c)
        /\ ~(InMap(c) /\ InHand(c)) /\ ~(InMap(c) /\ InChan(c))
        /\ ~(InMap(c) /\ Released(c)) /\ ~(InHand(c) /\ InChan(c))
        /\ ~(InHand(c) /\ Released(c)) /\ ~(InChan(c) /\ Released(c))

(* No goroutine can send on a closed channel or close one twice, either of    *)
(* which would panic and take the broker down: what the maps reach, and what  *)
(* the reader took out of them to send to, is open.                           *)
ChansOpen ==
    /\ \A p \in pending : p.ch \notin closed
    /\ subs \cap closed = {}
    /\ rpc = "send" => rch \notin closed

(* The reader never blocks on a handler that stopped listening: the channel   *)
(* it is about to send to has room ("a slow consumer never stalls the wire"). *)
ReaderNeverStalls == rpc = "send" => resp[rch] = <<>>

(* The maps do not grow with the requests served: no handler that returned,   *)
(* on whatever path, is left in pending or in subs.                           *)
NoLeak ==
    /\ \A p \in pending : pc[p.ch] \notin {"idle", "register", "done"}
    /\ \A s \in subs : spc[s] \in Serving

(* handleHealth: what GET /health counts.                                     *)
Health == [in_flight |-> Cardinality(pending), subscribers |-> Cardinality(subs),
           commands |-> cmdCount, events |-> evtCount]

(* What the subscribers were shown of a command. *)
Echoes(c) == {n \in 1..Len(log) : log[n] = [id |-> id[c], body |-> c]}

(* The report of /health is true of each counter when it is read.  in_flight  *)
(* counts no more than the handlers at work, subscribers no more than those   *)
(* not yet released.  commands counts no command whose write failed, and all  *)
(* that were written but for those whose handler is just between its write    *)
(* and its count; so it never lags what an observer of /events has been       *)
(* shown.  events counts the id-less frames read, each before it is shown.    *)
WasWritten(c) ==
    pc[c] \in {"count", "echo", "wait", "expire"} \/ answer[c].status \in Written

HealthHonest ==
    /\ Health.in_flight <= Cardinality({c \in Cmds : pc[c] \notin {"idle", "register", "done"}})
    /\ Health.commands = Cardinality({c \in Cmds : WasWritten(c) /\ pc[c] # "count"})
    /\ Health.commands >= Cardinality({c \in Cmds : Echoes(c) # {}})
    /\ Health.subscribers <= Cardinality({s \in Subs : spc[s] \in Serving})
    /\ Health.events = Cardinality({n \in 1..Len(log) : log[n].id = NoId})
                       + (IF rpc = "fan" THEN 1 ELSE 0)

(* The witness echo: a command is fanned out once it was written, never if    *)
(* its write failed, and exactly once, before its caller hears anything.      *)
EchoedOnce ==
    \A c \in Cmds :
        IF pc[c] \in {"wait", "expire"} \/ answer[c].status \in Written
        THEN \E n \in 1..Len(log) : Echoes(c) = {n}
        ELSE Echoes(c) = {}

(* Fan-out to a subscriber: what it took and what waits in its channel are    *)
(* frames of the wire in wire order, each once, none from before it           *)
(* registered; and every frame since is among them or found the channel full. *)
Seen(s) == got[s] \o buf[s]

Increasing(q) == \A i, j \in 1..Len(q) : i < j => q[i] < q[j]

FramesAccounted ==
    \A s \in Subs :
        LET seen == {Seen(s)[i] : i \in 1..Len(Seen(s))}
        IN /\ Increasing(Seen(s))
           /\ s \in subs => seen \cup lost[s] = (since[s] + 1)..Len(log)
           /\ seen \cap lost[s] = {}

(* /await answers with the first frame fanned out since it registered whose   *)
(* text contains the query; only a frame that was dropped from its full       *)
(* channel can come before it.  The echo of a command is such a frame, id and *)
(* all: AwaitIdless is what the comment of handleAwait says instead.          *)
AwaitFirstMatch ==
    \A a \in Awaits : outcome[a] = "event" =>
        LET n == got[a][Len(got[a])]
        IN /\ Matches(a, log[n])
           /\ \A m \in (since[a] + 1)..(n - 1) : Matches(a, log[m]) => m \in lost[a]

(* handleAwait "blocks until an id-less frame whose text contains `contains`  *)
(* arrives, then returns that one event" (line 265).  The code does not: what *)
(* it returns may be the echo of a command, which has an id.                  *)
AwaitIdless ==
    \A a \in Awaits : outcome[a] = "event" => log[got[a][Len(got[a])]].id = NoId

(* Once its command is written, or the write has failed, a caller is          *)
(* answered, whatever the browser does or leaves undone.                      *)
CommandAnswered ==
    \A c \in Cmds : pc[c] \in {"unregister", "count"} ~> pc[c] = "done"

(* After the browser hung up the reader gets through the rest of the frames,  *)
(* whoever has stopped listening, and shuts the hub down.                     *)
HangUpNoticed == ~up ~> rpc = "done"

(* The /events streams registered when the hub shuts down come to an end, and *)
(* an /await request does, whatever arrives or does not: unless a write to    *)
(* the client never returns, against which there is no deadline.               *)
SubscribersReleased ==
    \A s \in Subs : []<>(spc[s] # "write") =>
        /\ (s \in subs /\ rpc = "shutdown") ~> spc[s] = "done"
        /\ (s \in Awaits /\ spc[s] = "live") ~> spc[s] = "done"
=============================================================================
