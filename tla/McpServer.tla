----------------------------- MODULE McpServer -----------------------------
(* The stdio MCP server of cmd/mcp/main.go: one loop reads a JSON-RPC line,   *)
(* handles it to the end (handle, callTool, become) and writes its response   *)
(* before it reads the next.  Two tools reach out: http_request, the call     *)
(* atom, which with HTTP_MCP_WITNESS set first asks a witness to make the     *)
(* call (POST /fetch) and, when that does not work out, makes it itself; and  *)
(* bidi_command, which opens a WebSocket for one command, reads frames until  *)
(* the one with its id, and closes the socket on every way out.  A third,     *)
(* discover, asks one source after the other and reports what each one says.  *)
(*                                                                            *)
(* The input is a script of lines.  A tools/call line carries its steps: one  *)
(* for a plain call, any number for become, which runs them in order and goes *)
(* on after a step that failed.  A step may refer to the result of an earlier *)
(* one, by index or id, with a template in its args: "${key.result}" for all  *)
(* of it, "${key.result.field}" for a field of it.                            *)
EXTENDS Naturals, Sequences, FiniteSets, SequencesExt, FiniteSetsExt, TLC

CONSTANTS
    Scripts,    \* sessions: sequences of lines on stdin
    Witness,    \* whether HTTP_MCP_WITNESS is set
    Brokers,    \* the conventional broker ports, in order
    MaxSkips    \* bound on the frames bidi_command skips, one step at a time

NoId == 0
NoKey == ""
NoArg   == [is |-> "none", of |-> 0]
Literal == [is |-> "literal", of |-> 0]

(* kind: what handle makes of a line; tool: which tool a step calls, with     *)
(* "badauth" an http_request whose auth profile does not resolve, "badbidi" a *)
(* bidi_command without ws_url or method or with such a profile, "channels",  *)
(* "hub" and "session" a discover with neither, with hub_url, and with        *)
(* session_id too, and "none" a step of become without a tool; ref: the key   *)
(* its template names; field: whether it asks for the whole result, a field a *)
(* JSON result has, or one it has not.                                        *)
Kinds == {"initialize", "initialized", "ping", "list", "call", "badrecipe",
          "badparams", "unknown", "garbage"}
Tools == {"http", "badauth", "bidi", "badbidi", "channels", "hub", "session",
          "transports", "unknown", "none"}
Fields == {"result", "present", "absent"}
Step  == [tool : Tools, id : STRING, ref : STRING, field : Fields]
Line  == [id : Nat, kind : Kinds, steps : Seq(Step)]

ASSUME ScriptTypes == Scripts \subseteq Seq(Line)
ASSUME WitnessType == Witness \in BOOLEAN
ASSUME BrokerType ==        \* ports, each tried once
    Brokers \in Seq(STRING) /\ \A i, j \in 1..Len(Brokers) : Brokers[i] = Brokers[j] => i = j
ASSUME SkipBound == MaxSkips \in Nat

VARIABLES
    script,     \* the session this process is in
    pc,         \* read, handle, step, run, witness, direct, send, consume,
                \* discover, reply, exit
    at,         \* the line being handled
    step,       \* the step being run
    prior,      \* become's prior: the step a key stands for, and whether its
                \* result is an object
    arg,        \* what the template of the step became
    results,    \* outcomes of its steps so far
    out,        \* what was written to stdout: [id, what], and for which line
    fired,      \* [line, step, arg] of every time a target got a call
    recorded,   \* <<line, step>> of every call the witness has on record
    sockets,    \* <<line, step>> of the WebSockets that are open
    skipped,    \* frames skipped on the one in use
    todo,       \* the sources discover has yet to ask
    report,     \* its answer so far: <<source, what it says>>
    silent,     \* the sources that gave no usable answer
    heard       \* whether its witness answered

call    == <<step, prior, arg, results>>
effects == <<fired, recorded, sockets, skipped>>
survey  == <<todo, report, silent, heard>>
vars    == <<script, pc, at, call, out, effects, survey>>

Init ==
    /\ script \in Scripts
    /\ pc = "read" /\ at = 0 /\ step = 0
    /\ prior = <<>> /\ arg = NoArg
    /\ results = <<>> /\ out = <<>> /\ fired = <<>> /\ recorded = {}
    /\ sockets = {} /\ skipped = 0
    /\ todo = <<>> /\ report = {} /\ silent = {} /\ heard = FALSE

Cur  == script[at]
Here == <<at, step>>
Fire == [line |-> at, step |-> step, arg |-> arg]

send(what) == out' = Append(out, [id |-> Cur.id, what |-> what, line |-> at])

-----------------------------------------------------------------------------
(* main: the next line, or the end of stdin. *)
ReadLine ==
    /\ pc = "read"
    /\ IF at = Len(script)
       THEN pc' = "exit" /\ UNCHANGED at
       ELSE pc' = "handle" /\ at' = at + 1
    /\ UNCHANGED <<call, out, effects, survey>>

(* Lines that nobody answers: one that does not parse, a notification, and an *)
(* unknown method without an id.                                              *)
Ignore ==
    /\ pc = "handle"
    /\ \/ Cur.kind \in {"garbage", "initialized"}
       \/ Cur.kind = "unknown" /\ Cur.id = NoId
    /\ pc' = "read"
    /\ UNCHANGED <<at, call, out, effects, survey>>

(* Mutant of Answer: the id of an unknown method is not looked at. *)
AnswerAll ==
    /\ pc = "handle"
    /\ \/ Cur.kind \in {"initialize", "ping", "list", "badrecipe"} /\ send("result")
       \/ Cur.kind \in {"badparams", "unknown"} /\ send("error")
    /\ pc' = "read"
    /\ UNCHANGED <<at, call, effects, survey>>

(* Lines that are answered at once; become without a list of steps is one,    *)
(* with a result that says so.                                                *)
Answer ==
    /\ pc = "handle"
    /\ \/ Cur.kind \in {"initialize", "ping", "list", "badrecipe"} /\ send("result")
       \/ Cur.kind = "badparams" /\ send("error")
       \/ Cur.kind = "unknown" /\ Cur.id # NoId /\ send("error")
    /\ pc' = "read"
    /\ UNCHANGED <<at, call, effects, survey>>

(* Mutant of Call: the results of earlier calls stay in reach. *)
CallKeepsPrior ==
    /\ pc = "handle" /\ Cur.kind = "call"
    /\ pc' = "step" /\ step' = 1 /\ results' = <<>>
    /\ UNCHANGED <<at, prior, arg, out, effects, survey>>

(* tools/call *)
Call ==
    /\ pc = "handle" /\ Cur.kind = "call"
    /\ pc' = "step" /\ step' = 1 /\ results' = <<>> /\ prior' = <<>>
    /\ UNCHANGED <<at, arg, out, effects, survey>>

-----------------------------------------------------------------------------
(* become's loop over the steps; a plain call is a loop of one. *)

(* Outcomes whose text is a JSON object, so that a template can go into it; a *)
(* witnessed call comes back as plain text.                                   *)
Structured == {"response", "channel_response", "discovered", "transports"}

(* The keys of a step: its index, and the id it may have. *)
Index(s) == ToString(s - 1)
Keys(s)  == {Index(s), Cur.steps[s].id} \ {NoKey}

(* extractVal: the result goes into prior under the step's keys. *)
Done(outcome) ==
    /\ results' = Append(results, outcome)
    /\ prior' = [key \in DOMAIN prior \cup Keys(step) |->
                    IF key \in Keys(step)
                    THEN [of |-> step, object |-> outcome \in Structured] ELSE prior[key]]
    /\ step' = step + 1 /\ arg' = NoArg
    /\ pc' = "step"

(* resolveTpl: a template stays literal when nothing has its key, or when it  *)
(* asks for a field of a result that is no object; a field the object does    *)
(* not have makes it null.                                                    *)
Resolved(key, field) ==
    IF key \notin DOMAIN prior \/ (field # "result" /\ ~prior[key].object) THEN Literal
    ELSE [is |-> IF field = "absent" THEN "null" ELSE "value", of |-> prior[key].of]

resolveTpl ==
    /\ pc = "step" /\ step <= Len(Cur.steps) /\ Cur.steps[step].tool # "none"
    /\ arg' = IF Cur.steps[step].ref = NoKey THEN NoArg
              ELSE Resolved(Cur.steps[step].ref, Cur.steps[step].field)
    /\ pc' = "run"
    /\ UNCHANGED <<at, step, prior, results, out, effects, survey>>

Running(tool) == pc = "run" /\ Cur.steps[step].tool = tool

(* An http_request whose auth resolved goes to the witness if there is one. *)
HttpRequest ==
    /\ Running("http")
    /\ pc' = IF Witness THEN "witness" ELSE "direct"
    /\ UNCHANGED <<at, call, out, effects, survey>>

(* Mutant of AuthFails: the call is made without the credential. *)
AuthFailsOpen ==
    /\ Running("badauth")
    /\ pc' = "direct"
    /\ UNCHANGED <<at, call, out, effects, survey>>

(* auth.Resolve finds neither the environment variables nor a usable profile  *)
(* file: the call is not made.                                                *)
AuthFails ==
    /\ Running("badauth")
    /\ Done("auth_error")
    /\ UNCHANGED <<at, out, effects, survey>>

(* The transport manifest, or "unknown tool". *)
OtherTool ==
    /\ \E tool \in {"transports", "unknown"} : Running(tool) /\ Done(tool)
    /\ UNCHANGED <<at, out, effects, survey>>

(* A step without a tool ends become: the results of earlier steps are lost.  *)
NoTool ==
    /\ pc = "step" /\ step <= Len(Cur.steps) /\ Cur.steps[step].tool = "none"
    /\ results' = <<"no_tool">>
    /\ pc' = "reply"
    /\ UNCHANGED <<at, step, prior, arg, out, effects, survey>>

(* POST /fetch: the witness makes the call, records it and says so. *)
WitnessCalls ==
    /\ pc = "witness"
    /\ fired' = Append(fired, Fire)
    /\ recorded' = recorded \cup {Here}
    /\ Done("witnessed")
    /\ UNCHANGED <<at, out, sockets, skipped, survey>>

(* It cannot be reached, its answer is lost or comes too late, is not 2xx or  *)
(* has another shape: whatever it has made and recorded of the call, fall     *)
(* through to a direct fire.                                                  *)
WitnessSilent ==
    /\ pc = "witness"
    /\ fired' \in {fired, Append(fired, Fire)}
    /\ recorded' \in {recorded, recorded \cup {Here}}
    /\ pc' = "direct"
    /\ UNCHANGED <<at, call, out, sockets, skipped, survey>>

(* httpx.Do: the target answers, and its response is read to the end. *)
Direct ==
    /\ pc = "direct"
    /\ fired' = Append(fired, Fire)
    /\ Done("response")
    /\ UNCHANGED <<at, out, recorded, sockets, skipped, survey>>

(* httpx.Do fails: before the target got the call, or after. *)
DirectFails ==
    /\ pc = "direct"
    /\ fired' \in {fired, Append(fired, Fire)}
    /\ Done("failed")
    /\ UNCHANGED <<at, out, recorded, sockets, skipped, survey>>

-----------------------------------------------------------------------------
(* bidiCommand *)

(* An argument is missing, or the credential does not resolve or inject. *)
BidiRefused ==
    /\ Running("badbidi")
    /\ Done("refused")
    /\ UNCHANGED <<at, out, effects, survey>>

(* DialWithHeaders: the handshake completes, within its own timeout, or not. *)
Dial ==
    /\ Running("bidi")
    /\ sockets' = sockets \cup {Here}
    /\ pc' = "send"
    /\ UNCHANGED <<at, call, out, fired, recorded, skipped, survey>>

DialFails ==
    /\ Running("bidi")
    /\ Done("dial_failed")
    /\ UNCHANGED <<at, out, effects, survey>>

(* The outcome of the command, and the deferred conn.Close(). *)
Leave(outcome) ==
    /\ sockets' = sockets \ {Here} /\ skipped' = 0
    /\ Done(outcome)

(* WriteText returns nil: the kernel took the frame; the peer, which may have *)
(* gone away, has it or never will.                                           *)
WriteText ==
    /\ pc = "send"
    /\ fired' \in {fired, Append(fired, Fire)}
    /\ pc' = "consume"
    /\ UNCHANGED <<at, call, out, recorded, sockets, skipped, survey>>

(* Mutant of WriteFails: it returns before the Close is deferred. *)
WriteFailsLeaks ==
    /\ pc = "send"
    /\ Done("send_failed")
    /\ UNCHANGED <<at, out, effects, survey>>

(* The deadline passes, or the socket breaks, before the whole command is out. *)
WriteFails ==
    /\ pc = "send"
    /\ Leave("send_failed")
    /\ UNCHANGED <<at, out, fired, recorded, survey>>

(* A frame that is not JSON, has no id or another id: read on. *)
SkipFrame ==
    /\ pc = "consume" /\ skipped < MaxSkips
    /\ skipped' = skipped + 1
    /\ UNCHANGED <<pc, at, call, out, fired, recorded, sockets, survey>>

(* The frame with the id of the command, from a peer that has it. *)
BidiResponse ==
    /\ pc = "consume" /\ fired # <<>> /\ Last(fired) = Fire
    /\ Leave("channel_response")
    /\ UNCHANGED <<at, out, fired, recorded, survey>>

(* Close frame, broken socket, or the deadline of the whole exchange. *)
ReadFails ==
    /\ pc = "consume"
    /\ Leave("read_failed")
    /\ UNCHANGED <<at, out, fired, recorded, survey>>

-----------------------------------------------------------------------------
(* discover *)

(* A source: what is asked, and of which broker. *)
Health(b) == <<"health", b>>
Tree(b)   == <<"tree", b>>
Ask(what) == <<what, "">>

(* heldChannels asks the witness and, port by port, a broker for its health   *)
(* and its tabs; with hub_url the hub is asked for its status and probed with *)
(* the routes of the snapshots (SpecProbe), with session_id too for the       *)
(* session and for the three lists of an Appium server.                       *)
Channels == <<Ask("witness")>> \o [n \in 1..(2 * Len(Brokers)) |->
                IF n % 2 = 1 THEN Health(Brokers[(n + 1) \div 2]) ELSE Tree(Brokers[n \div 2])]

Sources(tool) ==
    Channels \o (IF tool = "channels" THEN <<>> ELSE <<Ask("status"), Ask("probe")>>)
             \o (IF tool # "session" THEN <<>>
                 ELSE <<Ask("caps"), Ask("commands"), Ask("extensions"), Ask("capabilities")>>)

Discover ==
    /\ \E tool \in {"channels", "hub", "session"} :
            Running(tool) /\ todo' = Sources(tool)
    /\ report' = {} /\ silent' = {} /\ heard' = FALSE
    /\ pc' = "discover"
    /\ UNCHANGED <<at, call, out, effects>>

(* The witness says it is alive: kept for the brokers' entries. *)
WitnessSays ==
    /\ pc = "discover" /\ todo # <<>> /\ Head(todo) = Ask("witness")
    /\ heard' = TRUE
    /\ todo' = Tail(todo)
    /\ UNCHANGED <<pc, at, call, out, effects, report, silent>>

(* Another source answers, with what that section of the report is made of;   *)
(* the entry of a broker also tells of the witness that answered.             *)
Says ==
    /\ pc = "discover" /\ todo # <<>> /\ Head(todo) # Ask("witness")
    /\ report' = report \cup
          {<<Head(todo), IF Head(todo)[1] = "health" /\ heard THEN "witnessed" ELSE "says">>}
    /\ todo' = Tail(todo)
    /\ UNCHANGED <<pc, at, call, out, effects, silent, heard>>

(* Mutant of Silent: the first port without a broker ends the search. *)
SilentStops ==
    /\ pc = "discover" /\ todo # <<>>
    /\ silent' = silent \cup {Head(todo)}
    /\ report' = report
    /\ todo' = IF Head(todo)[1] = "health" THEN <<>> ELSE Tail(todo)
    /\ UNCHANGED <<pc, at, call, out, effects, heard>>

(* It does not, in time or with 200 where that is asked for: its section is   *)
(* left out, or says so; a broker without health is not asked for its tabs.   *)
Silent ==
    /\ pc = "discover" /\ todo # <<>>
    /\ silent' = silent \cup {Head(todo)}
    /\ report' = IF Head(todo)[1] \in {"status", "caps"}
                 THEN report \cup {<<Head(todo), "error">>} ELSE report
    /\ todo' = IF Head(todo)[1] = "health" THEN Tail(Tail(todo)) ELSE Tail(todo)
    /\ UNCHANGED <<pc, at, call, out, effects, heard>>

Discovered ==
    /\ pc = "discover" /\ todo = <<>>
    /\ Done("discovered")
    /\ report' = {} /\ silent' = {} /\ heard' = FALSE
    /\ UNCHANGED <<at, out, effects, todo>>

-----------------------------------------------------------------------------
StepsDone ==
    /\ pc = "step" /\ step > Len(Cur.steps)
    /\ pc' = "reply"
    /\ UNCHANGED <<at, call, out, effects, survey>>

(* s.ok(req.ID, result) *)
Respond ==
    /\ pc = "reply"
    /\ send(results)
    /\ pc' = "read" /\ step' = 0 /\ results' = <<>>
    /\ UNCHANGED <<at, prior, arg, effects, survey>>

Terminated == pc = "exit" /\ UNCHANGED vars

Next ==
    /\ UNCHANGED script
    /\ \/ ReadLine \/ Ignore \/ Answer \/ Call \/ resolveTpl \/ HttpRequest \/ AuthFails
       \/ OtherTool \/ NoTool \/ WitnessCalls \/ WitnessSilent \/ Direct \/ DirectFails
       \/ BidiRefused \/ Dial \/ DialFails \/ WriteText \/ WriteFails \/ SkipFrame
       \/ BidiResponse \/ ReadFails \/ Discover \/ WitnessSays \/ Says \/ Silent
       \/ Discovered \/ StepsDone \/ Respond \/ Terminated

Spec == Init /\ [][Next]_vars

-----------------------------------------------------------------------------
(* Properties *)

(* How often a target got the call of step s of line l. *)
Fires(l, s) == Cardinality({n \in 1..Len(fired) : fired[n].line = l /\ fired[n].step = s})

(* The lines that are owed a response. *)
Owed(l) == /\ script[l].kind \notin {"garbage", "initialized"}
           /\ script[l].kind = "unknown" => script[l].id # NoId

(* Stdout carries one response for each line that is owed one, in the order   *)
(* of the lines, and no other; the line under way is answered last.           *)
AnswersInOrder ==
    /\ \A i, j \in 1..Len(out) : i < j => out[i].line < out[j].line
    /\ {out[i].line : i \in 1..Len(out)} =
          {l \in 1..(IF pc \in {"read", "exit"} THEN at ELSE at - 1) : Owed(l)}
    /\ \A i \in 1..Len(out) : out[i].id = script[out[i].line].id

(* The most calls a step may come to: none without a target, one through a    *)
(* channel, and for an http_request one by the witness, which may not have    *)
(* been heard, and one by the server.                                         *)
Most(tool) == IF tool \notin {"http", "bidi"} THEN 0
              ELSE IF tool = "http" /\ Witness THEN 2 ELSE 1

(* What was called is never more than the response lets one think, and        *)
(* nothing runs ahead: no step that the response does not come to (behind one *)
(* without a tool) was made, a refused one and one that could not dial or     *)
(* send was not, a command on a channel went out at most once, and an         *)
(* answered call reached its target.  An http_request is made twice only with *)
(* a witness, by it and again by the server that did not hear it; "witnessed" *)
(* stands for exactly one call, that the witness has on record.               *)
OutcomesHonest ==
    pc \in {"step", "reply"} =>
        /\ \A s \in 1..Len(Cur.steps) :
              Fires(at, s) <= IF s < step THEN Most(Cur.steps[s].tool) ELSE 0
        /\ results # <<"no_tool">> => \A s \in 1..Len(results) :
              /\ results[s] = "witnessed" => Fires(at, s) = 1 /\ <<at, s>> \in recorded
              /\ results[s] = "channel_response" => Fires(at, s) = 1
              /\ results[s] = "response" => Fires(at, s) > 0
              /\ results[s] \in {"refused", "dial_failed", "send_failed"} => Fires(at, s) = 0

(* The connection is per call: whatever became of a bidi_command, its socket  *)
(* is closed before the next step, the response or the next line.             *)
SocketPerCall == sockets \subseteq {Here} /\ (sockets # {} => pc \in {"send", "consume"})

(* A call goes out with what its template names in the results of this        *)
(* composition and no other: the last step so far with that index or id, all  *)
(* of its result or the field of it; null when that result has no such field; *)
(* and with the bare template when no step has the key or a field is asked of *)
(* plain text.                                                                *)
Named(s, key) == {t \in 1..(s - 1) : key \in Keys(t)}

Meant(s, key, field) ==
    LET steps == Named(s, key)
    IN IF steps = {} \/ (field # "result" /\ results[Max(steps)] \notin Structured) THEN Literal
       ELSE [is |-> IF field = "absent" THEN "null" ELSE "value", of |-> Max(steps)]

TemplatesOfThisCall ==
    pc \in {"step", "run", "witness", "direct", "send", "consume", "discover"} =>
        \A f \in Range(fired) : f.line = at /\ Cur.steps[f.step].ref # NoKey =>
            f.arg = Meant(f.step, Cur.steps[f.step].ref, Cur.steps[f.step].field)

(* Re-perceiving loses no broker, hub or session that answered: when discover *)
(* is through, every source its arguments call for has its section or was     *)
(* silent, also behind a port without a broker, and only the tabs of such a   *)
(* port were not asked for.  The witness has no section of its own: every     *)
(* broker that answered tells of it exactly when it did, so that without a    *)
(* broker its answer is lost.                                                 *)
DiscoverComplete ==
    pc = "discover" /\ todo = <<>> =>
        LET said    == {r[1] : r \in {q \in report : q[2] # "error"}}
            unasked == {Tree(b) : b \in {p \in Range(Brokers) : Health(p) \in silent}}
            witness == IF heard THEN {Ask("witness")} ELSE {}
        IN /\ said \cup silent \cup unasked \cup witness = Range(Sources(Cur.steps[step].tool))
           /\ said \cap silent = {} /\ (said \cup silent) \cap unasked = {}
           /\ witness \cap (said \cup silent) = {}
           /\ \A b \in Range(Brokers) : Health(b) \in said =>
                 <<Health(b), IF heard THEN "witnessed" ELSE "says">> \in report
=============================================================================
