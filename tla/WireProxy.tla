----------------------------- MODULE WireProxy -----------------------------
(* The witness proxy of cmd/wire/main.go: every HTTP call is forwarded to the *)
(* upstream (or answered locally, /host), then, with -replay, written as one  *)
(* numbered line to the replay file (replayLog.write) and, with -witness,     *)
(* posted, fire and forget, to the collector's ledger under that number.      *)
(* Calls are handled concurrently; the file outlives the process, the counter *)
(* does not.  A write to the file may fail, whole or in the middle of a line: *)
(* its error is ignored, so what comes next is stuck to the torn line.        *)
(*                                                                            *)
(* The reverse proxy is net/http/httputil's: when the upstream cannot be      *)
(* reached it answers 502 without calling ModifyResponse, a 101 it answers    *)
(* with 502 if the body cannot be written to, and when the copy of the        *)
(* response body breaks it aborts the handler with a panic.                   *)
EXTENDS Naturals, Sequences, FiniteSets

CONSTANTS
    Proxied,        \* calls that go to the upstream
    Local,          \* calls of /host, which the wire answers itself
    Statuses,       \* what the upstream may answer
    MaxRestarts,    \* bound on the restarts of the process
    MaxFaults       \* bound on the writes to the file that fail

Calls == Proxied \cup Local

NoStatus == 0
Switching == 101
OK == 200
BadGateway == 502
Unnumbered == 0     \* the -1 of replayLog.write: session "mitm"

ASSUME CallSets == Proxied \cap Local = {}
ASSUME StatusSet == Statuses \subseteq Nat /\ NoStatus \notin Statuses
ASSUME WireBounds == MaxRestarts \in Nat /\ MaxFaults \in Nat

VARIABLES
    pc,         \* where the handler of each call is
    verdict,    \* rec.status of each call
    told,       \* the status its client got, NoStatus before that
    number,     \* the seq its record was given, Unnumbered before that
    replaying,  \* whether this process was given -replay
    witnessing, \* whether this process was given -witness
    seq,        \* replayLog.seq
    file,       \* the replay file: what each write left, a row, whole or torn
    posts,      \* POSTs to the collector under way
    ledger,     \* rows the collector has
    restarts,   \* how often the process was started again
    faults      \* how many writes failed

handlers == <<pc, verdict, told, number>>
process  == <<replaying, witnessing, seq, restarts>>
records  == <<file, posts, ledger, faults>>
vars == <<handlers, process, records>>

Init ==
    /\ pc = [k \in Calls |-> "idle"]
    /\ verdict = [k \in Calls |-> NoStatus]
    /\ told = [k \in Calls |-> NoStatus]
    /\ number = [k \in Calls |-> Unnumbered]
    /\ replaying \in BOOLEAN /\ witnessing \in BOOLEAN
    /\ seq = 0 /\ restarts = 0
    /\ file = <<>> /\ posts = {} /\ ledger = {} /\ faults = 0

Goto(k, from, to) == pc[k] = from /\ pc' = [pc EXCEPT ![k] = to]

(* What line and ledger say of a call; run, the process that handled it, is   *)
(* not in them: it tells equal numbers of two runs apart.                     *)
Row(k) == [seq |-> number[k], call |-> k, status |-> verdict[k], run |-> restarts]

-----------------------------------------------------------------------------
(* /host: answered by the wire itself, and witnessed like any other call. *)
ServeHost(k) ==
    /\ k \in Local
    /\ Goto(k, "idle", "record")
    /\ verdict' = [verdict EXCEPT ![k] = OK]
    /\ told' = [told EXCEPT ![k] = OK]
    /\ UNCHANGED <<number, process, records>>

(* The proxy passes the request on. *)
Forward(k) ==
    /\ k \in Proxied
    /\ Goto(k, "idle", "upstream")
    /\ UNCHANGED <<verdict, told, number, process, records>>

(* Mutant of observe: it notes that a response came, not which. *)
observeCoarse(k, status) ==
    /\ status # Switching
    /\ Goto(k, "upstream", "copy")
    /\ verdict' = [verdict EXCEPT ![k] = OK]
    /\ told' = [told EXCEPT ![k] = status]
    /\ UNCHANGED <<number, process, records>>

(* ModifyResponse: observe notes the status; the proxy sends it on. *)
observe(k, status) ==
    /\ status # Switching
    /\ Goto(k, "upstream", "copy")
    /\ verdict' = [verdict EXCEPT ![k] = status]
    /\ told' = [told EXCEPT ![k] = status]
    /\ UNCHANGED <<number, process, records>>

(* The upstream switches protocols.  observe notes the 101 and puts a body    *)
(* that can only be read in the place of the connection, so the proxy, which  *)
(* needs to write to it, answers 502 and ServeHTTP returns.                   *)
observeSwitch(k) ==
    /\ Switching \in Statuses
    /\ Goto(k, "upstream", "record")
    /\ verdict' = [verdict EXCEPT ![k] = Switching]
    /\ told' = [told EXCEPT ![k] = BadGateway]
    /\ UNCHANGED <<number, process, records>>

(* The body was copied, ServeHTTP returns. *)
Copied(k) ==
    /\ Goto(k, "copy", "record")
    /\ UNCHANGED <<verdict, told, number, process, records>>

(* The copy broke: ServeHTTP panics with ErrAbortHandler and the rest of the  *)
(* handler does not run.                                                      *)
Aborted(k) ==
    /\ Goto(k, "copy", "aborted")
    /\ UNCHANGED <<verdict, told, number, process, records>>

(* The upstream cannot be reached: the proxy's error handler answers. *)
Unreachable(k) ==
    /\ Goto(k, "upstream", "record")
    /\ told' = [told EXCEPT ![k] = BadGateway]
    /\ UNCHANGED <<verdict, number, process, records>>

(* Mutant of TakeSeq: the increment of one handler is lost to another. *)
TakeSeqRaces(k) ==
    /\ replaying
    /\ Goto(k, "record", "write")
    /\ seq' \in {seq, seq + 1}
    /\ number' = [number EXCEPT ![k] = seq + 1]
    /\ UNCHANGED <<verdict, told, replaying, witnessing, restarts, records>>

(* replayLog.write: seq := l.seq.Add(1), before the lock ... *)
TakeSeq(k) ==
    /\ replaying
    /\ Goto(k, "record", "write")
    /\ seq' = seq + 1
    /\ number' = [number EXCEPT ![k] = seq + 1]
    /\ UNCHANGED <<verdict, told, replaying, witnessing, restarts, records>>

(* ... and the line under it, ... *)
WriteLine(k) ==
    /\ Goto(k, "write", "post")
    /\ file' = Append(file, [row |-> Row(k), whole |-> TRUE])
    /\ UNCHANGED <<verdict, told, number, process, posts, ledger, faults>>

(* ... of which a full disk takes nothing, or a part; nobody looks. *)
WriteFails(k) ==
    /\ faults < MaxFaults
    /\ Goto(k, "write", "post")
    /\ file' \in {file, Append(file, [row |-> Row(k), whole |-> FALSE])}
    /\ faults' = faults + 1
    /\ UNCHANGED <<verdict, told, number, process, posts, ledger>>

(* Without -replay there is no file, and write returns -1. *)
NoReplay(k) ==
    /\ ~replaying
    /\ Goto(k, "record", "post")
    /\ UNCHANGED <<verdict, told, number, process, records>>

(* go func: POST /witnessed with session "mitm#<seq>"; the handler returns. *)
Post(k) ==
    /\ Goto(k, "post", "ended")
    /\ posts' = IF witnessing THEN posts \cup {Row(k)} ELSE posts
    /\ UNCHANGED <<verdict, told, number, process, file, ledger, faults>>

(* The collector records it, or does not: nobody looks at the answer. *)
Witnessed(r) ==
    /\ posts' = posts \ {r}
    /\ ledger' \in {ledger, ledger \cup {r}}
    /\ UNCHANGED <<handlers, process, file, faults>>

(* The process ends and is started again, perhaps with other flags, on the    *)
(* same file: O_APPEND keeps what is there, the counter begins anew, calls    *)
(* and posts under way are gone.                                              *)
Restart ==
    /\ restarts < MaxRestarts
    /\ restarts' = restarts + 1
    /\ replaying' \in BOOLEAN /\ witnessing' \in BOOLEAN
    /\ seq' = 0 /\ posts' = {}
    /\ pc' = [k \in Calls |-> IF pc[k] \in {"idle", "ended", "aborted"} THEN pc[k] ELSE "killed"]
    /\ UNCHANGED <<verdict, told, number, file, ledger, faults>>

Terminated ==
    /\ \A k \in Calls : pc[k] \in {"ended", "aborted", "killed"}
    /\ posts = {} /\ restarts = MaxRestarts
    /\ UNCHANGED vars

Next ==
    \/ \E k \in Calls : \/ ServeHost(k) \/ Forward(k) \/ Copied(k) \/ Aborted(k)
                        \/ Unreachable(k) \/ NoReplay(k) \/ TakeSeq(k)
                        \/ WriteLine(k) \/ WriteFails(k) \/ Post(k) \/ observeSwitch(k)
                        \/ \E status \in Statuses : observe(k, status)
    \/ \E r \in posts : Witnessed(r)
    \/ Restart
    \/ Terminated

Spec == Init /\ [][Next]_vars

-----------------------------------------------------------------------------
(* Properties *)

Written == {file[n].row : n \in 1..Len(file)}

(* Every variable has its type; line numbers start at 1, and a run without    *)
(* -replay writes none.                                                       *)
TypeOK ==
    /\ pc \in [Calls -> {"idle", "upstream", "copy", "record", "write", "post",
                         "ended", "aborted", "killed"}]
    /\ verdict \in [Calls -> Statuses \cup {NoStatus, OK}]
    /\ told \in [Calls -> Statuses \cup {NoStatus, OK, BadGateway}]
    /\ number \in [Calls -> Nat] /\ seq \in Nat
    /\ replaying \in BOOLEAN /\ witnessing \in BOOLEAN
    /\ restarts \in 0..MaxRestarts /\ faults \in 0..MaxFaults
    /\ \A n \in 1..Len(file) : file[n].whole \in BOOLEAN
    /\ \A r \in Written : r.seq # Unnumbered
    /\ \A r \in Written \cup posts \cup ledger :
            /\ r.call \in Calls /\ r.seq \in Nat /\ r.run \in 0..restarts
            /\ r.status = verdict[r.call]

(* Lines that a reader of the file can parse: whole, and not stuck to one     *)
(* that was torn off before its newline.                                      *)
Readable == {n \in 1..Len(file) : /\ file[n].whole
                                  /\ n = 1 \/ file[n - 1].whole}

(* "The ledger row carries seq so a witnessed call can be joined back to its  *)
(* replay line": of the lines that may be meant, exactly one has the row's    *)
(* number, and it is the line of the row's own call.                          *)
Joins(r, lines) ==
    \E n \in lines : /\ file[n].row = r
                     /\ \A m \in lines : file[m].row.seq = r.seq => m = n

Numbered(rows) == {r \in rows : r.seq # Unnumbered}

LedgerJoins == \A r \in Numbered(ledger) : Joins(r, Readable)

(* Among the lines of its own run every row can be joined, from the moment it *)
(* is posted, whatever the order in which concurrent handlers take numbers    *)
(* and write lines: a write that fails costs at most its own line and the one *)
(* stuck to it, and no row is ever joined to the line of another call.        *)
OwnRun(r) == {n \in Readable : file[n].row.run = r.run}

JoinsWithinRun ==
    /\ Cardinality({r \in Numbered(ledger \cup posts) : ~Joins(r, OwnRun(r))})
            <= 2 * faults
    /\ \A r \in Numbered(ledger \cup posts) : \A n \in OwnRun(r) :
            file[n].row.seq = r.seq => file[n].row = r

(* A call has at most one line, and the status on it, as in the ledger, is    *)
(* the one its client got; but when the wire itself answered with 502, line   *)
(* and ledger say nothing (a dead upstream) or 101 (an upstream that switched *)
(* protocols).  With -replay a handler that gets to its end has left its line *)
(* unless a write failed.  One that the proxy aborted leaves none, and no row *)
(* either, against "logs one line per call" (line 3) and "every act leaves a  *)
(* trace" (line 140).                                                         *)
OneHonestLine ==
    /\ \A m, n \in 1..Len(file) : file[m].row.call = file[n].row.call => m = n
    /\ \A r \in Written \cup posts \cup ledger :
            \/ r.status = told[r.call]
            \/ told[r.call] = BadGateway /\ r.status \in {NoStatus, Switching}
    /\ \A k \in Calls : pc[k] = "aborted" =>
            \A r \in Written \cup posts \cup ledger : r.call # k
    /\ \A k \in Calls : (pc[k] = "ended" /\ number[k] # Unnumbered /\ faults = 0) =>
            \E r \in Written : r.call = k
=============================================================================
