------------------------------- MODULE WsConn -------------------------------
(* The WebSocket client of internal/wsx/wsx.go, as its two users drive it.    *)
(* The broker (cmd/channel) holds a connection: many goroutines WriteText,    *)
(* one calls ReadText, no deadline is set and nobody closes it.  bidi_command *)
(* (cmd/mcp) has one per call: a deadline for the whole exchange, one write,  *)
(* reads until it has what it wants, and a deferred Close.                    *)
(*                                                                            *)
(* The socket takes a frame in two pieces, blocks while its buffer is full,   *)
(* and may fail between them; masking and the length header are in WsFrame.   *)
(* The peer is the environment: it may stop reading, send what it likes and   *)
(* go away.                                                                   *)
EXTENDS Naturals, Sequences

CONSTANTS
    Writers,    \* goroutines that call WriteText, each once
    Reader,     \* the goroutine that calls ReadText, and answers pings
    Closer,     \* the deferred Close of bidi_command
    None,       \* nobody
    SockCap,    \* pieces the socket's send buffer holds
    MaxIn       \* bound on the frames the peer sends

Actors == Writers \cup {Reader, Closer}
Ops    == {"text", "ping", "close", "other"}   \* other: pong, binary, continuation
Piece  == [by : Actors, what : Nat, part : {"head", "tail"}]

ASSUME ActorsDistinct ==
    /\ Reader \notin Writers /\ Closer \notin Writers /\ Reader # Closer
    /\ None \notin Actors
ASSUME Bounds == SockCap \in Nat \ {0} /\ MaxIn \in Nat

VARIABLES
    perCall,    \* whether this is bidi_command's connection or the broker's
    phase,      \* dial, open, refused or closed
    armed,      \* a deadline is set on the socket
    expired,    \* and has passed
    wmu,        \* who holds the write lock
    wpc,        \* where each actor is in write
    what,       \* what it writes: for a pong the number of the ping, else 0
    rpc,        \* where the reader is: read, pong, stop, eof or err
    returned,   \* numbers of the frames whose text ReadText returned
    consumed,   \* frames read so far
    inlog,      \* what the peer sent
    stream,     \* pieces the socket took while the peer was there
    taken,      \* how many of them the peer has read
    up          \* the peer is there

dialVars == <<perCall, phase, armed, expired>>
writeVars == <<wmu, wpc, what>>
readVars == <<rpc, returned, consumed>>
peerVars == <<inlog, taken, up>>
vars == <<dialVars, writeVars, readVars, stream, peerVars>>

(* DialWithHeaders has the raw connection, with the dial timeout as deadline. *)
Init ==
    /\ perCall \in BOOLEAN /\ phase = "dial"
    /\ armed = TRUE /\ expired = FALSE
    /\ wmu = None
    /\ wpc = [a \in Actors |-> "idle"]
    /\ what = [a \in Actors |-> 0]
    /\ rpc = "read" /\ returned = <<>> /\ consumed = 0
    /\ inlog = <<>> /\ stream = <<>> /\ taken = 0 /\ up = TRUE

Returned(a) == wpc[a] \in {"ok", "failed"}
-----------------------------------------------------------------------------
(* DialWithHeaders: what the server answers to the upgrade request: a status  *)
(* and its Sec-WebSocket-Accept headers, right or wrong; the last one counts. *)

Accepts == {<<>>} \cup {<<x>> : x \in BOOLEAN} \cup {<<x, y>> : x, y \in BOOLEAN}
Replies == [switching : BOOLEAN, accepts : Accepts]

Proven(reply) ==
    /\ reply.switching
    /\ reply.accepts # <<>> /\ reply.accepts[Len(reply.accepts)]

(* Mutant of Upgrade: the deadline of the handshake stays on the socket. *)
UpgradeKeepsDeadline ==
    /\ phase = "dial" /\ \E reply \in Replies : Proven(reply)
    /\ phase' = "open"
    /\ UNCHANGED <<perCall, armed, expired, writeVars, readVars, stream, peerVars>>

(* The handshake is proven, and the deadline cleared, even if it has passed   *)
(* since the last line was buffered.                                          *)
Upgrade ==
    /\ phase = "dial" /\ \E reply \in Replies : Proven(reply)
    /\ phase' = "open"
    /\ armed' = FALSE /\ expired' = FALSE
    /\ UNCHANGED <<perCall, writeVars, readVars, stream, peerVars>>

(* The upgrade is refused or not proven, or a read or write of the handshake  *)
(* fails: the socket is closed and Dial returns an error.                     *)
DialFails ==
    /\ phase = "dial" /\ \E reply \in Replies : ~Proven(reply) \/ expired \/ ~up
    /\ phase' = "refused"
    /\ UNCHANGED <<perCall, armed, expired, writeVars, readVars, stream, peerVars>>

(* bidi_command: conn.SetDeadline(now + timeout), before anything is written. *)
SetDeadline ==
    /\ perCall /\ phase = "open" /\ ~armed
    /\ armed' = TRUE
    /\ UNCHANGED <<perCall, phase, expired, writeVars, readVars, stream, peerVars>>

Expire ==
    /\ armed /\ ~expired
    /\ expired' = TRUE
    /\ UNCHANGED <<perCall, phase, armed, writeVars, readVars, stream, peerVars>>

-----------------------------------------------------------------------------
(* write: every frame goes out under wmu *)

Start(a, n) ==
    /\ wpc' = [wpc EXCEPT ![a] = "lock"]
    /\ what' = [what EXCEPT ![a] = n]

(* Mutant of Lock: nobody waits for anybody. *)
LockFree(a) ==
    /\ wpc[a] = "lock"
    /\ wmu' = a
    /\ wpc' = [wpc EXCEPT ![a] = "head"]
    /\ UNCHANGED <<dialVars, what, readVars, stream, peerVars>>

Lock(a) ==
    /\ wpc[a] = "lock" /\ wmu = None
    /\ wmu' = a
    /\ wpc' = [wpc EXCEPT ![a] = "head"]
    /\ UNCHANGED <<dialVars, what, readVars, stream, peerVars>>

(* The socket took a piece; after the second one write unlocks and returns.   *)
Advance(a) ==
    /\ wpc[a] \in {"head", "tail"}
    /\ wpc' = [wpc EXCEPT ![a] = IF @ = "head" THEN "tail" ELSE "ok"]
    /\ wmu' = IF wpc[a] = "head" THEN wmu ELSE None
    /\ UNCHANGED <<dialVars, what, readVars, peerVars>>

Room == Len(stream) - taken < SockCap

Push(a) ==
    /\ up /\ ~expired /\ Room
    /\ stream' = Append(stream, [by |-> a, what |-> what[a], part |-> wpc[a]])
    /\ Advance(a)

(* After the peer went away the kernel may still take bytes. *)
PushLost(a) ==
    /\ ~up /\ ~expired
    /\ Advance(a)
    /\ UNCHANGED stream

(* Mutant of PushFails: an error returns without the deferred unlock. *)
PushFailsLocked(a) ==
    /\ ~up \/ expired
    /\ wpc[a] \in {"head", "tail"}
    /\ wpc' = [wpc EXCEPT ![a] = "failed"]
    /\ UNCHANGED <<wmu, dialVars, what, readVars, stream, peerVars>>

(* The socket is broken or the deadline has passed, perhaps in mid-frame.     *)
PushFails(a) ==
    /\ ~up \/ expired
    /\ wpc[a] \in {"head", "tail"}
    /\ wpc' = [wpc EXCEPT ![a] = "failed"]
    /\ wmu' = None
    /\ UNCHANGED <<dialVars, what, readVars, stream, peerVars>>

(* WriteText: any time on a held connection; once, after the deadline is set, *)
(* on bidi_command's.                                                         *)
WriteText(w) ==
    /\ phase = "open" /\ wpc[w] = "idle"
    /\ perCall => armed /\ \A v \in Writers : wpc[v] = "idle"
    /\ Start(w, 0)
    /\ UNCHANGED <<wmu, dialVars, readVars, stream, peerVars>>

-----------------------------------------------------------------------------
(* ReadText *)

Reading ==
    /\ phase = "open" /\ rpc = "read"
    /\ perCall => \E w \in Writers : wpc[w] = "ok"

(* Mutant of ReadFrame: every data frame is returned as text. *)
ReadFrameAny ==
    /\ Reading /\ consumed < Len(inlog)
    /\ consumed' = consumed + 1
    /\ LET op == inlog[consumed + 1]
       IN /\ returned' = IF op \in {"text", "other"}
                         THEN Append(returned, consumed + 1) ELSE returned
          /\ rpc' = (CASE op = "close" -> "eof" [] op = "ping" -> "pong"
                       [] OTHER -> "read")
          /\ IF op = "ping" THEN Start(Reader, consumed + 1) ELSE UNCHANGED <<wpc, what>>
    /\ UNCHANGED <<wmu, dialVars, stream, peerVars>>

(* One turn of its loop: return a text, end at a close frame, answer a ping,  *)
(* skip the rest.  Bytes already buffered are read even past the deadline.    *)
ReadFrame ==
    /\ Reading /\ consumed < Len(inlog)
    /\ consumed' = consumed + 1
    /\ LET op == inlog[consumed + 1]
       IN /\ returned' = IF op = "text" THEN Append(returned, consumed + 1) ELSE returned
          /\ rpc' = (CASE op = "close" -> "eof" [] op = "ping" -> "pong"
                       [] OTHER -> "read")
          /\ IF op = "ping" THEN Start(Reader, consumed + 1) ELSE UNCHANGED <<wpc, what>>
    /\ UNCHANGED <<wmu, dialVars, stream, peerVars>>

(* writeControl returned: read on, or pass the error up. *)
Ponged ==
    /\ rpc = "pong" /\ Returned(Reader)
    /\ rpc' = IF wpc[Reader] = "ok" THEN "read" ELSE "err"
    /\ wpc' = [wpc EXCEPT ![Reader] = "idle"]
    /\ UNCHANGED <<wmu, what, dialVars, returned, consumed, stream, peerVars>>

ReadFails ==
    /\ Reading /\ (~up \/ expired)
    /\ rpc' = "err"
    /\ UNCHANGED <<dialVars, writeVars, returned, consumed, stream, peerVars>>

(* bidi_command has its response and reads no more. *)
Enough ==
    /\ perCall /\ Reading /\ returned # <<>>
    /\ rpc' = "stop"
    /\ UNCHANGED <<dialVars, writeVars, returned, consumed, stream, peerVars>>

(* The deferred Close: a close frame, whose error is ignored, ... *)
Close ==
    /\ perCall /\ phase = "open" /\ wpc[Closer] = "idle"
    /\ rpc \in {"stop", "eof", "err"} \/ \E w \in Writers : wpc[w] = "failed"
    /\ Start(Closer, 0)
    /\ UNCHANGED <<wmu, dialVars, readVars, stream, peerVars>>

(* ... then raw.Close(). *)
CloseSocket ==
    /\ phase = "open" /\ Returned(Closer)
    /\ phase' = "closed"
    /\ UNCHANGED <<perCall, armed, expired, writeVars, readVars, stream, peerVars>>

-----------------------------------------------------------------------------
(* The peer *)

PeerSends(op) ==
    /\ up /\ phase = "open" /\ Len(inlog) < MaxIn
    /\ inlog' = Append(inlog, op)
    /\ UNCHANGED <<dialVars, writeVars, readVars, stream, taken, up>>

PeerReads ==
    /\ up /\ taken < Len(stream)
    /\ taken' = taken + 1
    /\ UNCHANGED <<dialVars, writeVars, readVars, stream, inlog, up>>

PeerLeaves ==
    /\ up
    /\ up' = FALSE
    /\ UNCHANGED <<dialVars, writeVars, readVars, stream, inlog, taken>>

-----------------------------------------------------------------------------
Terminated ==
    /\ \/ phase \in {"refused", "closed"}
       \/ ~perCall /\ rpc \in {"eof", "err"} /\ \A w \in Writers : Returned(w)
    /\ UNCHANGED vars

Write(a) == Lock(a) \/ Push(a) \/ PushLost(a) \/ PushFails(a)

Next ==
    \/ Upgrade \/ DialFails \/ SetDeadline \/ Expire
    \/ \E a \in Actors : Write(a)
    \/ \E w \in Writers : WriteText(w)
    \/ ReadFrame \/ Ponged \/ ReadFails \/ Enough \/ Close \/ CloseSocket
    \/ \E op \in Ops : PeerSends(op)
    \/ PeerReads \/ PeerLeaves
    \/ Terminated

Spec == Init /\ [][Next]_vars

(* Goroutines that can run do, a Go mutex is not withheld for ever from one   *)
(* that waits, and deadlines pass.  Nothing makes the peer read, send or go.  *)
Fairness ==
    /\ WF_vars(phase = "dial" /\ expired /\ DialFails)
    /\ WF_vars(SetDeadline) /\ WF_vars(Expire)
    /\ \A a \in Actors : SF_vars(Lock(a)) /\ WF_vars(Push(a) \/ PushLost(a) \/ PushFails(a))
    /\ WF_vars(perCall /\ \E w \in Writers : WriteText(w))
    /\ WF_vars(ReadFrame \/ ReadFails) /\ WF_vars(Ponged)
    /\ WF_vars(Close) /\ WF_vars(CloseSocket)

FairSpec == Spec /\ Fairness
-----------------------------------------------------------------------------
(* Properties *)

(* Every variable has its type, and the peer has read no more than was sent.  *)
TypeOK ==
    /\ perCall \in BOOLEAN /\ armed \in BOOLEAN /\ expired \in BOOLEAN /\ up \in BOOLEAN
    /\ phase \in {"dial", "open", "refused", "closed"}
    /\ wmu \in Actors \cup {None}
    /\ wpc \in [Actors -> {"idle", "lock", "head", "tail", "ok", "failed"}]
    /\ what \in [Actors -> Nat]
    /\ rpc \in {"read", "pong", "stop", "eof", "err"}
    /\ returned \in Seq(Nat) /\ consumed \in Nat /\ inlog \in Seq(Ops)
    /\ stream \in Seq(Piece)
    /\ taken \in 0..Len(stream)

(* Two pieces that make up one frame. *)
Joins(p, q) == p.part = "head" /\ q.part = "tail" /\ p.by = q.by /\ p.what = q.what

(* A sequence of whole frames, except that the last one may lack its tail.    *)
Whole(s) ==
    \A n \in 1..Len(s) :
        IF s[n].part = "tail" THEN n > 1 /\ Joins(s[n - 1], s[n])
        ELSE n < Len(s) => Joins(s[n], s[n + 1])

(* "wmu serializes all writes so their frames never interleave": on the wire  *)
(* each head is followed by the tail of the same frame and by nothing else,   *)
(* though callers, pongs and the close frame are written by different         *)
(* goroutines, and a deadline may pass or the socket fail in mid-frame.       *)
FramesIntact == Whole(stream)

(* The numbers of the frames of one kind that were read, and where on the     *)
(* wire a pong begins; its what is the number of the ping it answers.         *)
Read(op)  == {i \in 1..consumed : inlog[i] = op}
PongHeads == {n \in 1..Len(stream) : stream[n].by = Reader /\ stream[n].part = "head"}

(* ReadText returns every text frame and nothing else, in order; and while    *)
(* the peer is there each ping read so far is answered once, in order, before *)
(* the next frame is read.                                                    *)
ReaderFaithful ==
    /\ \A i, j \in 1..Len(returned) : i < j => returned[i] < returned[j]
    /\ {returned[i] : i \in 1..Len(returned)} = Read("text")
    /\ up /\ rpc \notin {"pong", "err"} =>
          /\ \A m, n \in PongHeads : m < n => stream[m].what < stream[n].what
          /\ {stream[n].what : n \in PongHeads} = Read("ping")

(* A held connection ends only with its peer: neither the timeout of the      *)
(* handshake nor anything else of ours makes a read or a write on it fail.    *)
HeldUntilPeerEnds ==
    ~perCall /\ phase = "open" /\ (rpc = "err" \/ \E w \in Writers : wpc[w] = "failed") => ~up

(* bidi_command returns, with its socket closed, whatever the peer does or    *)
(* leaves undone: its deadline covers the handshake, the write, the pongs it  *)
(* answers, the reads and the close frame.                                    *)
CallReturns == (perCall /\ phase = "dial") ~> phase \in {"refused", "closed"}

(* On a held connection a write returns if the peer never stops reading for   *)
(* good, whoever else writes, fails or answers pings at the time.             *)
HeldWritesReturn ==
    []<>(Room \/ ~up) =>
        \A w \in Writers : (~perCall /\ wpc[w] = "lock") ~> Returned(w)
=============================================================================
