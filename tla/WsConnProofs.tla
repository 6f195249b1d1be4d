---------------------------- MODULE WsConnProofs ----------------------------
(* Frames stay whole on a shared WebSocket, and a held one ends only with its *)
(* peer, for any number of writers and any size of the socket's buffer; and   *)
(* what WriteText writes in front of a text, readFrame reads.                 *)
EXTENDS WsConn, WsFrame, TLAPS

(* Who is in the middle of write holds the lock, and nobody else does.        *)
Holder == \A a \in Actors : wpc[a] \in {"head", "tail"} <=> wmu = a

(* Nothing is written before the handshake is over, and the reader is in      *)
(* write only for a pong.                                                     *)
Begun ==
    /\ phase = "dial" => stream = <<>> /\ \A a \in Actors : wpc[a] = "idle"
    /\ wpc[Reader] # "idle" => rpc = "pong"

(* No more bytes will ever be taken from us on their way to the peer.         *)
Over == ~up \/ (expired /\ phase # "dial")

LastPiece == stream[Len(stream)]
HeadOf(a) == [by |-> a, what |-> what[a], part |-> "head"]

(* The wire ends in half a frame only while its writer is about to push the   *)
(* other half, or when nothing can follow.                                    *)
HalfFrame ==
    /\ ~Over /\ Len(stream) > 0 /\ LastPiece.part = "head" =>
          \E a \in Actors : wpc[a] = "tail"
    /\ \A a \in Actors : ~Over /\ wpc[a] = "tail" => Len(stream) > 0 /\ LastPiece = HeadOf(a)

(* A read or a write fails for a reason that lasts, and a held connection has *)
(* no deadline.                                                               *)
Failing ==
    /\ rpc = "err" => Over
    /\ \A a \in Actors : wpc[a] = "failed" => Over
    /\ ~perCall /\ phase = "open" => ~armed /\ ~expired

WsInv == TypeOK /\ Holder /\ Begun /\ HalfFrame /\ Failing /\ FramesIntact

-----------------------------------------------------------------------------
(* The invariant holds of the connection that DialWithHeaders starts with.    *)
LEMMA InitWsInv == Init => WsInv
  <1> SUFFICES ASSUME Init PROVE WsInv
    OBVIOUS
  <1>1. TypeOK
    <2>1. perCall \in BOOLEAN /\ armed \in BOOLEAN /\ expired \in BOOLEAN /\ up \in BOOLEAN
      BY Zenon DEF Init
    <2>2. returned \in Seq(Nat) /\ inlog \in Seq(Ops) /\ stream \in Seq(Piece)
          /\ taken \in 0..Len(stream)
      BY DEF Init
    <2> QED
      BY <2>1, <2>2 DEF Init, TypeOK
  <1>2. Holder /\ Begun /\ Failing
    BY ActorsDistinct DEF Init, Holder, Begun, Failing, Actors
  <1>3. HalfFrame /\ FramesIntact
    BY DEF Init, HalfFrame, FramesIntact, Whole
  <1> QED
    BY <1>1, <1>2, <1>3 DEF WsInv

(* Every step keeps the types. *)
LEMMA NextTyped == ASSUME TypeOK, [Next]_vars PROVE TypeOK'
  <1> USE ActorsDistinct DEF TypeOK, dialVars, writeVars, readVars, peerVars
  <1>1. CASE Upgrade \/ DialFails \/ SetDeadline \/ Expire
    BY <1>1 DEF Upgrade, DialFails, SetDeadline, Expire
  <1>2. ASSUME NEW a \in Actors, Lock(a) PROVE TypeOK'
    BY <1>2 DEF Lock
  <1>3. ASSUME NEW a \in Actors, Push(a) PROVE TypeOK'
    <2>1. [by |-> a, what |-> what[a], part |-> wpc[a]] \in Piece
      BY <1>3 DEF Push, Advance, Piece
    <2>2. stream' \in Seq(Piece) /\ Len(stream') = Len(stream) + 1
      BY <1>3, <2>1 DEF Push
    <2> QED
      BY <1>3, <2>2 DEF Push, Advance
  <1>4. ASSUME NEW a \in Actors, PushLost(a) PROVE TypeOK'
    BY <1>4 DEF PushLost, Advance
  <1>5. ASSUME NEW a \in Actors, PushFails(a) PROVE TypeOK'
    BY <1>5 DEF PushFails
  <1>6. ASSUME NEW w \in Writers, WriteText(w) PROVE TypeOK'
    BY <1>6 DEF WriteText, Start, Actors
  <1>7. CASE ReadFrame
    BY <1>7 DEF ReadFrame, Start, Actors
  <1>8. CASE Ponged \/ ReadFails \/ Enough
    BY <1>8 DEF Ponged, ReadFails, Enough, Actors
  <1>9. CASE Close \/ CloseSocket
    BY <1>9 DEF Close, CloseSocket, Start, Actors
  <1>10. ASSUME NEW op \in Ops, PeerSends(op) PROVE TypeOK'
    BY <1>10 DEF PeerSends
  <1>11. CASE PeerReads
    BY <1>11 DEF PeerReads
  <1>13. CASE PeerLeaves
    <2>1. up' \in BOOLEAN
      BY <1>13, Zenon DEF PeerLeaves
    <2> QED
      BY <1>13, <2>1 DEF PeerLeaves
  <1>12. CASE UNCHANGED vars
    BY <1>12 DEF vars
  <1> QED
    BY <1>1, <1>2, <1>3, <1>4, <1>5, <1>6, <1>7, <1>8, <1>9, <1>10, <1>11, <1>12, <1>13
       DEF Next, Write, Terminated

(* A head after whole frames, or the tail of the last frame, keeps frames     *)
(* whole.                                                                     *)
LEMMA AppendWhole ==
    ASSUME NEW s \in Seq(Piece), NEW p \in Piece, Whole(s),
           \/ p.part = "head" /\ (Len(s) > 0 => s[Len(s)].part = "tail")
           \/ p.part = "tail" /\ Len(s) > 0 /\ Joins(s[Len(s)], p)
    PROVE  Whole(Append(s, p))
  <1> DEFINE t == Append(s, p)
  <1>1. /\ Len(t) = Len(s) + 1 /\ t[Len(s) + 1] = p /\ Len(s) \in Nat
        /\ \A n \in 1..Len(s) : t[n] = s[n]
    OBVIOUS
  <1> HIDE DEF t
  <1> SUFFICES ASSUME NEW n \in 1..(Len(s) + 1)
               PROVE  IF t[n].part = "tail" THEN n > 1 /\ Joins(t[n - 1], t[n])
                      ELSE n < Len(s) + 1 => Joins(t[n], t[n + 1])
    BY <1>1 DEF Whole, t
  <1>2. CASE n = Len(s) + 1
    <2>1. Len(s) > 0 => t[n - 1] = s[Len(s)]
      BY <1>1, <1>2
    <2> QED
      BY <1>1, <1>2, <2>1
  <1>3. CASE n = Len(s)
    <2>1. t[n] = s[Len(s)] /\ t[n + 1] = p /\ (n > 1 => t[n - 1] = s[n - 1])
      BY <1>1, <1>3
    <2>2. s[n].part = "tail" => n > 1 /\ Joins(s[n - 1], s[n])
      BY <1>1, <1>3 DEF Whole
    <2>3. s[n].part # "tail" => Joins(s[n], p)
      BY <1>1, <1>3
    <2> QED
      BY <1>3, <2>1, <2>2, <2>3
  <1>4. CASE n < Len(s)
    <2>1. t[n] = s[n] /\ t[n + 1] = s[n + 1] /\ (n > 1 => t[n - 1] = s[n - 1])
      BY <1>1, <1>4
    <2>2. IF s[n].part = "tail" THEN n > 1 /\ Joins(s[n - 1], s[n]) ELSE Joins(s[n], s[n + 1])
      BY <1>1, <1>4 DEF Whole
    <2> QED
      BY <2>1, <2>2
  <1> QED
    BY <1>1, <1>2, <1>3, <1>4

(* A piece pushed by the holder of the lock begins a frame after a whole one, *)
(* or ends the frame it follows.                                              *)
LEMMA PushIntact ==
    ASSUME WsInv, NEW a \in Actors, Push(a)
    PROVE  FramesIntact' /\ HalfFrame'
  <1> DEFINE p == [by |-> a, what |-> what[a], part |-> wpc[a]]
  <1>1. p \in Piece /\ stream' = Append(stream, p) /\ wpc[a] \in {"head", "tail"} /\ ~Over
    BY DEF WsInv, TypeOK, Push, Advance, Piece, Over
  <1>2. /\ stream \in Seq(Piece) /\ Len(stream') = Len(stream) + 1
        /\ stream'[Len(stream')] = p
    BY <1>1 DEF WsInv, TypeOK
  <1>3. wmu = a /\ \A b \in Actors : b # a => wpc[b] \notin {"head", "tail"}
    BY <1>1 DEF WsInv, Holder
  <1>4. CASE wpc[a] = "head"
    <2>1. Len(stream) > 0 => LastPiece.part = "tail"
      <3>1. Len(stream) > 0 => LastPiece \in Piece
        BY DEF WsInv, TypeOK, LastPiece
      <3>2. Len(stream) > 0 => LastPiece.part # "head"
        BY <1>1, <1>3, <1>4 DEF WsInv, HalfFrame
      <3> QED
        BY <3>1, <3>2 DEF Piece
    <2>2. Whole(Append(stream, p))
      BY <1>1, <1>2, <1>4, <2>1, AppendWhole DEF WsInv, FramesIntact, LastPiece
    <2> QED
      BY <1>1, <1>2, <1>3, <1>4, <2>2
         DEF WsInv, TypeOK, HalfFrame, FramesIntact, LastPiece, HeadOf, Push, Advance
  <1>5. CASE wpc[a] = "tail"
    <2>1. Len(stream) > 0 /\ LastPiece = HeadOf(a)
      BY <1>1, <1>5 DEF WsInv, HalfFrame
    <2>2. Joins(LastPiece, p)
      BY <1>5, <2>1 DEF HeadOf, Joins
    <2>3. Whole(Append(stream, p))
      BY <1>1, <1>2, <1>5, <2>1, <2>2, AppendWhole DEF WsInv, FramesIntact, LastPiece
    <2> QED
      BY <1>1, <1>2, <1>3, <1>5, <2>3
         DEF WsInv, TypeOK, HalfFrame, FramesIntact, LastPiece, HeadOf, Push, Advance
  <1> QED
    BY <1>1, <1>4, <1>5

(* The invariant is inductive. *)
LEMMA NextWsInv == ASSUME WsInv, [Next]_vars PROVE WsInv'
  <1> DEFINE Rest == Holder /\ Begun /\ Failing
             Wire == HalfFrame /\ FramesIntact
  <1>1. TypeOK'
    BY NextTyped DEF WsInv
  <1> USE ActorsDistinct DEF WsInv, TypeOK, Over, dialVars, writeVars, readVars, peerVars
  <1>2. Rest'
    <2> USE DEF Holder, Begun, Failing
    <2>1. CASE Upgrade
      BY <2>1 DEF Upgrade, Actors
    <2>2. CASE DialFails \/ SetDeadline \/ Expire
      BY <2>2 DEF DialFails, SetDeadline, Expire, Actors
    <2>3. ASSUME NEW a \in Actors, Lock(a) PROVE Rest'
      BY <2>3 DEF Lock, Actors
    <2>4. ASSUME NEW a \in Actors, Push(a) PROVE Rest'
      BY <2>4 DEF Push, Advance, Actors
    <2>5. ASSUME NEW a \in Actors, PushLost(a) PROVE Rest'
      BY <2>5 DEF PushLost, Advance, Actors
    <2>6. ASSUME NEW a \in Actors, PushFails(a) PROVE Rest'
      BY <2>6 DEF PushFails, Actors
    <2>7. ASSUME NEW w \in Writers, WriteText(w) PROVE Rest'
      BY <2>7 DEF WriteText, Start, Actors
    <2>8. CASE ReadFrame
      BY <2>8 DEF ReadFrame, Reading, Start, Actors
    <2>9. CASE Ponged
      BY <2>9 DEF Ponged, Returned, Actors
    <2>10. CASE ReadFails \/ Enough
      BY <2>10 DEF ReadFails, Enough, Reading, Actors
    <2>11. CASE Close \/ CloseSocket
      BY <2>11 DEF Close, CloseSocket, Start, Actors
    <2>12. ASSUME NEW op \in Ops, PeerSends(op) PROVE Rest'
      BY <2>12 DEF PeerSends
    <2>13. CASE PeerReads \/ PeerLeaves
      BY <2>13 DEF PeerReads, PeerLeaves
    <2>14. CASE UNCHANGED vars
      BY <2>14 DEF vars
    <2> QED
      BY <2>1, <2>2, <2>3, <2>4, <2>5, <2>6, <2>7, <2>8, <2>9, <2>10, <2>11, <2>12, <2>13,
         <2>14 DEF Next, Write, Terminated
  <1>3. Wire'
    <2> USE DEF HalfFrame, LastPiece, HeadOf, FramesIntact
    <2>1. CASE Upgrade
      BY <2>1 DEF Upgrade, Begun
    <2>2. CASE DialFails \/ SetDeadline \/ Expire
      BY <2>2 DEF DialFails, SetDeadline, Expire
    <2>3. ASSUME NEW a \in Actors, Lock(a) PROVE Wire'
      BY <2>3 DEF Lock
    <2>4. ASSUME NEW a \in Actors, Push(a) PROVE Wire'
      BY <2>4, PushIntact
    <2>5. ASSUME NEW a \in Actors, PushLost(a) PROVE Wire'
      BY <2>5 DEF PushLost, Advance
    <2>6. ASSUME NEW a \in Actors, PushFails(a) PROVE Wire'
      BY <2>6 DEF PushFails, Begun
    <2>7. ASSUME NEW w \in Writers, WriteText(w) PROVE Wire'
      BY <2>7 DEF WriteText, Start, Actors
    <2>8. CASE ReadFrame
      BY <2>8 DEF ReadFrame, Reading, Start, Begun, Actors
    <2>9. CASE Ponged
      BY <2>9 DEF Ponged, Returned, Actors
    <2>10. CASE ReadFails \/ Enough
      BY <2>10 DEF ReadFails, Enough
    <2>11. CASE Close \/ CloseSocket
      BY <2>11 DEF Close, CloseSocket, Start, Actors
    <2>12. ASSUME NEW op \in Ops, PeerSends(op) PROVE Wire'
      BY <2>12 DEF PeerSends
    <2>13. CASE PeerReads \/ PeerLeaves
      BY <2>13 DEF PeerReads, PeerLeaves
    <2>14. CASE UNCHANGED vars
      BY <2>14 DEF vars
    <2> QED
      BY <2>1, <2>2, <2>3, <2>4, <2>5, <2>6, <2>7, <2>8, <2>9, <2>10, <2>11, <2>12, <2>13,
         <2>14 DEF Next, Write, Terminated
  <1> QED
    BY <1>1, <1>2, <1>3

(* The invariant holds of every state of a connection. *)
LEMMA WsInvariant == Spec => []WsInv
  BY InitWsInv, NextWsInv, PTL DEF Spec

(* However many goroutines write text, pongs and the close frame, and         *)
(* wherever a deadline or a broken socket cuts a write short, the peer never  *)
(* gets a frame inside another or after half of one.                          *)
THEOREM WsFramesIntact == Spec => []FramesIntact
  <1>1. WsInv => FramesIntact
    BY DEF WsInv
  <1> QED
    BY <1>1, WsInvariant, PTL

(* On the broker's connection a read or a write fails only when the peer is   *)
(* gone: the deadline of the handshake does not outlive the handshake.        *)
THEOREM WsHeldUntilPeerEnds == Spec => []HeldUntilPeerEnds
  <1>1. WsInv => HeldUntilPeerEnds
    BY DEF WsInv, Failing, Over, HeldUntilPeerEnds, Actors
  <1> QED
    BY <1>1, WsInvariant, PTL

-----------------------------------------------------------------------------
(* Texts and pongs, in the order of the frames *)

PongsOrdered == \A m, n \in PongHeads : m < n => stream[m].what < stream[n].what
Answered     == {stream[n].what : n \in PongHeads}

(* The frame just read is a ping, and its pong has yet to begin. *)
Owing == rpc = "pong" /\ wpc[Reader] \in {"lock", "head"}

TextInv ==
    /\ \A i, j \in 1..Len(returned) : i < j => returned[i] < returned[j]
    /\ {returned[i] : i \in 1..Len(returned)} = Read("text")

PongInv ==
    /\ rpc = "pong" => what[Reader] = consumed /\ consumed \in Read("ping")
                       /\ wpc[Reader] # "idle"
    /\ up /\ rpc # "err" /\ wpc[Reader] # "failed" =>
          PongsOrdered /\ Answered = Read("ping") \ (IF Owing THEN {consumed} ELSE {})

ReaderInv == consumed <= Len(inlog) /\ TextInv /\ PongInv

(* The reader has read nothing yet.                                           *)
LEMMA InitReaderInv == Init => ReaderInv
  <1> SUFFICES ASSUME Init PROVE ReaderInv
    OBVIOUS
  <1>1. Len(inlog) = 0 /\ Len(returned) = 0 /\ Len(stream) = 0 /\ consumed = 0
    BY DEF Init
  <1>2. PongHeads = {} /\ Read("text") = {} /\ Read("ping") = {}
    BY <1>1 DEF PongHeads, Read
  <1> QED
    BY <1>1, <1>2 DEF Init, ReaderInv, TextInv, PongInv, PongsOrdered, Answered

(* A step that is none of the reader's leaves what it did as it was; the peer *)
(* may send one more frame, or go.                                            *)
LEMMA ReaderRests ==
    ASSUME TypeOK, ReaderInv, UNCHANGED <<returned, consumed, stream, rpc>>,
           wpc'[Reader] = wpc[Reader], what'[Reader] = what[Reader], up' => up,
           inlog' = inlog \/ \E op \in Ops : inlog' = Append(inlog, op)
    PROVE  ReaderInv'
  <1>1. Len(inlog) <= Len(inlog') /\ \A n \in 1..Len(inlog) : inlog'[n] = inlog[n]
    BY DEF TypeOK
  <1>2. Len(inlog) \in Nat /\ Len(inlog') \in Nat /\ consumed \in Nat
    BY DEF TypeOK
  <1>3. consumed' <= Len(inlog') /\ \A i \in 1..consumed : inlog'[i] = inlog[i]
    BY <1>1, <1>2 DEF ReaderInv
  <1>4. Read("text")' = Read("text") /\ Read("ping")' = Read("ping")
    BY <1>3 DEF Read
  <1>5. PongHeads' = PongHeads /\ (Owing' <=> Owing)
    BY DEF PongHeads, Owing
  <1> QED
    BY <1>3, <1>4, <1>5 DEF ReaderInv, TextInv, PongInv, PongsOrdered, Answered

(* One more frame was read. *)
LEMMA FrameCounted ==
    ASSUME TypeOK, NEW op, consumed' = consumed + 1, inlog' = inlog
    PROVE  Read(op)' = Read(op) \cup (IF inlog[consumed + 1] = op THEN {consumed + 1} ELSE {})
  <1>1. 1..(consumed + 1) = 1..consumed \cup {consumed + 1}
    BY DEF TypeOK
  <1> QED
    BY <1>1 DEF Read

(* The numbers of the frames stay in order when one that is larger is added.  *)
LEMMA LargerLast ==
    ASSUME NEW q \in Seq(Nat), NEW n \in Nat,
           \A i, j \in 1..Len(q) : i < j => q[i] < q[j],
           \A i \in 1..Len(q) : q[i] < n
    PROVE  LET r == Append(q, n)
           IN /\ \A i, j \in 1..Len(r) : i < j => r[i] < r[j]
              /\ {r[i] : i \in 1..Len(r)} = {q[i] : i \in 1..Len(q)} \cup {n}
  <1> DEFINE r == Append(q, n)
  <1>1. /\ Len(r) = Len(q) + 1 /\ r[Len(q) + 1] = n /\ Len(q) \in Nat
        /\ \A i \in 1..Len(q) : r[i] = q[i]
    OBVIOUS
  <1> HIDE DEF r
  <1>2. \A i \in 1..Len(r) : i \in 1..Len(q) \/ i = Len(q) + 1
    BY <1>1
  <1>3. 1..Len(r) = 1..Len(q) \cup {Len(q) + 1}
    BY <1>1
  <1>4. \A i, j \in 1..Len(r) : i < j => r[i] < r[j]
    <2> TAKE i, j \in 1..Len(r)
    <2> HAVE i < j
    <2>1. i \in 1..Len(q)
      BY <1>1
    <2> QED
      BY <1>1, <1>2, <2>1
  <1>5. {r[i] : i \in 1..Len(r)} = {q[i] : i \in 1..Len(q)} \cup {n}
    BY <1>1, <1>3
  <1> QED
    BY <1>4, <1>5 DEF r

(* A turn of ReadText's loop returns a text, and owes the pong of a ping. *)
LEMMA ReadFrameFaithful == ASSUME WsInv, ReaderInv, ReadFrame PROVE ReaderInv'
  <1> DEFINE n == consumed + 1
  <1>1. /\ consumed \in Nat /\ Len(inlog) \in Nat /\ n <= Len(inlog) /\ n \notin 1..consumed
        /\ returned \in Seq(Nat)
    BY DEF WsInv, TypeOK, ReadFrame
  <1>2. /\ rpc = "read" /\ wpc[Reader] = "idle" /\ consumed' = n /\ inlog' = inlog
        /\ stream' = stream /\ up' = up
    BY DEF WsInv, Begun, ReadFrame, Reading, peerVars
  <1>3. /\ Read("text")' = Read("text") \cup (IF inlog[n] = "text" THEN {n} ELSE {})
        /\ Read("ping")' = Read("ping") \cup (IF inlog[n] = "ping" THEN {n} ELSE {})
    BY <1>2, FrameCounted DEF WsInv
  <1>4. PongHeads' = PongHeads /\ (PongsOrdered' <=> PongsOrdered) /\ Answered' = Answered
    BY <1>2 DEF PongHeads, PongsOrdered, Answered
  <1>5. TextInv'
    <2>1. CASE inlog[n] = "text"
      <3>1. \A i \in 1..Len(returned) : returned[i] \in Read("text")
        BY DEF ReaderInv, TextInv
      <3>2. \A i \in 1..Len(returned) : returned[i] < n
        BY <1>1, <3>1 DEF Read
      <3>3. returned' = Append(returned, n)
        BY <2>1 DEF ReadFrame
      <3> QED
        BY <1>1, <1>3, <2>1, <3>2, <3>3, LargerLast DEF ReaderInv, TextInv
    <2>2. CASE inlog[n] # "text"
      BY <1>3, <2>2 DEF ReadFrame, ReaderInv, TextInv
    <2> QED
      BY <2>1, <2>2
  <1>6. up => PongsOrdered /\ Answered = Read("ping") /\ n \notin Read("ping")
    BY <1>1, <1>2 DEF ReaderInv, PongInv, Owing, Read
  <1>7. PongInv'
    <2>1. CASE inlog[n] = "ping"
      <3>1. rpc' = "pong" /\ wpc'[Reader] = "lock" /\ what'[Reader] = n
        BY <2>1 DEF ReadFrame, Start, WsInv, TypeOK, Actors
      <3> QED
        BY <1>2, <1>3, <1>4, <1>6, <2>1, <3>1 DEF PongInv, Owing
    <2>2. CASE inlog[n] # "ping"
      <3>1. rpc' # "pong" /\ wpc' = wpc
        BY <2>2 DEF ReadFrame
      <3> QED
        BY <1>2, <1>3, <1>4, <1>6, <2>2, <3>1 DEF PongInv, Owing
    <2> QED
      BY <2>1, <2>2
  <1> QED
    BY <1>1, <1>2, <1>5, <1>7 DEF ReaderInv

(* The first piece of a pong answers the ping it is owed to; nothing else on  *)
(* the wire does.                                                             *)
LEMMA PushFaithful == ASSUME WsInv, ReaderInv, NEW a \in Actors, Push(a) PROVE ReaderInv'
  <1> DEFINE m == Len(stream) + 1
             p == [by |-> a, what |-> what[a], part |-> wpc[a]]
  <1>1. /\ stream \in Seq(Piece) /\ p \in Piece /\ stream' = Append(stream, p)
        /\ what[Reader] \in Nat /\ consumed \in Nat
    BY DEF WsInv, TypeOK, Push, Advance, Piece, Actors
  <1>2. /\ Len(stream) \in Nat /\ Len(stream') = m /\ stream'[m] = p
        /\ \A n \in 1..Len(stream) : stream'[n] = stream[n]
    BY ONLY <1>1
  <1>3. 1..Len(stream') = 1..Len(stream) \cup {m} /\ m \notin 1..Len(stream)
    BY ONLY <1>2
  <1>4. /\ UNCHANGED <<returned, consumed, inlog, rpc, what, up>> /\ up
        /\ wpc[a] \in {"head", "tail"}
        /\ wpc' = [wpc EXCEPT ![a] = IF @ = "head" THEN "tail" ELSE "ok"]
    BY DEF Push, Advance, readVars, peerVars, dialVars
  <1>5. Read("text")' = Read("text") /\ Read("ping")' = Read("ping") /\ TextInv'
    BY <1>4 DEF Read, ReaderInv, TextInv
  <1>6. rpc = "pong" => what'[Reader] = consumed' /\ consumed \in Read("ping")
    BY <1>4 DEF ReaderInv, PongInv
  <1>7. CASE a = Reader /\ wpc[a] = "head"
    <2>1. PongHeads' = PongHeads \cup {m}
      BY <1>2, <1>3, <1>7 DEF PongHeads
    <2>2. rpc = "pong" /\ Owing /\ rpc # "err" /\ wpc[Reader] # "failed"
      BY <1>7 DEF WsInv, Begun, Owing
    <2>3. PongsOrdered /\ Answered = Read("ping") \ {consumed}
      BY <1>4, <2>2 DEF ReaderInv, PongInv
    <2>4. stream'[m].what = consumed
      BY <1>2, <1>7, <2>2 DEF ReaderInv, PongInv
    <2>5. \A n \in PongHeads : /\ n \in 1..Len(stream) /\ stream'[n] = stream[n]
                               /\ stream[n].what \in Answered
      BY <1>2 DEF PongHeads, Answered
    <2>6. \A n \in PongHeads : stream[n].what < consumed
      BY <1>1, <2>3, <2>5 DEF Read
    <2>7. PongsOrdered'
      BY <1>2, <2>1, <2>3, <2>4, <2>5, <2>6 DEF PongsOrdered
    <2>8. Answered' = Answered \cup {consumed}
      BY <2>1, <2>4, <2>5 DEF Answered
    <2>9. wpc'[Reader] = "tail"
      BY <1>4, <1>7 DEF WsInv, TypeOK
    <2> QED
      BY <1>4, <1>5, <1>6, <2>2, <2>3, <2>7, <2>8, <2>9 DEF ReaderInv, PongInv, Owing
  <1>8. CASE ~(a = Reader /\ wpc[a] = "head")
    <2>1. PongHeads' = PongHeads
      BY <1>2, <1>3, <1>8 DEF PongHeads
    <2>2. PongsOrdered' <=> PongsOrdered
      BY <1>2, <2>1 DEF PongHeads, PongsOrdered
    <2>3. Answered' = Answered
      BY <1>2, <2>1 DEF PongHeads, Answered
    <2>4. IF a = Reader THEN wpc[Reader] = "tail" /\ wpc'[Reader] = "ok"
          ELSE wpc'[Reader] = wpc[Reader]
      BY <1>4, <1>8 DEF WsInv, TypeOK, Actors
    <2> QED
      BY <1>4, <1>5, <1>6, <2>2, <2>3, <2>4 DEF ReaderInv, PongInv, Owing
  <1> QED
    BY <1>7, <1>8

(* Every other step of the reader keeps its promises too. *)
LEMMA NextReaderInv == ASSUME WsInv, ReaderInv, [Next]_vars PROVE ReaderInv'
  <1> DEFINE Kept == PongHeads' = PongHeads /\ (PongsOrdered' <=> PongsOrdered)
                     /\ Answered' = Answered /\ Read("ping")' = Read("ping") /\ TextInv'
                     /\ consumed' <= Len(inlog')
  <1> USE ActorsDistinct
  <1>a. TypeOK
    BY DEF WsInv
  <1>b. UNCHANGED <<stream, inlog, returned, consumed>> => Kept
    BY DEF PongHeads, PongsOrdered, Answered, Read, TextInv, ReaderInv
  <1>1. CASE Upgrade \/ DialFails \/ SetDeadline \/ Expire
    BY <1>a, <1>1, ReaderRests
       DEF Upgrade, DialFails, SetDeadline, Expire, writeVars, readVars, peerVars
  <1>2. ASSUME NEW a \in Actors, Lock(a) PROVE ReaderInv'
    <2>1. CASE a = Reader
      <3>1. wpc[Reader] = "lock" /\ wpc'[Reader] = "head"
        BY <1>a, <1>2, <2>1 DEF Lock, TypeOK
      <3>2. UNCHANGED <<stream, inlog, returned, consumed, rpc, what, up>>
        BY <1>2 DEF Lock, readVars, peerVars
      <3> QED
        BY <1>b, <3>1, <3>2 DEF ReaderInv, PongInv, Owing
    <2>2. CASE a # Reader
      BY <1>a, <1>2, <2>2, ReaderRests DEF Lock, TypeOK, readVars, peerVars, Actors
    <2> QED
      BY <2>1, <2>2
  <1>3. ASSUME NEW a \in Actors, Push(a) PROVE ReaderInv'
    BY <1>3, PushFaithful
  <1>4. ASSUME NEW a \in Actors, PushLost(a) \/ PushFails(a) PROVE ReaderInv'
    <2>1. CASE a = Reader
      <3>1. wpc[Reader] # "idle" /\ wpc'[Reader] # "idle"
        BY <1>a, <1>4, <2>1 DEF PushLost, PushFails, Advance, TypeOK
      <3>2. ~up' \/ wpc'[Reader] = "failed"
        BY <1>a, <1>4, <2>1 DEF PushLost, PushFails, Advance, TypeOK, peerVars
      <3>3. UNCHANGED <<stream, inlog, returned, consumed, rpc, what, up>>
        BY <1>4 DEF PushLost, PushFails, Advance, readVars, peerVars
      <3> QED
        BY <1>b, <3>1, <3>2, <3>3 DEF ReaderInv, PongInv, Read
    <2>2. CASE a # Reader
      <3>1. wpc'[Reader] = wpc[Reader]
        BY <1>a, <1>4, <2>2 DEF PushLost, PushFails, Advance, TypeOK, Actors
      <3> QED
        BY <1>a, <1>4, <3>1, ReaderRests
           DEF PushLost, PushFails, Advance, readVars, peerVars
    <2> QED
      BY <2>1, <2>2
  <1>5. ASSUME NEW w \in Writers, WriteText(w) PROVE ReaderInv'
    <2>1. wpc'[Reader] = wpc[Reader] /\ what'[Reader] = what[Reader]
      BY <1>a, <1>5 DEF WriteText, Start, TypeOK, Actors
    <2> QED
      BY <1>a, <1>5, <2>1, ReaderRests DEF WriteText, readVars, peerVars
  <1>6. CASE ReadFrame
    BY <1>6, ReadFrameFaithful
  <1>7. CASE Ponged
    <2>1. /\ rpc = "pong" /\ wpc[Reader] \in {"ok", "failed"} /\ wpc'[Reader] = "idle"
          /\ rpc' = IF wpc[Reader] = "ok" THEN "read" ELSE "err"
          /\ UNCHANGED <<stream, inlog, returned, consumed, what, up>>
      BY <1>a, <1>7 DEF Ponged, Returned, TypeOK, peerVars, Actors
    <2> QED
      BY <1>b, <2>1 DEF ReaderInv, PongInv, Owing
  <1>8. CASE ReadFails \/ Enough
    <2>1. /\ rpc = "read" /\ rpc' \in {"err", "stop"} /\ wpc[Reader] = "idle"
          /\ UNCHANGED <<stream, inlog, returned, consumed, what, wpc, up>>
      BY <1>8 DEF ReadFails, Enough, Reading, WsInv, Begun, writeVars, peerVars
    <2> QED
      BY <1>b, <2>1 DEF ReaderInv, PongInv, Owing
  <1>9. CASE Close \/ CloseSocket
    <2>1. wpc'[Reader] = wpc[Reader] /\ what'[Reader] = what[Reader]
      BY <1>a, <1>9 DEF Close, CloseSocket, Start, TypeOK, Actors, writeVars
    <2> QED
      BY <1>a, <1>9, <2>1, ReaderRests DEF Close, CloseSocket, readVars, peerVars
  <1>10. CASE (\E op \in Ops : PeerSends(op)) \/ PeerReads \/ PeerLeaves
    BY <1>a, <1>10, ReaderRests DEF PeerSends, PeerReads, PeerLeaves, writeVars, readVars
  <1>11. CASE UNCHANGED vars
    BY <1>a, <1>11, ReaderRests DEF vars, writeVars, readVars, peerVars
  <1> QED
    BY <1>1, <1>2, <1>3, <1>4, <1>5, <1>6, <1>7, <1>8, <1>9, <1>10, <1>11
       DEF Next, Write, Terminated

(* ReadText returns the texts, all of them and in order, and answers each     *)
(* ping once, in order and before it reads on, whatever it competes with for  *)
(* the lock.                                                                  *)
THEOREM WsReaderFaithful == Spec => []ReaderFaithful
  <1>1. ReaderInv /\ WsInv => ReaderFaithful
    <2> SUFFICES ASSUME ReaderInv, WsInv PROVE ReaderFaithful
      OBVIOUS
    <2>1. rpc # "pong" => wpc[Reader] # "failed" /\ ~Owing
      BY DEF WsInv, Begun, Owing
    <2>2. up /\ rpc \notin {"pong", "err"} => PongsOrdered /\ Answered = Read("ping")
      BY <2>1 DEF ReaderInv, PongInv
    <2> QED
      BY <2>2 DEF ReaderInv, TextInv, ReaderFaithful, PongsOrdered, Answered
  <1> QED
    BY <1>1, InitReaderInv, NextReaderInv, WsInvariant, PTL DEF Spec

-----------------------------------------------------------------------------
(* Frame headers *)

(* A shift by k + 8 is one by k and one by 8; the bits it drops are a byte.   *)
LEMMA Shift ==
    ASSUME NEW n \in Nat
    PROVE  /\ n \div 1 = n
           /\ n = 256 * (n \div 256) + Byte(n, 1)
           /\ n \div 256 = 256 * (n \div 65536) + Byte(n, 256)
           /\ n \div 65536 = 256 * (n \div 16777216) + Byte(n, 65536)
           /\ n \div 16777216 = 256 * (n \div 4294967296) + Byte(n, 16777216)
           /\ n \div 4294967296 = 256 * (n \div 1099511627776) + Byte(n, 4294967296)
           /\ n \div 1099511627776 =
                256 * (n \div 281474976710656) + Byte(n, 1099511627776)
           /\ n \div 281474976710656 =
                256 * (n \div 72057594037927936) + Byte(n, 281474976710656)
  BY DEF Byte

(* The most significant byte of an int is what is left of it. *)
LEMMA TopByte ==
    ASSUME NEW n \in 0..MaxInt
    PROVE  n \div 72057594037927936 = Byte(n, 72057594037927936)
  BY DEF Byte, MaxInt

(* Whatever the length of a text, up to the largest int, readFrame recovers   *)
(* it and the opcode from the header that WriteText wrote, in all three forms *)
(* and on both sides of the limits between them.                              *)
THEOREM TextHeaderRoundTrip ==
    ASSUME NEW n \in 0..MaxInt
    PROVE  LET h == textHeader(n)
           IN opcode(h) = 1 /\ masked(h) /\ length(h) = n
  <1> DEFINE h == textHeader(n)
  <1>1. CASE n < 126
    <2>1. h = <<129, 128 + n>>
      BY <1>1 DEF textHeader, Fin
    <2> QED
      BY <1>1, <2>1 DEF opcode, masked, length
  <1>2. CASE n >= 126 /\ n < 65536
    <2>1. h = <<129, 254, Byte(n, 256), Byte(n, 1)>>
      BY <1>2 DEF textHeader, Fin
    <2>2. length(h) = 256 * Byte(n, 256) + Byte(n, 1)
      BY <2>1 DEF length, Uint16
    <2>3. Byte(n, 256) = n \div 256 /\ n = 256 * (n \div 256) + Byte(n, 1)
      BY <1>2 DEF Byte
    <2> QED
      BY <2>1, <2>2, <2>3 DEF opcode, masked
  <1>3. CASE n >= 65536
    <2> DEFINE b1 == Byte(n, 72057594037927936)
               b2 == Byte(n, 281474976710656)
               b3 == Byte(n, 1099511627776)
               b4 == Byte(n, 4294967296)
               b5 == Byte(n, 16777216)
               b6 == Byte(n, 65536)
               b7 == Byte(n, 256)
               b8 == Byte(n, 1)
    <2>1. h = <<129, 255, b1, b2, b3, b4, b5, b6, b7, b8>>
      BY <1>3 DEF textHeader, Fin
    <2>2. Uint64(h) = n
      <3>1. Uint64(h) = 256 * (256 * (256 * (256 * (256 * (256 * (256 * b1 + b2) + b3)
                            + b4) + b5) + b6) + b7) + b8
        <4> HIDE DEF b1, b2, b3, b4, b5, b6, b7, b8
        <4> QED
          BY <2>1 DEF Uint64
      <3> QED
        BY <3>1, Shift, TopByte DEF MaxInt
    <2>3. length(h) = signed(Uint64(h))
      BY <2>1 DEF length
    <2>4. signed(n) = n
      BY DEF signed, MaxInt
    <2> QED
      BY <2>1, <2>2, <2>3, <2>4 DEF opcode, masked
  <1> QED
    BY <1>1, <1>2, <1>3 DEF MaxInt

(* A control frame always has the short form: readFrame recovers the opcode   *)
(* and the length of what is left of the payload, and a pong to any ping that *)
(* respects the limit of 125 bytes carries all of it.                         *)
THEOREM ControlHeaderRoundTrip ==
    ASSUME NEW op \in 0..15, NEW n \in Nat
    PROVE  LET h == controlHeader(op, n)
           IN /\ opcode(h) = op /\ masked(h) /\ length(h) = controlLen(n)
              /\ n <= 125 => length(h) = n
  <1>1. controlLen(n) \in 0..125 /\ (n <= 125 => controlLen(n) = n)
    BY DEF controlLen
  <1>2. controlHeader(op, n) = <<128 + op, 128 + controlLen(n)>>
    BY DEF controlHeader, Fin
  <1> QED
    BY <1>1, <1>2 DEF opcode, masked, length
=============================================================================
