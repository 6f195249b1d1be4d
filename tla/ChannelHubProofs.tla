-------------------------- MODULE ChannelHubProofs --------------------------
(* Type correctness of ChannelHub, the safety of its command routing and of   *)
(* its channels, what subscribers, the echo and /health promise, and that the *)
(* broker implements the command service: for any number of callers and       *)
(* subscribers, any channel capacity and any number of frames.                *)
EXTENDS ChannelService, FiniteSetTheorems, TLAPS

(* The reader's registers, where it is about to use them. *)
ReaderTyped ==
    /\ rpc \in {"take", "send", "count", "fan"} => rframe \in Frame
    /\ rpc = "send" => rch \in Cmds

TypeInv == TypeOK /\ ReaderTyped

-----------------------------------------------------------------------------
(* newHub makes a well-typed hub.                                             *)
LEMMA InitTyped == Init => TypeInv
  BY Disjoint, Bounds DEF Init, TypeInv, TypeOK, ReaderTyped, NoAnswer, NoFrame, StrayId,
       Entry, Frame, Subs

(* Fanning a frame out keeps the channels within their capacity. *)
LEMMA FanoutTyped ==
    ASSUME TypeInv, NEW f \in Frame, fanout(f)
    PROVE  /\ log' \in Seq(Frame)
           /\ buf' \in [Subs -> Seq(Nat)]
           /\ \A s \in Subs : Len(buf'[s]) <= SubCap
           /\ lost' \in [Subs -> SUBSET Nat]
  <1> DEFINE n == Len(log) + 1
  <1>0. log \in Seq(Frame) /\ buf \in [Subs -> Seq(Nat)] /\ lost \in [Subs -> SUBSET Nat]
    BY DEF TypeInv, TypeOK
  <1>1. n \in Nat
    BY <1>0
  <1>2. ASSUME NEW s \in Subs
        PROVE  Append(buf[s], n) \in Seq(Nat) /\ Len(Append(buf[s], n)) = Len(buf[s]) + 1
    BY <1>0, <1>1
  <1>3. \A s \in Subs : Len(buf[s]) <= SubCap /\ Len(buf[s]) \in Nat
    BY DEF TypeInv, TypeOK
  <1>4. \A s \in Subs : buf'[s] = IF s \in subs /\ ~(Len(buf[s]) >= SubCap)
                                  THEN Append(buf[s], n) ELSE buf[s]
    BY DEF fanout
  <1>5. buf' \in [Subs -> Seq(Nat)]
    BY <1>0, <1>2, <1>4 DEF fanout
  <1>6. ASSUME NEW s \in Subs PROVE Len(buf'[s]) <= SubCap
    <2>1. CASE s \in subs /\ ~(Len(buf[s]) >= SubCap)
      <3>1. Len(buf'[s]) = Len(buf[s]) + 1
        BY <2>1, <1>2, <1>4
      <3> QED
        BY <2>1, <3>1, <1>3, Bounds
    <2>2. CASE ~(s \in subs /\ ~(Len(buf[s]) >= SubCap))
      BY <2>2, <1>3, <1>4
    <2> QED
      BY <2>1, <2>2
  <1>7. lost' \in [Subs -> SUBSET Nat]
    BY <1>0, <1>1 DEF fanout
  <1>8. log' \in Seq(Frame)
    BY <1>0 DEF fanout
  <1> QED
    BY <1>5, <1>6, <1>7, <1>8

(* Every step of handleCommand keeps the types.                               *)
LEMMA CommandTyped == ASSUME TypeInv, NEW c \in Cmds, Command(c) PROVE TypeInv'
  <1> USE DEF TypeInv, TypeOK, ReaderTyped, Goto, Reply, cmdVars, chanVars, readVars,
              subVars, fanVars, browserVars
  <1>1. CASE BadRequest(c)
    BY <1>1 DEF BadRequest
  <1>2. CASE Begin(c)
    BY <1>2 DEF Begin
  <1>3. CASE Register(c)
    BY <1>3 DEF Register, With, Without, Entry
  <1>4. CASE WriteText(c)
    BY <1>4 DEF WriteText, Entry
  <1>12. CASE Count(c)
    BY <1>12 DEF Count
  <1>5. CASE WriteFails(c)
    BY <1>5 DEF WriteFails
  <1>6. CASE WriteFailed(c)
    BY <1>6 DEF WriteFailed, Without
  <1>7. CASE Echo(c)
    <2>1. [id |-> id[c], body |-> c] \in Frame
      BY DEF Frame, Bodies
    <2>2. fanout([id |-> id[c], body |-> c])
      BY <1>7 DEF Echo
    <2>3. /\ log' \in Seq(Frame) /\ buf' \in [Subs -> Seq(Nat)]
          /\ \A s \in Subs : Len(buf'[s]) <= SubCap
          /\ lost' \in [Subs -> SUBSET Nat]
      BY <2>1, <2>2, FanoutTyped
    <2> QED
      BY <1>7, <2>3 DEF Echo
  <1>8. CASE Receive(c)
    <2>1. Head(resp[c]) \in Frame /\ Tail(resp[c]) \in Seq(Frame) /\ Len(Tail(resp[c])) <= 1
      BY <1>8 DEF Receive
    <2>2. Head(resp[c]).body \in Bodies
      BY <2>1 DEF Frame
    <2>3. answer' \in [Cmds -> [status : {"none", "bad_request", "write_failed", "ok",
                                         "closed", "timeout"},
                               body : Bodies \cup {None}]]
      BY <1>8, <2>2 DEF Receive
    <2>4. resp' \in [Cmds -> Seq(Frame)] /\ \A d \in Cmds : Len(resp'[d]) <= 1
      BY <1>8, <2>1 DEF Receive
    <2> QED
      BY <1>8, <2>3, <2>4 DEF Receive
  <1>9. CASE ReceiveClosed(c)
    BY <1>9 DEF ReceiveClosed
  <1>10. CASE Timeout(c)
    BY <1>10 DEF Timeout
  <1>11. CASE TimedOut(c)
    BY <1>11 DEF TimedOut, Without
  <1> QED
    BY <1>1, <1>2, <1>3, <1>4, <1>5, <1>6, <1>7, <1>8, <1>9, <1>10, <1>11, <1>12 DEF Command

(* Every step of read and shutdown keeps the types.                           *)
LEMMA ReaderStepTyped == ASSUME TypeInv, Reader PROVE TypeInv'
  <1> USE DEF TypeInv, TypeOK, ReaderTyped, cmdVars, chanVars, readVars, subVars,
              fanVars, browserVars
  <1>1. CASE ReadText
    <2>1. Head(wire) \in Frame /\ Tail(wire) \in Seq(Frame)
      BY <1>1 DEF ReadText
    <2> QED
      BY <1>1, <2>1 DEF ReadText
  <1>2. CASE ReadFails
    BY <1>2 DEF ReadFails
  <1>3. CASE Take
    BY <1>3 DEF Take, Without, Entry
  <1>4. CASE Send
    <2>1. rch \in Cmds /\ rframe \in Frame /\ Len(resp[rch]) < 1
      BY <1>4 DEF Send
    <2>2. Append(resp[rch], rframe) \in Seq(Frame) /\ Len(Append(resp[rch], rframe)) <= 1
      BY <2>1
    <2>3. resp' \in [Cmds -> Seq(Frame)] /\ \A c \in Cmds : Len(resp'[c]) <= 1
      BY <1>4, <2>2 DEF Send
    <2> QED
      BY <1>4, <2>3 DEF Send
  <1>5. CASE Fan
    <2>1. rframe \in Frame /\ fanout(rframe)
      BY <1>5 DEF Fan
    <2>2. /\ log' \in Seq(Frame) /\ buf' \in [Subs -> Seq(Nat)]
          /\ \A s \in Subs : Len(buf'[s]) <= SubCap
          /\ lost' \in [Subs -> SUBSET Nat]
      BY <2>1, FanoutTyped
    <2> QED
      BY <1>5, <2>2 DEF Fan
  <1>6. CASE Shutdown
    BY <1>6 DEF Shutdown, Entry
  <1>7. CASE CountEvent
    BY <1>7 DEF CountEvent
  <1> QED
    BY <1>1, <1>2, <1>3, <1>4, <1>5, <1>6, <1>7 DEF Reader

(* Taking a frame from a subscriber's channel. *)
LEMMA PopTyped ==
    ASSUME TypeInv, NEW s \in Subs, Pop(s)
    PROVE  /\ got' \in [Subs -> Seq(Nat)]
           /\ buf' \in [Subs -> Seq(Nat)]
           /\ \A t \in Subs : Len(buf'[t]) <= SubCap
  <1>1. /\ got \in [Subs -> Seq(Nat)] /\ buf \in [Subs -> Seq(Nat)]
        /\ \A t \in Subs : Len(buf[t]) <= SubCap
    BY DEF TypeInv, TypeOK
  <1>2. /\ Head(buf[s]) \in Nat /\ Tail(buf[s]) \in Seq(Nat)
        /\ Len(Tail(buf[s])) = Len(buf[s]) - 1
    BY <1>1 DEF Pop
  <1>3. Len(Tail(buf[s])) <= SubCap
    BY <1>1, <1>2, Bounds
  <1> QED
    BY <1>1, <1>2, <1>3 DEF Pop

(* Every step of handleEvents and handleAwait keeps the types.                *)
LEMMA SubscriberTyped == ASSUME TypeInv, Subscriber PROVE TypeInv'
  <1> USE DEF TypeInv, TypeOK, ReaderTyped, Finish, cmdVars, chanVars, readVars,
              subVars, fanVars, browserVars
  <1>1. ASSUME NEW s \in Subs, Subscribe(s) PROVE TypeInv'
    BY <1>1 DEF Subscribe
  <1>9. ASSUME NEW s \in Subs, Flush(s) PROVE TypeInv'
    BY <1>9 DEF Flush
  <1>2. ASSUME NEW s \in Subs, Closed(s) PROVE TypeInv'
    BY <1>2 DEF Closed
  <1>3. ASSUME NEW s \in Subs, Gone(s) PROVE TypeInv'
    BY <1>3 DEF Gone
  <1>4. ASSUME NEW s \in Subs, Leave(s) PROVE TypeInv'
    BY <1>4 DEF Leave
  <1>5. ASSUME NEW s \in Streams, Stream(s) PROVE TypeInv'
    <2>1. s \in Subs /\ Pop(s)
      BY <1>5 DEF Stream, Subs
    <2>2. /\ got' \in [Subs -> Seq(Nat)] /\ buf' \in [Subs -> Seq(Nat)]
          /\ \A t \in Subs : Len(buf'[t]) <= SubCap
      BY <2>1, PopTyped
    <2> QED
      BY <1>5, <2>2 DEF Stream
  <1>6. ASSUME NEW a \in Awaits, AwaitHit(a) PROVE TypeInv'
    <2>1. a \in Subs /\ Pop(a)
      BY <1>6 DEF AwaitHit, Subs
    <2>2. /\ got' \in [Subs -> Seq(Nat)] /\ buf' \in [Subs -> Seq(Nat)]
          /\ \A t \in Subs : Len(buf'[t]) <= SubCap
      BY <2>1, PopTyped
    <2> QED
      BY <1>6, <2>1, <2>2 DEF AwaitHit
  <1>7. ASSUME NEW a \in Awaits, AwaitSkip(a) PROVE TypeInv'
    <2>1. a \in Subs /\ Pop(a)
      BY <1>7 DEF AwaitSkip, Subs
    <2>2. /\ got' \in [Subs -> Seq(Nat)] /\ buf' \in [Subs -> Seq(Nat)]
          /\ \A t \in Subs : Len(buf'[t]) <= SubCap
      BY <2>1, PopTyped
    <2> QED
      BY <1>7, <2>2 DEF AwaitSkip
  <1>8. ASSUME NEW a \in Awaits, Deadline(a) PROVE TypeInv'
    <2>1. a \in Subs
      BY DEF Subs
    <2> QED
      BY <1>8, <2>1 DEF Deadline
  <1> QED
    BY <1>1, <1>2, <1>3, <1>4, <1>5, <1>6, <1>7, <1>8, <1>9 DEF Subscriber

(* Whatever the browser does keeps the types.                                 *)
LEMMA BrowserTyped == ASSUME TypeInv, Browser PROVE TypeInv'
  <1> USE DEF TypeInv, TypeOK, ReaderTyped, Transmit, cmdVars, chanVars, readVars,
              subVars, fanVars, browserVars
  <1>1. CASE Respond
    <2>1. PICK p \in sent : /\ Transmit([id |-> p.id, body |-> p.ch])
                            /\ replied' = replied \cup {p.ch}
      BY <1>1 DEF Respond
    <2>2. p.ch \in Cmds /\ [id |-> p.id, body |-> p.ch] \in Frame
      BY DEF Entry, Frame, Bodies
    <2>3. wire' \in Seq(Frame)
      BY <2>1, <2>2
    <2> QED
      BY <2>1, <2>2, <2>3
  <1>2. CASE Emit
    <2>1. PICK e \in Events, i \in {NoId, StrayId} :
              Transmit([id |-> i, body |-> e]) /\ UNCHANGED replied
      BY <1>2 DEF Emit
    <2>2. [id |-> i, body |-> e] \in Frame
      BY DEF Frame, Bodies, NoId, StrayId
    <2>3. wire' \in Seq(Frame)
      BY <2>1, <2>2
    <2> QED
      BY <2>1, <2>3
  <1>3. CASE HangUp
    <2>1. PICK n \in 0..Len(wire) : wire' = SubSeq(wire, 1, n)
      BY <1>3 DEF HangUp
    <2>2. wire' \in Seq(Frame)
      BY <2>1
    <2> QED
      BY <1>3, <2>2 DEF HangUp
  <1> QED
    BY <1>1, <1>2, <1>3 DEF Browser

(* A stuttering step keeps the types.                                         *)
LEMMA StutterTyped == ASSUME TypeInv, UNCHANGED vars PROVE TypeInv'
  BY DEF TypeInv, TypeOK, ReaderTyped, vars, cmdVars, chanVars, readVars, subVars,
         fanVars, browserVars

(* Every step keeps the types.                                                *)
LEMMA NextTyped == ASSUME TypeInv, [Next]_vars PROVE TypeInv'
  BY CommandTyped, ReaderStepTyped, SubscriberTyped, BrowserTyped, StutterTyped
     DEF Next, Terminated

(* Whatever callers, subscribers and browser do, every variable of the hub    *)
(* keeps its type, a response channel never holds more than one frame and a   *)
(* subscriber's channel never more than its capacity.                         *)
THEOREM HubTypeCorrect == Spec => []TypeOK
  <1>1. TypeInv => TypeOK
    BY DEF TypeInv
  <1>2. Spec => []TypeInv
    BY InitTyped, NextTyped, PTL DEF Spec
  <1> QED
    BY <1>1, <1>2, PTL

-----------------------------------------------------------------------------
(* Command routing and the channels *)

(* A frame the browser may have sent: an event, a stray, or its answer to a   *)
(* command under the id of that command.                                      *)
Genuine(f) ==
    f.id > 0 => f.body \in replied /\ f.body \in Cmds /\ f.id = id[f.body]

(* Ids are handed out once, to commands that have begun. *)
IdsDistinct ==
    /\ \A c \in Cmds : id[c] <= nextCmd
    /\ \A c \in Cmds : pc[c] = "idle" => id[c] = 0
    /\ \A c \in Cmds : pc[c] \notin {"idle", "done"} => id[c] > 0
    /\ \A c, d \in Cmds : id[c] > 0 /\ id[c] = id[d] => c = d

(* The map and the browser know a command by its id. *)
EntriesGenuine ==
    /\ \A p \in pending : p.id = id[p.ch] /\ p.id > 0
                          /\ pc[p.ch] \in Waiting \cup {"unregister", "expire"}
    /\ \A p \in sent : p.id = id[p.ch] /\ p.id > 0

(* So do the frames on their way: those on the wire, the one the reader is    *)
(* about, and those in response channels.                                     *)
FramesGenuine ==
    /\ \A n \in 1..Len(wire) : Genuine(wire[n])
    /\ rpc \in {"take", "send"} => Genuine(rframe)
    /\ rpc = "send" => rframe.id = id[rch] /\ rframe.id > 0
    /\ \A c \in Cmds : \A n \in 1..Len(resp[c]) :
            resp[c][n].body = c /\ c \in replied

(* A response channel is in one place at a time, and nowhere before its       *)
(* handler registered it.                                                     *)
OnePlace ==
    \A c \in Cmds :
        /\ InMap(c) => ~InHand(c) /\ ~InChan(c) /\ ~Released(c)
        /\ InHand(c) => ~InChan(c) /\ ~Released(c)
        /\ InChan(c) => ~Released(c)
        /\ pc[c] \in {"idle", "register"} =>
                ~InMap(c) /\ ~InHand(c) /\ ~InChan(c) /\ ~Released(c)

Reachable ==
    \A c \in Cmds : pc[c] \in Waiting => InMap(c) \/ InHand(c) \/ InChan(c) \/ Released(c)

SubsOpen ==
    /\ \A s \in subs : s \notin closed /\ spc[s] \in Serving
    /\ \A s \in Subs : spc[s] = "idle" => s \notin closed

CmdInv ==
    /\ IdsDistinct /\ EntriesGenuine /\ FramesGenuine
    /\ OnePlace /\ Reachable /\ NoCrossedResponse

IInv == TypeInv /\ CmdInv /\ SubsOpen

-----------------------------------------------------------------------------
(* The invariant holds of the hub newHub makes.                               *)
LEMMA InitIInv == Init => IInv
  BY InitTyped, Disjoint DEF Init, IInv, CmdInv, SubsOpen, IdsDistinct, EntriesGenuine, FramesGenuine,
     OnePlace, Reachable, NoCrossedResponse, InMap, InHand, InChan, Released, Waiting, NoAnswer, StrayId

(* What CmdInv is about; a step that leaves this alone keeps it. *)
routeVars == <<nextCmd, pc, id, answer, pending, resp, closed, rpc, rframe, rch,
               wire, sent, replied>>

(* A step that leaves routeVars alone keeps what CmdInv says.                 *)
LEMMA RouteStutter == ASSUME CmdInv, UNCHANGED routeVars PROVE CmdInv'
  BY DEF CmdInv, IdsDistinct, EntriesGenuine, FramesGenuine, Genuine, OnePlace,
         Reachable, NoCrossedResponse, InMap, InHand, InChan, Released, routeVars

(* Every step of handleCommand keeps ids, routes and answers in order.        *)
LEMMA CommandRoutes ==
    ASSUME TypeInv, CmdInv, NEW c \in Cmds, Command(c) PROVE CmdInv'
  <1> USE DEF TypeInv, TypeOK, ReaderTyped, CmdInv, IdsDistinct, EntriesGenuine,
              FramesGenuine, Genuine, OnePlace, Reachable, NoCrossedResponse, InMap,
              InHand, InChan, Released, Waiting, Entry, Without, With, Goto, Reply,
              cmdVars, chanVars, readVars, subVars, fanVars, browserVars
  <1>1. CASE BadRequest(c)
    BY <1>1 DEF BadRequest
  <1>2. CASE Begin(c)
    <2>1. IdsDistinct'
      BY <1>2 DEF Begin
    <2>2. EntriesGenuine'
      BY <1>2 DEF Begin
    <2>3. FramesGenuine'
      BY <1>2 DEF Begin
    <2>4. OnePlace'
      BY <1>2 DEF Begin
    <2>5. Reachable'
      BY <1>2 DEF Begin
    <2>6. NoCrossedResponse'
      BY <1>2 DEF Begin
    <2> QED
      BY <2>1, <2>2, <2>3, <2>4, <2>5, <2>6 DEF CmdInv
  <1>3. CASE Register(c)
    <2>1. IdsDistinct'
      BY <1>3 DEF Register
    <2>2. EntriesGenuine'
      <3>1. ASSUME NEW p \in pending'
            PROVE  p.id = id[p.ch] /\ p.id > 0 /\ pc'[p.ch] \in Waiting \cup {"unregister", "expire"}
        <4>1. CASE p \in pending
          BY <1>3, <4>1 DEF Register
        <4>2. CASE p = [id |-> id[c], ch |-> c]
          <5>1. p.id = id[c] /\ p.ch = c
            BY <4>2
          <5>2. pc[c] = "register" /\ pc'[c] = "write"
            BY <1>3 DEF Register
          <5>3. id[c] > 0
            BY <5>2
          <5> QED
            BY <5>1, <5>2, <5>3
        <4> QED
          BY <1>3, <4>1, <4>2 DEF Register
      <3> QED
        BY <1>3, <3>1 DEF Register
    <2>3. FramesGenuine'
      BY <1>3 DEF Register
    <2>4. OnePlace'
      BY <1>3 DEF Register
    <2>5. Reachable'
      <3>1. InMap(c)'
        <4>1. [id |-> id[c], ch |-> c] \in pending'
          BY <1>3 DEF Register
        <4> QED
          BY <4>1
      <3>2. ASSUME NEW d \in Cmds, d # c, InMap(d) PROVE InMap(d)'
        BY <1>3, <3>2 DEF Register
      <3>3. \A d \in Cmds \ {c} : pc'[d] = pc[d]
        BY <1>3 DEF Register
      <3>4. \A d \in Cmds : /\ InHand(d) => InHand(d)'
                            /\ InChan(d) => InChan(d)'
                            /\ Released(d) => Released(d)'
        BY <1>3 DEF Register
      <3> SUFFICES ASSUME NEW d \in Cmds, pc'[d] \in Waiting
                   PROVE  (InMap(d) \/ InHand(d) \/ InChan(d) \/ Released(d))'
        BY DEF Reachable
      <3> HIDE DEF InMap, InHand, InChan, Released
      <3>5. CASE d = c
        BY <3>1, <3>5
      <3>6. CASE d # c
        BY <3>2, <3>3, <3>4, <3>6
      <3> QED
        BY <3>5, <3>6
    <2>6. NoCrossedResponse'
      BY <1>3 DEF Register
    <2> QED
      BY <2>1, <2>2, <2>3, <2>4, <2>5, <2>6 DEF CmdInv
  <1>4. CASE WriteText(c)
    BY <1>4 DEF WriteText
  <1>12. CASE Count(c)
    BY <1>12 DEF Count
  <1>5. CASE WriteFails(c)
    BY <1>5 DEF WriteFails
  <1>6. CASE WriteFailed(c)
    BY <1>6 DEF WriteFailed
  <1>7. CASE Echo(c)
    BY <1>7 DEF Echo
  <1>8. CASE Receive(c)
    BY <1>8 DEF Receive
  <1>9. CASE ReceiveClosed(c)
    BY <1>9 DEF ReceiveClosed
  <1>10. CASE Timeout(c)
    BY <1>10 DEF Timeout
  <1>11. CASE TimedOut(c)
    BY <1>11 DEF TimedOut
  <1> QED
    BY <1>1, <1>2, <1>3, <1>4, <1>5, <1>6, <1>7, <1>8, <1>9, <1>10, <1>11, <1>12 DEF Command

(* So does every step of read, shutdown included.                             *)
LEMMA ReaderRoutes ==
    ASSUME TypeInv, CmdInv, Reader PROVE CmdInv'
  <1> USE DEF TypeInv, TypeOK, ReaderTyped, CmdInv, IdsDistinct, EntriesGenuine,
              FramesGenuine, Genuine, OnePlace, Reachable, NoCrossedResponse, InMap,
              InHand, InChan, Released, Waiting, Entry, Frame, Without,
              cmdVars, chanVars, readVars, subVars, fanVars, browserVars
  <1>1. CASE ReadText
    BY <1>1 DEF ReadText
  <1>2. CASE ReadFails
    BY <1>2 DEF ReadFails
  <1>3. CASE Take
    BY <1>3 DEF Take
  <1>4. CASE Send
    <2>1. IdsDistinct'
      BY <1>4 DEF Send
    <2>2. EntriesGenuine'
      BY <1>4 DEF Send
    <2>3. FramesGenuine'
      BY <1>4 DEF Send
    <2>4. OnePlace'
      BY <1>4 DEF Send
    <2>5. Reachable'
      BY <1>4 DEF Send
    <2>6. NoCrossedResponse'
      BY <1>4 DEF Send
    <2> QED
      BY <2>1, <2>2, <2>3, <2>4, <2>5, <2>6 DEF CmdInv
  <1>5. CASE Fan
    BY <1>5 DEF Fan
  <1>6. CASE Shutdown
    <2>1. IdsDistinct'
      BY <1>6, Disjoint DEF Shutdown
    <2>2. EntriesGenuine'
      BY <1>6, Disjoint DEF Shutdown
    <2>3. FramesGenuine'
      BY <1>6, Disjoint DEF Shutdown
    <2>4. OnePlace'
      BY <1>6, Disjoint DEF Shutdown
    <2>5. Reachable'
      BY <1>6, Disjoint DEF Shutdown
    <2>6. NoCrossedResponse'
      BY <1>6, Disjoint DEF Shutdown
    <2> QED
      BY <2>1, <2>2, <2>3, <2>4, <2>5, <2>6 DEF CmdInv
  <1>7. CASE CountEvent
    BY <1>7 DEF CountEvent
  <1> QED
    BY <1>1, <1>2, <1>3, <1>4, <1>5, <1>6, <1>7 DEF Reader

(* One more frame on the wire.                                                *)
LEMMA TransmitGenuine ==
    ASSUME wire \in Seq(Frame), NEW f \in Frame, Transmit(f), Genuine(f)',
           \A n \in 1..Len(wire) : Genuine(wire[n])'
    PROVE  (\A n \in 1..Len(wire) : Genuine(wire[n]))'
  <1>1. /\ Len(wire) \in Nat /\ Len(wire') = Len(wire) + 1
        /\ wire'[Len(wire) + 1] = f
        /\ \A n \in 1..Len(wire) : wire'[n] = wire[n]
    BY DEF Transmit
  <1>2. \A n \in 1..Len(wire') : n \in 1..Len(wire) \/ n = Len(wire) + 1
    BY <1>1
  <1> QED
    BY <1>1, <1>2 DEF Genuine

(* So does whatever the browser does.                                         *)
LEMMA BrowserRoutes ==
    ASSUME TypeInv, CmdInv, Browser PROVE CmdInv'
  <1> USE DEF TypeInv, TypeOK, CmdInv, IdsDistinct, EntriesGenuine,
              FramesGenuine, Genuine, OnePlace, Reachable, NoCrossedResponse, InMap,
              InHand, InChan, Released, Transmit,
              cmdVars, chanVars, readVars, subVars, fanVars, browserVars
  <1>1. CASE Respond
    <2>1. PICK p \in sent : /\ Transmit([id |-> p.id, body |-> p.ch])
                            /\ replied' = replied \cup {p.ch}
      BY <1>1 DEF Respond
    <2>2. p.ch \in Cmds /\ p.id = id[p.ch]
      BY DEF Entry
    <2>3. Genuine([id |-> p.id, body |-> p.ch])'
      BY <2>1, <2>2
    <2>4. \A n \in 1..Len(wire) : Genuine(wire[n])'
      BY <2>1
    <2>5. (\A n \in 1..Len(wire) : Genuine(wire[n]))'
      <3>1. wire \in Seq(Frame) /\ [id |-> p.id, body |-> p.ch] \in Frame
        BY <2>2 DEF Frame, Bodies
      <3> QED
        BY <2>1, <2>3, <2>4, <3>1, TransmitGenuine
    <2>6. UNCHANGED <<nextCmd, pc, id, answer, pending, resp, closed, rpc, rframe, rch, sent>>
      BY <2>1
    <2>7. FramesGenuine'
      BY <2>1, <2>5, <2>6
    <2>8. (IdsDistinct /\ EntriesGenuine)'
      BY <2>6
    <2>9. (OnePlace /\ Reachable)'
      BY <2>6
    <2>10. NoCrossedResponse'
      BY <2>1, <2>6
    <2> QED
      BY <2>7, <2>8, <2>9, <2>10
  <1>2. CASE Emit
    <2>1. PICK e \in Events, i \in {NoId, StrayId} :
              Transmit([id |-> i, body |-> e]) /\ UNCHANGED replied
      BY <1>2 DEF Emit
    <2>2. ~([id |-> i, body |-> e].id > 0)
      BY DEF NoId, StrayId
    <2>3. \A n \in 1..Len(wire) : Genuine(wire[n])'
      BY <2>1
    <2>4. (\A n \in 1..Len(wire) : Genuine(wire[n]))'
      <3>1. wire \in Seq(Frame) /\ [id |-> i, body |-> e] \in Frame
        BY DEF Frame, Bodies, NoId, StrayId
      <3>2. Genuine([id |-> i, body |-> e])'
        BY <2>2
      <3> QED
        BY <2>1, <2>3, <3>1, <3>2, TransmitGenuine
    <2> QED
      BY <2>1, <2>4
  <1>3. CASE HangUp
    <2>1. PICK n \in 0..Len(wire) : wire' = SubSeq(wire, 1, n)
      BY <1>3 DEF HangUp
    <2>2. Len(wire') = n /\ \A k \in 1..n : wire'[k] = wire[k]
      BY <2>1
    <2> QED
      BY <1>3, <2>2 DEF HangUp
  <1> QED
    BY <1>1, <1>2, <1>3 DEF Browser

(* handleEvents and handleAwait touch nothing that commands depend on.        *)
LEMMA SubscriberRoutes == Subscriber => UNCHANGED routeVars
  BY DEF Subscriber, Subscribe, Flush, Closed, Gone, Leave, Stream, AwaitHit, AwaitSkip, Deadline,
         cmdVars, chanVars, readVars, browserVars, routeVars

(* No step registers a closed subscriber or closes a registered one.          *)
LEMMA NextSubsOpen ==
    ASSUME IInv, [Next]_vars PROVE SubsOpen'
  <1> USE DEF IInv, SubsOpen, Serving, TypeInv, TypeOK, cmdVars, chanVars, readVars, subVars,
              fanVars, browserVars
  <1>1. ASSUME NEW c \in Cmds, Command(c) PROVE UNCHANGED <<subs, closed, spc>>
    BY <1>1 DEF Command, BadRequest, Begin, Register, WriteText, Count, WriteFails, WriteFailed,
       Echo, Receive, ReceiveClosed, Timeout, TimedOut
  <1>2. CASE Shutdown
    <2>1. \A p \in pending : p.ch \notin Subs
      BY Disjoint DEF Entry
    <2>2. \A s \in Subs : s \in closed' => s \in closed \/ s \in subs
      BY <1>2, <2>1 DEF Shutdown
    <2>3. subs' = {} /\ spc' = spc
      BY <1>2 DEF Shutdown
    <2> QED
      BY <2>2, <2>3
  <1>3. CASE Reader /\ ~Shutdown
    BY <1>3 DEF Reader, ReadText, ReadFails, Take, Send, CountEvent, Fan
  <1>4. CASE Subscriber
    <2>1. ASSUME NEW s \in Subs, Subscribe(s) PROVE SubsOpen'
      BY <2>1 DEF Subscribe
    <2>2. ASSUME NEW s \in Subs, Leave(s) PROVE SubsOpen'
      BY <2>2 DEF Leave
    <2>3. ASSUME NEW s \in Subs, Closed(s) \/ Gone(s) \/ Deadline(s) \/ AwaitHit(s)
          PROVE  SubsOpen'
      BY <2>3 DEF Closed, Gone, Deadline, AwaitHit, Finish
    <2>4. ASSUME NEW s \in Subs, Stream(s) \/ AwaitSkip(s) \/ Flush(s) PROVE SubsOpen'
      BY <2>4 DEF Stream, AwaitSkip, Flush
    <2>5. Streams \subseteq Subs /\ Awaits \subseteq Subs
      BY DEF Subs
    <2> QED
      BY <1>4, <2>1, <2>2, <2>3, <2>4, <2>5 DEF Subscriber
  <1>5. CASE Browser
    BY <1>5 DEF Browser, Respond, Emit, HangUp, Transmit
  <1>6. CASE UNCHANGED vars
    BY <1>6 DEF vars
  <1>7. UNCHANGED <<subs, closed, spc>> => SubsOpen'
    OBVIOUS
  <1> QED
    BY <1>1, <1>2, <1>3, <1>4, <1>5, <1>6, <1>7 DEF Next, Terminated

(* The invariant is inductive.                                                *)
LEMMA NextIInv == ASSUME IInv, [Next]_vars PROVE IInv'
  <1>1. TypeInv'
    BY NextTyped DEF IInv
  <1>2. UNCHANGED vars => UNCHANGED routeVars
    BY DEF vars, cmdVars, chanVars, readVars, browserVars, routeVars
  <1>3. CmdInv'
    BY <1>2, CommandRoutes, ReaderRoutes, SubscriberRoutes, BrowserRoutes, RouteStutter
       DEF IInv, Next, Terminated
  <1>4. SubsOpen'
    BY NextSubsOpen
  <1> QED
    BY <1>1, <1>3, <1>4 DEF IInv

(* The inductive invariant holds of every state of the broker: ids are        *)
(* distinct, map entries and frames are genuine, a waiting handler is in one  *)
(* place and can be reached, and registered subscribers are open.             *)
THEOREM HubInvariant == Spec => []IInv
  BY InitIInv, NextIInv, PTL DEF Spec

(* However many callers share the socket, and however late, often or out of   *)
(* order the browser answers, a caller of /command that gets a response gets  *)
(* the browser's response to its own command.                                 *)
THEOREM HubNeverCrossesResponses == Spec => []NoCrossedResponse
  BY HubInvariant, PTL DEF IInv, CmdInv

(* A registered, unanswered handler can be reached in exactly one way: read   *)
(* and shutdown neither lose nor repeat a response.                           *)
THEOREM HubKeepsOneRoute == Spec => []OneRoute
  <1>1. IInv => OneRoute
    BY DEF IInv, CmdInv, OnePlace, Reachable, OneRoute
  <1> QED
    BY <1>1, HubInvariant, PTL

(* No step of read, fanout or shutdown can send on a closed channel or close  *)
(* one twice.                                                                 *)
THEOREM HubNeverPanics == Spec => []ChansOpen
  <1>1. IInv => ChansOpen
    BY DEF IInv, CmdInv, TypeInv, TypeOK, ReaderTyped, Entry, OnePlace, InMap, InHand,
       Released, SubsOpen, ChansOpen
  <1> QED
    BY <1>1, HubInvariant, PTL

(* The send of read always finds room: the only reader of the socket cannot   *)
(* be stopped by a handler that has given up.                                 *)
THEOREM HubReaderNeverStalls == Spec => []ReaderNeverStalls
  <1>1. IInv => ReaderNeverStalls
    BY DEF IInv, CmdInv, TypeInv, ReaderTyped, OnePlace, InHand, InChan, ReaderNeverStalls
  <1> QED
    BY <1>1, HubInvariant, PTL

(* Handlers that returned are in neither map: the hub's memory is bounded by  *)
(* the requests under way.                                                    *)
THEOREM HubNeverLeaks == Spec => []NoLeak
  <1>1. IInv => NoLeak
    BY DEF IInv, CmdInv, EntriesGenuine, Waiting, SubsOpen, NoLeak
  <1> QED
    BY <1>1, HubInvariant, PTL

-----------------------------------------------------------------------------
(* Fan-out.  The account of one subscriber: the positions q it has seen, those *)
(* it lost (l), the length of the log when it registered (b) and now (n).     *)
Ordered(q, l, b, n) ==
    /\ Increasing(q)
    /\ \A i \in 1..Len(q) : q[i] \in (b + 1)..n /\ q[i] \notin l
    /\ l \subseteq (b + 1)..n
    /\ b <= n

Accounts(q, l, m) == m \in l \/ \E i \in 1..Len(q) : q[i] = m

(* Nothing is missing before a position it has seen; nor at all.              *)
NoGap(q, l, b)       == \A i \in 1..Len(q) : \A m \in (b + 1)..q[i] : Accounts(q, l, m)
Complete(q, l, b, n) == \A m \in (b + 1)..n : Accounts(q, l, m)

(* The channel had room: the frame is behind all others.                      *)
LEMMA FrameTaken ==
    ASSUME NEW q \in Seq(Nat), NEW l \in SUBSET Nat, NEW b \in Nat, NEW n \in Nat,
           Ordered(q, l, b, n), Complete(q, l, b, n),
           NEW r, r = Append(q, n + 1)
    PROVE  Ordered(r, l, b, n + 1) /\ NoGap(r, l, b) /\ Complete(r, l, b, n + 1)
  <1>1. /\ r \in Seq(Nat) /\ Len(r) = Len(q) + 1 /\ r[Len(q) + 1] = n + 1
        /\ \A i \in 1..Len(q) : r[i] = q[i]
    OBVIOUS
  <1>2. ASSUME NEW i \in 1..Len(r), NEW j \in 1..Len(r), i < j PROVE r[i] < r[j]
    <2>1. i \in 1..Len(q) /\ r[i] = q[i] /\ q[i] <= n
      BY <1>1, <1>2 DEF Ordered
    <2>2. CASE j \in 1..Len(q)
      BY <1>1, <1>2, <2>1, <2>2 DEF Ordered, Increasing
    <2>3. CASE j = Len(q) + 1
      BY <1>1, <2>1, <2>3
    <2> QED
      BY <1>1, <2>2, <2>3
  <1>3. \A i \in 1..Len(r) : r[i] \in (b + 1)..(n + 1) /\ r[i] \notin l
    BY <1>1 DEF Ordered
  <1>4. Ordered(r, l, b, n + 1)
    BY <1>2, <1>3 DEF Ordered, Increasing
  <1>5. Complete(r, l, b, n + 1)
    BY <1>1 DEF Complete, Accounts
  <1>6. NoGap(r, l, b)
    BY <1>1, <1>3, <1>5 DEF Complete, NoGap
  <1> QED
    BY <1>4, <1>5, <1>6

(* The channel was full: the frame is among the lost.                         *)
LEMMA FrameLost ==
    ASSUME NEW q \in Seq(Nat), NEW l \in SUBSET Nat, NEW b \in Nat, NEW n \in Nat,
           Ordered(q, l, b, n), NoGap(q, l, b), Complete(q, l, b, n),
           NEW k, k = l \cup {n + 1}
    PROVE  Ordered(q, k, b, n + 1) /\ NoGap(q, k, b) /\ Complete(q, k, b, n + 1)
  <1>1. Ordered(q, k, b, n + 1)
    BY DEF Ordered
  <1>2. Complete(q, k, b, n + 1)
    BY DEF Complete, Accounts
  <1>3. NoGap(q, k, b)
    BY DEF NoGap, Accounts
  <1> QED
    BY <1>1, <1>2, <1>3

(* A frame behind a subscriber that is no longer registered.                  *)
LEMMA FrameMissed ==
    ASSUME NEW q \in Seq(Nat), NEW l \in SUBSET Nat, NEW b \in Nat, NEW n \in Nat,
           Ordered(q, l, b, n)
    PROVE  Ordered(q, l, b, n + 1)
  BY DEF Ordered

(* A frame that moves from the channel to its subscriber was seen before.     *)
LEMMA SeenKept ==
    ASSUME NEW p \in Seq(Nat), NEW q \in Seq(Nat), q # <<>>
    PROVE  Append(p, Head(q)) \o Tail(q) = p \o q
  <1>1. Len(Append(p, Head(q)) \o Tail(q)) = Len(p \o q)
    OBVIOUS
  <1>2. \A i \in 1..Len(p \o q) : (Append(p, Head(q)) \o Tail(q))[i] = (p \o q)[i]
    OBVIOUS
  <1>3. Append(p, Head(q)) \o Tail(q) \in Seq(Nat) /\ p \o q \in Seq(Nat)
    OBVIOUS
  <1> QED
    BY <1>1, <1>2, <1>3

(* A frame that fanout puts into a channel is behind all that was seen.       *)
LEMMA SeenGrows ==
    ASSUME NEW p \in Seq(Nat), NEW q \in Seq(Nat), NEW n \in Nat
    PROVE  p \o Append(q, n) = Append(p \o q, n)
  <1>1. Len(p \o Append(q, n)) = Len(Append(p \o q, n))
    OBVIOUS
  <1>2. \A i \in 1..Len(p \o Append(q, n)) : (p \o Append(q, n))[i] = Append(p \o q, n)[i]
    OBVIOUS
  <1>3. p \o Append(q, n) \in Seq(Nat) /\ Append(p \o q, n) \in Seq(Nat)
    OBVIOUS
  <1> QED
    BY <1>1, <1>2, <1>3

(* Every subscriber's account is in order; that of a registered one is        *)
(* complete; and a subscriber that has yet to come has seen and lost nothing. *)
SubInv ==
    \A s \in Subs :
        /\ Ordered(Seen(s), lost[s], since[s], Len(log))
        /\ NoGap(Seen(s), lost[s], since[s])
        /\ s \in subs => Complete(Seen(s), lost[s], since[s], Len(log))
        /\ spc[s] = "idle" => Seen(s) = <<>> /\ lost[s] = {}

(* An /await that is not answered has skipped no match.                       *)
AwaitInv ==
    /\ \A a \in Awaits : spc[a] \in {"idle", "live"} =>
           /\ outcome[a] # "event"
           /\ \A i \in 1..Len(got[a]) : ~Matches(a, log[got[a][i]])
    /\ \A a \in Awaits : spc[a] = "write" => outcome[a] = "event"
    /\ \A a \in Awaits : outcome[a] = "event" => Len(got[a]) > 0
    /\ AwaitFirstMatch

(* fanout keeps every account.                                                *)
LEMMA FanoutAccounts ==
    ASSUME TypeInv, SubsOpen, SubInv, NEW f \in Frame, fanout(f), UNCHANGED <<subs, spc, got, since>>
    PROVE  SubInv'
  <1> USE DEF TypeInv, TypeOK
  <1> SUFFICES ASSUME NEW s \in Subs
               PROVE  /\ Ordered(Seen(s)', lost'[s], since[s], Len(log'))
                      /\ NoGap(Seen(s)', lost'[s], since[s])
                      /\ s \in subs => Complete(Seen(s)', lost'[s], since[s], Len(log'))
                      /\ spc[s] = "idle" => Seen(s)' = <<>> /\ lost'[s] = {}
    BY DEF SubInv
  <1> DEFINE n == Len(log)
             q == Seen(s)
             l == lost[s]
             b == since[s]
  <1>1. n \in Nat /\ Len(log') = n + 1
    BY DEF fanout
  <1>2. /\ got[s] \in Seq(Nat) /\ buf[s] \in Seq(Nat) /\ q \in Seq(Nat)
        /\ l \in SUBSET Nat /\ b \in Nat
    BY DEF Seen
  <1>3. Ordered(q, l, b, n) /\ NoGap(q, l, b)
    BY DEF SubInv
  <1>4. spc[s] = "idle" => s \notin subs
    BY DEF SubsOpen, Serving
  <1>5. CASE s \notin subs
    <2>1. Seen(s)' = q /\ lost'[s] = l
      BY <1>5 DEF Seen, fanout
    <2>2. Ordered(q, l, b, n + 1)
      BY <1>1, <1>2, <1>3, FrameMissed
    <2>3. spc[s] = "idle" => q = <<>> /\ l = {}
      BY DEF SubInv
    <2> QED
      BY <1>1, <1>3, <1>5, <2>1, <2>2, <2>3
  <1>6. CASE s \in subs /\ Len(buf[s]) >= SubCap
    <2>1. Seen(s)' = q /\ lost'[s] = l \cup {n + 1}
      BY <1>6 DEF Seen, fanout
    <2>2. Complete(q, l, b, n)
      BY <1>6 DEF SubInv
    <2>3. /\ Ordered(q, lost'[s], b, n + 1) /\ NoGap(q, lost'[s], b)
          /\ Complete(q, lost'[s], b, n + 1)
      BY <1>1, <1>2, <1>3, <2>1, <2>2, FrameLost
    <2> QED
      BY <1>1, <1>4, <1>6, <2>1, <2>3
  <1>7. CASE s \in subs /\ ~(Len(buf[s]) >= SubCap)
    <2>1. got'[s] = got[s] /\ buf'[s] = Append(buf[s], n + 1) /\ lost'[s] = l
      BY <1>7 DEF fanout
    <2>2. Seen(s)' = Append(q, n + 1)
      <3>1. Seen(s)' = got[s] \o Append(buf[s], n + 1)
        BY <2>1 DEF Seen
      <3>2. got[s] \in Seq(Nat) /\ buf[s] \in Seq(Nat) /\ n + 1 \in Nat
        BY <1>1, <1>2
      <3>3. got[s] \o Append(buf[s], n + 1) = Append(got[s] \o buf[s], n + 1)
        BY ONLY <3>2, SeenGrows
      <3> QED
        BY <3>1, <3>3 DEF Seen
    <2>3. Complete(q, l, b, n)
      BY <1>7 DEF SubInv
    <2>4. /\ Ordered(Seen(s)', l, b, n + 1) /\ NoGap(Seen(s)', l, b)
          /\ Complete(Seen(s)', l, b, n + 1)
      BY <1>1, <1>2, <1>3, <2>2, <2>3, FrameTaken
    <2> QED
      BY <1>1, <1>4, <1>7, <2>1, <2>4
  <1> QED
    BY <1>5, <1>6, <1>7

(* Taking a frame from its channel changes no account.                        *)
LEMMA PopAccounts ==
    ASSUME TypeInv, NEW s \in Subs, Pop(s)
    PROVE  \A t \in Subs : Seen(t)' = Seen(t)
  <1>1. \A t \in Subs : got[t] \in Seq(Nat) /\ buf[t] \in Seq(Nat)
    BY DEF TypeInv, TypeOK
  <1>2. /\ got'[s] = Append(got[s], Head(buf[s])) /\ buf'[s] = Tail(buf[s]) /\ buf[s] # <<>>
        /\ \A t \in Subs \ {s} : got'[t] = got[t] /\ buf'[t] = buf[t]
    BY DEF Pop, TypeInv, TypeOK
  <1>3. Seen(s)' = Seen(s)
    BY <1>1, <1>2, SeenKept DEF Seen
  <1> QED
    BY <1>2, <1>3 DEF Seen

(* The accounts are inductive: only fanout, registering and taking touch them. *)
LEMMA NextSubInv == ASSUME IInv, SubInv, [Next]_vars PROVE SubInv'
  <1> USE DEF TypeInv, TypeOK, cmdVars, chanVars, readVars, subVars, fanVars, browserVars
  <1>0. TypeInv /\ SubsOpen
    BY DEF IInv
  <1>1. CASE /\ UNCHANGED <<got, buf, lost, since, log>> /\ subs' \subseteq subs
             /\ \A s \in Subs : spc'[s] = "idle" => spc[s] = "idle"
    BY <1>1 DEF SubInv, Seen
  <1>2. ASSUME NEW c \in Cmds, Echo(c) PROVE SubInv'
    <2>1. [id |-> id[c], body |-> c] \in Frame
      BY <1>0 DEF Frame, Bodies
    <2> QED
      BY <1>0, <1>2, <2>1, FanoutAccounts DEF Echo
  <1>3. CASE Fan
    <2>1. rframe \in Frame
      BY <1>0, <1>3 DEF Fan, ReaderTyped
    <2> QED
      BY <1>0, <1>3, <2>1, FanoutAccounts DEF Fan
  <1>4. ASSUME NEW c \in Cmds, Command(c), ~Echo(c) PROVE SubInv'
    BY <1>1, <1>4 DEF Command, BadRequest, Begin, Register, WriteText, Count, WriteFails,
       WriteFailed, Receive, ReceiveClosed, Timeout, TimedOut
  <1>5. CASE Reader /\ ~Fan
    BY <1>1, <1>5 DEF Reader, ReadText, ReadFails, Take, Send, CountEvent, Shutdown
  <1>6. ASSUME NEW s \in Subs, Subscribe(s) PROVE SubInv'
    <2>1. /\ since' = [since EXCEPT ![s] = Len(log)] /\ UNCHANGED <<got, buf, lost, log>>
          /\ subs' = subs \cup {s} /\ spc[s] = "idle"
          /\ spc' = [spc EXCEPT ![s] = IF s \in Streams THEN "write" ELSE "live"]
      BY <1>6 DEF Subscribe
    <2>2. \A t \in Subs : Seen(t)' = Seen(t)
      BY <2>1 DEF Seen
    <2>3. Seen(s) = <<>> /\ lost[s] = {}
      BY <2>1 DEF SubInv
    <2>4. /\ Ordered(Seen(s)', lost'[s], since'[s], Len(log'))
          /\ NoGap(Seen(s)', lost'[s], since'[s])
          /\ Complete(Seen(s)', lost'[s], since'[s], Len(log'))
      BY <1>0, <2>1, <2>2, <2>3 DEF Ordered, NoGap, Complete, Increasing
    <2>5. ASSUME NEW t \in Subs, t # s
          PROVE  /\ lost'[t] = lost[t] /\ since'[t] = since[t] /\ spc'[t] = spc[t]
                 /\ t \in subs' <=> t \in subs
      BY <1>0, <2>1, <2>5
    <2>6. spc'[s] # "idle" /\ log' = log
      BY <1>0, <2>1
    <2> QED
      BY <2>2, <2>4, <2>5, <2>6 DEF SubInv
  <1>7. ASSUME NEW s \in Subs, Pop(s), UNCHANGED <<lost, since, log, subs>>,
               spc[s] = "live", \A t \in Subs : spc'[t] = "idle" => spc[t] = "idle"
        PROVE  SubInv'
    <2>1. \A t \in Subs : Seen(t)' = Seen(t)
      BY <1>0, <1>7, PopAccounts
    <2> QED
      BY <1>7, <2>1 DEF SubInv
  <1>8. ASSUME NEW s \in Streams, Stream(s) PROVE SubInv'
    BY <1>7, <1>8 DEF Stream, Subs
  <1>9. ASSUME NEW s \in Awaits, AwaitHit(s) \/ AwaitSkip(s) PROVE SubInv'
    BY <1>0, <1>7, <1>9 DEF AwaitHit, AwaitSkip, Finish, Subs
  <1>10. ASSUME NEW s \in Subs, Closed(s) \/ Gone(s) \/ Leave(s) \/ Deadline(s) \/ Flush(s)
         PROVE  SubInv'
    BY <1>0, <1>1, <1>10 DEF Closed, Gone, Leave, Deadline, Flush, Finish
  <1>11. CASE Browser
    BY <1>1, <1>11 DEF Browser, Respond, Emit, HangUp, Transmit
  <1>12. CASE UNCHANGED vars
    BY <1>1, <1>12 DEF vars
  <1>13. Awaits \subseteq Subs
    BY DEF Subs
  <1> QED
    BY <1>2, <1>3, <1>4, <1>5, <1>6, <1>8, <1>9, <1>10, <1>11, <1>12, <1>13
       DEF Next, Subscriber, Terminated

(* Before anybody registers there is nothing to account for.                  *)
LEMMA InitSubInv == Init => SubInv
  BY DEF Init, SubInv, Seen, Ordered, NoGap, Increasing

(* fanout gives every subscriber the frames of the wire in wire order, each at *)
(* most once and none from before it registered, and a registered one misses  *)
(* only those that found its channel full.                                    *)
THEOREM HubAccountsForFrames == Spec => []FramesAccounted
  <1>1. Init => SubInv
    BY InitSubInv
  <1>2. IInv /\ SubInv => FramesAccounted
    <2> SUFFICES ASSUME IInv, SubInv, NEW s \in Subs
                 PROVE  LET seen == {Seen(s)[i] : i \in 1..Len(Seen(s))}
                        IN /\ Increasing(Seen(s))
                           /\ s \in subs => seen \cup lost[s] = (since[s] + 1)..Len(log)
                           /\ seen \cap lost[s] = {}
      BY DEF FramesAccounted
    <2> QED
      BY DEF SubInv, Ordered, Complete, Accounts
  <1>3. Spec => []SubInv
    BY <1>1, HubInvariant, NextSubInv, PTL DEF Spec
  <1> QED
    BY <1>2, <1>3, HubInvariant, PTL

(* What was taken comes first among what was seen ...                         *)
LEMMA TakenIsSeen ==
    ASSUME NEW p \in Seq(Nat), NEW q \in Seq(Nat), NEW i \in 1..Len(p)
    PROVE  i \in 1..Len(p \o q) /\ (p \o q)[i] = p[i]
  OBVIOUS

(* ... and what is taken next comes right after it.                           *)
LEMMA NextToBeSeen ==
    ASSUME NEW p \in Seq(Nat), NEW q \in Seq(Nat), q # <<>>
    PROVE  Len(p) + 1 \in 1..Len(p \o q) /\ (p \o q)[Len(p) + 1] = Head(q)
  OBVIOUS

(* handleAwait skips no match and leaves with the first: inductive, given the *)
(* accounts.                                                                  *)
LEMMA NextAwaitInv ==
    ASSUME IInv, SubInv, AwaitInv, [Next]_vars PROVE AwaitInv'
  <1> USE DEF cmdVars, chanVars, readVars, subVars, fanVars, browserVars
  <1>0. /\ log \in Seq(Frame) /\ got \in [Subs -> Seq(Nat)] /\ buf \in [Subs -> Seq(Nat)]
        /\ since \in [Subs -> Nat] /\ lost \in [Subs -> SUBSET Nat]
        /\ spc \in [Subs -> {"idle", "live", "write", "leave", "done"}]
        /\ outcome \in [Subs -> {"none", "event", "closed", "gone", "timeout"}]
        /\ Awaits \subseteq Subs
    BY DEF IInv, TypeInv, TypeOK, Subs
  <1>1. ASSUME NEW a \in Awaits, NEW i \in 1..Len(got[a])
        PROVE  got[a][i] \in 1..Len(log)
    <2>1. got[a] \in Seq(Nat) /\ buf[a] \in Seq(Nat) /\ a \in Subs /\ since[a] \in Nat
      BY <1>0
    <2>2. i \in 1..Len(Seen(a)) /\ Seen(a)[i] = got[a][i]
      BY <2>1, TakenIsSeen DEF Seen
    <2>3. Seen(a)[i] \in (since[a] + 1)..Len(log)
      BY <2>1, <2>2 DEF SubInv, Ordered
    <2> QED
      BY <1>0, <2>1, <2>2, <2>3
  (* The log may grow, and what is lost with it; no /await moves. *)
  <1>2. CASE /\ \A a \in Awaits : got'[a] = got[a]
             /\ \A a \in Awaits : outcome'[a] = "event" <=> outcome[a] = "event"
             /\ \A a \in Awaits : spc'[a] \in {"idle", "live"} => spc[a] \in {"idle", "live"}
             /\ \A a \in Awaits : spc'[a] = "write" => spc[a] = "write"
             /\ \A a \in Awaits : outcome[a] = "event" => since'[a] = since[a]
             /\ \A n \in 1..Len(log) : log'[n] = log[n]
             /\ \A a \in Awaits : lost[a] \subseteq lost'[a]
    <2>1. ASSUME NEW a \in Awaits, spc'[a] \in {"idle", "live"}
          PROVE  outcome'[a] # "event" /\ \A i \in 1..Len(got'[a]) : ~Matches(a, log'[got'[a][i]])
      BY <1>1, <1>2, <2>1 DEF AwaitInv, Matches
    <2>2. ASSUME NEW a \in Awaits, outcome'[a] = "event"
          PROVE  /\ Len(got'[a]) > 0
                 /\ LET n == got'[a][Len(got'[a])]
                    IN /\ Matches(a, log'[n])
                       /\ \A m \in (since'[a] + 1)..(n - 1) : Matches(a, log'[m]) => m \in lost'[a]
      <3> DEFINE k == Len(got[a])
                 n == got[a][k]
      <3>1. outcome[a] = "event" /\ k > 0 /\ k \in 1..Len(got[a])
        BY <1>0, <1>2, <2>2 DEF AwaitInv
      <3>2. n \in 1..Len(log)
        BY <1>1, <3>1
      <3>3. /\ Matches(a, log[n])
            /\ \A m \in (since[a] + 1)..(n - 1) : Matches(a, log[m]) => m \in lost[a]
        BY <3>1 DEF AwaitInv, AwaitFirstMatch
      <3>4. \A m \in (since[a] + 1)..(n - 1) : m \in 1..Len(log)
        BY <1>0, <3>2
      <3>5. since'[a] = since[a] /\ lost[a] \subseteq lost'[a]
        BY <1>2, <3>1
      <3>6. Matches(a, log'[n])
        BY <1>2, <3>2, <3>3
      <3>7. \A m \in (since'[a] + 1)..(n - 1) : Matches(a, log'[m]) => m \in lost'[a]
        BY <1>2, <3>3, <3>4, <3>5
      <3> QED
        BY <1>2, <3>1, <3>6, <3>7
    <2>3. \A a \in Awaits : spc'[a] = "write" => outcome'[a] = "event"
      BY <1>2 DEF AwaitInv
    <2> QED
      BY <2>1, <2>2, <2>3 DEF AwaitInv, AwaitFirstMatch, Matches
  <1>3. ASSUME NEW f \in Frame, fanout(f), UNCHANGED <<spc, got, outcome, since>>
        PROVE  AwaitInv'
    <2>1. \A n \in 1..Len(log) : log'[n] = log[n]
      BY <1>0, <1>3 DEF fanout
    <2>2. \A a \in Awaits : lost[a] \subseteq lost'[a]
      BY <1>0, <1>3 DEF fanout
    <2> QED
      BY <1>2, <1>3, <2>1, <2>2
  <1>4. CASE UNCHANGED <<got, outcome, spc, since, log, lost>>
    BY <1>2, <1>4
  <1>5. ASSUME NEW c \in Cmds, Command(c) PROVE AwaitInv'
    <2>1. [id |-> id[c], body |-> c] \in Frame
      BY DEF IInv, TypeInv, TypeOK, Frame, Bodies
    <2> QED
      BY <1>3, <1>4, <1>5, <2>1 DEF Command, BadRequest, Begin, Register, WriteText, Count, WriteFails,
         WriteFailed, Echo, Receive, ReceiveClosed, Timeout, TimedOut
  <1>6. CASE Reader
    <2>1. rpc = "fan" => rframe \in Frame
      BY DEF IInv, TypeInv, ReaderTyped
    <2> QED
      BY <1>3, <1>4, <1>6, <2>1 DEF Reader, ReadText, ReadFails, Take, Send, CountEvent, Fan, Shutdown
  <1>7. ASSUME NEW s \in Subs, Subscribe(s) PROVE AwaitInv'
    <2>1. spc[s] = "idle" /\ UNCHANGED <<got, outcome, log, lost>>
      BY <1>7 DEF Subscribe
    <2>2. \A a \in Awaits : outcome[a] = "event" => a # s
      BY <2>1 DEF AwaitInv
    <2>3. \A a \in Awaits : outcome[a] = "event" => since'[a] = since[a]
      BY <1>0, <1>7, <2>2 DEF Subscribe
    <2>4. \A a \in Awaits : /\ spc'[a] \in {"idle", "live"} => spc[a] \in {"idle", "live"}
                            /\ spc'[a] = "write" => spc[a] = "write"
      BY <1>0, <1>7, Disjoint DEF Subscribe
    <2> QED
      BY <1>2, <2>1, <2>3, <2>4
  <1>8. ASSUME NEW s \in Streams, Stream(s) PROVE AwaitInv'
    <2>1. \A a \in Awaits : got'[a] = got[a] /\ spc'[a] = spc[a]
      BY <1>0, <1>8, Disjoint DEF Stream, Pop
    <2> QED
      BY <1>2, <1>8, <2>1 DEF Stream
  <1>14. ASSUME NEW s \in Subs, Flush(s) PROVE AwaitInv'
    <2>1. \A a \in Awaits : /\ spc'[a] \in {"idle", "live"} => spc[a] \in {"idle", "live"}
                            /\ spc'[a] = "write" => spc[a] = "write"
      BY <1>0, <1>14 DEF Flush, AwaitInv
    <2> QED
      BY <1>2, <1>14, <2>1 DEF Flush
  <1>9. ASSUME NEW s \in Subs, NEW how \in {"closed", "gone", "timeout"}, Finish(s, "leave", how),
               UNCHANGED <<got, since, log, lost>>
        PROVE  AwaitInv'
    <2>1. \A a \in Awaits : outcome'[a] = "event" <=> outcome[a] = "event"
      BY <1>0, <1>9 DEF Finish, AwaitInv
    <2>2. \A a \in Awaits : /\ spc'[a] \in {"idle", "live"} => spc[a] \in {"idle", "live"}
                            /\ spc'[a] = "write" => spc[a] = "write"
      BY <1>0, <1>9 DEF Finish
    <2> QED
      BY <1>2, <1>9, <2>1, <2>2
  <1>10. ASSUME NEW s \in Subs, Closed(s) \/ Gone(s) \/ Deadline(s) PROVE AwaitInv'
    BY <1>9, <1>10 DEF Closed, Gone, Deadline
  <1>11. ASSUME NEW s \in Subs, Leave(s) PROVE AwaitInv'
    <2>1. \A a \in Awaits : /\ spc'[a] \in {"idle", "live"} => spc[a] \in {"idle", "live"}
                            /\ spc'[a] = "write" => spc[a] = "write"
      BY <1>0, <1>11 DEF Leave
    <2> QED
      BY <1>2, <1>11, <2>1 DEF Leave
  <1>12. ASSUME NEW a \in Awaits, AwaitHit(a) PROVE AwaitInv'
    <2> DEFINE n == Head(buf[a])
    <2>1. /\ a \in Subs /\ got[a] \in Seq(Nat) /\ buf[a] \in Seq(Nat) /\ since[a] \in Nat
          /\ buf[a] # <<>> /\ n \in Nat
      BY <1>0, <1>12 DEF AwaitHit, Pop
    <2>2. /\ spc[a] = "live" /\ spc'[a] = "write" /\ outcome'[a] = "event"
          /\ Matches(a, log[n]) /\ UNCHANGED <<log, since, lost>>
          /\ got'[a] = Append(got[a], n)
      BY <1>0, <1>12, <2>1 DEF AwaitHit, Finish, Pop
    <2>3. \A b \in Awaits \ {a} : got'[b] = got[b] /\ outcome'[b] = outcome[b] /\ spc'[b] = spc[b]
      BY <1>0, <1>12 DEF AwaitHit, Finish, Pop
    <2>4. Len(got'[a]) > 0 /\ got'[a][Len(got'[a])] = n
      BY <2>1, <2>2
    <2>5. ASSUME NEW m \in (since[a] + 1)..(n - 1), Matches(a, log[m]) PROVE m \in lost[a]
      <3> DEFINE k == Len(got[a]) + 1
      <3>1. NoGap(Seen(a), lost[a], since[a]) /\ Increasing(Seen(a))
        BY <2>1 DEF SubInv, Ordered
      <3>2. k \in 1..Len(Seen(a)) /\ Seen(a)[k] = n
        BY <2>1, NextToBeSeen DEF Seen
      <3>3. m \in (since[a] + 1)..Seen(a)[k]
        BY <2>1, <3>2
      <3> SUFFICES ASSUME m \notin lost[a] PROVE FALSE
        OBVIOUS
      <3>4. PICK i \in 1..Len(Seen(a)) : Seen(a)[i] = m
        BY <3>1, <3>2, <3>3 DEF NoGap, Accounts
      <3>5. ~(k < i) /\ i # k
        <4>1. n \in Nat /\ n > m /\ Increasing(Seen(a))
          BY <2>1, <3>1
        <4> HIDE DEF n
        <4> QED
          BY ONLY <3>2, <3>4, <4>1 DEF Increasing
      <3>6. i \in 1..Len(got[a])
        <4>1. Len(got[a]) \in Nat
          BY <2>1
        <4> HIDE DEF Seen
        <4> QED
          BY ONLY <3>2, <3>4, <3>5, <4>1
      <3>7. Seen(a)[i] = got[a][i]
        <4>1. got[a] \in Seq(Nat) /\ buf[a] \in Seq(Nat)
          BY <2>1
        <4> QED
          BY ONLY <3>6, <4>1, TakenIsSeen DEF Seen
      <3>8. ~Matches(a, log[got[a][i]])
        BY <2>2, <3>6 DEF AwaitInv
      <3> QED
        BY <2>5, <3>4, <3>7, <3>8
    <2>6. \A b \in Awaits : spc'[b] \in {"idle", "live"} =>
            outcome'[b] # "event" /\ \A i \in 1..Len(got'[b]) : ~Matches(b, log'[got'[b][i]])
      BY <2>2, <2>3 DEF AwaitInv, Matches
    <2>7. AwaitFirstMatch'
      <3> SUFFICES ASSUME NEW b \in Awaits, outcome'[b] = "event"
                   PROVE  LET k == got'[b][Len(got'[b])]
                          IN /\ Matches(b, log'[k])
                             /\ \A m \in (since'[b] + 1)..(k - 1) : Matches(b, log'[m]) => m \in lost'[b]
        BY DEF AwaitFirstMatch, Matches
      <3>1. CASE b = a
        BY <2>2, <2>4, <2>5, <3>1
      <3>2. CASE b # a
        BY <2>2, <2>3, <3>2 DEF AwaitInv, AwaitFirstMatch
      <3> QED
        BY <3>1, <3>2
    <2>8. \A b \in Awaits : outcome'[b] = "event" => Len(got'[b]) > 0
      BY <2>3, <2>4 DEF AwaitInv
    <2>9. \A b \in Awaits : spc'[b] = "write" => outcome'[b] = "event"
      BY <2>2, <2>3 DEF AwaitInv
    <2> QED
      BY <2>6, <2>7, <2>8, <2>9 DEF AwaitInv, Matches
  <1>13. ASSUME NEW a \in Awaits, AwaitSkip(a) PROVE AwaitInv'
    <2> DEFINE n == Head(buf[a])
    <2>1. /\ a \in Subs /\ got[a] \in Seq(Nat) /\ buf[a] \in Seq(Nat) /\ buf[a] # <<>> /\ n \in Nat
      BY <1>0, <1>13 DEF AwaitSkip, Pop
    <2>2. /\ spc[a] = "live" /\ ~Matches(a, log[n]) /\ UNCHANGED <<log, since, lost, spc, outcome>>
          /\ got'[a] = Append(got[a], n)
      BY <1>0, <1>13, <2>1 DEF AwaitSkip, Pop
    <2>3. \A b \in Awaits \ {a} : got'[b] = got[b]
      BY <1>0, <1>13 DEF AwaitSkip, Pop
    <2>4. outcome[a] # "event" /\ \A i \in 1..Len(got[a]) : ~Matches(a, log[got[a][i]])
      BY <2>2 DEF AwaitInv
    <2>5. ASSUME NEW i \in 1..Len(got'[a]) PROVE ~Matches(a, log[got'[a][i]])
      <3>1. \/ got'[a][i] = n
            \/ i \in 1..Len(got[a]) /\ got'[a][i] = got[a][i]
        BY <2>1, <2>2
      <3> QED
        BY <2>2, <2>4, <3>1
    <2>6. ASSUME NEW b \in Awaits, spc'[b] \in {"idle", "live"}
          PROVE  outcome'[b] # "event" /\ \A i \in 1..Len(got'[b]) : ~Matches(b, log'[got'[b][i]])
      BY <2>2, <2>3, <2>4, <2>5, <2>6 DEF AwaitInv
    <2>7. AwaitFirstMatch'
      BY <2>2, <2>3, <2>4 DEF AwaitInv, AwaitFirstMatch, Matches
    <2>8. \A b \in Awaits : outcome'[b] = "event" => Len(got'[b]) > 0
      BY <2>2, <2>3, <2>4 DEF AwaitInv
    <2>9. \A b \in Awaits : spc'[b] = "write" => outcome'[b] = "event"
      BY <2>2 DEF AwaitInv
    <2> QED
      BY <2>6, <2>7, <2>8, <2>9 DEF AwaitInv, Matches
  <1>16. CASE Browser
    BY <1>4, <1>16 DEF Browser, Respond, Emit, HangUp, Transmit
  <1>15. CASE UNCHANGED vars
    BY <1>4, <1>15 DEF vars
  <1> QED
    BY <1>0, <1>5, <1>6, <1>7, <1>8, <1>10, <1>11, <1>12, <1>13, <1>14, <1>15, <1>16
       DEF Next, Subscriber, Terminated

(* /await answers with the first frame since it registered that contains the  *)
(* query; only a frame dropped from its full channel can come before it.      *)
THEOREM HubAwaitsFirstMatch == Spec => []AwaitFirstMatch
  <1>1. Init => SubInv
    BY InitSubInv
  <1>2. Init => AwaitInv
    BY InitTyped DEF Init, AwaitInv, AwaitFirstMatch, TypeInv, TypeOK, Subs
  <1>3. Spec => [](SubInv /\ AwaitInv)
    BY <1>1, <1>2, HubInvariant, NextSubInv, NextAwaitInv, PTL DEF Spec
  <1> QED
    BY <1>3, PTL DEF AwaitInv

-----------------------------------------------------------------------------
(* The witness echo *)

EchoOf(c) == [id |-> id[c], body |-> c]
Heard(c)  == pc[c] \in {"wait", "expire"} \/ answer[c].status \in Written

(* The log has a command's echo when, and only when, its write succeeded.     *)
EchoInv ==
    /\ rpc \in {"count", "fan"} => rframe.id = NoId
    /\ \A c \in Cmds : pc[c] # "done" => answer[c].status = "none"
    /\ \A n \in 1..Len(log) : log[n].id # NoId =>
           \E c \in Cmds : Heard(c) /\ log[n] = EchoOf(c)
    /\ \A n, m \in 1..Len(log) : log[n].id # NoId /\ log[n] = log[m] => n = m
    /\ \A c \in Cmds : Heard(c) => \E n \in 1..Len(log) : log[n] = EchoOf(c)

(* Only a write that succeeded leads to an echo, and it is the only one.      *)
LEMMA NextEchoInv == ASSUME IInv, EchoInv, [Next]_vars PROVE EchoInv'
  <1> USE DEF cmdVars, chanVars, readVars, subVars, fanVars, browserVars
  <1>0. /\ log \in Seq(Frame) /\ id \in [Cmds -> Nat]
        /\ pc \in [Cmds -> {"idle", "register", "write", "unregister", "count", "echo",
                            "wait", "expire", "done"}]
        /\ answer \in [Cmds -> [status : {"none", "bad_request", "write_failed", "ok",
                                         "closed", "timeout"},
                                body : Bodies \cup {None}]]
    BY DEF IInv, TypeInv, TypeOK
  (* No echo: nobody's position relative to it changes, nor its command's id. *)
  <1>1. CASE /\ UNCHANGED log
             /\ rpc' \in {"count", "fan"} => rframe'.id = NoId
             /\ \A c \in Cmds : pc'[c] # "done" => answer'[c].status = "none"
             /\ \A c \in Cmds : Heard(c)' <=> Heard(c)
             /\ \A c \in Cmds : Heard(c) => id'[c] = id[c]
    <2>0. \A c \in Cmds : Heard(c) => EchoOf(c)' = EchoOf(c)
      BY <1>1 DEF EchoOf
    <2>1. \A n \in 1..Len(log) : log[n].id # NoId =>
             \E c \in Cmds : Heard(c)' /\ log[n] = EchoOf(c)'
      BY <1>1, <2>0 DEF EchoInv
    <2>2. ASSUME NEW c \in Cmds, Heard(c)'
          PROVE  \E n \in 1..Len(log') : log'[n] = EchoOf(c)'
      BY <1>1, <2>0, <2>2 DEF EchoInv
    <2> QED
      BY <1>1, <2>1, <2>2 DEF EchoInv
  <1>2. ASSUME NEW f \in Frame, f.id = NoId, log' = Append(log, f), rpc' \notin {"count", "fan"},
               UNCHANGED <<pc, answer, id>>
        PROVE  EchoInv'
    <2>1. /\ Len(log') = Len(log) + 1 /\ log'[Len(log) + 1] = f
          /\ \A n \in 1..Len(log) : log'[n] = log[n]
      BY <1>0, <1>2
    <2>2. \A c \in Cmds : (Heard(c)' <=> Heard(c)) /\ EchoOf(c)' = EchoOf(c)
      BY <1>2 DEF Heard, EchoOf
    <2>3. ASSUME NEW n \in 1..Len(log'), log'[n].id # NoId
          PROVE  n \in 1..Len(log) /\ log'[n] = log[n]
      BY <1>0, <1>2, <2>1, <2>3
    <2>4. ASSUME NEW n \in 1..Len(log'), log'[n].id # NoId
          PROVE  \E d \in Cmds : Heard(d)' /\ log'[n] = EchoOf(d)'
      BY <1>2, <2>2, <2>3, <2>4 DEF EchoInv
    <2>5. ASSUME NEW n \in 1..Len(log'), NEW m \in 1..Len(log'), log'[n].id # NoId, log'[n] = log'[m]
          PROVE  n = m
      BY <2>3, <2>5 DEF EchoInv
    <2>6. ASSUME NEW c \in Cmds, Heard(c)'
          PROVE  \E n \in 1..Len(log') : log'[n] = EchoOf(c)'
      BY <1>0, <1>2, <2>1, <2>2, <2>6 DEF EchoInv
    <2> QED
      BY <1>2, <2>4, <2>5, <2>6 DEF EchoInv
  <1>3. ASSUME NEW c \in Cmds, Echo(c) PROVE EchoInv'
    <2>1. /\ Len(log') = Len(log) + 1 /\ log'[Len(log) + 1] = EchoOf(c)
          /\ \A n \in 1..Len(log) : log'[n] = log[n]
          /\ pc[c] = "echo" /\ pc' = [pc EXCEPT ![c] = "wait"] /\ UNCHANGED <<answer, id, rpc, rframe>>
      BY <1>0, <1>3 DEF Echo, Goto, fanout, EchoOf
    <2>2. ~Heard(c) /\ Heard(c)'
      BY <1>0, <2>1 DEF Heard, EchoInv, Written
    <2>3. \A d \in Cmds \ {c} : Heard(d)' <=> Heard(d)
      BY <1>0, <2>1 DEF Heard
    <2>4. \A d \in Cmds : EchoOf(d)' = EchoOf(d) /\ (EchoOf(d) = EchoOf(c) => d = c)
      BY <2>1 DEF EchoOf
    <2>5. \A n \in 1..Len(log) : log[n].id # NoId => log[n] # EchoOf(c)
      BY <2>2, <2>4 DEF EchoInv
    <2>6. EchoOf(c).id # NoId
      BY <1>0 DEF NoId, EchoOf
    <2>7. ASSUME NEW n \in 1..Len(log'), log'[n].id # NoId
          PROVE  \E d \in Cmds : Heard(d)' /\ log'[n] = EchoOf(d)'
      <3>1. CASE n = Len(log) + 1
        BY <2>1, <2>2, <2>4, <3>1
      <3>2. CASE n \in 1..Len(log)
        BY <2>1, <2>2, <2>3, <2>7, <2>4, <3>2 DEF EchoInv
      <3> QED
        BY <1>0, <2>1, <3>1, <3>2
    <2>8. ASSUME NEW n \in 1..Len(log'), NEW m \in 1..Len(log'), log'[n].id # NoId, log'[n] = log'[m]
          PROVE  n = m
      <3>1. (n \in 1..Len(log) \/ n = Len(log) + 1) /\ (m \in 1..Len(log) \/ m = Len(log) + 1)
        BY <1>0, <2>1
      <3> QED
        BY <2>1, <2>5, <2>6, <2>8, <3>1 DEF EchoInv
    <2>9. ASSUME NEW d \in Cmds, Heard(d)'
          PROVE  \E n \in 1..Len(log') : log'[n] = EchoOf(d)'
      <3>1. CASE d = c
        BY <1>0, <2>1, <2>4, <3>1
      <3>2. CASE d # c
        BY <1>0, <2>1, <2>3, <2>9, <2>4, <3>2 DEF EchoInv
      <3> QED
        BY <3>1, <3>2
    <2>10. \A d \in Cmds : pc'[d] # "done" => answer'[d].status = "none"
      BY <1>0, <2>1 DEF EchoInv
    <2> QED
      BY <2>1, <2>7, <2>8, <2>9, <2>10 DEF EchoInv
  <1>4. ASSUME NEW c \in Cmds, Command(c), ~Echo(c) PROVE EchoInv'
    <2> USE <1>0 DEF Goto, Reply, Heard, Written, EchoInv
    <2>1. CASE Begin(c)
      BY <1>1, <2>1 DEF Begin
    <2>2. CASE BadRequest(c)
      BY <1>1, <2>2 DEF BadRequest
    <2>3. CASE Register(c)
      BY <1>1, <2>3 DEF Register
    <2>4. CASE WriteText(c)
      BY <1>1, <2>4 DEF WriteText
    <2>11. CASE Count(c)
      BY <1>1, <2>11 DEF Count
    <2>5. CASE WriteFails(c)
      BY <1>1, <2>5 DEF WriteFails
    <2>6. CASE WriteFailed(c)
      BY <1>1, <2>6 DEF WriteFailed
    <2>7. CASE Receive(c)
      BY <1>1, <2>7 DEF Receive
    <2>8. CASE ReceiveClosed(c)
      BY <1>1, <2>8 DEF ReceiveClosed
    <2>9. CASE Timeout(c)
      BY <1>1, <2>9 DEF Timeout
    <2>10. CASE TimedOut(c)
      BY <1>1, <2>10 DEF TimedOut
    <2> QED
      BY <1>4, <2>1, <2>2, <2>3, <2>4, <2>5, <2>6, <2>7, <2>8, <2>9, <2>10, <2>11 DEF Command
  <1>5. CASE Fan
    <2>1. rframe \in Frame /\ rframe.id = NoId
      BY <1>5 DEF Fan, EchoInv, IInv, TypeInv, ReaderTyped
    <2> QED
      BY <1>2, <1>5, <2>1 DEF Fan, fanout
  <1>6. CASE UNCHANGED <<pc, answer, id, log, rpc, rframe>>
    BY <1>1, <1>6 DEF EchoInv, Heard
  <1>7. CASE Reader /\ ~Fan
    <2>1. UNCHANGED <<pc, answer, id, log>> /\ (rpc' \in {"count", "fan"} => rframe'.id = NoId)
      BY <1>7 DEF EchoInv, Reader, ReadText, ReadFails, Take, Send, CountEvent, Shutdown
    <2> QED
      BY <1>1, <2>1 DEF EchoInv, Heard
  <1>8. CASE Subscriber
    BY <1>6, <1>8 DEF Subscriber, Subscribe, Flush, Closed, Gone, Leave, Stream, AwaitHit, AwaitSkip,
       Deadline
  <1>9. CASE Browser
    BY <1>6, <1>9 DEF Browser, Respond, Emit, HangUp, Transmit
  <1>10. CASE UNCHANGED vars
    BY <1>6, <1>10 DEF vars
  <1> QED
    BY <1>3, <1>4, <1>5, <1>7, <1>8, <1>9, <1>10 DEF Next, Terminated

(* So it is in every state of the broker.                                     *)
LEMMA HubEchoInv == Spec => []EchoInv
  <1>1. Init => EchoInv
    BY DEF Init, EchoInv, Heard, Written, NoAnswer
  <1> QED
    BY <1>1, HubInvariant, NextEchoInv, PTL DEF Spec

(* handleCommand shows a command to the subscribers once it was written, never *)
(* if the write failed, and exactly once, before its caller hears anything.   *)
THEOREM HubEchoesOnce == Spec => []EchoedOnce
  <1>1. IInv /\ EchoInv => EchoedOnce
    <2> SUFFICES ASSUME IInv, EchoInv, NEW c \in Cmds
                 PROVE  IF Heard(c) THEN \E n \in 1..Len(log) : Echoes(c) = {n}
                                    ELSE Echoes(c) = {}
      BY DEF EchoedOnce, Heard
    <2>1. EchoOf(c).id # NoId
      BY DEF IInv, TypeInv, TypeOK, NoId, EchoOf
    <2>2. CASE Heard(c)
      <3>1. PICK n \in 1..Len(log) : log[n] = EchoOf(c)
        BY <2>2 DEF EchoInv
      <3>2. Echoes(c) = {n}
        BY <2>1, <3>1 DEF Echoes, EchoInv, EchoOf
      <3> QED
        BY <2>2, <3>2
    <2>3. CASE ~Heard(c)
      <3>1. \A n \in 1..Len(log) : log[n] # EchoOf(c)
        <4>1. \A d \in Cmds : EchoOf(d) = EchoOf(c) => d = c
          BY DEF EchoOf
        <4> QED
          BY <2>1, <2>3, <4>1 DEF EchoInv
      <3> QED
        BY <2>3, <3>1 DEF Echoes, EchoOf
    <2> QED
      BY <2>2, <2>3
  <1> QED
    BY <1>1, HubInvariant, HubEchoInv, PTL

-----------------------------------------------------------------------------
(* /health *)

Begun       == {c \in Cmds : pc[c] # "idle"}
Come        == {s \in Subs : spc[s] # "idle"}
Counted     == {c \in Cmds : \/ pc[c] \in {"echo", "wait", "expire"}
                             \/ answer[c].status \in Written}
IdLess      == {n \in 1..Len(log) : log[n].id = NoId}
InFan       == IF rpc = "fan" THEN 1 ELSE 0

HealthInv ==
    /\ IsFiniteSet(Begun) /\ IsFiniteSet(Come)
    /\ cmdCount = Cardinality(Counted)
    /\ evtCount = Cardinality(IdLess) + InFan

(* Only finitely many requests have begun, so what they leave can be counted. *)
LEMMA NextBegun ==
    ASSUME IInv, IsFiniteSet(Begun), IsFiniteSet(Come), [Next]_vars
    PROVE  IsFiniteSet(Begun)' /\ IsFiniteSet(Come)'
  <1> USE DEF cmdVars, chanVars, readVars, subVars, fanVars, browserVars
  <1>0. pc \in [Cmds -> {"idle", "register", "write", "unregister", "count", "echo",
                        "wait", "expire", "done"}]
        /\ spc \in [Subs -> {"idle", "live", "write", "leave", "done"}]
        /\ Streams \subseteq Subs /\ Awaits \subseteq Subs
    BY DEF IInv, TypeInv, TypeOK, Subs
  <1>1. CASE UNCHANGED <<pc, spc>>
    BY <1>1 DEF Begun, Come
  <1>2. ASSUME NEW c \in Cmds, Command(c) PROVE IsFiniteSet(Begun)' /\ IsFiniteSet(Come)'
    <2>1. UNCHANGED spc /\ \A d \in Cmds \ {c} : pc'[d] = pc[d]
      BY <1>0, <1>2 DEF Command, BadRequest, Begin, Register, WriteText, Count, WriteFails, WriteFailed,
         Echo, Receive, ReceiveClosed, Timeout, TimedOut, Goto
    <2>2. Begun' \in SUBSET (Begun \cup {c}) /\ Come' = Come
      BY <2>1 DEF Begun, Come
    <2>3. IsFiniteSet(Begun \cup {c})
      BY FS_AddElement
    <2> QED
      BY <2>2, <2>3, FS_Subset
  <1>3. CASE Subscriber
    <2>1. PICK s \in Subs : \A t \in Subs \ {s} : spc'[t] = spc[t]
      BY <1>0, <1>3 DEF Subscriber, Subscribe, Flush, Closed, Gone, Leave, Stream, AwaitHit, AwaitSkip,
         Deadline, Finish
    <2>2. pc' = pc
      BY <1>3 DEF Subscriber, Subscribe, Flush, Closed, Gone, Leave, Stream, AwaitHit, AwaitSkip,
         Deadline
    <2>3. Come' \in SUBSET (Come \cup {s}) /\ Begun' = Begun
      BY <2>1, <2>2 DEF Begun, Come
    <2>4. IsFiniteSet(Come \cup {s})
      BY FS_AddElement
    <2> QED
      BY <2>3, <2>4, FS_Subset
  <1>4. CASE Reader
    BY <1>1, <1>4 DEF Reader, ReadText, ReadFails, Take, Send, CountEvent, Fan, Shutdown
  <1>5. CASE Browser
    BY <1>1, <1>5 DEF Browser, Respond, Emit, HangUp, Transmit
  <1>6. CASE UNCHANGED vars
    BY <1>1, <1>6 DEF vars
  <1> QED
    BY <1>2, <1>3, <1>4, <1>5, <1>6 DEF Next, Terminated

(* Those a command was counted for have begun, so they can be counted too.    *)
LEMMA CountedFinite ==
    ASSUME IInv, EchoInv, IsFiniteSet(Begun)
    PROVE  IsFiniteSet(Counted)
  <1>1. \A c \in Cmds : pc[c] = "idle" => answer[c].status = "none"
    BY DEF EchoInv
  <1>2. Counted \in SUBSET Begun
    BY <1>1 DEF Counted, Begun, Written
  <1> QED
    BY <1>2, FS_Subset

(* The counter of commands moves with the handlers that count.                *)
LEMMA NextCounted ==
    ASSUME IInv, EchoInv, IsFiniteSet(Begun), cmdCount = Cardinality(Counted), [Next]_vars
    PROVE  cmdCount' = Cardinality(Counted')
  <1> USE DEF cmdVars, chanVars, readVars, subVars, fanVars, browserVars
  <1>0. /\ pc \in [Cmds -> {"idle", "register", "write", "unregister", "count", "echo",
                            "wait", "expire", "done"}]
        /\ answer \in [Cmds -> [status : {"none", "bad_request", "write_failed", "ok",
                                         "closed", "timeout"},
                                body : Bodies \cup {None}]]
        /\ \A c \in Cmds : pc[c] # "done" => answer[c].status = "none"
    BY DEF IInv, TypeInv, TypeOK, EchoInv
  <1>1. CASE UNCHANGED <<pc, answer, cmdCount>>
    BY <1>1 DEF Counted
  <1>2. ASSUME NEW c \in Cmds, Count(c) PROVE cmdCount' = Cardinality(Counted')
    <2>1. /\ pc[c] = "count" /\ pc' = [pc EXCEPT ![c] = "echo"] /\ answer' = answer
          /\ cmdCount' = cmdCount + 1
      BY <1>2 DEF Count, Goto
    <2>2. c \notin Counted /\ Counted' = Counted \cup {c}
      BY <1>0, <2>1 DEF Counted, Written
    <2>3. Cardinality(Counted \cup {c}) = Cardinality(Counted) + 1
      BY <2>2, CountedFinite, FS_AddElement
    <2> QED
      BY <2>1, <2>2, <2>3
  <1>3. ASSUME NEW c \in Cmds, Command(c), ~Count(c) PROVE cmdCount' = Cardinality(Counted')
    <2>1. cmdCount' = cmdCount
      BY <1>3 DEF Command, BadRequest, Begin, Register, WriteText, WriteFails, WriteFailed,
         Echo, Receive, ReceiveClosed, Timeout, TimedOut
    <2>2. \A d \in Cmds \ {c} : pc'[d] = pc[d] /\ answer'[d] = answer[d]
      BY <1>0, <1>3 DEF Command, BadRequest, Begin, Register, WriteText, WriteFails, WriteFailed,
         Echo, Receive, ReceiveClosed, Timeout, TimedOut, Goto, Reply
    <2>3. (c \in Counted)' <=> c \in Counted
      BY <1>0, <1>3 DEF Command, BadRequest, Begin, Register, WriteText, WriteFails, WriteFailed,
         Echo, Receive, ReceiveClosed, Timeout, TimedOut, Goto, Reply, Counted, Written
    <2>4. Counted' = Counted
      BY <2>2, <2>3 DEF Counted
    <2> QED
      BY <2>1, <2>4
  <1>4. CASE Reader
    BY <1>1, <1>4 DEF Reader, ReadText, ReadFails, Take, Send, CountEvent, Fan, Shutdown
  <1>5. CASE Subscriber
    BY <1>1, <1>5 DEF Subscriber, Subscribe, Flush, Closed, Gone, Leave, Stream, AwaitHit, AwaitSkip,
         Deadline
  <1>6. CASE Browser
    BY <1>1, <1>6 DEF Browser, Respond, Emit, HangUp, Transmit
  <1>7. CASE UNCHANGED vars
    BY <1>1, <1>7 DEF vars
  <1> QED
    BY <1>2, <1>3, <1>4, <1>5, <1>6, <1>7 DEF Next, Terminated

(* The id-less frames of the log can be counted.                              *)
LEMMA IdLessFinite == ASSUME log \in Seq(Frame) PROVE IsFiniteSet(IdLess) /\ Cardinality(IdLess) \in Nat
  <1>1. IsFiniteSet(1..Len(log))
    BY FS_Interval
  <1>2. IdLess \in SUBSET (1..Len(log))
    BY DEF IdLess
  <1> QED
    BY <1>1, <1>2, FS_Subset, FS_CardinalityType

(* The counter of events counts the id-less frames, one ahead of fanout.      *)
LEMMA NextIdLess ==
    ASSUME IInv, EchoInv, evtCount = Cardinality(IdLess) + InFan, [Next]_vars
    PROVE  evtCount' = Cardinality(IdLess') + InFan'
  <1> USE DEF cmdVars, chanVars, readVars, subVars, fanVars, browserVars
  <1>0. log \in Seq(Frame) /\ id \in [Cmds -> Nat]
    BY DEF IInv, TypeInv, TypeOK
  <1>1. CASE UNCHANGED <<log, rpc, evtCount>>
    BY <1>1 DEF IdLess, InFan
  <1>2. ASSUME NEW c \in Cmds, Echo(c) PROVE evtCount' = Cardinality(IdLess') + InFan'
    <2>1. log' = Append(log, [id |-> id[c], body |-> c]) /\ UNCHANGED <<rpc, evtCount>>
      BY <1>2 DEF Echo, fanout
    <2>2. id[c] # NoId
      BY <1>0 DEF NoId
    <2>3. IdLess' = IdLess
      BY <1>0, <2>1, <2>2 DEF IdLess
    <2> QED
      BY <2>1, <2>3 DEF InFan
  <1>3. CASE Fan
    <2>1. /\ log' = Append(log, rframe) /\ rpc = "fan" /\ rpc' = "read" /\ evtCount' = evtCount
          /\ rframe.id = NoId
      BY <1>3 DEF Fan, fanout, EchoInv
    <2>2. IdLess' = IdLess \cup {Len(log) + 1} /\ Len(log) + 1 \notin IdLess
      BY <1>0, <2>1 DEF IdLess
    <2>3. Cardinality(IdLess \cup {Len(log) + 1}) = Cardinality(IdLess) + 1
      BY <1>0, <2>2, IdLessFinite, FS_AddElement
    <2>4. InFan = 1 /\ InFan' = 0
      BY <2>1 DEF InFan
    <2>5. Cardinality(IdLess') = Cardinality(IdLess) + 1
      BY <2>2, <2>3
    <2>6. Cardinality(IdLess) \in Nat
      BY <1>0, IdLessFinite
    <2> QED
      BY <2>1, <2>4, <2>5, <2>6
  <1>4. CASE CountEvent
    <2>1. IdLess' = IdLess /\ InFan = 0 /\ InFan' = 1 /\ evtCount' = evtCount + 1
      BY <1>4 DEF CountEvent, IdLess, InFan
    <2>2. Cardinality(IdLess) \in Nat
      BY <1>0, IdLessFinite
    <2> QED
      BY <2>1, <2>2
  <1>5. CASE Reader /\ ~Fan /\ ~CountEvent
    <2>1. UNCHANGED <<log, evtCount>> /\ rpc # "fan" /\ rpc' # "fan"
      BY <1>5 DEF Reader, ReadText, ReadFails, Take, Send, Shutdown
    <2> QED
      BY <2>1 DEF IdLess, InFan
  <1>6. ASSUME NEW c \in Cmds, Command(c), ~Echo(c) PROVE evtCount' = Cardinality(IdLess') + InFan'
    BY <1>1, <1>6 DEF Command, BadRequest, Begin, Register, WriteText, Count, WriteFails, WriteFailed,
       Receive, ReceiveClosed, Timeout, TimedOut
  <1>7. CASE Subscriber
    BY <1>1, <1>7 DEF Subscriber, Subscribe, Flush, Closed, Gone, Leave, Stream, AwaitHit, AwaitSkip,
         Deadline
  <1>8. CASE Browser
    BY <1>1, <1>8 DEF Browser, Respond, Emit, HangUp, Transmit
  <1>9. CASE UNCHANGED vars
    BY <1>1, <1>9 DEF vars
  <1> QED
    BY <1>2, <1>3, <1>4, <1>5, <1>6, <1>7, <1>8, <1>9 DEF Next, Terminated

(* The map of pending commands has at most one entry for a handler at work.   *)
LEMMA InFlightAtWork ==
    ASSUME IInv, IsFiniteSet(Begun)
    PROVE  Cardinality(pending) <= Cardinality({c \in Cmds : pc[c] \notin {"idle", "register", "done"}})
  <1> DEFINE Work == {c \in Cmds : pc[c] \notin {"idle", "register", "done"}}
             f == [p \in pending |-> p.ch]
  <1>1. \A p \in pending : p \in Entry /\ p.id = id[p.ch] /\ p.ch \in Work
    BY DEF IInv, TypeInv, TypeOK, CmdInv, EntriesGenuine, Waiting, Entry
  <1>2. Work \in SUBSET Begun
    BY DEF Begun
  <1>3. IsFiniteSet(Work)
    BY <1>2, FS_Subset
  <1>4. f \in [pending -> Work]
    BY <1>1
  <1>5. \A p, q \in pending : f[p] = f[q] => p = q
    BY <1>1 DEF Entry
  <1>6. f \in Injection(pending, Work)
    BY <1>4, <1>5 DEF Injection, IsInjective
  <1> HIDE DEF Work, f
  <1>7. Cardinality(pending) <= Cardinality(Work)
    BY <1>3, <1>6, FS_Injection
  <1> QED
    BY <1>7 DEF Work

(* Each count of /health is true of the broker when it is read: commands      *)
(* counts what was written, but for handlers between write and count, and     *)
(* never lags what the subscribers were shown.                                *)
THEOREM HubHealthHonest == Spec => []HealthHonest
  <1>1. Init => HealthInv
    <2> SUFFICES ASSUME Init PROVE HealthInv
      OBVIOUS
    <2>1. Begun = {} /\ Come = {}
      BY DEF Init, Begun, Come
    <2>2. Counted = {}
      BY DEF Init, Counted, Written, NoAnswer
    <2>3. IdLess = {}
      BY DEF Init, IdLess
    <2>4. cmdCount = 0 /\ evtCount = 0 /\ InFan = 0
      BY DEF Init, InFan
    <2>5. IsFiniteSet(Begun) /\ IsFiniteSet(Come)
      BY <2>1, FS_EmptySet
    <2>6. Cardinality(Counted) = 0 /\ Cardinality(IdLess) = 0
      BY <2>2, <2>3, FS_EmptySet
    <2> QED
      BY <2>4, <2>5, <2>6 DEF HealthInv
  <1>2. ASSUME IInv, EchoInv, HealthInv PROVE HealthHonest
    <2>1. subs \in SUBSET {s \in Subs : spc[s] \in Serving}
      BY <1>2 DEF IInv, TypeInv, TypeOK, SubsOpen
    <2>2. {s \in Subs : spc[s] \in Serving} \in SUBSET Come
      BY DEF Come, Serving
    <2>3. Cardinality(subs) <= Cardinality({s \in Subs : spc[s] \in Serving})
      BY <1>2, <2>1, <2>2, FS_Subset DEF HealthInv
    <2>4. Cardinality(pending) <= Cardinality({c \in Cmds : pc[c] \notin {"idle", "register", "done"}})
      BY <1>2, InFlightAtWork DEF HealthInv
    <2>5. {c \in Cmds : WasWritten(c) /\ pc[c] # "count"} = Counted
      <3>1. \A c \in Cmds : pc[c] = "count" => answer[c].status = "none"
        BY <1>2 DEF EchoInv
      <3> QED
        BY <3>1 DEF WasWritten, Counted, Written
    <2>6. {c \in Cmds : Echoes(c) # {}} \in SUBSET Counted
      <3> SUFFICES ASSUME NEW c \in Cmds, NEW n \in 1..Len(log), log[n] = EchoOf(c)
                   PROVE  c \in Counted
        BY DEF Echoes, EchoOf
      <3>1. log[n].id # NoId
        BY <1>2 DEF IInv, TypeInv, TypeOK, NoId, EchoOf
      <3>2. PICK d \in Cmds : Heard(d) /\ log[n] = EchoOf(d)
        BY <1>2, <3>1 DEF EchoInv
      <3>3. d = c
        BY <3>2 DEF EchoOf
      <3> QED
        BY <3>2, <3>3 DEF Heard, Counted
    <2>7. Cardinality({c \in Cmds : Echoes(c) # {}}) <= Cardinality(Counted)
      BY <1>2, <2>6, CountedFinite, FS_Subset DEF HealthInv
    <2>8. Health.commands = Cardinality(Counted) /\ Cardinality(Counted) \in Nat
      BY <1>2, CountedFinite, FS_CardinalityType DEF HealthInv, Health
    <2>9. Cardinality({c \in Cmds : Echoes(c) # {}}) \in Nat
      BY <1>2, <2>6, CountedFinite, FS_Subset, FS_CardinalityType DEF HealthInv
    <2>10. Health.commands >= Cardinality({c \in Cmds : Echoes(c) # {}})
      BY <2>7, <2>8, <2>9
    <2> QED
      BY <1>2, <2>3, <2>4, <2>5, <2>8, <2>10 DEF HealthInv, HealthHonest, Health, IdLess, InFan
  <1>3. ASSUME IInv, EchoInv, HealthInv, [Next]_vars PROVE HealthInv'
    <2>1. IsFiniteSet(Begun)' /\ IsFiniteSet(Come)'
      BY <1>3, NextBegun DEF HealthInv
    <2>2. cmdCount' = Cardinality(Counted')
      BY <1>3, NextCounted DEF HealthInv
    <2>3. evtCount' = Cardinality(IdLess') + InFan'
      BY <1>3, NextIdLess DEF HealthInv
    <2> QED
      BY <2>1, <2>2, <2>3 DEF HealthInv
  <1>4. Spec => [](IInv /\ EchoInv)
    BY HubInvariant, HubEchoInv, PTL
  <1>5. Spec => []HealthInv
    BY <1>1, <1>3, <1>4, PTL DEF Spec
  <1> QED
    BY <1>2, <1>4, <1>5, PTL

-----------------------------------------------------------------------------
(* The broker implements the command service. *)
(* Only a command that was written is answered by the browser, and its caller *)
(* is never told that it was not. *)
OnWire(c) ==
    /\ pc[c] \in {"count", "echo", "wait", "expire", "done"}
    /\ answer[c].status \notin {"bad_request", "write_failed"}

ServiceInv ==
    /\ \A c \in Cmds : pc[c] # "done" => answer[c] = NoAnswer
    /\ \A p \in sent : OnWire(p.ch)
    /\ \A c \in replied : OnWire(c)

(* The extra invariant of the refinement holds of the initial hub.            *)
LEMMA InitServiceInv == Init => ServiceInv
  BY DEF Init, ServiceInv

(* The extra invariant of the refinement is inductive, given the invariant of *)
(* the hub.                                                                   *)
LEMMA NextServiceInv ==
    ASSUME TypeInv, ServiceInv, [Next]_vars PROVE ServiceInv'
  <1> USE DEF TypeInv, TypeOK, ServiceInv, OnWire, NoAnswer, Goto, Reply, cmdVars, chanVars,
              readVars, subVars, fanVars, browserVars
  <1>1. ASSUME NEW c \in Cmds, Command(c) PROVE ServiceInv'
    <2>1. CASE BadRequest(c)
      BY <2>1 DEF BadRequest, Entry
    <2>2. CASE Begin(c) \/ Register(c)
      BY <2>2 DEF Begin, Register, Entry
    <2>6. CASE WriteFails(c)
      BY <2>6 DEF WriteFails, Entry
    <2>7. CASE Count(c)
      BY <2>7 DEF Count, Entry
    <2>8. CASE Echo(c)
      BY <2>8 DEF Echo, Entry
    <2>9. CASE Timeout(c)
      BY <2>9 DEF Timeout, Entry
    <2>3. CASE WriteText(c)
      BY <2>3 DEF WriteText, Entry
    <2>4. CASE WriteFailed(c)
      <3>1. c \notin replied /\ \A p \in sent : p.ch # c
        BY <2>4 DEF WriteFailed
      <3>2. \A d \in Cmds \ {c} : pc'[d] = pc[d] /\ answer'[d] = answer[d]
        BY <2>4 DEF WriteFailed
      <3>3. pc'[c] = "done" /\ sent' = sent /\ replied' = replied
        BY <2>4 DEF WriteFailed
      <3>4. \A p \in sent : p.ch \in Cmds
        BY DEF Entry
      <3> QED
        BY <3>1, <3>2, <3>3, <3>4
    <2>5. CASE Receive(c) \/ ReceiveClosed(c) \/ TimedOut(c)
      <3>1. answer'[c].status \in {"ok", "closed", "timeout"} /\ pc'[c] = "done"
        BY <2>5 DEF Receive, ReceiveClosed, TimedOut
      <3>2. \A d \in Cmds \ {c} : pc'[d] = pc[d] /\ answer'[d] = answer[d]
        BY <2>5 DEF Receive, ReceiveClosed, TimedOut
      <3>3. sent' = sent /\ replied' = replied
        BY <2>5 DEF Receive, ReceiveClosed, TimedOut
      <3>4. \A p \in sent : p.ch \in Cmds
        BY DEF Entry
      <3> QED
        BY <3>1, <3>2, <3>3, <3>4
    <2> QED
      BY <1>1, <2>1, <2>2, <2>3, <2>4, <2>5, <2>6, <2>7, <2>8, <2>9 DEF Command
  <1>2. UNCHANGED <<pc, answer, sent, replied>> => ServiceInv'
    OBVIOUS
  <1>3. Reader \/ Subscriber \/ UNCHANGED vars => UNCHANGED <<pc, answer, sent, replied>>
    BY SubscriberRoutes
       DEF Reader, ReadText, ReadFails, Take, Send, CountEvent, Fan, Shutdown, vars, routeVars
  <1>4. CASE Browser
    BY <1>4 DEF Browser, Respond, Emit, HangUp, Transmit
  <1> QED
    BY <1>1, <1>2, <1>3, <1>4 DEF Next, Terminated

(* An initial state of the broker maps to one of the command service.         *)
LEMMA InitService == Init => Service!Init
  BY DEF Init, Service!Init, phaseOf, NoAnswer

(* Each step of the broker is a step of the service, or none. *)
LEMMA StepService ==
    ASSUME IInv, ServiceInv, [Next]_vars PROVE [Service!Next]_Service!vars
  <1> USE DEF IInv, TypeInv, TypeOK, ServiceInv, OnWire, NoAnswer, Goto, Reply, phaseOf,
              cmdVars, chanVars, readVars, subVars, fanVars, browserVars,
              Service!Next, Service!vars, Service!Close
  <1>1. ASSUME NEW c \in Cmds, Command(c) PROVE [Service!Next]_Service!vars
    <2>1. CASE BadRequest(c)
      <3>1. Service!Refuse(c)
        BY <2>1 DEF BadRequest, Service!Refuse
      <3> QED
        BY <3>1
    <2>2. CASE Begin(c)
      <3>1. Service!Accept(c)
        BY <2>2 DEF Begin, Service!Accept
      <3> QED
        BY <3>1
    <2>3. CASE Register(c) \/ WriteText(c) \/ Count(c) \/ WriteFails(c) \/ Echo(c) \/ Timeout(c)
      BY <2>3 DEF Register, WriteText, Count, WriteFails, Echo, Timeout
    <2>4. CASE WriteFailed(c)
      <3>1. Service!NotSent(c)
        BY <2>4 DEF WriteFailed, Service!NotSent
      <3> QED
        BY <3>1
    <2>5. CASE Receive(c)
      <3>1. Head(resp[c]).body = c /\ c \in replied
        BY <2>5 DEF Receive, CmdInv, FramesGenuine
      <3>2. Service!Deliver(c)
        BY <2>5, <3>1 DEF Receive, Service!Deliver
      <3> QED
        BY <3>2
    <2>6. CASE ReceiveClosed(c) \/ TimedOut(c)
      <3>1. Service!GiveUp(c)
        BY <2>6 DEF ReceiveClosed, TimedOut, Service!GiveUp
      <3> QED
        BY <3>1
    <2> QED
      BY <1>1, <2>1, <2>2, <2>3, <2>4, <2>5, <2>6 DEF Command
  <1>2. Reader \/ Subscriber \/ UNCHANGED vars => UNCHANGED <<pc, answer, replied>>
    BY SubscriberRoutes
       DEF Reader, ReadText, ReadFails, Take, Send, CountEvent, Fan, Shutdown, vars, routeVars
  <1>3. UNCHANGED <<pc, answer, replied>> => UNCHANGED Service!vars
    OBVIOUS
  <1>4. CASE Respond
    <2>1. PICK p \in sent : /\ Transmit([id |-> p.id, body |-> p.ch])
                            /\ replied' = replied \cup {p.ch}
      BY <1>4 DEF Respond
    <2>2. p.ch \in Cmds
      BY DEF Entry
    <2>3. Service!BrowserAnswers(p.ch)
      BY <2>1, <2>2 DEF Transmit, Service!BrowserAnswers
    <2> QED
      BY <2>2, <2>3
  <1>5. Emit \/ HangUp => UNCHANGED <<pc, answer, replied>>
    BY DEF Emit, HangUp, Transmit
  <1> QED
    BY <1>1, <1>2, <1>3, <1>4, <1>5 DEF Next, Browser, Terminated

(* The broker implements the service it offers at /command: whatever the      *)
(* other callers and the browser do, a request is answered at most once, with *)
(* a response only if the browser answered that very command, and with        *)
(* "write failed" only if the browser never does.                             *)
THEOREM HubImplementsCommandService == Spec => ImplementsCommandService
  <1>1. Spec => [](IInv /\ ServiceInv)
    <2>1. IInv => TypeInv
      BY DEF IInv
    <2>2. Spec => []ServiceInv
      BY <2>1, HubInvariant, InitServiceInv, NextServiceInv, PTL DEF Spec
    <2> QED
      BY <2>2, HubInvariant, PTL
  <1> QED
    BY <1>1, InitService, StepService, PTL DEF Spec, ImplementsCommandService, Service!Spec
=============================================================================
