--------------------------- MODULE WireProxyProofs ---------------------------
(* Proofs about WireProxy, for any number of calls, restarts and failing      *)
(* writes, and any answers of the upstream.                                   *)
EXTENDS WireProxy, FiniteSetTheorems, FunctionTheorems, TLAPS

RowType  == [seq : Nat, call : Calls, status : Statuses \cup {NoStatus, OK}, run : Nat]
LineType == [row : RowType, whole : BOOLEAN]

Typed ==
    /\ pc \in [Calls -> {"idle", "upstream", "copy", "record", "write", "post",
                         "ended", "aborted", "killed"}]
    /\ verdict \in [Calls -> Statuses \cup {NoStatus, OK}]
    /\ told \in [Calls -> Statuses \cup {NoStatus, OK, BadGateway}]
    /\ number \in [Calls -> Nat] /\ seq \in Nat
    /\ replaying \in BOOLEAN /\ witnessing \in BOOLEAN
    /\ restarts \in 0..MaxRestarts /\ faults \in 0..MaxFaults
    /\ file \in Seq(LineType) /\ posts \subseteq RowType /\ ledger \subseteq RowType

(* What a client was told is what was noted of its call. *)
Honest(k) == \/ verdict[k] = told[k]
             \/ verdict[k] \in {NoStatus, Switching} /\ told[k] = BadGateway

Noted == \A k \in Calls : /\ Honest(k)
                          /\ pc[k] \in {"idle", "upstream"} => verdict[k] = NoStatus

(* A number is given on the way from record to write, and a call that is      *)
(* about to write has one.                                                    *)
Numbers ==
    /\ \A k \in Calls : pc[k] \in {"idle", "upstream", "copy", "record"} => number[k] = Unnumbered
    /\ \A k \in Calls : pc[k] = "write" => number[k] # Unnumbered
    /\ \A k \in Calls : pc[k] \in {"write", "post"} => number[k] <= seq
    /\ \A j, k \in Calls : /\ pc[j] \in {"write", "post"} /\ pc[k] \in {"write", "post"}
                           /\ number[j] = number[k] /\ number[j] # Unnumbered
                           => j = k

Rows == Written \cup posts \cup ledger

(* A row is that of a call which is past its write; one that is about to post *)
(* wrote its line in this run.                                                *)
RowsGenuine ==
    /\ \A r \in Rows : /\ r.seq = number[r.call] /\ r.status = verdict[r.call]
                       /\ r.run <= restarts
                       /\ pc[r.call] \in {"post", "ended", "killed"}
                       /\ pc[r.call] = "post" => r.run = restarts
    /\ \A r \in posts \cup ledger : pc[r.call] = "ended"
    /\ \A r \in Written : r.seq # Unnumbered

(* A call has one row, wherever it is found, and a number one row in its run. *)
RowsApart ==
    /\ \A r, s \in Rows : r.call = s.call => r = s
    /\ \A r, s \in Rows : r.run = s.run /\ r.seq = s.seq /\ r.seq # Unnumbered => r.call = s.call
    /\ \A r \in Rows : r.run = restarts => r.seq <= seq
    /\ \A r \in Rows : \A k \in Calls :
            /\ r.run = restarts /\ pc[k] \in {"write", "post"}
            /\ r.seq = number[k] /\ r.seq # Unnumbered
            => r.call = k

OneLine == \A m, n \in 1..Len(file) : file[m].row.call = file[n].row.call => m = n

IInv == Typed /\ Noted /\ Numbers /\ RowsGenuine /\ RowsApart /\ OneLine

-----------------------------------------------------------------------------
(* What a new line does to the file, and to what it says. *)
LEMMA LineAdded ==
    ASSUME file \in Seq(LineType), NEW e \in LineType, file' = Append(file, e)
    PROVE  /\ file' \in Seq(LineType) /\ Len(file) \in Nat /\ Len(file') = Len(file) + 1
           /\ \A n \in 1..Len(file) : file'[n] = file[n]
           /\ file'[Len(file) + 1] = e
           /\ 1..Len(file') = 1..Len(file) \cup {Len(file) + 1}
           /\ Written' = Written \cup {e.row}
  <1>1. /\ file' \in Seq(LineType) /\ Len(file) \in Nat /\ Len(file') = Len(file) + 1
        /\ \A n \in 1..Len(file) : file'[n] = file[n]
        /\ file'[Len(file) + 1] = e
    OBVIOUS
  <1>2. 1..Len(file') = 1..Len(file) \cup {Len(file) + 1}
    BY <1>1
  <1>3. QED
    BY <1>1, <1>2 DEF Written

(* A line of the file carries a row.                                          *)
LEMMA WrittenTyped == Typed => Written \subseteq RowType
  <1>1. ASSUME Typed, NEW n \in 1..Len(file) PROVE file[n].row \in RowType
    <2>1. file[n] \in LineType
      BY <1>1 DEF Typed
    <2>2. QED
      BY <2>1 DEF LineType
  <1>2. QED
    BY <1>1 DEF Written

(* What record makes of a call is a row.                                      *)
LEMMA RowTyped == ASSUME Typed, NEW k \in Calls PROVE Row(k) \in RowType
  BY WireBounds DEF Typed, Row, RowType

(* The invariant holds of a wire that has just been started.                  *)
LEMMA InitIInv == Init => IInv
  <1> SUFFICES ASSUME Init PROVE IInv
    OBVIOUS
  <1>1. 1..Len(file) = {} /\ Written = {} /\ Rows = {}
    BY DEF Init, Written, Rows
  <1>2. file \in Seq(LineType) /\ 0 \in Nat /\ 0 \in 0..MaxRestarts /\ 0 \in 0..MaxFaults
    BY WireBounds DEF Init
  <1>3. Typed
    BY <1>2 DEF Init, Typed, NoStatus, Unnumbered
  <1>4. QED
    <2>1. \A k \in Calls : /\ pc[k] = "idle" /\ number[k] = Unnumbered
                            /\ verdict[k] = NoStatus /\ told[k] = NoStatus
      BY DEF Init
    <2>2. Noted /\ Numbers
      <3>1. Noted
        BY <2>1 DEF Noted, Honest
      <3>2. \A k \in Calls : pc[k] # "write" /\ pc[k] # "post" /\ number[k] = Unnumbered
        BY <2>1
      <3>3. Numbers
        BY <3>2 DEF Numbers
      <3>4. QED
        BY <3>1, <3>3
    <2>3. posts = {} /\ ledger = {}
      BY DEF Init
    <2>4. RowsGenuine /\ RowsApart /\ OneLine
      BY <1>1, <2>3 DEF RowsGenuine, RowsApart, OneLine
    <2>5. QED
      BY <1>3, <2>2, <2>4 DEF IInv

(* A step of one handler that leaves the rows alone. *)
LEMMA HandlerStep ==
    ASSUME IInv, NEW k \in Calls, Typed', Noted',
           \A j \in Calls \ {k} : pc'[j] = pc[j] /\ number'[j] = number[j] /\ verdict'[j] = verdict[j],
           pc[k] \in {"idle", "upstream", "copy", "record"},
           \/ /\ pc'[k] \in {"upstream", "copy", "record", "post", "aborted"}
              /\ number'[k] = number[k] /\ seq' = seq
           \/ pc'[k] = "write" /\ number'[k] = seq + 1 /\ seq' = seq + 1,
           UNCHANGED <<file, posts, ledger, restarts>>
    PROVE  IInv'
  <1>0. /\ Rows' = Rows /\ Written' = Written /\ OneLine' /\ seq \in Nat
        /\ number \in [Calls -> Nat] /\ Rows \subseteq RowType
        /\ number' \in [Calls -> Nat] /\ number[k] = Unnumbered
    BY WrittenTyped DEF IInv, Typed, Rows, Written, OneLine, Numbers
  <1>1. \A r \in Rows : r.call \in Calls /\ r.call # k /\ r.seq \in Nat
    BY <1>0 DEF IInv, RowsGenuine, RowType
  <1>2. Numbers'
    <2>1. CASE pc'[k] = "write" /\ number'[k] = seq + 1 /\ seq' = seq + 1
      BY <1>0, <2>1 DEF IInv, Numbers, Unnumbered
    <2>2. CASE pc'[k] # "write" /\ number'[k] = number[k] /\ seq' = seq
      BY <1>0, <2>2 DEF IInv, Numbers, Unnumbered
    <2>3. QED
      BY <2>1, <2>2
  <1>3. RowsGenuine'
    BY <1>0, <1>1 DEF IInv, RowsGenuine, Rows
  <1>4. RowsApart'
    BY <1>0, <1>1 DEF IInv, RowsApart, Unnumbered
  <1>5. QED
    BY <1>0, <1>2, <1>3, <1>4 DEF IInv

(* A step of one handler from write or post, which may leave its row behind.  *)
LEMMA RowStep ==
    ASSUME IInv, NEW k \in Calls, NEW to, OneLine', Typed',
           \/ pc[k] = "write" /\ to = "post"
           \/ pc[k] = "post" /\ to = "ended",
           pc' = [pc EXCEPT ![k] = to],
           Written' \subseteq Written \cup {Row(k)},
           posts' \cup ledger' \subseteq posts \cup ledger \cup {Row(k)},
           Row(k) \in Written' => number[k] # Unnumbered,
           Row(k) \in posts' \cup ledger' => to = "ended",
           UNCHANGED <<verdict, told, number, seq, restarts>>
    PROVE  IInv'
  <1>0. /\ Rows' \subseteq Rows \cup {Row(k)} /\ seq \in Nat /\ number \in [Calls -> Nat]
        /\ Rows \subseteq RowType /\ restarts \in Nat
        /\ pc \in [Calls -> {"idle", "upstream", "copy", "record", "write", "post",
                             "ended", "aborted", "killed"}]
        /\ Row(k).seq = number[k] /\ Row(k).call = k /\ Row(k).run = restarts
        /\ Row(k).status = verdict[k]
    BY WrittenTyped, WireBounds DEF IInv, Typed, Rows, Row
  <1>1. \A r \in Rows : r.call \in Calls /\ r.seq \in Nat /\ r.run \in Nat
    BY <1>0 DEF RowType
  <1>2. \A r \in Rows : r.call = k => r = Row(k)
    <2>1. ASSUME NEW r \in Rows, r.call = k PROVE r = Row(k)
      <3>1. r \in RowType /\ r.seq = number[k] /\ r.status = verdict[k] /\ r.run = restarts
        BY <1>0, <2>1 DEF IInv, RowsGenuine
      <3>2. QED
        BY <2>1, <3>1 DEF RowType, Row
    <2>2. QED
      BY <2>1
  <1>3. Noted' /\ Numbers'
    BY <1>0 DEF IInv, Noted, Honest, Numbers
  <1>4. RowsGenuine'
    <2>1. \A r \in posts' \cup ledger' : pc'[r.call] = "ended"
      BY <1>0 DEF IInv, RowsGenuine
    <2>2. \A r \in Written' : r.seq # Unnumbered
      BY <1>0 DEF IInv, RowsGenuine
    <2>3. ASSUME NEW r \in Rows'
          PROVE /\ r.seq = number[r.call] /\ r.status = verdict[r.call] /\ r.run <= restarts
                /\ pc'[r.call] \in {"post", "ended", "killed"}
                /\ pc'[r.call] = "post" => r.run = restarts
      <3>1. CASE r = Row(k)
        BY <1>0, <3>1
      <3>2. CASE r # Row(k)
        BY <1>0, <1>1, <1>2, <2>3, <3>2 DEF IInv, RowsGenuine
      <3>3. QED
        BY <3>1, <3>2
    <2>4. QED
      BY <2>1, <2>2, <2>3 DEF RowsGenuine
  <1>5. RowsApart'
    <2>1. \A r \in Rows : r.run = restarts /\ r.seq = number[k] /\ r.seq # Unnumbered => r.call = k
      BY DEF IInv, RowsApart
    <2>2. \A r, s \in Rows' : r.call = s.call => r = s
      BY <1>0, <1>2 DEF IInv, RowsApart
    <2>3. \A r, s \in Rows' : r.run = s.run /\ r.seq = s.seq /\ r.seq # Unnumbered
                                  => r.call = s.call
      BY <1>0, <2>1 DEF IInv, RowsApart
    <2>4. \A r \in Rows' : r.run = restarts => r.seq <= seq
      BY <1>0 DEF IInv, RowsApart, Numbers
    <2>5. ASSUME NEW r \in Rows', NEW j \in Calls, r.run = restarts,
                 pc'[j] \in {"write", "post"}, r.seq = number[j], r.seq # Unnumbered
          PROVE  r.call = j
      <3>1. pc[j] \in {"write", "post"}
        BY <1>0, <2>5
      <3>2. CASE r = Row(k)
        BY <1>0, <2>5, <3>1, <3>2 DEF IInv, Numbers
      <3>3. CASE r # Row(k)
        BY <1>0, <2>5, <3>1, <3>3 DEF IInv, RowsApart
      <3>4. QED
        BY <3>2, <3>3
    <2>6. QED
      BY <2>2, <2>3, <2>4, <2>5 DEF RowsApart
  <1>6. QED
    BY <1>3, <1>4, <1>5 DEF IInv
-----------------------------------------------------------------------------
(* Every step of the proxy, the collector and the supervisor of the process   *)
(* keeps the types.                                                           *)
LEMMA NextTyped == ASSUME Typed, [Next]_vars PROVE Typed'
  <1> USE DEF Typed, Goto, handlers, process, records
  <1>1. ASSUME NEW k \in Calls,
               ServeHost(k) \/ Forward(k) \/ Copied(k) \/ Aborted(k) \/ Unreachable(k)
               \/ NoReplay(k) \/ observeSwitch(k)
               \/ (\E status \in Statuses : observe(k, status))
        PROVE  Typed'
    <2>1. CASE ServeHost(k) \/ Forward(k) \/ NoReplay(k)
      BY <2>1 DEF ServeHost, Forward, NoReplay
    <2>2. CASE Copied(k) \/ Aborted(k) \/ Unreachable(k)
      BY <2>2 DEF Copied, Aborted, Unreachable
    <2>3. CASE \E status \in Statuses : observe(k, status)
      BY <2>3 DEF observe
    <2>4. CASE observeSwitch(k)
      BY <2>4 DEF observeSwitch
    <2> QED
      BY <1>1, <2>1, <2>2, <2>3, <2>4
  <1>2. ASSUME NEW k \in Calls, TakeSeq(k) PROVE Typed'
    BY <1>2 DEF TakeSeq
  <1>3. ASSUME NEW k \in Calls, NEW b \in BOOLEAN
        PROVE  /\ [row |-> Row(k), whole |-> b] \in LineType
               /\ Append(file, [row |-> Row(k), whole |-> b]) \in Seq(LineType)
    <2>1. [row |-> Row(k), whole |-> b] \in LineType
      BY RowTyped DEF LineType
    <2>2. QED
      BY <2>1
  <1>4. ASSUME NEW k \in Calls, WriteLine(k) PROVE Typed'
    BY <1>3, <1>4 DEF WriteLine
  <1>5. ASSUME NEW k \in Calls, WriteFails(k) PROVE Typed'
    <2>1. faults' \in 0..MaxFaults
      BY <1>5, WireBounds DEF WriteFails
    <2>2. QED
      BY <1>3, <1>5, <2>1 DEF WriteFails
  <1>6. ASSUME NEW k \in Calls, Post(k) PROVE Typed'
    <2>1. Row(k) \in RowType
      BY RowTyped
    <2>2. QED
      BY <1>6, <2>1 DEF Post
  <1>7. ASSUME NEW r \in posts, Witnessed(r) PROVE Typed'
    BY <1>7 DEF Witnessed
  <1>8. ASSUME Restart PROVE Typed'
    <2>1. restarts' \in 0..MaxRestarts
      BY <1>8, WireBounds DEF Restart
    <2>2. QED
      BY <1>8, <2>1 DEF Restart
  <1>9. ASSUME UNCHANGED vars PROVE Typed'
    BY <1>9 DEF vars
  <1>10. QED
    BY <1>1, <1>2, <1>4, <1>5, <1>6, <1>7, <1>8, <1>9 DEF Next, Terminated

(* A line that is added is the first of its call, which is about to write it. *)
LEMMA LineIsFirst ==
    ASSUME IInv, NEW k \in Calls, pc[k] = "write", NEW b \in BOOLEAN,
           file' = Append(file, [row |-> Row(k), whole |-> b])
    PROVE  OneLine' /\ Written' = Written \cup {Row(k)}
  <1> DEFINE e == [row |-> Row(k), whole |-> b]
  <1>1. e \in LineType /\ e.row = Row(k) /\ Row(k).call = k
    BY RowTyped DEF IInv, LineType, Row
  <1>2. file \in Seq(LineType) /\ file' = Append(file, e)
    BY DEF IInv, Typed
  <1> HIDE DEF e
  <1>3. /\ \A n \in 1..Len(file) : file'[n] = file[n]
        /\ file'[Len(file) + 1] = e
        /\ 1..Len(file') = 1..Len(file) \cup {Len(file) + 1}
        /\ Written' = Written \cup {Row(k)}
    BY <1>1, <1>2, LineAdded
  <1>4. \A n \in 1..Len(file) : file[n].row.call # k
    BY DEF IInv, RowsGenuine, Rows, Written
  <1>5. OneLine'
    BY <1>1, <1>3, <1>4 DEF IInv, OneLine
  <1>6. QED
    BY <1>3, <1>5

(* It is inductive.                                                           *)
LEMMA NextIInv == IInv /\ [Next]_vars => IInv'
  <1> SUFFICES ASSUME IInv, [Next]_vars PROVE IInv'
    OBVIOUS
  <1>0. Typed'
    BY NextTyped DEF IInv
  <1>a. /\ pc \in [Calls -> {"idle", "upstream", "copy", "record", "write", "post",
                             "ended", "aborted", "killed"}]
        /\ verdict \in [Calls -> Statuses \cup {NoStatus, OK}]
        /\ told \in [Calls -> Statuses \cup {NoStatus, OK, BadGateway}]
        /\ number \in [Calls -> Nat]
    BY DEF IInv, Typed
  <1>1. ASSUME NEW k \in Calls,
               ServeHost(k) \/ Forward(k) \/ Copied(k) \/ Aborted(k) \/ Unreachable(k)
               \/ NoReplay(k) \/ TakeSeq(k) \/ observeSwitch(k)
               \/ (\E status \in Statuses : observe(k, status))
        PROVE  IInv'
    <2>1. Noted'
      BY <1>a, <1>1 DEF IInv, Noted, Honest, Goto, ServeHost, Forward, Copied, Aborted,
         Unreachable, NoReplay, TakeSeq, observe, observeSwitch
    <2>2. /\ \A j \in Calls \ {k} : pc'[j] = pc[j] /\ number'[j] = number[j] /\ verdict'[j] = verdict[j]
          /\ pc[k] \in {"idle", "upstream", "copy", "record"}
          /\ \/ /\ pc'[k] \in {"upstream", "copy", "record", "post", "aborted"}
                /\ number'[k] = number[k] /\ seq' = seq
             \/ pc'[k] = "write" /\ number'[k] = seq + 1 /\ seq' = seq + 1
          /\ UNCHANGED <<file, posts, ledger, restarts>>
      BY <1>a, <1>1 DEF Goto, ServeHost, Forward, Copied, Aborted, Unreachable, NoReplay,
         TakeSeq, observe, observeSwitch, process, records
    <2>3. QED
      BY <1>0, <2>1, <2>2, HandlerStep
  <1>2. ASSUME NEW k \in Calls, WriteLine(k) \/ WriteFails(k) PROVE IInv'
    <2>1. /\ pc[k] = "write" /\ pc' = [pc EXCEPT ![k] = "post"]
          /\ UNCHANGED <<verdict, told, number, seq, restarts, posts, ledger>>
      BY <1>2 DEF WriteLine, WriteFails, Goto, process
    <2>2. OneLine' /\ Written' \subseteq Written \cup {Row(k)}
      <3>1. CASE file' = file
        BY <3>1 DEF IInv, OneLine, Written
      <3>2. CASE \E b \in BOOLEAN : file' = Append(file, [row |-> Row(k), whole |-> b])
        BY <2>1, <3>2, LineIsFirst
      <3>3. QED
        BY <1>2, <3>1, <3>2 DEF WriteLine, WriteFails
    <2>3. number[k] # Unnumbered
      BY <2>1 DEF IInv, Numbers
    <2>4. Row(k) \notin posts \cup ledger
      BY <2>1 DEF IInv, RowsGenuine, Row
    <2>5. QED
      BY <1>0, <2>1, <2>2, <2>3, <2>4, RowStep
  <1>3. ASSUME NEW k \in Calls, Post(k) PROVE IInv'
    <2>1. /\ pc[k] = "post" /\ pc' = [pc EXCEPT ![k] = "ended"]
          /\ UNCHANGED <<verdict, told, number, seq, restarts, file, ledger>>
          /\ posts' \subseteq posts \cup {Row(k)}
      BY <1>3 DEF Post, Goto, process
    <2>2. OneLine' /\ Written' = Written
      BY <2>1 DEF IInv, OneLine, Written
    <2>3. Row(k) \in Written => number[k] # Unnumbered
      BY DEF IInv, RowsGenuine, Row
    <2>4. QED
      BY <1>0, <2>1, <2>2, <2>3, RowStep
  <1>4. ASSUME NEW r \in posts, Witnessed(r) PROVE IInv'
    <2>1. /\ Written' = Written /\ posts' \cup ledger' \subseteq posts \cup ledger
          /\ UNCHANGED <<pc, verdict, told, number, seq, restarts, file>>
      BY <1>4 DEF Witnessed, Written, handlers, process
    <2>2. Rows' \subseteq Rows
      BY <2>1 DEF Rows
    <2>3. Noted' /\ Numbers' /\ OneLine'
      BY <2>1 DEF IInv, Noted, Honest, Numbers, OneLine
    <2>4. RowsGenuine'
      BY <2>1, <2>2 DEF IInv, RowsGenuine
    <2>5. RowsApart'
      BY <2>1, <2>2 DEF IInv, RowsApart
    <2>6. QED
      BY <1>0, <2>3, <2>4, <2>5 DEF IInv
  <1>5. ASSUME Restart PROVE IInv'
    <2>1. /\ Written' = Written /\ posts' \cup ledger' \subseteq posts \cup ledger
          /\ UNCHANGED <<verdict, told, number, file>>
          /\ restarts' = restarts + 1 /\ restarts \in Nat
          /\ \A k \in Calls : pc'[k] = IF pc[k] \in {"idle", "ended", "aborted"} THEN pc[k] ELSE "killed"
      BY <1>5, WireBounds DEF Restart, Written, IInv, Typed
    <2>2. Rows' \subseteq Rows /\ Rows \subseteq RowType
      BY <2>1, WrittenTyped DEF Rows, IInv, Typed
    <2>3. Noted' /\ Numbers' /\ OneLine'
      BY <2>1 DEF IInv, Noted, Honest, Numbers, OneLine
    <2>4. \A r \in Rows : r.call \in Calls /\ r.run \in Nat /\ r.run <= restarts /\ r.run < restarts'
      BY <2>1, <2>2 DEF IInv, RowsGenuine, RowType
    <2>5. \A k \in Calls : pc'[k] \notin {"write", "post"}
      BY <2>1
    <2>6. RowsGenuine'
      BY <2>1, <2>2, <2>4 DEF IInv, RowsGenuine, Rows
    <2>7. RowsApart'
      BY <2>1, <2>2, <2>4, <2>5 DEF IInv, RowsApart
    <2>8. QED
      BY <1>0, <2>3, <2>6, <2>7 DEF IInv
  <1>6. ASSUME UNCHANGED vars PROVE IInv'
    BY <1>0, <1>6 DEF vars, handlers, process, records, IInv, Noted, Honest, Numbers, RowsGenuine,
       RowsApart, OneLine, Rows, Written
  <1>7. QED
    BY <1>1, <1>2, <1>3, <1>4, <1>5, <1>6 DEF Next, Terminated

(* It holds of every state of the wire, whichever run of the process it is in. *)
LEMMA WireInvariant == Spec => []IInv
  <1>1. QED
    BY InitIInv, NextIInv, PTL DEF Spec

(* Every variable has its type, and what a row says is what was noted of its  *)
(* call, in every state of every run of the wire.                             *)
THEOREM WireTypeCorrect == Spec => []TypeOK
  <1>1. IInv => TypeOK
    <2> SUFFICES ASSUME IInv PROVE TypeOK
      OBVIOUS
    <2>1. \A n \in 1..Len(file) : file[n].whole \in BOOLEAN
      <3>1. \A n \in 1..Len(file) : file[n] \in LineType
        BY DEF IInv, Typed
      <3>2. QED
        BY <3>1 DEF LineType
    <2>2. \A r \in Rows : r.call \in Calls /\ r.seq \in Nat /\ r.run \in 0..restarts
                          /\ r.status = verdict[r.call]
      <3>1. Rows \subseteq RowType /\ restarts \in Nat
        BY WrittenTyped, WireBounds DEF IInv, Typed, Rows
      <3>2. QED
        BY <3>1 DEF IInv, RowsGenuine, RowType
    <2>3. QED
      BY <2>1, <2>2 DEF IInv, Typed, RowsGenuine, Rows, TypeOK
  <1>2. QED
    BY <1>1, WireInvariant, PTL

-----------------------------------------------------------------------------
(* What a failing write costs *)

(* The calls that were numbered, are past their write, and have no line that  *)
(* can be read; and whether the next line will be stuck to a torn one.        *)
HasLine(k) == \E n \in Readable : file[n].row.call = k
Lost == {k \in Calls : pc[k] \in {"post", "ended"} /\ number[k] # Unnumbered /\ ~HasLine(k)}
Torn == file # <<>> /\ ~file[Len(file)].whole
Debt == IF Torn THEN 1 ELSE 0

LostInv == IsFiniteSet(Lost) /\ Cardinality(Lost) + Debt <= 2 * faults

(* A new line leaves those before it as readable as they were. *)
LEMMA ReadableGrows ==
    ASSUME file \in Seq(LineType), NEW e \in LineType, file' = Append(file, e)
    PROVE  /\ \A k \in Calls : HasLine(k) => HasLine(k)'
           /\ e.whole /\ ~Torn => HasLine(e.row.call)'
           /\ Torn' <=> ~e.whole
  <1>1. /\ Len(file) \in Nat /\ Len(file') = Len(file) + 1 /\ file' # <<>>
        /\ \A n \in 1..Len(file) : file'[n] = file[n]
        /\ file'[Len(file) + 1] = e
        /\ 1..Len(file') = 1..Len(file) \cup {Len(file) + 1}
    BY LineAdded
  <1>2. ASSUME NEW n \in Readable PROVE n \in Readable' /\ file'[n] = file[n]
    <2>1. n \in 1..Len(file) /\ file[n].whole /\ (n = 1 \/ file[n - 1].whole)
      BY <1>2 DEF Readable
    <2>2. n # 1 => n - 1 \in 1..Len(file)
      BY <1>1, <2>1
    <2>3. QED
      BY <1>1, <2>1, <2>2 DEF Readable
  <1>3. e.whole /\ ~Torn => Len(file) + 1 \in Readable'
    <2>1. CASE file = <<>>
      BY <1>1, <2>1 DEF Readable
    <2>2. CASE file # <<>>
      <3>1. Len(file) \in 1..Len(file) /\ (Len(file) + 1) - 1 = Len(file)
        BY <1>1, <2>2
      <3>2. QED
        BY <1>1, <2>2, <3>1 DEF Readable, Torn
    <2>3. QED
      BY <2>1, <2>2
  <1>4. QED
    BY <1>1, <1>2, <1>3 DEF HasLine, Torn

(* The arithmetic of one more lost call: what it costs is paid by a fault or by *)
(* the torn line before it.                                                   *)
LEMMA Balance ==
    ASSUME NEW lost \in Nat, NEW more \in Nat, NEW d \in {0, 1}, NEW e \in {0, 1},
           NEW f \in Nat, NEW g \in Nat,
           lost + d <= 2 * f, more <= lost + 1, 1 + e + 2 * f <= d + 2 * g
    PROVE  more + e <= 2 * g
  OBVIOUS

(* The calls lost may become one more if a fault pays for it. *)
LEMMA OneMoreLost ==
    ASSUME IInv, LostInv, NEW k, Lost' \subseteq Lost \cup {k}, faults' \in Nat,
           Debt' \in {0, 1}, 1 + Debt' + 2 * faults <= Debt + 2 * faults'
    PROVE  LostInv'
  <1>1. IsFiniteSet(Lost \cup {k}) /\ Cardinality(Lost \cup {k}) <= Cardinality(Lost) + 1
        /\ Cardinality(Lost) \in Nat /\ Cardinality(Lost \cup {k}) \in Nat
    <2>1. IsFiniteSet(Lost)
      BY DEF LostInv
    <2>2. /\ IsFiniteSet(Lost \cup {k})
          /\ Cardinality(Lost \cup {k}) = IF k \in Lost THEN Cardinality(Lost) ELSE Cardinality(Lost) + 1
      BY <2>1, FS_AddElement
    <2>3. Cardinality(Lost) \in Nat /\ Cardinality(Lost \cup {k}) \in Nat
      BY <2>1, <2>2, FS_CardinalityType
    <2>4. QED
      BY <2>2, <2>3
  <1>2. IsFiniteSet(Lost') /\ Cardinality(Lost') <= Cardinality(Lost \cup {k})
        /\ Cardinality(Lost') \in Nat
    BY <1>1, FS_Subset, FS_CardinalityType
  <1>3. faults \in Nat /\ Debt \in {0, 1} /\ Cardinality(Lost) + Debt <= 2 * faults
    BY WireBounds DEF IInv, Typed, Debt, LostInv
  <1>4. Cardinality(Lost') <= Cardinality(Lost) + 1
    BY <1>1, <1>2
  <1>5. Cardinality(Lost') + Debt' <= 2 * faults'
    BY <1>1, <1>2, <1>3, <1>4, Balance
  <1>6. QED
    BY <1>2, <1>5 DEF LostInv

(* A step that loses no call and writes no line keeps the balance.            *)
LEMMA NoMoreLost ==
    ASSUME IInv, LostInv, Lost' \subseteq Lost, faults' = faults, Debt' = Debt
    PROVE  LostInv'
  <1>1. IsFiniteSet(Lost') /\ Cardinality(Lost') <= Cardinality(Lost)
        /\ Cardinality(Lost') \in Nat /\ Cardinality(Lost) \in Nat
    BY FS_Subset, FS_CardinalityType DEF LostInv
  <1>2. faults \in Nat /\ Debt \in {0, 1}
    BY WireBounds DEF IInv, Typed, Debt
  <1>3. Cardinality(Lost') + Debt' <= 2 * faults'
    BY <1>1, <1>2 DEF LostInv
  <1>4. QED
    BY <1>1, <1>3 DEF LostInv

(* Every step keeps the balance of lost calls and faults.                     *)
LEMMA NextLostInv == IInv /\ IInv' /\ LostInv /\ [Next]_vars => LostInv'
  <1> SUFFICES ASSUME IInv, IInv', LostInv, [Next]_vars PROVE LostInv'
    OBVIOUS
  <1>a. /\ pc \in [Calls -> {"idle", "upstream", "copy", "record", "write", "post",
                             "ended", "aborted", "killed"}]
        /\ number \in [Calls -> Nat] /\ file \in Seq(LineType)
        /\ faults \in Nat /\ faults' \in Nat
    BY WireBounds DEF IInv, Typed
  <1>b. ASSUME file' = file
        PROVE  Debt' = Debt /\ \A k \in Calls : HasLine(k)' <=> HasLine(k)
    BY <1>b DEF Debt, Torn, HasLine, Readable
  <1>c. \A k \in Calls : pc[k] \in {"idle", "upstream", "copy", "record"} => number[k] = Unnumbered
    BY DEF IInv, Numbers
  <1>1. ASSUME NEW k \in Calls,
               ServeHost(k) \/ Forward(k) \/ Copied(k) \/ Aborted(k) \/ Unreachable(k)
               \/ NoReplay(k) \/ TakeSeq(k) \/ Post(k)
               \/ observeSwitch(k)
               \/ (\E status \in Statuses : observe(k, status))
        PROVE  LostInv'
    <2>1. /\ file' = file /\ faults' = faults
          /\ \A j \in Calls \ {k} : pc'[j] = pc[j] /\ number'[j] = number[j]
          /\ \/ pc'[k] \notin {"post", "ended"}
             \/ number'[k] = Unnumbered
             \/ pc[k] = "post" /\ number'[k] = number[k]
      BY <1>a, <1>c, <1>1 DEF Goto, ServeHost, Forward, Copied, Aborted, Unreachable, NoReplay,
         TakeSeq, Post, observe, observeSwitch, process, records
    <2>2. Lost' \subseteq Lost
      BY <1>b, <2>1 DEF Lost
    <2>3. QED
      BY <1>b, <2>1, <2>2, NoMoreLost
  <1>2. ASSUME NEW k \in Calls, NEW b \in BOOLEAN, pc[k] = "write",
               pc' = [pc EXCEPT ![k] = "post"], number' = number,
               file' = Append(file, [row |-> Row(k), whole |-> b])
        PROVE  /\ Lost' \subseteq Lost \cup {k} /\ (b /\ ~Torn => Lost' \subseteq Lost)
               /\ Debt' = IF b THEN 0 ELSE 1
    <2> DEFINE e == [row |-> Row(k), whole |-> b]
    <2>1. e \in LineType /\ e.row = Row(k) /\ Row(k).call = k /\ e.whole = b
      BY RowTyped DEF IInv, LineType, Row
    <2>2. file' = Append(file, e)
      BY <1>2
    <2> HIDE DEF e
    <2>3. /\ \A j \in Calls : HasLine(j) => HasLine(j)'
          /\ e.whole /\ ~Torn => HasLine(k)'
          /\ Torn' <=> ~e.whole
      BY <1>a, <2>1, <2>2, ReadableGrows
    <2>4. Debt' = IF b THEN 0 ELSE 1
      BY <2>1, <2>3, Zenon DEF Debt
    <2>5. \A j \in Calls \ {k} : pc'[j] = pc[j]
      BY <1>2, <1>a
    <2>6. Lost' \subseteq Lost \cup {k}
      BY <1>2, <2>3, <2>5 DEF Lost
    <2>7. b /\ ~Torn => k \notin Lost'
      BY <2>1, <2>3, Zenon DEF Lost
    <2>8. QED
      BY <2>4, <2>6, <2>7
  <1>3. ASSUME NEW k \in Calls, WriteLine(k) PROVE LostInv'
    <2>1. /\ pc[k] = "write" /\ pc' = [pc EXCEPT ![k] = "post"] /\ number' = number
          /\ file' = Append(file, [row |-> Row(k), whole |-> TRUE]) /\ faults' = faults
      BY <1>3 DEF WriteLine, Goto
    <2>2. Lost' \subseteq Lost \cup {k} /\ (~Torn => Lost' \subseteq Lost) /\ Debt' = 0
      BY <1>2, <2>1
    <2>3. CASE Torn
      <3>1. Debt = 1
        BY <2>3 DEF Debt
      <3>2. 1 + Debt' + 2 * faults <= Debt + 2 * faults' /\ Debt' \in {0, 1}
        BY <1>a, <2>1, <2>2, <3>1
      <3>3. QED
        BY <1>a, <2>2, <3>2, OneMoreLost
    <2>4. CASE ~Torn
      BY <2>1, <2>2, <2>4, NoMoreLost DEF Debt
    <2>5. QED
      BY <2>3, <2>4
  <1>4. ASSUME NEW k \in Calls, WriteFails(k) PROVE LostInv'
    <2>1. /\ pc[k] = "write" /\ pc' = [pc EXCEPT ![k] = "post"] /\ number' = number
          /\ faults' = faults + 1
          /\ \/ file' = file
             \/ file' = Append(file, [row |-> Row(k), whole |-> FALSE])
      BY <1>4 DEF WriteFails, Goto
    <2>2. \A j \in Calls \ {k} : pc'[j] = pc[j]
      BY <1>a, <2>1
    <2>3. Debt \in {0, 1}
      BY DEF Debt
    <2>4. CASE file' = file
      <3>1. Lost' \subseteq Lost \cup {k}
        BY <1>b, <2>1, <2>2, <2>4 DEF Lost
      <3>2. Debt' = Debt
        BY <1>b, <2>4
      <3>3. 1 + Debt' + 2 * faults <= Debt + 2 * faults' /\ Debt' \in {0, 1}
        BY <1>a, <2>1, <2>3, <3>2
      <3>4. QED
        BY <1>a, <3>1, <3>3, OneMoreLost
    <2>5. CASE file' = Append(file, [row |-> Row(k), whole |-> FALSE])
      <3>1. Lost' \subseteq Lost \cup {k} /\ Debt' = 1
        BY <1>2, <2>1, <2>5
      <3>2. 1 + Debt' + 2 * faults <= Debt + 2 * faults' /\ Debt' \in {0, 1}
        BY <1>a, <2>1, <2>3, <3>1
      <3>3. QED
        BY <1>a, <3>1, <3>2, OneMoreLost
    <2>6. QED
      BY <2>1, <2>4, <2>5
  <1>5. ASSUME NEW r \in posts, Witnessed(r) PROVE LostInv'
    <2>1. file' = file /\ faults' = faults /\ pc' = pc /\ number' = number
      BY <1>5 DEF Witnessed, handlers
    <2>2. QED
      BY <1>b, <2>1, NoMoreLost DEF Lost
  <1>6. ASSUME Restart PROVE LostInv'
    <2>1. /\ file' = file /\ faults' = faults /\ number' = number
          /\ \A k \in Calls : pc'[k] = IF pc[k] \in {"idle", "ended", "aborted"} THEN pc[k] ELSE "killed"
      BY <1>6 DEF Restart
    <2>2. Lost' \subseteq Lost
      BY <1>b, <2>1 DEF Lost
    <2>3. QED
      BY <1>b, <2>1, <2>2, NoMoreLost
  <1>7. ASSUME UNCHANGED vars PROVE LostInv'
    <2>1. file' = file /\ faults' = faults /\ pc' = pc /\ number' = number
      BY <1>7 DEF vars, handlers, records
    <2>2. QED
      BY <1>b, <2>1, NoMoreLost DEF Lost
  <1>8. QED
    BY <1>1, <1>3, <1>4, <1>5, <1>6, <1>7 DEF Next, Terminated

(* A row that cannot be joined is that of a call that was lost. *)
LEMMA UnjoinedLost ==
    ASSUME IInv, NEW r \in Numbered(ledger \cup posts), ~Joins(r, OwnRun(r))
    PROVE  r.call \in Lost
  <1>0. r \in Rows /\ r \in ledger \cup posts /\ r.seq # Unnumbered /\ r.call \in Calls
    BY DEF Numbered, Rows, IInv, Typed, RowType
  <1>1. pc[r.call] = "ended" /\ number[r.call] # Unnumbered
    BY <1>0 DEF IInv, RowsGenuine
  <1>2. ASSUME NEW n \in Readable, file[n].row.call = r.call PROVE FALSE
    <2>1. n \in 1..Len(file) /\ \A m \in 1..Len(file) : file[m].row \in Rows
      BY DEF Readable, Rows, Written
    <2>2. file[n].row = r
      BY <1>0, <1>2, <2>1 DEF IInv, RowsApart
    <2>3. n \in OwnRun(r)
      BY <2>2 DEF OwnRun
    <2>4. ASSUME NEW m \in OwnRun(r), file[m].row.seq = r.seq PROVE m = n
      <3>1. m \in 1..Len(file) /\ file[m].row \in Rows /\ file[m].row.run = r.run
        BY <2>1 DEF OwnRun, Readable
      <3>2. file[m].row.call = r.call
        BY <1>0, <2>4, <3>1 DEF IInv, RowsApart
      <3>3. QED
        BY <1>2, <2>1, <3>1, <3>2 DEF IInv, OneLine
    <2>5. QED
      BY <2>2, <2>3, <2>4 DEF Joins
  <1>3. QED
    BY <1>0, <1>1, <1>2 DEF Lost, HasLine

(* The balance holds of every state of the wire.                              *)
LEMMA WireLostInv == Spec => [](IInv /\ LostInv)
  <1>1. Init => LostInv
    <2> SUFFICES ASSUME Init PROVE LostInv
      OBVIOUS
    <2>1. Lost = {} /\ Debt = 0 /\ faults = 0
      BY DEF Init, Lost, Debt, Torn
    <2>2. QED
      BY <2>1, FS_EmptySet DEF LostInv
  <1>2. QED
    BY <1>1, NextLostInv, WireInvariant, PTL DEF Spec

(* At most one line is ever written of a call; line and ledger say of it what *)
(* its client was told, unless the wire answered with 502 in its upstream's   *)
(* stead; a handler that ends under -replay has left its line, but for writes *)
(* that failed; and one that was aborted is on neither.                       *)
THEOREM WireOneHonestLine == Spec => []OneHonestLine
  <1>1. IInv /\ LostInv => OneHonestLine
    <2> SUFFICES ASSUME IInv, LostInv PROVE OneHonestLine
      OBVIOUS
    <2>1. \A r \in Rows : /\ r.call \in Calls /\ r.status = verdict[r.call]
                           /\ pc[r.call] # "aborted"
      BY WrittenTyped DEF IInv, Typed, RowsGenuine, Rows, RowType
    <2>2. ASSUME NEW k \in Calls, pc[k] = "ended", number[k] # Unnumbered, faults = 0
          PROVE  \E r \in Written : r.call = k
      <3>1. IsFiniteSet(Lost) /\ Cardinality(Lost) \in Nat /\ Debt \in {0, 1}
        BY FS_CardinalityType DEF LostInv, Debt
      <3>2. Cardinality(Lost) = 0
        BY <2>2, <3>1 DEF LostInv
      <3>3. Lost = {}
        BY <3>1, <3>2, FS_EmptySet
      <3>4. HasLine(k)
        BY <2>2, <3>3 DEF Lost
      <3>5. QED
        BY <3>4 DEF HasLine, Readable, Written
    <2>3. QED
      BY <2>1, <2>2 DEF IInv, Noted, Honest, OneLine, OneHonestLine, Rows
  <1>2. QED
    BY <1>1, WireLostInv, PTL

(* Within a run a ledger row is never joined to another call's line, and each *)
(* failing write costs two rows their lines at the most, for any number of    *)
(* calls in any order.                                                        *)
THEOREM WireJoinsWithinRun == Spec => []JoinsWithinRun
  <1>2. IInv /\ LostInv => JoinsWithinRun
    <2> SUFFICES ASSUME IInv, LostInv PROVE JoinsWithinRun
      OBVIOUS
    <2> DEFINE Unjoined == {r \in Numbered(ledger \cup posts) : ~Joins(r, OwnRun(r))}
               f == [r \in Unjoined |-> r.call]
    <2>1. f \in Injection(Unjoined, Lost)
      <3>1. \A r \in Unjoined : r.call \in Lost /\ r \in Rows
        BY UnjoinedLost DEF Numbered, Rows
      <3>2. \A r, s \in Unjoined : f[r] = f[s] => r = s
        BY <3>1 DEF IInv, RowsApart
      <3>3. f \in [Unjoined -> Lost]
        BY <3>1
      <3>4. QED
        BY <3>2, <3>3, Fun_IsInj
    <2>2. Cardinality(Unjoined) <= Cardinality(Lost) /\ IsFiniteSet(Unjoined)
      BY <2>1, FS_Injection DEF LostInv
    <2>3. /\ Cardinality(Unjoined) \in Nat /\ Cardinality(Lost) \in Nat
          /\ Debt \in Nat /\ faults \in Nat
      BY <2>2, FS_CardinalityType, WireBounds DEF LostInv, Debt, IInv, Typed
    <2>4. Cardinality(Unjoined) <= 2 * faults
      BY <2>2, <2>3 DEF LostInv
    <2>5. ASSUME NEW r \in Numbered(ledger \cup posts), NEW n \in OwnRun(r), file[n].row.seq = r.seq
          PROVE  file[n].row = r
      <3>1. r \in Rows /\ r.seq # Unnumbered
        BY DEF Numbered, Rows
      <3>2. file[n].row \in Rows /\ file[n].row.run = r.run
        BY DEF OwnRun, Readable, Rows, Written
      <3>3. QED
        BY <2>5, <3>1, <3>2 DEF IInv, RowsApart
    <2>6. QED
      BY <2>4, <2>5 DEF JoinsWithinRun
  <1>3. QED
    BY <1>2, WireLostInv, PTL
=============================================================================
