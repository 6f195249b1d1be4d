--------------------------- MODULE McpServerProofs ---------------------------
(* Proofs about McpServer, for any sessions, any brokers and any answers of   *)
(* the targets, with a witness or without.                                    *)
EXTENDS McpServer, FiniteSetTheorems, WellFoundedInduction, TLAPS

Outcomes == {"auth_error", "transports", "unknown", "no_tool", "witnessed", "response", "failed",
             "refused", "dial_failed", "send_failed", "channel_response", "read_failed",
             "discovered"}
Args    == [is : {"none", "value", "null", "literal"}, of : Nat]
Firing  == [line : Nat, step : Nat, arg : Args]
Reply   == [id : Nat, what : {"result", "error"} \cup Seq(Outcomes), line : Nat]
Source  == {"witness", "health", "tree", "status", "probe", "caps", "commands", "extensions",
             "capabilities"} \X (Range(Brokers) \cup {""})
Section == Source \X {"says", "witnessed", "error"}

(* Where the server is with a step of a call, and with a call at all. *)
Underway == {"run", "witness", "direct", "send", "consume", "discover"}
Working  == Underway \cup {"step"}

(* The tools that bring it there. *)
Busy(p, tool) ==
    /\ p = "run" => tool # "none"
    /\ p \in {"witness", "direct"} => tool = "http"
    /\ p \in {"send", "consume"} => tool = "bidi"
    /\ p = "discover" => tool \in {"channels", "hub", "session"}

(* Types of the session and of the place in it. *)
PlaceTyped ==
    /\ script \in Seq(Line)
    /\ pc \in Working \cup {"read", "handle", "reply", "exit"}
    /\ at \in 0..Len(script) /\ (pc \notin {"read", "exit"} => at \in 1..Len(script))
    /\ step \in Nat
    /\ pc \in Working => step > 0 /\ Len(results) = step - 1
    /\ pc \in Underway => step \in 1..Len(Cur.steps) /\ Busy(pc, Cur.steps[step].tool)

(* Types of what the server knows and has done. *)
DataTyped ==
    /\ results \in Seq(Outcomes) /\ arg \in Args
    /\ \A key \in DOMAIN prior : prior[key] \in [of : Nat, object : BOOLEAN]
    /\ out \in Seq(Reply) /\ fired \in Seq(Firing)
    /\ recorded \subseteq Nat \X Nat /\ sockets \subseteq Nat \X Nat
    /\ skipped \in 0..MaxSkips
    /\ todo \in Seq(Source) /\ report \subseteq Section /\ silent \subseteq Source
    /\ heard \in BOOLEAN
    /\ \A i \in 1..Len(todo) : todo[i][1] = "health" => i < Len(todo)

TypeInv == PlaceTyped /\ DataTyped

-----------------------------------------------------------------------------
(* A line of the session, and a step of it. *)
LEMMA CurTyped ==
    ASSUME PlaceTyped, pc \notin {"read", "exit"}
    PROVE  /\ Cur \in Line /\ Cur.steps \in Seq(Step) /\ Cur.id \in Nat /\ Cur.kind \in Kinds
           /\ \A s \in 1..Len(Cur.steps) : Cur.steps[s] \in Step /\ Cur.steps[s].tool \in Tools
  <1>1. Cur \in Line
    BY DEF PlaceTyped, Cur
  <1>2. Cur.steps \in Seq(Step) /\ Cur.id \in Nat /\ Cur.kind \in Kinds
    BY <1>1 DEF Line
  <1>3. \A s \in 1..Len(Cur.steps) : Cur.steps[s] \in Step
    BY <1>2
  <1> QED
    BY <1>1, <1>2, <1>3 DEF Step

(* What a concatenation holds. *)
LEMMA Concat ==
    ASSUME NEW T, NEW u \in Seq(T), NEW v \in Seq(T)
    PROVE  /\ u \o v \in Seq(T) /\ Len(u \o v) = Len(u) + Len(v)
           /\ \A i \in 1..Len(u) : (u \o v)[i] = u[i]
           /\ \A i \in 1..Len(v) : (u \o v)[Len(u) + i] = v[i]
  OBVIOUS

(* What a source is asked. *)
LEMMA AskKind == \A what : Ask(what)[1] = what
  BY DEF Ask

LEMMA BrokerKind ==
    \A b : Health(b)[1] = "health" /\ Tree(b)[1] = "tree" /\ Health(b)[2] = b /\ Tree(b)[2] = b
  BY DEF Health, Tree

(* The sources discover goes through: the witness, health and tabs of every   *)
(* broker in turn, and what is asked of the hub.                              *)
Hub(tool) ==
    (IF tool = "channels" THEN <<>> ELSE <<Ask("status"), Ask("probe")>>) \o
    (IF tool # "session" THEN <<>>
     ELSE <<Ask("caps"), Ask("commands"), Ask("extensions"), Ask("capabilities")>>)

LEMMA HubTyped ==
    ASSUME NEW tool
    PROVE  /\ Hub(tool) \in Seq(Source) /\ Len(Hub(tool)) \in Nat
           /\ \A i \in 1..Len(Hub(tool)) : Hub(tool)[i][1] \notin {"witness", "health", "tree"}
           /\ \A i, j \in 1..Len(Hub(tool)) : Hub(tool)[i] = Hub(tool)[j] => i = j
  <1> DEFINE u == <<Ask("status"), Ask("probe")>>
             v == <<Ask("caps"), Ask("commands"), Ask("extensions"), Ask("capabilities")>>
  <1>1. /\ Ask("status") \in Source /\ Ask("probe") \in Source /\ Ask("caps") \in Source
        /\ Ask("commands") \in Source /\ Ask("extensions") \in Source
        /\ Ask("capabilities") \in Source
    BY DEF Ask, Source
  <1>2. u \in Seq(Source) /\ v \in Seq(Source) /\ Len(u) = 2 /\ Len(v) = 4
    BY <1>1
  <1>3. CASE tool = "channels"
    BY <1>3 DEF Hub
  <1>4. CASE tool = "session"
    <2>1. Hub(tool) = u \o v
      BY <1>4 DEF Hub
    <2>2. Hub(tool) \in Seq(Source) /\ Len(Hub(tool)) = 6
      BY <1>2, <2>1
    <2>3. /\ Hub(tool)[1] = Ask("status") /\ Hub(tool)[2] = Ask("probe")
          /\ Hub(tool)[3] = Ask("caps") /\ Hub(tool)[4] = Ask("commands")
          /\ Hub(tool)[5] = Ask("extensions") /\ Hub(tool)[6] = Ask("capabilities")
      BY <2>1
    <2>4. /\ Hub(tool)[1][1] = "status" /\ Hub(tool)[2][1] = "probe"
          /\ Hub(tool)[3][1] = "caps" /\ Hub(tool)[4][1] = "commands"
          /\ Hub(tool)[5][1] = "extensions" /\ Hub(tool)[6][1] = "capabilities"
      BY <2>3, AskKind
    <2>5. \A i \in 1..6 : i = 1 \/ i = 2 \/ i = 3 \/ i = 4 \/ i = 5 \/ i = 6
      OBVIOUS
    <2>6. \A i \in 1..6 : Hub(tool)[i][1] \notin {"witness", "health", "tree"}
      BY <2>4, <2>5
    <2>7. \A i, j \in 1..6 : Hub(tool)[i][1] = Hub(tool)[j][1] => i = j
      BY <2>4, <2>5
    <2> QED
      BY <2>2, <2>6, <2>7
  <1>5. CASE tool \notin {"channels", "session"}
    <2>1. Hub(tool) = u
      <3>1. Hub(tool) = u \o <<>>
        BY <1>5 DEF Hub
      <3>2. u \o <<>> = u
        BY <1>2
      <3> QED
        BY <3>1, <3>2
    <2>2. Hub(tool) \in Seq(Source) /\ Len(Hub(tool)) = 2
      BY <1>2, <2>1
    <2>3. Hub(tool)[1][1] = "status" /\ Hub(tool)[2][1] = "probe"
      BY <2>1, AskKind
    <2>4. \A i \in 1..2 : i = 1 \/ i = 2
      OBVIOUS
    <2> QED
      BY <2>2, <2>3, <2>4
  <1> QED
    BY <1>3, <1>4, <1>5

LEMMA ChannelsShape ==
    /\ Channels \in Seq(Source) /\ Len(Channels) = 2 * Len(Brokers) + 1 /\ Len(Brokers) \in Nat
    /\ Channels[1] = Ask("witness")
    /\ \A b \in 1..Len(Brokers) :
          Channels[2 * b] = Health(Brokers[b]) /\ Channels[2 * b + 1] = Tree(Brokers[b])
  <1> DEFINE q == [n \in 1..(2 * Len(Brokers)) |->
                     IF n % 2 = 1 THEN Health(Brokers[(n + 1) \div 2]) ELSE Tree(Brokers[n \div 2])]
             w == <<Ask("witness")>>
  <1> HIDE DEF q, w
  <1>1. \A b \in Range(Brokers) : Health(b) \in Source /\ Tree(b) \in Source
    BY DEF Health, Tree, Source
  <1>2. Len(Brokers) \in Nat /\ \A i \in 1..Len(Brokers) : Brokers[i] \in Range(Brokers)
    BY BrokerType DEF Range
  <1>3. ASSUME NEW n \in 1..(2 * Len(Brokers))
        PROVE  (IF n % 2 = 1 THEN Health(Brokers[(n + 1) \div 2]) ELSE Tree(Brokers[n \div 2])) \in Source
    <2>1. CASE n % 2 = 1
      <3>1. (n + 1) \div 2 \in 1..Len(Brokers)
        BY <1>2, <2>1
      <3> QED
        BY <1>1, <1>2, <2>1, <3>1
    <2>2. CASE n % 2 # 1
      <3>1. n \div 2 \in 1..Len(Brokers)
        BY <1>2, <2>2
      <3> QED
        BY <1>1, <1>2, <2>2, <3>1
    <2> QED
      BY <2>1, <2>2
  <1>4. 2 * Len(Brokers) \in Nat
    BY <1>2
  <1>5. q \in Seq(Source) /\ Len(q) = 2 * Len(Brokers)
    BY <1>3, <1>4 DEF q
  <1>6. ASSUME NEW b \in 1..Len(Brokers)
        PROVE  q[2 * b - 1] = Health(Brokers[b]) /\ q[2 * b] = Tree(Brokers[b])
    <2>1. 2 * b - 1 \in 1..(2 * Len(Brokers)) /\ 2 * b \in 1..(2 * Len(Brokers))
      BY <1>2
    <2>2. (2 * b - 1) % 2 = 1 /\ ((2 * b - 1) + 1) \div 2 = b /\ (2 * b) % 2 = 0 /\ (2 * b) \div 2 = b
      BY <1>2
    <2> QED
      BY <2>1, <2>2 DEF q
  <1>7. Ask("witness") \in Source
    BY DEF Ask, Source
  <1>8. w \in Seq(Source) /\ Len(w) = 1 /\ w[1] = Ask("witness")
    BY <1>7 DEF w
  <1>9. Channels = w \o q
    BY DEF Channels, q, w
  <1>a. /\ Channels \in Seq(Source) /\ Len(Channels) = Len(w) + Len(q)
        /\ \A i \in 1..Len(w) : Channels[i] = w[i]
        /\ \A i \in 1..Len(q) : Channels[Len(w) + i] = q[i]
    <2>1. \A x, y \in Seq(Source) :
             /\ x \o y \in Seq(Source) /\ Len(x \o y) = Len(x) + Len(y)
             /\ \A i \in 1..Len(x) : (x \o y)[i] = x[i]
             /\ \A i \in 1..Len(y) : (x \o y)[Len(x) + i] = y[i]
      BY Concat
    <2>2. w \in Seq(Source) /\ q \in Seq(Source)
      BY <1>5, <1>8, <1>9
    <2> QED
      BY <1>9, <2>1, <2>2
  <1>10. /\ Channels \in Seq(Source) /\ Len(Channels) = 2 * Len(Brokers) + 1
         /\ Channels[1] = Ask("witness")
    BY <1>2, <1>5, <1>8, <1>a
  <1>11. \A n \in 1..(2 * Len(Brokers)) : Channels[n + 1] = q[n]
    BY <1>2, <1>5, <1>8, <1>a
  <1>12. ASSUME NEW b \in 1..Len(Brokers)
         PROVE  Channels[2 * b] = Health(Brokers[b]) /\ Channels[2 * b + 1] = Tree(Brokers[b])
    <2>1. /\ 2 * b - 1 \in 1..(2 * Len(Brokers)) /\ 2 * b \in 1..(2 * Len(Brokers))
          /\ (2 * b - 1) + 1 = 2 * b
      BY <1>2
    <2> QED
      BY <1>6, <1>11, <2>1
  <1> QED
    BY <1>2, <1>10, <1>12

BrokerCount == Len(Brokers)

LEMMA SourcesShape ==
    ASSUME NEW tool
    PROVE  /\ Sources(tool) \in Seq(Source) /\ BrokerCount \in Nat /\ Len(Sources(tool)) \in Nat
           /\ Len(Sources(tool)) >= 2 * BrokerCount + 1 /\ Sources(tool)[1] = Ask("witness")
           /\ \A b \in 1..BrokerCount : /\ Sources(tool)[2 * b] = Health(Brokers[b])
                                  /\ Sources(tool)[2 * b + 1] = Tree(Brokers[b])
           /\ \A k \in (2 * BrokerCount + 2)..Len(Sources(tool)) :
                 Sources(tool)[k][1] \notin {"witness", "health", "tree"}
           /\ \A j, k \in (2 * BrokerCount + 2)..Len(Sources(tool)) :
                 Sources(tool)[j] = Sources(tool)[k] => j = k
  <1> SUFFICES ASSUME NEW S, S = Sources(tool), NEW N, N = BrokerCount
               PROVE  /\ S \in Seq(Source) /\ N \in Nat /\ Len(S) \in Nat /\ Len(S) >= 2 * N + 1
                      /\ S[1] = Ask("witness")
                      /\ \A b \in 1..N : S[2 * b] = Health(Brokers[b]) /\ S[2 * b + 1] = Tree(Brokers[b])
                      /\ \A k \in (2 * N + 2)..Len(S) : S[k][1] \notin {"witness", "health", "tree"}
                      /\ \A j, k \in (2 * N + 2)..Len(S) : S[j] = S[k] => j = k
    BY Zenon
  <1> DEFINE c == Channels
             h == Hub(tool)
  <1> HIDE DEF c, h
  <1>1. S = c \o h
    <2>1. (IF tool = "channels" THEN <<>> ELSE <<Ask("status"), Ask("probe")>>) \in Seq(Source)
      <3>1. Ask("status") \in Source /\ Ask("probe") \in Source
        BY DEF Ask, Source
      <3> QED
        BY <3>1
    <2>2. (IF tool # "session" THEN <<>>
           ELSE <<Ask("caps"), Ask("commands"), Ask("extensions"), Ask("capabilities")>>) \in Seq(Source)
      <3>1. /\ Ask("caps") \in Source /\ Ask("commands") \in Source /\ Ask("extensions") \in Source
            /\ Ask("capabilities") \in Source
        BY DEF Ask, Source
      <3> QED
        BY <3>1
    <2>3. \A x, y, z \in Seq(Source) : (x \o y) \o z = x \o (y \o z)
      OBVIOUS
    <2> QED
      BY <2>1, <2>2, <2>3, ChannelsShape DEF Sources, Hub, c, h
  <1>2. /\ c \in Seq(Source) /\ Len(c) = 2 * N + 1 /\ N \in Nat /\ c[1] = Ask("witness")
        /\ \A b \in 1..N : c[2 * b] = Health(Brokers[b]) /\ c[2 * b + 1] = Tree(Brokers[b])
    BY ChannelsShape DEF c, BrokerCount
  <1>3. /\ h \in Seq(Source) /\ Len(h) \in Nat
        /\ \A i \in 1..Len(h) : h[i][1] \notin {"witness", "health", "tree"}
        /\ \A i, j \in 1..Len(h) : h[i] = h[j] => i = j
    BY HubTyped DEF h
  <1>a. /\ S \in Seq(Source) /\ Len(S) = Len(c) + Len(h)
        /\ \A i \in 1..Len(c) : S[i] = c[i]
        /\ \A i \in 1..Len(h) : S[Len(c) + i] = h[i]
    <2>1. \A x, y \in Seq(Source) :
             /\ x \o y \in Seq(Source) /\ Len(x \o y) = Len(x) + Len(y)
             /\ \A i \in 1..Len(x) : (x \o y)[i] = x[i]
             /\ \A i \in 1..Len(y) : (x \o y)[Len(x) + i] = y[i]
      BY Concat
    <2>2. c \in Seq(Source) /\ h \in Seq(Source)
      BY <1>1, <1>2, <1>3
    <2> QED
      BY <1>1, <2>1, <2>2
  <1>4. S \in Seq(Source) /\ Len(S) = 2 * N + 1 + Len(h)
    BY <1>2, <1>3, <1>a
  <1>5. /\ \A k \in 1..(2 * N + 1) : S[k] = c[k]
        /\ \A k \in (2 * N + 2)..Len(S) : k - (2 * N + 1) \in 1..Len(h) /\ S[k] = h[k - (2 * N + 1)]
    <2>1. ASSUME NEW k \in (2 * N + 2)..Len(S)
          PROVE  k - (2 * N + 1) \in 1..Len(h) /\ k = Len(c) + (k - (2 * N + 1))
      <3>1. N \in Nat /\ Len(h) \in Nat /\ Len(c) = 2 * N + 1 /\ k \in (2 * N + 2)..(2 * N + 1 + Len(h))
        BY <1>2, <1>3, <1>4
      <3> QED
        BY <3>1
    <2> QED
      BY <1>2, <1>a, <2>1
  <1>6. \A b \in 1..N : 2 * b \in 1..(2 * N + 1) /\ 2 * b + 1 \in 1..(2 * N + 1)
    BY <1>2
  <1>7. \A k \in (2 * N + 2)..Len(S) : S[k][1] \notin {"witness", "health", "tree"}
    BY <1>3, <1>5
  <1>8. ASSUME NEW j \in (2 * N + 2)..Len(S), NEW k \in (2 * N + 2)..Len(S), S[j] = S[k]
        PROVE  j = k
    <2>1. j - (2 * N + 1) = k - (2 * N + 1)
      BY <1>3, <1>5, <1>8
    <2> QED
      BY <1>2, <1>3, <1>4, <2>1
  <1> QED
    BY <1>2, <1>3, <1>4, <1>5, <1>6, <1>7, <1>8

(* The tabs of a broker are asked for right after its health. *)
LEMMA TreeAfterHealth ==
    ASSUME NEW tool, NEW k \in 1..Len(Sources(tool)), Sources(tool)[k][1] = "health"
    PROVE  /\ k + 1 \in 1..Len(Sources(tool))
           /\ \E b \in Range(Brokers) : Sources(tool)[k] = Health(b) /\ Sources(tool)[k + 1] = Tree(b)
  <1> DEFINE S == Sources(tool)
             N == BrokerCount
  <1>1. /\ N \in Nat /\ Len(S) \in Nat /\ Len(S) >= 2 * N + 1 /\ S[1] = Ask("witness")
        /\ \A b \in 1..N : S[2 * b] = Health(Brokers[b]) /\ S[2 * b + 1] = Tree(Brokers[b])
        /\ \A j \in (2 * N + 2)..Len(S) : S[j][1] \notin {"witness", "health", "tree"}
    BY SourcesShape
  <1>2. k \in 1..Len(S) /\ S[k][1] = "health"
    OBVIOUS
  <1> HIDE DEF S
  <1>3. k # 1 /\ k \notin (2 * N + 2)..Len(S)
    <2>1. S[1][1] = "witness"
      BY <1>1, AskKind
    <2> QED
      BY <1>1, <1>2, <2>1
  <1>4. PICK b \in 1..N : k = 2 * b \/ k = 2 * b + 1
    <2>1. k \div 2 \in 1..N /\ (k = 2 * (k \div 2) \/ k = 2 * (k \div 2) + 1)
      BY <1>1, <1>2, <1>3
    <2> QED
      BY <2>1
  <1>5. k # 2 * b + 1
    BY <1>1, <1>2, <1>4, BrokerKind
  <1>6. k = 2 * b /\ k + 1 \in 1..Len(S)
    BY <1>1, <1>2, <1>4, <1>5
  <1>7. Brokers[b] \in Range(Brokers)
    BY BrokerType, <1>4 DEF Range, BrokerCount
  <1> QED
    BY <1>1, <1>6, <1>7 DEF S

(* The server starts well-typed. *)
LEMMA InitTyped == Init => TypeInv
  <1> SUFFICES ASSUME Init PROVE TypeInv
    OBVIOUS
  <1>1. script \in Seq(Line) /\ Len(script) \in Nat
    BY ScriptTypes DEF Init
  <1>2. PlaceTyped
    BY <1>1 DEF Init, PlaceTyped, Working, Underway
  <1>3. DOMAIN prior = {}
    BY DEF Init
  <1>4. heard \in BOOLEAN /\ skipped \in 0..MaxSkips /\ arg \in Args
    <2>1. heard = FALSE /\ skipped = 0 /\ arg = NoArg
      BY DEF Init
    <2>2. skipped \in 0..MaxSkips
      BY <2>1, SkipBound
    <2>3. arg \in Args
      BY <2>1 DEF Args, NoArg
    <2>4. heard \in BOOLEAN
      BY <2>1
    <2> QED
      BY <2>2, <2>3, <2>4
  <1>5. DataTyped
    BY <1>3, <1>4 DEF Init, DataTyped
  <1> QED
    BY <1>2, <1>5 DEF TypeInv

(* The end of a step. *)
LEMMA DoneTyped ==
    ASSUME TypeInv, NEW outcome \in Outcomes, Done(outcome), pc \in Underway, UNCHANGED <<script, at>>
    PROVE  /\ PlaceTyped' /\ results' \in Seq(Outcomes) /\ arg' \in Args
           /\ \A key \in DOMAIN prior' : prior'[key] \in [of : Nat, object : BOOLEAN]
  <1>1. results' \in Seq(Outcomes) /\ Len(results') = step
    BY DEF TypeInv, PlaceTyped, DataTyped, Done, Working
  <1>2. PlaceTyped'
    BY <1>1 DEF TypeInv, PlaceTyped, Done, Working, Underway
  <1>3. \A key \in DOMAIN prior' : prior'[key] \in [of : Nat, object : BOOLEAN]
    BY DEF TypeInv, PlaceTyped, DataTyped, Done
  <1> QED
    BY <1>1, <1>2, <1>3 DEF Done, Args, NoArg

(* Every step keeps the types. *)
LEMMA NextTyped == ASSUME TypeInv, [Next]_vars PROVE TypeInv'
  <1>a. pc \notin {"read", "exit"} => Cur.id \in Nat /\ Cur.steps \in Seq(Step) /\ Cur.kind \in Kinds
    BY CurTyped DEF TypeInv
  <1>b. pc \in Underway => step \in 1..Len(Cur.steps) /\ at \in 1..Len(script) /\ at \in Nat
    BY DEF TypeInv, PlaceTyped, Underway
  <1>c. pc \in Underway => Fire \in Firing /\ Here \in Nat \X Nat
    BY <1>b DEF TypeInv, PlaceTyped, DataTyped, Fire, Here, Firing
  <1>1. CASE UNCHANGED vars
    BY <1>1 DEF vars, call, effects, survey, TypeInv, PlaceTyped, DataTyped, Cur
  <1> SUFFICES ASSUME Next PROVE TypeInv'
    BY <1>1
  <1>d. script' = script
    BY DEF Next
  <1>2. CASE ReadLine \/ Ignore
    <2>1. UNCHANGED <<call, out, effects, survey>>
      BY <1>2 DEF ReadLine, Ignore
    <2>2. pc' \in {"read", "handle", "exit"}
      BY <1>2 DEF ReadLine, Ignore
    <2>3. at' \in 0..Len(script) /\ (pc' = "handle" => at' \in 1..Len(script))
      BY <1>2 DEF ReadLine, Ignore, TypeInv, PlaceTyped
    <2>4. DataTyped'
      BY <2>1 DEF call, effects, survey, TypeInv, DataTyped
    <2> QED
      BY <1>d, <2>1, <2>2, <2>3, <2>4 DEF call, TypeInv, PlaceTyped, Working, Underway
  <1>3. CASE Answer
    <2>1. out' \in Seq(Reply)
      <3>1. PICK what \in {"result", "error"} : send(what)
        BY <1>3 DEF Answer
      <3>2. [id |-> Cur.id, what |-> what, line |-> at] \in Reply
        BY <1>3, <1>a DEF Answer, TypeInv, PlaceTyped, Reply
      <3> QED
        BY <3>1, <3>2 DEF send, TypeInv, DataTyped
    <2> QED
      BY <1>3, <1>d, <2>1 DEF Answer, call, effects, survey, TypeInv, PlaceTyped, DataTyped,
                      Working, Underway
  <1>4. CASE Call
    <2>1. Len(results') = 0 /\ results' \in Seq(Outcomes) /\ DOMAIN prior' = {}
      BY <1>4 DEF Call
    <2> QED
      BY <1>4, <1>d, <2>1 DEF Call, call, effects, survey, TypeInv, PlaceTyped, DataTyped,
                      Working, Underway
  <1>5. CASE resolveTpl
    <2>1. Cur.steps[step].tool \in Tools \ {"none"}
      BY <1>5, CurTyped DEF resolveTpl, TypeInv, PlaceTyped, Working
    <2>2. arg' \in Args
      BY <1>5 DEF resolveTpl, Resolved, TypeInv, DataTyped, Args, NoArg, Literal
    <2> QED
      BY <1>5, <1>a, <1>d, <2>1, <2>2
         DEF resolveTpl, call, effects, survey, TypeInv, PlaceTyped, DataTyped, Working,
             Underway, Busy, Cur
  <1>6. CASE HttpRequest \/ SkipFrame
    <2>1. skipped' \in 0..MaxSkips /\ UNCHANGED <<at, call, out, fired, recorded, sockets, survey>>
      BY <1>6, SkipBound DEF HttpRequest, SkipFrame, effects, TypeInv, DataTyped
    <2>2. DataTyped'
      BY <2>1 DEF TypeInv, DataTyped, call, survey
    <2>3. pc \in Underway /\ pc' \in Underway
      BY <1>6 DEF HttpRequest, SkipFrame, Running, Underway
    <2>4. Busy(pc', Cur.steps[step].tool)
      BY <1>6 DEF HttpRequest, SkipFrame, Running, Busy, Underway, TypeInv,
             PlaceTyped
    <2> QED
      BY <1>d, <2>1, <2>2, <2>3, <2>4 DEF TypeInv, PlaceTyped, call, Cur, Working, Underway
  <1>7. CASE NoTool
    BY <1>7, <1>d DEF NoTool, Outcomes, effects, survey, TypeInv, PlaceTyped, DataTyped, Working, Underway
  <1>8. CASE AuthFails \/ OtherTool \/ BidiRefused \/ DialFails
    <2>1. PICK outcome \in Outcomes : Done(outcome)
      BY <1>8 DEF Outcomes, AuthFails, OtherTool, BidiRefused, DialFails
    <2>2. pc \in Underway /\ UNCHANGED <<at, out, effects, survey>>
      BY <1>8 DEF AuthFails, OtherTool, BidiRefused, DialFails, Running, Underway
    <2> QED
      BY <1>d, <2>1, <2>2, DoneTyped DEF TypeInv, DataTyped, effects, survey
  <1>9. CASE WitnessCalls \/ Direct \/ DirectFails
    <2>1. PICK outcome \in Outcomes : Done(outcome)
      BY <1>9 DEF Outcomes, WitnessCalls, Direct, DirectFails
    <2>2. /\ pc \in Underway /\ UNCHANGED <<at, out, sockets, skipped, survey>>
          /\ fired' \in {fired, Append(fired, Fire)} /\ recorded' \in {recorded, recorded \cup {Here}}
      BY <1>9 DEF WitnessCalls, Direct, DirectFails, Underway
    <2>3. fired' \in Seq(Firing) /\ recorded' \subseteq Nat \X Nat
      <3>1. fired \in Seq(Firing) /\ recorded \subseteq Nat \X Nat /\ Fire \in Firing
            /\ Here \in Nat \X Nat
        BY <1>c, <2>2 DEF TypeInv, DataTyped
      <3>2. Append(fired, Fire) \in Seq(Firing) /\ recorded \cup {Here} \subseteq Nat \X Nat
        BY <3>1
      <3> QED
        BY <2>2, <3>1, <3>2
    <2> QED
      BY <1>d, <2>1, <2>2, <2>3, DoneTyped DEF TypeInv, DataTyped, survey
  <1>10. CASE WitnessSilent \/ WriteText \/ Dial
    <2>1. /\ fired' \in {fired, Append(fired, Fire)} /\ recorded' \in {recorded, recorded \cup {Here}}
          /\ sockets' \in {sockets, sockets \cup {Here}} /\ pc \in Underway
          /\ UNCHANGED <<at, call, out, skipped, survey>>
      BY <1>10 DEF WitnessSilent, WriteText, Dial, Running, Underway
    <2>2. fired' \in Seq(Firing) /\ recorded' \subseteq Nat \X Nat /\ sockets' \subseteq Nat \X Nat
      <3>1. /\ fired \in Seq(Firing) /\ recorded \subseteq Nat \X Nat /\ sockets \subseteq Nat \X Nat
            /\ Fire \in Firing /\ Here \in Nat \X Nat
        BY <1>c, <2>1 DEF TypeInv, DataTyped
      <3>2. /\ Append(fired, Fire) \in Seq(Firing) /\ recorded \cup {Here} \subseteq Nat \X Nat
            /\ sockets \cup {Here} \subseteq Nat \X Nat
        BY <3>1
      <3> QED
        BY <2>1, <3>1, <3>2
    <2>3. PlaceTyped'
      BY <1>10, <1>d, <2>1 DEF WitnessSilent, WriteText, Dial, Running, call, TypeInv, PlaceTyped,
             Working, Underway, Busy, Cur
    <2> QED
      BY <2>1, <2>2, <2>3 DEF TypeInv, DataTyped, call, survey
  <1>11. CASE WriteFails \/ BidiResponse \/ ReadFails
    <2>1. PICK outcome \in Outcomes : Leave(outcome)
      BY <1>11 DEF Outcomes, WriteFails, BidiResponse, ReadFails
    <2>2. pc \in Underway /\ UNCHANGED <<at, out, fired, recorded, survey>>
      BY <1>11 DEF WriteFails, BidiResponse, ReadFails, Underway
    <2>3. Done(outcome) /\ sockets' \subseteq sockets /\ skipped' = 0
      BY <2>1 DEF Leave
    <2> QED
      BY <1>d, <2>2, <2>3, DoneTyped, SkipBound DEF TypeInv, DataTyped, survey
  <1>12. CASE Discover
    <2>1. /\ \E tool \in {"channels", "hub", "session"} :
                  Cur.steps[step].tool = tool /\ todo' = Sources(tool)
          /\ pc = "run" /\ pc' = "discover" /\ report' = {} /\ silent' = {} /\ heard' = FALSE
          /\ UNCHANGED <<at, call, out, effects>>
      BY <1>12 DEF Discover, Running
    <2>2. PICK tool : todo' = Sources(tool)
      BY <2>1
    <2>3. todo' \in Seq(Source) /\ \A i \in 1..Len(todo') : todo'[i][1] = "health" => i < Len(todo')
      <3>1. Sources(tool) \in Seq(Source) /\ Len(Sources(tool)) \in Nat
        BY SourcesShape
      <3>2. \A i \in 1..Len(Sources(tool)) : Sources(tool)[i][1] = "health" => i < Len(Sources(tool))
        BY <3>1, TreeAfterHealth
      <3> QED
        BY <2>2, <3>1, <3>2
    <2> QED
      BY <1>d, <2>1, <2>3 DEF call, effects, TypeInv, PlaceTyped, DataTyped, Working, Underway,
             Busy, Cur
  <1>13. CASE WitnessSays \/ Says \/ Silent
    <2>1. /\ Head(todo) = todo[1] /\ Head(todo) \in Source /\ Tail(todo) \in Seq(Source)
          /\ Len(Tail(todo)) = Len(todo) - 1 /\ Len(todo) \in Nat /\ Len(todo) >= 1
          /\ \A i \in 1..Len(Tail(todo)) : Tail(todo)[i] = todo[i + 1]
          /\ \A i \in 1..Len(todo) : todo[i][1] = "health" => i < Len(todo)
      BY <1>13 DEF WitnessSays, Says, Silent, TypeInv, DataTyped
    <2>2. todo' \in Seq(Source) /\ \A i \in 1..Len(todo') : todo'[i][1] = "health" => i < Len(todo')
      <3>1. CASE todo' = Tail(todo)
        BY <2>1, <3>1
      <3>2. CASE todo' = Tail(Tail(todo)) /\ Head(todo)[1] = "health"
        <4>1. Len(Tail(todo)) >= 1
          BY <2>1, <3>2
        <4>2. /\ todo' \in Seq(Source) /\ Len(todo') = Len(Tail(todo)) - 1
              /\ \A i \in 1..Len(todo') : todo'[i] = Tail(todo)[i + 1]
          BY <2>1, <3>2, <4>1
        <4>3. \A i \in 1..Len(todo') : todo'[i] = todo[i + 2] /\ Len(todo') = Len(todo) - 2
          BY <2>1, <4>1, <4>2
        <4> QED
          BY <2>1, <4>2, <4>3
      <3> QED
        BY <1>13, <3>1, <3>2 DEF WitnessSays, Says, Silent
    <2>3. report' \subseteq Section /\ silent' \subseteq Source /\ heard' \in BOOLEAN
      <3>1. \A what \in {"says", "witnessed", "error"} : <<Head(todo), what>> \in Section
        BY <2>1 DEF Section
      <3>2. report \subseteq Section /\ silent \subseteq Source /\ heard \in BOOLEAN
        BY DEF TypeInv, DataTyped
      <3>3. CASE WitnessSays
        BY <3>2, <3>3 DEF WitnessSays
      <3>4. CASE Says
        BY <3>1, <3>2, <3>4 DEF Says
      <3>5. CASE Silent
        BY <2>1, <3>1, <3>2, <3>5 DEF Silent
      <3> QED
        BY <1>13, <3>3, <3>4, <3>5
    <2> QED
      BY <1>13, <1>d, <2>2, <2>3 DEF WitnessSays, Says, Silent, call, effects, TypeInv, PlaceTyped, DataTyped,
             Cur
  <1>14. CASE Discovered
    <2>1. "discovered" \in Outcomes /\ Done("discovered") /\ pc \in Underway /\ UNCHANGED <<at, out, effects, todo>>
          /\ report' = {} /\ silent' = {} /\ heard' = FALSE
      BY <1>14 DEF Outcomes, Discovered, Underway
    <2> QED
      BY <1>d, <2>1, DoneTyped DEF TypeInv, DataTyped, effects
  <1>15. CASE StepsDone
    BY <1>15, <1>d DEF StepsDone, call, effects, survey, TypeInv, PlaceTyped, DataTyped,
             Working, Underway
  <1>16. CASE Respond
    <2>1. out' \in Seq(Reply) /\ results' \in Seq(Outcomes)
      <3>1. [id |-> Cur.id, what |-> results, line |-> at] \in Reply
        BY <1>16, <1>a DEF Respond, TypeInv, PlaceTyped, DataTyped, Reply
      <3> QED
        BY <1>16, <3>1 DEF Respond, send, TypeInv, DataTyped
    <2> QED
      BY <1>16, <1>d, <2>1 DEF Respond, effects, survey, TypeInv, PlaceTyped, DataTyped,
             Working, Underway
  <1>17. CASE Terminated
    BY <1>17, <1>1 DEF Terminated
  <1> QED
    BY <1>2, <1>3, <1>4, <1>5, <1>6, <1>7, <1>8, <1>9, <1>10, <1>11, <1>12, <1>13, <1>14, <1>15,
       <1>16, <1>17 DEF Next

(* Every variable has its type, and the server is busy only with tools that   *)
(* bring it there.                                                            *)
THEOREM McpTypeCorrect == Spec => []TypeInv
  BY InitTyped, NextTyped, PTL DEF Spec
-----------------------------------------------------------------------------
(* Sockets *)

(* The socket of a command is open exactly while it is sent and waited for. *)
SocketInv == sockets = IF pc \in {"send", "consume"} THEN {Here} ELSE {}

LEMMA NextSocket == ASSUME SocketInv, [Next]_vars PROVE SocketInv'
  <1>1. CASE UNCHANGED vars
    BY <1>1 DEF vars, call, effects, SocketInv, Here
  <1>2. CASE Dial
    BY <1>2 DEF Dial, Running, call, SocketInv, Here
  <1>3. CASE WriteText \/ SkipFrame
    BY <1>3 DEF WriteText, SkipFrame, call, SocketInv, Here
  <1>4. CASE WriteFails \/ BidiResponse \/ ReadFails
    BY <1>4 DEF WriteFails, BidiResponse, ReadFails, Leave, Done, SocketInv, Here
  <1>5. CASE ReadLine \/ Ignore \/ Answer \/ Call \/ resolveTpl \/ HttpRequest \/ NoTool
             \/ Discover \/ WitnessSays \/ Says \/ Silent \/ StepsDone \/ Respond
    <2>1. UNCHANGED sockets /\ pc \notin {"send", "consume"} /\ pc' \notin {"send", "consume"}
      BY <1>5 DEF ReadLine, Ignore, Answer, Call, resolveTpl, HttpRequest, NoTool,
             Discover, WitnessSays, Says, Silent, StepsDone, Respond, Running, effects
    <2> QED
      BY <2>1 DEF SocketInv
  <1>6. CASE AuthFails \/ OtherTool \/ WitnessCalls \/ WitnessSilent \/ Direct \/ DirectFails
             \/ BidiRefused \/ DialFails \/ Discovered
    <2>1. UNCHANGED sockets /\ pc \notin {"send", "consume"} /\ pc' \notin {"send", "consume"}
      BY <1>6 DEF AuthFails, OtherTool, WitnessCalls, WitnessSilent, Direct, DirectFails,
             BidiRefused, DialFails, Discovered, Done, Running, effects
    <2> QED
      BY <2>1 DEF SocketInv
  <1>7. CASE Terminated
    BY <1>1, <1>7 DEF Terminated
  <1> QED
    BY <1>1, <1>2, <1>3, <1>4, <1>5, <1>6, <1>7 DEF Next

(* bidiCommand leaves no socket behind, whichever way it returns. *)
THEOREM McpSocketPerCall == Spec => []SocketPerCall
  <1>1. Init => SocketInv
    BY DEF Init, SocketInv
  <1>2. SocketInv => SocketPerCall
    BY DEF SocketInv, SocketPerCall
  <1> QED
    BY <1>1, <1>2, NextSocket, PTL DEF Spec

-----------------------------------------------------------------------------
(* Responses *)

(* Only a tools/call line runs steps. *)
CallInv == pc \notin {"read", "handle", "exit"} => Cur.kind = "call"

AnswerInv == AnswersInOrder /\ CallInv

(* The response to the line under way, which is owed one. *)
LEMMA SendKeepsOrder ==
    ASSUME TypeInv, AnswersInOrder, pc \notin {"read", "exit"}, Owed(at), NEW what, send(what),
           UNCHANGED <<script, at>>, pc' = "read"
    PROVE  AnswersInOrder'
  <1> DEFINE N == Len(out)
             r == [id |-> Cur.id, what |-> what, line |-> at]
  <1>1. /\ out \in Seq(Reply) /\ at \in Nat /\ at >= 1 /\ N \in Nat
    BY DEF TypeInv, PlaceTyped, DataTyped
  <1>2. /\ Len(out') = N + 1 /\ out'[N + 1] = r /\ \A i \in 1..N : out'[i] = out[i]
    BY <1>1 DEF send
  <1>3. r.line = at /\ r.id = script[at].id
    BY DEF Cur
  <1> HIDE DEF r
  <1>4. /\ \A i, j \in 1..N : i < j => out[i].line < out[j].line
        /\ {out[i].line : i \in 1..N} = {l \in 1..(at - 1) : Owed(l)}
        /\ \A i \in 1..N : out[i].id = script[out[i].line].id
    BY DEF AnswersInOrder
  <1>5. \A i \in 1..N : out[i].line \in Nat /\ out[i].line < at
    <2>1. ASSUME NEW i \in 1..N PROVE out[i].line \in 1..(at - 1)
      <3>1. out[i].line \in {out[k].line : k \in 1..N}
        OBVIOUS
      <3> QED
        BY <1>4, <3>1
    <2> QED
      BY <1>1, <2>1
  <1>6. \A i \in 1..(N + 1) : i \in 1..N \/ i = N + 1
    BY <1>1
  <1>7. ASSUME NEW i \in 1..(N + 1), NEW j \in 1..(N + 1), i < j
        PROVE  out'[i].line < out'[j].line
    <2>1. i \in 1..N
      BY <1>1, <1>7
    <2>2. CASE j \in 1..N
      BY <1>2, <1>4, <1>7, <2>1, <2>2
    <2>3. CASE j = N + 1
      BY <1>2, <1>3, <1>5, <2>1, <2>3
    <2> QED
      BY <1>6, <2>2, <2>3
  <1>8. \A i \in 1..(N + 1) : out'[i].id = script[out'[i].line].id
    BY <1>2, <1>3, <1>4, <1>6
  <1>9. {out'[i].line : i \in 1..(N + 1)} = {l \in 1..at : Owed(l)}
    <2>1. ASSUME NEW l PROVE (\E i \in 1..(N + 1) : l = out'[i].line) <=> (l = at \/ \E i \in 1..N : l = out[i].line)
      <3>1. N + 1 \in 1..(N + 1) /\ \A i \in 1..N : i \in 1..(N + 1)
        BY <1>1
      <3> QED
        BY <1>2, <1>3, <1>6, <3>1
    <2>2. ASSUME NEW l PROVE l \in {k \in 1..at : Owed(k)} <=> (l = at \/ l \in {k \in 1..(at - 1) : Owed(k)})
      BY <1>1
    <2>3. ASSUME NEW l PROVE l \in {k \in 1..(at - 1) : Owed(k)} <=> \E i \in 1..N : l = out[i].line
      BY <1>4
    <2> QED
      BY <2>1, <2>2, <2>3
  <1>10. \A l : Owed(l)' <=> Owed(l)
    BY DEF Owed
  <1> QED
    BY <1>2, <1>7, <1>8, <1>9, <1>10 DEF AnswersInOrder

LEMMA NextAnswers == ASSUME TypeInv, AnswerInv, [Next]_vars PROVE AnswerInv'
  <1>a. script' = script
    BY DEF Next, vars
  <1>b. \A l : Owed(l)' <=> Owed(l)
    BY <1>a DEF Owed
  <1>c. pc \notin {"read", "handle", "exit"} => Owed(at)
    BY DEF AnswerInv, CallInv, Owed, Cur
  <1>d. at \in Nat /\ at <= Len(script) /\ Len(script) \in Nat
    BY DEF TypeInv, PlaceTyped
  <1>e. ASSUME UNCHANGED <<at, out>>, pc \notin {"read", "exit"} <=> pc' \notin {"read", "exit"},
               pc' \in {"read", "handle", "exit"} \/ pc \notin {"read", "handle", "exit"} \/ Cur.kind = "call"
        PROVE  AnswerInv'
    BY <1>a, <1>b, <1>e DEF AnswerInv, AnswersInOrder, CallInv, Cur
  <1>1. CASE UNCHANGED vars
    BY <1>1, <1>e DEF vars
  <1>2. CASE ReadLine
    <2>1. out' = out /\ pc = "read" /\ ((pc' = "exit" /\ at' = at) \/ (pc' = "handle" /\ at' = at + 1))
      BY <1>2 DEF ReadLine
    <2>2. (IF pc' \in {"read", "exit"} THEN at' ELSE at' - 1) = at
      BY <1>d, <2>1
    <2> QED
      BY <1>a, <1>b, <2>1, <2>2 DEF AnswerInv, AnswersInOrder, CallInv
  <1>3. CASE Ignore
    <2>1. pc = "handle" /\ pc' = "read" /\ at' = at /\ out' = out /\ ~Owed(at)
      BY <1>3 DEF Ignore, Owed, Cur
    <2>2. {l \in 1..at : Owed(l)} = {l \in 1..(at - 1) : Owed(l)}
      <3>1. \A l \in 1..at : l = at \/ l \in 1..(at - 1)
        BY <1>d
      <3>2. \A l \in 1..(at - 1) : l \in 1..at
        BY <1>d
      <3> QED
        BY <2>1, <3>1, <3>2
    <2> QED
      BY <1>a, <1>b, <2>1, <2>2 DEF AnswerInv, AnswersInOrder, CallInv
  <1>4. CASE Answer
    <2>1. PICK what : send(what)
      BY <1>4 DEF Answer
    <2>2. pc = "handle" /\ pc' = "read" /\ at' = at /\ Owed(at)
      BY <1>4 DEF Answer, Owed, Cur
    <2> QED
      BY <1>a, <2>1, <2>2, SendKeepsOrder DEF AnswerInv, CallInv
  <1>5. CASE Respond
    <2>1. PICK what : send(what)
      BY <1>5 DEF Respond
    <2>2. pc = "reply" /\ pc' = "read" /\ at' = at
      BY <1>5 DEF Respond
    <2> QED
      BY <1>a, <1>c, <2>1, <2>2, SendKeepsOrder DEF AnswerInv, CallInv
  <1>6. CASE Call
    BY <1>6, <1>e DEF Call
  <1>7. CASE resolveTpl \/ HttpRequest \/ NoTool \/ WitnessSilent \/ Dial
             \/ WriteText \/ SkipFrame \/ Discover \/ WitnessSays \/ Says \/ Silent \/ StepsDone
    <2>1. /\ UNCHANGED <<at, out>> /\ pc \notin {"read", "handle", "exit"}
          /\ pc' \notin {"read", "handle", "exit"}
      BY <1>7 DEF resolveTpl, HttpRequest, NoTool, WitnessSilent, Dial,
             WriteText, SkipFrame, Discover, WitnessSays, Says, Silent, StepsDone, Running
    <2> QED
      BY <1>e, <2>1
  <1>8. CASE AuthFails \/ OtherTool \/ WitnessCalls \/ Direct \/ DirectFails \/ BidiRefused
             \/ DialFails \/ WriteFails \/ BidiResponse \/ ReadFails \/ Discovered
    <2>1. /\ UNCHANGED <<at, out>> /\ pc \notin {"read", "handle", "exit"}
          /\ pc' \notin {"read", "handle", "exit"}
      BY <1>8 DEF AuthFails, OtherTool, WitnessCalls, Direct, DirectFails, BidiRefused, DialFails,
             WriteFails, BidiResponse, ReadFails, Discovered, Leave, Done, Running
    <2> QED
      BY <1>e, <2>1
  <1>9. CASE Terminated
    BY <1>1, <1>9 DEF Terminated
  <1> QED
    BY <1>1, <1>2, <1>3, <1>4, <1>5, <1>6, <1>7, <1>8, <1>9 DEF Next

LEMMA InitAnswers == Init => AnswerInv
  <1> SUFFICES ASSUME Init PROVE AnswerInv
    OBVIOUS
  <1>1. Len(out) = 0 /\ at = 0 /\ pc = "read"
    BY DEF Init
  <1> QED
    BY <1>1 DEF AnswerInv, AnswersInOrder, CallInv

(* Every line that is owed a response has exactly one, in the order of the    *)
(* lines, however the calls before it went.                                   *)
THEOREM McpAnswersInOrder == Spec => []AnswersInOrder
  <1>1. AnswerInv => AnswersInOrder
    BY DEF AnswerInv
  <1> QED
    BY <1>1, InitTyped, NextTyped, InitAnswers, NextAnswers, PTL DEF Spec
-----------------------------------------------------------------------------
(* Calls *)

Hits(q, l, s)  == {n \in 1..Len(q) : q[n].line = l /\ q[n].step = s}

LEMMA HitsFinite ==
    ASSUME NEW q \in Seq(Firing), NEW l, NEW s
    PROVE  IsFiniteSet(Hits(q, l, s)) /\ Cardinality(Hits(q, l, s)) \in Nat
  <1>1. IsFiniteSet(1..Len(q))
    BY FS_Interval
  <1>2. IsFiniteSet(Hits(q, l, s))
    BY <1>1, FS_Subset DEF Hits
  <1> QED
    BY <1>2, FS_CardinalityType

(* One more call counts for the step that made it, and for no other. *)
LEMMA HitsAppend ==
    ASSUME NEW q \in Seq(Firing), NEW f \in Firing, NEW l, NEW s
    PROVE  Cardinality(Hits(Append(q, f), l, s)) =
             IF f.line = l /\ f.step = s THEN Cardinality(Hits(q, l, s)) + 1
             ELSE Cardinality(Hits(q, l, s))
  <1> DEFINE N == Len(q)
             r == Append(q, f)
  <1>1. N \in Nat /\ Len(r) = N + 1 /\ r[N + 1] = f /\ \A n \in 1..N : r[n] = q[n]
    OBVIOUS
  <1>2. \A n : n \in 1..(N + 1) <=> n \in 1..N \/ n = N + 1
    BY <1>1
  <1> HIDE DEF r
  <1>3. CASE f.line = l /\ f.step = s
    <2>1. Hits(r, l, s) = Hits(q, l, s) \cup {N + 1}
      BY <1>1, <1>2, <1>3 DEF Hits
    <2>2. N + 1 \notin Hits(q, l, s)
      BY <1>1 DEF Hits
    <2>3. IsFiniteSet(Hits(q, l, s))
      BY HitsFinite
    <2>4. Cardinality(Hits(q, l, s) \cup {N + 1}) = Cardinality(Hits(q, l, s)) + 1
      BY <2>2, <2>3, FS_AddElement
    <2> QED
      BY <1>3, <2>1, <2>4 DEF r
  <1>4. CASE ~(f.line = l /\ f.step = s)
    <2>1. Hits(r, l, s) = Hits(q, l, s)
      BY <1>1, <1>2, <1>4 DEF Hits
    <2> QED
      BY <1>4, <2>1 DEF r
  <1> QED
    BY <1>3, <1>4

LEMMA HitsNone ==
    ASSUME NEW q \in Seq(Firing), NEW l, NEW s
    PROVE  Cardinality(Hits(q, l, s)) = 0 <=> \A n \in 1..Len(q) : ~(q[n].line = l /\ q[n].step = s)
  <1>1. Cardinality(Hits(q, l, s)) = 0 <=> Hits(q, l, s) = {}
    BY HitsFinite, FS_EmptySet
  <1>2. Hits(q, l, s) = {} <=> \A n \in 1..Len(q) : ~(q[n].line = l /\ q[n].step = s)
    BY DEF Hits
  <1> QED
    BY <1>1, <1>2

(* The steps that may have called their target: those of earlier lines, those *)
(* the line under way is past, and its step under way where it may have.      *)
Reached(l, s) ==
    \/ l < at
    \/ /\ l = at
       /\ \/ pc \in {"read", "exit"}
          \/ pc \in Working \cup {"reply"} /\ s < step
          \/ pc \in {"direct", "consume"} /\ s = step

(* A step called its target no more often than one of its kind may. *)
Within(s) == Fires(at, s) <= Most(Cur.steps[s].tool)

(* What the outcome of a step says of its call. *)
Honest(s) ==
    /\ results[s] = "witnessed" => Fires(at, s) = 1 /\ <<at, s>> \in recorded
    /\ results[s] = "channel_response" => Fires(at, s) = 1
    /\ results[s] = "response" => Fires(at, s) > 0
    /\ results[s] \in {"refused", "dial_failed", "send_failed"} => Fires(at, s) = 0

(* Nothing is called ahead of its step; before a direct fire only a witness   *)
(* may have made the call; a command was sent once at most.                   *)
FireInv ==
    /\ \A n \in 1..Len(fired) : Reached(fired[n].line, fired[n].step)
    /\ pc = "witness" => Witness
    /\ pc = "direct" => Fires(at, step) <= IF Witness THEN 1 ELSE 0
    /\ pc = "consume" => Fires(at, step) <= 1
    /\ pc \in Working \cup {"reply"} => \A s \in 1..Len(Cur.steps) : s < step => Within(s)
    /\ pc \in Working \/ (pc = "reply" /\ results # <<"no_tool">>) =>
          \A s \in 1..Len(results) : Honest(s)

(* A step that is not reached has no call, and a call adds to its own step.   *)
LEMMA FiresFacts ==
    ASSUME TypeInv
    PROVE  /\ \A l, s : Fires(l, s) \in Nat
           /\ FireInv => \A l, s : ~Reached(l, s) => Fires(l, s) = 0
           /\ \A l, s : fired' = fired => Fires(l, s)' = Fires(l, s)
           /\ pc \in Underway /\ fired' = Append(fired, Fire) =>
                \A l, s : Fires(l, s)' = IF l = at /\ s = step THEN Fires(l, s) + 1 ELSE Fires(l, s)
  <1>1. fired \in Seq(Firing)
    BY DEF TypeInv, DataTyped
  <1>2. \A l, s : Fires(l, s) = Cardinality(Hits(fired, l, s)) /\ Fires(l, s)' = Cardinality(Hits(fired', l, s))
    BY DEF Fires, Hits
  <1>3. \A l, s : Fires(l, s) \in Nat
    BY <1>1, <1>2, HitsFinite
  <1>4. ASSUME FireInv, NEW l, NEW s, ~Reached(l, s) PROVE Fires(l, s) = 0
    <2>1. \A n \in 1..Len(fired) : ~(fired[n].line = l /\ fired[n].step = s)
      BY <1>4 DEF FireInv
    <2> QED
      BY <1>1, <1>2, <2>1, HitsNone
  <1>5. ASSUME pc \in Underway, fired' = Append(fired, Fire), NEW l, NEW s
        PROVE  Fires(l, s)' = IF l = at /\ s = step THEN Fires(l, s) + 1 ELSE Fires(l, s)
    <2>1. Fire \in Firing /\ Fire.line = at /\ Fire.step = step
      <3>1. at \in Nat /\ step \in Nat /\ arg \in Args
        BY DEF TypeInv, PlaceTyped, DataTyped
      <3> QED
        BY <3>1 DEF Fire, Firing
    <2>2. Cardinality(Hits(Append(fired, Fire), l, s)) =
             IF Fire.line = l /\ Fire.step = s THEN Cardinality(Hits(fired, l, s)) + 1
             ELSE Cardinality(Hits(fired, l, s))
      BY <1>1, <2>1, HitsAppend
    <2> QED
      BY <1>2, <1>5, <2>1, <2>2
  <1> QED
    BY <1>2, <1>3, <1>4, <1>5

(* What was called stays reached, also with the step under way among it. *)
LEMMA LogKeeps ==
    ASSUME TypeInv, FireInv, pc \in Underway, fired' \in {fired, Append(fired, Fire)},
           \A l, s \in Nat : Reached(l, s) => Reached(l, s)',
           \A l, s : l = at /\ s = step => Reached(l, s)'
    PROVE  \A n \in 1..Len(fired') :
             \A l, s : l = fired'[n].line /\ s = fired'[n].step => Reached(l, s)'
  <1>1. at \in Nat /\ step \in Nat
    BY DEF TypeInv, PlaceTyped
  <1>2. \A n \in 1..Len(fired) : fired[n] \in Firing
    BY DEF TypeInv, DataTyped
  <1>3. \A n \in 1..Len(fired) : /\ fired[n].line \in Nat /\ fired[n].step \in Nat
                                 /\ Reached(fired[n].line, fired[n].step)
    BY <1>2 DEF Firing, FireInv
  <1>4. CASE fired' = fired
    BY <1>3, <1>4
  <1>5. CASE fired' = Append(fired, Fire)
    <2>1. fired \in Seq(Firing) /\ Fire.line = at /\ Fire.step = step
      BY DEF TypeInv, DataTyped, Fire
    <2>2. \A n \in 1..Len(fired') : (n \in 1..Len(fired) /\ fired'[n] = fired[n]) \/ fired'[n] = Fire
      BY <1>5, <2>1
    <2> QED
      BY <1>1, <1>3, <2>1, <2>2
  <1> QED
    BY <1>4, <1>5

(* A call of the step under way leaves what was said of earlier ones true. *)
LEMMA HonestKeeps ==
    ASSUME TypeInv, FireInv, pc \in Underway, UNCHANGED <<script, at>>,
           fired' \in {fired, Append(fired, Fire)}, recorded' \in {recorded, recorded \cup {Here}},
           NEW s \in 1..Len(results), s # step, results'[s] = results[s]
    PROVE  Honest(s)'
  <1>1. Honest(s) /\ Cur' = Cur
    BY DEF FireInv, Working, Cur
  <1>2. Fires(at, s)' = Fires(at, s)
    BY FiresFacts
  <1>3. <<at, s>> \in recorded' <=> <<at, s>> \in recorded
    BY DEF Here
  <1> QED
    BY <1>1, <1>2, <1>3 DEF Honest

LEMMA WithinKeeps ==
    ASSUME TypeInv, FireInv, pc \in Underway, UNCHANGED <<script, at>>,
           fired' \in {fired, Append(fired, Fire)}, NEW s \in 1..Len(Cur.steps), s < step
    PROVE  Within(s)'
  <1>1. Within(s) /\ Cur' = Cur
    BY DEF FireInv, Working, Cur
  <1>2. s # step
    BY DEF TypeInv, PlaceTyped
  <1>3. Fires(at, s)' = Fires(at, s)
    BY <1>2, FiresFacts
  <1> QED
    BY <1>1, <1>3 DEF Within, Most

(* A step that is about to end. *)
LEMMA DoneFires ==
    ASSUME TypeInv, FireInv, NEW outcome, Done(outcome), pc \in Underway, UNCHANGED <<script, at>>,
           fired' \in {fired, Append(fired, Fire)},
           recorded' \in {recorded, recorded \cup {Here}},
           NEW k, k = step,         \* what the new outcome says
           /\ outcome = "witnessed" => Fires(at, k)' = 1 /\ Here \in recorded'
           /\ outcome = "channel_response" => Fires(at, k)' = 1
           /\ outcome = "response" => Fires(at, k)' > 0
           /\ outcome \in {"refused", "dial_failed", "send_failed"} => Fires(at, k)' = 0
           /\ Fires(at, k)' <= Most(Cur.steps[k].tool)
    PROVE  FireInv'
  <1>1. /\ pc' = "step" /\ step' = step + 1 /\ at' = at /\ step \in Nat /\ at \in Nat
        /\ results' = Append(results, outcome) /\ Len(results) = step - 1
        /\ results \in Seq(Outcomes) /\ pc' \in Working /\ pc \in Working
        /\ pc \notin {"read", "exit", "reply"} /\ pc' \notin {"direct", "consume", "witness"}
    BY DEF Done, TypeInv, PlaceTyped, DataTyped, Working, Underway
  <1>2. \A l, s \in Nat : Reached(l, s) => Reached(l, s)'
    BY <1>1 DEF Reached
  <1>3. \A l, s : l = at /\ s = step => Reached(l, s)'
    BY <1>1 DEF Reached
  <1>4. \A n \in 1..Len(fired') : \A l, s : l = fired'[n].line /\ s = fired'[n].step => Reached(l, s)'
    BY <1>2, <1>3, LogKeeps
  <1>5. Cur' = Cur
    BY <1>1 DEF Cur
  <1>6. ASSUME NEW s \in 1..Len(results') PROVE Honest(s)'
    <2>1. Len(results') = step /\ s \in 1..step
      BY <1>1
    <2>2. CASE s = step
      <3>1. results'[s] = outcome
        BY <1>1, <2>2
      <3> QED
        BY <1>1, <2>2, <3>1 DEF Honest, Here
    <2>3. CASE s # step
      <3>1. s \in 1..Len(results) /\ results'[s] = results[s]
        BY <1>1, <2>1, <2>3
      <3> QED
        BY <2>3, <3>1, HonestKeeps
    <2> QED
      BY <2>2, <2>3
  <1>7. ASSUME NEW s \in 1..Len(Cur.steps), s < step + 1 PROVE Within(s)'
    <2>1. CASE s = step
      BY <1>1, <1>5, <2>1 DEF Within, Most
    <2>2. CASE s # step
      <3>1. s < step
        BY <1>1, <1>7, <2>2
      <3> QED
        BY <3>1, WithinKeeps
    <2> QED
      BY <2>1, <2>2
  <1> QED
    BY <1>1, <1>4, <1>5, <1>6, <1>7 DEF FireInv

(* A step that goes on to a direct fire, or waits for an answer. *)
LEMMA GoesOn ==
    ASSUME TypeInv, FireInv, pc \in Underway, UNCHANGED <<script, at, call>>,
           fired' \in {fired, Append(fired, Fire)}, recorded' \in {recorded, recorded \cup {Here}},
           NEW k, k = step,
           \/ pc' = "direct" /\ Fires(at, k)' <= IF Witness THEN 1 ELSE 0
           \/ pc' = "consume" /\ Fires(at, k)' <= 1
    PROVE  FireInv'
  <1>1. /\ at' = at /\ step' = step /\ results' = results /\ Cur' = Cur
        /\ pc \in Working /\ pc' \in Working /\ pc \notin {"read", "exit", "reply"}
        /\ pc' \in {"direct", "consume"} /\ Len(results) = step - 1 /\ step \in Nat
    BY DEF call, Cur, Working, Underway, TypeInv, PlaceTyped
  <1>2. \A l, s \in Nat : Reached(l, s) => Reached(l, s)'
    BY <1>1 DEF Reached
  <1>3. \A l, s : l = at /\ s = step => Reached(l, s)'
    BY <1>1 DEF Reached
  <1>4. \A n \in 1..Len(fired') : \A l, s : l = fired'[n].line /\ s = fired'[n].step => Reached(l, s)'
    BY <1>2, <1>3, LogKeeps
  <1>5. \A s \in 1..Len(results) : Honest(s)'
    BY <1>1, HonestKeeps
  <1>6. \A s \in 1..Len(Cur.steps) : s < step => Within(s)'
    BY WithinKeeps
  <1>7. /\ pc' = "direct" => Fires(at, step)' <= IF Witness THEN 1 ELSE 0
        /\ pc' = "consume" => Fires(at, step)' <= 1
    BY <1>1
  <1> QED
    BY <1>1, <1>4, <1>5, <1>6, <1>7 DEF FireInv

(* A step of the server that calls no target. *)
LEMMA NoCall ==
    ASSUME TypeInv, FireInv, UNCHANGED <<script, fired, recorded>>, pc' \notin {"direct", "consume"},
           pc' = "witness" => Witness,
           \A l, s \in Nat : Reached(l, s) => Reached(l, s)',
           pc' \in Working \cup {"reply"} =>
               \/ results' = <<>> /\ step' = 1
               \/ /\ at' = at /\ step' = step /\ pc \in Working
                  /\ results' = results \/ (pc' = "reply" /\ results' = <<"no_tool">>)
    PROVE  FireInv'
  <1>1. \A n \in 1..Len(fired') : \A l, s : l = fired'[n].line /\ s = fired'[n].step => Reached(l, s)'
    <2>1. \A n \in 1..Len(fired) : fired[n] \in Firing
      BY DEF TypeInv, DataTyped
    <2> QED
      BY <2>1 DEF Firing, FireInv
  <1>2. ASSUME pc' \in Working \/ (pc' = "reply" /\ results' # <<"no_tool">>),
               NEW s \in 1..Len(results')
        PROVE  Honest(s)'
    <2>1. results' = results /\ at' = at /\ pc \in Working
      BY <1>2 DEF Working, Underway
    <2>2. Honest(s)
      BY <1>2, <2>1 DEF FireInv
    <2>3. Fires(at, s)' = Fires(at, s)
      BY <2>1, FiresFacts
    <2> QED
      BY <2>1, <2>2, <2>3 DEF Honest
  <1>3. ASSUME pc' \in Working \cup {"reply"}, NEW s \in 1..Len(Cur'.steps), s < step'
        PROVE  Within(s)'
    <2>1. at' = at /\ step' = step /\ pc \in Working
      BY <1>3
    <2>2. Cur' = Cur /\ Fires(at, s)' = Fires(at, s)
      BY <2>1, FiresFacts DEF Cur
    <2>3. Within(s)
      BY <1>3, <2>1, <2>2 DEF FireInv
    <2> QED
      BY <2>2, <2>3 DEF Within, Most
  <1> QED
    BY <1>1, <1>2, <1>3 DEF FireInv, Working, Underway

LEMMA NextFires == ASSUME TypeInv, FireInv, [Next]_vars PROVE FireInv'
  <1>a. script' = script
    BY DEF Next, vars
  <1>b. at \in Nat /\ step \in Nat
    BY DEF TypeInv, PlaceTyped
  <1>c. /\ \A l, s : Fires(l, s) \in Nat
        /\ \A l, s : ~Reached(l, s) => Fires(l, s) = 0
        /\ \A l, s : fired' = fired => Fires(l, s)' = Fires(l, s)
        /\ pc \in Underway /\ fired' = Append(fired, Fire) =>
             \A l, s : Fires(l, s)' = IF l = at /\ s = step THEN Fires(l, s) + 1 ELSE Fires(l, s)
    BY FiresFacts
  <1>e. pc \in {"run", "witness", "send", "discover"} => Fires(at, step) = 0 /\ pc \in Underway
    <2>1. pc \in {"run", "witness", "send", "discover"} => ~Reached(at, step)
      BY <1>b DEF Reached
    <2> QED
      BY <1>c, <2>1 DEF Underway
  <1>f. pc \in Underway => Busy(pc, Cur.steps[step].tool)
    BY DEF TypeInv, PlaceTyped
  <1>1. CASE UNCHANGED vars
    <2>1. UNCHANGED <<script, pc, at, step, results, fired, recorded>>
      BY <1>1 DEF vars, call, effects
    <2>2. \A l, s : Fires(l, s)' = Fires(l, s) /\ (Reached(l, s)' <=> Reached(l, s))
      BY <1>c, <2>1 DEF Reached
    <2>3. \A s : (Honest(s)' <=> Honest(s)) /\ (Within(s)' <=> Within(s)) /\ Cur' = Cur
      BY <2>1, <2>2 DEF Honest, Within, Most, Cur
    <2> QED
      BY <2>1, <2>2, <2>3 DEF FireInv
  <1>2. CASE ReadLine
    <2>1. \/ pc' = "exit" /\ at' = at
          \/ pc' = "handle" /\ at' = at + 1
      BY <1>2 DEF ReadLine
    <2>2. \A l, s \in Nat : Reached(l, s) => Reached(l, s)'
      BY <1>b, <1>2, <2>1 DEF ReadLine, Reached
    <2> QED
      BY <1>2, <1>a, <2>1, <2>2, NoCall DEF ReadLine, effects, Working, Underway
  <1>3. CASE Ignore \/ Answer \/ Respond
    <2>1. pc' = "read" /\ UNCHANGED <<at, fired, recorded>>
      BY <1>3 DEF Ignore, Answer, Respond, effects
    <2>2. \A l, s \in Nat : Reached(l, s) => Reached(l, s)'
      BY <2>1 DEF Reached
    <2> QED
      BY <1>a, <2>1, <2>2, NoCall DEF Working, Underway
  <1>4. CASE Call
    <2>1. /\ pc = "handle" /\ pc' = "step" /\ results' = <<>> /\ step' = 1
          /\ UNCHANGED <<at, fired, recorded>>
      BY <1>4 DEF Call, effects
    <2>2. \A l, s \in Nat : Reached(l, s) => Reached(l, s)'
      BY <2>1 DEF Reached, Working, Underway
    <2> QED
      BY <1>a, <2>1, <2>2, NoCall
  <1>5. CASE resolveTpl \/ Dial \/ Discover \/ WitnessSays \/ Says \/ Silent \/ StepsDone
    <2>1. /\ pc \in {"step", "run", "discover"} /\ pc' \in {"run", "send", "discover", "reply"}
          /\ UNCHANGED <<at, step, results, fired, recorded>>
      BY <1>5 DEF resolveTpl, Dial, Discover, WitnessSays, Says, Silent, StepsDone, Running, call, effects
    <2>2. pc \in Working /\ (pc' \in Working \/ pc' = "reply")
      BY <2>1 DEF Working, Underway
    <2>3. \A l, s \in Nat : Reached(l, s) => Reached(l, s)'
      BY <2>1, <2>2 DEF Reached
    <2> QED
      BY <1>a, <2>1, <2>2, <2>3, NoCall
  <1>6. CASE NoTool
    <2>1. /\ pc = "step" /\ pc' = "reply" /\ results' = <<"no_tool">>
          /\ UNCHANGED <<at, step, fired, recorded>>
      BY <1>6 DEF NoTool, effects
    <2>2. \A l, s \in Nat : Reached(l, s) => Reached(l, s)'
      BY <2>1 DEF Reached
    <2> QED
      BY <1>a, <2>1, <2>2, NoCall DEF Working, Underway
  <1>7. CASE HttpRequest
    <2>1. /\ pc = "run" /\ pc' \in {"witness", "direct"} /\ (pc' = "witness" => Witness)
          /\ UNCHANGED <<at, call, fired, recorded>>
      BY <1>7 DEF HttpRequest, Running, effects
    <2>2. CASE pc' = "witness"
      <3>1. \A l, s \in Nat : Reached(l, s) => Reached(l, s)'
        BY <2>1, <2>2 DEF Reached, Working, Underway, call
      <3> QED
        BY <1>a, <2>1, <2>2, <3>1, NoCall DEF Working, Underway, call
    <2>3. CASE pc' = "direct"
      BY <1>a, <1>c, <1>e, <2>1, <2>3, GoesOn
    <2> QED
      BY <2>1, <2>2, <2>3
  <1>8. CASE WitnessSilent
    <2>1. /\ pc = "witness" /\ pc' = "direct" /\ UNCHANGED <<at, call>>
          /\ fired' \in {fired, Append(fired, Fire)} /\ recorded' \in {recorded, recorded \cup {Here}}
      BY <1>8 DEF WitnessSilent
    <2>2. Fires(at, step) = 0 /\ pc \in Underway /\ Witness
      BY <1>e, <2>1 DEF FireInv
    <2>3. ASSUME NEW k, k = step PROVE Fires(at, k)' <= IF Witness THEN 1 ELSE 0
      BY <1>c, <2>1, <2>2, <2>3
    <2> QED
      BY <1>a, <2>1, <2>2, <2>3, GoesOn
  <1>9. CASE WriteText
    <2>1. /\ pc = "send" /\ pc' = "consume" /\ UNCHANGED <<at, call, recorded>>
          /\ fired' \in {fired, Append(fired, Fire)}
      BY <1>9 DEF WriteText
    <2>2. Fires(at, step) = 0 /\ pc \in Underway
      BY <1>e, <2>1
    <2>3. ASSUME NEW k, k = step PROVE Fires(at, k)' <= 1
      BY <1>c, <2>1, <2>2, <2>3
    <2> QED
      BY <1>a, <2>1, <2>2, <2>3, GoesOn
  <1>10. CASE SkipFrame
    <2>1. /\ pc = "consume" /\ pc' = "consume" /\ UNCHANGED <<at, call, fired, recorded>>
      BY <1>10 DEF SkipFrame
    <2>2. Fires(at, step) <= 1 /\ pc \in Underway
      BY <2>1 DEF FireInv, Underway
    <2> QED
      BY <1>a, <1>c, <2>1, <2>2, GoesOn
  <1>11. CASE AuthFails \/ OtherTool \/ BidiRefused \/ DialFails \/ Discovered \/ WriteFails
    <2>1. PICK outcome \in {"auth_error", "transports", "unknown", "refused", "dial_failed",
                            "discovered", "send_failed"} : Done(outcome)
      BY <1>11 DEF AuthFails, OtherTool, BidiRefused, DialFails, Discovered, WriteFails, Leave
    <2>2. pc \in {"run", "discover", "send"} /\ UNCHANGED <<at, fired, recorded>>
      BY <1>11 DEF AuthFails, OtherTool, BidiRefused, DialFails, Discovered, WriteFails, Running,
             effects
    <2>3. Fires(at, step) = 0 /\ pc \in Underway
      BY <1>e, <2>2
    <2>4. ASSUME NEW k, k = step PROVE Fires(at, k)' = 0 /\ Fires(at, k)' <= Most(Cur.steps[k].tool)
      BY <1>c, <2>2, <2>3, <2>4 DEF Most
    <2> QED
      BY <1>a, <2>1, <2>2, <2>3, <2>4, DoneFires
  <1>12. CASE WitnessCalls
    <2>1. /\ pc = "witness" /\ Done("witnessed") /\ UNCHANGED at
          /\ fired' = Append(fired, Fire) /\ recorded' = recorded \cup {Here}
      BY <1>12 DEF WitnessCalls
    <2>2. Fires(at, step) = 0 /\ pc \in Underway /\ Here \in recorded' /\ Cur.steps[step].tool = "http"
      BY <1>e, <1>f, <2>1 DEF Busy
    <2>3. ASSUME NEW k, k = step PROVE Fires(at, k)' = 1 /\ Fires(at, k)' <= Most(Cur.steps[k].tool)
      BY <1>c, <2>1, <2>2, <2>3 DEF Most
    <2> QED
      BY <1>a, <2>1, <2>2, <2>3, DoneFires
  <1>13. CASE Direct \/ DirectFails
    <2>1. PICK outcome \in {"response", "failed"} :
             /\ pc = "direct" /\ Done(outcome) /\ UNCHANGED <<at, recorded>>
             /\ fired' \in {fired, Append(fired, Fire)}
             /\ outcome = "response" => fired' = Append(fired, Fire)
      BY <1>13 DEF Direct, DirectFails
    <2>2. /\ Fires(at, step) <= IF Witness THEN 1 ELSE 0
          /\ pc \in Underway /\ Cur.steps[step].tool = "http"
      BY <1>f, <2>1 DEF FireInv, Underway, Busy
    <2>3. ASSUME NEW k, k = step
          PROVE  /\ Fires(at, k)' <= Most(Cur.steps[k].tool)
                 /\ outcome = "response" => Fires(at, k)' > 0
      <3>1. Fires(at, k) \in Nat /\ Fires(at, k)' \in {Fires(at, k), Fires(at, k) + 1}
            /\ (outcome = "response" => Fires(at, k)' = Fires(at, k) + 1)
        BY <1>c, <2>1, <2>2, <2>3
      <3>2. Fires(at, k) <= IF Witness THEN 1 ELSE 0
        BY <2>2, <2>3
      <3> QED
        BY <2>2, <2>3, <3>1, <3>2 DEF Most
    <2> QED
      BY <1>a, <2>1, <2>2, <2>3, DoneFires
  <1>14. CASE BidiResponse \/ ReadFails
    <2>1. PICK outcome \in {"channel_response", "read_failed"} :
             /\ pc = "consume" /\ Done(outcome) /\ UNCHANGED <<at, fired, recorded>>
             /\ outcome = "channel_response" => fired # <<>> /\ Last(fired) = Fire
      BY <1>14 DEF BidiResponse, ReadFails, Leave
    <2>2. /\ Fires(at, step) <= 1
          /\ pc \in Underway /\ Cur.steps[step].tool = "bidi"
      BY <1>f, <2>1 DEF FireInv, Underway, Busy
    <2>3. outcome = "channel_response" => Fires(at, step) = 1
      <3>1. SUFFICES ASSUME outcome = "channel_response" PROVE Fires(at, step) # 0
        BY <1>c, <2>2
      <3>2. fired \in Seq(Firing) /\ fired # <<>> /\ fired[Len(fired)] = Fire
        BY <2>1, <3>1 DEF Last, TypeInv, DataTyped
      <3>3. Len(fired) \in 1..Len(fired) /\ fired[Len(fired)].line = at /\ fired[Len(fired)].step = step
        BY <3>2 DEF Fire
      <3>4. Fires(at, step) = Cardinality(Hits(fired, at, step))
        BY DEF Fires, Hits
      <3> QED
        BY <3>2, <3>3, <3>4, HitsNone
    <2>4. \A k : k = step => Fires(at, k)' = Fires(at, step) /\ Fires(at, k)' <= Most(Cur.steps[k].tool)
      BY <1>c, <2>1, <2>2 DEF Most
    <2> QED
      BY <1>a, <1>c, <2>1, <2>2, <2>3, <2>4, DoneFires
  <1>15. CASE Terminated
    BY <1>1, <1>15 DEF Terminated
  <1> QED
    BY <1>1, <1>2, <1>3, <1>4, <1>5, <1>6, <1>7, <1>8, <1>9, <1>10, <1>11, <1>12, <1>13, <1>14,
       <1>15 DEF Next

LEMMA InitFires == Init => FireInv
  <1> SUFFICES ASSUME Init PROVE FireInv
    OBVIOUS
  <1>1. Len(fired) = 0 /\ recorded = {} /\ pc = "read"
    BY DEF Init
  <1> QED
    BY <1>1 DEF FireInv, Working, Underway

(* The outcome of a step says truly how often its target was called, and no   *)
(* call runs ahead of it: whatever a witness that was not heard has made and  *)
(* recorded, when a command may or may not have gone out, when credentials or *)
(* arguments were missing, and behind a step without a tool.                  *)
THEOREM McpOutcomesHonest == Spec => []OutcomesHonest
  <1>1. ASSUME TypeInv, FireInv PROVE OutcomesHonest
    <2> SUFFICES ASSUME pc \in {"step", "reply"} PROVE OutcomesHonest
      BY DEF OutcomesHonest
    <2>1. ASSUME NEW s \in 1..Len(Cur.steps), ~(s < step) PROVE Fires(at, s) <= 0
      <3>1. ~Reached(at, s)
        BY <1>1, <2>1 DEF Reached, TypeInv, PlaceTyped
      <3> QED
        BY <1>1, <3>1, FiresFacts
    <2>2. \A s \in 1..Len(Cur.steps) : s < step => Fires(at, s) <= Most(Cur.steps[s].tool)
      BY <1>1 DEF FireInv, Within, Working
    <2> QED
      BY <1>1, <2>1, <2>2 DEF FireInv, OutcomesHonest, Honest, Working
  <1> QED
    BY <1>1, InitTyped, NextTyped, InitFires, NextFires, PTL DEF Spec

-----------------------------------------------------------------------------
(* Templates *)

(* The greatest of a set of positions: the least distance from the bound.     *)
LEMMA MaxOf ==
    ASSUME NEW n \in Nat, NEW S, S \subseteq 1..n, S # {}
    PROVE  Max(S) \in S /\ \A x \in S : x <= Max(S)
  <1> DEFINE R == {ss \in Nat \X Nat : ss[1] < ss[2]}
             T == {n - x : x \in S}
  <1>1. IsWellFoundedOn(R, Nat)
    BY NatLessThanWellFounded DEF OpToRel
  <1>2. T \subseteq Nat /\ T # {}
    <2>1. \A x \in S : n - x \in Nat
      OBVIOUS
    <2>2. PICK x \in S : TRUE
      OBVIOUS
    <2>3. n - x \in T
      BY <2>2
    <2> QED
      BY <2>1, <2>3
  <1>3. PICK d \in T : \A y \in T : ~(<<y, d>> \in R)
    <2> HIDE DEF R, T
    <2> QED
      BY <1>1, <1>2, WFMin
  <1>4. PICK m \in S : d = n - m
    BY <1>3
  <1>5. ASSUME NEW x \in S PROVE x <= m
    <2>1. n - x \in T /\ n - x \in Nat /\ d \in Nat
      BY <1>2, <1>3
    <2>2. ~(n - x < d)
      BY <1>3, <2>1
    <2> QED
      BY <1>4, <2>2
  <1>6. \E x \in S : \A y \in S : x >= y
    BY <1>5
  <1>7. \A y \in S : Max(S) >= y /\ Max(S) \in S
    BY <1>6 DEF Max
  <1> QED
    BY <1>7

(* The key of a template, and what a call of step s with arg a carries for it.*)
Ref(s) == Cur.steps[s].ref

Right(s, a) == Ref(s) # NoKey => a = Meant(s, Ref(s), Cur.steps[s].field)

(* prior holds, for every key of a step so far, the last such step; what the  *)
(* step under way and every call of this line carry is what their templates   *)
(* name.                                                                      *)
PriorInv ==
    pc \in Working =>
        /\ \A key \in DOMAIN prior : key # NoKey /\ Named(step, key) # {}
        /\ \A s \in 1..(step - 1) : Keys(s) \subseteq DOMAIN prior
        /\ \A key \in DOMAIN prior :
              /\ prior[key].of = Max(Named(step, key))
              /\ prior[key].object <=> results[Max(Named(step, key))] \in Structured

CallsRight ==
    /\ pc \in Underway => Right(step, arg)
    /\ pc \in Working => \A n \in 1..Len(fired) : fired[n].line = at => Right(fired[n].step, fired[n].arg)

TemplateInv == PriorInv /\ CallsRight

(* The steps a key names come before, and their results are known. *)
LEMMA NamedFacts ==
    ASSUME NEW s \in Nat, NEW key, Named(s, key) # {}
    PROVE  /\ Max(Named(s, key)) \in Named(s, key) /\ Max(Named(s, key)) \in 1..(s - 1)
           /\ \A t \in Named(s, key) : t <= Max(Named(s, key))
  <1>1. Named(s, key) \subseteq 1..(s - 1)
    BY DEF Named
  <1>2. s - 1 \in Nat
    BY <1>1
  <1> QED
    BY <1>1, <1>2, MaxOf

(* What a call carried stays right as results are added. *)
LEMMA RightKeeps ==
    ASSUME TypeInv, pc \in Working, UNCHANGED <<script, at>>,
           results' = results \/ \E x : results' = Append(results, x),
           NEW s \in Nat, s <= step, NEW a, Right(s, a)
    PROVE  Right(s, a)'
  <1>1. Cur' = Cur
    BY DEF Cur
  <1>2. Ref(s)' = Ref(s) /\ \A key : Named(s, key)' = Named(s, key)
    BY <1>1 DEF Ref, Named, Keys
  <1>3. ASSUME NEW key, Named(s, key) # {}
        PROVE  results'[Max(Named(s, key))] = results[Max(Named(s, key))]
    <2>1. Max(Named(s, key)) \in 1..(s - 1)
      BY <1>3, NamedFacts
    <2>2. results \in Seq(Outcomes) /\ Len(results) = step - 1 /\ step \in Nat
      BY DEF TypeInv, PlaceTyped, DataTyped
    <2>3. Max(Named(s, key)) \in 1..Len(results)
      BY <2>1, <2>2
    <2> QED
      BY <2>2, <2>3
  <1>4. \A key, field : Meant(s, key, field)' = Meant(s, key, field)
    BY <1>2, <1>3 DEF Meant
  <1> QED
    BY <1>1, <1>2, <1>4 DEF Right

(* The calls of this line, a new one of the step under way among them. *)
LEMMA CallsKeep ==
    ASSUME TypeInv, FireInv, CallsRight, pc \in Working, UNCHANGED <<script, at>>,
           fired' = fired \/ (pc \in Underway /\ fired' = Append(fired, Fire)),
           results' = results \/ \E x : results' = Append(results, x),
           NEW n \in 1..Len(fired'), fired'[n].line = at, NEW s, s = fired'[n].step, NEW a, a = fired'[n].arg
    PROVE  Right(s, a)'
  <1>1. step \in Nat /\ fired \in Seq(Firing) /\ pc \notin {"read", "exit", "reply"}
    BY DEF TypeInv, PlaceTyped, DataTyped, Working, Underway
  <1>2. CASE n \in 1..Len(fired) /\ fired'[n] = fired[n]
    <2>1. Right(s, a)
      BY <1>2 DEF CallsRight
    <2>2. s \in Nat /\ Reached(at, s)
      <3>1. fired[n] \in Firing /\ fired[n].line = at /\ fired[n].step = s
        BY <1>1, <1>2
      <3> QED
        BY <1>2, <3>1 DEF Firing, FireInv
    <2>3. at \in Nat
      BY DEF TypeInv, PlaceTyped
    <2>4. s <= step
      BY <1>1, <2>2, <2>3 DEF Reached
    <2> QED
      BY <2>1, <2>2, <2>4, RightKeeps
  <1>3. CASE pc \in Underway /\ fired'[n] = Fire
    <2>1. s = step /\ a = arg
      BY <1>3 DEF Fire
    <2>2. Right(s, a)
      BY <1>3, <2>1 DEF CallsRight
    <2> QED
      BY <1>1, <2>1, <2>2, RightKeeps
  <1> QED
    BY <1>1, <1>2, <1>3

(* The end of a step: its keys now stand for it. *)
LEMMA DonePrior ==
    ASSUME TypeInv, PriorInv, NEW outcome, Done(outcome), pc \in Underway, UNCHANGED <<script, at>>
    PROVE  PriorInv'
  <1>1. /\ step' = step + 1 /\ step \in Nat /\ step > 0 /\ results \in Seq(Outcomes)
        /\ Len(results) = step - 1 /\ results' = Append(results, outcome) /\ Cur' = Cur
        /\ pc \in Working
    BY DEF Done, TypeInv, PlaceTyped, DataTyped, Working, Cur
  <1>2. \A s : Keys(s)' = Keys(s)
    BY <1>1 DEF Keys
  <1>3. \A key : Named(step, key)' = {t \in 1..step : key \in Keys(t)}
    BY <1>1, <1>2 DEF Named
  <1>4. /\ DOMAIN prior' = DOMAIN prior \cup Keys(step)
        /\ \A key \in DOMAIN prior' :
              prior'[key] = IF key \in Keys(step)
                            THEN [of |-> step, object |-> outcome \in Structured] ELSE prior[key]
    BY DEF Done
  <1>5. ASSUME NEW key \in Keys(step)
        PROVE  Max({t \in 1..step : key \in Keys(t)}) = step /\ {t \in 1..step : key \in Keys(t)} # {}
    <2> DEFINE M == {t \in 1..step : key \in Keys(t)}
    <2>1. M \subseteq 1..step /\ step \in M
      BY <1>1
    <2> HIDE DEF M
    <2>2. Max(M) \in M /\ \A x \in M : x <= Max(M)
      BY <1>1, <2>1, MaxOf
    <2> QED
      BY <1>1, <2>1, <2>2 DEF M
  <1>6. ASSUME NEW key, key \notin Keys(step)
        PROVE  {t \in 1..step : key \in Keys(t)} = Named(step, key)
    <2>1. \A t \in 1..step : t = step \/ t \in 1..(step - 1)
      BY <1>1
    <2>2. \A t \in 1..(step - 1) : t \in 1..step
      BY <1>1
    <2> QED
      BY <1>6, <2>1, <2>2 DEF Named
  <1>7. ASSUME NEW key \in DOMAIN prior'
        PROVE  /\ key # NoKey /\ {t \in 1..step : key \in Keys(t)} # {}
               /\ prior'[key].of = Max({t \in 1..step : key \in Keys(t)})
               /\ prior'[key].object <=> results'[Max({t \in 1..step : key \in Keys(t)})] \in Structured
    <2>1. CASE key \in Keys(step)
      <3>1. results'[step] = outcome
        BY <1>1
      <3>2. key # NoKey
        BY <2>1 DEF Keys
      <3>3. prior'[key].of = step /\ (prior'[key].object <=> outcome \in Structured)
        <4>1. prior'[key] = [of |-> step, object |-> outcome \in Structured]
          BY <1>4, <2>1
        <4>2. prior'[key].of = step
          BY <4>1
        <4>3. prior'[key].object <=> outcome \in Structured
          <5>1. CASE outcome \in Structured
            <6>1. (outcome \in Structured) = TRUE
              BY <5>1
            <6>2. prior'[key] = [of |-> step, object |-> TRUE]
              BY <4>1, <6>1
            <6> QED
              BY <5>1, <6>2
          <5>2. CASE outcome \notin Structured
            <6>1. (outcome \in Structured) = FALSE
              BY <5>2
            <6>2. prior'[key] = [of |-> step, object |-> FALSE]
              BY <4>1, <6>1
            <6> QED
              BY <5>2, <6>2
          <5> QED
            BY <5>1, <5>2
        <4> QED
          BY <4>2, <4>3
      <3> QED
        BY <1>5, <2>1, <3>1, <3>2, <3>3
    <2>2. CASE key \notin Keys(step)
      <3>1. key \in DOMAIN prior /\ prior'[key] = prior[key]
        BY <1>4, <2>2
      <3>2. /\ key # NoKey /\ Named(step, key) # {} /\ prior[key].of = Max(Named(step, key))
            /\ prior[key].object <=> results[Max(Named(step, key))] \in Structured
        BY <1>1, <3>1 DEF PriorInv
      <3>3. Max(Named(step, key)) \in 1..(step - 1)
        BY <1>1, <3>2, NamedFacts
      <3>4. results'[Max(Named(step, key))] = results[Max(Named(step, key))]
        BY <1>1, <3>3
      <3> QED
        BY <1>6, <2>2, <3>1, <3>2, <3>4
    <2> QED
      BY <2>1, <2>2
  <1>8. \A s \in 1..step : Keys(s) \subseteq DOMAIN prior'
    <2>1. \A s \in 1..(step - 1) : Keys(s) \subseteq DOMAIN prior
      BY <1>1 DEF PriorInv
    <2> QED
      BY <1>1, <1>4, <2>1
  <1>9. step' - 1 = step
    BY <1>1
  <1> QED
    BY <1>2, <1>3, <1>7, <1>8, <1>9 DEF PriorInv

LEMMA NextTemplates == ASSUME TypeInv, FireInv, TemplateInv, [Next]_vars PROVE TemplateInv'
  <1>a. script' = script
    BY DEF Next, vars
  <1>b. Underway \subseteq Working /\ "step" \in Working /\ "step" \notin Underway
        /\ {"read", "handle", "reply", "exit"} \cap Working = {}
    BY DEF Working, Underway
  <1>c. step \in Nat /\ at \in Nat
    BY DEF TypeInv, PlaceTyped
  <1>1. CASE UNCHANGED vars
    <2>1. UNCHANGED <<script, pc, at, step, prior, arg, results, fired>>
      BY <1>1 DEF vars, call, effects
    <2>2. \A s, key : Named(s, key)' = Named(s, key) /\ Ref(s)' = Ref(s) /\ Keys(s)' = Keys(s)
      BY <2>1 DEF Named, Ref, Keys, Cur
    <2>3. \A s, a : Right(s, a)' <=> Right(s, a)
      BY <2>1, <2>2 DEF Right, Meant, Cur
    <2> QED
      BY <2>1, <2>2, <2>3 DEF TemplateInv, PriorInv, CallsRight
  <1>2. CASE ReadLine \/ Ignore \/ Answer \/ Respond \/ NoTool \/ StepsDone
    <2>1. pc' \in {"read", "handle", "reply", "exit"}
      BY <1>2 DEF ReadLine, Ignore, Answer, Respond, NoTool, StepsDone
    <2> QED
      BY <1>b, <2>1 DEF TemplateInv, PriorInv, CallsRight
  <1>3. CASE Call
    <2>1. /\ pc = "handle" /\ pc' = "step" /\ step' = 1 /\ UNCHANGED <<at, fired>>
          /\ DOMAIN prior' = {}
      BY <1>3 DEF Call, effects
    <2>2. \A n \in 1..Len(fired) : fired[n].line # at
      <3>1. \A n \in 1..Len(fired) : fired[n] \in Firing /\ Reached(fired[n].line, fired[n].step)
        BY DEF TypeInv, DataTyped, FireInv
      <3> QED
        BY <1>b, <1>c, <2>1, <3>1 DEF Reached, Firing
    <2>3. PriorInv'
      BY <2>1 DEF PriorInv
    <2>4. CallsRight'
      BY <1>b, <2>1, <2>2 DEF CallsRight
    <2> QED
      BY <2>3, <2>4 DEF TemplateInv
  <1>4. ASSUME pc \in Working, pc' \in Working, UNCHANGED <<at, step, prior, results>>
        PROVE  PriorInv'
    <2>1. \A s, key : Named(s, key)' = Named(s, key) /\ Keys(s)' = Keys(s)
      BY <1>a, <1>4 DEF Named, Keys, Cur
    <2> QED
      BY <1>4, <2>1 DEF TemplateInv, PriorInv
  <1>5. ASSUME pc \in Working, UNCHANGED at,
               fired' = fired \/ (pc \in Underway /\ fired' = Append(fired, Fire)),
               results' = results \/ \E x : results' = Append(results, x),
               pc' \in Underway => \A s, a : s = step' /\ a = arg' => Right(s, a)'
        PROVE  CallsRight'
    <2>1. \A n \in 1..Len(fired') : fired'[n].line = at =>
             \A s, a : s = fired'[n].step /\ a = fired'[n].arg => Right(s, a)'
      BY <1>a, <1>5, CallsKeep DEF TemplateInv
    <2> QED
      BY <1>5, <2>1 DEF CallsRight, Right
  <1>6. CASE resolveTpl
    <2>1. /\ pc = "step" /\ pc' = "run" /\ UNCHANGED <<at, step, prior, results, fired>>
          /\ Ref(step) # NoKey => arg' = Resolved(Ref(step), Cur.steps[step].field)
      BY <1>6 DEF resolveTpl, effects, Ref
    <2>2. pc \in Working /\ pc' \in Working
      BY <1>b, <2>1 DEF Underway, Working
    <2>3. PriorInv'
      BY <1>4, <2>1, <2>2
    <2>4. Right(step, arg')
      <3> DEFINE key == Ref(step)
                 field == Cur.steps[step].field
      <3> SUFFICES ASSUME key # NoKey PROVE Resolved(key, field) = Meant(step, key, field)
        BY <2>1 DEF Right
      <3>1. CASE key \in DOMAIN prior
        <4>1. /\ Named(step, key) # {} /\ prior[key].of = Max(Named(step, key))
              /\ prior[key].object <=> results[Max(Named(step, key))] \in Structured
          BY <2>2, <3>1 DEF TemplateInv, PriorInv
        <4>2. ~(key \notin DOMAIN prior) /\ ~(Named(step, key) = {})
          BY <3>1, <4>1
        <4>3. CASE field # "result" /\ ~prior[key].object
          BY <4>1, <4>3 DEF Resolved, Meant
        <4>4. CASE ~(field # "result" /\ ~prior[key].object)
          BY <4>1, <4>2, <4>4 DEF Resolved, Meant
        <4> QED
          BY <4>3, <4>4
      <3>2. CASE key \notin DOMAIN prior
        <4>1. Named(step, key) = {}
          BY <2>2, <3>2 DEF TemplateInv, PriorInv, Named
        <4> QED
          BY <3>2, <4>1 DEF Resolved, Meant
      <3> QED
        BY <3>1, <3>2
    <2>5. \A s, a : Right(s, a)' <=> Right(s, a)
      <3>1. \A s, key : Ref(s)' = Ref(s) /\ Named(s, key)' = Named(s, key) /\ Cur' = Cur
        BY <1>a, <2>1 DEF Ref, Named, Keys, Cur
      <3> QED
        BY <2>1, <3>1 DEF Right, Meant
    <2>6. \A s, a : s = step /\ a = arg' => Right(s, a)'
      BY <2>4, <2>5
    <2>7. \A n \in 1..Len(fired) : fired[n].line = at => Right(fired[n].step, fired[n].arg)
      BY <2>2 DEF TemplateInv, CallsRight
    <2>8. CallsRight'
      BY <2>1, <2>5, <2>6, <2>7 DEF CallsRight
    <2> QED
      BY <2>3, <2>8 DEF TemplateInv
  <1>7. CASE HttpRequest \/ WitnessSilent \/ Dial \/ WriteText \/ SkipFrame
             \/ Discover \/ WitnessSays \/ Says \/ Silent
    <2>1. /\ pc \in Underway /\ pc' \in Underway /\ UNCHANGED <<at, call>>
          /\ fired' \in {fired, Append(fired, Fire)}
      BY <1>7 DEF HttpRequest, WitnessSilent, Dial, WriteText, SkipFrame,
             Discover, WitnessSays, Says, Silent, Running, effects, Underway
    <2>2. PriorInv'
      BY <1>4, <1>b, <2>1 DEF call
    <2>3. Right(step, arg) /\ step' = step /\ arg' = arg /\ results' = results
      BY <2>1 DEF TemplateInv, CallsRight, call
    <2>4. \A s, a : s = step' /\ a = arg' => Right(s, a)'
      BY <1>a, <1>b, <1>c, <2>1, <2>3, RightKeeps
    <2>5. CallsRight'
      BY <1>5, <1>b, <2>1, <2>3, <2>4
    <2> QED
      BY <2>2, <2>5 DEF TemplateInv
  <1>8. CASE AuthFails \/ OtherTool \/ WitnessCalls \/ Direct \/ DirectFails \/ BidiRefused
             \/ DialFails \/ WriteFails \/ BidiResponse \/ ReadFails \/ Discovered
    <2>1. PICK outcome : Done(outcome)
      BY <1>8 DEF AuthFails, OtherTool, WitnessCalls, Direct, DirectFails, BidiRefused, DialFails,
             WriteFails, BidiResponse, ReadFails, Discovered, Leave
    <2>2. pc \in Underway /\ at' = at /\ fired' \in {fired, Append(fired, Fire)}
      BY <1>8 DEF AuthFails, OtherTool, WitnessCalls, Direct, DirectFails, BidiRefused, DialFails,
             WriteFails, BidiResponse, ReadFails, Discovered, Running, effects, Underway
    <2>3. pc' = "step" /\ results' = Append(results, outcome)
      BY <2>1 DEF Done
    <2>4. PriorInv'
      BY <1>a, <2>1, <2>2, DonePrior DEF TemplateInv
    <2>5. CallsRight'
      BY <1>5, <1>b, <2>2, <2>3
    <2> QED
      BY <2>4, <2>5 DEF TemplateInv
  <1>9. CASE Terminated
    BY <1>1, <1>9 DEF Terminated
  <1> QED
    BY <1>1, <1>2, <1>3, <1>6, <1>7, <1>8, <1>9 DEF Next

LEMMA InitTemplates == Init => TemplateInv
  <1> SUFFICES ASSUME Init PROVE TemplateInv
    OBVIOUS
  <1>1. pc = "read"
    BY DEF Init
  <1> QED
    BY <1>1 DEF TemplateInv, PriorInv, CallsRight, Working, Underway

(* A call carries exactly what its template means in the same composition,    *)
(* whatever ids the steps reuse and whatever earlier calls left behind.       *)
THEOREM McpTemplatesOfThisCall == Spec => []TemplatesOfThisCall
  <1>1. ASSUME TypeInv, FireInv, TemplateInv PROVE TemplatesOfThisCall
    <2> SUFFICES ASSUME pc \in Working, NEW f \in Range(fired), f.line = at, Cur.steps[f.step].ref # NoKey
                 PROVE  f.arg = Meant(f.step, Cur.steps[f.step].ref, Cur.steps[f.step].field)
      BY DEF TemplatesOfThisCall, Working, Underway
    <2>1. fired \in Seq(Firing)
      BY <1>1 DEF TypeInv, DataTyped
    <2>2. PICK n \in 1..Len(fired) : fired[n] = f
      BY <2>1 DEF Range
    <2>3. Right(f.step, f.arg)
      BY <1>1, <2>2 DEF TemplateInv, CallsRight
    <2> QED
      BY <2>3 DEF Right, Ref
  <1> QED
    BY <1>1, InitTyped, NextTyped, InitFires, NextFires, InitTemplates, NextTemplates, PTL DEF Spec

-----------------------------------------------------------------------------
(* Discover *)

(* No source is asked twice: the brokers are distinct. *)
LEMMA SourcesDistinct ==
    ASSUME NEW tool
    PROVE  \A j, k \in 1..Len(Sources(tool)) : Sources(tool)[j] = Sources(tool)[k] => j = k
  <1> SUFFICES ASSUME NEW S, S = Sources(tool), NEW N, N = BrokerCount,
                      NEW j \in 1..Len(S), NEW k \in 1..Len(S), S[j] = S[k]
               PROVE  j = k
    BY Zenon
  <1>0. /\ N \in Nat /\ Len(S) \in Nat /\ Len(S) >= 2 * N + 1 /\ S[1] = Ask("witness")
        /\ \A b \in 1..N : S[2 * b] = Health(Brokers[b]) /\ S[2 * b + 1] = Tree(Brokers[b])
        /\ \A i \in (2 * N + 2)..Len(S) : S[i][1] \notin {"witness", "health", "tree"}
        /\ \A i, l \in (2 * N + 2)..Len(S) : S[i] = S[l] => i = l
    <2>1. N \in Nat /\ Len(S) \in Nat /\ Len(S) >= 2 * N + 1
      BY SourcesShape
    <2>2. S[1] = Ask("witness")
      BY SourcesShape
    <2>3. ASSUME NEW b \in 1..N
          PROVE  S[2 * b] = Health(Brokers[b]) /\ S[2 * b + 1] = Tree(Brokers[b])
      BY SourcesShape
    <2>4. ASSUME NEW i \in (2 * N + 2)..Len(S)
          PROVE  S[i][1] \notin {"witness", "health", "tree"}
      BY SourcesShape
    <2>5. ASSUME NEW i \in (2 * N + 2)..Len(S), NEW l \in (2 * N + 2)..Len(S), S[i] = S[l]
          PROVE  i = l
      BY SourcesShape, <2>5
    <2> QED
      BY <2>1, <2>2, <2>3, <2>4, <2>5
  <1>1. /\ N \in Nat /\ Len(S) \in Nat /\ S[1][1] = "witness"
        /\ \A b \in 1..N : S[2 * b] = Health(Brokers[b]) /\ S[2 * b + 1] = Tree(Brokers[b])
        /\ \A i \in (2 * N + 2)..Len(S) : S[i][1] \notin {"witness", "health", "tree"}
        /\ \A i, l \in (2 * N + 2)..Len(S) : S[i] = S[l] => i = l
    BY <1>0, AskKind
  <1>2. \A b \in 1..N : /\ S[2 * b][1] = "health" /\ S[2 * b][2] = Brokers[b]
                        /\ S[2 * b + 1][1] = "tree" /\ S[2 * b + 1][2] = Brokers[b]
    BY <1>1, BrokerKind
  <1>3. \A b, c \in 1..N : Brokers[b] = Brokers[c] => b = c
    BY <1>0, BrokerType DEF BrokerCount
  <1>4. ASSUME NEW i \in 1..Len(S)
        PROVE  \/ i = 1
               \/ \E b \in 1..N : i = 2 * b
               \/ \E b \in 1..N : i = 2 * b + 1
               \/ i \in (2 * N + 2)..Len(S)
    <2>1. CASE i \in 2..(2 * N + 1)
      <3>1. i \div 2 \in 1..N /\ (i = 2 * (i \div 2) \/ i = 2 * (i \div 2) + 1)
        BY <1>1, <2>1
      <3> QED
        BY <3>1
    <2> QED
      BY <1>1, <2>1
  <1>5. CASE j = 1
    <2>1. S[k][1] = "witness"
      BY <1>1, <1>5
    <2>2. k \notin (2 * N + 2)..Len(S) /\ \A b \in 1..N : k # 2 * b /\ k # 2 * b + 1
      BY <1>1, <1>2, <2>1
    <2> QED
      BY <1>4, <1>5, <2>2
  <1>6. CASE \E b \in 1..N : j = 2 * b
    <2>1. PICK b \in 1..N : j = 2 * b
      BY <1>6
    <2>2. S[k][1] = "health" /\ S[k][2] = Brokers[b]
      BY <1>2, <2>1
    <2>3. PICK c \in 1..N : k = 2 * c
      BY <1>1, <1>2, <1>4, <2>2
    <2>4. Brokers[c] = Brokers[b]
      BY <1>2, <2>2, <2>3
    <2>5. c = b
      BY <1>3, <2>4
    <2> QED
      BY <2>1, <2>3, <2>5
  <1>7. CASE \E b \in 1..N : j = 2 * b + 1
    <2>1. PICK b \in 1..N : j = 2 * b + 1
      BY <1>7
    <2>2. S[k][1] = "tree" /\ S[k][2] = Brokers[b]
      BY <1>2, <2>1
    <2>3. PICK c \in 1..N : k = 2 * c + 1
      BY <1>1, <1>2, <1>4, <2>2
    <2>4. Brokers[c] = Brokers[b]
      BY <1>2, <2>2, <2>3
    <2>5. c = b
      BY <1>3, <2>4
    <2> QED
      BY <2>1, <2>3, <2>5
  <1>8. CASE j \in (2 * N + 2)..Len(S)
    <2>1. k \in (2 * N + 2)..Len(S)
      <3>1. S[k][1] \notin {"witness", "health", "tree"}
        BY <1>1, <1>8
      <3>2. k # 1
        BY <1>1, <3>1
      <3>3. ASSUME NEW b \in 1..N PROVE k # 2 * b /\ k # 2 * b + 1
        BY <1>2, <3>1
      <3> QED
        BY <1>4, <3>2, <3>3
    <2> QED
      BY <1>1, <1>8, <2>1
  <1> QED
    BY <1>4, <1>5, <1>6, <1>7, <1>8

(* The sources of the discover under way, those that spoke, the witness that  *)
(* did, and the tabs that are not asked for.                                  *)
Order   == Sources(Cur.steps[step].tool)
Said    == {r[1] : r \in {q \in report : q[2] # "error"}}
Alive   == IF heard THEN {Ask("witness")} ELSE {}
Unasked == {Tree(b) : b \in {p \in Range(Brokers) : Health(p) \in silent}}

(* todo is the rest of the order; of what is before it every source spoke,    *)
(* was silent, or was not asked; a broker's entry tells of the witness.       *)
SurveyInv ==
    pc = "discover" =>
        /\ Len(todo) <= Len(Order)
        /\ \A i \in 1..Len(todo) : todo[i] = Order[Len(Order) - Len(todo) + i]
        /\ Said \cup silent \cup Unasked \cup Alive = {Order[i] : i \in 1..(Len(Order) - Len(todo))}
        /\ Said \cap silent = {} /\ (Said \cup silent) \cap Unasked = {}
        /\ Alive \cap (Said \cup silent) = {}
        /\ \A r \in report : r[1][1] = "health" => r[2] = IF heard THEN "witnessed" ELSE "says"

(* One source is dealt with, and a second one with it when it goes unasked. *)
LEMMA SurveyStep ==
    ASSUME TypeInv, pc = "discover", SurveyInv, todo # <<>>, WitnessSays \/ Says \/ Silent, script' = script
    PROVE  SurveyInv'
  <1> DEFINE S == Order
             L == Len(S)
             d == L - Len(todo)
             h == Head(todo)
  <1>1. PICK tool : S = Sources(tool)
    BY DEF Order
  <1> HIDE DEF S
  <1>2. L \in Nat /\ S \in Seq(Source)
    BY <1>1, SourcesShape
  <1>3. /\ todo \in Seq(Source) /\ Len(todo) \in Nat /\ Len(todo) >= 1 /\ h = todo[1]
        /\ Len(Tail(todo)) = Len(todo) - 1 /\ Tail(todo) \in Seq(Source)
        /\ \A i \in 1..Len(Tail(todo)) : Tail(todo)[i] = todo[i + 1]
    BY DEF TypeInv, DataTyped
  <1>4. /\ Len(todo) <= L /\ \A i \in 1..Len(todo) : todo[i] = S[d + i]
        /\ Said \cup silent \cup Unasked \cup Alive = {S[i] : i \in 1..d}
        /\ Said \cap silent = {} /\ (Said \cup silent) \cap Unasked = {}
        /\ Alive \cap (Said \cup silent) = {}
        /\ \A r \in report : r[1][1] = "health" => r[2] = IF heard THEN "witnessed" ELSE "says"
    BY DEF SurveyInv, S
  <1>5. d \in 0..L /\ d + 1 \in 1..L /\ h = S[d + 1]
    BY <1>2, <1>3, <1>4
  <1> HIDE DEF d, h, L
  <1>6. \A k \in 1..L : k > d => S[k] \notin {S[i] : i \in 1..d}
    <2>1. \A i, k \in 1..L : S[i] = S[k] => i = k
      BY <1>1, SourcesDistinct DEF L
    <2>2. \A i \in 1..d : i \in 1..L /\ i <= d
      BY <1>2, <1>5
    <2> QED
      BY <1>2, <1>5, <2>1, <2>2
  <1>7. h \notin Said /\ h \notin silent /\ h \notin Unasked /\ h \notin Alive
    BY <1>2, <1>4, <1>5, <1>6
  <1>8. \A i \in 1..(d + 1) : i \in 1..d \/ i = d + 1
    BY <1>2, <1>5
  <1>9. Order' = S /\ pc' = "discover"
    BY DEF WitnessSays, Says, Silent, call, Order, Cur, S
  <1>10. ASSUME Len(todo') = Len(todo) - 1, \A i \in 1..Len(todo') : todo'[i] = todo[i + 1],
                Said' \cup silent' \cup Unasked' \cup Alive' = (Said \cup silent \cup Unasked \cup Alive) \cup {h},
                Said' \cap silent' = {}, (Said' \cup silent') \cap Unasked' = {},
                Alive' \cap (Said' \cup silent') = {},
                \A r \in report' : r[1][1] = "health" => r[2] = IF heard' THEN "witnessed" ELSE "says"
         PROVE  SurveyInv'
    <2>1. L - Len(todo') = d + 1 /\ Len(todo') <= L
      BY <1>2, <1>3, <1>4, <1>10 DEF d
    <2>2. \A i \in 1..Len(todo') : todo'[i] = S[(d + 1) + i]
      BY <1>2, <1>3, <1>4, <1>5, <1>10
    <2>3. {S[i] : i \in 1..(d + 1)} = {S[i] : i \in 1..d} \cup {S[d + 1]}
      BY <1>2, <1>5, <1>8
    <2>4. Said' \cup silent' \cup Unasked' \cup Alive' = {S[i] : i \in 1..(d + 1)}
      BY <1>4, <1>5, <1>10, <2>3
    <2> QED
      BY <1>9, <1>10, <2>1, <2>2, <2>4 DEF SurveyInv, L
  <1>11. CASE Says
    <2> DEFINE what == IF h[1] = "health" /\ heard THEN "witnessed" ELSE "says"
    <2>1. /\ report' = report \cup {<<h, what>>} /\ silent' = silent /\ todo' = Tail(todo)
          /\ heard' = heard /\ h # Ask("witness")
      BY <1>11 DEF Says, h
    <2>2. Said' = Said \cup {h}
      <3>1. <<h, what>>[1] = h /\ <<h, what>>[2] # "error"
        OBVIOUS
      <3>2. ASSUME NEW x PROVE x \in Said' <=> x \in Said \/ x = h
        BY <2>1, <3>1 DEF Said
      <3> QED
        BY <3>2
    <2>3. Unasked' = Unasked /\ Alive' = Alive
      BY <2>1 DEF Unasked, Alive
    <2>4. \A r \in report' : r[1][1] = "health" => r[2] = IF heard THEN "witnessed" ELSE "says"
      <3>1. <<h, what>>[1] = h /\ (h[1] = "health" => <<h, what>>[2] = IF heard THEN "witnessed" ELSE "says")
        OBVIOUS
      <3> HIDE DEF what
      <3> QED
        BY <1>4, <2>1, <3>1
    <2>5. h \notin Alive
      BY <2>1 DEF Alive
    <2> QED
      BY <1>3, <1>4, <1>7, <1>10, <2>1, <2>2, <2>3, <2>4, <2>5
  <1>12. CASE WitnessSays
    <2>1. /\ report' = report /\ silent' = silent /\ todo' = Tail(todo)
          /\ heard' = TRUE /\ h = Ask("witness")
      BY <1>12 DEF WitnessSays, h
    <2>2. Said' = Said /\ Unasked' = Unasked /\ Alive' = {h}
      BY <2>1 DEF Said, Unasked, Alive
    <2>3. Alive = {}
      BY <1>7, <2>1 DEF Alive
    <2>4. Said \cup silent \cup Unasked = {}
      <3>1. 1 \in 1..L /\ S[1] = h
        <4>1. S[1] = Ask("witness")
          BY <1>1, SourcesShape
        <4> QED
          BY <1>2, <1>5, <2>1, <4>1
      <3>2. d = 0
        BY <1>2, <1>5, <1>7, <1>4, <3>1
      <3> QED
        BY <1>4, <3>2
    <2>5. \A r \in report : r[1][1] # "health"
      <3>1. ASSUME NEW r \in report, r[1][1] = "health" PROVE FALSE
        <4>1. r[2] # "error"
          BY <1>4, <3>1
        <4>2. r[1] \in Said
          BY <4>1 DEF Said
        <4> QED
          BY <2>4, <4>2
      <3> QED
        BY <3>1
    <2> QED
      BY <1>3, <1>4, <1>7, <1>10, <2>1, <2>2, <2>3, <2>4, <2>5
  <1>13. CASE Silent
    <2>1. /\ silent' = silent \cup {h} /\ heard' = heard
          /\ report' = report \/ (h[1] # "health" /\ report' = report \cup {<<h, "error">>})
          /\ todo' = IF h[1] = "health" THEN Tail(Tail(todo)) ELSE Tail(todo)
      BY <1>13 DEF Silent, h
    <2>2. Said' = Said /\ Alive' = Alive
      BY <2>1 DEF Said, Alive
    <2>5. \A r \in report' : r[1][1] = "health" => r[2] = IF heard' THEN "witnessed" ELSE "says"
      BY <1>4, <2>1
    <2>3. CASE h[1] # "health"
      <3>1. \A b : Health(b) # h
        BY <2>3, BrokerKind
      <3>2. Unasked' = Unasked
        BY <2>1, <3>1 DEF Unasked
      <3> QED
        BY <1>3, <1>4, <1>7, <1>10, <2>1, <2>2, <2>3, <2>5, <3>2
    <2>4. CASE h[1] = "health"
      <3>1. PICK b \in Range(Brokers) : h = Health(b) /\ d + 2 \in 1..L /\ S[d + 2] = Tree(b)
        <4>1. (d + 1) + 1 = d + 2
          BY <1>2, <1>5
        <4> QED
          BY <1>1, <1>5, <2>4, <4>1, TreeAfterHealth DEF L
      <3>2. Unasked' = Unasked \cup {Tree(b)}
        <4>1. \A c : Health(c) = h <=> c = b
          BY <3>1, BrokerKind
        <4> QED
          BY <2>1, <3>1, <4>1 DEF Unasked
      <3>3. Tree(b) \notin Said \cup silent \cup Unasked /\ Tree(b) # h
        <4>1. S[d + 2] \notin {S[i] : i \in 1..d}
          BY <1>2, <1>5, <1>6, <3>1
        <4>2. Tree(b) # Health(b)
          BY BrokerKind
        <4> QED
          BY <1>4, <3>1, <4>1, <4>2
      <3>4. /\ Said' \cup silent' \cup Unasked' \cup Alive'
                  = (Said \cup silent \cup Unasked \cup Alive) \cup {h, Tree(b)}
            /\ Said' \cap silent' = {} /\ (Said' \cup silent') \cap Unasked' = {}
            /\ Alive' \cap (Said' \cup silent') = {}
        BY <1>4, <1>7, <2>1, <2>2, <3>2, <3>3
      <3>5. Len(Tail(todo)) >= 1 /\ L - Len(todo) = d
        BY <1>2, <1>3, <1>5, <3>1 DEF d
      <3>6. /\ Len(todo') = Len(Tail(todo)) - 1
            /\ \A i \in 1..Len(todo') : todo'[i] = Tail(todo)[i + 1]
        <4>1. todo' = Tail(Tail(todo))
          BY <2>1, <2>4
        <4>2. ASSUME NEW q \in Seq(Source), Len(q) >= 1
              PROVE  Len(Tail(q)) = Len(q) - 1 /\ \A i \in 1..Len(Tail(q)) : Tail(q)[i] = q[i + 1]
          BY <4>2
        <4> QED
          BY <1>3, <3>5, <4>1, <4>2
      <3>7. /\ L - Len(todo') = d + 2 /\ Len(todo') <= L
            /\ \A i \in 1..Len(todo') : todo'[i] = S[(d + 2) + i]
        <4>1. L - Len(todo') = d + 2 /\ Len(todo') <= L /\ Len(todo') = Len(todo) - 2
          BY <1>2, <1>3, <1>4, <1>5, <3>5, <3>6
        <4>2. ASSUME NEW i \in 1..Len(todo') PROVE todo'[i] = S[(d + 2) + i]
          <5>1. i + 1 \in 1..Len(Tail(todo)) /\ (i + 1) + 1 \in 1..Len(todo) /\ d + ((i + 1) + 1) = (d + 2) + i
            <6>1. Len(Tail(todo)) = Len(todo) - 1 /\ Len(todo') = Len(todo) - 2 /\ Len(todo) \in Nat
              BY <1>3, <4>1
            <6>2. d \in Nat /\ i \in 1..Len(todo')
              BY <1>2, <1>5
            <6> HIDE DEF d
            <6> QED
              BY <6>1, <6>2
          <5> QED
            BY <1>3, <1>4, <3>6, <5>1
        <4> QED
          BY <4>1, <4>2
      <3>8. {S[i] : i \in 1..(d + 2)} = {S[i] : i \in 1..d} \cup {S[d + 1], S[d + 2]}
        <4>1. \A i \in 1..(d + 2) : i \in 1..d \/ i = d + 1 \/ i = d + 2
          BY <1>2, <1>5
        <4>2. \A i \in 1..d : i \in 1..(d + 2)
          BY <1>2, <1>5
        <4>3. d + 1 \in 1..(d + 2) /\ d + 2 \in 1..(d + 2)
          BY <1>2, <1>5
        <4> QED
          BY <4>1, <4>2, <4>3
      <3>9. Said' \cup silent' \cup Unasked' \cup Alive' = {S[i] : i \in 1..(d + 2)}
        BY <1>4, <1>5, <3>1, <3>4, <3>8
      <3> QED
        BY <1>9, <2>5, <3>4, <3>7, <3>9 DEF SurveyInv, L
    <2> QED
      BY <2>3, <2>4
  <1> QED
    BY <1>11, <1>12, <1>13

LEMMA NextSurvey == ASSUME TypeInv, SurveyInv, [Next]_vars PROVE SurveyInv'
  <1>a. script' = script
    BY DEF Next, vars
  <1>1. CASE UNCHANGED vars
    <2>1. UNCHANGED <<script, pc, at, step, todo, report, silent, heard>>
      BY <1>1 DEF vars, call, survey
    <2>2. Order' = Order /\ Said' = Said /\ Unasked' = Unasked /\ Alive' = Alive
      BY <2>1 DEF Order, Said, Unasked, Alive, Cur
    <2> QED
      BY <2>1, <2>2 DEF SurveyInv
  <1>2. CASE Discover
    <2>1. /\ todo' = Sources(Cur.steps[step].tool) /\ report' = {} /\ silent' = {} /\ heard' = FALSE
          /\ UNCHANGED <<at, call>>
      BY <1>2 DEF Discover, Running
    <2>2. Order' = Order /\ todo' = Order
      BY <1>a, <2>1 DEF Order, Cur, call
    <2>3. Len(Order) \in Nat
      BY SourcesShape DEF Order
    <2>4. Said' = {} /\ Unasked' = {} /\ Alive' = {}
      BY <2>1 DEF Said, Unasked, Alive
    <2>5. Len(Order) - Len(Order) = 0 /\ \A i \in 1..Len(Order) : (Len(Order) - Len(Order)) + i = i
      BY <2>3
    <2> QED
      BY <2>1, <2>2, <2>3, <2>4, <2>5 DEF SurveyInv
  <1>3. CASE WitnessSays \/ Says \/ Silent
    BY <1>3, <1>a, SurveyStep DEF WitnessSays, Says, Silent
  <1>4. CASE ReadLine \/ Ignore \/ Answer \/ Call \/ resolveTpl \/ HttpRequest \/ NoTool
             \/ WitnessSilent \/ Dial \/ WriteText \/ SkipFrame \/ StepsDone
             \/ Respond
    <2>1. pc' # "discover"
      BY <1>4 DEF ReadLine, Ignore, Answer, Call, resolveTpl, HttpRequest, NoTool, WitnessSilent,
             Dial, WriteText, SkipFrame, StepsDone, Respond
    <2> QED
      BY <2>1 DEF SurveyInv
  <1>5. CASE AuthFails \/ OtherTool \/ WitnessCalls \/ Direct \/ DirectFails \/ BidiRefused
             \/ DialFails \/ WriteFails \/ BidiResponse \/ ReadFails \/ Discovered
    <2>1. pc' # "discover"
      BY <1>5 DEF AuthFails, OtherTool, WitnessCalls, Direct, DirectFails, BidiRefused, DialFails,
             WriteFails, BidiResponse, ReadFails, Discovered, Leave, Done
    <2> QED
      BY <2>1 DEF SurveyInv
  <1>6. CASE Terminated
    BY <1>1, <1>6 DEF Terminated
  <1> QED
    BY <1>1, <1>2, <1>3, <1>4, <1>5, <1>6 DEF Next

(* discover has asked every source its arguments call for: what is not in its *)
(* report was silent, the tabs of a port without a broker, or the witness,    *)
(* that every broker's entry tells of exactly when it answered.               *)
THEOREM McpDiscoverComplete == Spec => []DiscoverComplete
  <1>1. TypeInv /\ SurveyInv => DiscoverComplete
    <2> SUFFICES ASSUME TypeInv, SurveyInv, pc = "discover", todo = <<>>
                 PROVE  /\ Said \cup silent \cup Unasked \cup Alive = Range(Order)
                        /\ Said \cap silent = {} /\ (Said \cup silent) \cap Unasked = {}
                        /\ Alive \cap (Said \cup silent) = {}
                        /\ \A b \in Range(Brokers) : Health(b) \in Said =>
                              <<Health(b), IF heard THEN "witnessed" ELSE "says">> \in report
      BY Zenon DEF DiscoverComplete, Said, Unasked, Alive, Order
    <2>1. Order \in Seq(Source) /\ Len(Order) \in Nat /\ Len(todo) = 0
      BY SourcesShape DEF Order
    <2>2. Range(Order) = {Order[i] : i \in 1..(Len(Order) - Len(todo))}
      BY <2>1 DEF Range
    <2>3. ASSUME NEW b \in Range(Brokers), Health(b) \in Said
          PROVE  <<Health(b), IF heard THEN "witnessed" ELSE "says">> \in report
      <3>1. PICK r \in report : r[1] = Health(b) /\ r[2] # "error"
        BY <2>3 DEF Said
      <3>2. r[2] = IF heard THEN "witnessed" ELSE "says"
        BY <3>1, BrokerKind DEF SurveyInv
      <3>3. r \in Section
        BY DEF TypeInv, DataTyped
      <3>4. r = <<r[1], r[2]>>
        BY <3>3 DEF Section
      <3> QED
        BY <3>1, <3>2, <3>4
    <2> QED
      BY <2>2, <2>3 DEF SurveyInv
  <1>2. Init => SurveyInv
    BY DEF Init, SurveyInv
  <1> QED
    BY <1>1, <1>2, InitTyped, NextTyped, NextSurvey, PTL DEF Spec
=============================================================================
