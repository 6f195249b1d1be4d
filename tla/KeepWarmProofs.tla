--------------------------- MODULE KeepWarmProofs ---------------------------
(* Proofs about KeepWarm: the death watch for all tunables, the keep-warm for *)
(* those that leave room for it (TunablesAssumption).                         *)
EXTENDS KeepWarm, TLAPS

Late == Longer(interval, Timeout)

(* A clock that last stood at zero when a probe was sent, or not later than   *)
(* Slack after it: while no tick waits it is no further than the ticker, then *)
(* no further than a whole interval or the probe that kept the select from    *)
(* its tick, and during a probe by what the probe has spent.                  *)
Behind(clock, slack) ==
    /\ pc = "select" /\ ~tick => clock <= slack + (interval - timer)
    /\ pc = "select" /\ tick => clock <= slack + Late
    /\ pc = "probe" /\ answer # "ok" => clock <= slack + Late + spent
    /\ pc = "probe" /\ answer = "ok" => clock <= spent

(* What the death watch rests on, whatever the tunables: types, a probe that  *)
(* is no longer under way than the ticker since its tick, and the clock of an *)
(* ended session.                                                             *)
WatchInv ==
    /\ TypeOK
    /\ pc = "probe" /\ ~tick => spent <= interval - timer
    /\ remote = "alive" => dead = 0
    /\ remote # "alive" => Behind(dead, 0)

(* What keep-warm rests on: the clock of a session alive at its provider.     *)
WarmInv ==
    /\ remote # "idled"
    /\ kind = "cloud" /\ remote = "alive" => Behind(quiet, Lag)

(* The interval is one of the two tunables, and Late bounds both its parts. *)
LEMMA Intervals ==
    ASSUME TypeOK
    PROVE  /\ interval \in Nat \ {0} /\ Timeout \in Nat \ {0} /\ Late \in Nat
           /\ interval <= Late /\ Timeout <= Late
           /\ Lag \in Nat /\ Idle \in Nat
  BY TimesAssumption, SMT DEF TypeOK, Late, Longer, interval

(* A provider's idle time has room for a late probe after an early one. *)
LEMMA Room == ASSUME TypeOK, kind = "cloud" PROVE Lag + Late + Timeout < Idle
  BY TunablesAssumption DEF Late, interval

(* A clock that keeps behind the ticker still does after one more unit. *)
LEMMA OneUnit ==
    ASSUME NEW i \in Nat, NEW t \in Int, NEW u \in Int, NEW c \in Nat, NEW s \in Nat,
           NEW d, d = c + 1, i - u = (i - t) + 1
    PROVE  /\ c <= s + (i - t) => d <= s + (i - u)
           /\ c <= i - t => d <= i - u
  BY SMT

-----------------------------------------------------------------------------
(* One unit moves the ticker, a probe's clock, and nothing else of these.     *)
LEMMA TickerMoves ==
    ASSUME TypeOK, Pass
    PROVE  /\ \/ pc = "select" /\ ~tick
              \/ pc = "probe" /\ spent < Timeout
           /\ kind' = kind /\ pc' = pc /\ answer' = answer
           /\ timer' \in 1..interval /\ tick' \in BOOLEAN
           /\ ~tick' => ~tick /\ interval - timer' = (interval - timer) + 1
           /\ spent' \in 0..Timeout
           /\ pc = "probe" => spent' = spent + 1
           /\ pc = "select" => spent' = spent
  <1>p. PICK I : I = interval
    OBVIOUS
  <1>a. I \in Nat \ {0} /\ Timeout \in Nat \ {0}
    BY <1>p, Intervals
  <1>c. /\ pc \in {"select", "probe", "gone"} /\ timer \in 1..I /\ tick \in BOOLEAN
        /\ spent \in 0..Timeout
    BY <1>p DEF TypeOK
  <1>1. /\ \/ pc = "select" /\ ~tick
           \/ pc = "probe" /\ spent < Timeout
        /\ kind' = kind /\ pc' = pc /\ answer' = answer
        /\ timer' = (IF timer = 1 THEN I ELSE timer - 1) /\ tick' = (tick \/ timer = 1)
        /\ spent' = IF pc = "probe" THEN spent + 1 ELSE spent
    BY <1>p DEF Pass
  <1>2. timer' \in 1..I /\ tick' \in BOOLEAN
        /\ (~tick' => ~tick /\ I - timer' = (I - timer) + 1)
    <2>1. CASE timer = 1
      <3>1. tick' = TRUE
        BY <1>1, <1>c, <2>1, Zenon
      <3> QED
        BY <1>1, <1>a, <1>c, <2>1, <3>1, SMT
    <2>2. CASE timer # 1
      <3>1. tick' = tick
        BY <1>1, <1>c, <2>2, Zenon
      <3> QED
        BY <1>1, <1>a, <1>c, <2>2, <3>1, SMT
    <2> QED
      BY <2>1, <2>2
  <1>3. /\ spent' \in 0..Timeout
        /\ pc = "probe" => spent' = spent + 1
        /\ pc = "select" => spent' = spent
    BY <1>1, <1>a, <1>c, SMT
  <1> QED
    BY <1>1, <1>2, <1>3, <1>p, Zenon

(* A clock that is behind stays so when it and the ticker move on. *)
LEMMA ClockMoves ==
    ASSUME TypeOK, Pass, NEW c \in Nat, NEW s \in Nat, Behind(c, s)
    PROVE  /\ pc' = "select" /\ ~tick' => c + 1 <= s + (interval' - timer')
           /\ pc' = "select" /\ tick' => c + 1 <= s + Late'
           /\ pc' = "probe" /\ answer' # "ok" => c + 1 <= s + Late' + spent'
           /\ pc' = "probe" /\ answer' = "ok" => c + 1 <= spent'
  <1>p. PICK I : I = interval
    OBVIOUS
  <1>q. PICK L : L = Late
    OBVIOUS
  <1>1. /\ \/ pc = "select" /\ ~tick
           \/ pc = "probe" /\ spent < Timeout
        /\ kind' = kind /\ pc' = pc /\ answer' = answer
        /\ timer' \in 1..I /\ tick' \in BOOLEAN
        /\ ~tick' => ~tick /\ I - timer' = (I - timer) + 1
        /\ spent' \in 0..Timeout
        /\ pc = "probe" => spent' = spent + 1
        /\ pc = "select" => spent' = spent
    BY <1>p, TickerMoves
  <1>2. I \in Nat \ {0} /\ L \in Nat /\ I <= L /\ interval' = I /\ Late' = L
        /\ timer \in 1..I /\ spent \in 0..Timeout /\ Timeout \in Nat
    <2>1. interval' = interval /\ Late' = Late
      BY <1>1 DEF interval, Late
    <2> QED
      BY <1>p, <1>q, <2>1, Intervals DEF TypeOK
  <1>3. /\ pc = "select" /\ ~tick => c <= s + (I - timer)
        /\ pc = "probe" /\ answer # "ok" => c <= s + L + spent
        /\ pc = "probe" /\ answer = "ok" => c <= spent
    BY <1>p, <1>q DEF Behind
  <1> SUFFICES
        /\ pc = "select" /\ ~tick' => c + 1 <= s + (I - timer')
        /\ pc = "select" /\ tick' => c + 1 <= s + L
        /\ pc = "probe" /\ answer # "ok" => c + 1 <= s + L + spent'
        /\ pc = "probe" /\ answer = "ok" => c + 1 <= spent'
    BY <1>1, <1>2, Zenon
  <1>4. CASE pc = "select"
    <2>1. c <= s + (I - timer) /\ timer \in 1..I /\ timer' \in 1..I
      BY <1>4, <1>1, <1>2, <1>3
    <2>2. CASE tick'
      BY <2>1, <2>2, <1>4, <1>1, <1>2, SMT
    <2>3. CASE ~tick'
      <3>1. I - timer' = (I - timer) + 1
        BY <2>3, <1>1, Zenon
      <3>2. I \in Nat /\ timer \in Int /\ timer' \in Int
        BY <2>1, <1>2
      <3>3. c + 1 <= s + (I - timer')
        BY <2>1, <3>1, <3>2, OneUnit, Zenon
      <3> QED
        BY <3>3, <2>3, <1>4, Zenon
    <2> QED
      BY <2>2, <2>3
  <1>5. CASE pc = "probe"
    BY <1>5, <1>1, <1>2, <1>3, SMT
  <1> QED
    BY <1>4, <1>5, <1>1

-----------------------------------------------------------------------------
(* The clocks' bounds hold when supervise starts. *)
LEMMA InitClocks == Init => WatchInv /\ WarmInv
  <1> SUFFICES ASSUME Init PROVE WatchInv /\ WarmInv
    OBVIOUS
  <1>1. interval \in Nat \ {0} /\ Timeout \in Nat /\ Lag \in Nat
    BY TimesAssumption DEF interval
  <1>2. TypeOK
    <2>1. timer \in 1..interval /\ spent \in 0..Timeout /\ quiet \in Nat /\ dead \in Nat
      BY <1>1, SMT DEF Init
    <2> QED
      BY <2>1 DEF Init, TypeOK
  <1>3. Behind(quiet, Lag)
    BY <1>1, <1>2, Intervals, SMT DEF Init, Behind
  <1> QED
    BY <1>2, <1>3 DEF Init, WatchInv, WarmInv

(* The interval is the session's for good. *)
LEMMA SameInterval ==
    ASSUME [Next]_vars PROVE kind' = kind /\ interval' = interval /\ Late' = Late
  BY DEF Next, vars, Tick, Reach, Mark, Reap, RemoteEnds, Pass, Terminated, interval, Late

(* The watch on a session that ended, whatever the tunables. *)
LEMMA NextWatch == ASSUME WatchInv, [Next]_vars PROVE WatchInv'
  <1>0. TypeOK /\ kind' = kind /\ interval' = interval /\ Late' = Late
    BY SameInterval DEF WatchInv
  <1>p. PICK I : I = interval
    OBVIOUS
  <1>q. PICK L : L = Late
    OBVIOUS
  <1>a. /\ I \in Nat \ {0} /\ Timeout \in Nat \ {0} /\ L \in Nat
        /\ I <= L /\ Timeout <= L
    BY <1>0, <1>p, <1>q, Intervals
  <1>b. I = interval' /\ L = Late'
    BY <1>0, <1>p, <1>q
  <1>c. /\ kind \in {"local", "cloud"} /\ pc \in {"select", "probe", "gone"}
        /\ timer \in 1..I /\ tick \in BOOLEAN
        /\ spent \in 0..Timeout /\ answer \in {"none", "ok", "dead"}
        /\ remote \in {"alive", "ended", "idled"} /\ quiet \in Nat /\ dead \in Nat
    BY <1>0, <1>p DEF TypeOK
  <1>d. /\ pc = "probe" /\ ~tick => spent <= I - timer
        /\ remote = "alive" => dead = 0
    BY <1>p DEF WatchInv
  <1>f. remote # "alive" =>
          /\ pc = "select" /\ ~tick => dead <= 0 + (I - timer)
          /\ pc = "select" /\ tick => dead <= 0 + L
          /\ pc = "probe" /\ answer # "ok" => dead <= 0 + L + spent
          /\ pc = "probe" /\ answer = "ok" => dead <= spent
    BY <1>p, <1>q DEF WatchInv, Behind
  <1> SUFFICES
        /\ /\ kind' \in {"local", "cloud"} /\ pc' \in {"select", "probe", "gone"}
           /\ timer' \in 1..I /\ tick' \in BOOLEAN
           /\ spent' \in 0..Timeout /\ answer' \in {"none", "ok", "dead"}
           /\ remote' \in {"alive", "ended", "idled"} /\ quiet' \in Nat /\ dead' \in Nat
        /\ pc' = "probe" /\ ~tick' => spent' <= I - timer'
        /\ remote' = "alive" => dead' = 0
        /\ remote' # "alive" =>
              /\ pc' = "select" /\ ~tick' => dead' <= 0 + (I - timer')
              /\ pc' = "select" /\ tick' => dead' <= 0 + L
              /\ pc' = "probe" /\ answer' # "ok" => dead' <= 0 + L + spent'
              /\ pc' = "probe" /\ answer' = "ok" => dead' <= spent'
    BY <1>b, Zenon DEF WatchInv, TypeOK, Behind
  <1>1. CASE Tick
    <2>1. /\ pc = "select" /\ tick /\ tick' = FALSE
          /\ pc' = "probe" /\ spent' = 0 /\ answer' = "none"
          /\ kind' = kind /\ timer' = timer /\ remote' = remote
          /\ quiet' = quiet /\ dead' = dead
      BY <1>1 DEF Tick
    <2>2. /\ spent' \in 0..Timeout /\ tick' \in BOOLEAN
          /\ pc' = "probe" /\ ~tick' => spent' <= I - timer'
      <3>1. 0 \in 0..Timeout /\ 0 <= I - timer
        BY <1>a, <1>c, SMT
      <3> QED
        BY <2>1, <3>1, <1>c, Zenon
    <2>3. remote # "alive" => dead <= 0 + L
      BY <2>1, <1>f, Zenon
    <2>4. remote # "alive" => dead <= 0 + L + spent'
      BY <2>1, <2>3, <1>a, <1>c, SMTT(30)
    <2> QED
      BY <2>1, <2>2, <2>4, <1>c, <1>d, Zenon
  <1>2. CASE Reach
    BY <1>2, <1>a, <1>c, <1>d, <1>f, SMTT(30) DEF Reach
  <1>3. CASE Mark
    BY <1>3, <1>a, <1>c, <1>d, <1>f, SMTT(30) DEF Mark
  <1>4. CASE Reap
    BY <1>4, <1>a, <1>c, <1>d, <1>f, SMTT(30) DEF Reap
  <1>5. CASE RemoteEnds
    BY <1>5, <1>a, <1>c, <1>d, <1>f, SMTT(30) DEF RemoteEnds
  <1>6. CASE Pass
    <2>1. /\ \/ pc = "select" /\ ~tick
             \/ pc = "probe" /\ spent < Timeout
          /\ pc' = pc /\ answer' = answer
          /\ timer' \in 1..I /\ tick' \in BOOLEAN
          /\ ~tick' => ~tick /\ I - timer' = (I - timer) + 1
          /\ spent' \in 0..Timeout
          /\ pc = "probe" => spent' = spent + 1
      BY <1>6, <1>0, <1>p, TickerMoves
    <2>2. pc' = "probe" /\ ~tick' => spent' <= I - timer'
      <3> SUFFICES ASSUME pc' = "probe", ~tick' PROVE spent' <= I - timer'
        OBVIOUS
      <3>1. /\ spent' = spent + 1 /\ spent <= I - timer
            /\ I - timer' = (I - timer) + 1
        BY <2>1, <1>d, Zenon
      <3>2. I \in Nat /\ timer \in Int /\ timer' \in Int /\ spent \in Nat /\ 0 \in Nat
        BY <2>1, <1>a, <1>c
      <3> QED
        BY <3>1, <3>2, OneUnit, Zenon
    <2>3. CASE remote = "alive"
      <3>1. /\ quiet' = quiet + 1 /\ dead' = 0
            /\ remote' = IF kind = "cloud" /\ quiet + 1 >= Idle THEN "idled" ELSE "alive"
        BY <1>6, <2>3 DEF Pass
      <3>2. quiet' \in Nat /\ dead' \in Nat /\ remote' \in {"alive", "idled"}
        BY <3>1, <1>c
      <3>3. 0 <= 0 + (I - timer') /\ 0 <= 0 + L /\ 0 <= 0 + L + spent' /\ 0 <= spent'
        <4>1. ASSUME NEW t \in 1..I, NEW u \in 0..Timeout
              PROVE  0 <= 0 + (I - t) /\ 0 <= 0 + L /\ 0 <= 0 + L + u /\ 0 <= u
          BY <1>a, SMT
        <4> QED
          BY <4>1, <2>1
      <3> QED
        BY <2>1, <2>2, <3>1, <3>2, <3>3, <1>0, <1>c, Zenon
    <2>4. CASE remote # "alive"
      <3>1. dead' = dead + 1 /\ remote' = remote /\ quiet' = quiet
        BY <1>6, <2>4 DEF Pass
      <3>2. Behind(dead, 0) /\ dead \in Nat /\ 0 \in Nat
        BY <2>4, <1>c DEF WatchInv
      <3>3. /\ pc' = "select" /\ ~tick' => dead + 1 <= 0 + (interval' - timer')
            /\ pc' = "select" /\ tick' => dead + 1 <= 0 + Late'
            /\ pc' = "probe" /\ answer' # "ok" => dead + 1 <= 0 + Late' + spent'
            /\ pc' = "probe" /\ answer' = "ok" => dead + 1 <= spent'
        BY <3>2, <1>6, <1>0, ClockMoves
      <3>4. dead' \in Nat
        BY <3>1, <1>c
      <3> QED
        BY <2>1, <2>2, <2>4, <3>1, <3>3, <3>4, <1>0, <1>b, <1>c, <1>d, Zenon
    <2> QED
      BY <2>3, <2>4
  <1>7. CASE UNCHANGED vars
    BY <1>7, <1>a, <1>c, <1>d, <1>f, SMTT(30) DEF vars
  <1> QED
    BY <1>1, <1>2, <1>3, <1>4, <1>5, <1>6, <1>7 DEF Next, Terminated

(* The keep-warm of a session that is alive, for tunables with room for it. *)
LEMMA NextWarm == ASSUME WatchInv, WarmInv, [Next]_vars PROVE WarmInv'
  <1>0. TypeOK /\ kind' = kind /\ interval' = interval /\ Late' = Late
    BY SameInterval DEF WatchInv
  <1>p. PICK I : I = interval
    OBVIOUS
  <1>q. PICK L : L = Late
    OBVIOUS
  <1>a. /\ I \in Nat \ {0} /\ Timeout \in Nat \ {0} /\ L \in Nat
        /\ I <= L /\ Timeout <= L /\ Lag \in Nat /\ Idle \in Nat
        /\ kind = "cloud" => Lag + L + Timeout < Idle
    BY <1>0, <1>p, <1>q, Intervals, Room
  <1>c. /\ kind \in {"local", "cloud"} /\ pc \in {"select", "probe", "gone"}
        /\ timer \in 1..I /\ tick \in BOOLEAN
        /\ spent \in 0..Timeout /\ answer \in {"none", "ok", "dead"}
        /\ remote \in {"alive", "ended", "idled"} /\ quiet \in Nat /\ dead \in Nat
    BY <1>0, <1>p DEF TypeOK
  <1>e. kind = "cloud" /\ remote = "alive" =>
          /\ pc = "select" /\ ~tick => quiet <= Lag + (I - timer)
          /\ pc = "select" /\ tick => quiet <= Lag + L
          /\ pc = "probe" /\ answer # "ok" => quiet <= Lag + L + spent
          /\ pc = "probe" /\ answer = "ok" => quiet <= spent
    BY <1>p, <1>q DEF WarmInv, Behind
  <1> SUFFICES
        /\ remote' # "idled"
        /\ kind' = "cloud" /\ remote' = "alive" =>
              /\ pc' = "select" /\ ~tick' => quiet' <= Lag + (I - timer')
              /\ pc' = "select" /\ tick' => quiet' <= Lag + L
              /\ pc' = "probe" /\ answer' # "ok" => quiet' <= Lag + L + spent'
              /\ pc' = "probe" /\ answer' = "ok" => quiet' <= spent'
    BY <1>0, <1>p, <1>q, Zenon DEF WarmInv, Behind
  <1>d. remote # "idled"
    BY DEF WarmInv
  <1>1. CASE Tick
    <2>1. /\ pc = "select" /\ tick /\ pc' = "probe" /\ spent' = 0 /\ answer' = "none"
          /\ kind' = kind /\ remote' = remote /\ quiet' = quiet
      BY <1>1 DEF Tick
    <2>2. kind = "cloud" /\ remote = "alive" => quiet <= Lag + L
      BY <2>1, <1>e, Zenon
    <2>3. kind = "cloud" /\ remote = "alive" => quiet <= Lag + L + spent'
      BY <2>1, <2>2, <1>a, <1>c, SMTT(30)
    <2> QED
      BY <2>1, <2>3, <1>d, Zenon
  <1>2. CASE Reach
    BY <1>2, <1>a, <1>c, <1>d, <1>e, SMTT(30) DEF Reach
  <1>3. CASE Mark
    <2>1. pc = "probe" /\ answer = "ok" /\ (~tick => spent <= I - timer)
      BY <1>3, <1>p DEF Mark, WatchInv
    <2> QED
      BY <1>3, <2>1, <1>a, <1>c, <1>d, <1>e, SMTT(30) DEF Mark
  <1>4. CASE Reap
    BY <1>4, <1>d, SMTT(30) DEF Reap
  <1>5. CASE RemoteEnds
    BY <1>5, SMTT(30) DEF RemoteEnds
  <1>6. CASE Pass
    <2>1. \/ pc = "select" /\ ~tick
          \/ pc = "probe" /\ spent < Timeout
      BY <1>6, <1>0, TickerMoves
    <2>2. CASE remote = "alive"
      <3>1. /\ quiet' = quiet + 1
            /\ remote' = IF kind = "cloud" /\ quiet + 1 >= Idle THEN "idled" ELSE "alive"
        BY <1>6, <2>2 DEF Pass
      <3>2. kind = "cloud" => quiet + 1 < Idle
        BY <2>1, <2>2, <1>a, <1>c, <1>e, SMTT(30)
      <3>3. remote' = "alive"
        BY <3>1, <3>2, <1>a, <1>c, SMTT(30)
      <3>4. kind = "cloud" => Behind(quiet, Lag)
        BY <2>2 DEF WarmInv
      <3>5. kind = "cloud" =>
              /\ pc' = "select" /\ ~tick' => quiet + 1 <= Lag + (interval' - timer')
              /\ pc' = "select" /\ tick' => quiet + 1 <= Lag + Late'
              /\ pc' = "probe" /\ answer' # "ok" => quiet + 1 <= Lag + Late' + spent'
              /\ pc' = "probe" /\ answer' = "ok" => quiet + 1 <= spent'
        BY <3>4, <1>6, <1>0, <1>a, <1>c, ClockMoves
      <3> QED
        BY <3>1, <3>3, <3>5, <1>0, <1>p, <1>q, Zenon
    <2>3. CASE remote # "alive"
      <3>1. remote' = remote
        BY <1>6, <2>3 DEF Pass
      <3> QED
        BY <2>3, <3>1, <1>d, Zenon
    <2> QED
      BY <2>2, <2>3
  <1>7. CASE UNCHANGED vars
    BY <1>7, <1>d, <1>e DEF vars
  <1> QED
    BY <1>1, <1>2, <1>3, <1>4, <1>5, <1>6, <1>7 DEF Next, Terminated

-----------------------------------------------------------------------------
(* The watch is kept at every moment of a supervisor's life.                  *)
THEOREM KeepWarmWatch == Spec => []WatchInv
  BY InitClocks, NextWatch, PTL DEF Spec

(* A session that ended is reaped within an interval, or a timeout if that is *)
(* longer, and one more timeout: for all tunables, also those under which a   *)
(* cloud session idles out.                                                   *)
THEOREM KeepWarmDeathNoticed == Spec => []DeathNoticed
  <1>1. WatchInv => DeathNoticed
    <2> SUFFICES ASSUME WatchInv, pc # "gone" PROVE dead <= Late + Timeout
      BY DEF DeathNoticed, Late
    <2>1. TypeOK
      BY DEF WatchInv
    <2> QED
      BY <2>1, Intervals, SMT DEF WatchInv, Behind, TypeOK
  <1> QED
    BY <1>1, KeepWarmWatch, PTL

(* A tracked cloud session never idles out at its provider, for all tunables  *)
(* with room for a timeout beside the heartbeat, whichever is the longer.     *)
THEOREM KeepWarmNeverIdlesOut == Spec => []NeverIdlesOut
  <1>1. WarmInv => NeverIdlesOut
    BY DEF WarmInv, NeverIdlesOut
  <1> QED
    BY <1>1, InitClocks, NextWarm, KeepWarmWatch, PTL DEF Spec
=============================================================================
