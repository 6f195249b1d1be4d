------------------------- MODULE SessionChainProofs -------------------------
(* Proofs about SessionChain: the one handle of a chain, and what it leaves   *)
(* behind, whatever the hub does and whenever it does it.                     *)
EXTENDS SessionChain, WellFoundedInduction, TLAPS

(* How many calls a chain can have made before each of its links.             *)
Before == <<0, 1, 2, 2, 3, 4, 5, 6, 6>>

(* The chain is at a link with the calls of links before it; the first two    *)
(* are always made, do not break and give it its handle; the last one ends it *)
(* and only then is the user told.                                            *)
PlaceInv ==
    pc # "exit" =>
        /\ \E p \in 1..9 : pc = Chain[p] /\ Len(calls) <= Before[p]
        /\ pc = "status" => Len(calls) = 0
        /\ pc = "create" => Len(calls) = 1
        /\ pc \notin {"status", "create"} => Len(calls) >= 2 /\ handle # "none"
        /\ pc = "inspector" => flags.inspector
        /\ \A i \in 1..Len(calls) : calls[i].link # "end"
        /\ broken \cap {"status", "create", "end"} = {} /\ told = "nothing"

(* No session is created before its link; one the chain may leave behind does *)
(* not idle out, and the chain keeps what an inspector is attached to.        *)
KeepInv ==
    /\ pc \in {"status", "create"} => remote = "none"
    /\ remote = "alive" => immortal = WillOutlive
    /\ keep => WillOutlive
    /\ attached => keep

ChainInv == TypeOK /\ PlaceInv /\ KeepInv /\ OneHandle /\ HonestEnd /\ LeftAliveOpenly

-----------------------------------------------------------------------------
LEMMA ChainAt ==
    /\ Len(Chain) = 9 /\ Chain[1] = "status" /\ Chain[2] = "create" /\ Chain[3] = "forward"
    /\ Chain[4] = "deviceInfo" /\ Chain[5] = "pressKey" /\ Chain[6] = "swipe"
    /\ Chain[7] = "screenshot" /\ Chain[8] = "inspector" /\ Chain[9] = "end"
    /\ \A i \in 1..9 : i = 1 \/ i = 2 \/ i = 3 \/ i = 4 \/ i = 5 \/ i = 6 \/ i = 7 \/ i = 8 \/ i = 9
  BY DEF Chain

LEMMA ChainDistinct ==
    /\ \A i, j \in 1..9 : Chain[i] = Chain[j] => i = j
    /\ \A i \in 1..9 : Chain[i] # "exit"
  BY ChainAt

(* The chain goes to the next link that is not left out. *)
LEMMA GotoNext ==
    ASSUME NEW i \in 1..8, NEW link, link = Chain[i], Goto(link)
    PROVE  \E k \in 1..9 : /\ k > i /\ pc' = Chain[k] /\ Chain[k] \notin Skipped
                           /\ \A j \in 1..9 : j > i /\ Chain[j] \notin Skipped => k <= j
  <1> DEFINE later == {k \in 1..Len(Chain) : Chain[k] \notin Skipped
                          /\ \E j \in 1..(k - 1) : Chain[j] = link}
             R == {ss \in Nat \X Nat : ss[1] < ss[2]}
  <1>1. "end" \notin Skipped
    BY DEF Skipped
  <1>2. 9 \in later
    <2>1. 9 \in 1..Len(Chain) /\ i \in 1..(9 - 1)
      BY ChainAt
    <2> QED
      BY <1>1, <2>1, ChainAt
  <1>3. later \subseteq Nat /\ later # {}
    BY <1>2, ChainAt
  <1>4. \A k \in later : k \in 1..9 /\ k > i /\ Chain[k] \notin Skipped
    <2> SUFFICES ASSUME NEW k \in later PROVE k \in 1..9 /\ k > i /\ Chain[k] \notin Skipped
      OBVIOUS
    <2>1. k \in 1..9
      BY ChainAt
    <2>2. PICK j \in 1..(k - 1) : Chain[j] = Chain[i]
      OBVIOUS
    <2>3. j \in 1..9 /\ i \in 1..9 /\ j < k
      BY <2>1
    <2>4. j = i
      BY <2>2, <2>3, ChainDistinct
    <2> QED
      BY <2>1, <2>3, <2>4
  <1>a. ASSUME NEW k \in 1..9, k > i, Chain[k] \notin Skipped PROVE k \in later
    <2>1. k \in 1..Len(Chain) /\ i \in 1..(k - 1)
      BY <1>a, ChainAt
    <2> QED
      BY <1>a, <2>1
  <1>5. pc' = Chain[CHOOSE k \in later : \A j \in later : k <= j]
    BY DEF Goto
  <1>6. IsWellFoundedOn(R, Nat)
    BY NatLessThanWellFounded DEF OpToRel
  <1> HIDE DEF later
  <1>7. PICK m \in later : \A j \in later : ~(<<j, m>> \in R)
    <2> HIDE DEF R
    <2> QED
      BY <1>3, <1>6, WFMin
  <1>8. ASSUME NEW j \in later PROVE m <= j
    <2>1. j \in Nat /\ m \in Nat /\ ~(<<j, m>> \in R)
      BY <1>3, <1>7
    <2> QED
      BY <2>1
  <1>9. PICK n : n = CHOOSE k \in later : \A j \in later : k <= j
    OBVIOUS
  <1>10. n \in later /\ \A j \in later : n <= j
    BY <1>8, <1>9
  <1> QED
    BY <1>4, <1>5, <1>9, <1>10, <1>a

(* A link that calls adds to what later links may have behind them. *)
LEMMA BeforeGrows ==
    ASSUME NEW p \in 1..9, NEW q \in 1..9, q > p
    PROVE  /\ Before[p] \in 0..6 /\ Before[q] \in 0..6 /\ Before[p] <= Before[q]
           /\ p \notin {3, 8} => Before[p] + 1 <= Before[q]
  <1>1. /\ Before[1] = 0 /\ Before[2] = 1 /\ Before[3] = 2 /\ Before[4] = 2 /\ Before[5] = 3
        /\ Before[6] = 4 /\ Before[7] = 5 /\ Before[8] = 6 /\ Before[9] = 6
    BY DEF Before
  <1>2. p \in {1, 2, 3, 4, 5, 6, 7, 8, 9} /\ q \in {1, 2, 3, 4, 5, 6, 7, 8, 9}
    OBVIOUS
  <1> QED
    BY <1>1, <1>2

(* What a call adds to the history. *)
Called == [link : {Chain[i] : i \in 1..Len(Chain)}, handle : {"none", "own", "blank"}]

LEMMA CallAdds ==
    ASSUME TypeOK, NEW link \in {Chain[i] : i \in 1..Len(Chain)}, call(link)
    PROVE  /\ calls' \in Seq(Called) /\ Len(calls') = Len(calls) + 1 /\ Len(calls) \in Nat
           /\ \A i \in 1..Len(calls) : calls'[i] = calls[i]
           /\ calls'[Len(calls) + 1].link = link /\ calls'[Len(calls) + 1].handle = handle
           /\ \A i \in 1..Len(calls') : i \in 1..Len(calls) \/ i = Len(calls) + 1
  <1> DEFINE c == [link |-> link, handle |-> handle]
  <1>1. calls \in Seq(Called) /\ c \in Called /\ calls' = Append(calls, c)
    BY DEF TypeOK, Called, call
  <1>2. c.link = link /\ c.handle = handle
    OBVIOUS
  <1> HIDE DEF c
  <1> QED
    BY <1>1, <1>2

LEMMA InitChain == Init => ChainInv
  <1> SUFFICES ASSUME Init PROVE ChainInv
    OBVIOUS
  <1>1. calls = <<>> /\ Len(calls) = 0 /\ pc = Chain[1] /\ pc = "status" /\ attached = FALSE
        /\ remote = "none" /\ broken = {} /\ told = "nothing"
    BY ChainAt DEF Init
  <1>2. TypeOK
    <2>1. calls \in Seq([link : {Chain[i] : i \in 1..Len(Chain)}, handle : {"none", "own", "blank"}])
      BY <1>1
    <2>2. pc \in {Chain[i] : i \in 1..Len(Chain)} /\ Len(calls) < Len(Chain) - 1
      BY <1>1, ChainAt
    <2> QED
      BY <2>1, <2>2 DEF Init, TypeOK
  <1>3. PlaceInv
    <2>1. Len(calls) <= Before[1]
      BY <1>1 DEF Before
    <2>2. 1 \in 1..9 /\ pc = Chain[1]
      BY <1>1
    <2>3. \E p \in 1..9 : pc = Chain[p] /\ Len(calls) <= Before[p]
      BY <2>1, <2>2, Zenon
    <2> QED
      BY <1>1, <2>3 DEF PlaceInv
  <1>4. KeepInv
    BY DEF Init, KeepInv, WillOutlive
  <1> QED
    BY <1>1, <1>2, <1>3, <1>4 DEF ChainInv, OneHandle, HonestEnd, LeftAliveOpenly

-----------------------------------------------------------------------------
(* The history of the chain, one call longer or not. *)
LEMMA Grown ==
    ASSUME ChainInv, pc # "exit", NEW link \in {Chain[i] : i \in 1..Len(Chain)},
           calls' = calls \/ call(link)
    PROVE  /\ calls' \in Seq(Called) /\ Len(calls) \in Nat /\ Len(calls') \in Nat
           /\ Len(calls') \in {Len(calls), Len(calls) + 1}
           /\ Len(calls') = Len(calls) + 1 \/ calls' = calls
           /\ \A i \in 1..Len(calls') :
                \/ i \in 1..Len(calls) /\ calls'[i] = calls[i] /\ calls'[i].link # "end"
                \/ i = Len(calls) + 1 /\ calls'[i].link = link /\ calls'[i].handle = handle
  <1>1. calls \in Seq(Called) /\ Len(calls) \in Nat
    BY DEF ChainInv, TypeOK, Called
  <1>2. \A i \in 1..Len(calls) : calls[i].link # "end"
    BY DEF ChainInv, PlaceInv
  <1>3. CASE calls' = calls
    BY <1>1, <1>2, <1>3
  <1>4. CASE call(link)
    BY <1>1, <1>2, <1>4, CallAdds DEF ChainInv
  <1> QED
    BY <1>3, <1>4

(* From a link after the first two to the next. *)
LEMMA Moves ==
    ASSUME ChainInv, NEW p \in 3..8, pc = Chain[p], Goto(Chain[p]),
           \/ p \in {3, 8} /\ calls' = calls
           \/ p \notin {3, 8} /\ call(Chain[p]),
           UNCHANGED <<flags, handle, told, remote, immortal>>,
           broken' = broken \/ Breaks(Chain[p]),
           \/ UNCHANGED <<keep, attached>>
           \/ p = 8 /\ keep' = TRUE /\ attached' \in BOOLEAN
    PROVE  ChainInv'
  <1>1. PICK q \in 1..9 : q > p /\ pc' = Chain[q] /\ Chain[q] \notin Skipped
    BY GotoNext
  <1>2. /\ pc \notin {"exit", "status", "create", "end"}
        /\ pc' \notin {"exit", "status", "create"}
    <2>1. q \notin {1, 2} /\ p \in 1..9 /\ p \notin {1, 2, 9}
      BY <1>1
    <2> QED
      BY <1>1, <2>1, ChainAt, ChainDistinct
  <1>3. /\ \E r \in 1..9 : pc = Chain[r] /\ Len(calls) <= Before[r]
        /\ Len(calls) >= 2 /\ handle # "none" /\ (pc = "inspector" => flags.inspector)
    BY <1>2 DEF ChainInv, PlaceInv
  <1>4. Len(calls) <= Before[p] /\ Before[p] \in 0..6 /\ Before[q] \in 0..6
        /\ Before[p] <= Before[q] /\ (p \notin {3, 8} => Before[p] + 1 <= Before[q])
    <2>1. p \in 1..9
      OBVIOUS
    <2> QED
      BY <1>1, <1>3, <2>1, ChainDistinct, BeforeGrows
  <1>5. Chain[p] \in {Chain[i] : i \in 1..Len(Chain)} /\ Chain[q] \in {Chain[i] : i \in 1..Len(Chain)}
    <2>1. p \in 1..Len(Chain) /\ q \in 1..Len(Chain)
      BY ChainAt
    <2> QED
      BY <2>1
  <1>6. /\ calls' \in Seq(Called) /\ Len(calls) \in Nat /\ Len(calls') \in Nat
        /\ Len(calls') \in {Len(calls), Len(calls) + 1}
        /\ Len(calls') = Len(calls) + 1 \/ calls' = calls
        /\ \A i \in 1..Len(calls') :
             \/ i \in 1..Len(calls) /\ calls'[i] = calls[i] /\ calls'[i].link # "end"
             \/ i = Len(calls) + 1 /\ calls'[i].link = Chain[p] /\ calls'[i].handle = handle
    BY <1>2, <1>5, Grown
  <1>7. Len(calls') <= Before[q] /\ Len(calls') >= 2
    <2> DEFINE n == Len(calls)
               m == Len(calls')
               x == Before[p]
               y == Before[q]
    <2>1. n \in Nat /\ n >= 2 /\ n <= x /\ x \in 0..6 /\ y \in 0..6 /\ x <= y
      BY <1>3, <1>4, <1>6
    <2>2. m = n \/ (m = n + 1 /\ x + 1 <= y)
      <3>1. p \in {3, 8} => m = n
        OBVIOUS
      <3> QED
        BY <1>4, <1>6, <3>1
    <2> HIDE DEF n, m, x, y
    <2>3. m <= y /\ m >= 2
      BY <2>1, <2>2
    <2> QED
      BY <2>3 DEF m, y
  <1>8. \A i \in 1..Len(calls') : calls'[i].link # "end"
    BY <1>2, <1>6
  <1>b. /\ broken' \subseteq {Chain[i] : i \in 1..Len(Chain)}
        /\ broken' \cap {"status", "create", "end"} = {} /\ told' = "nothing"
    <2>1. /\ broken \subseteq {Chain[i] : i \in 1..Len(Chain)}
          /\ broken \cap {"status", "create", "end"} = {} /\ told = "nothing"
      BY <1>2 DEF ChainInv, TypeOK, PlaceInv
    <2>2. broken' \subseteq broken \cup {pc}
      BY DEF Breaks
    <2> QED
      BY <1>2, <1>5, <2>1, <2>2
  <1>9. TypeOK'
    <2>1. Len(calls') < Len(Chain) - 1
      BY <1>4, <1>7, ChainAt
    <2>2. /\ pc' \in {Chain[i] : i \in 1..Len(Chain)} \cup {"exit"}
          /\ keep' \in BOOLEAN /\ attached' \in BOOLEAN
      BY <1>1, <1>5 DEF ChainInv, TypeOK
    <2> QED
      BY <1>6, <1>b, <2>1, <2>2 DEF ChainInv, TypeOK, Called
  <1>10. PlaceInv'
    <2>1. pc' = "inspector" => flags.inspector
      BY <1>1 DEF Skipped
    <2>2. \E r \in 1..9 : pc' = Chain[r] /\ Len(calls') <= Before[r]
      BY <1>1, <1>7
    <2> QED
      BY <1>2, <1>3, <1>7, <1>8, <1>b, <2>1, <2>2 DEF PlaceInv
  <1>11. KeepInv'
    <2>1. p = 8 => flags.inspector
      BY <1>3, ChainAt
    <2> QED
      BY <1>2, <2>1 DEF ChainInv, KeepInv, WillOutlive
  <1>12. OneHandle'
    <2> SUFFICES ASSUME NEW i \in 1..Len(calls')
                 PROVE  /\ calls'[i].link \in {"status", "create"} <=> i <= 2
                        /\ i > 2 => calls'[i].handle = handle /\ handle # "none"
      BY <1>8 DEF OneHandle
    <2>1. CASE i \in 1..Len(calls) /\ calls'[i] = calls[i]
      BY <1>3, <2>1 DEF ChainInv, OneHandle
    <2>2. CASE i = Len(calls) + 1 /\ calls'[i].link = Chain[p] /\ calls'[i].handle = handle
      <3>1. i > 2 /\ ~(i <= 2)
        BY <1>3, <1>6, <2>2
      <3>2. calls'[i].link \notin {"status", "create"}
        BY <1>2, <2>2
      <3> QED
        BY <1>3, <2>2, <3>1, <3>2
    <2> QED
      BY <1>6, <2>1, <2>2
  <1>13. LeftAliveOpenly'
    BY <1>2, <1>8 DEF LeftAliveOpenly
  <1> QED
    BY <1>2, <1>b, <1>9, <1>10, <1>11, <1>12, <1>13 DEF ChainInv, HonestEnd

(* The chain ends, with a last call or without. *)
LEMMA Ends ==
    ASSUME ChainInv, pc # "exit", pc' = "exit", NEW link \in {Chain[i] : i \in 1..Len(Chain)},
           calls' = calls \/ (call(link) /\ pc = link),
           UNCHANGED <<flags, keep, handle, attached>>,
           broken' \subseteq {Chain[i] : i \in 1..Len(Chain)}, HonestEnd',
           told' \in {"not_ready", "create_failed", "left_alive", "deleted", "delete_failed"},
           remote' \in {"none", "alive", "ended"} /\ immortal' \in BOOLEAN,
           remote' = "alive" => immortal' = WillOutlive,
           link = "end" /\ calls' # calls => ~attached,
           remote' = "alive" => \/ told' = "left_alive" /\ keep
                                \/ told' \in {"create_failed", "delete_failed"}
    PROVE  ChainInv'
  <1>1. PICK p \in 1..9 : pc = Chain[p] /\ Len(calls) <= Before[p]
    BY DEF ChainInv, PlaceInv
  <1>2. Before[p] \in 0..6
    <2>1. p < 9 \/ p > 1
      BY <1>1
    <2> QED
      BY <2>1, BeforeGrows
  <1>3. /\ calls' \in Seq(Called) /\ Len(calls) \in Nat /\ Len(calls') \in Nat
        /\ Len(calls') \in {Len(calls), Len(calls) + 1}
        /\ Len(calls') = Len(calls) + 1 \/ calls' = calls
        /\ \A i \in 1..Len(calls') :
             \/ i \in 1..Len(calls) /\ calls'[i] = calls[i] /\ calls'[i].link # "end"
             \/ i = Len(calls) + 1 /\ calls'[i].link = link /\ calls'[i].handle = handle
    BY Grown
  <1>4. TypeOK'
    <2>1. Len(calls') < Len(Chain) - 1
      BY <1>1, <1>2, <1>3, ChainAt
    <2> QED
      BY <1>3, <2>1 DEF ChainInv, TypeOK, Called
  <1>5. PlaceInv'
    BY DEF PlaceInv
  <1>6. KeepInv'
    BY DEF ChainInv, KeepInv, WillOutlive
  <1>7. OneHandle'
    <2> SUFFICES ASSUME NEW i \in 1..Len(calls')
                 PROVE  /\ calls'[i].link \in {"status", "create"} <=> i <= 2
                        /\ i > 2 => calls'[i].handle = handle /\ handle # "none"
                        /\ calls'[i].link = "end" => i = Len(calls')
      BY DEF OneHandle
    <2>1. CASE i \in 1..Len(calls) /\ calls'[i] = calls[i] /\ calls'[i].link # "end"
      BY <2>1 DEF ChainInv, OneHandle
    <2>2. CASE i = Len(calls) + 1 /\ calls'[i].link = link /\ calls'[i].handle = handle
      <3>1. pc = link /\ Len(calls') = Len(calls) + 1
        BY <1>3, <2>2
      <3>2. /\ pc = "status" => Len(calls) = 0
            /\ pc = "create" => Len(calls) = 1
            /\ pc \notin {"status", "create"} => Len(calls) >= 2 /\ handle # "none"
        BY DEF ChainInv, PlaceInv
      <3> QED
        BY <1>3, <2>2, <3>1, <3>2
    <2> QED
      BY <1>3, <2>1, <2>2
  <1>8. LeftAliveOpenly'
    <2>1. attached => \A i \in 1..Len(calls') : calls'[i].link # "end"
      BY <1>3
    <2>2. keep => WillOutlive
      BY DEF ChainInv, KeepInv
    <2> QED
      BY <2>1, <2>2 DEF LeftAliveOpenly
  <1> QED
    BY <1>4, <1>5, <1>6, <1>7, <1>8 DEF ChainInv

(* The status was ready: the next link creates the session. *)
LEMMA GoesToCreate ==
    ASSUME ChainInv, Status, Goto("status"), UNCHANGED <<broken, told>> PROVE ChainInv'
  <1>1. /\ pc = "status" /\ call("status")
        /\ UNCHANGED <<flags, keep, handle, broken, told, attached, remote, immortal>>
    BY DEF Status, call
  <1>b. broken' \cap {"status", "create", "end"} = {} /\ told' = "nothing"
    BY <1>1 DEF ChainInv, PlaceInv
  <1>2. pc' = "create"
    <2>1. PICK k \in 1..9 : /\ k > 1 /\ pc' = Chain[k]
                            /\ \A j \in 1..9 : j > 1 /\ Chain[j] \notin Skipped => k <= j
      BY ChainAt, GotoNext
    <2>2. 2 \in 1..9 /\ Chain[2] \notin Skipped
      BY ChainAt DEF Skipped
    <2>3. k = 2
      BY <2>1, <2>2
    <2> QED
      BY <2>1, <2>3, ChainAt
  <1>3. Len(calls) = 0
    BY <1>1 DEF ChainInv, PlaceInv
  <1>4. "status" \in {Chain[i] : i \in 1..Len(Chain)} /\ "create" \in {Chain[i] : i \in 1..Len(Chain)}
    <2>1. 1 \in 1..Len(Chain) /\ 2 \in 1..Len(Chain)
      BY ChainAt
    <2> QED
      BY <2>1, ChainAt
  <1>5. /\ calls' \in Seq(Called) /\ Len(calls') = 1 /\ calls'[1].link = "status"
    BY <1>1, <1>3, <1>4, CallAdds DEF ChainInv
  <1>6. TypeOK'
    BY <1>1, <1>2, <1>4, <1>5, ChainAt DEF ChainInv, TypeOK, Called
  <1>7. PlaceInv'
    <2>1. Before[2] = 1
      BY DEF Before
    <2>2. 2 \in 1..9 /\ pc' = Chain[2] /\ Len(calls') <= Before[2]
      BY <1>2, <1>5, <2>1, ChainAt
    <2>3. \E r \in 1..9 : pc' = Chain[r] /\ Len(calls') <= Before[r]
      BY <2>2, Zenon
    <2>4. \A n \in 1..Len(calls') : calls'[n].link # "end"
      BY <1>5
    <2> QED
      BY <1>2, <1>5, <1>b, <2>3, <2>4 DEF PlaceInv
  <1>8. KeepInv' /\ OneHandle' /\ HonestEnd' /\ LeftAliveOpenly'
    BY <1>1, <1>2, <1>5, <1>b
    DEF ChainInv, KeepInv, WillOutlive, OneHandle, HonestEnd, LeftAliveOpenly
  <1> QED
    BY <1>6, <1>7, <1>8 DEF ChainInv

(* The hub answered with a session, which is the handle from here on. *)
LEMMA GetsHandle == ASSUME ChainInv, Created PROVE ChainInv'
  <1>1. /\ pc = "create" /\ call("create") /\ Goto("create") /\ handle' \in {"own", "blank"}
        /\ remote' = "alive" /\ immortal' = WillOutlive /\ UNCHANGED <<flags, keep, broken, told, attached>>
    BY DEF Created, HubCreates, call
  <1>b. broken' \cap {"status", "create", "end"} = {} /\ told' = "nothing"
    BY <1>1 DEF ChainInv, PlaceInv
  <1>2. PICK k \in 1..9 : k > 2 /\ pc' = Chain[k] /\ Chain[k] \notin Skipped
    BY <1>1, ChainAt, GotoNext
  <1>3. pc' \notin {"exit", "status", "create"}
    <2>1. k \notin {1, 2}
      BY <1>2
    <2> QED
      BY <1>2, <2>1, ChainAt, ChainDistinct
  <1>4. Len(calls) = 1 /\ \A n \in 1..Len(calls) : calls[n].link # "end"
    BY <1>1 DEF ChainInv, PlaceInv
  <1>5. "create" \in {Chain[i] : i \in 1..Len(Chain)} /\ Chain[k] \in {Chain[i] : i \in 1..Len(Chain)}
    <2>1. 2 \in 1..Len(Chain) /\ k \in 1..Len(Chain)
      BY ChainAt
    <2> QED
      BY <2>1, ChainAt
  <1>6. /\ calls' \in Seq(Called) /\ Len(calls') = 2 /\ calls'[1] = calls[1]
        /\ calls'[2].link = "create"
    BY <1>1, <1>4, <1>5, CallAdds DEF ChainInv
  <1>7. calls[1].link \in {"status", "create"}
    BY <1>4 DEF ChainInv, OneHandle
  <1>8. \A n \in 1..Len(calls') : n <= 2 /\ calls'[n].link \in {"status", "create"}
    <2>1. \A n \in 1..2 : n = 1 \/ n = 2
      OBVIOUS
    <2> QED
      BY <1>6, <1>7, <2>1
  <1>9. WillOutlive \in BOOLEAN
    BY DEF WillOutlive, ChainInv, TypeOK
  <1>10. TypeOK'
    BY <1>1, <1>2, <1>5, <1>6, <1>9, ChainAt DEF ChainInv, TypeOK, Called
  <1>11. PlaceInv'
    <2>1. Len(calls') <= Before[k]
      <3>1. Before[2] + 1 <= Before[k] /\ Before[2] = 1
        BY <1>2, BeforeGrows DEF Before
      <3>2. Before[k] \in 0..6
        BY <1>2, BeforeGrows
      <3> QED
        BY <1>6, <3>1, <3>2
    <2>2. pc' = "inspector" => flags.inspector
      BY <1>2 DEF Skipped
    <2>3. \E r \in 1..9 : pc' = Chain[r] /\ Len(calls') <= Before[r]
      BY <1>2, <2>1
    <2> QED
      BY <1>1, <1>3, <1>6, <1>8, <1>b, <2>2, <2>3 DEF PlaceInv
  <1>12. KeepInv'
    BY <1>1, <1>3 DEF ChainInv, KeepInv, WillOutlive
  <1>13. OneHandle' /\ HonestEnd' /\ LeftAliveOpenly'
    BY <1>3, <1>8, <1>b DEF OneHandle, HonestEnd, LeftAliveOpenly
  <1> QED
    BY <1>10, <1>11, <1>12, <1>13 DEF ChainInv

LEMMA NextChain == ASSUME ChainInv, [Next]_vars PROVE ChainInv'
  <1>1. CASE UNCHANGED vars
    BY <1>1 DEF vars, ChainInv, TypeOK, PlaceInv, KeepInv, WillOutlive, OneHandle,
                HonestEnd, LeftAliveOpenly
  <1>2. CASE SessionDies \/ SessionIdlesOut
    <2>1. /\ remote = "alive" /\ remote' = "ended"
          /\ UNCHANGED <<flags, pc, keep, handle, calls, broken, told, attached, immortal>>
      BY <1>2 DEF SessionDies, SessionIdlesOut
    <2>2. TypeOK'
      BY <2>1 DEF ChainInv, TypeOK
    <2>3. PlaceInv' /\ OneHandle' /\ HonestEnd'
      BY <2>1 DEF ChainInv, PlaceInv, OneHandle, HonestEnd
    <2>4. KeepInv' /\ LeftAliveOpenly'
      BY <2>1 DEF ChainInv, KeepInv, WillOutlive, LeftAliveOpenly
    <2> QED
      BY <2>2, <2>3, <2>4 DEF ChainInv
  <1>a. {"status", "create", "end"} \subseteq {Chain[i] : i \in 1..Len(Chain)}
    <2>1. 1 \in 1..Len(Chain) /\ 2 \in 1..Len(Chain) /\ 9 \in 1..Len(Chain)
      BY ChainAt
    <2> QED
      BY <2>1, ChainAt
  <1>b. /\ told \in {"nothing", "not_ready", "create_failed", "left_alive", "deleted", "delete_failed"}
        /\ remote \in {"none", "alive", "ended"} /\ immortal \in BOOLEAN /\ WillOutlive \in BOOLEAN
        /\ attached \in BOOLEAN /\ keep \in BOOLEAN
        /\ broken \subseteq {Chain[i] : i \in 1..Len(Chain)}
    BY DEF ChainInv, TypeOK, WillOutlive
  <1>c. /\ pc \in {"status", "create"} => remote = "none"
        /\ remote = "alive" => immortal = WillOutlive
        /\ attached => keep
    BY DEF ChainInv, KeepInv
  <1>d. pc # "exit" => broken \cap {"status", "create", "end"} = {} /\ told = "nothing"
    BY DEF ChainInv, PlaceInv
  <1>3. CASE Status
    <2>1. CASE Goto("status") /\ UNCHANGED <<broken, told>>
      BY <1>3, <2>1, GoesToCreate
    <2>2. CASE Breaks("status") /\ Exit("not_ready")
      <3>1. /\ pc = "status" /\ call("status") /\ pc' = "exit" /\ told' = "not_ready"
            /\ UNCHANGED <<flags, keep, handle, attached, remote, immortal>>
            /\ broken' = broken \cup {"status"}
        BY <1>3, <2>2 DEF Status, call, Exit, Breaks
      <3>2. HonestEnd' /\ broken' \subseteq {Chain[i] : i \in 1..Len(Chain)}
        BY <1>a, <1>b, <3>1 DEF HonestEnd
      <3> QED
        BY <1>a, <1>b, <1>c, <3>1, <3>2, Ends
    <2> QED
      BY <1>3, <2>1, <2>2 DEF Status
  <1>4. CASE Created
    BY <1>4, GetsHandle
  <1>5. CASE CreateFails
    <2>1. /\ pc = "create" /\ call("create") /\ pc' = "exit" /\ told' = "create_failed"
          /\ UNCHANGED <<flags, keep, handle, attached>>
          /\ (remote' = "alive" /\ immortal' = WillOutlive) \/ UNCHANGED <<remote, immortal>>
          /\ broken' = broken \cup {"create"}
      BY <1>5 DEF CreateFails, call, Exit, HubCreates, Breaks
    <2>2. HonestEnd' /\ broken' \subseteq {Chain[i] : i \in 1..Len(Chain)}
      BY <1>a, <1>b, <2>1 DEF HonestEnd
    <2> QED
      BY <1>a, <1>b, <1>c, <2>1, <2>2, Ends
  <1>6. CASE Forward \/ LaunchFails \/ Launch
    <2>1. PICK p \in {3, 8} :
             /\ pc = Chain[p] /\ Goto(Chain[p]) /\ calls' = calls
             /\ UNCHANGED <<flags, handle, told, remote, immortal>>
             /\ broken' = broken \/ Breaks(Chain[p])
             /\ UNCHANGED <<keep, attached>> \/ (p = 8 /\ keep' = TRUE /\ attached' \in BOOLEAN)
      BY <1>6, ChainAt DEF Forward, LaunchFails, Launch
    <2>2. p \in 3..8
      OBVIOUS
    <2> QED
      BY <2>1, <2>2, Moves
  <1>7. ASSUME NEW link \in Acts, Act(link) PROVE ChainInv'
    <2>1. PICK p \in {4, 5, 6, 7} : link = Chain[p]
      BY ChainAt DEF Acts
    <2>2. p \in 3..8 /\ p \notin {3, 8}
      OBVIOUS
    <2>3. /\ pc = Chain[p] /\ Goto(Chain[p]) /\ call(Chain[p])
          /\ UNCHANGED <<flags, keep, handle, told, attached, remote, immortal>>
          /\ broken' = broken \/ Breaks(Chain[p])
      BY <1>7, <2>1 DEF Act, call
    <2> QED
      BY <2>2, <2>3, Moves
  <1>8. CASE Keep
    <2>1. /\ pc = "end" /\ keep /\ pc' = "exit" /\ told' = "left_alive"
          /\ UNCHANGED <<flags, keep, handle, calls, broken, attached, remote, immortal>>
      BY <1>8 DEF Keep, Exit
    <2>2. HonestEnd' /\ broken' \subseteq {Chain[i] : i \in 1..Len(Chain)}
      BY <1>b, <1>d, <2>1 DEF HonestEnd
    <2> QED
      BY <1>a, <1>b, <1>c, <2>1, <2>2, Ends
  <1>9. CASE Delete \/ DeleteFails
    <2>1. /\ pc = "end" /\ ~keep /\ call("end") /\ pc' = "exit"
          /\ UNCHANGED <<flags, keep, handle, attached, immortal>>
          /\ \/ told' = "deleted" /\ remote' = "ended" /\ handle = "own" /\ broken' = broken
             \/ /\ told' = "delete_failed" /\ remote' \in {remote, "ended"}
                /\ broken' = broken \cup {"end"}
      BY <1>9 DEF Delete, DeleteFails, call, Exit, Breaks
    <2>2. HonestEnd' /\ broken' \subseteq {Chain[i] : i \in 1..Len(Chain)}
      BY <1>a, <1>b, <1>d, <2>1 DEF HonestEnd
    <2> QED
      BY <1>a, <1>b, <1>c, <2>1, <2>2, Ends
  <1>10. CASE Terminated
    BY <1>1, <1>10 DEF Terminated
  <1> QED
    BY <1>1, <1>2, <1>3, <1>4, <1>5, <1>6, <1>7, <1>8, <1>9, <1>10 DEF Next, Link

(* The invariant of the chain. *)
THEOREM ChainInvariant == FairSpec => []ChainInv
  BY InitChain, NextChain, PTL DEF FairSpec

(* Every variable of the chain has its type, and the chain makes no more      *)
(* calls than it has links that call.                                         *)
THEOREM ChainTypeCorrect == FairSpec => []TypeOK
  <1>1. ChainInv => TypeOK
    BY DEF ChainInv
  <1> QED
    BY <1>1, ChainInvariant, PTL

(* "The session id returned by one call must thread through every later       *)
(* call": the handle its answer had does, and after a DELETE there is none;   *)
(* the exit code is 1 exactly when the status or the creation broke.          *)
THEOREM ChainHandleThreads == FairSpec => []HandleThreads
  <1>1. ChainInv => HandleThreads
    BY DEF ChainInv, HandleThreads
  <1> QED
    BY <1>1, ChainInvariant, PTL

(* What a finished chain leaves behind its user was told of, and what an      *)
(* inspector is attached to was not deleted.                                  *)
THEOREM ChainLeftAliveOpenly == FairSpec => []LeftAliveOpenly
  <1>1. ChainInv => LeftAliveOpenly
    BY DEF ChainInv
  <1> QED
    BY <1>1, ChainInvariant, PTL
=============================================================================
