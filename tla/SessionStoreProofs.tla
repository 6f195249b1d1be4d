------------------------- MODULE SessionStoreProofs -------------------------
(* Proofs about SessionStore, for any number of sessions.                     *)
EXTENDS SessionStore, TLAPS

(* What happened to an object happened after it was added. *)
Ordered ==
    /\ deleted = deleting \cup cancelled
    /\ \A o \in deleted : sup[o] # "none"

Supervised == TypeOK /\ Ordered /\ EntrySupervised

(* The store New makes satisfies the invariant.                               *)
LEMMA InitSupervised == Init => Supervised
  BY IdOfType, NoneType DEF Init, Supervised, TypeOK, Ordered, EntrySupervised, List, Get

(* EntrySupervised, without the set that List builds. *)
LEMMA EntryForm ==
    ASSUME TypeOK
    PROVE  EntrySupervised <=>
             \A i \in Ids : sessions[i] # None =>
                sup[sessions[i]] \in Running /\ sessions[i] \notin deleting \cup cancelled
  BY DEF TypeOK, EntrySupervised, List, Get

(* Every operation of the store and every step of supervise keeps the types.  *)
LEMMA NextTypeOK == ASSUME TypeOK, [Next]_vars PROVE TypeOK'
  <1> USE IdOfType, NoneType DEF TypeOK, Running, Goto
  <1>1. ASSUME NEW o \in Objs, Add(o) PROVE TypeOK'
    BY <1>1 DEF Add
  <1>2. ASSUME NEW o \in Objs, Cancel(o) PROVE TypeOK'
    BY <1>2 DEF Cancel
  <1>3. ASSUME NEW o \in Objs, Go(o) \/ Stop(o) \/ Tick(o) \/ ProbeAlive(o) \/ ProbeDead(o)
        PROVE  TypeOK'
    BY <1>3 DEF Go, Stop, Tick, ProbeAlive, ProbeDead
  <1>4. ASSUME NEW o \in Objs, mark(o) PROVE TypeOK'
    BY <1>4 DEF mark
  <1>5. ASSUME NEW o \in Objs, reap(o) PROVE TypeOK'
    BY <1>5 DEF reap
  <1>6. ASSUME NEW o \in Objs, OnDeath(o) PROVE TypeOK'
    BY <1>6 DEF OnDeath
  <1>7. ASSUME NEW i \in Ids, Delete(i) PROVE TypeOK'
    BY <1>7 DEF Delete
  <1>8. ASSUME NEW i \in Ids, RemoteEnds(i) PROVE TypeOK'
    BY <1>8 DEF RemoteEnds
  <1>9. UNCHANGED vars => TypeOK'
    BY DEF vars
  <1> QED
    BY <1>1, <1>2, <1>3, <1>4, <1>5, <1>6, <1>7, <1>8, <1>9 DEF Next, Supervisor, Terminated

(* Every operation of the store and every step of supervise keeps each entry  *)
(* supervised.                                                                *)
LEMMA NextSupervised == ASSUME Supervised, [Next]_vars PROVE Supervised'
  <1> DEFINE Entries ==
        \A i \in Ids : sessions[i] # None =>
            sup[sessions[i]] \in Running /\ sessions[i] \notin deleting \cup cancelled
  <1>1. TypeOK /\ TypeOK' /\ Ordered /\ Entries
    BY NextTypeOK, EntryForm DEF Supervised
  <1>2. Ordered' /\ Entries'
    <2> USE <1>1, IdOfType, NoneType DEF TypeOK, Ordered, Running, Goto
    <2>1. ASSUME NEW o \in Objs, Add(o) PROVE Ordered' /\ Entries'
      BY <2>1 DEF Add
    <2>2. ASSUME NEW o \in Objs, Cancel(o) PROVE Ordered' /\ Entries'
      BY <2>2 DEF Cancel
    <2>3. ASSUME NEW o \in Objs, Go(o) \/ Tick(o) \/ ProbeAlive(o) \/ ProbeDead(o)
          PROVE  Ordered' /\ Entries'
      BY <2>3 DEF Go, Tick, ProbeAlive, ProbeDead
    <2>4. ASSUME NEW o \in Objs, Stop(o) PROVE Ordered' /\ Entries'
      BY <2>4 DEF Stop
    <2>5. ASSUME NEW o \in Objs, mark(o) PROVE Ordered' /\ Entries'
      BY <2>5 DEF mark
    <2>6. ASSUME NEW o \in Objs, reap(o) PROVE Ordered' /\ Entries'
      BY <2>6 DEF reap
    <2>7. ASSUME NEW o \in Objs, OnDeath(o) PROVE Ordered' /\ Entries'
      BY <2>7 DEF OnDeath
    <2>8. ASSUME NEW i \in Ids, Delete(i) PROVE Ordered' /\ Entries'
      BY <2>8 DEF Delete
    <2>9. ASSUME NEW i \in Ids, RemoteEnds(i) PROVE Ordered' /\ Entries'
      BY <2>9 DEF RemoteEnds
    <2>10. UNCHANGED vars => Ordered' /\ Entries'
      BY DEF vars
    <2> QED
      BY <2>1, <2>2, <2>3, <2>4, <2>5, <2>6, <2>7, <2>8, <2>9, <2>10
         DEF Next, Supervisor, Terminated
  <1>3. EntrySupervised'
    BY <1>1, <1>2 DEF TypeOK, EntrySupervised, List, Get
  <1> QED
    BY <1>1, <1>2, <1>3 DEF Supervised

-----------------------------------------------------------------------------
(* Sessions that have an id of their own *)

(* Where an object stands: not added yet, in the map with a supervisor at     *)
(* work, deleted, or reaped and (about to be) reported.                       *)
Fresh(o)  == sup[o] = "none" /\ ~Tracked(o) /\ o \notin deleted /\ deaths[o] = 0
Watched(o) == sup[o] \in Running /\ Tracked(o) /\ o \notin deleted /\ deaths[o] = 0
Dropped(o) == sup[o] \in Running \cup {"done"} /\ ~Tracked(o) /\ o \in deleted /\ deaths[o] = 0
Reaped(o) ==
    /\ ~Tracked(o) /\ o \notin deleted
    /\ \/ sup[o] = "report" /\ deaths[o] = 0
       \/ sup[o] = "done" /\ deaths[o] = 1

Placed == \A o \in Objs : Sole(o) => Fresh(o) \/ Watched(o) \/ Dropped(o) \/ Reaped(o)

(* The store New makes satisfies the invariant on exits.                      *)
LEMMA InitPlaced == Init => Placed
  BY IdOfType, NoneType DEF Init, Placed, Fresh, Tracked

(* Every step keeps each session with an id of its own in the store, or       *)
(* accounted for by exactly one exit.                                         *)
LEMMA NextPlaced == ASSUME Supervised, Placed, [Next]_vars PROVE Placed'
  <1> USE IdOfType, NoneType DEF Supervised, TypeOK, Ordered, Placed, Fresh, Watched, Dropped,
          Reaped, Tracked, Running, Goto, Sole
  <1>1. ASSUME NEW o \in Objs, Add(o) PROVE Placed'
    BY <1>1 DEF Add
  <1>2. ASSUME NEW o \in Objs, Cancel(o) PROVE Placed'
    BY <1>2 DEF Cancel
  <1>3. ASSUME NEW o \in Objs, Go(o) \/ Tick(o) \/ ProbeAlive(o) \/ ProbeDead(o)
        PROVE  Placed'
    BY <1>3 DEF Go, Tick, ProbeAlive, ProbeDead
  <1>4. ASSUME NEW o \in Objs, Stop(o) PROVE Placed'
    BY <1>4 DEF Stop
  <1>5. ASSUME NEW o \in Objs, mark(o) PROVE Placed'
    BY <1>5 DEF mark
  <1>6. ASSUME NEW o \in Objs, reap(o) PROVE Placed'
    <2>1. \A p \in Objs \ {o} : Sole(p) => /\ sup'[p] = sup[p]
                                           /\ sessions'[IdOf[p]] = sessions[IdOf[p]]
                                           /\ deleted' = deleted /\ deaths' = deaths
      BY <1>6 DEF reap
    <2>2. \A p \in Objs \ {o} : Sole(p) => (Fresh(p) \/ Watched(p) \/ Dropped(p) \/ Reaped(p))'
      BY <2>1
    <2>3. CASE Sole(o) /\ sessions[IdOf[o]] # None
      <3>1. Watched(o)
        BY <1>6, <2>3 DEF reap
      <3>2. Reaped(o)'
        BY <1>6, <2>3, <3>1 DEF reap
      <3> QED
        BY <2>2, <3>2
    <2>4. CASE Sole(o) /\ sessions[IdOf[o]] = None
      <3>1. Dropped(o)
        BY <1>6, <2>4 DEF reap
      <3>2. Dropped(o)'
        BY <1>6, <2>4, <3>1 DEF reap
      <3> QED
        BY <2>2, <3>2
    <2> QED
      BY <2>2, <2>3, <2>4
  <1>7. ASSUME NEW o \in Objs, OnDeath(o) PROVE Placed'
    BY <1>7 DEF OnDeath
  <1>8. ASSUME NEW i \in Ids, Delete(i) PROVE Placed'
    BY <1>8 DEF Delete
  <1>9. UNCHANGED <<sessions, sup, deleted, deaths>> => Placed'
    OBVIOUS
  <1> QED
    BY <1>1, <1>2, <1>3, <1>4, <1>5, <1>6, <1>7, <1>8, <1>9
       DEF Next, Supervisor, Terminated, RemoteEnds, vars

-----------------------------------------------------------------------------
(* The store keeps its types, whoever adds, deletes or dies. *)
THEOREM StoreTypeCorrect == Spec => []TypeOK
  <1>1. Init => TypeOK
    BY InitSupervised DEF Supervised
  <1> QED
    BY <1>1, NextTypeOK, PTL DEF Spec

(* Every entry is supervised in every state of the store.                     *)
LEMMA StoreSupervised == Spec => []Supervised
  BY InitSupervised, NextSupervised, PTL DEF Spec

(* Every session with an id of its own is placed in every state.              *)
LEMMA StorePlaced == Spec => []Placed
  <1>1. Supervised /\ Placed /\ [Next]_vars => Placed'
    BY NextPlaced
  <1> QED
    BY <1>1, StoreSupervised, InitPlaced, PTL DEF Spec

(* No entry of the map outlives its supervisor, even when a session is        *)
(* deleted and tracked again under its id.                                    *)
THEOREM StoreEntriesSupervised == Spec => []EntrySupervised
  <1>1. Supervised => EntrySupervised
    BY DEF Supervised
  <1> QED
    BY <1>1, StoreSupervised, PTL

(* Each session with an id of its own that is added leaves the store in       *)
(* exactly one way, by Delete or by one reported death, however Delete races  *)
(* with its supervisor.                                                       *)
THEOREM StoreOneExit == Spec => []OneExit
  <1>1. Placed => OneExit
    BY DEF Placed, Fresh, Watched, Dropped, Reaped, Running, OneExit
  <1> QED
    BY <1>1, StorePlaced, PTL

(* The converse of EntrySupervised, for an object that shares its id with no  *)
(* other: while its supervisor runs and was not cancelled, it is in the map,  *)
(* whatever happens to the sessions that are deleted and tracked again.       *)
SupervisorHasEntry ==
    \A o \in Objs : Sole(o) /\ sup[o] \in Running /\ o \notin deleting \cup cancelled
                        => Tracked(o)

(* If no other session has its id, an object whose supervisor runs and is not *)
(* cancelled is in the store.                                                 *)
THEOREM StoreSupervisorsHaveEntries == Spec => []SupervisorHasEntry
  <1>1. Supervised /\ Placed => SupervisorHasEntry
    BY DEF Supervised, Ordered, Placed, Fresh, Watched, Dropped, Reaped, Running,
       SupervisorHasEntry
  <1> QED
    BY <1>1, StoreSupervised, StorePlaced, PTL
=============================================================================
