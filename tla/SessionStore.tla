---------------------------- MODULE SessionStore ----------------------------
(* The store of internal/session/store.go: a map of tracked sessions, guarded *)
(* by s.mu, and for each session a goroutine (supervise) that probes it on a  *)
(* ticker and takes it out of the map when the probe fails.  What runs under  *)
(* s.mu is one step; the calls made after the unlock (cancel in Delete,       *)
(* OnDeath in reap) and the probe are steps of their own.                     *)
(*                                                                            *)
(* An object is a *Session given to Add; two objects may carry one id, when a *)
(* caller stops tracking a session and tracks it again.                       *)
EXTENDS Naturals, FiniteSets

CONSTANTS
    Objs,       \* the *Session values callers pass to Add, each once
    Ids,        \* WebDriver session ids
    IdOf,       \* the id of each object
    None        \* absent from the map

ASSUME IdOfType == IdOf \in [Objs -> Ids]
ASSUME NoneType == None \notin Objs

VARIABLES
    sessions,   \* the map, id -> object or None
    sup,        \* where the supervisor of each object is
    deleting,   \* objects Delete took out of the map and has yet to cancel
    cancelled,  \* objects whose context is cancelled
    gone,       \* ids whose remote session has ended
    deleted,    \* objects that Delete returned true for
    deaths      \* how often OnDeath was called for each supervisor's object

vars == <<sessions, sup, deleting, cancelled, gone, deleted, deaths>>

(* New *)
Init ==
    /\ sessions = [i \in Ids |-> None]
    /\ sup = [o \in Objs |-> "none"]
    /\ deleting = {} /\ cancelled = {} /\ gone = {} /\ deleted = {}
    /\ deaths = [o \in Objs |-> 0]

(* Get and List: copies taken under mu. *)
Get(i) == sessions[i]
List   == {Get(i) : i \in Ids} \ {None}

Goto(o, from, to) == sup[o] = from /\ sup' = [sup EXCEPT ![o] = to]

-----------------------------------------------------------------------------
(* Add: insert under mu, replacing what the id named before ... *)
Add(o) ==
    /\ Goto(o, "none", "added")
    /\ sessions' = [sessions EXCEPT ![IdOf[o]] = o]
    /\ UNCHANGED <<deleting, cancelled, gone, deleted, deaths>>

(* ... then go s.supervise(ctx, sess) *)
Go(o) ==
    /\ Goto(o, "added", "select")
    /\ UNCHANGED <<sessions, deleting, cancelled, gone, deleted, deaths>>

(* Delete of a tracked id: drop the entry under mu ... *)
Delete(i) ==
    /\ sessions[i] # None
    /\ sessions' = [sessions EXCEPT ![i] = None]
    /\ deleting' = deleting \cup {sessions[i]}
    /\ deleted' = deleted \cup {sessions[i]}
    /\ UNCHANGED <<sup, cancelled, gone, deaths>>

(* Mutant of Cancel: Delete returns without cancelling. *)
CancelForgotten(o) ==
    /\ o \in deleting
    /\ deleting' = deleting \ {o}
    /\ UNCHANGED <<sessions, sup, cancelled, gone, deleted, deaths>>

(* ... and sess.cancel() after the unlock. *)
Cancel(o) ==
    /\ o \in deleting
    /\ deleting' = deleting \ {o}
    /\ cancelled' = cancelled \cup {o}
    /\ UNCHANGED <<sessions, sup, gone, deleted, deaths>>

-----------------------------------------------------------------------------
(* supervise *)

(* select: ctx.Done(). *)
Stop(o) ==
    /\ o \in cancelled
    /\ Goto(o, "select", "done")
    /\ UNCHANGED <<sessions, deleting, cancelled, gone, deleted, deaths>>

(* select: the ticker fired; a cancelled context does not keep Go from        *)
(* choosing this case when both are ready.                                    *)
Tick(o) ==
    /\ Goto(o, "select", "probe")
    /\ UNCHANGED <<sessions, deleting, cancelled, gone, deleted, deaths>>

(* probe: GET /session/<id>/url answered 200. *)
ProbeAlive(o) ==
    /\ IdOf[o] \notin gone
    /\ Goto(o, "probe", "mark")
    /\ UNCHANGED <<sessions, deleting, cancelled, gone, deleted, deaths>>

(* probe: anything else, an ended session or a request that failed. *)
ProbeDead(o) ==
    /\ Goto(o, "probe", "reap")
    /\ UNCHANGED <<sessions, deleting, cancelled, gone, deleted, deaths>>

(* Mutant of mark: it stores the session instead of updating an entry. *)
markStores(o) ==
    /\ Goto(o, "mark", "select")
    /\ sessions' = [sessions EXCEPT ![IdOf[o]] = o]
    /\ UNCHANGED <<deleting, cancelled, gone, deleted, deaths>>

(* mark(sess.ID, true): refresh Alive and LastSeen of the entry the id names  *)
(* now, if any.  An entry is always Alive; the timestamp is left out.          *)
mark(o) ==
    /\ Goto(o, "mark", "select")
    /\ UNCHANGED <<sessions, deleting, cancelled, gone, deleted, deaths>>

(* Mutant of reap: OnDeath whether or not the entry was still there. *)
reapAlwaysReports(o) ==
    /\ Goto(o, "reap", "report")
    /\ sessions' = [sessions EXCEPT ![IdOf[o]] = None]
    /\ UNCHANGED <<deleting, cancelled, gone, deleted, deaths>>

(* reap(sess.ID): drop the entry the id names now; report it if there was one.*)
reap(o) ==
    /\ sup[o] = "reap"
    /\ \/ /\ sessions[IdOf[o]] # None
          /\ sessions' = [sessions EXCEPT ![IdOf[o]] = None]
          /\ sup' = [sup EXCEPT ![o] = "report"]
       \/ /\ sessions[IdOf[o]] = None
          /\ sup' = [sup EXCEPT ![o] = "done"]
          /\ UNCHANGED <<sessions>>
    /\ UNCHANGED <<deleting, cancelled, gone, deleted, deaths>>

(* s.OnDeath(id, reason), after the unlock *)
OnDeath(o) ==
    /\ Goto(o, "report", "done")
    /\ deaths' = [deaths EXCEPT ![o] = @ + 1]
    /\ UNCHANGED <<sessions, deleting, cancelled, gone, deleted>>

-----------------------------------------------------------------------------
(* The remote end: a driver dies, a provider ends the session. *)
RemoteEnds(i) ==
    /\ i \notin gone
    /\ gone' = gone \cup {i}
    /\ UNCHANGED <<sessions, sup, deleting, cancelled, deleted, deaths>>

(* Every object was added and every supervisor has returned. *)
Terminated ==
    /\ \A o \in Objs : sup[o] = "done" /\ o \notin deleting
    /\ gone = Ids
    /\ UNCHANGED vars

Supervisor(o) ==
    \/ Go(o) \/ Stop(o) \/ Tick(o) \/ ProbeAlive(o) \/ ProbeDead(o)
    \/ mark(o) \/ reap(o) \/ OnDeath(o)

Next ==
    \/ \E o \in Objs : Add(o) \/ Cancel(o) \/ Supervisor(o)
    \/ \E i \in Ids : Delete(i) \/ RemoteEnds(i)
    \/ Terminated

Spec == Init /\ [][Next]_vars

(* Goroutines that can run do; the ticker fires; a probe returns (the client  *)
(* has a timeout).  Go's select chooses at random among ready cases, so a     *)
(* cancelled context is not passed over for ever.                             *)
Fairness ==
    \A o \in Objs :
        /\ WF_vars(Go(o)) /\ WF_vars(Tick(o)) /\ WF_vars(ProbeAlive(o) \/ ProbeDead(o))
        /\ WF_vars(mark(o)) /\ WF_vars(reap(o)) /\ WF_vars(OnDeath(o))
        /\ WF_vars(Cancel(o)) /\ SF_vars(Stop(o))

FairSpec == Spec /\ Fairness

-----------------------------------------------------------------------------
(* Properties *)

Running == {"added", "select", "probe", "mark", "reap"}
Tracked(o) == sessions[IdOf[o]] = o
Sole(o)    == \A p \in Objs : IdOf[p] = IdOf[o] => p = o     \* tracked once

(* Every variable has its type, and the map files each object under its id.   *)
TypeOK ==
    /\ sessions \in [Ids -> Objs \cup {None}]
    /\ \A i \in Ids : sessions[i] # None => IdOf[sessions[i]] = i
    /\ sup \in [Objs -> Running \cup {"none", "report", "done"}]
    /\ deleting \subseteq Objs /\ cancelled \subseteq Objs /\ deleted \subseteq Objs
    /\ gone \subseteq Ids
    /\ deaths \in [Objs -> Nat]

(* "One goroutine per session": an object in the map has a supervisor that    *)
(* runs and that nobody has cancelled, so no entry of List outlives its watch.*)
EntrySupervised ==
    \A o \in List : sup[o] \in Running /\ o \notin deleting \cup cancelled

(* An object that shares its id with no other leaves the store in exactly one *)
(* way: Delete returned true for it, or its supervisor reaped it and reports  *)
(* its death once; whatever the order of Delete, a probe under way, and reap. *)
OneExit ==
    \A o \in Objs : Sole(o) =>
        /\ deaths[o] <= 1
        /\ sup[o] # "none" =>
              \/ Tracked(o) /\ o \notin deleted /\ sup[o] # "report" /\ deaths[o] = 0
              \/ ~Tracked(o) /\ o \in deleted /\ sup[o] # "report" /\ deaths[o] = 0
              \/ ~Tracked(o) /\ o \notin deleted /\ (sup[o] = "report" \/ deaths[o] = 1)

(* The package comment has each supervisor "owning its lifecycle alone", and  *)
(* Delete "cancels the supervisor": the supervisor of a deleted object does   *)
(* not take another object out of the map.                                    *)
OwnLifecycle ==
    [][\A o \in deleted : sup[o] = "reap" /\ sup'[o] # "reap"
                          => sessions' = sessions]_vars

(* A tracked session whose remote end is gone does not stay in the store, and *)
(* a supervisor returns after Delete, even with a probe under way.            *)
SupervisionEnds ==
    \A o \in Objs : /\ (Tracked(o) /\ IdOf[o] \in gone) ~> ~Tracked(o)
                    /\ o \in deleted ~> sup[o] = "done"
=============================================================================
