----------------------------- MODULE SpecProbe -----------------------------
(* The two programs that fire the routes of specs/ at a hub to see which of   *)
(* them it knows, beside the harvester that writes there: Run of              *)
(* internal/probe (cmd/probe, eight probe), which reads every snapshot and    *)
(* writes a report, and probeSpecs of cmd/mcp, the fourth layer of discover,  *)
(* which reads those a filter selects and returns counts.  Both list a        *)
(* directory, read its files one by one and skip what does not parse.         *)
(*                                                                            *)
(* A hub answers a route in a way of its own; what the probers tell apart of  *)
(* an answer is whether its status is below 300 (ok), whether its content     *)
(* type is JSON, which W3C error it names, and whether it does so beyond the  *)
(* first 500 bytes of its body (far), all that probeRoute reads of it.        *)
EXTENDS Harvest

CONSTANTS
    Filtered,       \* the files that the filter of probeSpecs selects
    Hub             \* the answer of the hub to each route

Kinds   == {"Run", "probeSpecs"}
Answers == [ok : BOOLEAN, json : BOOLEAN, error : {"none", "unknown", "other"}, far : BOOLEAN]
Dirs    == {"appium", "webdriver"}

ASSUME FilteredAssumption == Filtered \subseteq Files
ASSUME HubAssumption == Hub \in [Routes -> Answers]

VARIABLES
    ppc,        \* off, walk, fire, report, done
    kind,       \* which of the two programs it is
    dirs,       \* the directories it has yet to list
    listing,    \* the files it has yet to read of the one it is in
    sources,    \* the snapshots it has read
    todo,       \* the routes it has yet to fire
    verdict,    \* of each route: none, exists, absent or unreachable
    base        \* history: the snapshots there were when it began

pvars == <<ppc, kind, dirs, listing, sources, todo, verdict, base>>
vars  == <<hvars, pvars>>

ProbeInit ==
    /\ ppc = "off" /\ kind = "Run" /\ dirs = {} /\ listing = {}
    /\ sources = {} /\ todo = {} /\ base = {}
    /\ verdict = [r \in Routes |-> "none"]

Init == HarvestInit /\ ProbeInit

Dir(f) == IF f[1] = Appium THEN "appium" ELSE "webdriver"
First(S) == CHOOSE x \in S : TRUE      \* directories, files and routes are sorted
Whole  == {f \in Files : disk[f] = "whole"}
Claimed(fs) == UNION {Claims[f] : f \in fs}

(* Which files the program reads at all. *)
Selected(k) == IF k = "Run" THEN Files ELSE Filtered

(* The discriminators: probeRoute looks at the status and then, in what it    *)
(* has read, for the error of a W3C body; probeSpecs looks at the content type*)
(* and at nothing else.                                                       *)

(* Mutant of probeRoute: any W3C error means that a handler answered. *)
probeRouteAnyError(a) == IF a.ok \/ (a.error # "none" /\ ~a.far) THEN "exists" ELSE "absent"

probeRoute(a) == IF a.ok \/ (a.error = "other" /\ ~a.far) THEN "exists" ELSE "absent"

probeContentType(a) == IF a.json THEN "exists" ELSE "absent"

Verdict(k, a) == IF k = "Run" THEN probeRoute(a) ELSE probeContentType(a)

-----------------------------------------------------------------------------
StartProbe(k) ==
    /\ ppc \in {"off", "done"}
    /\ ppc' = "walk" /\ kind' = k
    /\ dirs' = Dirs /\ listing' = {} /\ sources' = {} /\ todo' = {}
    /\ verdict' = [r \in Routes |-> "none"]
    /\ base' = Whole \cap Selected(k)

(* filepath.Walk or os.ReadDir enters a directory and lists it. *)
ReadDir ==
    /\ ppc = "walk" /\ listing = {}
    /\ dirs # {}
    /\ dirs' = dirs \ {First(dirs)}
    /\ listing' = {f \in Selected(kind) : Dir(f) = First(dirs) /\ disk[f] # "absent"}
    /\ UNCHANGED <<ppc, kind, sources, todo, verdict, base>>

(* Mutant of ReadFile: the walk ends at a file that does not parse. *)
ReadFileStops ==
    /\ ppc = "walk" /\ listing # {}
    /\ IF disk[First(listing)] = "whole"
       THEN /\ listing' = listing \ {First(listing)}
            /\ sources' = sources \cup {First(listing)}
            /\ UNCHANGED dirs
       ELSE listing' = {} /\ dirs' = {} /\ UNCHANGED sources
    /\ UNCHANGED <<ppc, kind, todo, verdict, base>>

(* One file is read; half a file does not parse, and is skipped. *)
ReadFile ==
    /\ ppc = "walk" /\ listing # {}
    /\ listing' = listing \ {First(listing)}
    /\ sources' = sources \cup ({First(listing)} \cap Whole)
    /\ UNCHANGED <<ppc, kind, dirs, todo, verdict, base>>

(* The union of the routes, each of them once; probeSpecs returns nil when it *)
(* found no file.                                                             *)
Union ==
    /\ ppc = "walk" /\ dirs = {} /\ listing = {}
    /\ todo' = Claimed(sources)
    /\ ppc' = IF kind = "probeSpecs" /\ sources = {} THEN "done" ELSE "fire"
    /\ UNCHANGED <<kind, dirs, listing, sources, verdict, base>>

Judge(v) ==
    /\ ppc = "fire" /\ todo # {}
    /\ todo' = todo \ {First(todo)}
    /\ verdict' = [verdict EXCEPT ![First(todo)] = v]
    /\ UNCHANGED <<ppc, kind, dirs, listing, sources, base>>

Fire == Judge(Verdict(kind, Hub[First(todo)]))

(* The client's timeout, or a connection that breaks: unreachable for Run, an *)
(* error to count for probeSpecs, and on to the next route.                   *)
NoAnswer == Judge("unreachable")

(* All routes are fired: Run writes its report over the last one of that      *)
(* label, probeSpecs returns.                                                 *)
Report ==
    /\ ppc = "fire" /\ todo = {}
    /\ ppc' = "done"
    /\ UNCHANGED <<kind, dirs, listing, sources, todo, verdict, base>>

ProbeStep == ReadDir \/ ReadFile \/ Union \/ Fire \/ NoAnswer \/ Report

Next ==
    \/ HarvestNext /\ UNCHANGED pvars
    \/ (ProbeStep \/ \E k \in Kinds : StartProbe(k)) /\ UNCHANGED hvars

Spec == Init /\ [][Next]_vars

(* Requests return and processes run: the probers' clients have a timeout;    *)
(* for the harvester, whose http.Get has none, it is an assumption.           *)
Fairness ==
    /\ WF_vars(HarvestStep /\ UNCHANGED pvars)
    /\ WF_vars(ProbeStep /\ UNCHANGED hvars)

FairSpec == Spec /\ Fairness

-----------------------------------------------------------------------------
(* Properties *)

TypeOK ==
    /\ HarvestTypeOK
    /\ ppc \in {"off", "walk", "fire", "done"} /\ kind \in Kinds
    /\ dirs \subseteq Dirs /\ listing \subseteq Files
    /\ sources \subseteq Files /\ base \subseteq Files /\ todo \subseteq Routes
    /\ verdict \in [Routes -> {"none", "exists", "absent", "unreachable"}]

(* However the harvester writes while a prober reads: the prober's union is   *)
(* that of snapshots which are whole, and once its walk is over no snapshot   *)
(* that was there when it began, and that it was to read, is missing, a       *)
(* damaged neighbour notwithstanding.                                         *)
UnionComplete ==
    /\ sources \subseteq Whole \cap Selected(kind)
    /\ ppc \in {"fire", "done"} => base \subseteq sources

(* What a router says when it answers as the W3C protocol asks: JSON, and an  *)
(* error whenever it is one; or a plain-text page that is not a success.      *)
Conforming(a) == IF a.json THEN a.ok <=> a.error = "none" ELSE ~a.ok /\ a.error = "none"

(* The route has a handler: the router did not call it unknown. *)
Handled(a) == a.json /\ a.error # "unknown"

(* The verdict beats the snapshot's claim.  When a probe is through, every    *)
(* route of the union, and no other, has its one verdict.  Against a hub that *)
(* conforms, Run calls existing only what has a handler, and absent what has  *)
(* none or names its error beyond what Run reads of it; probeSpecs calls      *)
(* absent only what has no handler.                                           *)
VerdictsTrue ==
    ppc = "done" =>
        \A r \in Routes :
            /\ verdict[r] = "none" <=> r \notin Claimed(sources)
            /\ Conforming(Hub[r]) /\ verdict[r] = "exists" /\ kind = "Run" => Handled(Hub[r])
            /\ Conforming(Hub[r]) /\ verdict[r] = "absent" =>
                  ~Handled(Hub[r]) \/ (kind = "Run" /\ Hub[r].far)

(* "W3C JSON error body -> exists (any error except unknown_command at the    *)
(* router level means the route matched a handler)", says the comment on      *)
(* probeSpecs; it never looks at the error.                                   *)
ExistsIsHandled ==
    ppc = "done" /\ kind = "probeSpecs" =>
        \A r \in Routes : Conforming(Hub[r]) /\ verdict[r] = "exists" => Handled(Hub[r])

(* A probe ends, whatever the hub does, and so does a harvest beside it.      *)
ProgramsEnd ==
    /\ ppc \in {"walk", "fire"} ~> ppc = "done"
    /\ RunEnds
=============================================================================
