------------------------------ MODULE Harvest ------------------------------
(* cmd/harvest/main.go: one run asks npm for the latest version of a package, *)
(* fetches the route source of that version and puts a snapshot into specs/,  *)
(* first for Appium's base driver, then for each of the WebdriverIO protocols.*)
(* A file that exists is never touched.  Runs come one after the other, on    *)
(* the files that earlier runs left; a run may be killed, and a disk may be   *)
(* full, at any point.                                                        *)
(*                                                                            *)
(* Every GET may fail and be tried again, up to MaxAttempts times.  The npm   *)
(* registry and GitHub are the environment: versions are published while a    *)
(* run is under way, and the source of a protocol may be missing, because     *)
(* upstream dropped it or because the tag is not there yet.                   *)
EXTENDS Naturals, Sequences, FiniteSets

CONSTANTS
    Appium,         \* the target of harvestAppium
    Protocols,      \* wdioProtocols, in order
    LastVersion,    \* bound on the versions each package gets
    Routes,
    Claims,         \* the routes that extractRoutes finds in each source
    MaxAttempts,    \* of get: 5 in the code
    MaxFaults       \* bound on kills and on writes that fail

Plan     == <<Appium>> \o Protocols
Steps    == 1..Len(Plan)
Targets  == {Plan[i] : i \in Steps}
Packages == {"appium", "wdio"}
Versions == UNION {1..LastVersion[p] : p \in Packages}
Blank    == 0               \* a package document without a "latest" tag
Files    == Targets \X (Versions \cup {Blank})

ASSUME ProtocolsAssumption == Protocols \in Seq(Targets \ {Appium}) /\ Protocols # <<>>
ASSUME LastVersionAssumption == LastVersion \in [Packages -> Nat \ {0}]
ASSUME ClaimsAssumption == Claims \in [Files -> SUBSET Routes]
ASSUME AttemptsAssumption == MaxAttempts \in Nat \ {0}
ASSUME FaultsAssumption == MaxFaults \in Nat

VARIABLES
    latest,     \* the latest version of each package
    disk,       \* each snapshot file: absent, open (being written), whole, damaged
    hpc,        \* idle, meta, stat, source, write, fill, done (exit 0), failed
    at,         \* the target of the run, as an index of Plan
    attempt,    \* attempts made of the GET under way
    version,    \* the version it goes for
    told,       \* what the run said of each target: [file, what]
    faults

hvars == <<latest, disk, hpc, at, attempt, version, told, faults>>

HarvestInit ==
    /\ latest = [p \in Packages |-> 1]
    /\ disk = [f \in Files |-> "absent"]
    /\ hpc = "idle" /\ at = 1 /\ attempt = 0 /\ version = Blank
    /\ told = {} /\ faults = 0

Package == IF at = 1 THEN "appium" ELSE "wdio"
File    == <<Plan[at], version>>
Resting == hpc \in {"idle", "done", "failed"}

(* Mutant of Exists: it looks in another directory. *)
ExistsElsewhere(f) == FALSE

(* os.Stat(out) reports no error *)
Exists(f) == disk[f] # "absent"

-----------------------------------------------------------------------------
(* main: harvestAppium(), then harvestWdio(). *)
Begin ==
    /\ Resting
    /\ hpc' = "meta" /\ at' = 1 /\ attempt' = 0 /\ told' = {}
    /\ UNCHANGED <<latest, disk, version, faults>>

(* The process is gone, and later targets are not reached. *)
Exit == /\ hpc' = "failed" /\ at' = 1 /\ attempt' = 0 /\ version' = Blank /\ told' = {}
        /\ UNCHANGED latest

Panic == Exit /\ UNCHANGED <<disk, faults>>

(* The target is dealt with; on to the next.  Appium is followed by the GET   *)
(* of the other package, a protocol by the next one at the same version.      *)
Advance(what) ==
    /\ told' = told \cup {[file |-> File, what |-> what]}
    /\ at' = IF at = Len(Plan) THEN at ELSE at + 1
    /\ hpc' = IF at = Len(Plan) THEN "done" ELSE IF at = 1 THEN "meta" ELSE "stat"
    /\ attempt' = 0
    /\ UNCHANGED <<latest, version>>

(* Mutant of GetFails: the attempts begin anew. *)
GetFailsForever ==
    /\ hpc \in {"meta", "source"}
    /\ attempt' = (attempt + 1) % MaxAttempts
    /\ UNCHANGED <<latest, disk, hpc, at, version, told, faults>>

(* get: no response, 429, 5xx or a broken body: another attempt, or a panic   *)
(* after the last.                                                            *)
GetFails ==
    /\ hpc \in {"meta", "source"}
    /\ IF attempt + 1 < MaxAttempts
       THEN /\ attempt' = attempt + 1
            /\ UNCHANGED <<latest, disk, hpc, at, version, told, faults>>
       ELSE Panic

(* Another status, or an answer that does not parse: no second attempt. *)
Refused == hpc \in {"meta", "source"} /\ Panic

(* npmLatest *)
MetaFetched ==
    /\ hpc = "meta"
    /\ version' \in {latest[Package], Blank}
    /\ hpc' = "stat" /\ attempt' = 0
    /\ UNCHANGED <<latest, disk, at, told, faults>>

(* harvestAppium and harvestWdio look before they fetch. *)
Stat ==
    /\ hpc = "stat"
    /\ IF Exists(File)
       THEN Advance("current") /\ UNCHANGED <<disk, faults>>
       ELSE /\ hpc' = "source"
            /\ UNCHANGED <<latest, disk, at, attempt, version, told, faults>>

(* Mutant of SourceFetched: the file is made before its routes are known. *)
SourceFetchedOpens ==
    /\ hpc = "source" /\ version # Blank
    /\ disk' = [disk EXCEPT ![File] = "open"]
    /\ hpc' = IF at = 1 /\ Claims[File] = {} THEN "failed" ELSE "fill"
    /\ UNCHANGED <<latest, at, attempt, version, told, faults>>

(* The source is there, and its routes are extracted.  For Appium, whose      *)
(* route table moved before, an empty result is a panic.                      *)
SourceFetched ==
    /\ hpc = "source" /\ version # Blank
    /\ IF at = 1 /\ Claims[File] = {} THEN Panic
       ELSE hpc' = "write" /\ UNCHANGED <<latest, disk, at, attempt, version, told, faults>>

(* Mutant of NotFound: a retired protocol ends the loop, not its turn. *)
NotFoundReturns ==
    /\ hpc = "source"
    /\ IF at = 1 THEN Panic
       ELSE /\ told' = told \cup {[file |-> File, what |-> "retired"]}
            /\ hpc' = "done"
            /\ UNCHANGED <<latest, disk, at, attempt, version, faults>>

(* 404: getProtocol turns it into "retired"; for Appium it is a panic. *)
NotFound ==
    /\ hpc = "source"
    /\ IF at = 1 THEN Panic ELSE Advance("retired") /\ UNCHANGED <<disk, faults>>

-----------------------------------------------------------------------------
(* writeSnapshot: it looks once more, then os.WriteFile truncates or makes    *)
(* the file, writes it, and nobody looks at its error.                        *)
Open ==
    /\ hpc = "write"
    /\ IF Exists(File)
       THEN Advance("current") /\ UNCHANGED <<disk, faults>>
       ELSE /\ disk' = [disk EXCEPT ![File] = "open"]
            /\ hpc' = "fill"
            /\ UNCHANGED <<latest, at, attempt, version, told, faults>>

OpenFails ==
    /\ hpc = "write" /\ ~Exists(File) /\ faults < MaxFaults
    /\ faults' = faults + 1
    /\ Advance("appended") /\ UNCHANGED disk

Fill ==
    /\ hpc = "fill"
    /\ disk' = [disk EXCEPT ![File] = "whole"]
    /\ Advance("appended") /\ UNCHANGED faults

FillFails ==
    /\ hpc = "fill" /\ faults < MaxFaults
    /\ disk' = [disk EXCEPT ![File] = "damaged"]
    /\ faults' = faults + 1
    /\ Advance("appended")

(* The process is killed; what it had written of a file stays. *)
Crash ==
    /\ ~Resting /\ faults < MaxFaults
    /\ faults' = faults + 1
    /\ disk' = [f \in Files |-> IF disk[f] = "open" THEN "damaged" ELSE disk[f]]
    /\ Exit

(* Upstream cuts a version. *)
Publish(p) ==
    /\ latest[p] < LastVersion[p]
    /\ latest' = [latest EXCEPT ![p] = @ + 1]
    /\ UNCHANGED <<disk, hpc, at, attempt, version, told, faults>>

HarvestStep ==
    \/ GetFails \/ Refused \/ MetaFetched \/ Stat \/ SourceFetched \/ NotFound
    \/ Open \/ OpenFails \/ Fill \/ FillFails

HarvestNext == Begin \/ HarvestStep \/ Crash \/ \E p \in Packages : Publish(p)

HarvestSpec == HarvestInit /\ [][HarvestNext]_hvars

-----------------------------------------------------------------------------
(* Properties *)

HarvestTypeOK ==
    /\ latest \in [Packages -> Versions]
    /\ disk \in [Files -> {"absent", "open", "whole", "damaged"}]
    /\ hpc \in {"idle", "meta", "stat", "source", "write", "fill", "done", "failed"}
    /\ at \in Steps /\ attempt \in 0..(MaxAttempts - 1) /\ version \in Versions \cup {Blank}
    /\ told \in SUBSET [file : Files, what : {"current", "appended", "retired"}]
    /\ faults \in 0..MaxFaults

(* A run that exits with 0 has accounted for every target: it is on disk at   *)
(* the version the run went for, or upstream did not have it and the run said *)
(* so; only a fault of the disk can make "appended" or "current" untrue.  A   *)
(* protocol upstream no longer ships does not keep the rest from being        *)
(* harvested.                                                                 *)
Accounted ==
    hpc = "done" =>
        \A i \in Steps : \E w \in told :
            /\ w.file[1] = Plan[i]
            /\ \/ w.what = "retired" /\ i # 1
               \/ w.what # "retired" /\ (faults = 0 => disk[w.file] = "whole")

(* Whether it succeeds, panics or is stopped by upstream's answers, a run     *)
(* without a fault leaves only whole snapshots: a file is opened when all of  *)
(* its contents are known, and never otherwise.                               *)
NoHalfSnapshot ==
    \A f \in Files : /\ disk[f] = "damaged" => faults > 0
                     /\ disk[f] = "open" => hpc = "fill" /\ f = File

(* Append-only, whatever fails: see SpecShelf.  A file counts as on the shelf *)
(* once its writer is through with it.                                        *)
Shelf == INSTANCE SpecShelf
            WITH shelf <- [f \in Files |-> IF disk[f] = "open" THEN "absent" ELSE disk[f]],
                 mishaps <- faults

ImplementsSpecShelf == Shelf!Spec

(* A run ends, whatever upstream answers, as long as its requests do: get     *)
(* gives up after MaxAttempts.                                                *)
RunEnds == ~Resting ~> Resting
=============================================================================
