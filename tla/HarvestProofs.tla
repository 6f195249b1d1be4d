--------------------------- MODULE HarvestProofs ---------------------------
(* Proofs about Harvest and SpecProbe, for any number of protocols, versions, *)
(* attempts, faults and routes.                                               *)
EXTENDS SpecProbe, TLAPS

(* The plan has a first target, and a next one until its last. *)
LEMMA PlanSteps ==
    /\ Len(Plan) \in Nat \ {0} /\ 1 \in Steps
    /\ \A i \in Steps : i # Len(Plan) => i + 1 \in Steps
  <1>1. Plan \in Seq(Targets \cup {Appium}) /\ Len(Plan) = 1 + Len(Protocols)
    BY ProtocolsAssumption DEF Plan
  <1>2. Len(Protocols) \in Nat
    BY ProtocolsAssumption
  <1>3. QED
    BY <1>1, <1>2 DEF Steps

(* The file a run is about to write is one of the plan's.                     *)
LEMMA FileTyped == HarvestTypeOK => File \in Files
  BY DEF HarvestTypeOK, File, Files, Targets

(* What Advance does keeps the types. *)
LEMMA AdvanceTyped ==
    ASSUME HarvestTypeOK, NEW what \in {"current", "appended", "retired"}, Advance(what)
    PROVE  /\ hpc' \in {"meta", "stat", "done"} /\ at' \in Steps
           /\ attempt' \in 0..(MaxAttempts - 1)
           /\ told' \in SUBSET [file : Files, what : {"current", "appended", "retired"}]
           /\ latest' = latest /\ version' = version
  <1>1. [file |-> File, what |-> what] \in [file : Files, what : {"current", "appended", "retired"}]
    BY FileTyped
  <1>2. at' \in Steps
    BY PlanSteps DEF HarvestTypeOK, Advance
  <1>3. hpc' \in {"meta", "stat", "done"}
    BY DEF Advance
  <1>4. attempt' = 0 /\ 0 \in 0..(MaxAttempts - 1)
    BY AttemptsAssumption DEF Advance
  <1>5. QED
    BY <1>1, <1>2, <1>3, <1>4 DEF HarvestTypeOK, Advance

(* Leaving a run, in order or not, keeps the types.                           *)
LEMMA ExitTyped ==
    ASSUME HarvestTypeOK, Exit
    PROVE  /\ hpc' = "failed" /\ at' \in Steps /\ version' = Blank
           /\ attempt' \in 0..(MaxAttempts - 1) /\ told' = {} /\ latest' = latest
  BY PlanSteps, AttemptsAssumption DEF Exit

-----------------------------------------------------------------------------
(* The snapshots on disk *)

(* While the writer is at work its file is open; nothing else is. *)
FillOpens == hpc = "fill" => disk[File] = "open"

DiskInv == HarvestTypeOK /\ NoHalfSnapshot /\ FillOpens

(* The invariant of the files holds before the first run.                     *)
LEMMA InitDiskInv == HarvestInit => DiskInv
  BY PlanSteps, AttemptsAssumption, LastVersionAssumption, FaultsAssumption
   DEF HarvestInit, DiskInv, HarvestTypeOK, NoHalfSnapshot, FillOpens, Versions, Packages, Blank

(* A step of a harvester that is not writing, and that leaves the disk alone. *)
LEMMA DiskKept ==
    ASSUME DiskInv, disk' = disk, hpc # "fill", hpc' # "fill",
           faults' \in 0..MaxFaults, faults' >= faults
    PROVE  NoHalfSnapshot' /\ FillOpens'
  <1>1. \A f \in Files : disk'[f] # "open" /\ (disk'[f] = "damaged" => faults > 0)
    BY DEF DiskInv, NoHalfSnapshot
  <1>2. faults \in Nat /\ faults' \in Nat
    BY FaultsAssumption DEF DiskInv, HarvestTypeOK
  <1>3. faults > 0 => faults' > 0
    BY <1>2, SMT
  <1>4. QED
    BY <1>1, <1>3, Zenon DEF NoHalfSnapshot, FillOpens

(* Every step of the harvester keeps it.                                      *)
LEMMA NextDiskInv == DiskInv /\ [HarvestNext]_hvars => DiskInv'
  <1> SUFFICES ASSUME DiskInv, [HarvestNext]_hvars PROVE DiskInv'
    OBVIOUS
  <1> USE DEF DiskInv
  <1>a. /\ faults \in 0..MaxFaults /\ faults \in Nat /\ MaxFaults \in Nat
        /\ faults' = faults => faults' \in 0..MaxFaults /\ faults' >= faults
    BY FaultsAssumption DEF HarvestTypeOK
  <1>b. faults < MaxFaults /\ faults' = faults + 1 =>
            faults' \in 0..MaxFaults /\ faults' >= faults /\ faults' > 0
    BY <1>a
  <1>c. File \in Files
    BY FileTyped
  <1>1. ASSUME Begin PROVE DiskInv'
    <2>1. HarvestTypeOK'
      BY <1>1, PlanSteps, AttemptsAssumption DEF Begin, HarvestTypeOK
    <2>2. QED
      BY <1>1, <2>1, <1>a, DiskKept DEF Begin, Resting
  <1>2. ASSUME Panic, hpc \in {"meta", "source"} PROVE DiskInv'
    <2>1. HarvestTypeOK'
      BY <1>2, ExitTyped DEF Panic, HarvestTypeOK
    <2>2. QED
      BY <1>2, <2>1, <1>a, ExitTyped, DiskKept DEF Panic
  <1>3. ASSUME GetFails PROVE DiskInv'
    <2>1. CASE attempt + 1 < MaxAttempts
      <3>1. HarvestTypeOK'
        BY <1>3, <2>1, AttemptsAssumption DEF GetFails, HarvestTypeOK
      <3>2. QED
        BY <1>3, <2>1, <3>1, <1>a, DiskKept DEF GetFails
    <2>2. CASE ~(attempt + 1 < MaxAttempts)
      BY <1>2, <1>3, <2>2 DEF GetFails
    <2>3. QED
      BY <2>1, <2>2
  <1>4. ASSUME Refused PROVE DiskInv'
    BY <1>2, <1>4 DEF Refused
  <1>5. ASSUME MetaFetched PROVE DiskInv'
    <2>1. latest[Package] \in Versions
      BY DEF HarvestTypeOK, Package, Packages
    <2>2. HarvestTypeOK'
      BY <1>5, <2>1, AttemptsAssumption DEF MetaFetched, HarvestTypeOK
    <2>3. QED
      BY <1>5, <2>2, <1>a, DiskKept DEF MetaFetched
  <1>6. ASSUME NEW what \in {"current", "appended", "retired"}, Advance(what),
               hpc # "fill", disk' = disk, faults' \in 0..MaxFaults, faults' >= faults
        PROVE  DiskInv'
    <2>1. HarvestTypeOK'
      BY <1>6, AdvanceTyped DEF HarvestTypeOK
    <2>2. hpc' # "fill"
      BY <1>6 DEF Advance
    <2>3. QED
      BY <1>6, <2>1, <2>2, DiskKept
  <1>7. ASSUME Stat PROVE DiskInv'
    <2>1. CASE Exists(File)
      BY <1>6, <1>7, <2>1, <1>a DEF Stat
    <2>2. CASE ~Exists(File)
      <3>1. HarvestTypeOK'
        BY <1>7, <2>2 DEF Stat, HarvestTypeOK
      <3>2. QED
        BY <1>7, <2>2, <3>1, <1>a, DiskKept DEF Stat
    <2>3. QED
      BY <2>1, <2>2
  <1>8. ASSUME SourceFetched PROVE DiskInv'
    <2>1. CASE at = 1 /\ Claims[File] = {}
      BY <1>2, <1>8, <2>1 DEF SourceFetched
    <2>2. CASE ~(at = 1 /\ Claims[File] = {})
      <3>1. HarvestTypeOK'
        BY <1>8, <2>2 DEF SourceFetched, HarvestTypeOK
      <3>2. QED
        BY <1>8, <2>2, <3>1, <1>a, DiskKept DEF SourceFetched
    <2>3. QED
      BY <2>1, <2>2
  <1>9. ASSUME NotFound PROVE DiskInv'
    BY <1>2, <1>6, <1>9, <1>a DEF NotFound
  <1>10. ASSUME Open PROVE DiskInv'
    <2>1. CASE Exists(File)
      BY <1>6, <1>10, <2>1, <1>a DEF Open
    <2>2. CASE ~Exists(File)
      <3>1. /\ disk' = [disk EXCEPT ![File] = "open"] /\ hpc' = "fill" /\ hpc = "write"
            /\ File' = File /\ faults' = faults
        BY <1>10, <2>2 DEF Open, File
      <3>2. HarvestTypeOK'
        BY <1>10, <2>2, <3>1 DEF Open, HarvestTypeOK
      <3>3. QED
        BY <3>1, <3>2, <1>c DEF NoHalfSnapshot, FillOpens, HarvestTypeOK
    <2>3. QED
      BY <2>1, <2>2
  <1>11. ASSUME OpenFails PROVE DiskInv'
    BY <1>6, <1>11, <1>b DEF OpenFails
  <1>12. ASSUME NEW how \in {"whole", "damaged"}, hpc = "fill", Advance("appended"),
                disk' = [disk EXCEPT ![File] = how],
                faults' \in 0..MaxFaults, faults' >= faults, how = "damaged" => faults' > 0
         PROVE  DiskInv'
    <2>1. HarvestTypeOK'
      BY <1>12, AdvanceTyped DEF HarvestTypeOK
    <2>2. hpc' # "fill"
      BY <1>12 DEF Advance
    <2>3. \A f \in Files : disk'[f] # "open" /\ (disk'[f] = "damaged" => faults > 0 \/ faults' > 0)
      BY <1>12, <1>c DEF NoHalfSnapshot, HarvestTypeOK
    <2>4. faults > 0 => faults' > 0
      BY <1>12, <1>a
    <2>5. QED
      BY <2>1, <2>2, <2>3, <2>4, Zenon DEF NoHalfSnapshot, FillOpens
  <1>13. ASSUME Fill PROVE DiskInv'
    BY <1>12, <1>13, <1>a DEF Fill
  <1>14. ASSUME FillFails PROVE DiskInv'
    BY <1>12, <1>14, <1>b DEF FillFails
  <1>15. ASSUME Crash PROVE DiskInv'
    <2>1. /\ disk' = [f \in Files |-> IF disk[f] = "open" THEN "damaged" ELSE disk[f]]
          /\ faults' \in 0..MaxFaults /\ faults' > 0 /\ hpc' = "failed"
      BY <1>15, <1>b, ExitTyped DEF Crash
    <2>2. HarvestTypeOK'
      BY <1>15, <2>1, ExitTyped DEF Crash, HarvestTypeOK
    <2>3. QED
      BY <2>1, <2>2 DEF NoHalfSnapshot, FillOpens
  <1>16. ASSUME NEW p \in Packages, Publish(p) PROVE DiskInv'
    <2>1. latest[p] + 1 \in 1..LastVersion[p] /\ 1..LastVersion[p] \subseteq Versions
      <3>1. LastVersion[p] \in Nat
        BY LastVersionAssumption
      <3>2. Versions \subseteq Nat /\ latest[p] \in Versions
        BY LastVersionAssumption DEF HarvestTypeOK, Versions
      <3>3. latest[p] \in Nat /\ latest[p] < LastVersion[p]
        BY <1>16, <3>2 DEF Publish
      <3>4. QED
        BY <3>1, <3>3 DEF Versions
    <2>2. latest' \in [Packages -> Versions]
      BY <1>16, <2>1 DEF Publish, HarvestTypeOK
    <2>3. QED
      BY <1>16, <2>2 DEF Publish, HarvestTypeOK, NoHalfSnapshot, FillOpens, File
  <1>17. ASSUME UNCHANGED hvars PROVE DiskInv'
    BY <1>17 DEF hvars, HarvestTypeOK, NoHalfSnapshot, FillOpens, File
  <1>18. QED
    BY <1>1, <1>3, <1>4, <1>5, <1>7, <1>8, <1>9, <1>10, <1>11, <1>13, <1>14, <1>15,
         <1>16, <1>17 DEF HarvestNext, HarvestStep

(* Types and disk hold of the composition: the probers leave them alone. *)
LEMMA DiskInvariant == Spec => []DiskInv
  <1>1. Init => DiskInv
    BY InitDiskInv DEF Init
  <1>2. DiskInv /\ [Next]_vars => DiskInv'
    BY NextDiskInv, Zenon DEF Next, vars, hvars
  <1>3. QED
    BY <1>1, <1>2, PTL DEF Spec

(* A run without a fault leaves only whole snapshots, in whatever way it ends. *)
THEOREM HarvestNoHalfSnapshot == Spec => []NoHalfSnapshot
  <1>1. DiskInv => NoHalfSnapshot
    BY DEF DiskInv
  <1>2. QED
    BY <1>1, DiskInvariant, PTL

-----------------------------------------------------------------------------
(* The harvester implements SpecShelf. *)

OnShelf == [f \in Files |-> IF disk[f] = "open" THEN "absent" ELSE disk[f]]

(* A step of the harvester is one of the shelf or a stutter of it.            *)
LEMMA StepImplements ==
    ASSUME DiskInv, DiskInv', [HarvestNext]_hvars
    PROVE  [Shelf!Next]_(Shelf!vars)
  <1> DEFINE Still == disk' = disk /\ faults' = faults
  <1>0. DiskInv /\ HarvestTypeOK /\ NoHalfSnapshot /\ FillOpens /\ File \in Files
    BY FileTyped DEF DiskInv
  <1>1. ASSUME Still PROVE UNCHANGED Shelf!vars
    BY <1>1 DEF Shelf!vars
  <1>2. ASSUME disk' = disk, faults' = faults + 1 PROVE Shelf!Next
    BY <1>2 DEF Shelf!Next, Shelf!Mishap
  <1>3. ASSUME NEW f \in Files, disk[f] = "absent", disk' = [disk EXCEPT ![f] = "open"],
               faults' = faults
        PROVE  UNCHANGED Shelf!vars
    <2>1. OnShelf' = OnShelf
      BY <1>0, <1>3 DEF OnShelf, HarvestTypeOK
    <2>2. QED
      BY <1>3, <2>1 DEF Shelf!vars, OnShelf
  <1>4. ASSUME NEW how \in {"whole", "damaged"}, disk[File] = "open",
               disk' = [disk EXCEPT ![File] = how]
        PROVE  Shelf!Put(File, how)
    <2>1. OnShelf[File] = "absent"
      BY <1>0, <1>4 DEF OnShelf
    <2>2. OnShelf' = [OnShelf EXCEPT ![File] = how]
      BY <1>0, <1>4 DEF OnShelf, HarvestTypeOK
    <2>3. QED
      BY <2>1, <2>2 DEF Shelf!Put, OnShelf
  <1>5. ASSUME Panic PROVE Still
    BY <1>5 DEF Panic
  <1>6. ASSUME Begin \/ GetFails \/ Refused \/ MetaFetched \/ Stat \/ SourceFetched \/ NotFound
        PROVE  Still
    BY <1>5, <1>6 DEF Begin, GetFails, Refused, MetaFetched, Stat, SourceFetched, NotFound
  <1>7. ASSUME Open PROVE UNCHANGED Shelf!vars
    BY <1>0, <1>1, <1>3, <1>7 DEF Open, Exists
  <1>8. ASSUME OpenFails PROVE Shelf!Next
    BY <1>2, <1>8 DEF OpenFails
  <1>9. ASSUME Fill PROVE Shelf!Next
    <2>1. Shelf!Put(File, "whole") /\ faults' = faults
      BY <1>0, <1>4, <1>9 DEF Fill, FillOpens
    <2>2. QED
      BY <2>1, <1>0 DEF Shelf!Next, Shelf!Add
  <1>10. ASSUME FillFails PROVE Shelf!Next
    <2>1. Shelf!Put(File, "damaged") /\ faults' = faults + 1
      BY <1>0, <1>4, <1>10 DEF FillFails, FillOpens
    <2>2. QED
      BY <2>1, <1>0 DEF Shelf!Next, Shelf!Damage
  <1>11. ASSUME Crash PROVE Shelf!Next
    <2>1. /\ disk' = [f \in Files |-> IF disk[f] = "open" THEN "damaged" ELSE disk[f]]
          /\ faults' = faults + 1
      BY <1>11 DEF Crash
    <2>2. CASE hpc = "fill"
      <3>1. disk' = [disk EXCEPT ![File] = "damaged"]
        BY <1>0, <2>1, <2>2 DEF NoHalfSnapshot, FillOpens, HarvestTypeOK
      <3>2. Shelf!Put(File, "damaged")
        BY <1>0, <1>4, <2>2, <3>1 DEF FillOpens
      <3>3. QED
        BY <2>1, <3>2, <1>0 DEF Shelf!Next, Shelf!Damage
    <2>3. CASE hpc # "fill"
      <3>1. disk' = disk
        BY <1>0, <2>1, <2>3 DEF NoHalfSnapshot, HarvestTypeOK
      <3>2. QED
        BY <1>2, <2>1, <3>1
    <2>4. QED
      BY <2>2, <2>3
  <1>12. ASSUME NEW p \in Packages, Publish(p) PROVE Still
    BY <1>12 DEF Publish
  <1>13. ASSUME UNCHANGED hvars PROVE Still
    BY <1>13 DEF hvars
  <1>14. QED
    BY <1>1, <1>6, <1>7, <1>8, <1>9, <1>10, <1>11, <1>12, <1>13 DEF HarvestNext, HarvestStep

(* Append-only, whatever fails: the harvester implements the abstract shelf,  *)
(* on which a file is put once and then stays as it is.                       *)
THEOREM HarvestImplementsShelf == Spec => ImplementsSpecShelf
  <1>1. Init => Shelf!Init
    BY DEF Init, HarvestInit, Shelf!Init
  <1>2. DiskInv /\ DiskInv' /\ [Next]_vars => [Shelf!Next]_(Shelf!vars)
    <2>1. [Next]_vars => [HarvestNext]_hvars
      BY Zenon DEF Next, vars, hvars
    <2>2. QED
      BY <2>1, StepImplements
  <1>3. QED
    BY <1>1, <1>2, DiskInvariant, PTL DEF Spec, ImplementsSpecShelf, Shelf!Spec

-----------------------------------------------------------------------------
(* The probers read beside the harvester. *)

(* A snapshot is never taken away or damaged once it is whole. *)
LEMMA WholeStays ==
    ASSUME DiskInv, [HarvestNext]_hvars
    PROVE  Whole \subseteq Whole'
  <1>1. DiskInv'
    BY NextDiskInv
  <1>2. disk \in [Files -> {"absent", "open", "whole", "damaged"}] /\ File \in Files
    BY FileTyped DEF DiskInv, HarvestTypeOK
  <1>3. ASSUME NEW f \in Files, disk[f] = "whole" PROVE disk'[f] = "whole"
    <2>1. ASSUME disk' = disk PROVE disk'[f] = "whole"
      BY <1>3, <2>1
    <2>2. ASSUME Open PROVE disk'[f] = "whole"
      BY <1>2, <1>3, <2>2 DEF Open, Exists
    <2>3. ASSUME Fill PROVE disk'[f] = "whole"
      BY <1>2, <1>3, <2>3 DEF Fill
    <2>4. ASSUME FillFails PROVE disk'[f] = "whole"
      BY <1>2, <1>3, <2>4 DEF FillFails, DiskInv, FillOpens
    <2>5. ASSUME Crash PROVE disk'[f] = "whole"
      BY <1>2, <1>3, <2>5 DEF Crash
    <2>6. QED
      BY <2>1, <2>2, <2>3, <2>4, <2>5 DEF HarvestNext, HarvestStep, Begin, GetFails, Refused,
         Panic, MetaFetched, Stat, SourceFetched, NotFound, OpenFails, Publish, hvars
  <1>4. QED
    BY <1>3 DEF Whole

(* What the walk has not come to yet is still in a directory it has to list,  *)
(* or on the list of the one it is in.                                        *)
WalkInv ==
    /\ ppc \in {"off", "walk", "fire", "done"} /\ kind \in Kinds
    /\ dirs \subseteq Dirs
    /\ sources \subseteq Whole \cap Selected(kind)
    /\ base \subseteq Whole \cap Selected(kind)
    /\ listing \subseteq Selected(kind)
    /\ ppc = "walk" =>
          \A f \in base : f \in sources \/ f \in listing \/ Dir(f) \in dirs
    /\ ppc \in {"fire", "done"} => base \subseteq sources

(* The first of some targets is one of them.                                  *)
LEMMA FirstIn == \A S : S # {} => First(S) \in S
  BY DEF First

(* A prober's base stays accounted for, by what it read or has yet to list.   *)
LEMMA NextWalkInv == DiskInv /\ WalkInv /\ [Next]_vars => WalkInv'
  <1> SUFFICES ASSUME DiskInv, WalkInv, [Next]_vars PROVE WalkInv'
    OBVIOUS
  <1>1. ASSUME HarvestNext, UNCHANGED pvars PROVE WalkInv'
    BY <1>1, WholeStays DEF WalkInv, pvars, Selected, Dir
  <1>2. ASSUME UNCHANGED hvars PROVE Whole' = Whole
    BY <1>2 DEF hvars, Whole
  <1>3. ASSUME NEW k \in Kinds, StartProbe(k), UNCHANGED hvars PROVE WalkInv'
    <2>1. \A f \in base' : Dir(f) \in dirs'
      BY <1>3 DEF StartProbe, Dirs, Dir
    <2>2. QED
      BY <1>2, <1>3, <2>1 DEF StartProbe, WalkInv, Selected
  <1>4. ASSUME ReadDir, UNCHANGED hvars PROVE WalkInv'
    <2>1. /\ ppc = "walk" /\ listing = {} /\ dirs' = dirs \ {First(dirs)}
          /\ listing' = {f \in Selected(kind) : Dir(f) = First(dirs) /\ disk[f] # "absent"}
          /\ ppc' = ppc /\ kind' = kind /\ sources' = sources /\ base' = base
      BY <1>4 DEF ReadDir
    <2>2. Selected(kind)' = Selected(kind)
      BY <2>1 DEF Selected
    <2>3. ASSUME NEW f \in base
          PROVE  f \in sources' \/ f \in listing' \/ Dir(f) \in dirs'
      <3>1. f \in Selected(kind) /\ disk[f] # "absent"
        BY DEF WalkInv, Whole
      <3>2. f \in sources \/ Dir(f) \in dirs
        BY <2>1 DEF WalkInv
      <3>3. QED
        BY <2>1, <3>1, <3>2
    <2>4. QED
      BY <1>2, <1>4, <2>1, <2>2, <2>3 DEF WalkInv, Dir
  <1>5. ASSUME ReadFile, UNCHANGED hvars PROVE WalkInv'
    <2>1. /\ ppc = "walk" /\ First(listing) \in listing
          /\ listing' = listing \ {First(listing)}
          /\ sources' = sources \cup ({First(listing)} \cap Whole)
          /\ ppc' = ppc /\ kind' = kind /\ dirs' = dirs /\ base' = base
      BY <1>5, FirstIn DEF ReadFile
    <2>2. Selected(kind)' = Selected(kind)
      BY <2>1 DEF Selected
    <2>3. \A f \in base : f \in sources' \/ f \in listing' \/ Dir(f) \in dirs'
      BY <2>1 DEF WalkInv
    <2>4. QED
      BY <1>2, <1>5, <2>1, <2>2, <2>3 DEF WalkInv, Dir
  <1>6. ASSUME Union, UNCHANGED hvars PROVE WalkInv'
    BY <1>2, <1>6 DEF Union, WalkInv, Selected
  <1>7. ASSUME NEW v, Judge(v), UNCHANGED hvars PROVE WalkInv'
    BY <1>2, <1>7 DEF Judge, WalkInv, Selected
  <1>8. ASSUME Report, UNCHANGED hvars PROVE WalkInv'
    BY <1>2, <1>8 DEF Report, WalkInv, Selected
  <1>9. ASSUME UNCHANGED vars PROVE WalkInv'
    BY <1>2, <1>9 DEF vars, pvars, WalkInv, Selected, Dir
  <1>10. QED
    BY <1>1, <1>3, <1>4, <1>5, <1>6, <1>7, <1>8, <1>9 DEF Next, ProbeStep, Fire, NoAnswer

(* However the harvester writes while a prober reads, the prober's union is   *)
(* that of whole snapshots and misses none that was there when it began.      *)
THEOREM ProbeUnionComplete == Spec => []UnionComplete
  <1>1. Init => WalkInv
    BY DEF Init, ProbeInit, WalkInv, Kinds
  <1>2. WalkInv => UnionComplete
    BY DEF WalkInv, UnionComplete
  <1>3. QED
    BY <1>1, <1>2, NextWalkInv, DiskInvariant, PTL DEF Spec
-----------------------------------------------------------------------------
(* Every variable of the composition has its type: no attempt beyond the last,*)
(* no file or route that is not one of the plan's.                            *)
LEMMA NextTypeOK == WalkInv /\ TypeOK /\ HarvestTypeOK' /\ WalkInv' /\ [Next]_vars => TypeOK'
  <1> SUFFICES ASSUME WalkInv, TypeOK, HarvestTypeOK', WalkInv', [Next]_vars
               PROVE  todo' \subseteq Routes
                      /\ verdict' \in [Routes -> {"none", "exists", "absent", "unreachable"}]
    <2>1. Selected(kind)' \subseteq Files
      BY FilteredAssumption DEF Selected
    <2>2. QED
      BY <2>1, Zenon DEF TypeOK, WalkInv, Whole
  <1>1. ASSUME Union PROVE todo' \subseteq Routes /\ verdict' = verdict
    <2>1. sources \subseteq Files
      BY DEF TypeOK
    <2>2. Claimed(sources) \subseteq Routes
      BY <2>1, ClaimsAssumption DEF Claimed
    <2>3. QED
      BY <1>1, <2>2 DEF Union
  <1>2. ASSUME NEW v \in {"exists", "absent", "unreachable"}, Judge(v)
        PROVE  /\ todo' \subseteq Routes
               /\ verdict' \in [Routes -> {"none", "exists", "absent", "unreachable"}]
    BY <1>2 DEF Judge, TypeOK
  <1>3. Verdict(kind, Hub[First(todo)]) \in {"exists", "absent"}
    BY DEF Verdict, probeRoute, probeContentType
  <1>4. QED
    BY <1>1, <1>2, <1>3 DEF Next, ProbeStep, StartProbe, ReadDir, ReadFile, Fire, NoAnswer,
       Report, TypeOK, vars, pvars

(* Every variable of harvester and probers has its type: no attempt of get    *)
(* beyond the last, no file and no route but those of the plan.               *)
THEOREM SpecsTypeCorrect == Spec => []TypeOK
  <1>1. Init => TypeOK /\ WalkInv
    BY InitDiskInv DEF Init, DiskInv, ProbeInit, TypeOK, WalkInv, Kinds
  <1>2. DiskInv => HarvestTypeOK
    BY DEF DiskInv
  <1>3. QED
    BY <1>1, <1>2, NextWalkInv, NextTypeOK, DiskInvariant, PTL DEF Spec

-----------------------------------------------------------------------------
(* The verdicts *)

(* While the routes are fired, those still to fire and those that nobody      *)
(* claimed have no verdict; one that has was judged by its answer.            *)
VerdictInv ==
    /\ ppc \in {"off", "walk"} => \A r \in Routes : verdict[r] = "none"
    /\ ppc \in {"fire", "done"} => \A r \in Routes :
            verdict[r] = "none" <=> r \notin Claimed(sources) \/ (ppc = "fire" /\ r \in todo)
    /\ ppc = "fire" => todo \subseteq Claimed(sources)
    /\ \A r \in Routes : verdict[r] \in {"exists", "absent"} => verdict[r] = Verdict(kind, Hub[r])

(* Judging one route gives it its verdict, and leaves one less to fire.       *)
LEMMA JudgeKeeps ==
    ASSUME TypeOK, VerdictInv, NEW v \in {"exists", "absent", "unreachable"}, Judge(v),
           v \in {"exists", "absent"} => v = Verdict(kind, Hub[First(todo)])
    PROVE  VerdictInv'
  <1> DEFINE r == First(todo)
  <1>1. r \in todo /\ r \in Routes /\ ppc = "fire"
    BY FirstIn DEF Judge, TypeOK
  <1>2. /\ ppc' = ppc /\ kind' = kind /\ sources' = sources /\ todo' = todo \ {r}
        /\ verdict'[r] = v /\ \A q \in Routes \ {r} : verdict'[q] = verdict[q]
    BY <1>1 DEF Judge, TypeOK
  <1> HIDE DEF r
  <1>3. Claimed(sources)' = Claimed(sources)
    BY <1>2 DEF Claimed
  <1>4. todo' \subseteq Claimed(sources) /\ r \in Claimed(sources)
    BY <1>1, <1>2 DEF VerdictInv
  <1>5. \A q \in Routes : verdict'[q] = "none" <=> q \notin Claimed(sources) \/ q \in todo'
    BY <1>1, <1>2, <1>4 DEF VerdictInv
  <1>6. \A q \in Routes : verdict'[q] \in {"exists", "absent"} => verdict'[q] = Verdict(kind, Hub[q])
    BY <1>2 DEF VerdictInv, r
  <1>7. QED
    BY <1>1, <1>2, <1>3, <1>4, <1>5, <1>6 DEF VerdictInv, Verdict

(* Every step of a prober keeps its verdicts true; the harvester gives none.  *)
LEMMA NextVerdictInv == TypeOK /\ VerdictInv /\ [Next]_vars => VerdictInv'
  <1> SUFFICES ASSUME TypeOK, VerdictInv, [Next]_vars PROVE VerdictInv'
    OBVIOUS
  <1>1. ASSUME UNCHANGED pvars PROVE VerdictInv'
    BY <1>1 DEF pvars, VerdictInv, Verdict, Claimed
  <1>2. ASSUME NEW k \in Kinds, StartProbe(k) PROVE VerdictInv'
    BY <1>2 DEF StartProbe, VerdictInv
  <1>3. ASSUME ReadDir \/ ReadFile PROVE VerdictInv'
    BY <1>3 DEF ReadDir, ReadFile, VerdictInv, Verdict
  <1>4. ASSUME Union PROVE VerdictInv'
    <2>1. /\ ppc = "walk" /\ sources' = sources /\ kind' = kind /\ verdict' = verdict
          /\ todo' = Claimed(sources) /\ ppc' \in {"fire", "done"}
          /\ ppc' = "done" => sources = {}
      BY <1>4 DEF Union
    <2>2. Claimed(sources)' = Claimed(sources) /\ (sources = {} => Claimed(sources) = {})
      BY <2>1 DEF Claimed
    <2>3. \A r \in Routes : verdict[r] = "none"
      BY <2>1 DEF VerdictInv
    <2>4. QED
      BY <2>1, <2>2, <2>3 DEF VerdictInv
  <1>5. ASSUME Fire PROVE VerdictInv'
    <2>1. Verdict(kind, Hub[First(todo)]) \in {"exists", "absent"}
      BY DEF Verdict, probeRoute, probeContentType
    <2>2. QED
      BY <1>5, <2>1, JudgeKeeps DEF Fire
  <1>6. ASSUME NoAnswer PROVE VerdictInv'
    BY <1>6, JudgeKeeps DEF NoAnswer
  <1>7. ASSUME Report PROVE VerdictInv'
    <2>1. /\ ppc = "fire" /\ todo = {} /\ ppc' = "done"
          /\ UNCHANGED <<kind, sources, todo, verdict>>
      BY <1>7 DEF Report
    <2>2. QED
      BY <2>1 DEF VerdictInv, Verdict, Claimed
  <1>8. QED
    BY <1>1, <1>2, <1>3, <1>4, <1>5, <1>6, <1>7 DEF Next, ProbeStep, vars

(* Of a conforming answer the discriminators say the truth, as far as they    *)
(* look at it.                                                                *)
LEMMA DiscriminatorsTrue ==
    ASSUME NEW a \in Answers, Conforming(a), NEW k \in Kinds
    PROVE  /\ Verdict(k, a) = "exists" /\ k = "Run" => Handled(a)
           /\ Verdict(k, a) = "absent" => ~Handled(a) \/ (k = "Run" /\ a.far)
  <1>1. /\ a.ok \in BOOLEAN /\ a.json \in BOOLEAN /\ a.far \in BOOLEAN
        /\ a.error \in {"none", "unknown", "other"}
    BY DEF Answers
  <1>2. CASE k = "Run"
    BY <1>1, <1>2 DEF Verdict, probeRoute, Conforming, Handled
  <1>3. CASE k = "probeSpecs"
    BY <1>1, <1>3 DEF Verdict, probeContentType, Conforming, Handled
  <1>4. QED
    BY <1>2, <1>3 DEF Kinds

(* When a probe is through every route of the union, and no other, has one    *)
(* verdict; of a route whose answer conforms it is false only where Run did   *)
(* not read as far as the error, and where probeSpecs calls it existing.  For *)
(* any snapshots, any answers and any requests that got none.                 *)
THEOREM ProbeVerdictsTrue == Spec => []VerdictsTrue
  <1>1. Init => VerdictInv
    BY DEF Init, ProbeInit, VerdictInv
  <1>2. TypeOK /\ VerdictInv => VerdictsTrue
    <2> SUFFICES ASSUME TypeOK, VerdictInv, ppc = "done", NEW r \in Routes
                 PROVE  /\ verdict[r] = "none" <=> r \notin Claimed(sources)
                        /\ Conforming(Hub[r]) /\ verdict[r] = "exists" /\ kind = "Run" =>
                              Handled(Hub[r])
                        /\ Conforming(Hub[r]) /\ verdict[r] = "absent" =>
                              ~Handled(Hub[r]) \/ (kind = "Run" /\ Hub[r].far)
      BY DEF VerdictsTrue
    <2>1. verdict[r] = "none" <=> r \notin Claimed(sources)
      BY DEF VerdictInv
    <2>2. Hub[r] \in Answers /\ kind \in Kinds
      BY HubAssumption DEF TypeOK
    <2>3. verdict[r] \in {"exists", "absent"} => verdict[r] = Verdict(kind, Hub[r])
      BY DEF VerdictInv
    <2>4. QED
      BY <2>1, <2>2, <2>3, DiscriminatorsTrue
  <1>3. QED
    BY <1>1, <1>2, NextVerdictInv, SpecsTypeCorrect, PTL DEF Spec

-----------------------------------------------------------------------------
(* What the run has said of target i is true. *)
Settled(i) ==
    \E w \in told : /\ w.file \in Files /\ w.file[1] = Plan[i]
                    /\ \/ w.what = "retired" /\ i # 1
                       \/ w.what # "retired" /\ (faults = 0 => disk[w.file] = "whole")

(* The targets that a run has behind it. *)
Behind == IF hpc = "done" THEN Steps
          ELSE IF hpc \in {"idle", "failed"} THEN {}
          ELSE {i \in Steps : i < at}

SettledInv == \A i \in Behind : Settled(i)

(* A target stays settled: told only grows in a run, and so does the shelf. *)
LEMMA SettledStays ==
    ASSUME DiskInv, DiskInv', [HarvestNext]_hvars, told \subseteq told', faults' >= faults,
           NEW i \in Steps, Settled(i)
    PROVE  Settled(i)'
  <1>1. PICK w \in told : /\ w.file \in Files /\ w.file[1] = Plan[i]
                          /\ \/ w.what = "retired" /\ i # 1
                             \/ w.what # "retired" /\ (faults = 0 => disk[w.file] = "whole")
    BY DEF Settled
  <1>2. faults' = 0 => faults = 0
    BY FaultsAssumption DEF DiskInv, HarvestTypeOK
  <1>3. disk[w.file] = "whole" => disk'[w.file] = "whole"
    BY <1>1, WholeStays DEF Whole
  <1>4. QED
    BY <1>1, <1>2, <1>3 DEF Settled

(* Advance leaves the target it was about behind, and no other. *)
LEMMA AdvanceSettles ==
    ASSUME DiskInv, NEW what, Advance(what), hpc \in {"stat", "source", "write", "fill"}
    PROVE  Behind' \subseteq Behind \cup {at}
  <1>1. at \in Steps /\ Steps = 1..Len(Plan) /\ Len(Plan) \in Nat /\ at \in Nat
    BY PlanSteps DEF DiskInv, HarvestTypeOK, Steps
  <1>2. CASE at = Len(Plan)
    BY <1>1, <1>2 DEF Advance, Behind
  <1>3. CASE at # Len(Plan)
    BY <1>1, <1>3 DEF Advance, Behind
  <1>4. QED
    BY <1>2, <1>3

(* What lies behind the run stays settled, and what it leaves behind is.      *)
LEMMA NextSettled == DiskInv /\ DiskInv' /\ SettledInv /\ [HarvestNext]_hvars => SettledInv'
  <1> SUFFICES ASSUME DiskInv, DiskInv', SettledInv, [HarvestNext]_hvars PROVE SettledInv'
    OBVIOUS
  <1>0. /\ File \in Files /\ File[1] = Plan[at] /\ faults \in Nat
        /\ at \in Steps /\ Behind \subseteq Steps /\ disk \in [Files -> {"absent", "open", "whole", "damaged"}]
    BY FileTyped, FaultsAssumption DEF DiskInv, HarvestTypeOK, File, Behind
  <1>1. ASSUME told \subseteq told', faults' >= faults, Behind' \subseteq Behind PROVE SettledInv'
    BY <1>0, <1>1, SettledStays DEF SettledInv
  <1>2. ASSUME NEW what, Advance(what), hpc \in {"stat", "source", "write", "fill"}, faults' >= faults,
               \/ what = "retired" /\ at # 1
               \/ what # "retired" /\ (faults' = 0 => disk'[File] = "whole")
        PROVE  SettledInv'
    <2>1. told' = told \cup {[file |-> File, what |-> what]}
      BY <1>2 DEF Advance
    <2>2. \A i \in Steps : i = at => Settled(i)'
      <3> DEFINE w == [file |-> File, what |-> what]
      <3>1. w \in told' /\ w.file = File /\ w.what = what
        BY <2>1
      <3>2. /\ w.file \in Files /\ w.file[1] = Plan[at]
            /\ \/ w.what = "retired" /\ at # 1
               \/ w.what # "retired" /\ (faults' = 0 => disk'[w.file] = "whole")
        BY <1>0, <1>2, <3>1, Zenon
      <3> HIDE DEF w
      <3>3. QED
        BY <3>1, <3>2 DEF Settled
    <2>3. QED
      <3>1. Behind' \subseteq Behind \cup {at}
        BY <1>2, AdvanceSettles
      <3>2. \A i \in Steps : Settled(i) => Settled(i)'
        BY <1>2, <2>1, SettledStays
      <3>3. QED
        BY <1>0, <2>2, <3>1, <3>2 DEF SettledInv
  <1>3. ASSUME Exit PROVE SettledInv'
    BY <1>3 DEF Exit, SettledInv, Behind
  <1>4. Exists(File) /\ hpc # "fill" /\ faults = 0 => disk[File] = "whole"
    BY <1>0 DEF Exists, DiskInv, NoHalfSnapshot
  <1>5. ASSUME Begin PROVE SettledInv'
    <2>1. \A i \in Steps : ~(i < 1)
      BY DEF Steps
    <2>2. QED
      BY <1>5, <2>1 DEF Begin, SettledInv, Behind
  <1>6. ASSUME GetFails \/ MetaFetched \/ (SourceFetched /\ ~(at = 1 /\ Claims[File] = {}))
        PROVE  SettledInv'
    <2>1. CASE hpc' = "failed"
      BY <2>1 DEF SettledInv, Behind
    <2>2. CASE hpc' # "failed"
      BY <1>0, <1>1, <1>6, <2>2 DEF GetFails, MetaFetched, SourceFetched, Panic, Exit, Behind
    <2>3. QED
      BY <2>1, <2>2
  <1>7. ASSUME Stat PROVE SettledInv'
    BY <1>0, <1>1, <1>2, <1>4, <1>7 DEF Stat, Behind
  <1>8. ASSUME NotFound PROVE SettledInv'
    BY <1>0, <1>2, <1>3, <1>8 DEF NotFound, Panic
  <1>9. ASSUME Open PROVE SettledInv'
    BY <1>0, <1>1, <1>2, <1>4, <1>9 DEF Open, Behind
  <1>10. ASSUME OpenFails PROVE SettledInv'
    BY <1>0, <1>2, <1>10 DEF OpenFails
  <1>11. ASSUME Fill PROVE SettledInv'
    BY <1>0, <1>2, <1>11 DEF Fill
  <1>12. ASSUME FillFails PROVE SettledInv'
    BY <1>0, <1>2, <1>12 DEF FillFails
  <1>13. ASSUME NEW p \in Packages, Publish(p) PROVE SettledInv'
    BY <1>0, <1>1, <1>13 DEF Publish, Behind
  <1>14. ASSUME UNCHANGED hvars PROVE SettledInv'
    BY <1>0, <1>1, <1>14 DEF hvars, Behind
  <1>15. QED
    BY <1>3, <1>5, <1>6, <1>7, <1>8, <1>9, <1>10, <1>11, <1>12, <1>13, <1>14
       DEF HarvestNext, HarvestStep, Refused, SourceFetched, Crash, Panic

(* A run that ends well has told the truth about every target of its plan.    *)
THEOREM HarvestAccounted == Spec => []Accounted
  <1>1. Init => SettledInv
    BY DEF Init, HarvestInit, SettledInv, Behind
  <1>2. DiskInv /\ DiskInv' /\ SettledInv /\ [Next]_vars => SettledInv'
    <2>1. [Next]_vars => [HarvestNext]_hvars
      BY Zenon DEF Next, vars, hvars
    <2>2. QED
      BY <2>1, NextSettled
  <1>3. SettledInv => Accounted
    BY DEF SettledInv, Behind, Settled, Accounted
  <1>4. QED
    BY <1>1, <1>2, <1>3, DiskInvariant, PTL DEF Spec
=============================================================================
