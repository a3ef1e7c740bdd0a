------------------------- MODULE ReconstructionData -------------------------
(***************************************************************************)
(* The files that scans, calibrations and simulations share: the pictures  *)
(* data/Objects/image_01.mat .. image_09.mat and light_directions.txt.     *)
(* demoPSBox takes every picture that is there and the directions that are *)
(* there; no script removes a file.                                        *)
(*                                                                         *)
(* A rig is a set of lights.  A picture is known by the rig that took it,  *)
(* whose camera gives its size, and by whether the script that runs now    *)
(* has written it (current, a history field); the directions are known by  *)
(* the rig they are of.                                                    *)
(***************************************************************************)
EXTENDS Integers, FiniteSets

Bench == [kind |-> "bench", lights |-> 3]
Simulation(n) == [kind |-> "simulation", lights |-> n]

\* "set number of sources. minimum 3, maximum 9".
Rigs == {Bench} \cup {Simulation(n) : n \in 3 .. 9}

(***************************************************************************)
(* A job is a script as far as the files go: the rig it works for, when it *)
(* writes the directions (before or after the pictures, not at all, or     *)
(* nothing else), and how often it writes pictures and runs demoPSBox.     *)
(***************************************************************************)
Calibration     == [rig |-> Bench, directions |-> "only", passes |-> 0]
Scan            == [rig |-> Bench, directions |-> "never", passes |-> 1]
ScanAgain       == [rig |-> Bench, directions |-> "never", passes |-> 2]
ModulatedSim(n) == [rig |-> Simulation(n), directions |-> "first", passes |-> 1]
StaticSim(n)    == [rig |-> Simulation(n), directions |-> "last", passes |-> 1]
FromMovie       == [rig |-> Simulation(3), directions |-> "never", passes |-> 2]

AllJobs == {Calibration, Scan, ScanAgain, FromMovie}
             \cup {ModulatedSim(n) : n \in 3 .. 9} \cup {StaticSim(n) : n \in 3 .. 9}

CONSTANT Jobs   \* the jobs the operator runs

ASSUME JobsAssumption == Jobs \subseteq AllJobs

VARIABLES
    job,        \* what runs, or Idle
    left,       \* passes it still has to do
    written,    \* pictures written in this pass
    told,       \* it has written the directions
    images,     \* the picture files
    directions  \* light_directions.txt

vars == <<job, left, written, told, images, directions>>

NoRig == [kind |-> "none", lights |-> 0]
Idle == [rig |-> NoRig, directions |-> "never", passes |-> 0]
Absent == [rig |-> NoRig, current |-> FALSE]
Missing == NoRig
Numbers == 1 .. 9

JobRigs == {j.rig : j \in Jobs}
ToldRigs == {j.rig : j \in {i \in Jobs : i.directions # "never"}}
Pictures == [rig : JobRigs \cup {Simulation(8)}, current : BOOLEAN]

\* Types: pictures are of the shipped simulation or of a job's rig, directions
\* of the rig of a job that writes them, and no job writes more pictures than
\* its rig has lights.
TypeOK ==
    /\ job \in Jobs \cup {Idle}
    /\ left \in 0 .. 2
    /\ written \in 0 .. 9
    /\ job # Idle => written <= job.rig.lights
    /\ told \in BOOLEAN
    /\ images \in [Numbers -> Pictures \cup {Absent}]
    /\ directions \in ToldRigs \cup {Missing}

\* As in the repository: eight pictures of a simulation, no directions.
Init ==
    /\ job = Idle /\ left = 0 /\ written = 0 /\ told = FALSE
    /\ images = [k \in Numbers |->
                   IF k <= 8 THEN [rig |-> Simulation(8), current |-> FALSE] ELSE Absent]
    /\ directions = Missing

-----------------------------------------------------------------------------
Start(j) ==
    /\ job = Idle
    /\ job' = j /\ left' = j.passes /\ written' = 0 /\ told' = FALSE
    /\ images' = [k \in Numbers |-> [rig |-> images[k].rig, current |-> FALSE]]
    /\ UNCHANGED directions

\* Mutant: directions that are there are kept.
KeepDirections ==
    /\ job # Idle /\ ~told /\ job.directions # "never"
    /\ job.directions = "last" => written = job.rig.lights
    /\ told' = TRUE
    /\ directions' = IF directions = Missing THEN job.rig ELSE directions
    /\ UNCHANGED <<job, left, written, images>>

\* dlmwrite(..., 'light_directions.txt', directions).
WriteDirections ==
    /\ job # Idle /\ ~told
    /\ \/ job.directions \in {"only", "first"}
       \/ job.directions = "last" /\ written = job.rig.lights
    /\ told' = TRUE
    /\ directions' = job.rig
    /\ UNCHANGED <<job, left, written, images>>

\* save(imagesDir + "\image_0" + num2str(i), 'image').
WritePicture ==
    /\ job # Idle /\ left > 0 /\ written < job.rig.lights
    /\ job.directions = "first" => told
    /\ images' = [images EXCEPT ![written + 1] = [rig |-> job.rig, current |-> TRUE]]
    /\ written' = written + 1
    /\ UNCHANGED <<job, left, told, directions>>

Present == {k \in Numbers : images[k] # Absent}

\* Mutant: pictures of any size.
LoadableAnySize == directions # Missing /\ Cardinality(Present) = directions.lights

(***************************************************************************)
(* demoPSBox gets through: there are directions, the pictures fit in one   *)
(* array (PSLoadProcessedImagesMat takes the size of the first), and there *)
(* is one column for each: a column too few is an index error in           *)
(* EvalNEstimateByIError, one too many a size error in                     *)
(* PSEstimateLightStrengthCost.                                            *)
(***************************************************************************)
Loadable ==
    /\ directions # Missing
    /\ \A k, m \in Present : images[k].rig.kind = images[m].rig.kind
    /\ Cardinality(Present) = directions.lights

\* The script is about to run demoPSBox.
Ready ==
    /\ job # Idle /\ left > 0 /\ written = job.rig.lights
    /\ job.directions \in {"first", "last"} => told

Solve ==
    /\ Ready /\ Loadable
    /\ left' = left - 1 /\ written' = 0
    /\ UNCHANGED <<job, told, images, directions>>

SolveFails ==
    /\ Ready /\ ~Loadable
    /\ job' = Idle
    /\ UNCHANGED <<left, written, told, images, directions>>

Finish ==
    /\ job # Idle /\ left = 0
    /\ job.directions = "only" => told
    /\ job' = Idle
    /\ UNCHANGED <<left, written, told, images, directions>>

\* The operator or an error ends the script, between any two files.
Stop ==
    /\ job # Idle
    /\ job' = Idle
    /\ UNCHANGED <<left, written, told, images, directions>>

\* The operator empties data/Objects, by hand.
Empty ==
    /\ job = Idle
    /\ images' = [k \in Numbers |-> Absent]
    /\ UNCHANGED <<job, left, written, told, directions>>

Next ==
    \/ Empty
    \/ \E j \in Jobs : Start(j)
    \/ WriteDirections \/ WritePicture \/ Solve \/ SolveFails \/ Finish \/ Stop

Spec == Init /\ [][Next]_vars

-----------------------------------------------------------------------------
(***************************************************************************)
(* A reconstruction that gets through is of one set of lights and one      *)
(* movie: the pictures are the ones this script has written, all of them   *)
(* and no others, and the directions are of the lights that took them.     *)
(* Not so for LIVI_from_mov.m, which brings no directions and takes what   *)
(* pictures and directions a simulation with more lights has left.         *)
(***************************************************************************)
Sound ==
    Ready /\ Loadable /\ job # FromMovie =>
        /\ directions = job.rig
        /\ \A k \in Present : images[k] = [rig |-> job.rig, current |-> TRUE]

(***************************************************************************)
(* A simulation that writes its directions always gets through, whatever   *)
(* scans, calibrations and interrupted scripts have left in the files (as  *)
(* long as N, 8 in the repository, is not made smaller: nothing removes    *)
(* the pictures above N).                                                  *)
(***************************************************************************)
SimulationLoads ==
    Ready /\ job.rig.kind = "simulation" /\ job # FromMovie => Loadable

-----------------------------------------------------------------------------
(* What a comment says, and the scripts do not do.                         *)

(***************************************************************************)
(* DemoScan.m: "full scan and 3D reconstruction (with 3 sources).  The     *)
(* system must be calibrated before".                                      *)
(***************************************************************************)
CalibratedScanLoads == Ready /\ job = Scan /\ directions = Bench => Loadable

-----------------------------------------------------------------------------
\* Of the running job: its first pictures are its own, and so are the directions
\* once it has written them.
Progress ==
    job # Idle =>
        /\ left > 0 => \A k \in 1 .. written : images[k] = [rig |-> job.rig, current |-> TRUE]
        /\ told => directions = job.rig

\* The pictures of a rig have its numbers.
Numbering == \A k \in Present : k <= images[k].rig.lights

\* The inductive invariant behind Sound and SimulationLoads.
IInv == TypeOK /\ Progress /\ Numbering
=============================================================================
