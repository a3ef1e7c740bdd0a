---------------------- MODULE ReconstructionDataProofs ----------------------
(* Theorems about the picture files, for any choice of scripts. *)
EXTENDS ReconstructionData, TLAPS, FiniteSetTheorems

\* No simulation that writes its directions has as many lights as the bench.
NoSmallRig == Simulation(3) \notin ToldRigs

\* All of them have n lights.
OneSize(n) ==
    /\ n \in 8 .. 9
    /\ \A j \in Jobs : j.rig \in {Bench, Simulation(n)} \/ j = FromMovie

\* What the table of scripts says of any one of them.
LEMMA JobFacts ==
    ASSUME NEW j \in Jobs
    PROVE  /\ j # Idle
           /\ j.rig \in JobRigs
           /\ j.rig.lights \in 3 .. 9
           /\ j.passes \in 0 .. 2
           /\ \/ j.rig = Bench
              \/ /\ j.rig = Simulation(j.rig.lights)
                 /\ j = FromMovie \/ j.directions \in {"first", "last"}
PROOF
<1>1. j \in AllJobs
  BY JobsAssumption
<1>2. j.rig \in JobRigs
  BY DEF JobRigs
<1>3. CASE j \in {Calibration, Scan, ScanAgain}
  BY <1>2, <1>3 DEF Calibration, Scan, ScanAgain, Bench, Idle, NoRig
<1>4. CASE j = FromMovie
  BY <1>2, <1>4 DEF FromMovie, Simulation, Idle, NoRig
<1>5. CASE \E n \in 3 .. 9 : j = ModulatedSim(n)
  BY <1>2, <1>5 DEF ModulatedSim, Simulation, Idle, NoRig
<1>6. CASE \E n \in 3 .. 9 : j = StaticSim(n)
  BY <1>2, <1>6 DEF StaticSim, Simulation, Idle, NoRig
<1> QED
  BY <1>1, <1>3, <1>4, <1>5, <1>6 DEF AllJobs

\* The rigs of the jobs are the bench and simulations.
LEMMA RigFacts ==
    ASSUME NEW r \in JobRigs
    PROVE  r.lights \in 3 .. 9 /\ (r = Bench \/ r = Simulation(r.lights))
PROOF
<1>1. PICK j \in Jobs : r = j.rig
  BY DEF JobRigs
<1> QED
  BY <1>1, JobFacts

\* A picture that has just been written is a picture, and is there.
LEMMA NewPicture ==
    ASSUME NEW r \in JobRigs
    PROVE  /\ [rig |-> r, current |-> TRUE] \in Pictures
           /\ [rig |-> r, current |-> TRUE] # Absent
PROOF
  BY DEF Pictures, Absent

LEMMA InitInvariant == Init => IInv
PROOF
<1> SUFFICES ASSUME Init PROVE IInv
  OBVIOUS
<1>1. images \in [Numbers -> Pictures \cup {Absent}]
  BY DEF Init, Numbers, Pictures
<1>2. TypeOK
  <2>1. told \in BOOLEAN /\ job \in Jobs \cup {Idle} /\ directions \in ToldRigs \cup {Missing}
    BY Zenon DEF Init
  <2>2. left \in 0 .. 2 /\ written \in 0 .. 9 /\ (job # Idle => written <= job.rig.lights)
    BY DEF Init
  <2> QED
    BY <1>1, <2>1, <2>2, Zenon DEF TypeOK
<1>3. Progress
  BY DEF Init, Progress
<1>4. Numbering
  BY DEF Init, Numbering, Present, Numbers, Simulation, Absent
<1> QED
  BY <1>2, <1>3, <1>4 DEF IInv

\* Starting a script forgets which pictures are current, and no more.
LEMMA StartStep ==
    ASSUME IInv, NEW j \in Jobs, Start(j)
    PROVE  IInv'
PROOF
<1> USE DEF IInv, Start
<1>0. j # Idle /\ j.rig.lights \in 3 .. 9 /\ j.passes \in 0 .. 2
  BY JobFacts
<1>1. ASSUME NEW k \in Numbers
      PROVE  /\ images'[k] = [rig |-> images[k].rig, current |-> FALSE]
             /\ images'[k] \in Pictures \cup {Absent}
             /\ images[k] = Absent => images'[k] = Absent
             /\ images'[k].rig = images[k].rig
  <2>1. images'[k] = [rig |-> images[k].rig, current |-> FALSE]
    BY <1>1
  <2>2. CASE images[k] = Absent
    <3>1. images'[k] = Absent
      BY <2>1, <2>2 DEF Absent
    <3> QED
      BY <2>1, <2>2, <3>1, Zenon
  <2>3. CASE images[k] # Absent
    <3>1. PICK r \in JobRigs \cup {Simulation(8)}, c \in BOOLEAN :
            images[k] = [rig |-> r, current |-> c]
      BY <1>1, <2>3, Zenon DEF TypeOK, Pictures
    <3>2. images'[k] = [rig |-> r, current |-> FALSE]
      BY <2>1, <3>1
    <3>3. [rig |-> r, current |-> FALSE] \in Pictures
      BY DEF Pictures
    <3>4. images[k].rig = r /\ images'[k].rig = r
      BY <3>1, <3>2
    <3> QED
      BY <2>1, <2>3, <3>2, <3>3, <3>4, Zenon
  <2> QED
    BY <2>2, <2>3
<1>2. images' \in [Numbers -> Pictures \cup {Absent}]
  BY <1>1
<1>3. TypeOK'
  <2>1. told' \in BOOLEAN /\ job' \in Jobs /\ directions' \in ToldRigs \cup {Missing}
    BY Zenon DEF TypeOK
  <2>2. left' \in 0 .. 2 /\ written' \in 0 .. 9 /\ written' <= job'.rig.lights
    BY <1>0
  <2> QED
    BY <1>2, <2>1, <2>2, Zenon DEF TypeOK
<1>4. Progress'
  BY DEF Progress
<1>5. Numbering'
  BY <1>1 DEF Numbering, Present
<1> QED
  BY <1>3, <1>4, <1>5

\* A job that runs is one of the table.
LEMMA Running ==
    ASSUME TypeOK, job # Idle
    PROVE  job \in Jobs /\ job.rig \in JobRigs /\ job.rig.lights \in 3 .. 9
PROOF
  BY JobFacts DEF TypeOK

LEMMA DirectionsStep ==
    ASSUME IInv, WriteDirections
    PROVE  IInv'
PROOF
<1> USE DEF IInv, WriteDirections
<1>1. job.rig \in ToldRigs
  BY Running DEF ToldRigs
<1>2. TypeOK'
  BY <1>1 DEF TypeOK
<1>3. Progress'
  BY DEF Progress
<1>4. Numbering'
  BY DEF Numbering, Present
<1> QED
  BY <1>2, <1>3, <1>4

\* The picture written is the next of this job, and not beyond its lights.
LEMMA PictureStep ==
    ASSUME IInv, WritePicture
    PROVE  IInv'
PROOF
<1> USE DEF IInv, WritePicture
<1> DEFINE new == [rig |-> job.rig, current |-> TRUE]
<1>1. job.rig \in JobRigs /\ job.rig.lights \in 3 .. 9
  BY Running
<1>2. written + 1 \in Numbers /\ written + 1 <= job.rig.lights
  BY <1>1 DEF TypeOK, Numbers
<1>3. new \in Pictures
  BY <1>1, NewPicture
<1>4. \A k \in Numbers : images'[k] = IF k = written + 1 THEN new ELSE images[k]
  BY DEF TypeOK
<1>5. new.rig = job.rig
  OBVIOUS
<1>6. TypeOK'
  <2>1. told' \in BOOLEAN /\ job' \in Jobs \cup {Idle} /\ directions' \in ToldRigs \cup {Missing}
    BY Zenon DEF TypeOK
  <2>2. left' \in 0 .. 2 /\ written' \in 0 .. 9 /\ written' <= job'.rig.lights
    BY <1>2 DEF TypeOK, Numbers
  <2>3. images' \in [Numbers -> Pictures \cup {Absent}]
    <3> HIDE DEF new
    <3>1. images' = [images EXCEPT ![written + 1] = new]
      BY DEF new
    <3>2. images \in [Numbers -> Pictures \cup {Absent}]
      BY Zenon DEF TypeOK
    <3> QED
      BY <1>3, <3>1, <3>2, Zenon
  <2> QED
    BY <2>1, <2>2, <2>3, Zenon DEF TypeOK
<1>7. Progress'
  <2>1. written' = written + 1 /\ written \in 0 .. 9
    BY DEF TypeOK
  <2>2. ASSUME NEW k \in 1 .. written + 1
        PROVE  images'[k] = new
    <3>1. k \in Numbers
      BY <1>2, <2>1 DEF Numbers
    <3>2. CASE k = written + 1
      BY <1>4, <3>1, <3>2
    <3>3. CASE k # written + 1
      <4>1. k \in 1 .. written
        BY <2>1, <3>3
      <4>2. images[k] = new
        BY <4>1 DEF Progress
      <4> QED
        BY <1>4, <3>1, <3>3, <4>2, Zenon
    <3> QED
      BY <3>2, <3>3
  <2> QED
    BY <2>1, <2>2 DEF Progress
<1>8. Numbering'
  BY <1>2, <1>4, <1>5 DEF Numbering, Present
<1> QED
  BY <1>6, <1>7, <1>8

\* The other steps write no file of the job, or end it.
LEMMA OtherSteps ==
    ASSUME IInv, Solve \/ SolveFails \/ Finish \/ Stop \/ Empty
    PROVE  IInv'
PROOF
<1> USE DEF IInv
<1>1. CASE Solve
  <2>1. TypeOK'
    <3>1. job.rig.lights \in 3 .. 9
      BY <1>1, Running DEF Solve, Ready
    <3> QED
      BY <1>1, <3>1 DEF TypeOK, Solve, Ready
  <2>2. Progress'
    BY <1>1 DEF Progress, Solve
  <2>3. Numbering'
    BY <1>1 DEF Numbering, Present, Solve
  <2> QED
    BY <2>1, <2>2, <2>3
<1>2. CASE SolveFails \/ Finish \/ Stop
  BY <1>2 DEF SolveFails, Finish, Stop, TypeOK, Progress, Numbering, Present
<1>3. CASE Empty
  <2>1. \A k \in Numbers : images'[k] = Absent
    BY <1>3 DEF Empty
  <2>2. TypeOK'
    BY <1>3 DEF Empty, TypeOK
  <2>3. Progress'
    BY <1>3 DEF Empty, Progress
  <2>4. Numbering'
    BY <2>1 DEF Numbering, Present
  <2> QED
    BY <2>2, <2>3, <2>4
<1> QED
  BY <1>1, <1>2, <1>3

LEMMA Invariance == Spec => []IInv
PROOF
<1>1. ASSUME IInv, [Next]_vars
      PROVE  IInv'
  <2>1. CASE UNCHANGED vars
    BY <1>1, <2>1 DEF vars, IInv, TypeOK, Progress, Numbering, Present
  <2>2. CASE Next
    BY <1>1, <2>2, StartStep, DirectionsStep, PictureStep, OtherSteps DEF Next
  <2> QED
    BY <1>1, <2>1, <2>2
<1> QED
  BY <1>1, InitInvariant, PTL DEF Spec

(***************************************************************************)
(* The types hold, whatever jobs are run.                                  *)
(***************************************************************************)
THEOREM TypeCorrect == Spec => []TypeOK
PROOF
<1>1. IInv => TypeOK
  BY DEF IInv
<1> QED
  BY <1>1, Invariance, PTL

\* About to solve, a job has written pictures 1 to its number of lights.
LEMMA AllWritten ==
    ASSUME IInv, Ready
    PROVE  /\ job \in Jobs /\ job.rig \in JobRigs /\ job.rig.lights \in 3 .. 9
           /\ 1 .. job.rig.lights \subseteq Present
           /\ \A k \in 1 .. job.rig.lights :
                 images[k] = [rig |-> job.rig, current |-> TRUE]
PROOF
<1>1. job \in Jobs /\ job.rig \in JobRigs /\ job.rig.lights \in 3 .. 9
  BY Running DEF IInv, Ready
<1>2. \A k \in 1 .. job.rig.lights : images[k] = [rig |-> job.rig, current |-> TRUE]
  BY DEF IInv, Progress, Ready
<1>3. 1 .. job.rig.lights \subseteq Present
  BY <1>1, <1>2, NewPicture DEF Present, Numbers
<1> QED
  BY <1>1, <1>2, <1>3

\* A simulation that is about to solve has written its directions.
LEMMA SimulationTold ==
    ASSUME IInv, Ready, job # FromMovie, job.rig # Bench
    PROVE  directions = job.rig
PROOF
<1>1. job \in Jobs
  BY Running DEF IInv, Ready
<1>2. job.directions \in {"first", "last"}
  BY <1>1, JobFacts
<1>3. told
  BY <1>2 DEF Ready
<1> QED
  BY <1>3 DEF IInv, Progress, Ready

\* The first pictures can be counted.
LEMMA CountFirst ==
    ASSUME NEW n \in 3 .. 9
    PROVE  IsFiniteSet(1 .. n) /\ Cardinality(1 .. n) = n
PROOF
<1>1. 1 \in Int /\ n \in Int /\ ~(1 > n) /\ n - 1 + 1 = n
  OBVIOUS
<1>2. Cardinality(1 .. n) = IF 1 > n THEN 0 ELSE n - 1 + 1
  BY <1>1, FS_Interval, Zenon
<1>3. IsFiniteSet(1 .. n)
  BY <1>1, FS_Interval, Zenon
<1> QED
  BY <1>1, <1>2, <1>3

\* The sets of pictures are finite, and a full set has no strays.
LEMMA NoStrays ==
    ASSUME NEW n \in 3 .. 9, 1 .. n \subseteq Present, Cardinality(Present) = n
    PROVE  Present = 1 .. n
PROOF
<1>1. IsFiniteSet(Present) /\ IsFiniteSet(1 .. n) /\ Cardinality(1 .. n) = n
  <2>1. IsFiniteSet(Numbers)
    BY CountFirst DEF Numbers
  <2>2. Present \subseteq Numbers
    BY DEF Present
  <2>3. IsFiniteSet(Present)
    BY <2>1, <2>2, FS_Subset
  <2>4. IsFiniteSet(1 .. n) /\ Cardinality(1 .. n) = n
    BY CountFirst
  <2> QED
    BY <2>3, <2>4
<1> QED
  BY <1>1, FS_Subset

(***************************************************************************)
(* As long as no simulation that writes directions has three lights, as    *)
(* the bench has: a reconstruction that gets through is of one set of      *)
(* lights and one movie.                                                   *)
(***************************************************************************)
THEOREM OneRig ==
    ASSUME NoSmallRig
    PROVE  Spec => []Sound
PROOF
<1>1. ASSUME IInv, Ready, Loadable, job # FromMovie
      PROVE  /\ directions = job.rig
             /\ \A k \in Present : images[k] = [rig |-> job.rig, current |-> TRUE]
  <2> DEFINE n == job.rig.lights
  <2>1. /\ job \in Jobs /\ job.rig \in JobRigs /\ n \in 3 .. 9
        /\ 1 .. n \subseteq Present
        /\ \A k \in 1 .. n : images[k] = [rig |-> job.rig, current |-> TRUE]
    BY <1>1, AllWritten
  <2>2. CASE job.rig # Bench
    <3>1. directions = job.rig
      BY <1>1, <2>2, SimulationTold
    <3>2. Present = 1 .. n
      BY <1>1, <2>1, <3>1, NoStrays DEF Loadable
    <3> QED
      BY <2>1, <3>1, <3>2
  <2>3. CASE job.rig = Bench
    <3>1. n = 3
      BY <2>3 DEF Bench
    <3>2. ASSUME NEW k \in Present PROVE k \in 1 .. n
      <4>1. images[1].rig.kind = "bench" /\ 1 \in Present
        BY <2>1, <2>3, <3>1 DEF Bench
      <4>2. images[k].rig.kind = "bench"
        BY <1>1, <4>1 DEF Loadable
      <4>3. images[k] \in Pictures
        BY <1>1 DEF IInv, TypeOK, Present
      <4>4. images[k].rig \in JobRigs \cup {Simulation(8)}
        BY <4>3 DEF Pictures
      <4>5. images[k].rig.lights = 3
        BY <4>2, <4>4, RigFacts DEF Simulation, Bench
      <4> QED
        BY <1>1, <3>1, <4>5 DEF IInv, Numbering, Present, Numbers
    <3>3. Present = 1 .. n
      BY <2>1, <3>2
    <3>4. Cardinality(Present) = 3
      BY <3>1, <3>3, CountFirst
    <3>5. directions.lights = 3 /\ directions \in ToldRigs
      BY <1>1, <3>4 DEF Loadable, IInv, TypeOK
    <3>6. directions = Bench
      <4>1. directions \in JobRigs
        BY <3>5 DEF JobRigs, ToldRigs
      <4> QED
        BY <3>5, <4>1, RigFacts DEF NoSmallRig
    <3> QED
      BY <2>1, <2>3, <3>3, <3>6
  <2> QED
    BY <2>2, <2>3
<1>2. IInv => Sound
  BY <1>1 DEF Sound
<1> QED
  BY <1>2, Invariance, PTL

(***************************************************************************)
(* As long as the number of sources of the simulations stays the same, and *)
(* is not smaller than that of the pictures in the repository, a           *)
(* simulation always gets through, whatever is run and stopped before it.  *)
(***************************************************************************)
THEOREM SimulationsLoad ==
    ASSUME NEW n, OneSize(n)
    PROVE  Spec => []SimulationLoads
PROOF
<1>1. ASSUME IInv, Ready, job.rig.kind = "simulation", job # FromMovie
      PROVE  Loadable
  <2>1. /\ job \in Jobs /\ job.rig \in JobRigs
        /\ 1 .. job.rig.lights \subseteq Present
        /\ \A k \in 1 .. job.rig.lights : images[k] = [rig |-> job.rig, current |-> TRUE]
    BY <1>1, AllWritten
  <2>2. job.rig = Simulation(n) /\ job.rig # Bench /\ job.rig.lights = n /\ n \in 8 .. 9
    BY <1>1, <2>1 DEF OneSize, Bench, Simulation
  <2>3. directions = job.rig
    BY <1>1, <2>2, SimulationTold
  <2>4. ASSUME NEW k \in Present PROVE k \in 1 .. n
    <3>1. images[k].rig \in {Bench, Simulation(n), Simulation(8), Simulation(3)}
      <4>1. images[k].rig \in JobRigs \cup {Simulation(8)}
        BY <1>1 DEF IInv, TypeOK, Present, Pictures
      <4>2. FromMovie.rig = Simulation(3)
        BY DEF FromMovie
      <4> QED
        BY <4>1, <4>2 DEF OneSize, JobRigs
    <3>2. images[k].rig.lights <= n
      BY <2>2, <3>1 DEF Bench, Simulation
    <3>3. images[k].rig.lights \in {3, n, 8} /\ k \in Numbers
      BY <3>1 DEF Present, Bench, Simulation
    <3> QED
      BY <1>1, <2>2, <3>2, <3>3 DEF IInv, Numbering, Numbers
  <2>5. Present = 1 .. n
    BY <2>1, <2>2, <2>4
  <2>6. Cardinality(Present) = n
    BY <2>2, <2>5, CountFirst, n \in 3 .. 9
  <2>7. directions # Missing
    BY <2>2, <2>3 DEF Missing, NoRig, Simulation
  <2> QED
    BY <2>1, <2>2, <2>3, <2>5, <2>6, <2>7 DEF Loadable
<1>2. IInv => SimulationLoads
  BY <1>1 DEF SimulationLoads
<1> QED
  BY <1>2, Invariance, PTL
=============================================================================
