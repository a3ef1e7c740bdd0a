------------------------ MODULE MCReconstructionData ------------------------
EXTENDS ReconstructionData

BenchJobs == {Calibration, Scan, ScanAgain}

\* The number of sources in both simulations of the repository.
Shipped == {ModulatedSim(8), StaticSim(8)}

MCJobs == BenchJobs \cup Shipped \cup {FromMovie}
=============================================================================
