----------------------------- MODULE ScanScripts -----------------------------
(***************************************************************************)
(* The MATLAB scripts that run the bench, as sequences of the steps that   *)
(* touch something outside the script: the workspace, the instrument       *)
(* objects, the serial line, the camera and the files.  A step is a record *)
(* whose op field names it; ScanHost says what each does.  Pauses are in   *)
(* ticks of 0.1 s, rounded down.                                           *)
(***************************************************************************)
EXTENDS Integers, Sequences, Functions

\* Workspace and instruments.
ClearAll       == [op |-> "clear"]
Release        == [op |-> "release"]     \* fclose and delete instrfindall, clear
QueryPort      == [op |-> "query"]       \* info = instrhwinfo('serial')
NeedPort       == [op |-> "need"]        \* error('No ports free!')
InitCamera     == [op |-> "camera", args |-> 2]
InitCameraOne  == [op |-> "camera", args |-> 1]
OpenPort       == [op |-> "open"]
ClosePort      == [op |-> "close"]
Mention(name)  == [op |-> "mention", name |-> name]
\* The line and the camera.
Command(c, k)  == [op |-> "command", byte |-> 64 * c + k]
Pause(t)       == [op |-> "pause", ticks |-> t]
Shoot(t)       == [op |-> "shoot", ticks |-> t]
\* Pictures; the end of a script stands for its last save.
Separate       == [op |-> "separate"]    \* one picture per frequency of the movie
Average        == [op |-> "average"]     \* one picture per movie
SaveDirections == [op |-> "directions"]  \* light_directions.txt
Reconstruct    == [op |-> "reconstruct"] \* demoPSBox

\* The codes that do not blink.
Off == 0
Constant == 56

\* Ticks a capture lasts: 398 frames, 100 frames or one, at 398 frames a second.
Movie == 10
Burst == 3
Frame == 1

\* scanner/DemoScan.m
DemoScan ==
    << ClearAll, Release, QueryPort, NeedPort, InitCamera, OpenPort, Pause(11),
       Command(3, 30), Pause(11), Command(2, 36), Pause(11),
       Command(1, 20), Pause(11), Shoot(Movie),
       Separate, Reconstruct,
       Command(1, Off), Pause(12), Command(2, Off), Pause(12),
       Command(3, Off), Pause(11), ClosePort,
       Mention("bn") >>

\* scanner/demoStaticScan.m
DemoStaticScan ==
    << ClearAll, Release, QueryPort, NeedPort, OpenPort, Pause(10), InitCamera,
       Command(2, Constant), Pause(11), Command(1, Constant), Pause(11),
       Command(2, Off), Pause(11), Shoot(Burst), Pause(2),
       Command(1, Off), Pause(1), Command(1, Off), Pause(10),
       Command(2, Constant), Pause(10), Shoot(Burst), Pause(1),
       Command(2, Off), Pause(8), Command(3, Constant), Pause(10), Shoot(Burst),
       Command(2, Constant), Pause(10), Command(1, Constant), Pause(10), Shoot(Burst),
       Pause(10), Command(2, Off), Pause(10), Command(2, Off), Pause(10),
       Command(1, Off), Pause(10), Command(3, Off), Pause(10),
       Command(3, Off), ClosePort,
       Average, Reconstruct >>

\* calibrate/calibrateWithBall.m: the port is queried before the release.
\* The release it does before that one when no port is listed has the same effect.
CalibrateWithBall ==
    << ClearAll, QueryPort, Release, InitCamera, OpenPort, Pause(10),
       Command(3, 44), Pause(10), Command(2, 43), Pause(10),
       Command(1, 50), Pause(10), Shoot(Movie),
       Command(1, Off), Pause(10), Command(2, Off), Pause(10),
       Command(3, Off), Pause(10), ClosePort,
       Separate, SaveDirections >>

\* calibrate/calibrateWithBallStatic.m: InitCameraRaw_ gets one argument.
CalibrateWithBallStatic ==
    << ClearAll, QueryPort, Release, InitCameraOne, OpenPort, Pause(10),
       InitCameraOne,
       Command(1, Constant), Pause(10), Shoot(Frame), Pause(1), Command(1, Off), Pause(9),
       Command(2, Constant), Pause(10), Shoot(Frame), Pause(1), Command(2, Off), Pause(9),
       Command(3, Constant), Pause(10), Shoot(Frame), Command(3, Off), ClosePort,
       Average, SaveDirections >>

ScriptNames == {"DemoScan", "demoStaticScan", "calibrateWithBall", "calibrateWithBallStatic"}

Steps(script) ==
    CASE script = "DemoScan" -> DemoScan
      [] script = "demoStaticScan" -> DemoStaticScan
      [] script = "calibrateWithBall" -> CalibrateWithBall
      [] script = "calibrateWithBallStatic" -> CalibrateWithBallStatic

\* The characters a script sends.
BytesOf(script) ==
    {step.byte : step \in {s \in Range(Steps(script)) : s.op = "command"}}
=============================================================================
