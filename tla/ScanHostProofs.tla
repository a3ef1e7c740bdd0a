--------------------------- MODULE ScanHostProofs ---------------------------
(***************************************************************************)
(* Proofs about ScanHost: for any of the four scripts, any number of runs, *)
(* any faults and any use of the control window.                           *)
(***************************************************************************)
EXTENDS ScanHost, FiniteSetTheorems, TLAPS

-----------------------------------------------------------------------------
(* The scripts: which steps are where.                                     *)

\* The steps, as records.
USE DEF ClearAll, Release, QueryPort, NeedPort, InitCamera, InitCameraOne, OpenPort,
    ClosePort, Mention, Command, Pause, Shoot, Separate, Average, SaveDirections,
    Reconstruct, Off, Constant, Movie, Burst, Frame

\* How long the scripts are.
LEMMA ScriptLengths ==
    /\ Len(Steps("DemoScan")) = 24 /\ Len(Steps("demoStaticScan")) = 46
    /\ Len(Steps("calibrateWithBall")) = 22 /\ Len(Steps("calibrateWithBallStatic")) = 26
    /\ \A s \in ScriptNames :
          Len(Steps(s)) \in Nat \ {0} /\ DOMAIN Steps(s) = 1 .. Len(Steps(s))
<1> DEFINE Shape(s) == Len(Steps(s)) \in Nat \ {0} /\ DOMAIN Steps(s) = 1 .. Len(Steps(s))
<1>1. Len(Steps("DemoScan")) = 24 /\ Shape("DemoScan")
  BY DEF Steps, DemoScan
<1>2. Len(Steps("demoStaticScan")) = 46 /\ Shape("demoStaticScan")
  BY DEF Steps, DemoStaticScan
<1>3. Len(Steps("calibrateWithBall")) = 22 /\ Shape("calibrateWithBall")
  BY DEF Steps, CalibrateWithBall
<1>4. Len(Steps("calibrateWithBallStatic")) = 26 /\ Shape("calibrateWithBallStatic")
  BY DEF Steps, CalibrateWithBallStatic
<1>5. \A s \in ScriptNames : Shape(s)
  BY <1>1, <1>2, <1>3, <1>4 DEF ScriptNames
<1>6. QED
  BY <1>1, <1>2, <1>3, <1>4, <1>5

\* scanner/DemoScan.m.
LEMMA DemoScanSteps ==
    LET s == "DemoScan" IN
    \A l \in 1 .. 24 :
      /\ Steps(s)[l].op = "command" <=> l \in {8, 10, 12, 17, 19, 21}
      /\ Steps(s)[l].op = "pause" <=> l \in {7, 9, 11, 13, 18, 20, 22}
      /\ Steps(s)[l].op = "shoot" <=> l = 14
      /\ Steps(s)[l].op = "open" <=> l = 6
      /\ Steps(s)[l].op = "close" <=> l = 23
      /\ Steps(s)[l].op = "release" <=> l = 2
      /\ Steps(s)[l].op = "separate" <=> l = 15
      /\ Steps(s)[l].op = "reconstruct" <=> l = 16
      /\ Steps(s)[l].op \notin {"average", "directions"}
      /\ Steps(s)[l].op = "pause" => Steps(s)[l].ticks \in Nat \ {0} /\ Steps(s)[l].ticks >= 8
      /\ Steps(s)[l].op = "shoot" => Steps(s)[l].ticks \in Nat \ {0}
      /\ Steps(s)[l].op = "camera" => Steps(s)[l].args = 2
  BY DEF Steps, DemoScan

\* Its commands: channels and codes.
LEMMA DemoScanCommands ==
    LET s == "DemoScan" IN
    \A l \in 1 .. 24 :
      /\ Steps(s)[l].op = "command" => Channel(Steps(s)[l].byte) \in Channels
      /\ l \in {12, 17} => Channel(Steps(s)[l].byte) = 1
      /\ l \in {10, 19} => Channel(Steps(s)[l].byte) = 2
      /\ l \in {8, 21} => Channel(Steps(s)[l].byte) = 3
      /\ l \in {17, 19, 21} => Code(Steps(s)[l].byte) = Off
      /\ l = 8 => Code(Steps(s)[l].byte) = 30
      /\ l = 10 => Code(Steps(s)[l].byte) = 36
      /\ l = 12 => Code(Steps(s)[l].byte) = 20
  BY DEF Steps, DemoScan, Channel, Code, Channels

\* scanner/demoStaticScan.m.
LEMMA DemoStaticScanSteps ==
    LET s == "demoStaticScan" IN
    \A l \in 1 .. 46 :
      /\ Steps(s)[l].op = "command" <=>
            l \in {8, 10, 12, 16, 18, 20, 24, 26, 29, 31, 35, 37, 39, 41, 43}
      /\ Steps(s)[l].op = "pause" <=>
            l \in {6, 9, 11, 13, 15, 17, 19, 21, 23, 25, 27, 30, 32, 34, 36, 38, 40, 42}
      /\ Steps(s)[l].op = "shoot" <=> l \in {14, 22, 28, 33}
      /\ Steps(s)[l].op = "open" <=> l = 5
      /\ Steps(s)[l].op = "close" <=> l = 44
      /\ Steps(s)[l].op = "release" <=> l = 2
      /\ Steps(s)[l].op = "average" <=> l = 45
      /\ Steps(s)[l].op = "reconstruct" <=> l = 46
      /\ Steps(s)[l].op \notin {"separate", "directions"}
      /\ Steps(s)[l].op = "pause" => Steps(s)[l].ticks \in Nat \ {0}
      /\ Steps(s)[l].op = "pause" /\ l \notin {15, 17, 23} => Steps(s)[l].ticks >= 8
      /\ Steps(s)[l].op = "shoot" => Steps(s)[l].ticks \in Nat \ {0}
      /\ Steps(s)[l].op = "camera" => Steps(s)[l].args = 2
  BY DEF Steps, DemoStaticScan

\* Its commands: channels and codes.
LEMMA DemoStaticScanCommands ==
    LET s == "demoStaticScan" IN
    /\ Steps(s)[16] = Steps(s)[18] /\ Steps(s)[41] = Steps(s)[43]
    /\ \A l \in 1 .. 46 :
          /\ Steps(s)[l].op = "command" => Channel(Steps(s)[l].byte) \in Channels
          /\ l \in {10, 16, 18, 31, 39} => Channel(Steps(s)[l].byte) = 1
          /\ l \in {8, 12, 20, 24, 29, 35, 37} => Channel(Steps(s)[l].byte) = 2
          /\ l \in {26, 41, 43} => Channel(Steps(s)[l].byte) = 3
          /\ l \in {8, 10, 20, 26, 29, 31} => Code(Steps(s)[l].byte) = Constant
          /\ l \in {12, 16, 18, 24, 35, 37, 39, 41, 43} => Code(Steps(s)[l].byte) = Off
  BY DEF Steps, DemoStaticScan, Channel, Code, Channels

\* calibrate/calibrateWithBall.m.
LEMMA CalibrateWithBallSteps ==
    LET s == "calibrateWithBall" IN
    \A l \in 1 .. 22 :
      /\ Steps(s)[l].op = "command" <=> l \in {7, 9, 11, 14, 16, 18}
      /\ Steps(s)[l].op = "pause" <=> l \in {6, 8, 10, 12, 15, 17, 19}
      /\ Steps(s)[l].op = "shoot" <=> l = 13
      /\ Steps(s)[l].op = "open" <=> l = 5
      /\ Steps(s)[l].op = "close" <=> l = 20
      /\ Steps(s)[l].op = "release" <=> l = 3
      /\ Steps(s)[l].op = "separate" <=> l = 21
      /\ Steps(s)[l].op = "directions" <=> l = 22
      /\ Steps(s)[l].op \notin {"average", "reconstruct"}
      /\ Steps(s)[l].op = "pause" => Steps(s)[l].ticks \in Nat \ {0} /\ Steps(s)[l].ticks >= 8
      /\ Steps(s)[l].op = "shoot" => Steps(s)[l].ticks \in Nat \ {0}
      /\ Steps(s)[l].op = "camera" => Steps(s)[l].args = 2
  BY DEF Steps, CalibrateWithBall

\* Its commands: channels and codes.
LEMMA CalibrateWithBallCommands ==
    LET s == "calibrateWithBall" IN
    \A l \in 1 .. 22 :
      /\ Steps(s)[l].op = "command" => Channel(Steps(s)[l].byte) \in Channels
      /\ l \in {11, 14} => Channel(Steps(s)[l].byte) = 1
      /\ l \in {9, 16} => Channel(Steps(s)[l].byte) = 2
      /\ l \in {7, 18} => Channel(Steps(s)[l].byte) = 3
      /\ l \in {14, 16, 18} => Code(Steps(s)[l].byte) = Off
      /\ l = 7 => Code(Steps(s)[l].byte) = 44
      /\ l = 9 => Code(Steps(s)[l].byte) = 43
      /\ l = 11 => Code(Steps(s)[l].byte) = 50
  BY DEF Steps, CalibrateWithBall, Channel, Code, Channels

\* calibrate/calibrateWithBallStatic.m: no step behind the fourth is reached.
LEMMA CalibrateWithBallStaticSteps ==
    LET s == "calibrateWithBallStatic" IN
    \A l \in 1 .. 26 :
      /\ Steps(s)[l].op = "command" <=> l \in {8, 12, 14, 18, 20, 23}
      /\ Steps(s)[l].op = "pause" <=> l \in {6, 9, 11, 13, 15, 17, 19, 21}
      /\ Steps(s)[l].op = "shoot" <=> l \in {10, 16, 22}
      /\ Steps(s)[l].op = "open" <=> l = 5
      /\ Steps(s)[l].op = "close" <=> l = 24
      /\ Steps(s)[l].op = "release" <=> l = 3
      /\ Steps(s)[l].op = "camera" <=> l \in {4, 7}
      /\ Steps(s)[l].op \notin {"separate", "reconstruct"}
      /\ Steps(s)[l].op = "pause" => Steps(s)[l].ticks \in Nat \ {0}
      /\ Steps(s)[l].op = "pause" /\ l \notin {11, 17} => Steps(s)[l].ticks >= 8
      /\ Steps(s)[l].op = "shoot" => Steps(s)[l].ticks \in Nat \ {0}
      /\ Steps(s)[l].op = "camera" => Steps(s)[l].args = 1
  BY DEF Steps, CalibrateWithBallStatic

\* Its commands: channels and codes.
LEMMA CalibrateWithBallStaticCommands ==
    LET s == "calibrateWithBallStatic" IN
    \A l \in 1 .. 26 :
      /\ Steps(s)[l].op = "command" => Channel(Steps(s)[l].byte) \in Channels
      /\ l \in {8, 12} => Channel(Steps(s)[l].byte) = 1
      /\ l \in {14, 18} => Channel(Steps(s)[l].byte) = 2
      /\ l \in {20, 23} => Channel(Steps(s)[l].byte) = 3
  BY DEF Steps, CalibrateWithBallStatic, Channel, Channels

\* Step j is a pause of 0.8 s or more before step l, and no command follows it.
AfterPause(s, l, j) ==
    /\ j \in 1 .. (l - 1) /\ Steps(s)[j].op = "pause"
    /\ Steps(s)[j].ticks \in Nat /\ Steps(s)[j].ticks >= 8
    /\ \A i \in (j + 1) .. (l - 1) : Steps(s)[i].op # "command"

\* Step l opens the port, and step i before it released it.
AfterRelease(s, l, i) ==
    /\ i \in 1 .. (l - 1) /\ Steps(s)[i].op = "release"
    /\ \A j \in i .. (l - 1) : Steps(s)[j].op # "open"

\* DemoScan pauses before its commands and captures.
LEMMA DemoScanPauses ==
    ASSUME NEW l \in 1 .. 24
    PROVE  LET s == "DemoScan" IN
           /\ Steps(s)[l].op \in {"command", "shoot"} =>
                 AfterPause(s, l, IF l = 17 THEN 13 ELSE l - 1)
           /\ Steps(s)[l].op = "open" => AfterRelease(s, l, 2)
  BY DEF AfterPause, AfterRelease, Steps, DemoScan

\* demoStaticScan pauses before its commands and captures, but for the 18th step.
LEMMA DemoStaticScanPauses ==
    ASSUME NEW l \in 1 .. 46
    PROVE  LET s == "demoStaticScan" IN
           /\ Steps(s)[l].op \in {"command", "shoot"} /\ l # 18 =>
                 AfterPause(s, l, CASE l \in {16, 24} -> l - 3 [] l \in {8, 29} -> l - 2
                                    [] OTHER -> l - 1)
           /\ Steps(s)[l].op = "open" => AfterRelease(s, l, 2)
<1>1. CASE l <= 7
    BY <1>1, SMTT(60) DEF AfterPause, AfterRelease, Steps, DemoStaticScan
<1>2. CASE l \in 8 .. 15
    BY <1>2, SMTT(60) DEF AfterPause, AfterRelease, Steps, DemoStaticScan
<1>3. CASE l \in 16 .. 23
    BY <1>3, SMTT(60) DEF AfterPause, AfterRelease, Steps, DemoStaticScan
<1>4. CASE l \in 24 .. 34
    BY <1>4, SMTT(60) DEF AfterPause, AfterRelease, Steps, DemoStaticScan
<1>5. CASE l > 34
    BY <1>5, SMTT(60) DEF AfterPause, AfterRelease, Steps, DemoStaticScan
<1>6. QED
  BY <1>1, <1>2, <1>3, <1>4, <1>5

\* calibrateWithBall pauses before its commands and captures.
LEMMA CalibrateWithBallPauses ==
    ASSUME NEW l \in 1 .. 22
    PROVE  LET s == "calibrateWithBall" IN
           /\ Steps(s)[l].op \in {"command", "shoot"} =>
                 AfterPause(s, l, IF l = 14 THEN 12 ELSE l - 1)
           /\ Steps(s)[l].op = "open" => AfterRelease(s, l, 3)
  BY DEF AfterPause, AfterRelease, Steps, CalibrateWithBall

\* calibrateWithBallStatic pauses before its commands and captures.
LEMMA CalibrateWithBallStaticPauses ==
    ASSUME NEW l \in 1 .. 26
    PROVE  LET s == "calibrateWithBallStatic" IN
           /\ Steps(s)[l].op \in {"command", "shoot"} =>
                 AfterPause(s, l, CASE l \in {12, 18} -> l - 3 [] l \in {8, 23} -> l - 2
                                    [] OTHER -> l - 1)
           /\ Steps(s)[l].op = "open" => AfterRelease(s, l, 3)
  BY DEF AfterPause, AfterRelease, Steps, CalibrateWithBallStatic

\* The commands of DemoScan before its capture.
LEMMA DemoScanSent == CommandsBefore("DemoScan", 14) = {8, 10, 12}
  BY DEF CommandsBefore, Steps, DemoScan

\* The commands of demoStaticScan before its first three captures.
LEMMA DemoStaticScanSent ==
    /\ CommandsBefore("demoStaticScan", 14) = {8, 10, 12}
    /\ CommandsBefore("demoStaticScan", 22) = {8, 10, 12, 16, 18, 20}
    /\ CommandsBefore("demoStaticScan", 28) = {8, 10, 12, 16, 18, 20, 24, 26}
  BY DEF CommandsBefore, Steps, DemoStaticScan

\* The commands of calibrateWithBall before its capture.
LEMMA CalibrateWithBallSent == CommandsBefore("calibrateWithBall", 13) = {7, 9, 11}
  BY DEF CommandsBefore, Steps, CalibrateWithBall

\* Step k is the last command on channel c before step l, and turns it off.
TurnsOff(s, l, k, c) ==
    /\ LastOnChannel(s, l, k)
    /\ Channel(Steps(s)[k].byte) = c /\ Code(Steps(s)[k].byte) = Off

\* Behind the fclose of DemoScan.
LEMMA DemoScanClosed ==
    LET s == "DemoScan" IN
    /\ \A i \in 1 .. 24 : Steps(s)[i].op = "close" => i = 23
    /\ \A l \in 24 .. 25 :
          /\ AfterPause(s, l, 22) /\ Steps(s)[l - 1].op # "pause"
          /\ TurnsOff(s, l, 17, 1) /\ TurnsOff(s, l, 19, 2) /\ TurnsOff(s, l, 21, 3)
<1> DEFINE s == "DemoScan"
<1> USE DEF Steps, DemoScan
<1>1. \A i \in 1 .. 24 : Steps(s)[i].op = "close" => i = 23
  OBVIOUS
<1>2. ASSUME NEW l \in 24 .. 25
      PROVE  /\ AfterPause(s, l, 22) /\ CommandsBefore(s, l) = {8, 10, 12, 17, 19, 21}
             /\ Steps(s)[l - 1].op # "pause"
  BY <1>2 DEF AfterPause, CommandsBefore
<1>3. ASSUME NEW l \in 24 .. 25
      PROVE  TurnsOff(s, l, 17, 1) /\ TurnsOff(s, l, 19, 2) /\ TurnsOff(s, l, 21, 3)
  BY <1>2, <1>3 DEF TurnsOff, LastOnChannel, Channel, Code
<1>4. QED
  BY <1>1, <1>2, <1>3

\* Behind the fclose of calibrateWithBall.
LEMMA CalibrateWithBallClosed ==
    LET s == "calibrateWithBall" IN
    /\ \A i \in 1 .. 22 : Steps(s)[i].op = "close" => i = 20
    /\ \A l \in 21 .. 23 :
          /\ AfterPause(s, l, 19) /\ Steps(s)[l - 1].op # "pause"
          /\ TurnsOff(s, l, 14, 1) /\ TurnsOff(s, l, 16, 2) /\ TurnsOff(s, l, 18, 3)
<1> DEFINE s == "calibrateWithBall"
<1> USE DEF Steps, CalibrateWithBall
<1>1. \A i \in 1 .. 22 : Steps(s)[i].op = "close" => i = 20
  OBVIOUS
<1>2. ASSUME NEW l \in 21 .. 23
      PROVE  /\ AfterPause(s, l, 19) /\ CommandsBefore(s, l) = {7, 9, 11, 14, 16, 18}
             /\ Steps(s)[l - 1].op # "pause"
  BY <1>2 DEF AfterPause, CommandsBefore
<1>3. ASSUME NEW l \in 21 .. 23
      PROVE  TurnsOff(s, l, 14, 1) /\ TurnsOff(s, l, 16, 2) /\ TurnsOff(s, l, 18, 3)
  BY <1>2, <1>3 DEF TurnsOff, LastOnChannel, Channel, Code
<1>4. QED
  BY <1>1, <1>2, <1>3

\* Behind the fclose of demoStaticScan, which repeats the last command at once.
LEMMA DemoStaticScanClosed ==
    LET s == "demoStaticScan" IN
    /\ \A i \in 1 .. 46 : Steps(s)[i].op = "close" => i = 44
    /\ AfterPause(s, 43, 42) /\ LastCommand(s, 43, 41) /\ Steps(s)[41] = Steps(s)[43]
    /\ \A l \in 45 .. 47 :
          /\ LastCommand(s, l, 43) /\ Steps(s)[l - 1].op # "pause"
          /\ TurnsOff(s, l, 39, 1) /\ TurnsOff(s, l, 37, 2) /\ TurnsOff(s, l, 43, 3)
<1> DEFINE s == "demoStaticScan"
           sent == {8, 10, 12, 16, 18, 20, 24, 26, 29, 31, 35, 37, 39, 41}
<1> USE DEF Steps, DemoStaticScan
<1>1. \A i \in 1 .. 46 : Steps(s)[i].op = "close" => i = 44
  OBVIOUS
<1>2. AfterPause(s, 43, 42) /\ CommandsBefore(s, 43) = sent /\ Steps(s)[41] = Steps(s)[43]
  BY DEF AfterPause, CommandsBefore
<1>3. CommandsBefore(s, 44) = sent \cup {43}
  BY DEF CommandsBefore
<1>4. ASSUME NEW l \in 45 .. 47
      PROVE  CommandsBefore(s, l) = sent \cup {43} /\ Steps(s)[l - 1].op # "pause"
  <2>1. Steps(s)[l - 1].op # "pause" /\ \A i \in 44 .. (l - 1) : Steps(s)[i].op # "command"
    BY SMTT(60)
  <2>2. 1 .. (l - 1) = (1 .. (44 - 1)) \cup (44 .. (l - 1))
    OBVIOUS
  <2>3. CommandsBefore(s, l) = CommandsBefore(s, 44)
    BY <2>1, <2>2 DEF CommandsBefore
  <2>4. QED
    BY <1>3, <2>1, <2>3
<1>5. /\ Channel(Steps(s)[39].byte) = 1 /\ Code(Steps(s)[39].byte) = Off
      /\ Channel(Steps(s)[37].byte) = 2 /\ Code(Steps(s)[37].byte) = Off
      /\ Channel(Steps(s)[43].byte) = 3 /\ Code(Steps(s)[43].byte) = Off
      /\ Channel(Steps(s)[41].byte) = 3
  BY DEF Channel, Code
<1>6. ASSUME NEW l \in 45 .. 47
      PROVE  TurnsOff(s, l, 39, 1) /\ TurnsOff(s, l, 37, 2) /\ TurnsOff(s, l, 43, 3)
  <2> HIDE DEF Steps, DemoStaticScan, s
  <2>1. \A j \in sent \cup {43} : j <= 37 \/ j \in {39, 41, 43}
    OBVIOUS
  <2>2. LastOnChannel(s, l, 39) /\ LastOnChannel(s, l, 37) /\ LastOnChannel(s, l, 43)
    BY <1>4, <1>5, <1>6, <2>1 DEF LastOnChannel
  <2>3. QED
    BY <1>5, <2>2 DEF TurnsOff
<1>7. LastCommand(s, 43, 41)
  BY <1>2 DEF LastCommand
<1>8. ASSUME NEW l \in 45 .. 47 PROVE LastCommand(s, l, 43)
  BY <1>4, <1>8 DEF LastCommand
<1>9. QED
  BY <1>1, <1>2, <1>4, <1>6, <1>7, <1>8

\* No camera starts in calibrateWithBallStatic, and what counts comes after that.
LEMMA CalibrateWithBallStaticClosed ==
    LET s == "calibrateWithBallStatic" IN
    /\ Steps(s)[4].op = "camera" /\ Steps(s)[4].args # 2
    /\ \A i \in 1 .. 26 :
          Steps(s)[i].op \in {"close", "shoot", "average", "directions"} => i > 4
  BY DEF Steps, CalibrateWithBallStatic

\* Where the scripts need a port, start the camera, stumble and close the port.
LEMMA DemoScanEnds ==
    LET s == "DemoScan" IN
    /\ \A l \in 1 .. 24 :
          /\ Steps(s)[l].op \in {"need", "open"} => l \in 1 .. 6
          /\ Steps(s)[l].op = "camera" => Steps(s)[l].args = 2
          /\ Steps(s)[l].op = "mention" => l = 24
    /\ \A l \in 1 .. 6 : Steps(s)[l].op # "command"
    /\ Steps(s)[23].op = "close"
  BY DEF Steps, DemoScan

LEMMA DemoStaticScanEnds ==
    LET s == "demoStaticScan" IN
    /\ \A l \in 1 .. 46 :
          /\ Steps(s)[l].op \in {"need", "open"} => l \in 1 .. 6
          /\ Steps(s)[l].op = "camera" => Steps(s)[l].args = 2
          /\ Steps(s)[l].op # "mention"
    /\ \A l \in 1 .. 6 : Steps(s)[l].op # "command"
  BY DEF Steps, DemoStaticScan

LEMMA CalibrateWithBallEnds ==
    LET s == "calibrateWithBall" IN
    /\ \A l \in 1 .. 22 :
          /\ Steps(s)[l].op \in {"need", "open"} => l \in 1 .. 6
          /\ Steps(s)[l].op = "camera" => Steps(s)[l].args = 2
          /\ Steps(s)[l].op # "mention"
    /\ \A l \in 1 .. 6 : Steps(s)[l].op # "command"
    /\ Steps(s)[20].op = "close"
  BY DEF Steps, CalibrateWithBall

LEMMA CalibrateWithBallStaticEnds ==
    LET s == "calibrateWithBallStatic" IN
    /\ \A l \in 1 .. 26 : Steps(s)[l].op # "mention"
    /\ \A l \in 1 .. 6 : Steps(s)[l].op # "command"
  BY DEF Steps, CalibrateWithBallStatic

HIDE DEF ClearAll, Release, QueryPort, NeedPort, InitCamera, InitCameraOne, OpenPort,
    ClosePort, Mention, Command, Pause, Shoot, Separate, Average, SaveDirections,
    Reconstruct, Off, Constant, Movie, Burst, Frame

\* The types of the steps' fields.
LEMMA StepTypes ==
    ASSUME NEW s \in Scripts
    PROVE  /\ Len(Steps(s)) \in Nat \ {0} /\ DOMAIN Steps(s) = 1 .. Len(Steps(s))
           /\ \A l \in 1 .. Len(Steps(s)) :
                 /\ Steps(s)[l].op \in {"pause", "shoot"} => Steps(s)[l].ticks \in Nat \ {0}
                 /\ Steps(s)[l].op = "command" =>
                       Steps(s)[l].byte \in Bytes /\ Channel(Steps(s)[l].byte) \in Channels
<1> DEFINE Shape == Len(Steps(s)) \in Nat \ {0} /\ DOMAIN Steps(s) = 1 .. Len(Steps(s))
           Fields(l) ==
             /\ Steps(s)[l].op = "pause" => Steps(s)[l].ticks \in Nat \ {0}
             /\ Steps(s)[l].op = "shoot" => Steps(s)[l].ticks \in Nat \ {0}
             /\ Steps(s)[l].op = "command" => Channel(Steps(s)[l].byte) \in Channels
<1>1. ASSUME s = "DemoScan", NEW l \in 1 .. Len(Steps(s)) PROVE Fields(l)
  BY <1>1, ScriptLengths, DemoScanSteps, DemoScanCommands
<1>2. ASSUME s = "demoStaticScan", NEW l \in 1 .. Len(Steps(s)) PROVE Fields(l)
  BY <1>2, ScriptLengths, DemoStaticScanSteps, DemoStaticScanCommands
<1>3. ASSUME s = "calibrateWithBall", NEW l \in 1 .. Len(Steps(s)) PROVE Fields(l)
  BY <1>3, ScriptLengths, CalibrateWithBallSteps, CalibrateWithBallCommands
<1>4. ASSUME s = "calibrateWithBallStatic", NEW l \in 1 .. Len(Steps(s)) PROVE Fields(l)
  BY <1>4, ScriptLengths, CalibrateWithBallStaticSteps, CalibrateWithBallStaticCommands
<1>5. Shape
  BY ScriptLengths, HostAssumption DEF ScriptNames
<1>6. ASSUME NEW l \in 1 .. Len(Steps(s)), Steps(s)[l].op = "command"
      PROVE  Steps(s)[l].byte \in Bytes
  <2>1. Steps(s)[l].byte \in BytesOf(s)
    BY <1>5, <1>6 DEF BytesOf, Range
  <2>2. QED
    BY <2>1, HostAssumption
<1>7. QED
  BY <1>1, <1>2, <1>3, <1>4, <1>5, <1>6, HostAssumption DEF ScriptNames

-----------------------------------------------------------------------------
(* Types.                                                                  *)

\* What the UART operators do to the record, field by field.
LEMMA UartTypes ==
    ASSUME NEW u \in UartState, NEW b \in Character
    PROVE  /\ UartReset \in UartState
           /\ Arrive(u, b) \in UartState
           /\ ReadData(u) \in UartState
           /\ ArriveDuringRead(u, b) \in UartState
<1>1. UartReset \in UartState
  BY DEF UartReset, UartState, Character
<1>2. (u.roe \/ u.rrdy) \in BOOLEAN
  BY Zenon
<1>3. Arrive(u, b) \in UartState
  BY <1>2 DEF Arrive, UartState
<1>4. ReadData(u) \in UartState
  BY DEF ReadData, UartState
<1>5. ArriveDuringRead(u, b) \in UartState
  BY <1>2 DEF ArriveDuringRead, UartState
<1> QED BY <1>1, <1>3, <1>4, <1>5

\* Of the bus registers the LED units get codes.
LEMMA ShownType == LinkTypeOK => Shown(bus) \in [Channels -> Codes]
  BY DEF LinkTypeOK, Shown, Code, Codes, Character

\* The steps of the link keep its variables in their types.
LEMMA LinkTypes ==
    ASSUME LinkTypeOK,
           \/ Receive \/ Sample \/ SampleColliding \/ Drive \/ Echo \/ Tick
           \/ \E b \in Bytes : Send(b)
           \/ UNCHANGED linkVars
    PROVE  LinkTypeOK'
<1> USE LinkAssumption DEF LinkTypeOK
<1>1. CASE Receive
  <2>1. uart' \in UartState
    BY <1>1, UartTypes DEF Receive
  <2>2. QED
    BY <1>1, <2>1 DEF Receive
<1>2. CASE Sample \/ SampleColliding
  <2>1. uart' \in UartState
    BY <1>2, UartTypes DEF Sample, SampleColliding
  <2>2. a' \in Character /\ pc' = "drive" /\ elapsed' \in 0 .. Period
    BY <1>2 DEF Sample, SampleColliding, ReadRxData, UartState
  <2>3. QED
    BY <1>2, <2>1, <2>2 DEF Sample, SampleColliding, ReadRxData
<1>3. CASE Drive
  BY <1>3 DEF Drive, Channels
<1>4. CASE Echo
  <2>1. echo' \in [label : 0 .. 3, value : Character]
    BY <1>4 DEF Echo
  <2>2. QED
    BY <1>4, <2>1 DEF Echo
<1>5. CASE Tick
  BY <1>5 DEF Tick
<1>6. ASSUME NEW b \in Bytes, Send(b) PROVE LinkTypeOK'
  BY <1>6 DEF Send
<1>7. CASE UNCHANGED linkVars
  BY <1>7 DEF linkVars
<1>8. QED
  BY <1>1, <1>2, <1>3, <1>4, <1>5, <1>6, <1>7

\* The types in four parts: the link, the run, the instruments, the pictures.
RunTypeOK ==
    /\ script \in Scripts \cup {"none"}
    /\ script # "none" => line \in 1 .. Len(Steps(script)) + 1
    /\ wait \in Nat
    /\ ended \in Outcomes
    /\ runs \in 0 .. MaxRuns
PortTypeOK ==
    /\ workspace \subseteq {"info", "s", "vid"}
    /\ listed \in BOOLEAN
    /\ objects \subseteq {"script", "gui"}
    /\ open \in objects \cup {"none"}
CaptureTypeOK ==
    /\ shooting \in BOOLEAN
    /\ seen \subseteq [Channels -> Codes]
    /\ movies \in Seq(SUBSET [Channels -> Codes])
ResultTypeOK ==
    /\ pictures \in [Numbers -> SUBSET Channels]
    /\ directions \in {Missing} \cup [Numbers -> SUBSET Channels]
    /\ asked \in [Channels -> Codes]

\* Together they are the type invariant.
LEMMA TypeParts ==
    TypeOK <=> LinkTypeOK /\ RunTypeOK /\ PortTypeOK /\ CaptureTypeOK /\ ResultTypeOK
  BY DEF TypeOK, RunTypeOK, PortTypeOK, CaptureTypeOK, ResultTypeOK

\* The bench starts with every variable in its type.
LEMMA TypeInit == Init => TypeOK /\ WaitInv
<1> USE LinkAssumption, HostAssumption
<1> SUFFICES ASSUME Init PROVE TypeOK /\ WaitInv
  OBVIOUS
<1>1. LinkTypeOK
  <2>1. uart \in UartState
    BY DEF Init, LinkInit, UartReset, UartState, Character
  <2>2. echo \in [label : 0 .. 3, value : Character]
    BY DEF Init, LinkInit, Character
  <2>3. QED
    BY <2>1, <2>2 DEF Init, LinkInit, LinkTypeOK, Character
<1>2. RunTypeOK
  BY DEF Init, RunTypeOK, Outcomes
<1>3. PortTypeOK
  BY DEF Init, PortTypeOK
<1>4. CaptureTypeOK
  <2>1. movies \in Seq(SUBSET [Channels -> Codes])
    BY DEF Init
  <2>2. QED
    BY <2>1 DEF Init, CaptureTypeOK
<1>5. ResultTypeOK
  BY DEF Init, ResultTypeOK, AllOff, NoPictures, Codes, Off
<1>6. WaitInv
  BY DEF Init, WaitInv
<1>7. QED
  BY <1>1, <1>2, <1>3, <1>4, <1>5, <1>6, TypeParts

\* A step that goes on stays in its script, and an error leaves it.
LEMMA GoTypes ==
    ASSUME TypeOK, script # "none", line <= Len(Steps(script)), wait' \in Nat,
           Go \/ \E outcome \in Outcomes : Fail(outcome)
    PROVE  RunTypeOK'
<1>1. CASE Go
  <2>1. Len(Steps(script)) \in Nat
    BY StepTypes DEF TypeOK
  <2>2. QED
    BY <1>1, <2>1 DEF Go, RunTypeOK, TypeOK
<1>2. ASSUME NEW outcome \in Outcomes, Fail(outcome) PROVE RunTypeOK'
  BY <1>2 DEF Fail, RunTypeOK, TypeOK
<1>3. QED
  BY <1>1, <1>2

\* What is not touched keeps its type.
LEMMA TypeFrames ==
    ASSUME TypeOK
    PROVE  /\ UNCHANGED <<workspace, ports>> => PortTypeOK'
           /\ UNCHANGED capture => CaptureTypeOK'
           /\ UNCHANGED <<results, asked>> => ResultTypeOK'
           /\ UNCHANGED <<script, line, wait, ended, runs>> => RunTypeOK'
<1>1. UNCHANGED <<workspace, ports>> => PortTypeOK'
  BY DEF TypeOK, PortTypeOK, ports
<1>2. UNCHANGED capture => CaptureTypeOK'
  BY DEF TypeOK, CaptureTypeOK, capture
<1>3. UNCHANGED <<results, asked>> => ResultTypeOK'
  BY DEF TypeOK, ResultTypeOK, results
<1>4. UNCHANGED <<script, line, wait, ended, runs>> => RunTypeOK'
  BY DEF TypeOK, RunTypeOK
<1>5. QED
  BY <1>1, <1>2, <1>3, <1>4

\* The steps of a script that touch the workspace and the instruments.
LEMMA PortStepTypes ==
    ASSUME TypeOK,
           \/ Clear \/ ReleaseAll \/ Query \/ Need \/ StartCamera \/ Open \/ Close
           \/ MentionUndefined \/ Finish
    PROVE  RunTypeOK' /\ PortTypeOK' /\ CaptureTypeOK' /\ ResultTypeOK'
<1> USE DEF At
<1>1. CASE Finish
  <2>1. RunTypeOK'
    BY <1>1 DEF Finish, Fail, TypeOK, RunTypeOK, Outcomes
  <2>2. QED
    BY <1>1, <2>1, TypeFrames DEF Finish
<1>2. CASE Clear
  <2>1. RunTypeOK'
    BY <1>2, GoTypes DEF Clear, TypeOK
  <2>2. PortTypeOK'
    BY <1>2 DEF Clear, TypeOK, PortTypeOK, ports
  <2>3. QED
    BY <1>2, <2>1, <2>2, TypeFrames DEF Clear
<1>3. CASE ReleaseAll
  <2>1. RunTypeOK'
    BY <1>3, GoTypes DEF ReleaseAll, TypeOK
  <2>2. PortTypeOK'
    BY <1>3 DEF ReleaseAll, TypeOK, PortTypeOK
  <2>3. QED
    BY <1>3, <2>1, <2>2, TypeFrames DEF ReleaseAll
<1>4. CASE Query
  <2>1. RunTypeOK'
    BY <1>4, GoTypes DEF Query, TypeOK
  <2>2. PortTypeOK'
    BY <1>4 DEF Query, TypeOK, PortTypeOK
  <2>3. QED
    BY <1>4, <2>1, <2>2, TypeFrames DEF Query
<1>5. CASE Need
  <2>1. RunTypeOK'
    BY <1>5, GoTypes DEF Need, TypeOK, Outcomes
  <2>2. QED
    BY <1>5, <2>1, TypeFrames DEF Need
<1>6. CASE StartCamera
  <2>1. RunTypeOK'
    BY <1>6, GoTypes DEF StartCamera, TypeOK, Outcomes
  <2>2. PortTypeOK'
    BY <1>6 DEF StartCamera, TypeOK, PortTypeOK, ports
  <2>3. QED
    BY <1>6, <2>1, <2>2, TypeFrames DEF StartCamera
<1>7. CASE Open
  <2>1. RunTypeOK'
    BY <1>7, GoTypes DEF Open, TypeOK, Outcomes
  <2>2. PortTypeOK'
    BY <1>7 DEF Open, TypeOK, PortTypeOK
  <2>3. QED
    BY <1>7, <2>1, <2>2, TypeFrames DEF Open
<1>8. CASE Close
  <2>1. RunTypeOK'
    BY <1>8, GoTypes DEF Close, TypeOK
  <2>2. PortTypeOK'
    BY <1>8 DEF Close, TypeOK, PortTypeOK
  <2>3. QED
    BY <1>8, <2>1, <2>2, TypeFrames DEF Close
<1>9. CASE MentionUndefined
  <2>1. RunTypeOK'
    BY <1>9, GoTypes DEF MentionUndefined, TypeOK, Outcomes
  <2>2. QED
    BY <1>9, <2>1, TypeFrames DEF MentionUndefined
<1>10. QED
  BY <1>1, <1>2, <1>3, <1>4, <1>5, <1>6, <1>7, <1>8, <1>9

\* The steps of a script that use the line and the camera.
LEMMA LineStepTypes ==
    ASSUME TypeOK, WaitInv,
           SendCommand \/ BeginPause \/ Trigger \/ GetData \/ GetDataTimeout
    PROVE  RunTypeOK' /\ PortTypeOK' /\ CaptureTypeOK' /\ ResultTypeOK'
<1> USE DEF At
<1>0. script # "none" /\ line <= Len(Steps(script)) =>
        /\ script \in Scripts /\ line \in 1 .. Len(Steps(script))
        /\ Step.op \in {"pause", "shoot"} => Step.ticks \in Nat
        /\ Step.op = "command" => Channel(Step.byte) \in Channels /\ Step.byte \in Bytes
  BY StepTypes DEF TypeOK, Step
<1>1. CASE SendCommand
  <2>1. RunTypeOK'
    BY <1>1, GoTypes DEF SendCommand, TypeOK
  <2>2. Code(Step.byte) \in Codes
    <3>1. Step.byte \in 0 .. 255
      BY <1>0, <1>1, LinkAssumption DEF SendCommand, Character
    <3>2. QED
      BY <3>1 DEF Code, Codes
  <2>3. ResultTypeOK'
    BY <1>0, <1>1, <2>2 DEF SendCommand, TypeOK, ResultTypeOK, results
  <2>4. QED
    BY <1>1, <2>1, <2>3, TypeFrames DEF SendCommand
<1>2. CASE BeginPause
  <2>1. RunTypeOK'
    BY <1>0, <1>2, GoTypes DEF BeginPause
  <2>2. QED
    BY <1>2, <2>1, TypeFrames DEF BeginPause
<1>3. CASE Trigger
  <2>1. RunTypeOK'
    BY <1>0, <1>3 DEF Trigger, TypeOK, RunTypeOK
  <2>2. CaptureTypeOK'
    BY <1>3, ShownType DEF Trigger, TypeOK, CaptureTypeOK
  <2>3. QED
    BY <1>3, <2>1, <2>2, TypeFrames DEF Trigger
<1>4. CASE GetData
  <2>1. script # "none" /\ line <= Len(Steps(script))
    BY <1>4 DEF GetData, WaitInv
  <2>2. RunTypeOK'
    BY <1>4, <2>1, GoTypes DEF GetData, TypeOK
  <2>3. CaptureTypeOK'
    <3>1. movies \in Seq(SUBSET [Channels -> Codes]) /\ seen \in SUBSET [Channels -> Codes]
      BY DEF TypeOK
    <3>2. Append(movies, seen) \in Seq(SUBSET [Channels -> Codes])
      BY <3>1
    <3>3. QED
      BY <1>4, <3>2 DEF GetData, CaptureTypeOK
  <2>4. QED
    BY <1>4, <2>2, <2>3, TypeFrames DEF GetData
<1>5. CASE GetDataTimeout
  <2>1. RunTypeOK'
    BY <1>5 DEF GetDataTimeout, Fail, TypeOK, RunTypeOK, Outcomes
  <2>2. CaptureTypeOK'
    BY <1>5 DEF GetDataTimeout, TypeOK, CaptureTypeOK
  <2>3. QED
    BY <1>5, <2>1, <2>2, TypeFrames DEF GetDataTimeout
<1>6. QED
  BY <1>1, <1>2, <1>3, <1>4, <1>5

\* The steps of a script that compute pictures and directions.
LEMMA PictureStepTypes ==
    ASSUME TypeOK,
           SeparateMovie \/ AverageMovies \/ WriteDirections \/ RunPSBox \/ ProcessingFails
    PROVE  RunTypeOK' /\ PortTypeOK' /\ CaptureTypeOK' /\ ResultTypeOK'
<1> USE DEF At
<1>1. CASE SeparateMovie
  <2>1. RunTypeOK'
    BY <1>1, GoTypes DEF SeparateMovie, TypeOK
  <2>2. pictures' \in [Numbers -> SUBSET Channels]
    BY <1>1 DEF SeparateMovie
  <2>3. ResultTypeOK'
    BY <1>1, <2>2 DEF SeparateMovie, TypeOK, ResultTypeOK
  <2>4. QED
    BY <1>1, <2>1, <2>3, TypeFrames DEF SeparateMovie
<1>2. CASE AverageMovies
  <2>1. RunTypeOK'
    BY <1>2, GoTypes DEF AverageMovies, TypeOK
  <2>2. pictures' \in [Numbers -> SUBSET Channels]
    BY <1>2 DEF AverageMovies
  <2>3. ResultTypeOK'
    BY <1>2, <2>2 DEF AverageMovies, TypeOK, ResultTypeOK
  <2>4. QED
    BY <1>2, <2>1, <2>3, TypeFrames DEF AverageMovies
<1>3. CASE WriteDirections
  <2>1. RunTypeOK'
    BY <1>3, GoTypes DEF WriteDirections, TypeOK
  <2>2. ResultTypeOK'
    BY <1>3 DEF WriteDirections, TypeOK, ResultTypeOK
  <2>3. QED
    BY <1>3, <2>1, <2>2, TypeFrames DEF WriteDirections
<1>4. CASE RunPSBox
  <2>1. RunTypeOK'
    BY <1>4, GoTypes DEF RunPSBox, TypeOK, Outcomes
  <2>2. QED
    BY <1>4, <2>1, TypeFrames DEF RunPSBox
<1>5. CASE ProcessingFails
  <2>1. RunTypeOK'
    BY <1>5, GoTypes DEF ProcessingFails, TypeOK, Outcomes
  <2>2. QED
    BY <1>5, <2>1, TypeFrames DEF ProcessingFails
<1>6. QED
  BY <1>1, <1>2, <1>3, <1>4, <1>5

\* The operator's steps.
LEMMA OperatorTypes ==
    ASSUME TypeOK, Operator
    PROVE  RunTypeOK' /\ PortTypeOK' /\ CaptureTypeOK' /\ ResultTypeOK'
<1>1. ASSUME NEW s \in Scripts, Start(s)
      PROVE  RunTypeOK' /\ PortTypeOK' /\ CaptureTypeOK' /\ ResultTypeOK'
  <2>1. RunTypeOK'
    <3>1. runs' \in 0 .. MaxRuns
      BY <1>1, HostAssumption DEF Start, TypeOK
    <3>2. script' = s /\ line' = 1 /\ 1 \in 1 .. Len(Steps(s)) + 1
      BY <1>1, StepTypes DEF Start
    <3>3. wait' = 0 /\ ended' \in Outcomes
      BY <1>1 DEF Start, Outcomes
    <3>4. QED
      BY <3>1, <3>2, <3>3 DEF RunTypeOK
  <2>2. PortTypeOK'
    BY <1>1, TypeFrames DEF Start
  <2>3. CaptureTypeOK'
    <3>1. movies' \in Seq(SUBSET [Channels -> Codes])
      BY <1>1 DEF Start
    <3>2. QED
      BY <1>1, <3>1 DEF Start, TypeOK, CaptureTypeOK
  <2>4. ResultTypeOK'
    BY <1>1 DEF Start, TypeOK, ResultTypeOK, AllOff, NoPictures, Codes, Off
  <2>5. QED
    BY <2>1, <2>2, <2>3, <2>4
<1>2. CASE Interrupt
  <2>1. RunTypeOK'
    BY <1>2 DEF Interrupt, Fail, TypeOK, RunTypeOK, Outcomes
  <2>2. CaptureTypeOK'
    BY <1>2 DEF Interrupt, TypeOK, CaptureTypeOK
  <2>3. QED
    BY <1>2, <2>1, <2>2, TypeFrames DEF Interrupt
<1>3. CASE GuiOpen
  <2>1. PortTypeOK'
    BY <1>3 DEF GuiOpen, TypeOK, PortTypeOK
  <2>2. QED
    BY <1>3, <2>1, TypeFrames DEF GuiOpen
<1>4. ASSUME NEW b \in GuiBytes, GuiPress(b)
      PROVE  RunTypeOK' /\ PortTypeOK' /\ CaptureTypeOK' /\ ResultTypeOK'
  BY <1>4, TypeFrames DEF GuiPress
<1>5. QED
  BY <1>1, <1>2, <1>3, <1>4 DEF Operator

\* Every action keeps the variables in their types.
LEMMA TypeStep == TypeOK /\ WaitInv /\ [Next]_vars => TypeOK'
<1> SUFFICES ASSUME TypeOK, WaitInv, [Next]_vars PROVE TypeOK'
  OBVIOUS
<1> DEFINE HostTypes == RunTypeOK' /\ PortTypeOK' /\ CaptureTypeOK' /\ ResultTypeOK'
<1>1. TypeOK' <=> LinkTypeOK' /\ HostTypes
  BY DEF TypeOK, RunTypeOK, PortTypeOK, CaptureTypeOK, ResultTypeOK
<1>2. CASE Arrival
  <2>1. HostTypes
    BY <1>2, TypeFrames DEF Arrival
  <2>2. QED
    BY <1>1, <1>2, <2>1, LinkTypes DEF Arrival, TypeOK
<1>3. CASE Firmware
  <2>1. LinkTypeOK'
    BY <1>3, LinkTypes DEF Firmware, TypeOK
  <2>2. Shown(bus') \in [Channels -> Codes]
    BY <2>1 DEF LinkTypeOK, Shown, Code, Codes, Character
  <2>3. CaptureTypeOK'
    BY <1>3, <2>2 DEF Firmware, TypeOK, CaptureTypeOK
  <2>4. PortTypeOK' /\ ResultTypeOK' /\ RunTypeOK'
    BY <1>3, TypeFrames DEF Firmware
  <2>5. QED
    BY <1>1, <2>1, <2>3, <2>4
<1>4. CASE Clock
  <2>1. LinkTypeOK'
    BY <1>4, LinkTypes DEF Clock, TypeOK
  <2>2. RunTypeOK'
    BY <1>4 DEF Clock, TypeOK, RunTypeOK
  <2>3. PortTypeOK' /\ ResultTypeOK' /\ CaptureTypeOK'
    BY <1>4, TypeFrames DEF Clock
  <2>4. QED
    BY <1>1, <2>1, <2>2, <2>3
<1>5. CASE ScriptStep
  <2>1. UNCHANGED linkVars \/ \E b \in Bytes : Send(b)
    <3>1. CASE SendCommand
      BY <3>1, StepTypes DEF SendCommand, At, TypeOK, Step
    <3>2. CASE ScriptStep /\ ~SendCommand
      BY <3>2 DEF ScriptStep, Clear, ReleaseAll, Query, Need, StartCamera, Open, Close,
         MentionUndefined, BeginPause, Trigger, GetData, GetDataTimeout, SeparateMovie,
         AverageMovies, WriteDirections, RunPSBox, ProcessingFails, Finish
    <3>3. QED
      BY <1>5, <3>1, <3>2
  <2>2. LinkTypeOK'
    BY <2>1, LinkTypes DEF TypeOK
  <2>3. HostTypes
    BY <1>5, PortStepTypes, LineStepTypes, PictureStepTypes DEF ScriptStep
  <2>4. QED
    BY <1>1, <2>2, <2>3
<1>6. CASE Operator
  <2>1. UNCHANGED linkVars \/ \E b \in Bytes : Send(b)
    BY <1>6, HostAssumption DEF Operator, Start, Interrupt, GuiOpen, GuiPress
  <2>2. LinkTypeOK'
    BY <2>1, LinkTypes DEF TypeOK
  <2>3. QED
    BY <1>1, <1>6, <2>2, OperatorTypes
<1>7. CASE UNCHANGED vars
  <2>1. UNCHANGED <<linkVars, workspace, ports, capture, results, asked>>
    BY <1>7 DEF vars
  <2>2. UNCHANGED <<script, line, wait, ended, runs>>
    BY <1>7 DEF vars
  <2>3. QED
    BY <1>1, <2>1, <2>2, TypeFrames, LinkTypes DEF TypeOK
<1>8. QED
  BY <1>2, <1>3, <1>4, <1>5, <1>6, <1>7 DEF Next

-----------------------------------------------------------------------------
(* The kinds of steps, as far as the safety of the link is concerned.      *)

\* The script does a step that is no command, no pause and no capture.
Advance ==
    /\ script # "none" /\ ~shooting /\ wait = 0 /\ line \in 1 .. Len(Steps(script))
    /\ Step.op \notin {"command", "pause", "shoot"}
    /\ script' = script /\ line' = line + 1
    /\ UNCHANGED <<linkVars, wait, capture, asked>>
    /\ Step.op # "open" => open' \in {open, "none"}
    /\ Step.op = "release" => open' = "none"
    /\ Step.op = "camera" => Step.args = 2

\* The run ends, with an error or without.
Stop ==
    /\ script # "none" /\ script' = "none" /\ wait' = 0 /\ ~shooting'
    /\ UNCHANGED linkVars

\* There are no other steps of the script and of the operator.
LEMMA StepKinds ==
    ASSUME TypeOK, WaitInv, ScriptStep \/ Operator
    PROVE  \/ Advance \/ Stop
           \/ SendCommand \/ BeginPause \/ Trigger \/ GetData
           \/ \E s \in Scripts : Start(s)
           \/ GuiOpen
           \/ \E b \in GuiBytes : GuiPress(b)
<1>0. line \in Nat /\ line <= Len(Steps(script)) /\ script # "none" =>
        line \in 1 .. Len(Steps(script))
  BY StepTypes DEF TypeOK
<1>1. script # "none" => line \in Nat
  BY StepTypes DEF TypeOK
<1> USE DEF At, Go, Fail, Advance, Stop
<1>2. CASE Clear \/ ReleaseAll \/ Query \/ Close
  <2>1. Advance
    BY <1>0, <1>1, <1>2 DEF Clear, ReleaseAll, Query, Close, ports
  <2>2. QED
    BY <2>1
<1>3. CASE Need \/ MentionUndefined \/ StartCamera \/ RunPSBox \/ ProcessingFails
  <2>1. Advance \/ Stop
    BY <1>0, <1>1, <1>3 DEF Need, MentionUndefined, StartCamera, RunPSBox, ProcessingFails,
       ports, capture
  <2>2. QED
    BY <2>1
<1>4. CASE Open
  <2>1. Advance \/ Stop
    BY <1>0, <1>1, <1>4 DEF Open, capture
  <2>2. QED
    BY <2>1
<1>5. CASE SeparateMovie \/ AverageMovies \/ WriteDirections
  <2>1. /\ script # "none" /\ ~shooting /\ wait = 0 /\ line <= Len(Steps(script))
        /\ Step.op \in {"separate", "average", "directions"}
        /\ script' = script /\ line' = line + 1
        /\ UNCHANGED <<linkVars, wait, open, capture, asked>>
    BY <1>5 DEF SeparateMovie, AverageMovies, WriteDirections, ports
  <2>2. Advance
    BY <1>0, <1>1, <2>1
  <2>3. QED
    BY <2>2
<1>6. CASE Finish
  <2>1. ~shooting
    BY <1>1, <1>6, StepTypes DEF Finish, WaitInv, TypeOK
  <2>2. Stop
    BY <1>6, <2>1 DEF Finish, TypeOK, capture
  <2>3. QED
    BY <2>2
<1>7. CASE GetDataTimeout \/ Interrupt
  BY <1>7 DEF GetDataTimeout, Interrupt, WaitInv
<1>8. QED
  BY <1>2, <1>3, <1>4, <1>5, <1>6, <1>7 DEF ScriptStep, Operator

-----------------------------------------------------------------------------
(* What can be read off a script, from one step to the next.               *)

\* Before the first step there is nothing.
LEMMA FirstPosition ==
    ASSUME NEW s
    PROVE  /\ CommandsBefore(s, 1) = {} /\ Reachable(s, 1)
           /\ ~Quiet(s, 1) /\ ~Released(s, 1)
  BY DEF CommandsBefore, Reachable, Quiet, Released

\* The commands before step l + 1.
LEMMA NextCommands ==
    ASSUME NEW s, NEW l \in Nat \ {0}
    PROVE  /\ Steps(s)[l].op # "command" => CommandsBefore(s, l + 1) = CommandsBefore(s, l)
           /\ Steps(s)[l].op = "command" =>
                 CommandsBefore(s, l + 1) = CommandsBefore(s, l) \cup {l}
           /\ \A i \in CommandsBefore(s, l) : i \in Nat /\ i < l
<1>1. 1 .. ((l + 1) - 1) = (1 .. (l - 1)) \cup {l}
  OBVIOUS
<1>2. QED
  BY <1>1 DEF CommandsBefore

\* A step that is no command leaves the last commands as they are.
LEMMA NextLast ==
    ASSUME NEW s, NEW l \in Nat \ {0}, Steps(s)[l].op # "command", NEW i
    PROVE  /\ LastCommand(s, l + 1, i) <=> LastCommand(s, l, i)
           /\ LastOnChannel(s, l + 1, i) <=> LastOnChannel(s, l, i)
  BY NextCommands DEF LastCommand, LastOnChannel

\* The link is quiet behind step l when it was before, or by the pause l.
LEMMA NextQuiet ==
    ASSUME NEW s, NEW l \in Nat \ {0}, Quiet(s, l + 1)
    PROVE  Steps(s)[l].op # "command" /\ (Quiet(s, l) \/ LongPause(s, l))
<1>1. PICK j \in 1 .. l : LongPause(s, j) /\ \A i \in j .. l : Steps(s)[i].op # "command"
  <2>1. (l + 1) - 1 = l
    OBVIOUS
  <2>2. QED
    BY <2>1 DEF Quiet
<1>2. Steps(s)[l].op # "command"
  BY <1>1
<1>3. CASE j = l
  BY <1>1, <1>2, <1>3
<1>4. CASE j # l
  <2>1. j \in 1 .. (l - 1) /\ \A i \in j .. (l - 1) : i \in j .. l
    BY <1>1, <1>4
  <2>2. QED
    BY <1>1, <1>2, <2>1 DEF Quiet
<1>5. QED
  BY <1>3, <1>4

\* A step that is no command does not undo what was carried out.
LEMMA NextCarried ==
    ASSUME NEW s, NEW l \in Nat \ {0}, Steps(s)[l].op # "command", Carried(s, l + 1)
    PROVE  Quiet(s, l + 1) \/ Carried(s, l)
<1>1. CASE Quiet(s, l + 1)
  BY <1>1
<1>2. ASSUME NEW r \in 1 .. ((l + 1) - 1), LastCommand(s, l + 1, r), Repeats(s, r), Quiet(s, r)
      PROVE  Carried(s, l)
  <2>1. LastCommand(s, l, r)
    BY <1>2, NextLast
  <2>2. r \in 1 .. (l - 1)
    BY <2>1 DEF LastCommand, CommandsBefore
  <2>3. QED
    BY <1>2, <2>1, <2>2 DEF Carried
<1>3. QED
  BY <1>1, <1>2 DEF Carried

\* The port is released by a release, and until an open.
LEMMA NextReleased ==
    ASSUME NEW s, NEW l \in Nat \ {0}, Released(s, l + 1)
    PROVE  Steps(s)[l].op = "release" \/ (Released(s, l) /\ Steps(s)[l].op # "open")
<1>1. PICK i \in 1 .. l : Steps(s)[i].op = "release" /\ \A j \in i .. l : Steps(s)[j].op # "open"
  <2>1. (l + 1) - 1 = l
    OBVIOUS
  <2>2. QED
    BY <2>1 DEF Released
<1>2. CASE i = l
  BY <1>1, <1>2
<1>3. CASE i # l
  <2>1. i \in 1 .. (l - 1) /\ l \in i .. l /\ \A j \in i .. (l - 1) : j \in i .. l
    BY <1>1, <1>3
  <2>2. QED
    BY <1>1, <2>1 DEF Released
<1>4. QED
  BY <1>2, <1>3

\* A step that did not fail can be passed.
LEMMA NextReachable ==
    ASSUME NEW s, NEW l \in Nat \ {0}, Reachable(s, l),
           Steps(s)[l].op = "camera" => Steps(s)[l].args = 2
    PROVE  Reachable(s, l + 1)
<1>1. \A i \in 1 .. ((l + 1) - 1) : i \in 1 .. (l - 1) \/ i = l
  OBVIOUS
<1>2. QED
  BY <1>1 DEF Reachable

-----------------------------------------------------------------------------
(* What the scripts take care of: every pause that has to outlast the      *)
(* delay loop is of 0.8 s or more.                                         *)

\* Such a pause lets the link settle.
LEMMA PauseQuiets ==
    ASSUME FastLoop, NEW s, NEW l \in Nat, NEW j, AfterPause(s, l, j)
    PROVE  Quiet(s, l)
<1> USE DEF AfterPause
<1>1. LongPause(s, j)
  BY LinkAssumption DEF FastLoop, LongPause
<1>2. \A i \in j .. (l - 1) : i = j \/ i \in (j + 1) .. (l - 1)
  OBVIOUS
<1>3. \A i \in j .. (l - 1) : Steps(s)[i].op # "command"
  BY <1>1, <1>2 DEF LongPause
<1>4. QED
  BY <1>1, <1>3 DEF Quiet

\* Every command and every capture comes after such a pause, but for the one
\* command of demoStaticScan that is sent again after 0.1 s.
LEMMA QuietSteps ==
    ASSUME FastLoop, NEW s \in Scripts, NEW l \in 1 .. Len(Steps(s)),
           Steps(s)[l].op \in {"command", "shoot"}
    PROVE  Quiet(s, l) \/ (Steps(s)[l].op = "command" /\ Repeats(s, l))
<1>1. ASSUME NEW j, AfterPause(s, l, j) PROVE Quiet(s, l)
  BY <1>1, PauseQuiets
<1>2. ASSUME s = "DemoScan" PROVE \E j : AfterPause(s, l, j)
  BY <1>2, DemoScanPauses, ScriptLengths
<1>3. ASSUME s = "calibrateWithBall" PROVE \E j : AfterPause(s, l, j)
  BY <1>3, CalibrateWithBallPauses, ScriptLengths
<1>4. ASSUME s = "calibrateWithBallStatic" PROVE \E j : AfterPause(s, l, j)
  BY <1>4, CalibrateWithBallStaticPauses, ScriptLengths
<1>5. ASSUME s = "demoStaticScan", l # 18 PROVE \E j : AfterPause(s, l, j)
  BY <1>5, DemoStaticScanPauses, ScriptLengths
<1>6. ASSUME s = "demoStaticScan", l = 18
      PROVE  Steps(s)[l].op = "command" /\ Repeats(s, l)
  <2>1. /\ Steps(s)[18].op = "command" /\ Steps(s)[16].op = "command"
        /\ Steps(s)[17].op # "command" /\ Steps(s)[16] = Steps(s)[18]
    BY <1>6, DemoStaticScanSteps, DemoStaticScanCommands
  <2>2. LastCommand(s, 18, 16)
    BY <2>1 DEF LastCommand, CommandsBefore
  <2>3. QED
    BY <1>6, <2>1, <2>2 DEF Repeats
<1>7. QED
  BY <1>1, <1>2, <1>3, <1>4, <1>5, <1>6, HostAssumption DEF ScriptNames

\* Every script releases the port before it opens it.
LEMMA ReleasedAtOpen ==
    ASSUME NEW s \in Scripts, NEW l \in 1 .. Len(Steps(s)), Steps(s)[l].op = "open"
    PROVE  Released(s, l)
<1>1. \E i : AfterRelease(s, l, i)
  <2>1. CASE s = "DemoScan"
    BY <2>1, DemoScanPauses, ScriptLengths
  <2>2. CASE s = "demoStaticScan"
    BY <2>2, DemoStaticScanPauses, ScriptLengths
  <2>3. CASE s = "calibrateWithBall"
    BY <2>3, CalibrateWithBallPauses, ScriptLengths
  <2>4. CASE s = "calibrateWithBallStatic"
    BY <2>4, CalibrateWithBallStaticPauses, ScriptLengths
  <2>5. QED
    BY <2>1, <2>2, <2>3, <2>4, HostAssumption DEF ScriptNames
<1>2. QED
  BY <1>1 DEF AfterRelease, Released

\* Before step l the script has turned all LEDs off last, and that was carried out.
Darkened(s, l) ==
    /\ Carried(s, l) /\ Steps(s)[l - 1].op # "pause"
    /\ \A c \in Channels : \E k : TurnsOff(s, l, k, c)

\* Every script that comes to its fclose has done so before.
LEMMA ClosedDark ==
    ASSUME FastLoop, NEW s \in Scripts, NEW l \in 1 .. Len(Steps(s)) + 1, Reachable(s, l),
           NEW i \in 1 .. (l - 1), Steps(s)[i].op = "close"
    PROVE  Darkened(s, l)
<1>1. ASSUME NEW j, AfterPause(s, l, j) PROVE Carried(s, l)
  BY <1>1, PauseQuiets DEF Carried
<1>2. ASSUME NEW n \in Nat, Len(Steps(s)) = n
      PROVE  i \in 1 .. n /\ l \in (i + 1) .. (n + 1)
  BY <1>2
<1>3. CASE s = "DemoScan"
  <2>1. Len(Steps(s)) = 24 /\ Len(Steps(s)) \in Nat
    BY <1>3, ScriptLengths
  <2>2. i = 23
    BY <1>2, <1>3, <2>1, DemoScanClosed
  <2>3. l \in 24 .. 25
    BY <1>2, <2>1, <2>2
  <2>4. AfterPause(s, l, 22) /\ Steps(s)[l - 1].op # "pause"
    BY <1>3, <2>3, DemoScanClosed
  <2>5. TurnsOff(s, l, 17, 1) /\ TurnsOff(s, l, 19, 2) /\ TurnsOff(s, l, 21, 3)
    BY <1>3, <2>3, DemoScanClosed
  <2>6. QED
    BY <1>1, <2>4, <2>5 DEF Darkened, Channels
<1>4. CASE s = "calibrateWithBall"
  <2>1. Len(Steps(s)) = 22 /\ Len(Steps(s)) \in Nat
    BY <1>4, ScriptLengths
  <2>2. i = 20
    BY <1>2, <1>4, <2>1, CalibrateWithBallClosed
  <2>3. l \in 21 .. 23
    BY <1>2, <2>1, <2>2
  <2>4. AfterPause(s, l, 19) /\ Steps(s)[l - 1].op # "pause"
    BY <1>4, <2>3, CalibrateWithBallClosed
  <2>5. TurnsOff(s, l, 14, 1) /\ TurnsOff(s, l, 16, 2) /\ TurnsOff(s, l, 18, 3)
    BY <1>4, <2>3, CalibrateWithBallClosed
  <2>6. QED
    BY <1>1, <2>4, <2>5 DEF Darkened, Channels
<1>5. CASE s = "demoStaticScan"
  <2>1. Len(Steps(s)) = 46 /\ Len(Steps(s)) \in Nat
    BY <1>5, ScriptLengths
  <2>2. i = 44
    BY <1>2, <1>5, <2>1, DemoStaticScanClosed
  <2>3. l \in 45 .. 47
    BY <1>2, <2>1, <2>2
  <2>4. Repeats(s, 43) /\ Quiet(s, 43)
    <3>1. AfterPause(s, 43, 42) /\ LastCommand(s, 43, 41) /\ Steps(s)[41] = Steps(s)[43]
      BY <1>5, DemoStaticScanClosed
    <3>2. QED
      BY <3>1, PauseQuiets DEF Repeats
  <2>5. LastCommand(s, l, 43) /\ Steps(s)[l - 1].op # "pause"
    BY <1>5, <2>3, DemoStaticScanClosed
  <2>6. TurnsOff(s, l, 39, 1) /\ TurnsOff(s, l, 37, 2) /\ TurnsOff(s, l, 43, 3)
    BY <1>5, <2>3, DemoStaticScanClosed
  <2>7. Carried(s, l)
    BY <2>3, <2>4, <2>5 DEF Carried
  <2>8. QED
    BY <2>5, <2>6, <2>7 DEF Darkened, Channels
<1>6. s # "calibrateWithBallStatic"
  <2> SUFFICES ASSUME s = "calibrateWithBallStatic" PROVE FALSE
    OBVIOUS
  <2>1. Len(Steps(s)) = 26 /\ Len(Steps(s)) \in Nat
    BY ScriptLengths
  <2>2. i > 4 /\ i < l
    <3>1. i \in 1 .. 26 /\ l \in (i + 1) .. (26 + 1)
      BY <1>2, <2>1
    <3>2. QED
      BY <3>1, CalibrateWithBallStaticClosed
  <2>3. 4 \in 1 .. (l - 1)
    BY <2>2
  <2>4. QED
    BY <2>3, CalibrateWithBallStaticClosed DEF Reachable
<1>7. QED
  BY <1>3, <1>4, <1>5, <1>6, HostAssumption DEF ScriptNames

-----------------------------------------------------------------------------
(* The link.                                                               *)

LinkStep == Receive \/ Sample \/ SampleColliding \/ Drive \/ Echo

\* What After does, and that doing it again changes nothing.
LEMMA AfterOnce ==
    ASSUME NEW buses \in [Channels -> Character], NEW b \in Character
    PROVE  /\ After(buses, b) \in [Channels -> Character]
           /\ \A c \in Channels : After(buses, b)[c] = IF c = Channel(b) THEN b ELSE buses[c]
           /\ After(After(buses, b), b) = After(buses, b)
  BY DEF After

\* The write of the firmware is After.
LEMMA DriveIsAfter ==
    ASSUME Drive
    PROVE  bus' = After(bus, a) /\ pc' # "drive" /\ UNCHANGED <<wire, uart, a, elapsed>>
  BY DEF Drive, After

\* What is settled stays so as long as nothing is sent.
LEMMA SettledStays ==
    ASSUME LinkTypeOK, Settled, LinkStep \/ Tick \/ UNCHANGED linkVars
    PROVE  Settled' /\ bus' = bus
<1> USE DEF Settled
<1>1. wire = None
  OBVIOUS
<1>2. ~Receive /\ ~SampleColliding
  BY <1>1 DEF Receive, SampleColliding
<1>3. CASE Sample
  <2>1. uart'.data = uart.data /\ a' = uart.data /\ UNCHANGED <<wire, bus>>
    BY <1>3 DEF Sample, ReadRxData, ReadData, LinkTypeOK, UartState
  <2>2. QED
    BY <2>1
<1>4. CASE Drive
  <2>1. bus' = After(bus, uart.data)
    BY <1>4, DriveIsAfter DEF Drive
  <2>2. QED
    BY <1>4, <2>1, DriveIsAfter
<1>5. CASE Echo \/ Tick \/ UNCHANGED linkVars
  BY <1>5 DEF Echo, Tick, linkVars
<1>6. QED
  BY <1>2, <1>3, <1>4, <1>5 DEF LinkStep

\* A step of the link does not undo the waiting.
LEMMA SettlesAfterStays ==
    ASSUME LinkTypeOK, NEW t \in Nat, SettlesAfter(t), LinkStep \/ UNCHANGED linkVars
    PROVE  SettlesAfter(t)'
<1> USE LinkAssumption DEF SettlesAfter
<1>0. CASE Settled
  BY <1>0, SettledStays
<1>1. CASE t <= elapsed /\ (wire # None => t = 0)
  <2>1. CASE Receive
    BY <1>1, <2>1 DEF Receive, LinkTypeOK
  <2>2. CASE Sample
    <3>1. uart'.data = uart.data /\ a' = uart.data /\ pc' = "drive" /\ elapsed' = 0
          /\ wire' = wire
      BY <2>2 DEF Sample, ReadRxData, ReadData, LinkTypeOK, UartState
    <3>2. t <= Period
      BY <1>1 DEF LinkTypeOK
    <3>3. QED
      BY <1>1, <3>1, <3>2
  <2>3. CASE SampleColliding
    BY <1>1, <2>3 DEF SampleColliding, ReadRxData
  <2>4. CASE Drive
    BY <1>1, <2>4, DriveIsAfter
  <2>5. CASE Echo
    BY <1>1, <2>5 DEF Echo
  <2>6. CASE UNCHANGED linkVars
    BY <1>1, <2>6 DEF linkVars
  <2>7. QED
    BY <2>1, <2>2, <2>3, <2>4, <2>5, <2>6 DEF LinkStep
<1>2. CASE t <= Period /\ wire = None /\ pc = "drive" /\ a = uart.data
  <2>1. ~Receive /\ ~Sample /\ ~SampleColliding /\ ~Echo
    BY <1>2 DEF Receive, Sample, SampleColliding, ReadRxData, Echo
  <2>0. CASE UNCHANGED linkVars
    BY <1>2, <2>0 DEF linkVars
  <2>2. ASSUME LinkStep PROVE Drive
    BY <2>1, <2>2 DEF LinkStep
  <2>3. ASSUME Drive PROVE After(bus', uart'.data) = bus'
    BY <1>2, <2>3, DriveIsAfter, AfterOnce DEF LinkTypeOK
  <2>4. ASSUME Drive PROVE Settled'
    BY <1>2, <2>3, <2>4, DriveIsAfter DEF Settled
  <2>5. QED
    BY <2>0, <2>2, <2>4
<1>3. QED
  BY <1>0, <1>1, <1>2

\* A tick of the clock brings it one tick further.
LEMMA SettlesAfterTick ==
    ASSUME LinkTypeOK, NEW t \in Nat, SettlesAfter(t), Tick, NEW u \in Nat, u <= t + 1
    PROVE  SettlesAfter(u)'
<1> USE DEF SettlesAfter
<1>0. CASE Settled
  BY <1>0, SettledStays
<1>1. CASE t <= elapsed /\ (wire # None => t = 0)
  BY <1>1 DEF Tick, LinkTypeOK
<1>2. CASE t <= Period /\ wire = None /\ pc = "drive" /\ a = uart.data
  BY <1>2 DEF Tick
<1>3. QED
  BY <1>0, <1>1, <1>2

\* After more than a round of the firmware the link has settled.
LEMMA SettlesLong ==
    ASSUME LinkTypeOK, NEW t \in Nat, SettlesAfter(t), t > Period
    PROVE  Settled
  BY LinkAssumption DEF SettlesAfter, LinkTypeOK

\* One character on its way stays the only one, and reaches its bus.
LEMMA OneStays ==
    ASSUME LinkTypeOK, OneOnItsWay, LinkStep \/ Tick \/ UNCHANGED linkVars
    PROVE  /\ OneOnItsWay' /\ Pending' = Pending
           /\ After(bus, Pending)' = After(bus, Pending)
           /\ bus' = bus \/ bus' = After(bus, Pending)
<1> USE DEF OneOnItsWay, Pending
<1>0. wire # None => wire \in Character
  BY LinkAssumption DEF LinkTypeOK
<1>1. CASE Receive
  BY <1>1 DEF Receive, Arrive
<1>2. CASE Sample
  <2>1. uart'.data = uart.data /\ a' = uart.data /\ UNCHANGED <<wire, bus>>
    BY <1>2 DEF Sample, ReadRxData, ReadData, LinkTypeOK, UartState
  <2>2. QED
    BY <2>1
<1>3. CASE SampleColliding
  <2>1. uart'.data = wire /\ a' = uart.data /\ wire' = None /\ bus' = bus /\ wire # None
    BY <1>3 DEF SampleColliding, ReadRxData, ArriveDuringRead
  <2>2. QED
    BY <2>1
<1>4. CASE Drive
  <2>1. bus' = After(bus, a) /\ pc' # "drive" /\ UNCHANGED <<wire, uart, a>>
    BY <1>4, DriveIsAfter
  <2>2. CASE After(bus, a) = bus
    BY <2>1, <2>2
  <2>3. CASE a = uart.data /\ wire \in {None, uart.data}
    <3>1. Pending = a /\ a \in Character
      BY <2>3 DEF LinkTypeOK
    <3>2. After(After(bus, a), a) = After(bus, a)
      BY AfterOnce, <3>1 DEF LinkTypeOK
    <3>3. QED
      BY <2>1, <2>3, <3>1, <3>2
  <2>4. pc = "drive"
    BY <1>4 DEF Drive
  <2>5. QED
    BY <2>2, <2>3, <2>4
<1>5. CASE Echo \/ Tick \/ UNCHANGED linkVars
  BY <1>5 DEF Echo, Tick, linkVars
<1>6. QED
  BY <1>1, <1>2, <1>3, <1>4, <1>5 DEF LinkStep

\* A settled link shows the last character.
LEMMA SettledShows ==
    ASSUME LinkTypeOK, Settled
    PROVE  wire = None /\ Pending = uart.data /\ After(bus, Pending) = bus
  BY DEF Settled, Pending

-----------------------------------------------------------------------------
(* The movies of the two scripts that modulate, and what becomes of them.  *)

\* The codes the two scripts ask of the channels for their movies.
ScriptCodes(s, codes) ==
    \/ s = "DemoScan" /\ codes[1] = 20 /\ codes[2] = 36 /\ codes[3] = 30
    \/ s = "calibrateWithBall" /\ codes[1] = 50 /\ codes[2] = 43 /\ codes[3] = 44

\* Both have the greater frequency on the smaller channel.
LEMMA FrequenciesFall ==
    ASSUME NEW s, NEW codes, ScriptCodes(s, codes)
    PROVE  \A c \in Channels : /\ Frequency(codes[c]) \in Nat \ {0}
                              /\ \A d \in Channels : d < c =>
                                    Frequency(codes[d]) > Frequency(codes[c])
<1>1. Frequency(20) = 141 /\ Frequency(50) = 122 /\ Frequency(36) = 116
  BY DEF Frequency
<1>2. Frequency(43) = 103 /\ Frequency(30) = 91 /\ Frequency(44) = 82
  BY DEF Frequency
<1>3. QED
  BY <1>1, <1>2 DEF ScriptCodes, Channels

\* Their movies are in order: the k-th frequency is on channel k.
LEMMA ScriptsInOrder ==
    ASSUME NEW s, NEW codes, ScriptCodes(s, codes)
    PROVE  InOrder({codes})
<1>1. \A c \in Channels : Frequency(codes[c]) \in Nat \ {0}
  BY FrequenciesFall
<1>2. ASSUME NEW c \in Channels
      PROVE  {d \in Channels : Frequency(codes[d]) >= Frequency(codes[c])} = 1 .. c
  BY <1>1, FrequenciesFall DEF Channels
<1>3. ASSUME NEW c \in Channels PROVE Rank(codes, c) = c
  <2>1. c \in Int /\ 1 \in Int /\ ~(1 > c) /\ (c - 1) + 1 = c
    BY DEF Channels
  <2>2. Cardinality(1 .. c) = c
    BY <2>1, FS_Interval
  <2>3. QED
    BY <1>2, <2>2 DEF Rank
<1>4. Blinking(codes) = Channels
  BY <1>1 DEF Blinking
<1>5. \A c, d \in Channels : c # d => Frequency(codes[c]) # Frequency(codes[d])
  BY <1>1, FrequenciesFall DEF Channels
<1>6. Separable({codes})
  BY <1>4, <1>5 DEF Separable
<1>7. QED
  BY <1>3, <1>6 DEF InOrder

\* A movie in order gives one picture of each light.
LEMMA SeparateInOrder ==
    ASSUME SeparateMovie, InOrder(movies[Len(movies)])
    PROVE  pictures' = OneEach
<1> DEFINE movie == movies[Len(movies)]
<1>1. Separable(movie) /\ \A shown \in movie : \A c \in Channels : Rank(shown, c) = c
  BY DEF InOrder
<1>2. movie # {}
  BY <1>1 DEF Separable
<1>3. \A k \in Numbers : {c \in Channels : \A shown \in movie : Rank(shown, c) = k} = {k}
  BY <1>1, <1>2 DEF Numbers, Channels
<1>4. pictures' =
        [k \in Numbers |-> {c \in Channels : \A shown \in movie : Rank(shown, c) = k}]
  BY <1>1 DEF SeparateMovie
<1>5. QED
  BY <1>3, <1>4 DEF OneEach

\* A script that modulates separates what it has shot, and writes or uses what it
\* has separated.
LEMMA PictureSteps ==
    ASSUME NEW s \in Scripts, s # "demoStaticScan", NEW l \in 1 .. Len(Steps(s)),
           Reachable(s, l)
    PROVE  /\ Steps(s)[l].op = "separate" => \E i \in 1 .. (l - 1) : Steps(s)[i].op = "shoot"
           /\ Steps(s)[l].op \in {"directions", "reconstruct"} =>
                 \E i \in 1 .. (l - 1) : Steps(s)[i].op = "separate"
           /\ Steps(s)[l].op # "average"
<1>1. CASE s = "DemoScan"
  <2>0. l \in 1 .. 24
    BY <1>1, ScriptLengths
  <2>1. l \in 1 .. 24 /\ Steps(s)[14].op = "shoot" /\ Steps(s)[15].op = "separate"
    BY <1>1, <2>0, DemoScanSteps
  <2>2. /\ Steps(s)[l].op = "separate" => l = 15
        /\ Steps(s)[l].op \in {"directions", "reconstruct"} => l = 16
        /\ Steps(s)[l].op # "average"
    BY <1>1, <2>1, DemoScanSteps
  <2>3. QED
    BY <2>1, <2>2
<1>2. CASE s = "calibrateWithBall"
  <2>0. l \in 1 .. 22
    BY <1>2, ScriptLengths
  <2>1. l \in 1 .. 22 /\ Steps(s)[13].op = "shoot" /\ Steps(s)[21].op = "separate"
    BY <1>2, <2>0, CalibrateWithBallSteps
  <2>2. /\ Steps(s)[l].op = "separate" => l = 21
        /\ Steps(s)[l].op \in {"directions", "reconstruct"} => l = 22
        /\ Steps(s)[l].op # "average"
    BY <1>2, <2>1, CalibrateWithBallSteps
  <2>3. QED
    BY <2>1, <2>2
<1>3. CASE s = "calibrateWithBallStatic"
  <2>1. l \in 1 .. 26 /\ Steps(s)[l].op \notin {"separate", "reconstruct"}
    BY <1>3, ScriptLengths, CalibrateWithBallStaticSteps
  <2>2. Steps(s)[l].op \notin {"average", "directions"}
    <3> SUFFICES ASSUME Steps(s)[l].op \in {"average", "directions"} PROVE FALSE
      OBVIOUS
    <3>1. l > 4
      BY <1>3, <2>1, CalibrateWithBallStaticClosed
    <3>2. 4 \in 1 .. (l - 1)
      BY <2>1, <3>1
    <3>3. QED
      BY <1>3, <3>2, CalibrateWithBallStaticClosed DEF Reachable
  <2>3. QED
    BY <2>1, <2>2
<1>4. QED
  BY <1>1, <1>2, <1>3, HostAssumption DEF ScriptNames

-----------------------------------------------------------------------------
(* The inductive invariant.  Every lemma of this section is about one kind *)
(* of step; types are kept by TypeStep.                                    *)

Kept ==
    /\ WaitInv /\ QuietInv /\ AskedInv /\ CarriedInv /\ ShotInv /\ PortInv /\ ReachInv

\* No script runs and no pause is left: there is nothing to show.
LEMMA IdleKeeps ==
    ASSUME script' = "none", wait' = 0, ~shooting'
    PROVE  Kept'
  BY DEF Kept, WaitInv, QuietInv, AskedInv, CarriedInv, ShotInv, PortInv, ReachInv

\* The commands sent, and the channels commanded, when the next step is l.
LEMMA SentIs ==
    /\ Sent = CommandsBefore(script, line)
    /\ Sent' = CommandsBefore(script', line')
    /\ Commanded = {Channel(Steps(script)[i].byte) : i \in Sent}
    /\ Commanded' = {Channel(Steps(script')[i].byte) : i \in Sent'}
  BY DEF Sent, Commanded

\* A run starts with no command sent and all channels asked to be off.
LEMMA StartKeeps ==
    ASSUME IInv, NEW s \in Scripts, Start(s)
    PROVE  Kept'
<1> USE DEF Start
<1>1. script' = s /\ line' = 1 /\ wait' = 0
  OBVIOUS
<1>2. ~shooting'
  BY DEF IInv, WaitInv, capture
<1>3. Sent' = {} /\ Commanded' = {}
  BY <1>1, SentIs, FirstPosition
<1>4. WaitInv'
  BY <1>1, <1>2 DEF WaitInv
<1>5. QuietInv' /\ CarriedInv' /\ AskedInv'
  <2>1. Past' = 1
    BY <1>1 DEF Past
  <2>2. QuietInv'
    BY <1>1, <2>1, FirstPosition DEF QuietInv
  <2>3. CarriedInv'
    BY <1>3 DEF CarriedInv
  <2>4. AskedInv'
    BY <1>1, <1>3 DEF AskedInv, AllOff
  <2>5. QED
    BY <2>2, <2>3, <2>4
<1>6. ShotInv'
  BY <1>2 DEF ShotInv
<1>7. PortInv' /\ ReachInv'
  BY <1>1, FirstPosition DEF PortInv, ReachInv
<1>8. QED
  BY <1>4, <1>5, <1>6, <1>7 DEF Kept

\* A step that is no command leaves what was asked, and its way to the buses.
LEMMA AskedKeeps ==
    ASSUME IInv, script # "none", line \in Nat \ {0}, script' = script, line' = line + 1,
           Steps(script)[line].op # "command", UNCHANGED <<linkVars, asked>>
    PROVE  AskedInv' /\ Sent' = Sent /\ Commanded' = Commanded
<1>1. Sent' = Sent
  BY SentIs, NextCommands
<1>2. Commanded' = Commanded
  BY <1>1, SentIs
<1>3. \A i : /\ LastCommand(script', line', i) <=> LastCommand(script, line, i)
             /\ LastOnChannel(script', line', i) <=> LastOnChannel(script, line, i)
  BY NextLast
<1>4. /\ Pending' = Pending /\ (OneOnItsWay <=> OneOnItsWay')
      /\ After(bus, Pending)' = After(bus, Pending)
  BY DEF Pending, OneOnItsWay, linkVars, After
<1>5. AskedInv
  BY DEF IInv
<1>6. AskedInv'
  BY <1>1, <1>2, <1>3, <1>4, <1>5 DEF AskedInv
<1>7. QED
  BY <1>1, <1>2, <1>6

\* The script is past what is behind it when it does not wait.
LEMMA PastIs ==
    /\ wait = 0 => Past = line
    /\ wait' = 0 => Past' = line'
    /\ wait' = wait /\ shooting' = shooting /\ line' = line => Past' = Past
  BY DEF Past

\* The script goes on to its next step, neither by a command nor by a pause.
LEMMA GoesOn ==
    ASSUME IInv, script # "none", wait = 0, line \in Nat \ {0},
           script' = script, line' = line + 1, wait' = 0, ~shooting',
           Steps(script)[line].op \notin {"command", "pause"},
           UNCHANGED <<linkVars, asked>>
    PROVE  WaitInv' /\ QuietInv' /\ AskedInv' /\ CarriedInv' /\ ShotInv'
<1>1. Past = line /\ Past' = line + 1
  BY PastIs
<1>2. line' - 1 = line
  OBVIOUS
<1>3. WaitInv' /\ ShotInv'
  BY DEF WaitInv, ShotInv
<1>4. Quiet(script, line + 1) => Quiet(script, line)
  BY NextQuiet DEF LongPause
<1>5. Settled' <=> Settled
  BY DEF Settled, linkVars, After
<1>6. QuietInv'
  BY <1>1, <1>2, <1>4, <1>5 DEF IInv, QuietInv
<1>7. AskedInv' /\ Commanded' = Commanded
  BY AskedKeeps
<1>8. Carried(script, line + 1) => Carried(script, line)
  BY <1>4, NextCarried DEF Carried
<1>9. CarriedInv'
  BY <1>1, <1>7, <1>8 DEF IInv, CarriedInv, linkVars
<1>10. QED
  BY <1>3, <1>6, <1>7, <1>9

\* A step without the link.
LEMMA AdvanceKeeps ==
    ASSUME IInv, Advance
    PROVE  Kept'
<1> USE DEF Advance, Step
<1>1. line \in Nat \ {0}
  OBVIOUS
<1>2. WaitInv' /\ QuietInv' /\ AskedInv' /\ CarriedInv' /\ ShotInv'
  BY <1>1, GoesOn DEF capture
<1>3. PortInv'
  BY <1>1, NextReleased DEF IInv, PortInv
<1>4. ReachInv'
  BY <1>1, NextReachable DEF IInv, ReachInv
<1>5. QED
  BY <1>2, <1>3, <1>4 DEF Kept

\* The camera has delivered.
LEMMA GetDataKeeps ==
    ASSUME IInv, GetData
    PROVE  Kept'
<1> USE DEF GetData, Go
<1>1. script # "none" /\ line \in Nat \ {0} /\ Steps(script)[line].op = "shoot"
  BY DEF IInv, TypeOK, WaitInv
<1>2. WaitInv' /\ QuietInv' /\ AskedInv' /\ CarriedInv' /\ ShotInv'
  BY <1>1, GoesOn
<1>3. PortInv'
  BY <1>1, NextReleased DEF IInv, PortInv, ports
<1>4. ReachInv'
  BY <1>1, NextReachable DEF IInv, ReachInv
<1>5. QED
  BY <1>2, <1>3, <1>4 DEF Kept

\* A pause begins: from now on the link can settle.
LEMMA BeginPauseKeeps ==
    ASSUME IInv, BeginPause
    PROVE  Kept'
<1> USE DEF BeginPause, At, Go, Step
<1>1. /\ script # "none" /\ script \in Scripts /\ line \in 1 .. Len(Steps(script))
      /\ line' - 1 = line /\ wait' = Steps(script)[line].ticks
  BY DEF IInv, TypeOK
<1>2. wait' \in Nat \ {0} /\ Steps(script)[line].op = "pause" /\ ~shooting'
  BY <1>1, StepTypes DEF capture
<1>3. Past = line /\ Past' = line
  BY <1>1, <1>2, PastIs DEF Past
<1>4. WaitInv'
  BY <1>1, <1>2 DEF WaitInv
<1>5. QuietInv'
  <2>1. SettlesAfter(0)'
    BY DEF IInv, TypeOK, LinkTypeOK, SettlesAfter, linkVars
  <2>2. Steps(script)[line].ticks - wait' = 0
    BY <1>1, <1>2
  <2>3. Settled' <=> Settled
    BY DEF Settled, linkVars, After
  <2>4. Quiet(script', Past') => Settled'
    BY <1>1, <1>3, <2>3 DEF IInv, QuietInv
  <2>5. QED
    BY <1>1, <2>1, <2>2, <2>4 DEF QuietInv
<1>6. AskedInv' /\ Commanded' = Commanded
  BY <1>1, AskedKeeps
<1>7. CarriedInv'
  BY <1>1, <1>3, <1>6 DEF IInv, CarriedInv, linkVars
<1>8. ShotInv'
  BY <1>2 DEF ShotInv
<1>9. PortInv'
  BY <1>1, NextReleased DEF IInv, PortInv, ports
<1>10. ReachInv'
  BY <1>1, NextReachable DEF IInv, ReachInv
<1>11. QED
  BY <1>4, <1>5, <1>6, <1>7, <1>8, <1>9, <1>10 DEF Kept

\* The camera is triggered with the link quiet.
LEMMA TriggerKeeps ==
    ASSUME FastLoop, IInv, Trigger
    PROVE  Kept'
<1> USE DEF Trigger, At, Step
<1>1. /\ script # "none" /\ script \in Scripts /\ line \in 1 .. Len(Steps(script))
      /\ shooting'
  BY DEF IInv, TypeOK
<1>2. Past = line /\ Past' = line
  BY <1>1, PastIs DEF Past
<1>3. Settled
  BY <1>1, <1>2, QuietSteps DEF IInv, QuietInv
<1>4. Settled' /\ bus' = bus
  BY <1>3 DEF Settled, linkVars, After
<1>5. WaitInv' /\ ShotInv'
  BY <1>1, <1>4 DEF WaitInv, ShotInv, Shown
<1>6. QuietInv'
  BY <1>1, <1>4 DEF QuietInv
<1>7. Sent' = Sent /\ Commanded' = Commanded
  BY DEF Sent, Commanded
<1>8. AskedInv'
  <2>1. /\ Pending' = Pending /\ (OneOnItsWay <=> OneOnItsWay')
        /\ After(bus, Pending)' = After(bus, Pending)
    BY DEF Pending, OneOnItsWay, linkVars, After
  <2>2. QED
    BY <1>7, <2>1 DEF IInv, AskedInv
<1>9. CarriedInv'
  BY <1>2, <1>4, <1>7 DEF IInv, CarriedInv
<1>10. PortInv' /\ ReachInv'
  BY DEF IInv, PortInv, ReachInv, ports
<1>11. QED
  BY <1>5, <1>6, <1>8, <1>9, <1>10 DEF Kept

\* What is sent is a character.
LEMMA ByteTypes == \A b \in Bytes : b \in Character /\ b # None
  BY LinkAssumption DEF Character, None

\* Commands go to channels that exist.
LEMMA SentTypes ==
    ASSUME TypeOK, script # "none"
    PROVE  /\ \A i \in Sent : i \in 1 .. Len(Steps(script)) /\ Steps(script)[i].op = "command"
                            /\ Channel(Steps(script)[i].byte) \in Channels
           /\ Commanded \subseteq Channels
<1>1. script \in Scripts /\ Len(Steps(script)) \in Nat /\ line \in 1 .. Len(Steps(script)) + 1
  BY StepTypes DEF TypeOK
<1>2. ASSUME NEW i \in Sent
      PROVE  i \in 1 .. Len(Steps(script)) /\ Steps(script)[i].op = "command"
  BY <1>1, <1>2 DEF Sent, CommandsBefore
<1>3. ASSUME NEW i \in Sent PROVE Channel(Steps(script)[i].byte) \in Channels
  BY <1>1, <1>2, StepTypes
<1>4. QED
  BY <1>2, <1>3 DEF Commanded

\* With the link settled, the buses show what was asked.
LEMMA SettledIsAsked ==
    ASSUME LinkTypeOK, Settled, AskedInv, script # "none", NEW c \in Commanded
    PROVE  Code(bus[c]) = asked[c]
  BY SettledShows DEF AskedInv

\* A command is sent when the ones before it are carried out, or is the last again.
LEMMA SendCommandKeeps ==
    ASSUME FastLoop, IInv, SendCommand
    PROVE  Kept'
<1> DEFINE b == Steps(script)[line].byte
<1> USE DEF SendCommand, At, Go, Step
<1>1. /\ script # "none" /\ script \in Scripts /\ line \in 1 .. Len(Steps(script))
      /\ line' - 1 = line /\ line \in Nat \ {0} /\ line' = line + 1 /\ script' = script
      /\ Steps(script)[line].op = "command"
  BY DEF IInv, TypeOK
<1>2. b \in Bytes /\ b \in Character /\ Channel(b) \in Channels /\ b # None
  <2>1. b \in Bytes /\ Channel(b) \in Channels
    BY <1>1, StepTypes
  <2>2. QED
    BY <2>1, ByteTypes
<1>3. /\ wire = None /\ wire' = b /\ UNCHANGED <<uart, pc, a, bus>>
      /\ asked' = [asked EXCEPT ![Channel(b)] = Code(b)]
  BY DEF Send
<1>4. /\ bus \in [Channels -> Character] /\ asked \in [Channels -> Codes]
      /\ uart.data \in Character /\ LinkTypeOK
  BY DEF IInv, TypeOK, LinkTypeOK, UartState
<1>5. Past = line /\ Past' = line + 1 /\ ~shooting' /\ wait' = 0
  BY <1>1, PastIs DEF capture
<1>6. ~Quiet(script, line + 1)
  BY <1>1, NextQuiet
<1>7. /\ Sent' = Sent \cup {line} /\ Sent = CommandsBefore(script, line)
      /\ Sent' = CommandsBefore(script, line + 1)
  BY <1>1, SentIs, NextCommands
<1>8. Commanded' = Commanded \cup {Channel(b)}
  BY <1>1, <1>7, SentIs
<1>9. \A i \in Sent : i \in Nat /\ i < line
  BY <1>1, <1>7, NextCommands
<1>10. \/ Settled
       \/ /\ uart.data = b /\ OneOnItsWay /\ Pending = b
          /\ \E i \in Sent : LastCommand(script, line, i) /\ Steps(script)[i] = Steps(script)[line]
  <2>1. CASE Quiet(script, line)
    BY <1>1, <1>5, <2>1 DEF IInv, QuietInv
  <2>2. CASE Repeats(script, line)
    <3>1. PICK i \in Sent : LastCommand(script, line, i) /\ Steps(script)[i] = Steps(script)[line]
      BY <1>7, <2>2 DEF Repeats, LastCommand
    <3>2. Pending = b /\ OneOnItsWay
      BY <1>1, <3>1 DEF IInv, AskedInv
    <3>3. QED
      BY <1>3, <3>1, <3>2 DEF Pending
  <2>3. QED
    BY <1>1, <2>1, <2>2, QuietSteps
<1>11. Pending' = b /\ After(bus, Pending)' = After(bus, b)
  BY <1>2, <1>3 DEF Pending, After
<1>12. OneOnItsWay'
  <2>1. CASE Settled
    BY <1>2, <1>3, <2>1 DEF Settled, OneOnItsWay, After
  <2>2. CASE uart.data = b /\ OneOnItsWay
    <3>1. pc = "drive" => a = uart.data \/ After(bus, a) = bus
      BY <1>3, <2>2 DEF OneOnItsWay
    <3>2. QED
      BY <1>2, <1>3, <2>2, <3>1 DEF OneOnItsWay, After
  <2>3. QED
    BY <1>10, <2>1, <2>2
<1>13. \A c \in Commanded : Code(After(bus, Pending)[c]) = asked[c]
  BY <1>1 DEF IInv, AskedInv
<1>14. \A c \in Commanded' : Code(After(bus, b)[c]) = asked'[c]
  <2>1. ASSUME NEW c \in Commanded, c # Channel(b) PROVE Code(After(bus, b)[c]) = asked'[c]
    <3>1. c \in Channels
      BY <1>1, SentTypes DEF IInv
    <3>2. asked'[c] = asked[c] /\ After(bus, b)[c] = bus[c]
      BY <1>2, <1>3, <1>4, <2>1, <3>1, AfterOnce
    <3>3. CASE Settled
      BY <1>1, <1>4, <3>2, <3>3, SettledIsAsked DEF IInv
    <3>4. CASE Pending = b
      BY <1>13, <3>2, <3>4
    <3>5. QED
      BY <1>10, <3>3, <3>4
  <2>2. Code(After(bus, b)[Channel(b)]) = asked'[Channel(b)]
    BY <1>2, <1>3, <1>4, AfterOnce
  <2>3. QED
    BY <1>8, <2>1, <2>2
<1>15. AskedInv'
  <2>1. ASSUME NEW i \in Sent', LastOnChannel(script, line + 1, i)
        PROVE  asked'[Channel(Steps(script)[i].byte)] = Code(Steps(script)[i].byte)
    <3>1. CASE i = line
      BY <1>2, <1>3, <1>4, <3>1
    <3>2. CASE i # line
      <4>1. i \in Sent /\ i < line
        BY <1>7, <1>9, <2>1, <3>2
      <4>2. line \in CommandsBefore(script, line + 1)
        BY <1>7
      <4>3. Channel(b) # Channel(Steps(script)[i].byte)
        <5>1. ~(line <= i)
          BY <1>1, <4>1, <1>9
        <5>2. QED
          BY <2>1, <4>2, <5>1 DEF LastOnChannel
      <4>4. LastOnChannel(script, line, i)
        BY <1>1, <1>7, <2>1, <4>1, NextCommands DEF LastOnChannel
      <4>5. Channel(Steps(script)[i].byte) \in Channels
        BY <1>1, <4>1, SentTypes DEF IInv
      <4>6. QED
        BY <1>1, <1>3, <1>4, <4>1, <4>3, <4>4, <4>5 DEF IInv, AskedInv
    <3>3. QED
      BY <3>1, <3>2
  <2>2. ASSUME NEW c \in Channels \ Commanded' PROVE asked'[c] = Off
    BY <1>1, <1>3, <1>4, <1>8, <2>2 DEF IInv, AskedInv
  <2>3. ASSUME NEW i \in Sent', LastCommand(script, line + 1, i)
        PROVE  Pending' = Steps(script)[i].byte
    <3>1. line \in CommandsBefore(script, line + 1)
      BY <1>7
    <3>2. i = line
      BY <1>1, <1>7, <1>9, <2>3, <3>1 DEF LastCommand
    <3>3. QED
      BY <1>11, <3>2
  <2>4. QED
    BY <1>1, <1>11, <1>12, <1>14, <2>1, <2>2, <2>3 DEF AskedInv
<1>16. CarriedInv'
  <2>1. SUFFICES ASSUME Carried(script, line + 1), NEW c \in Commanded'
                 PROVE  Code(bus[c]) = asked'[c]
    BY <1>1, <1>3, <1>5 DEF CarriedInv
  <2>2. PICK r : LastCommand(script, line + 1, r) /\ Repeats(script, r) /\ Quiet(script, r)
    BY <1>6, <2>1 DEF Carried
  <2>3. line \in CommandsBefore(script, line + 1)
    BY <1>7
  <2>4. r = line
    BY <1>1, <1>7, <1>9, <2>2, <2>3, NextCommands DEF LastCommand
  <2>5. PICK i \in Sent : LastCommand(script, line, i) /\ Steps(script)[i] = Steps(script)[line]
    BY <1>7, <2>2, <2>4 DEF Repeats, LastCommand
  <2>6. Settled
    BY <1>1, <1>5, <2>2, <2>4 DEF IInv, QuietInv
  <2>7. Pending = b
    BY <1>1, <2>5 DEF IInv, AskedInv
  <2>8. After(bus, b) = bus
    BY <1>4, <2>6, <2>7, SettledShows
  <2>9. QED
    BY <1>14, <2>8
<1>17. WaitInv' /\ QuietInv' /\ ShotInv'
  BY <1>1, <1>5, <1>6 DEF WaitInv, QuietInv, ShotInv
<1>18. PortInv'
  BY <1>1, NextReleased DEF IInv, PortInv, ports
<1>19. ReachInv'
  BY <1>1, NextReachable DEF IInv, ReachInv
<1>20. QED
  BY <1>15, <1>16, <1>17, <1>18, <1>19 DEF Kept

\* The firmware and the line go on under the script.
LEMMA LinkKeeps ==
    ASSUME IInv, LinkStep \/ UNCHANGED linkVars,
           UNCHANGED <<script, line, wait, shooting, open, asked>>,
           seen' = IF shooting THEN seen \cup {Shown(bus')} ELSE seen
    PROVE  Kept'
<1>1. LinkTypeOK
  BY DEF IInv, TypeOK
<1>2. Past' = Past /\ Sent' = Sent /\ Commanded' = Commanded
  BY DEF Past, Sent, Commanded
<1>3. Settled => Settled' /\ bus' = bus
  BY <1>1, SettledStays
<1>4. WaitInv' /\ PortInv' /\ ReachInv'
  BY DEF IInv, WaitInv, PortInv, ReachInv
<1>5. ShotInv'
  BY <1>3 DEF IInv, ShotInv, Shown
<1>6. QuietInv'
  <2>1. ASSUME script # "none", line > 1, ~shooting, Steps(script)[line - 1].op = "pause"
        PROVE  SettlesAfter(Steps(script)[line - 1].ticks - wait)'
    <3>1. script \in Scripts /\ line - 1 \in 1 .. Len(Steps(script)) /\ wait \in Nat
      BY <2>1, StepTypes DEF IInv, TypeOK
    <3>2. Steps(script)[line - 1].ticks - wait \in Nat
      BY <2>1, <3>1, StepTypes DEF IInv, WaitInv
    <3>3. SettlesAfter(Steps(script)[line - 1].ticks - wait)
      BY <2>1 DEF IInv, QuietInv
    <3>4. \A t \in Nat : SettlesAfter(t) => SettlesAfter(t)'
      BY <1>1, SettlesAfterStays
    <3>5. QED
      BY <3>2, <3>3, <3>4
  <2>2. ASSUME script # "none", Quiet(script, Past) PROVE Settled'
    BY <1>3, <2>2 DEF IInv, QuietInv
  <2>3. QED
    BY <1>2, <2>1, <2>2 DEF QuietInv
<1>7. OneOnItsWay => /\ OneOnItsWay' /\ Pending' = Pending
                     /\ After(bus, Pending)' = After(bus, Pending)
                     /\ bus' = bus \/ bus' = After(bus, Pending)
  BY <1>1, OneStays
<1>8. Commanded # {} => Sent # {}
  BY DEF Commanded
<1>9. AskedInv'
  <2>1. AskedInv
    BY DEF IInv
  <2>2. CASE Sent = {}
    BY <1>2, <1>8, <2>1, <2>2 DEF AskedInv
  <2>3. CASE script # "none" /\ OneOnItsWay
    BY <1>2, <1>7, <2>1, <2>3 DEF AskedInv
  <2>4. CASE script = "none"
    BY <2>4 DEF AskedInv
  <2>5. QED
    BY <2>1, <2>2, <2>3, <2>4 DEF AskedInv
<1>10. CarriedInv'
  <2>1. ASSUME script # "none", Carried(script, Past), NEW c \in Commanded
        PROVE  Code(bus'[c]) = asked[c]
    <3>1. OneOnItsWay /\ Code(After(bus, Pending)[c]) = asked[c]
      BY <1>8, <2>1 DEF IInv, AskedInv
    <3>2. Code(bus[c]) = asked[c]
      BY <2>1 DEF IInv, CarriedInv
    <3>3. QED
      BY <1>7, <3>1, <3>2
  <2>2. QED
    BY <1>2, <2>1 DEF CarriedInv
<1>11. QED
  BY <1>4, <1>5, <1>6, <1>9, <1>10 DEF Kept

\* The time goes by, and a pause comes to its end.
LEMMA ClockKeeps ==
    ASSUME IInv, Clock
    PROVE  Kept'
<1> USE DEF Clock
<1>1. /\ LinkTypeOK /\ wait \in Nat /\ wait' \in Nat /\ wait' <= wait /\ wait <= wait' + 1
      /\ UNCHANGED <<script, line, shooting, seen, open, asked>>
  BY DEF IInv, TypeOK, ports, capture
<1>2. Sent' = Sent /\ Commanded' = Commanded
  BY <1>1 DEF Sent, Commanded
<1>3. /\ Pending' = Pending /\ (Settled <=> Settled') /\ (OneOnItsWay <=> OneOnItsWay')
      /\ After(bus, Pending)' = After(bus, Pending) /\ bus' = bus
  BY DEF Tick, Pending, Settled, OneOnItsWay, After
<1>4. WaitInv'
  <2>1. ASSUME script # "none", line > 1
        PROVE  Steps(script)[line - 1].op = "pause" => Steps(script)[line - 1].ticks \in Nat
    BY <2>1, StepTypes DEF IInv, TypeOK
  <2>2. QED
    BY <1>1, <2>1 DEF IInv, WaitInv
<1>5. ShotInv' /\ PortInv' /\ ReachInv'
  BY <1>1, <1>3 DEF IInv, ShotInv, PortInv, ReachInv, Shown
<1>6. AskedInv'
  BY <1>1, <1>2, <1>3 DEF IInv, AskedInv
<1>7. ASSUME script # "none", line > 1, ~shooting, Steps(script)[line - 1].op = "pause",
             NEW u \in Nat, u = Steps(script)[line - 1].ticks - wait'
      PROVE  SettlesAfter(u)'
  <2>1. script \in Scripts /\ line - 1 \in 1 .. Len(Steps(script))
    BY <1>7, StepTypes DEF IInv, TypeOK
  <2>2. Steps(script)[line - 1].ticks \in Nat /\ wait <= Steps(script)[line - 1].ticks
    BY <1>1, <1>7, <2>1, StepTypes DEF IInv, WaitInv
  <2>3. PICK t \in Nat : t = Steps(script)[line - 1].ticks - wait
    BY <1>1, <2>2
  <2>4. u <= t + 1
    BY <1>1, <1>7, <2>2, <2>3
  <2>5. SettlesAfter(t)
    BY <1>7, <2>3 DEF IInv, QuietInv
  <2>6. QED
    BY <1>1, <1>7, <2>4, <2>5, SettlesAfterTick
<1>8. ASSUME script # "none", Quiet(script, Past') PROVE Settled'
  <2>1. CASE Past' = Past
    BY <1>3, <1>8, <2>1 DEF IInv, QuietInv
  <2>2. CASE Past' # Past
    <3>1. /\ wait > 0 /\ ~shooting /\ wait' = 0 /\ Past = line - 1 /\ Past' = line
      BY <1>1, <2>2 DEF Past
    <3>2. line > 1 /\ Steps(script)[line - 1].op = "pause" /\ script \in Scripts
      BY <3>1, <1>8 DEF IInv, WaitInv, TypeOK
    <3>3. line - 1 \in Nat \ {0} /\ (line - 1) + 1 = line
      BY <1>8, <3>2, StepTypes DEF IInv, TypeOK
    <3>4. Quiet(script, line - 1) \/ LongPause(script, line - 1)
      BY <1>8, <3>1, <3>3, NextQuiet
    <3>5. CASE Quiet(script, line - 1)
      BY <1>3, <1>8, <3>1, <3>5 DEF IInv, QuietInv
    <3>6. CASE LongPause(script, line - 1)
      <4>1. line - 1 \in 1 .. Len(Steps(script))
        BY <1>8, <3>2, StepTypes DEF IInv, TypeOK
      <4>2. Steps(script)[line - 1].ticks \in Nat /\ Steps(script)[line - 1].ticks > Period
        BY <3>2, <3>6, <4>1, StepTypes DEF LongPause
      <4>3. PICK t \in Nat : t = Steps(script)[line - 1].ticks /\ t > Period
        BY <4>2
      <4>4. SettlesAfter(t)'
        BY <1>7, <1>8, <3>1, <3>2, <4>3
      <4>5. LinkTypeOK'
        BY <1>1, LinkTypes
      <4>6. QED
        BY <4>3, <4>4, <4>5, LinkAssumption DEF SettlesAfter, LinkTypeOK
    <3>7. QED
      BY <3>4, <3>5, <3>6
  <2>3. QED
    BY <2>1, <2>2
<1>9. QuietInv'
  <2>1. ASSUME script # "none", line > 1, ~shooting, Steps(script)[line - 1].op = "pause"
        PROVE  SettlesAfter(Steps(script)[line - 1].ticks - wait)'
    <3>1. script \in Scripts /\ line - 1 \in 1 .. Len(Steps(script))
      BY <2>1, StepTypes DEF IInv, TypeOK
    <3>2. Steps(script)[line - 1].ticks \in Nat /\ wait' <= Steps(script)[line - 1].ticks
      BY <1>1, <1>4, <2>1, <3>1, StepTypes DEF WaitInv
    <3>3. PICK u \in Nat : u = Steps(script)[line - 1].ticks - wait'
      BY <1>1, <3>2
    <3>4. SettlesAfter(u)'
      BY <1>7, <2>1, <3>3
    <3>5. QED
      BY <1>1, <3>3, <3>4 DEF SettlesAfter
  <2>2. QED
    BY <1>1, <1>8, <2>1 DEF QuietInv
<1>10. CarriedInv'
  <2>1. SUFFICES ASSUME script # "none", Carried(script, Past'), NEW c \in Commanded
                 PROVE  Code(bus[c]) = asked[c]
    BY <1>1, <1>2, <1>3 DEF CarriedInv
  <2>2. CASE Quiet(script, Past')
    BY <1>1, <1>3, <1>8, <2>1, <2>2, SettledIsAsked DEF IInv
  <2>3. CASE Past' = Past
    BY <2>1, <2>3 DEF IInv, CarriedInv
  <2>4. CASE Past' # Past /\ ~Quiet(script, Past')
    <3>1. /\ wait > 0 /\ ~shooting /\ Past = line - 1 /\ Past' = line
      BY <1>1, <2>4 DEF Past
    <3>2. line > 1 /\ Steps(script)[line - 1].op = "pause" /\ script \in Scripts
      BY <3>1, <2>1 DEF IInv, WaitInv, TypeOK
    <3>3. line - 1 \in Nat \ {0} /\ (line - 1) + 1 = line
      BY <2>1, <3>2, StepTypes DEF IInv, TypeOK
    <3>4. Carried(script, line - 1)
      BY <2>1, <2>4, <3>1, <3>2, <3>3, NextCarried
    <3>5. QED
      BY <2>1, <3>1, <3>4 DEF IInv, CarriedInv
  <2>5. QED
    BY <2>2, <2>3, <2>4
<1>11. QED
  BY <1>4, <1>5, <1>6, <1>9, <1>10 DEF Kept

\* What a script that modulates has asked for when it triggers the camera.
LEMMA ShotAsked ==
    ASSUME IInv, script \notin {"none", "demoStaticScan"},
           line \in 1 .. Len(Steps(script)), Steps(script)[line].op = "shoot"
    PROVE  Commanded = Channels /\ ScriptCodes(script, asked)
<1>1. script \in Scripts /\ AskedInv /\ Reachable(script, line)
  BY DEF IInv, TypeOK, ReachInv
<1>2. CASE script = "DemoScan"
  <2>1. line = 14
    BY <1>2, ScriptLengths, DemoScanSteps
  <2>2. Sent = {8, 10, 12}
    BY <1>2, <2>1, DemoScanSent DEF Sent
  <2>3. /\ Channel(Steps(script)[8].byte) = 3 /\ Code(Steps(script)[8].byte) = 30
        /\ Channel(Steps(script)[10].byte) = 2 /\ Code(Steps(script)[10].byte) = 36
        /\ Channel(Steps(script)[12].byte) = 1 /\ Code(Steps(script)[12].byte) = 20
    BY <1>2, DemoScanCommands
  <2>4. \A i \in Sent : LastOnChannel(script, line, i)
    BY <2>2, <2>3, SentIs DEF LastOnChannel
  <2>5. asked[1] = 20 /\ asked[2] = 36 /\ asked[3] = 30
    BY <1>1, <1>2, <2>2, <2>3, <2>4 DEF AskedInv
  <2>6. Commanded = Channels
    BY <2>2, <2>3 DEF Commanded, Channels
  <2>7. QED
    BY <1>2, <2>5, <2>6 DEF ScriptCodes
<1>3. CASE script = "calibrateWithBall"
  <2>1. line = 13
    BY <1>3, ScriptLengths, CalibrateWithBallSteps
  <2>2. Sent = {7, 9, 11}
    BY <1>3, <2>1, CalibrateWithBallSent DEF Sent
  <2>3. /\ Channel(Steps(script)[7].byte) = 3 /\ Code(Steps(script)[7].byte) = 44
        /\ Channel(Steps(script)[9].byte) = 2 /\ Code(Steps(script)[9].byte) = 43
        /\ Channel(Steps(script)[11].byte) = 1 /\ Code(Steps(script)[11].byte) = 50
    BY <1>3, CalibrateWithBallCommands
  <2>4. \A i \in Sent : LastOnChannel(script, line, i)
    BY <2>2, <2>3, SentIs DEF LastOnChannel
  <2>5. asked[1] = 50 /\ asked[2] = 43 /\ asked[3] = 44
    BY <1>1, <1>3, <2>2, <2>3, <2>4 DEF AskedInv
  <2>6. Commanded = Channels
    BY <2>2, <2>3 DEF Commanded, Channels
  <2>7. QED
    BY <1>3, <2>5, <2>6 DEF ScriptCodes
<1>4. script # "calibrateWithBallStatic"
  <2> SUFFICES ASSUME script = "calibrateWithBallStatic" PROVE FALSE
    OBVIOUS
  <2>1. Len(Steps(script)) = 26
    BY ScriptLengths
  <2>2. line > 4
    BY <2>1, CalibrateWithBallStaticClosed
  <2>3. 4 \in 1 .. (line - 1)
    BY <2>2
  <2>4. QED
    BY <1>1, <2>3, CalibrateWithBallStaticClosed DEF Reachable
<1>5. QED
  BY <1>1, <1>2, <1>3, <1>4, HostAssumption DEF ScriptNames

\* And the camera sees just that.
LEMMA ShotSees ==
    ASSUME IInv, script # "demoStaticScan", shooting
    PROVE  seen = {asked} /\ InOrder(seen)
<1>1. /\ script # "none" /\ line \in 1 .. Len(Steps(script))
      /\ Steps(script)[line].op = "shoot" /\ asked \in [Channels -> Codes]
  BY StepTypes DEF IInv, WaitInv, TypeOK
<1>2. Commanded = Channels /\ ScriptCodes(script, asked)
  BY <1>1, ShotAsked
<1>3. seen = {Shown(bus)} /\ Settled
  BY DEF IInv, ShotInv
<1>4. \A c \in Channels : Code(bus[c]) = asked[c]
  BY <1>1, <1>2, <1>3, SettledIsAsked DEF IInv, TypeOK
<1>5. Shown(bus) = asked
  BY <1>1, <1>4 DEF Shown
<1>6. QED
  BY <1>2, <1>3, <1>5, ScriptsInOrder

\* The steps, as far as the pictures are concerned.
LEMMA PictureKinds ==
    ASSUME TypeOK, WaitInv, [Next]_vars
    PROVE  \/ UNCHANGED <<script, line, movies, results>>
           \/ script' = "none" /\ directions' = directions
           \/ /\ script # "none" /\ script' = script /\ line' = line + 1
              /\ line \in 1 .. Len(Steps(script)) /\ Step.op \notin {"shoot", "separate", "average"}
              /\ UNCHANGED <<movies, results>>
           \/ GetData \/ SeparateMovie \/ AverageMovies \/ WriteDirections
           \/ \E s \in Scripts : Start(s)
<1>1. script # "none" => Len(Steps(script)) \in Nat /\ line \in 1 .. Len(Steps(script)) + 1
  BY StepTypes DEF TypeOK
<1>2. CASE Arrival \/ Firmware \/ Clock \/ UNCHANGED vars
  BY <1>2 DEF Arrival, Firmware, Clock, vars, capture
<1>3. CASE Operator
  BY <1>3 DEF Operator, Interrupt, Fail, GuiOpen, GuiPress, capture, results
<1> DEFINE
      Ends == script' = "none" /\ directions' = directions
      Passes ==
        /\ script # "none" /\ script' = script /\ line' = line + 1
        /\ line \in 1 .. Len(Steps(script)) /\ Step.op \notin {"shoot", "separate", "average"}
        /\ UNCHANGED <<movies, results>>
<1>4. CASE \/ Clear \/ ReleaseAll \/ Query \/ Need \/ StartCamera \/ Open \/ Close
           \/ MentionUndefined \/ RunPSBox
  <2>1. /\ script # "none" /\ line <= Len(Steps(script))
        /\ Step.op \notin {"shoot", "separate", "average"} /\ UNCHANGED <<movies, results>>
    BY <1>4 DEF Clear, ReleaseAll, Query, Need, StartCamera, Open, Close, MentionUndefined,
       RunPSBox, At, capture
  <2>2. Go \/ \E outcome : Fail(outcome)
    BY <1>4 DEF Clear, ReleaseAll, Query, Need, StartCamera, Open, Close, MentionUndefined,
       RunPSBox
  <2>3. Ends \/ Passes
    BY <1>1, <2>1, <2>2 DEF Go, Fail, results
  <2>4. QED
    BY <2>3
<1>5. CASE SendCommand \/ BeginPause \/ Trigger
  BY <1>1, <1>5 DEF SendCommand, BeginPause, Trigger, At, Go, capture
<1>6. CASE GetDataTimeout \/ ProcessingFails \/ Finish
  <2>1. Ends
    BY <1>6 DEF GetDataTimeout, ProcessingFails, Finish, Fail, results
  <2>2. QED
    BY <2>1
<1>7. QED
  BY <1>2, <1>3, <1>4, <1>5, <1>6 DEF Next, ScriptStep

\* Every action keeps the pictures and the directions in order.
LEMMA PairedKeeps ==
    ASSUME IInv, [Next]_vars
    PROVE  PairedInv'
<1> SUFFICES /\ directions' \in {Missing, OneEach}
             /\ script' \notin {"none", "demoStaticScan"} =>
                   \A i \in 1 .. (line' - 1) :
                      /\ Steps(script')[i].op = "shoot" =>
                            movies' # <<>> /\ InOrder(movies'[Len(movies')])
                      /\ Steps(script')[i].op = "separate" => pictures' = OneEach
  BY DEF PairedInv
<1> DEFINE Before(l) ==
             \A i \in 1 .. (l - 1) :
                /\ Steps(script)[i].op = "shoot" =>
                      movies # <<>> /\ InOrder(movies[Len(movies)])
                /\ Steps(script)[i].op = "separate" => pictures = OneEach
<1>1. directions \in {Missing, OneEach} /\ (script \notin {"none", "demoStaticScan"} => Before(line))
  BY DEF IInv, PairedInv
<1>2. script # "none" => /\ script \in Scripts /\ line \in Nat \ {0}
                         /\ \A i \in 1 .. ((line + 1) - 1) : i \in 1 .. (line - 1) \/ i = line
  BY StepTypes DEF IInv, TypeOK
<1>3. CASE UNCHANGED <<script, line, movies, results>>
  BY <1>1, <1>3 DEF results
<1>4. CASE script' = "none" /\ directions' = directions
  BY <1>1, <1>4
<1>5. CASE /\ script # "none" /\ script' = script /\ line' = line + 1
           /\ line \in 1 .. Len(Steps(script)) /\ Step.op \notin {"shoot", "separate", "average"}
           /\ UNCHANGED <<movies, results>>
  BY <1>1, <1>2, <1>5 DEF results, Step
<1>6. CASE GetData
  <2>1. /\ script # "none" /\ Steps(script)[line].op = "shoot" /\ shooting
        /\ script' = script /\ line' = line + 1 /\ movies' = Append(movies, seen)
        /\ UNCHANGED results
    BY <1>6 DEF GetData, Go, IInv, WaitInv
  <2>2. script # "demoStaticScan" => InOrder(seen)
    BY <2>1, ShotSees
  <2>3. movies' # <<>> /\ movies'[Len(movies')] = seen
    BY <2>1 DEF IInv, TypeOK
  <2>4. QED
    BY <1>1, <1>2, <2>1, <2>2, <2>3 DEF results
<1>7. CASE SeparateMovie \/ AverageMovies \/ WriteDirections
  <2>1. /\ script # "none" /\ line \in 1 .. Len(Steps(script)) /\ script \in Scripts
        /\ script' = script /\ line' = line + 1 /\ movies' = movies
        /\ Reachable(script, line)
        /\ SeparateMovie => Steps(script)[line].op = "separate"
        /\ AverageMovies => Steps(script)[line].op = "average"
        /\ WriteDirections => Steps(script)[line].op = "directions"
    BY <1>2, <1>7 DEF SeparateMovie, AverageMovies, WriteDirections, At, Go, Step, capture,
       IInv, ReachInv, TypeOK
  <2>2. CASE SeparateMovie /\ script # "demoStaticScan"
    <3>1. InOrder(movies[Len(movies)])
      BY <1>1, <2>1, <2>2, PictureSteps
    <3>2. pictures' = OneEach /\ directions' = directions
      BY <2>2, <3>1, SeparateInOrder DEF SeparateMovie
    <3>3. QED
      BY <1>1, <1>2, <2>1, <2>2, <3>2
  <2>3. CASE WriteDirections /\ script # "demoStaticScan"
    <3>1. pictures = OneEach
      BY <1>1, <2>1, <2>3, PictureSteps
    <3>2. directions' = OneEach /\ pictures' = pictures
      BY <2>3, <3>1 DEF WriteDirections
    <3>3. QED
      BY <1>1, <1>2, <2>1, <2>3, <3>2
  <2>4. script # "demoStaticScan" => ~AverageMovies
    BY <2>1, PictureSteps
  <2>5. CASE script = "demoStaticScan"
    <3>1. ~WriteDirections
      BY <2>1, <2>5, ScriptLengths, DemoStaticScanSteps
    <3>2. QED
      BY <1>1, <1>7, <2>1, <2>5, <3>1 DEF SeparateMovie, AverageMovies
  <2>6. QED
    BY <1>7, <2>2, <2>3, <2>4, <2>5
<1>8. CASE \E s \in Scripts : Start(s)
  BY <1>1, <1>8 DEF Start
<1>9. QED
  BY <1>3, <1>4, <1>5, <1>6, <1>7, <1>8, PictureKinds DEF IInv

-----------------------------------------------------------------------------
(* Without a fault and without the control window: what a run leaves lit,  *)
(* and what demoStaticScan then shows to the camera.                       *)

\* Where a script may end early: with nothing sent yet, or behind its fclose.
LEMMA EarlyEnds ==
    ASSUME NEW s \in Scripts, NEW l \in 1 .. Len(Steps(s)), Reachable(s, l)
    PROVE  /\ \/ Steps(s)[l].op \in {"need", "open"}
              \/ Steps(s)[l].op = "camera" /\ Steps(s)[l].args # 2
              => CommandsBefore(s, l) = {}
           /\ Steps(s)[l].op = "mention" => \E i \in 1 .. (l - 1) : Steps(s)[i].op = "close"
<1>1. ASSUME l \in 1 .. 6, \A i \in 1 .. 6 : Steps(s)[i].op # "command"
      PROVE  CommandsBefore(s, l) = {}
  <2>1. \A i \in 1 .. (l - 1) : i \in 1 .. 6
    BY <1>1
  <2>2. QED
    BY <1>1, <2>1 DEF CommandsBefore
<1>2. CASE s = "DemoScan"
  <2>1. l \in 1 .. 24
    BY <1>2, ScriptLengths
  <2>2. /\ Steps(s)[l].op \in {"need", "open"} => l \in 1 .. 6
        /\ Steps(s)[l].op = "camera" => Steps(s)[l].args = 2
        /\ Steps(s)[l].op = "mention" => l = 24
        /\ \A i \in 1 .. 6 : Steps(s)[i].op # "command"
        /\ Steps(s)[23].op = "close"
    BY <1>2, <2>1, DemoScanEnds
  <2>3. l = 24 => 23 \in 1 .. (l - 1)
    BY <2>1
  <2>4. QED
    BY <1>1, <2>2, <2>3
<1>3. CASE s = "demoStaticScan"
  <2>1. l \in 1 .. 46
    BY <1>3, ScriptLengths
  <2>2. /\ Steps(s)[l].op \in {"need", "open"} => l \in 1 .. 6
        /\ Steps(s)[l].op = "camera" => Steps(s)[l].args = 2
        /\ Steps(s)[l].op # "mention"
        /\ \A i \in 1 .. 6 : Steps(s)[i].op # "command"
    BY <1>3, <2>1, DemoStaticScanEnds
  <2>3. QED
    BY <1>1, <2>2
<1>4. CASE s = "calibrateWithBall"
  <2>1. l \in 1 .. 22
    BY <1>4, ScriptLengths
  <2>2. /\ Steps(s)[l].op \in {"need", "open"} => l \in 1 .. 6
        /\ Steps(s)[l].op = "camera" => Steps(s)[l].args = 2
        /\ Steps(s)[l].op # "mention"
        /\ \A i \in 1 .. 6 : Steps(s)[i].op # "command"
    BY <1>4, <2>1, CalibrateWithBallEnds
  <2>3. QED
    BY <1>1, <2>2
<1>5. CASE s = "calibrateWithBallStatic"
  <2>1. l \in 1 .. 26
    BY <1>5, ScriptLengths
  <2>2. l \in 1 .. 6
    <3>1. CASE l > 4
      <4>1. 4 \in 1 .. (l - 1)
        BY <2>1, <3>1
      <4>2. QED
        BY <1>5, <4>1, CalibrateWithBallStaticClosed DEF Reachable
    <3>2. QED
      BY <2>1, <3>1
  <2>3. /\ Steps(s)[l].op # "mention"
        /\ \A i \in 1 .. 6 : Steps(s)[i].op # "command"
    BY <1>5, <2>1, CalibrateWithBallStaticEnds
  <2>4. QED
    BY <1>1, <2>2, <2>3
<1>6. QED
  BY <1>2, <1>3, <1>4, <1>5, HostAssumption DEF ScriptNames

\* A script that ends has closed the port.
LEMMA EndClosed ==
    ASSUME NEW s \in Scripts, Reachable(s, Len(Steps(s)) + 1)
    PROVE  \E i \in 1 .. Len(Steps(s)) : Steps(s)[i].op = "close"
<1>1. CASE s = "DemoScan"
  <2>1. Steps(s)[23].op = "close" /\ 23 \in 1 .. 24
    BY <1>1, DemoScanEnds
  <2>2. QED
    BY <1>1, <2>1, ScriptLengths
<1>2. CASE s = "demoStaticScan"
  <2>1. Steps(s)[44].op = "close" /\ 44 \in 1 .. 46
    BY <1>2, DemoStaticScanSteps
  <2>2. QED
    BY <1>2, <2>1, ScriptLengths
<1>3. CASE s = "calibrateWithBall"
  <2>1. Steps(s)[20].op = "close" /\ 20 \in 1 .. 22
    BY <1>3, CalibrateWithBallEnds
  <2>2. QED
    BY <1>3, <2>1, ScriptLengths
<1>4. s # "calibrateWithBallStatic"
  <2> SUFFICES ASSUME s = "calibrateWithBallStatic" PROVE FALSE
    OBVIOUS
  <2>1. Len(Steps(s)) = 26
    BY ScriptLengths
  <2>2. 4 \in 1 .. ((26 + 1) - 1)
    OBVIOUS
  <2>3. QED
    BY <2>1, <2>2, CalibrateWithBallStaticClosed DEF Reachable
<1>5. QED
  BY <1>1, <1>2, <1>3, <1>4, HostAssumption DEF ScriptNames

\* The link turns no light on that nothing on its way turns on.
LEMMA DarkStays ==
    ASSUME LinkTypeOK, NEW c \in Channels, Dark(c), LinkStep \/ Tick \/ UNCHANGED linkVars
    PROVE  Dark(c)'
<1> USE DEF Dark, OnTheWay
<1>1. CASE Receive
  <2>1. uart'.data = wire /\ wire' = None /\ wire # None /\ UNCHANGED <<pc, a, bus>>
    BY <1>1 DEF Receive, Arrive
  <2>2. QED
    BY <2>1
<1>2. CASE Sample \/ SampleColliding
  <2>1. /\ uart'.data \in {uart.data} \cup ({wire} \ {None}) /\ a' = uart.data
        /\ wire' \in {wire, None} /\ bus' = bus
    BY <1>2 DEF Sample, SampleColliding, ReadRxData, ReadData, ArriveDuringRead,
       LinkTypeOK, UartState
  <2>2. QED
    BY <2>1
<1>3. CASE Drive
  <2>1. /\ pc = "drive" /\ pc' # "drive" /\ UNCHANGED <<wire, uart, a>>
        /\ bus' = After(bus, a) /\ a \in Character /\ bus \in [Channels -> Character]
    BY <1>3, DriveIsAfter DEF Drive, LinkTypeOK
  <2>2. bus'[c] = IF c = Channel(a) THEN a ELSE bus[c]
    BY <2>1, AfterOnce
  <2>3. QED
    BY <2>1, <2>2
<1>4. CASE Echo \/ Tick \/ UNCHANGED linkVars
  BY <1>4 DEF Echo, Tick, linkVars
<1>5. QED
  BY <1>1, <1>2, <1>3, <1>4 DEF LinkStep

\* When the port is closed all lights are dark and stay so.
LEMMA ClosedLeavesDark ==
    ASSUME FastLoop, IInv, Closed, NEW c \in Channels
    PROVE  Dark(c)
<1>1. script # "none" /\ script \in Scripts /\ line \in 1 .. Len(Steps(script)) + 1
  BY DEF IInv, TypeOK, Closed
<1>2. Darkened(script, line)
  BY <1>1, ClosedDark DEF IInv, ReachInv, Closed
<1>3. Past = line
  BY <1>1, <1>2 DEF Past, Darkened, IInv, WaitInv
<1>4. ASSUME NEW d \in Channels
      PROVE  d \in Commanded /\ asked[d] = Off /\ Code(bus[d]) = Off
  <2>1. PICK k \in Sent : /\ LastOnChannel(script, line, k)
                          /\ Channel(Steps(script)[k].byte) = d
                          /\ Code(Steps(script)[k].byte) = Off
    BY <1>2, SentIs DEF Darkened, TurnsOff, LastOnChannel
  <2>2. asked[d] = Off
    BY <1>1, <2>1 DEF IInv, AskedInv
  <2>3. d \in Commanded
    BY <2>1, SentIs
  <2>4. QED
    BY <1>1, <1>2, <1>3, <2>2, <2>3 DEF Darkened, IInv, CarriedInv
<1>5. OneOnItsWay /\ Code(After(bus, Pending)[c]) = Off
  BY <1>1, <1>4 DEF IInv, AskedInv, Commanded
<1>6. /\ bus \in [Channels -> Character] /\ uart.data \in Character
      /\ (wire # None => wire \in Character) /\ a \in Character
  BY LinkAssumption DEF IInv, TypeOK, LinkTypeOK, UartState
<1>7. ASSUME NEW b \in Character, After(bus, b) = bus, Channel(b) = c PROVE Code(b) = Off
  BY <1>4, <1>6, <1>7, AfterOnce
<1>8. Pending \in Character /\ (Channel(Pending) = c => Code(Pending) = Off)
  BY <1>5, <1>6, AfterOnce DEF Pending
<1>9. ASSUME NEW b \in OnTheWay, Channel(b) = c PROVE Code(b) = Off
  BY <1>5, <1>6, <1>7, <1>8, <1>9 DEF OnTheWay, OneOnItsWay, Pending
<1>10. QED
  BY <1>4, <1>9 DEF Dark

\* Undisturbed and calibrated, a script ends before its first command or dark.
LEMMA EndsDark ==
    ASSUME FastLoop, IInv, Undisturbed, directions # Missing, script # "none",
           ScriptStep \/ Operator, script' = "none"
    PROVE  \/ Commanded = {} \/ Closed
<1>1. /\ script \in Scripts /\ line \in 1 .. Len(Steps(script)) + 1 /\ Reachable(script, line)
      /\ Len(Steps(script)) \in Nat
  BY StepTypes DEF IInv, TypeOK, ReachInv
<1>2. ~Interrupt /\ ~GetDataTimeout /\ ~ProcessingFails /\ ~GuiOpen
  BY DEF Undisturbed, Interrupt, GetDataTimeout, ProcessingFails, GuiOpen
<1>3. CASE Finish
  <2>1. line = Len(Steps(script)) + 1 /\ line - 1 = Len(Steps(script))
    BY <1>1, <1>3 DEF Finish
  <2>2. Reachable(script, Len(Steps(script)) + 1)
    BY <1>1, <2>1
  <2>3. \E i \in 1 .. Len(Steps(script)) : Steps(script)[i].op = "close"
    BY <1>1, <2>2, EndClosed
  <2>4. 1 .. (line - 1) = 1 .. Len(Steps(script))
    BY <2>1
  <2>5. QED
    BY <2>3, <2>4 DEF Closed
<1>4. CASE MentionUndefined
  <2>1. line \in 1 .. Len(Steps(script)) /\ Steps(script)[line].op = "mention"
    BY <1>1, <1>4 DEF MentionUndefined, At, Step
  <2>2. QED
    BY <1>1, <2>1, EarlyEnds DEF Closed
<1>5. CASE Need \/ Open \/ StartCamera
  <2>1. /\ line \in 1 .. Len(Steps(script))
        /\ \/ Steps(script)[line].op \in {"need", "open"}
           \/ Steps(script)[line].op = "camera" /\ Steps(script)[line].args # 2
    <3>1. ~Go
      BY DEF Go
    <3>0. line <= Len(Steps(script))
      BY <1>5 DEF Need, Open, StartCamera, At
    <3>2. line \in 1 .. Len(Steps(script))
      BY <1>1, <3>0
    <3>3. CASE Need \/ Open
      BY <3>2, <3>3 DEF Need, Open, At, Step
    <3>4. CASE StartCamera
      BY <3>1, <3>2, <3>4 DEF StartCamera, At, Step
    <3>5. QED
      BY <1>5, <3>3, <3>4
  <2>2. Sent = {}
    BY <1>1, <2>1, EarlyEnds, SentIs
  <2>3. QED
    BY <2>2, SentIs
<1>6. ~RunPSBox
  BY DEF RunPSBox, Go
<1>7. ~(\/ Clear \/ ReleaseAll \/ Query \/ Close \/ SendCommand \/ BeginPause \/ Trigger
        \/ GetData \/ SeparateMovie \/ AverageMovies \/ WriteDirections)
  BY DEF Clear, ReleaseAll, Query, Close, SendCommand, BeginPause, Trigger, GetData,
     SeparateMovie, AverageMovies, WriteDirections, Go
<1>8. ~(\E s \in Scripts : Start(s)) /\ ~(\E b \in GuiBytes : GuiPress(b))
  BY DEF Start, GuiPress
<1>9. QED
  BY <1>2, <1>3, <1>4, <1>5, <1>6, <1>7, <1>8 DEF ScriptStep, Operator

\* Only a calibration writes the directions.
LEMMA DirectionsKept ==
    ASSUME ScriptStep \/ Operator, ~WriteDirections
    PROVE  directions' = directions
<1>1. CASE \/ Clear \/ ReleaseAll \/ Query \/ Need \/ StartCamera \/ Open \/ Close
           \/ MentionUndefined \/ SendCommand \/ BeginPause \/ Trigger \/ GetData
  BY <1>1 DEF Clear, ReleaseAll, Query, Need, StartCamera, Open, Close, MentionUndefined,
     SendCommand, BeginPause, Trigger, GetData, results
<1>2. CASE \/ GetDataTimeout \/ SeparateMovie \/ AverageMovies \/ RunPSBox
           \/ ProcessingFails \/ Finish
  BY <1>2 DEF GetDataTimeout, SeparateMovie, AverageMovies, RunPSBox, ProcessingFails,
     Finish, results
<1>3. CASE Operator
  BY <1>3 DEF Operator, Start, Interrupt, GuiOpen, GuiPress, results
<1>4. QED
  BY <1>1, <1>2, <1>3 DEF ScriptStep

\* And then it has commanded all channels.
LEMMA DirectionsCommanded ==
    ASSUME NEW s \in Scripts, NEW l \in 1 .. Len(Steps(s)), Reachable(s, l),
           Steps(s)[l].op = "directions"
    PROVE  \A c \in Channels :
              \E i \in CommandsBefore(s, l) : Channel(Steps(s)[i].byte) = c
<1>1. CASE s = "calibrateWithBall"
  <2>1. l = 22
    BY <1>1, ScriptLengths, CalibrateWithBallSteps
  <2>2. {7, 9, 11} \subseteq 1 .. (l - 1)
    BY <2>1
  <2>3. /\ Steps(s)[7].op = "command" /\ Steps(s)[9].op = "command"
        /\ Steps(s)[11].op = "command"
    BY <1>1, CalibrateWithBallSteps
  <2>4. {7, 9, 11} \subseteq CommandsBefore(s, l)
    BY <2>2, <2>3 DEF CommandsBefore
  <2>5. /\ Channel(Steps(s)[7].byte) = 3 /\ Channel(Steps(s)[9].byte) = 2
        /\ Channel(Steps(s)[11].byte) = 1
    BY <1>1, CalibrateWithBallCommands
  <2>6. QED
    BY <2>4, <2>5 DEF Channels
<1>2. s # "calibrateWithBallStatic"
  <2> SUFFICES ASSUME s = "calibrateWithBallStatic" PROVE FALSE
    OBVIOUS
  <2>1. l \in 1 .. 26 /\ l > 4
    BY ScriptLengths, CalibrateWithBallStaticClosed
  <2>2. 4 \in 1 .. (l - 1)
    BY <2>1
  <2>3. QED
    BY <2>2, CalibrateWithBallStaticClosed DEF Reachable
<1>3. s # "DemoScan"
  <2> SUFFICES ASSUME s = "DemoScan" PROVE FALSE
    OBVIOUS
  <2>1. l \in 1 .. 24
    BY ScriptLengths
  <2>2. QED
    BY <2>1, DemoScanSteps
<1>4. s # "demoStaticScan"
  <2> SUFFICES ASSUME s = "demoStaticScan" PROVE FALSE
    OBVIOUS
  <2>1. l \in 1 .. 46
    BY ScriptLengths
  <2>2. QED
    BY <2>1, DemoStaticScanSteps
<1>5. QED
  BY <1>1, <1>2, <1>3, <1>4, HostAssumption DEF ScriptNames

\* Every action leaves no light on but those the running script commanded.
LEMMA CleanKeeps ==
    ASSUME FastLoop, IInv, [Next]_vars
    PROVE  CleanInv'
<1> SUFFICES ASSUME Undisturbed, (directions # Missing)', NEW c \in Channels
             PROVE  Dark(c)' \/ (script' # "none" /\ c \in Commanded')
  BY DEF CleanInv, Undisturbed
<1> DEFINE Clean == Dark(c) \/ (script # "none" /\ c \in Commanded)
<1>0. /\ directions # Missing => Clean
      /\ LinkTypeOK /\ TypeOK /\ WaitInv
      /\ script # "none" => script \in Scripts /\ line \in Nat \ {0}
  BY StepTypes DEF IInv, CleanInv, TypeOK
<1>1. CASE Arrival \/ Firmware \/ Clock \/ UNCHANGED vars
  <2>1. LinkStep \/ Tick \/ UNCHANGED linkVars
    BY <1>1 DEF Arrival, Firmware, Clock, LinkStep, vars
  <2>2. UNCHANGED <<script, line, directions>>
    BY <1>1 DEF Arrival, Firmware, Clock, vars, results
  <2>3. Sent' = Sent
    BY <2>2, SentIs
  <2>4. Commanded' = Commanded
    BY <2>2, <2>3, SentIs
  <2>5. Dark(c) => Dark(c)'
    BY <1>0, <2>1, DarkStays
  <2>6. QED
    BY <1>0, <2>2, <2>4, <2>5
<1>2. CASE WriteDirections
  <2>1. /\ script # "none" /\ script \in Scripts /\ script' = script /\ line' = line + 1
        /\ line \in 1 .. Len(Steps(script)) /\ Steps(script)[line].op = "directions"
        /\ Reachable(script, line) /\ line \in Nat \ {0}
    BY <1>0, <1>2, StepTypes DEF WriteDirections, At, Go, Step, IInv, ReachInv, TypeOK
  <2>2. \A d \in Channels : d \in Commanded
    BY <2>1, DirectionsCommanded, SentIs
  <2>3. Sent' = Sent
    BY <2>1, SentIs, NextCommands
  <2>4. Commanded' = Commanded
    BY <2>1, <2>3, SentIs
  <2>5. QED
    BY <2>1, <2>2, <2>4
<1>3. CASE (ScriptStep \/ Operator) /\ ~WriteDirections
  <2>0. directions' = directions
    BY <1>3, DirectionsKept
  <2>1. CASE Stop
    <3>1. Commanded = {} \/ Closed
      BY <1>3, <2>0, <2>1, EndsDark DEF Stop
    <3>2. Dark(c)
      BY <1>0, <2>0, <3>1, ClosedLeavesDark
    <3>3. UNCHANGED linkVars
      BY <2>1 DEF Stop
    <3>4. QED
      BY <1>0, <3>2, <3>3, DarkStays
  <2>2. CASE Advance \/ GetData \/ BeginPause \/ Trigger
    <3>1. /\ script # "none" /\ script' = script /\ UNCHANGED linkVars
          /\ line' = line \/ (line' = line + 1 /\ Steps(script)[line].op # "command")
      <4>1. CASE Advance
        BY <4>1 DEF Advance, Step
      <4>2. CASE GetData
        BY <1>0, <4>2 DEF GetData, Go, WaitInv
      <4>3. CASE BeginPause \/ Trigger
        BY <4>3 DEF BeginPause, Trigger, At, Go, Step
      <4>4. QED
        BY <2>2, <4>1, <4>2, <4>3
    <3>2. Sent' = Sent
      BY <1>0, <3>1, SentIs, NextCommands
    <3>3. Commanded' = Commanded
      BY <3>1, <3>2, SentIs
    <3>4. Dark(c) => Dark(c)'
      BY <1>0, <3>1, DarkStays
    <3>5. QED
      BY <1>0, <2>0, <3>1, <3>3, <3>4
  <2>3. CASE SendCommand
    <3>1. /\ script # "none" /\ script \in Scripts /\ script' = script /\ line' = line + 1
          /\ Steps(script)[line].op = "command" /\ Send(Steps(script)[line].byte)
          /\ line \in Nat \ {0}
      BY <1>0, <2>3 DEF SendCommand, At, Go, Step
    <3>2. Sent' = Sent \cup {line}
      BY <3>1, SentIs, NextCommands
    <3>3. Commanded' = Commanded \cup {Channel(Steps(script)[line].byte)}
      BY <3>1, <3>2, SentIs
    <3>4. Channel(Steps(script)[line].byte) # c /\ Dark(c) => Dark(c)'
      BY <3>1 DEF Send, Dark, OnTheWay
    <3>5. QED
      BY <1>0, <2>0, <3>1, <3>3, <3>4
  <2>4. CASE \E s \in Scripts : Start(s)
    <3>1. script = "none" /\ UNCHANGED linkVars
      BY <2>4 DEF Start
    <3>2. QED
      BY <1>0, <2>0, <3>1, DarkStays
  <2>5. ~GuiOpen /\ ~\E b \in GuiBytes : GuiPress(b)
    BY DEF Undisturbed, GuiOpen
  <2>6. QED
    BY <1>0, <1>3, <2>1, <2>2, <2>3, <2>4, <2>5, StepKinds
<1>4. QED
  BY <1>1, <1>2, <1>3 DEF Next, ScriptStep

\* What demoStaticScan has asked for when it triggers the camera for the k-th time:
\* light k, constantly lit, and nothing else.
LEMMA StaticAsked ==
    ASSUME IInv, script = "demoStaticScan", NEW k \in Numbers, line = StaticShots[k]
    PROVE  /\ k \in Commanded
           /\ \A c \in Commanded : asked[c] = IF c = k THEN Constant ELSE Off
<1>0. /\ \A i \in Sent : LastOnChannel(script, line, i) =>
              asked[Channel(Steps(script)[i].byte)] = Code(Steps(script)[i].byte)
      /\ \A i \in {10, 16, 18} : Channel(Steps(script)[i].byte) = 1
      /\ \A i \in {8, 12, 20, 24} : Channel(Steps(script)[i].byte) = 2
      /\ Channel(Steps(script)[26].byte) = 3
      /\ \A i \in {10, 20, 26} : Code(Steps(script)[i].byte) = Constant
      /\ \A i \in {12, 18, 24} : Code(Steps(script)[i].byte) = Off
  BY DemoStaticScanCommands DEF IInv, AskedInv
<1>1. CASE k = 1
  <2>1. Sent = {8, 10, 12} /\ line = 14
    BY <1>1, SentIs, DemoStaticScanSent DEF StaticShots
  <2>2. LastOnChannel(script, line, 10) /\ LastOnChannel(script, line, 12)
    BY <1>0, <2>1, SentIs DEF LastOnChannel
  <2>3. asked[1] = Constant /\ asked[2] = Off
    BY <1>0, <2>1, <2>2
  <2>4. Commanded = {1, 2}
    BY <1>0, <2>1, SentIs
  <2>5. QED
    BY <1>1, <2>3, <2>4
<1>2. CASE k = 2
  <2>1. Sent = {8, 10, 12, 16, 18, 20} /\ line = 22
    BY <1>2, SentIs, DemoStaticScanSent DEF StaticShots
  <2>2. LastOnChannel(script, line, 18) /\ LastOnChannel(script, line, 20)
    BY <1>0, <2>1, SentIs DEF LastOnChannel
  <2>3. asked[1] = Off /\ asked[2] = Constant
    BY <1>0, <2>1, <2>2
  <2>4. Commanded = {1, 2}
    BY <1>0, <2>1, SentIs
  <2>5. QED
    BY <1>2, <2>3, <2>4
<1>3. CASE k = 3
  <2>1. Sent = {8, 10, 12, 16, 18, 20, 24, 26} /\ line = 28
    BY <1>3, SentIs, DemoStaticScanSent DEF StaticShots
  <2>2. /\ LastOnChannel(script, line, 18) /\ LastOnChannel(script, line, 24)
        /\ LastOnChannel(script, line, 26)
    BY <1>0, <2>1, SentIs DEF LastOnChannel
  <2>3. asked[1] = Off /\ asked[2] = Off /\ asked[3] = Constant
    BY <1>0, <2>1, <2>2
  <2>4. Commanded = {1, 2, 3}
    BY <1>0, <2>1, SentIs
  <2>5. QED
    BY <1>3, <2>3, <2>4
<1>4. QED
  BY <1>1, <1>2, <1>3 DEF Numbers

\* And the camera sees light k alone: the lights the script has not commanded yet
\* are off since the run before.
LEMMA StaticSees ==
    ASSUME IInv, script = "demoStaticScan", shooting, Undisturbed, directions # Missing,
           NEW k \in Numbers, line = StaticShots[k]
    PROVE  OnlyLit(k, seen)
<1>1. seen = {Shown(bus)} /\ Settled /\ script # "none" /\ TypeOK
  BY DEF IInv, ShotInv
<1>2. \A c \in Commanded : Code(bus[c]) = asked[c]
  BY <1>1, SettledIsAsked DEF IInv, TypeOK
<1>3. \A c \in Channels : c \in Commanded \/ Code(bus[c]) = Off
  BY DEF IInv, CleanInv, Dark
<1>4. \A c \in Channels : Code(bus[c]) = IF c = k THEN Constant ELSE Off
  BY <1>2, <1>3, StaticAsked DEF Numbers, Channels
<1>5. k \in Channels /\ Constant # Off
  BY DEF Numbers, Channels, Constant, Off
<1>6. {c \in Channels : Shown(bus)[c] # Off} = {k}
  BY <1>4, <1>5 DEF Shown
<1>7. QED
  BY <1>1, <1>6 DEF OnlyLit

\* Every action keeps the movies and the pictures of demoStaticScan in order.
LEMMA StaticKeeps ==
    ASSUME IInv, [Next]_vars
    PROVE  StaticInv'
<1> SUFFICES ASSUME script' = "demoStaticScan"
             PROVE  /\ \A n \in 1 .. 4 : line' > StaticShots[n] <=> Len(movies') >= n
                    /\ Undisturbed /\ directions' # Missing =>
                          /\ \A k \in Numbers :
                                line' > StaticShots[k] => OnlyLit(k, movies'[k])
                          /\ \A i \in 1 .. (line' - 1) :
                                Steps(script')[i].op = "average" => pictures' = OneEach
  BY DEF StaticInv, Undisturbed, OnlyLit
<1> DEFINE Static ==
             /\ \A n \in 1 .. 4 : line > StaticShots[n] <=> Len(movies) >= n
             /\ Undisturbed /\ directions # Missing =>
                   /\ \A k \in Numbers : line > StaticShots[k] => OnlyLit(k, movies[k])
                   /\ \A i \in 1 .. (line - 1) :
                         Steps(script)[i].op = "average" => pictures = OneEach
<1>0. /\ StaticShots[1] = 14 /\ StaticShots[2] = 22
      /\ StaticShots[3] = 28 /\ StaticShots[4] = 33
      /\ \A n \in 1 .. 4 : StaticShots[n] \in {14, 22, 28, 33}
      /\ Len(Steps("demoStaticScan")) = 46
  BY ScriptLengths DEF StaticShots
<1>1. script = "demoStaticScan" => Static
  BY DEF IInv, StaticInv
<1>2. script = "demoStaticScan" =>
        /\ script \in Scripts /\ line \in 1 .. 47
        /\ \A i \in 1 .. ((line + 1) - 1) : i \in 1 .. (line - 1) \/ i = line
        /\ movies \in Seq(SUBSET [Channels -> Codes])
  <2> SUFFICES ASSUME script = "demoStaticScan"
               PROVE  /\ script \in Scripts /\ line \in 1 .. 47
                      /\ \A i \in 1 .. ((line + 1) - 1) : i \in 1 .. (line - 1) \/ i = line
                      /\ movies \in Seq(SUBSET [Channels -> Codes])
    OBVIOUS
  <2>1. /\ script \in Scripts /\ line \in 1 .. Len(Steps(script)) + 1
        /\ movies \in Seq(SUBSET [Channels -> Codes])
    BY DEF IInv, TypeOK
  <2>2. line \in 1 .. 47
    <3>1. Len(Steps(script)) = 46
      BY <1>0
    <3>2. line \in 1 .. (46 + 1)
      BY <2>1, <3>1, Zenon
    <3>3. QED
      BY <3>2
  <2>3. QED
    BY <2>1, <2>2
<1>3. CASE UNCHANGED <<script, line, movies, results>>
  BY <1>1, <1>3 DEF results
<1>4. CASE /\ script # "none" /\ script' = script /\ line' = line + 1
           /\ line \in 1 .. Len(Steps(script)) /\ Step.op \notin {"shoot", "separate", "average"}
           /\ UNCHANGED <<movies, results>>
  <2>0. script = "demoStaticScan" /\ line \in 1 .. 46
    BY <1>0, <1>4
  <2>1. line \notin {14, 22, 28, 33}
    BY <1>4, <2>0, DemoStaticScanSteps DEF Step
  <2>2. \A n \in 1 .. 4 : line' > StaticShots[n] <=> line > StaticShots[n]
    BY <1>0, <1>4, <2>0, <2>1
  <2>3. /\ UNCHANGED <<movies, pictures, directions>> /\ Static /\ Numbers \subseteq 1 .. 4
        /\ Steps(script)[line].op # "average"
    BY <1>1, <1>4, <2>0 DEF results, Numbers, Step
  <2>4. QED
    BY <1>2, <1>4, <2>0, <2>2, <2>3
<1>5. CASE GetData
  <2>1. /\ script = "demoStaticScan" /\ Steps(script)[line].op = "shoot" /\ shooting
        /\ script' = script /\ line' = line + 1 /\ movies' = Append(movies, seen)
        /\ UNCHANGED results
    BY <1>5 DEF GetData, Go, IInv, WaitInv
  <2>2. line \in 1 .. 46
    <3>1. line \in 1 .. 47 /\ line <= Len(Steps(script))
      BY <1>2, <2>1 DEF IInv, WaitInv
    <3>2. QED
      <4>1. Len(Steps(script)) = 46
        BY <1>0, <2>1
      <4>2. QED
        BY <3>1, <4>1
  <2>3. line \in {14, 22, 28, 33}
    BY <2>1, <2>2, DemoStaticScanSteps
  <2>4. PICK m \in 1 .. 4 : line = StaticShots[m]
    BY <1>0, <2>3
  <2>5. /\ \A n \in 1 .. 4 : line > StaticShots[n] <=> n < m
        /\ \A n \in 1 .. 4 : line' > StaticShots[n] <=> n < m + 1
    BY <1>0, <2>1, <2>3, <2>4, SMTT(60)
  <2>6. Len(movies) = m - 1
    <3>1. Len(movies) \in Nat /\ \A n \in 1 .. 4 : n < m <=> Len(movies) >= n
      BY <1>1, <1>2, <2>1, <2>5
    <3>2. QED
      BY <2>4, <3>1
  <2>7. /\ Len(movies') = m /\ movies'[m] = seen
        /\ \A n \in 1 .. (m - 1) : movies'[n] = movies[n]
    BY <1>2, <2>1, <2>4, <2>6
  <2>8. ASSUME Undisturbed, directions # Missing, NEW k \in Numbers, line' > StaticShots[k]
        PROVE  OnlyLit(k, movies'[k])
    <3>1. k \in 1 .. 4 /\ k < m + 1
      BY <2>5, <2>8 DEF Numbers
    <3>2. CASE k = m
      BY <2>1, <2>4, <2>7, <2>8, <3>2, StaticSees
    <3>3. CASE k < m
      <4>1. line > StaticShots[k] /\ k \in 1 .. (m - 1)
        BY <2>4, <2>5, <3>1, <3>3
      <4>2. QED
        BY <1>1, <2>1, <2>7, <2>8, <4>1
    <3>4. QED
      BY <2>4, <3>1, <3>2, <3>3
  <2>9. \A n \in 1 .. 4 : line' > StaticShots[n] <=> Len(movies') >= n
    BY <2>4, <2>5, <2>7
  <2>10. Undisturbed /\ directions # Missing =>
            \A i \in 1 .. (line' - 1) :
               Steps(script')[i].op = "average" => pictures' = OneEach
    BY <1>1, <1>2, <2>1 DEF results
  <2>11. directions' = directions
    BY <2>1 DEF results
  <2>12. QED
    BY <2>8, <2>9, <2>10, <2>11
<1>6. CASE SeparateMovie \/ WriteDirections \/ AverageMovies
  <2>0. /\ script = "demoStaticScan" /\ line <= Len(Steps(script))
        /\ script' = script /\ line' = line + 1 /\ movies' = movies
        /\ SeparateMovie => Steps(script)[line].op = "separate"
        /\ AverageMovies => Steps(script)[line].op = "average"
        /\ WriteDirections => Steps(script)[line].op = "directions"
    BY <1>6 DEF SeparateMovie, AverageMovies, WriteDirections, At, Go, Step, capture
  <2>1. line \in 1 .. 46
    <3>1. Len(Steps(script)) = 46
      BY <1>0, <2>0
    <3>2. line <= 46 /\ line \in 1 .. 47
      BY <1>2, <2>0, <3>1, Zenon
    <3>3. QED
      BY <3>2
  <2>2. AverageMovies /\ line = 45
    BY <1>6, <2>0, <2>1, DemoStaticScanSteps
  <2>3. /\ \A n \in 1 .. 4 : line' > StaticShots[n] /\ line > StaticShots[n]
        /\ directions' = directions
    BY <1>0, <2>0, <2>2 DEF AverageMovies
  <2>4. ASSUME Undisturbed, directions # Missing
        PROVE  pictures' = OneEach
    <3>1. ASSUME NEW k \in Numbers
          PROVE  {c \in Channels : \E shown \in movies[k] : shown[c] # Off} = {k}
      <4>1. OnlyLit(k, movies[k])
        BY <1>1, <2>0, <2>3, <2>4 DEF Numbers
      <4>2. QED
        BY <4>1 DEF OnlyLit
    <3>2. QED
      BY <2>2, <3>1 DEF AverageMovies, OneEach
  <2>5. QED
    BY <1>1, <2>0, <2>3, <2>4 DEF Numbers
<1>7. CASE \E s \in Scripts : Start(s)
  BY <1>0, <1>7 DEF Start, Numbers
<1>8. QED
  BY <1>3, <1>4, <1>5, <1>6, <1>7, PictureKinds DEF IInv

-----------------------------------------------------------------------------
\* The bench starts with nothing sent and nothing shown.
LEMMA IInvInit == Init => IInv
<1> SUFFICES ASSUME Init PROVE IInv
  OBVIOUS
<1>1. TypeOK
  BY TypeInit
<1>2. /\ WaitInv /\ QuietInv /\ AskedInv /\ CarriedInv /\ ShotInv /\ PortInv /\ ReachInv
      /\ PairedInv /\ CleanInv /\ StaticInv
  BY DEF Init, WaitInv, QuietInv, AskedInv, CarriedInv, ShotInv, PortInv, ReachInv,
     PairedInv, CleanInv, StaticInv
<1>3. QED
  BY <1>1, <1>2 DEF IInv

\* Every action keeps the inductive invariant.
LEMMA IInvStep == FastLoop /\ IInv /\ [Next]_vars => IInv'
<1> SUFFICES ASSUME FastLoop, IInv, [Next]_vars PROVE IInv'
  OBVIOUS
<1>1. TypeOK' /\ PairedInv' /\ CleanInv' /\ StaticInv'
  BY TypeStep, PairedKeeps, CleanKeeps, StaticKeeps DEF IInv
<1>2. TypeOK /\ WaitInv
  BY DEF IInv
<1>3. script = "none" => ~shooting /\ wait = 0
  BY DEF IInv, WaitInv, TypeOK
<1>4. CASE Arrival \/ Firmware \/ UNCHANGED vars
  <2>1. LinkStep \/ UNCHANGED linkVars
    BY <1>4 DEF Arrival, Firmware, LinkStep, vars
  <2>2. UNCHANGED <<script, line, wait, shooting, open, asked>>
    BY <1>4 DEF Arrival, Firmware, vars, ports, capture
  <2>3. seen' = IF shooting THEN seen \cup {Shown(bus')} ELSE seen
    <3>1. CASE Firmware
      BY <3>1 DEF Firmware
    <3>2. CASE Arrival \/ UNCHANGED vars
      <4>1. seen' = seen /\ bus' = bus
        BY <3>2 DEF Arrival, Receive, vars, linkVars, capture
      <4>2. shooting => seen = {Shown(bus)}
        BY DEF IInv, ShotInv
      <4>3. QED
        BY <4>1, <4>2 DEF Shown
    <3>3. QED
      BY <1>4, <3>1, <3>2
  <2>4. Kept'
    BY <2>1, <2>2, <2>3, LinkKeeps
  <2>5. QED
    BY <1>1, <2>4 DEF Kept, IInv
<1>5. CASE Clock
  BY <1>1, <1>5, ClockKeeps DEF Kept, IInv
<1>6. CASE ScriptStep \/ Operator
  <2>1. CASE Stop \/ GuiOpen \/ \E b \in GuiBytes : GuiPress(b)
    <3>1. script' = "none" /\ wait' = 0 /\ ~shooting'
      BY <1>3, <2>1 DEF Stop, GuiOpen, GuiPress, capture
    <3>2. QED
      BY <1>1, <3>1, IdleKeeps DEF Kept, IInv
  <2>2. CASE Advance \/ GetData \/ BeginPause
    BY <1>1, <2>2, AdvanceKeeps, GetDataKeeps, BeginPauseKeeps DEF Kept, IInv
  <2>3. CASE SendCommand \/ Trigger
    BY <1>1, <2>3, SendCommandKeeps, TriggerKeeps DEF Kept, IInv
  <2>4. CASE \E s \in Scripts : Start(s)
    BY <1>1, <2>4, StartKeeps DEF Kept, IInv
  <2>5. QED
    BY <1>2, <1>6, <2>1, <2>2, <2>3, <2>4, StepKinds
<1>7. QED
  BY <1>4, <1>5, <1>6 DEF Next

\* Whatever the operator runs, in which order, however the runs end and whatever
\* the control window sent before: the state of the link and what the running
\* script has asked for are as its steps so far say.
THEOREM Invariance == FastLoop => (Spec => []IInv)
<1> SUFFICES ASSUME FastLoop PROVE Spec => []IInv
  OBVIOUS
<1>1. IInv /\ [Next]_vars => IInv'
  BY IInvStep
<1>2. Init => IInv
  BY IInvInit
<1>3. QED
  BY <1>1, <1>2, PTL DEF Spec

-----------------------------------------------------------------------------
(* The properties.                                                         *)

\* Where a script waits is kept by the types alone.
LEMMA WaitStep == TypeOK /\ WaitInv /\ [Next]_vars => WaitInv'
<1> SUFFICES ASSUME TypeOK, WaitInv, [Next]_vars PROVE WaitInv'
  OBVIOUS
<1> USE DEF WaitInv
<1>1. script # "none" => /\ script \in Scripts /\ line \in 1 .. Len(Steps(script)) + 1
                         /\ Len(Steps(script)) \in Nat
  BY StepTypes DEF TypeOK
<1>2. CASE Arrival \/ Firmware \/ UNCHANGED vars
  BY <1>2 DEF Arrival, Firmware, vars, capture
<1>3. CASE Clock
  <2>1. wait \in Nat /\ wait' <= wait /\ wait' \in Nat /\ UNCHANGED <<script, line, shooting>>
    BY <1>3 DEF Clock, TypeOK, capture
  <2>2. script # "none" /\ line > 1 /\ Steps(script)[line - 1].op = "pause" =>
          Steps(script)[line - 1].ticks \in Nat
    BY <1>1, StepTypes
  <2>3. QED
    BY <2>1, <2>2
<1>4. CASE ScriptStep \/ Operator
  <2>1. CASE Advance
    BY <2>1 DEF Advance, capture
  <2>2. CASE Stop
    BY <2>2 DEF Stop
  <2>3. CASE SendCommand \/ GetData
    BY <2>3 DEF SendCommand, GetData, At, capture
  <2>4. CASE BeginPause
    <3>1. /\ script # "none" /\ line \in 1 .. Len(Steps(script)) /\ line' - 1 = line
          /\ line' > 1 /\ script' = script /\ ~shooting'
          /\ Steps(script)[line].op = "pause" /\ wait' = Steps(script)[line].ticks
      BY <1>1, <2>4 DEF BeginPause, At, Go, Step, capture
    <3>2. wait' \in Nat
      BY <1>1, <3>1, StepTypes
    <3>3. QED
      BY <3>1, <3>2
  <2>5. CASE Trigger
    BY <2>5 DEF Trigger, At, Step
  <2>6. CASE (\E s \in Scripts : Start(s)) \/ GuiOpen \/ \E b \in GuiBytes : GuiPress(b)
    BY <2>6 DEF Start, GuiOpen, GuiPress, capture
  <2>7. QED
    BY <1>4, <2>1, <2>2, <2>3, <2>4, <2>5, <2>6, StepKinds
<1>5. QED
  BY <1>2, <1>3, <1>4 DEF Next

\* The variables keep their types, however slow the delay loop is.
THEOREM TypeCorrect == Spec => []TypeOK
<1>1. Init => TypeOK /\ WaitInv
  BY TypeInit
<1>2. TypeOK /\ WaitInv /\ [Next]_vars => (TypeOK /\ WaitInv)'
  BY TypeStep, WaitStep
<1>3. QED
  BY <1>1, <1>2, PTL DEF Spec

\* So is that nobody has the port between a release and an open.
LEMMA PortStep == TypeOK /\ WaitInv /\ PortInv /\ [Next]_vars => PortInv'
<1> SUFFICES ASSUME TypeOK, WaitInv, PortInv, [Next]_vars PROVE PortInv'
  OBVIOUS
<1> USE DEF PortInv
<1>1. script # "none" => line \in Nat \ {0}
  BY StepTypes DEF TypeOK
<1>2. CASE Arrival \/ Firmware \/ Clock \/ UNCHANGED vars
  BY <1>2 DEF Arrival, Firmware, Clock, vars, ports
<1>3. CASE ScriptStep \/ Operator
  <2>1. CASE Advance
    BY <1>1, <2>1, NextReleased DEF Advance, Step
  <2>2. CASE Stop
    BY <2>2 DEF Stop
  <2>3. CASE SendCommand \/ BeginPause
    BY <1>1, <2>3, NextReleased DEF SendCommand, BeginPause, At, Go, Step, ports
  <2>4. CASE GetData
    BY <1>1, <2>4, NextReleased DEF GetData, Go, ports, WaitInv
  <2>5. CASE Trigger
    BY <2>5 DEF Trigger, ports
  <2>6. CASE \E s \in Scripts : Start(s)
    BY <2>6, FirstPosition DEF Start
  <2>7. CASE GuiOpen \/ \E b \in GuiBytes : GuiPress(b)
    BY <2>7 DEF GuiOpen, GuiPress
  <2>8. QED
    BY <1>3, <2>1, <2>2, <2>3, <2>4, <2>5, <2>6, <2>7, StepKinds
<1>4. QED
  BY <1>2, <1>3 DEF Next

(***************************************************************************)
(* Whatever ran before and however it ended, the port is not held by an    *)
(* object of this session when a script opens it: every script releases    *)
(* all of them first.                                                      *)
(***************************************************************************)
THEOREM PortIsGranted == Spec => []PortGranted
<1>1. Init => TypeOK /\ WaitInv /\ PortInv
  BY TypeInit, IInvInit DEF IInv
<1>2. TypeOK /\ WaitInv /\ PortInv /\ [Next]_vars => (TypeOK /\ WaitInv /\ PortInv)'
  BY TypeStep, WaitStep, PortStep
<1>3. TypeOK /\ WaitInv /\ PortInv => PortGranted
  BY ReleasedAtOpen, StepTypes DEF TypeOK, PortInv, PortGranted, At, Step
<1>4. QED
  BY <1>1, <1>2, <1>3, PTL DEF Spec

(***************************************************************************)
(* When a script sends a command or triggers the camera, the firmware has  *)
(* carried out all earlier commands of the run, or it is a command, and    *)
(* the last one again.                                                     *)
(***************************************************************************)
THEOREM CommandsCarriedOut == FastLoop => (Spec => []CarriedOutBeforeNext)
<1> SUFFICES ASSUME FastLoop PROVE Spec => []CarriedOutBeforeNext
  OBVIOUS
<1>1. IInv => CarriedOutBeforeNext
  <2> SUFFICES ASSUME IInv, At("command") \/ At("shoot") PROVE CarriedOutBeforeNext
    BY DEF CarriedOutBeforeNext
  <2>1. /\ script # "none" /\ script \in Scripts /\ line \in 1 .. Len(Steps(script))
        /\ Steps(script)[line].op \in {"command", "shoot"} /\ Past = line
    BY PastIs, StepTypes DEF IInv, TypeOK, At, Step
  <2>2. CASE Quiet(script, line)
    <3>1. \A c \in Commanded : Code(bus[c]) = asked[c]
      BY <2>1, <2>2 DEF IInv, CarriedInv, Carried
    <3>2. QED
      BY <3>1 DEF CarriedOutBeforeNext
  <2>3. CASE Repeats(script, line)
    BY <2>1, <2>3 DEF CarriedOutBeforeNext, Repeats, LastCommand, Sent, Step
  <2>4. QED
    BY <2>1, <2>2, <2>3, QuietSteps
<1>2. QED
  BY <1>1, Invariance, PTL

(***************************************************************************)
(* When a script has closed the port, the LEDs are off: the commands that  *)
(* turn them off are the last on their channels, and were carried out.     *)
(***************************************************************************)
THEOREM DarkAfterClose == FastLoop => (Spec => []DarkWhenClosed)
<1> SUFFICES ASSUME FastLoop PROVE Spec => []DarkWhenClosed
  OBVIOUS
<1>1. IInv => DarkWhenClosed
  <2> SUFFICES ASSUME IInv, Closed PROVE Lit(bus) = {}
    BY DEF DarkWhenClosed
  <2>1. script # "none" /\ script \in Scripts /\ line \in 1 .. Len(Steps(script)) + 1
    BY DEF IInv, TypeOK, Closed
  <2>2. Darkened(script, line)
    BY <2>1, ClosedDark DEF IInv, ReachInv, Closed
  <2>3. Past = line
    BY <2>1, <2>2 DEF Past, Darkened, IInv, WaitInv
  <2>4. \A c \in Commanded : Code(bus[c]) = asked[c]
    BY <2>1, <2>2, <2>3 DEF Darkened, IInv, CarriedInv
  <2>5. ASSUME NEW c \in Channels PROVE Code(bus[c]) = 0
    <3>1. PICK k \in Sent : /\ LastOnChannel(script, line, k)
                            /\ Channel(Steps(script)[k].byte) = c
                            /\ Code(Steps(script)[k].byte) = Off
      BY <2>2, SentIs DEF Darkened, TurnsOff, LastOnChannel
    <3>2. asked[c] = Off
      BY <2>1, <3>1 DEF IInv, AskedInv
    <3>3. c \in Commanded
      BY <3>1, SentIs
    <3>4. QED
      BY <2>4, <3>2, <3>3 DEF Off
  <2>6. QED
    BY <2>5 DEF Lit
<1>2. QED
  BY <1>1, Invariance, PTL

(***************************************************************************)
(* While the camera records, the LEDs show what the run asked for on all   *)
(* three channels, whatever an earlier run or the control window left lit: *)
(* if the operator does not use demoStaticScan, which leaves channels as   *)
(* they are.                                                               *)
(***************************************************************************)
THEOREM ShotsShowCommands ==
    FastLoop /\ Modulated => (Spec => []ShotShowsCommands)
<1> SUFFICES ASSUME FastLoop, Modulated PROVE Spec => []ShotShowsCommands
  OBVIOUS
<1>1. IInv => ShotShowsCommands
  BY ShotSees DEF ShotShowsCommands, Modulated, IInv, TypeOK, WaitInv
<1>2. QED
  BY <1>1, Invariance, PTL

(***************************************************************************)
(* Picture k and light direction k belong to light k, whichever            *)
(* calibration wrote the directions and whatever was stopped or failed     *)
(* between it and the scan, if the operator uses the scripts that modulate *)
(* the lights; and with demoStaticScan too, if nothing is stopped or fails *)
(* and the control window is not used, for that script records channels it *)
(* has not commanded.                                                      *)
(***************************************************************************)
THEOREM PicturesPaired ==
    FastLoop /\ (Modulated \/ Undisturbed) => (Spec => []PairedWithLight)
<1> SUFFICES ASSUME FastLoop, Modulated \/ Undisturbed PROVE Spec => []PairedWithLight
  OBVIOUS
<1>1. IInv => PairedWithLight
  <2> SUFFICES ASSUME IInv, At("reconstruct"), directions # Missing,
                      NEW k \in Numbers
               PROVE  \E c \in Channels : pictures[k] = {c} /\ directions[k] = {c}
    BY DEF PairedWithLight
  <2>1. /\ script # "none" /\ script \in Scripts /\ line \in 1 .. Len(Steps(script))
        /\ Steps(script)[line].op = "reconstruct" /\ Reachable(script, line)
    BY StepTypes DEF IInv, TypeOK, ReachInv, At, Step
  <2>2. CASE script # "demoStaticScan"
    <3>1. pictures = OneEach /\ directions = OneEach
      BY <2>1, <2>2, PictureSteps DEF IInv, PairedInv
    <3>2. QED
      BY <3>1 DEF OneEach, Numbers, Channels
  <2>3. CASE script = "demoStaticScan"
    <3>1. Undisturbed
      BY <2>1, <2>3 DEF Modulated
    <3>2. line \in 1 .. 46
      <4>1. Len(Steps(script)) = 46
        BY <2>3, ScriptLengths
      <4>2. QED
        BY <2>1, <4>1, Zenon
    <3>3. line = 46 /\ Steps(script)[45].op = "average"
      <4>1. Steps(script)[line].op = "reconstruct"
        BY <2>1
      <4>2. line = 46
        BY <2>3, <3>2, <4>1, DemoStaticScanSteps
      <4>3. Steps(script)[45].op = "average"
        BY <2>3, DemoStaticScanSteps
      <4>4. QED
        BY <4>2, <4>3
    <3>4. 45 \in 1 .. (line - 1)
      BY <3>3
    <3>5. pictures = OneEach
      BY <2>3, <3>1, <3>3, <3>4 DEF IInv, StaticInv
    <3>6. directions = OneEach
      BY DEF IInv, PairedInv
    <3>7. QED
      BY <3>5, <3>6 DEF OneEach, Numbers, Channels
  <2>4. QED
    BY <2>2, <2>3
<1>2. QED
  BY <1>1, Invariance, PTL
=============================================================================
