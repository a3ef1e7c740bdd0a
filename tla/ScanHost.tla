------------------------------ MODULE ScanHost ------------------------------
(***************************************************************************)
(* The bench: one MATLAB session that runs the scan and calibration        *)
(* scripts of ScanScripts over the command link of LedLink, and the LED    *)
(* control window (ledcontroll.m) in the same session.                     *)
(*                                                                         *)
(* A script is a sequence of steps; an error in a step ends the script     *)
(* where it is, and leaves the instrument objects, the port and the LEDs   *)
(* as they are.  pause(t) waits at least t, and every other step takes any *)
(* time.  Instrument objects belong to the session, not to the workspace:  *)
(* clear forgets the variable and leaves the object, fclose closes it and  *)
(* only delete (or instrreset) removes it.                                 *)
(***************************************************************************)
EXTENDS LedLink, ScanScripts, FiniteSets

CONSTANTS
    Scripts,    \* the scripts the operator runs
    MaxRuns,    \* bound: how many runs are started
    GuiBytes,   \* the characters the LED control window sends; {}: not used
    Faults      \* what may go wrong, a subset of AllFaults

(***************************************************************************)
(* busy: another process has the serial port.  timeout: the camera does    *)
(* not deliver its frames in 50 s.  interrupt: the operator stops the      *)
(* script.  processing: a computation of the script fails, for instance    *)
(* because the spectrum has fewer than three peaks.                        *)
(***************************************************************************)
AllFaults == {"busy", "timeout", "interrupt", "processing"}

ASSUME HostAssumption ==
    /\ Scripts # {} /\ Scripts \subseteq ScriptNames
    /\ (UNION {BytesOf(s) : s \in Scripts}) \cup GuiBytes \subseteq Bytes
    /\ MaxRuns \in Nat
    /\ Faults \subseteq AllFaults

VARIABLES
    script,     \* the script that runs, or "none"
    line,       \* its next step
    wait,       \* ticks it still waits before that step
    ended,      \* how the last run ended
    runs,       \* runs started
    workspace,  \* the variables the scripts test or use by accident
    listed,     \* info.AvailableSerialPorts is not empty
    objects,    \* owners of the instrument objects of the session
    open,       \* owner of the object that has the port open, or "none"
    shooting,   \* the camera is triggered and getdata waits
    seen,       \* the codes the LEDs showed during the capture
    movies,     \* seen, of the captures of this run
    pictures,   \* per picture computed, the lights that show in it
    directions, \* the same for the columns of light_directions.txt
    asked       \* history: the code this run last asked of each channel

ports == <<listed, objects, open>>
capture == <<shooting, seen, movies>>
results == <<pictures, directions>>

vars == <<linkVars, script, line, wait, ended, runs, workspace, ports, capture,
          results, asked>>

Numbers == 1 .. 3           \* of pictures and of columns
Missing == <<>>             \* light_directions.txt is not in the repository
Codes == 0 .. 63
Outcomes == {"none", "done", "undefined", "no port", "timeout", "processing",
             "no directions", "interrupt"}

TypeOK ==
    /\ LinkTypeOK
    /\ script \in Scripts \cup {"none"}
    /\ script # "none" => line \in 1 .. Len(Steps(script)) + 1
    /\ wait \in Nat
    /\ ended \in Outcomes
    /\ runs \in 0 .. MaxRuns
    /\ workspace \subseteq {"info", "s", "vid"}
    /\ listed \in BOOLEAN
    /\ objects \subseteq {"script", "gui"}
    /\ open \in objects \cup {"none"}
    /\ shooting \in BOOLEAN
    /\ seen \subseteq [Channels -> Codes]
    /\ movies \in Seq(SUBSET [Channels -> Codes])
    /\ pictures \in [Numbers -> SUBSET Channels]
    /\ directions \in {Missing} \cup [Numbers -> SUBSET Channels]
    /\ asked \in [Channels -> Codes]

AllOff == [c \in Channels |-> Off]
NoPictures == [k \in Numbers |-> {}]

Init ==
    /\ LinkInit
    /\ script = "none" /\ line = 1 /\ wait = 0
    /\ ended = "none" /\ runs = 0
    /\ workspace = {} /\ listed = FALSE
    /\ objects = {} /\ open = "none"
    /\ shooting = FALSE /\ seen = {} /\ movies = <<>>
    /\ pictures = NoPictures /\ directions = Missing
    /\ asked = AllOff

-----------------------------------------------------------------------------
(* Running a script.                                                       *)

\* The codes the LED units get.
Shown(buses) == [c \in Channels |-> Code(buses[c])]

Step == Steps(script)[line]

\* The script is about to do a step of this kind.
At(op) ==
    /\ script # "none" /\ ~shooting /\ wait = 0
    /\ line <= Len(Steps(script))
    /\ Step.op = op

\* It goes on to its next step.
Go == line' = line + 1 /\ UNCHANGED <<script, ended, runs>>

\* An error ends it; what it holds stays as it is.
Fail(outcome) ==
    /\ script' = "none" /\ line' = 1 /\ ended' = outcome
    /\ UNCHANGED runs

Start(s) ==
    /\ script = "none" /\ runs < MaxRuns
    /\ script' = s /\ line' = 1 /\ wait' = 0
    /\ ended' = "none" /\ runs' = runs + 1
    /\ seen' = {} /\ movies' = <<>> /\ pictures' = NoPictures /\ asked' = AllOff
    /\ UNCHANGED <<linkVars, workspace, ports, shooting, directions>>

Finish ==
    /\ script # "none" /\ wait = 0 /\ line > Len(Steps(script))
    /\ Fail("done")
    /\ UNCHANGED <<linkVars, wait, workspace, ports, capture, results, asked>>

Interrupt ==
    /\ "interrupt" \in Faults
    /\ script # "none"
    /\ Fail("interrupt")
    /\ wait' = 0 /\ shooting' = FALSE
    /\ UNCHANGED <<linkVars, workspace, ports, seen, movies, results, asked>>

-----------------------------------------------------------------------------
(* Workspace and instruments.                                              *)

Clear ==
    /\ At("clear")
    /\ workspace' = {}
    /\ Go
    /\ UNCHANGED <<linkVars, wait, ports, capture, results, asked>>

\* Mutant: the objects are deleted and the port stays open.
DeleteOnly ==
    /\ At("release")
    /\ objects' = {} /\ workspace' = {}
    /\ Go
    /\ UNCHANGED <<linkVars, wait, listed, open, capture, results, asked>>

\* if ~isempty(instrfindall): fclose, delete, and clear every variable.
ReleaseAll ==
    /\ At("release")
    /\ objects' = {} /\ open' = "none"
    /\ workspace' = IF objects = {} THEN workspace ELSE {}
    /\ Go
    /\ UNCHANGED <<linkVars, wait, listed, capture, results, asked>>

\* A port that is open, here or in another process, is not listed.
Query ==
    /\ At("query")
    /\ workspace' = workspace \cup {"info"}
    /\ \/ listed' = (open = "none")
       \/ "busy" \in Faults /\ listed' = FALSE
    /\ Go
    /\ UNCHANGED <<linkVars, wait, objects, open, capture, results, asked>>

Need ==
    /\ At("need")
    /\ \/ listed /\ Go
       \/ ~listed /\ Fail("no port")
    /\ UNCHANGED <<linkVars, wait, workspace, ports, capture, results, asked>>

\* InitCameraRaw_ reads ExposureSet; without it, it fails before it returns vid.
StartCamera ==
    /\ At("camera")
    /\ \/ Step.args = 2 /\ workspace' = workspace \cup {"vid"} /\ Go
       \/ Step.args = 1 /\ Fail("undefined") /\ UNCHANGED workspace
    /\ UNCHANGED <<linkVars, wait, ports, capture, results, asked>>

\* Mutant: without a port the script waits for one.
OpenOrWait ==
    /\ At("open")
    /\ "info" \in workspace /\ listed /\ open = "none"
    /\ workspace' = workspace \cup {"s"}
    /\ objects' = objects \cup {"script"} /\ open' = "script"
    /\ Go
    /\ UNCHANGED <<linkVars, wait, listed, capture, results, asked>>

\* s = serial(info.AvailableSerialPorts{1}, ...); fopen(s).
Open ==
    /\ At("open")
    /\ IF "info" \in workspace /\ listed
         THEN workspace' = workspace \cup {"s"} /\ objects' = objects \cup {"script"}
         ELSE UNCHANGED <<workspace, objects>>
    /\ \/ "info" \in workspace /\ listed /\ open = "none" /\ open' = "script" /\ Go
       \/ /\ ~("info" \in workspace /\ listed /\ open = "none")
          /\ open' = open
          /\ Fail(IF "info" \in workspace THEN "no port" ELSE "undefined")
    /\ UNCHANGED <<linkVars, wait, listed, capture, results, asked>>

Close ==
    /\ At("close")
    /\ open' = "none"
    /\ Go
    /\ UNCHANGED <<linkVars, wait, workspace, listed, objects, capture, results, asked>>

\* A line that needs a variable nothing defines.
MentionUndefined ==
    /\ At("mention")
    /\ Step.name \notin workspace
    /\ Fail("undefined")
    /\ UNCHANGED <<linkVars, wait, workspace, ports, capture, results, asked>>

-----------------------------------------------------------------------------
(* The line and the camera.                                                *)

\* fprintf(s, '%s', char(...)).
SendCommand ==
    /\ At("command")
    /\ Send(Step.byte)
    /\ asked' = [asked EXCEPT ![Channel(Step.byte)] = Code(Step.byte)]
    /\ Go
    /\ UNCHANGED <<wait, workspace, ports, capture, results>>

\* Mutant: half the time.
BeginShortPause ==
    /\ At("pause")
    /\ wait' = Step.ticks \div 2
    /\ Go
    /\ UNCHANGED <<linkVars, workspace, ports, capture, results, asked>>

BeginPause ==
    /\ At("pause")
    /\ wait' = Step.ticks
    /\ Go
    /\ UNCHANGED <<linkVars, workspace, ports, capture, results, asked>>

Trigger ==
    /\ At("shoot")
    /\ shooting' = TRUE
    /\ wait' = Step.ticks
    /\ seen' = {Shown(bus)}
    /\ UNCHANGED <<linkVars, script, line, ended, runs, workspace, ports, movies, results, asked>>

GetData ==
    /\ shooting /\ wait = 0
    /\ shooting' = FALSE
    /\ movies' = Append(movies, seen)
    /\ seen' = {}
    /\ Go
    /\ UNCHANGED <<linkVars, wait, workspace, ports, results, asked>>

GetDataTimeout ==
    /\ shooting /\ wait = 0
    /\ "timeout" \in Faults
    /\ shooting' = FALSE
    /\ Fail("timeout")
    /\ UNCHANGED <<linkVars, wait, workspace, ports, seen, movies, results, asked>>

-----------------------------------------------------------------------------
(* Pictures and light directions.                                          *)

\* Hz, rounded, of the codes the scripts modulate with.  A movie with another
\* code is not taken for separable, and its pictures may be any.
Frequency(k) ==
    CASE k = 20 -> 141 [] k = 50 -> 122 [] k = 36 -> 116 [] k = 43 -> 103
      [] k = 30 -> 91 [] k = 44 -> 82 [] OTHER -> 0

Blinking(shown) == {c \in Channels : Frequency(shown[c]) # 0}

\* Three lights, each with a frequency of its own, all through the movie.
Separable(movie) ==
    \E shown \in movie :
        /\ movie = {shown}
        /\ Blinking(shown) = Channels
        /\ \A c, d \in Channels : c # d => Frequency(shown[c]) # Frequency(shown[d])

\* Mutant: the frequencies in ascending order.
RankAscending(shown, c) ==
    Cardinality({d \in Channels : Frequency(shown[d]) <= Frequency(shown[c])})

\* FindFreqFromMovRaw returns the frequencies in descending order.
Rank(shown, c) ==
    Cardinality({d \in Channels : Frequency(shown[d]) >= Frequency(shown[c])})

\* Mutant: the peaks in the order they come.
SeparateUnsorted ==
    /\ At("separate")
    /\ pictures' \in {[k \in Numbers |-> {order[k]}] :
                        order \in Injection(Numbers, Channels)}
    /\ Go
    /\ UNCHANGED <<linkVars, wait, workspace, ports, capture, directions, asked>>

(***************************************************************************)
(* One picture per peak of the spectrum.  When the movie does not have     *)
(* three steady peaks, a picture may show any lights.                      *)
(***************************************************************************)
SeparateMovie ==
    /\ At("separate")
    /\ LET movie == movies[Len(movies)] IN
         pictures' \in
           IF Separable(movie)
             THEN {[k \in Numbers |-> {c \in Channels : \A shown \in movie : Rank(shown, c) = k}]}
             ELSE [Numbers -> SUBSET Channels]
    /\ Go
    /\ UNCHANGED <<linkVars, wait, workspace, ports, capture, directions, asked>>

\* Picture k is the mean of movie k: it shows what was lit at any time.
AverageMovies ==
    /\ At("average")
    /\ pictures' = [k \in Numbers |->
                      {c \in Channels : \E shown \in movies[k] : shown[c] # Off}]
    /\ Go
    /\ UNCHANGED <<linkVars, wait, workspace, ports, capture, directions, asked>>

\* Mutant: the last column is not written.
WriteTwoDirections ==
    /\ At("directions")
    /\ directions' = [k \in 1 .. 2 |-> pictures[k]]
    /\ Go
    /\ UNCHANGED <<linkVars, wait, workspace, ports, capture, pictures, asked>>

\* find3direction3: column k is the direction of the highlight in picture k.
WriteDirections ==
    /\ At("directions")
    /\ directions' = pictures
    /\ Go
    /\ UNCHANGED <<linkVars, wait, workspace, ports, capture, pictures, asked>>

\* demoPSBox reads light_directions.txt and the pictures the script has saved.
RunPSBox ==
    /\ At("reconstruct")
    /\ \/ directions # Missing /\ Go
       \/ directions = Missing /\ Fail("no directions")
    /\ UNCHANGED <<linkVars, wait, workspace, ports, capture, results, asked>>

ProcessingFails ==
    /\ "processing" \in Faults
    /\ At("separate") \/ At("reconstruct")
    /\ Fail("processing")
    /\ UNCHANGED <<linkVars, wait, workspace, ports, capture, results, asked>>

-----------------------------------------------------------------------------
(* The LED control window.                                                 *)

\* OpeningFcn: instrreset deletes every instrument object of the session, then
\* the window opens the port, or ends with 'No ports free!'.
GuiOpen ==
    /\ GuiBytes # {} /\ script = "none" /\ objects # {"gui"}
    /\ \/ objects' = {"gui"} /\ open' = "gui"
       \/ "busy" \in Faults /\ objects' = {} /\ open' = "none"
    /\ UNCHANGED <<linkVars, script, line, wait, ended, runs, workspace, listed, capture,
                   results, asked>>

\* pushbuttonN_Callback, while the session is idle.
GuiPress(b) ==
    /\ script = "none" /\ open = "gui"
    /\ Send(b)
    /\ UNCHANGED <<script, line, wait, ended, runs, workspace, ports, capture, results,
                   asked>>

-----------------------------------------------------------------------------
(* The link under the host.                                                *)

Arrival ==
    /\ Receive
    /\ UNCHANGED <<script, line, wait, ended, runs, workspace, ports, capture, results,
                   asked>>

Firmware ==
    /\ Sample \/ SampleColliding \/ Drive \/ Echo
    /\ seen' = IF shooting THEN seen \cup {Shown(bus')} ELSE seen
    /\ UNCHANGED <<script, line, wait, ended, runs, workspace, ports, shooting, movies,
                   results, asked>>

Clock ==
    /\ Tick
    /\ wait' = IF wait > 0 THEN wait - 1 ELSE 0
    /\ UNCHANGED <<script, line, ended, runs, workspace, ports, capture, results, asked>>

ScriptStep ==
    \/ Clear \/ ReleaseAll \/ Query \/ Need \/ StartCamera \/ Open \/ Close
    \/ MentionUndefined \/ SendCommand \/ BeginPause \/ Trigger \/ GetData
    \/ GetDataTimeout \/ SeparateMovie \/ AverageMovies \/ WriteDirections
    \/ RunPSBox \/ ProcessingFails \/ Finish

Operator ==
    \/ \E s \in Scripts : Start(s)
    \/ Interrupt
    \/ GuiOpen
    \/ \E b \in GuiBytes : GuiPress(b)

Next == Arrival \/ Firmware \/ Clock \/ ScriptStep \/ Operator

(***************************************************************************)
(* The firmware, the line and the clock go on; MATLAB runs the script it   *)
(* was given.  Nothing is assumed of the operator.                         *)
(***************************************************************************)
Spec ==
    /\ Init /\ [][Next]_vars
    /\ WF_vars(Arrival) /\ WF_vars(Firmware) /\ WF_vars(Clock) /\ WF_vars(ScriptStep)

-----------------------------------------------------------------------------
\* The commands of a script before its step l; those the running script has sent.
CommandsBefore(s, l) == {i \in 1 .. (l - 1) : Steps(s)[i].op = "command"}
Sent == CommandsBefore(script, line)
Commanded == {Channel(Steps(script)[i].byte) : i \in Sent}

Closed == script # "none" /\ \E i \in 1 .. (line - 1) : Steps(script)[i].op = "close"

(***************************************************************************)
(* While the camera records, the LEDs show what this run asked for on all  *)
(* three channels and nothing else: no light left on by an earlier run or  *)
(* by the control window, no command still on its way.                     *)
(***************************************************************************)
ShotShowsCommands == shooting => seen = {asked}

(***************************************************************************)
(* The pauses of the scripts are long enough: when a script sends its next *)
(* command or triggers the camera, the firmware has carried out all its    *)
(* earlier commands.  Only the last command itself may be sent again       *)
(* before, as demoStaticScan does after 0.11 s.                            *)
(***************************************************************************)
CarriedOutBeforeNext ==
    At("command") \/ At("shoot") =>
      \/ \A c \in Commanded : Code(bus[c]) = asked[c]
      \/ \E i \in Sent : /\ Steps(script)[i] = Step
                         /\ \A j \in Sent : j <= i

(***************************************************************************)
(* A picture and the light direction of the same number belong to the same *)
(* light, and to one only, although the calibration and the scan run at    *)
(* different times and use different frequencies.                          *)
(***************************************************************************)
PairedWithLight ==
    At("reconstruct") /\ directions # Missing =>
      \A k \in Numbers : \E c \in Channels : pictures[k] = {c} /\ directions[k] = {c}

(***************************************************************************)
(* Whatever ran before and however it ended, the port is not held by an    *)
(* object of this session when a script opens it.                          *)
(***************************************************************************)
PortGranted == At("open") => open = "none"

(***************************************************************************)
(* When a script has closed the port, the LEDs are off: no command is lost *)
(* or still on its way when the line is given up.                          *)
(***************************************************************************)
DarkWhenClosed == Closed => Lit(bus) = {}

(***************************************************************************)
(* Every run ends.                                                         *)
(***************************************************************************)
RunEnds == script # "none" ~> script = "none"

-----------------------------------------------------------------------------
(***************************************************************************)
(* The assumption on the hardware: the delay loop is over before the       *)
(* shortest pause that has to outlast it, the 0.8 s of demoStaticScan.m:68. *)
(***************************************************************************)
FastLoop == Period < 8

(***************************************************************************)
(* The inductive invariant.  First what can be read off a script: what its *)
(* steps before step l say of the state at l.                              *)
(***************************************************************************)

\* The firmware has come round since the last command before step l.
LongPause(s, j) == Steps(s)[j].op = "pause" /\ Steps(s)[j].ticks > Period
Quiet(s, l) ==
    \E j \in 1 .. (l - 1) :
        LongPause(s, j) /\ \A i \in j .. (l - 1) : Steps(s)[i].op # "command"

\* Step i is the last command before step l, or the last on its channel.
LastCommand(s, l, i) ==
    i \in CommandsBefore(s, l) /\ \A j \in CommandsBefore(s, l) : j <= i
LastOnChannel(s, l, i) ==
    /\ i \in CommandsBefore(s, l)
    /\ \A j \in CommandsBefore(s, l) :
          Channel(Steps(s)[j].byte) = Channel(Steps(s)[i].byte) => j <= i

\* Step l is the command before it again.
Repeats(s, l) == \E i \in 1 .. (l - 1) : LastCommand(s, l, i) /\ Steps(s)[i] = Steps(s)[l]

\* Since its last command was carried out, the script has at most repeated it.
Carried(s, l) ==
    \/ Quiet(s, l)
    \/ \E r \in 1 .. (l - 1) : LastCommand(s, l, r) /\ Repeats(s, r) /\ Quiet(s, r)

\* The port was released before step l and not opened since.
Released(s, l) ==
    \E i \in 1 .. (l - 1) :
        Steps(s)[i].op = "release" /\ \A j \in i .. (l - 1) : Steps(s)[j].op # "open"

\* No step before l fails whatever the state.
Reachable(s, l) == \A i \in 1 .. (l - 1) : Steps(s)[i].op = "camera" => Steps(s)[i].args = 2

-----------------------------------------------------------------------------
\* The character that the buses will get last, and the buses with it.
Pending == IF wire # None THEN wire ELSE uart.data
After(buses, b) == IF Channel(b) \in Channels THEN [buses EXCEPT ![Channel(b)] = b] ELSE buses

\* Nothing is on its way to the buses.
Settled == wire = None /\ (pc = "drive" => a = uart.data) /\ After(bus, uart.data) = bus

\* t ticks passed since the last character was sent, or more.
SettlesAfter(t) ==
    \/ Settled
    \/ t <= elapsed /\ (wire # None => t = 0)
    \/ t <= Period /\ wire = None /\ pc = "drive" /\ a = uart.data

\* At most one character is on its way: on the line with all others shown, or
\* in the register, also if the same one is on the line again.
OneOnItsWay ==
    \/ /\ wire # None /\ After(bus, uart.data) = bus
       /\ pc = "drive" => After(bus, a) = bus
    \/ /\ wire \in {None, uart.data}
       /\ pc = "drive" => a = uart.data \/ After(bus, a) = bus

\* A pause is behind the script when it is over.
Past == IF wait > 0 /\ ~shooting THEN line - 1 ELSE line

\* The script waits in a pause or for the camera.
WaitInv ==
    /\ wait > 0 /\ ~shooting =>
          /\ script # "none" /\ line > 1
          /\ Steps(script)[line - 1].op = "pause" /\ wait <= Steps(script)[line - 1].ticks
    /\ shooting =>
          script # "none" /\ line <= Len(Steps(script)) /\ Steps(script)[line].op = "shoot"

\* A pause lets the link settle, and what settled stays until the next command.
QuietInv ==
    /\ script # "none" /\ line > 1 /\ ~shooting /\ Steps(script)[line - 1].op = "pause" =>
          SettlesAfter(Steps(script)[line - 1].ticks - wait)
    /\ script # "none" /\ Quiet(script, Past) => Settled

\* What was asked is what the commands say, and what the buses will show.
AskedInv ==
    script # "none" =>
        /\ \A i \in Sent : LastOnChannel(script, line, i) =>
              asked[Channel(Steps(script)[i].byte)] = Code(Steps(script)[i].byte)
        /\ \A c \in Channels \ Commanded : asked[c] = Off
        /\ \A i \in Sent : LastCommand(script, line, i) => Pending = Steps(script)[i].byte
        /\ Sent # {} => OneOnItsWay
        /\ \A c \in Commanded : Code(After(bus, Pending)[c]) = asked[c]

\* A command that is only repeated stays carried out.
CarriedInv ==
    script # "none" /\ Carried(script, Past) =>
        \A c \in Commanded : Code(bus[c]) = asked[c]

\* The camera sees the LEDs as they are, and they do not change.
ShotInv == shooting => seen = {Shown(bus)} /\ Settled

PortInv == script # "none" /\ Released(script, line) => open = "none"

ReachInv == script # "none" => Reachable(script, line)

\* The operator uses the scripts that modulate the lights, and demoStaticScan not.
Modulated == "demoStaticScan" \notin Scripts

\* Picture k of such a movie is of light k.
InOrder(movie) ==
    Separable(movie) /\ \A shown \in movie : \A c \in Channels : Rank(shown, c) = c
OneEach == [k \in Numbers |-> {k}]

\* The pictures of a script that modulates are in order as soon as they are there,
\* and so are the directions, which only such a script gets to write.
PairedInv ==
    /\ directions \in {Missing, OneEach}
    /\ script \notin {"none", "demoStaticScan"} =>
          \A i \in 1 .. (line - 1) :
             /\ Steps(script)[i].op = "shoot" =>
                   movies # <<>> /\ InOrder(movies[Len(movies)])
             /\ Steps(script)[i].op = "separate" => pictures = OneEach

\* Nothing goes wrong, and the control window is not used.
Undisturbed == Faults = {} /\ GuiBytes = {}

\* The characters between the host and the buses.
OnTheWay ==
    {uart.data} \cup ({wire} \ {None}) \cup (IF pc = "drive" THEN {a} ELSE {})

\* The light of a channel is off, and nothing on its way turns it on.
Dark(c) ==
    /\ Code(bus[c]) = Off
    /\ \A b \in OnTheWay : Channel(b) = c => Code(b) = Off

\* After a calibration the scripts leave no light on: only those that the running
\* script has commanded may be lit.
CleanInv ==
    Undisturbed /\ directions # Missing =>
        \A c \in Channels :
            Dark(c) \/ (script # "none" /\ c \in Commanded)

\* Then movie k of demoStaticScan shows light k alone, and so does picture k.
StaticShots == <<14, 22, 28, 33>>
OnlyLit(k, movie) == movie # {} /\ \A shown \in movie : {c \in Channels : shown[c] # Off} = {k}

StaticInv ==
    script = "demoStaticScan" =>
        /\ \A n \in 1 .. 4 : line > StaticShots[n] <=> Len(movies) >= n
        /\ Undisturbed /\ directions # Missing =>
              /\ \A k \in Numbers : line > StaticShots[k] => OnlyLit(k, movies[k])
              /\ \A i \in 1 .. (line - 1) :
                    Steps(script)[i].op = "average" => pictures = OneEach

IInv ==
    /\ TypeOK /\ WaitInv /\ QuietInv /\ AskedInv /\ CarriedInv /\ ShotInv
    /\ PortInv /\ ReachInv /\ PairedInv /\ CleanInv /\ StaticInv

-----------------------------------------------------------------------------
(* What comments in the scripts say, and the scripts do not do.            *)

(***************************************************************************)
(* demoStaticScan.m takes "3 images for calssic PS", one light in each.    *)
(***************************************************************************)
OneLightPerPicture ==
    At("reconstruct") /\ script = "demoStaticScan" /\ directions # Missing =>
      \A k \in Numbers : Cardinality(pictures[k]) = 1

(***************************************************************************)
(* calibrateWithBall.m: "set properties and open a new serial port", from  *)
(* the list of ports it has asked for.                                     *)
(***************************************************************************)
PortListKept == At("open") => "info" \in workspace

(***************************************************************************)
(* calibrateWithBallStatic.m: "turn on all each LED seperately and capture *)
(* image".                                                                 *)
(***************************************************************************)
StaticCalibrationShoots == script = "calibrateWithBallStatic" ~> shooting

(***************************************************************************)
(* DemoScan.m: after the reconstruction, "save the results".               *)
(***************************************************************************)
ResultsSaved ==
    (script = "DemoScan" /\ At("reconstruct") /\ directions # Missing) ~> ended = "done"

(***************************************************************************)
(* DemoScan.m: "turn on the LEDs, take a sequance of images and turn off   *)
(* the leds".                                                              *)
(***************************************************************************)
LedsTurnedOff ==
    (script = "DemoScan" /\ shooting /\ directions # Missing) ~> Lit(bus) = {}
=============================================================================
