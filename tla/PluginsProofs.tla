---------------------------- MODULE PluginsProofs ----------------------------
(***************************************************************************)
(* Theorems about plugins.  First a plugin's installer and control script, *)
(* for any set of pids, either script, every runtime and any number of     *)
(* commands, pushes and mishaps; then the palette and the syncs, for any   *)
(* plugins, built-ins and tables, any number of rows, requests and crashes.*)
(***************************************************************************)
EXTENDS PluginControl, ExtensionSync, FiniteSetTheorems, SequenceTheorems, TLAPS

-----------------------------------------------------------------------------
(* The control script                                                      *)

PStates == {"idle", "source", "env", "build", "check", "launch", "verify", "find", "kill"}
PCommands == {"none", "install", "start", "stop", "restart", "build"}

Shells == [command : PCommands, pc : PStates, pid : Pid \cup {0}]

\* The type invariant, with the shapes an update of a field relies on.
ControlTypes ==
  /\ kind \in [flavour : Flavours, runtime : Runtimes]
  /\ upstream \in 0..MaxRev /\ checkout \in 0..MaxRev /\ built \in 0..MaxRev
  /\ pidFile \in Pid \cup {0}
  /\ procs \in [Pid -> [who : {"nobody", "plugin", "leaving", "other"}, rev : 0..MaxRev]]
  /\ container \in [there : BOOLEAN, running : BOOLEAN, rev : 0..MaxRev]
  /\ shell \in Shells
  /\ promised \in 0..MaxRev

\* Once start has found the recorded pid free, no instance is up, and what it
\* launches is what a restart will promise.
Starting ==
  /\ shell.pc \in {"launch", "verify", "kill"} => ~Docker
  /\ shell.pc = "launch" => Live = {}
  /\ shell.pc = "verify" => \A p \in Live : procs[p].rev = RevRun

\* Stop means the pid it found in the file, and a restart finds its container
\* removed.
Stopping ==
  /\ shell.pc = "kill" => shell.pid = pidFile
  /\ shell.pc = "check" /\ shell.command = "restart" /\ Docker => container = NoContainer

\* A promise stands only between commands.
Promising == (shell.pc # "idle" => promised = 0) /\ RestartRuns

ControlInv == ControlTypes /\ InReach /\ Starting /\ Stopping /\ Promising

-----------------------------------------------------------------------------
\* Nothing is installed on the host the first command runs on.
LEMMA ControlInitial == PInit => ControlInv
<1> SUFFICES ASSUME PInit PROVE ControlInv
  OBVIOUS
<1> USE PluginControlOK DEF PInit, NoCommand, Nobody, NoContainer
<1>1. ControlTypes BY DEF ControlTypes, Shells, PStates, PCommands
<1>2. InReach BY DEF InReach, Live
<1>3. Starting /\ Stopping /\ Promising
  BY DEF Starting, Stopping, Promising, RestartRuns
<1> QED BY <1>1, <1>2, <1>3 DEF ControlInv

\* The recorded pid is a pid or 0, and while it is 0 no instance is up.
LEMMA RecordedReaches ==
  ASSUME ControlInv
  PROVE  /\ RecordedPid \in Pid \cup {0}
         /\ RecordedPid # 0 => RecordedPid = pidFile
         /\ RecordedPid = 0 => Live = {}
  BY PluginControlOK DEF ControlInv, ControlTypes, InReach, Live, RecordedPid, PidRunning,
     GetPluginPid

\* What the steps of a script make of its command.
LEMMA ShellTypes ==
  ASSUME shell \in Shells, NEW q \in PStates
  PROVE  /\ [shell EXCEPT !.pc = q, !.pid = 0] \in Shells
         /\ [shell EXCEPT !.pc = q, !.pid = 0].pc = q
         /\ [shell EXCEPT !.pc = q, !.pid = 0].command = shell.command
         /\ NoCommand \in Shells /\ NoCommand.pc = "idle"
  BY DEF Shells, NoCommand, PStates, PCommands

\* A step of the shell that touches no process, no container and no promise.
LEMMA ShellStep ==
  ASSUME ControlInv, UNCHANGED <<kind, upstream, pidFile, procs, container, promised>>,
         checkout' \in 0..MaxRev, built' \in 0..MaxRev, shell' \in Shells,
         shell'.pc \notin {"launch", "verify", "kill"},
         shell'.pc # "idle" => promised = 0,
         shell'.pc = "check" /\ shell'.command = "restart" /\ Docker => container = NoContainer
  PROVE  ControlInv'
<1> USE DEF ControlInv
<1>1. ControlTypes' BY DEF ControlTypes
<1>2. InReach' BY DEF InReach, Live
<1>3. Starting' /\ Stopping' BY DEF Starting, Stopping, Docker
<1>4. Promising' BY DEF Promising, RestartRuns, Live, Docker
<1> QED BY <1>1, <1>2, <1>3, <1>4

\* A command begins on a host with no promise to keep any more.
LEMMA CommandStep ==
  ASSUME ControlInv, NEW command \in PCommands, NEW pc \in {"source", "check", "find", "build"},
         command = "restart" => pc = "find", Run(command, pc)
  PROVE  ControlInv'
<1>1. /\ UNCHANGED <<kind, upstream, checkout, built, pidFile, procs, container>>
      /\ promised' = 0
  BY DEF Run, disk, host
<1>2. shell' \in Shells /\ shell'.pc = pc /\ shell'.command = command
  BY DEF Run, NoCommand, Shells, PStates
<1> USE PluginControlOK, <1>1, <1>2 DEF ControlInv
<1>3. ControlTypes' BY DEF ControlTypes
<1>4. InReach' BY DEF InReach, Live
<1>5. Starting' /\ Stopping' BY DEF Starting, Stopping
<1>6. Promising' BY DEF Promising, RestartRuns
<1> QED BY <1>3, <1>4, <1>5, <1>6

\* The installer changes the checkout and the build, never a process.
LEMMA InstallStep ==
  ASSUME ControlInv, Source \/ WriteFiles \/ Build
  PROVE  ControlInv'
<1>1. UNCHANGED <<kind, upstream, pidFile, procs, container, promised>>
  BY DEF Source, WriteFiles, Build, host
<1>2. checkout' \in 0..MaxRev /\ built' \in 0..MaxRev
  BY DEF Source, WriteFiles, Build, disk, ControlInv, ControlTypes
<1>3. promised = 0
  BY DEF Source, WriteFiles, Build, ControlInv, Promising
<1>4. /\ shell' \in Shells
      /\ shell'.pc \in {"env", "build", "check", "idle"}
      /\ shell'.pc = "check" => shell'.command = "install"
  BY ShellTypes, ZenonT(60)
  DEF Source, WriteFiles, Build, Step, Fail, Succeed, ControlInv, ControlTypes, PStates
<1> QED BY <1>1, <1>2, <1>3, <1>4, ShellStep

\* Start launches one process, and only where none is up; a restart promises
\* what it has launched.
LEMMA StartStep ==
  ASSUME ControlInv, StartCheck \/ Launch \/ Verify \/ StartContainer \/ NoImage
  PROVE  ControlInv'
<1>0. shell.pc # "idle" /\ promised = 0
  <2>1. shell.pc # "idle" BY DEF StartCheck, Launch, Verify, StartContainer, NoImage
  <2> QED BY <2>1 DEF ControlInv, Promising
<1>1. CASE StartCheck
  <2>1. UNCHANGED <<kind, upstream, checkout, built, pidFile, procs, container, promised>>
    BY <1>1 DEF StartCheck, disk, host
  <2>2. /\ shell' \in Shells
        /\ shell'.pc \in {"idle", "launch"}
        /\ shell'.pc = "launch" => RecordedPid = 0 /\ ~Docker
    BY <1>1, ShellTypes DEF StartCheck, AlreadyUp, Step, Fail, Succeed, ControlInv, ControlTypes, PStates
  <2>3. ControlTypes' BY <2>1, <2>2 DEF ControlInv, ControlTypes
  <2>4. InReach' BY <2>1 DEF ControlInv, InReach, Live
  <2>5. Starting' /\ Stopping'
    BY <2>1, <2>2, RecordedReaches DEF Starting, Stopping, Live, Docker
  <2>6. Promising' BY <1>0, <2>1 DEF Promising, RestartRuns
  <2> QED BY <2>3, <2>4, <2>5, <2>6 DEF ControlInv
<1>2. CASE Launch
  <2>0. PICK p \in Pid :
          /\ procs' = [procs EXCEPT ![p] = Instance(RevRun)]
          /\ pidFile' = p
          /\ shell' = [shell EXCEPT !.pc = "verify", !.pid = p]
    BY <1>2 DEF Launch
  <2>1. UNCHANGED <<kind, upstream, checkout, built, container, promised>>
    BY <1>2 DEF Launch, disk
  <2>2. ~Docker /\ Live = {} BY <1>2 DEF Launch, ControlInv, Starting
  <2>3. shell' \in Shells /\ shell'.pc = "verify"
    BY <2>0 DEF ControlInv, ControlTypes, Shells, PStates
  <2>4. Instance(RevRun) \in [who : {"nobody", "plugin", "leaving", "other"}, rev : 0..MaxRev]
    BY DEF Instance, RevRun, ControlInv, ControlTypes
  <2>5. ControlTypes' BY <2>0, <2>1, <2>3, <2>4 DEF ControlInv, ControlTypes
  <2>6. Live' = {p} /\ procs'[p].rev = RevRun
    BY <2>0, <2>2 DEF Instance, Live, ControlInv, ControlTypes
  <2>7. InReach' BY <2>0, <2>6 DEF InReach
  <2>8. Starting' /\ Stopping'
    BY <2>1, <2>2, <2>3, <2>6 DEF Starting, Stopping, RevRun, Docker
  <2>9. Promising' BY <1>0, <2>1 DEF Promising, RestartRuns
  <2> QED BY <2>5, <2>7, <2>8, <2>9 DEF ControlInv
<1>3. CASE Verify
  <2>1. UNCHANGED <<kind, upstream, checkout, built, procs, container>>
    BY <1>3 DEF Verify, disk
  <2>2. shell' = NoCommand /\ pidFile' \in {0, pidFile} /\ (RecordedPid # 0 => pidFile' = pidFile)
    BY <1>3 DEF Verify, Succeed
  <2>3. /\ promised' \in {0, RevRun}
        /\ promised' # 0 => RecordedPid \in Live /\ promised' = RevRun /\ ~Docker
    BY <1>3, RecordedReaches DEF Verify, Live, ControlInv, Starting
  <2>4. ControlTypes'
    <3>1. shell' \in Shells BY <2>2, ShellTypes DEF ControlInv, ControlTypes, PStates
    <3>2. promised' \in 0..MaxRev BY <1>0, <2>3 DEF RevRun, ControlInv, ControlTypes
    <3> QED BY <2>1, <2>2, <3>1, <3>2 DEF ControlInv, ControlTypes
  <2>5. InReach' BY <2>1, <2>2, RecordedReaches DEF ControlInv, InReach, Live
  <2>6. Starting' /\ Stopping' BY <2>2 DEF NoCommand, Starting, Stopping
  <2>7. Promising'
    <3>1. promised' # 0 => procs[RecordedPid].rev = promised'
      BY <1>3, <2>3 DEF Verify, ControlInv, Starting
    <3> QED BY <2>1, <2>2, <2>3, <3>1 DEF NoCommand, Promising, RestartRuns, Live, Docker
  <2> QED BY <2>4, <2>5, <2>6, <2>7 DEF ControlInv
<1>4. CASE StartContainer
  <2>1. UNCHANGED <<kind, upstream, checkout, built, pidFile, procs>> /\ shell' = NoCommand
    BY <1>4 DEF StartContainer, Succeed, disk
  <2>2. /\ container' \in [there : BOOLEAN, running : BOOLEAN, rev : 0..MaxRev]
        /\ promised' \in {0, built}
        /\ promised' # 0 => Docker /\ container'.running /\ container'.rev = promised'
    <3>1. CASE container.running
      BY <1>0, <1>4, <3>1 DEF StartContainer, ControlInv, ControlTypes
    <3>2. CASE ~container.running
      <4> DEFINE made == [there |-> TRUE, running |-> TRUE, rev |-> built]
                 again == [container EXCEPT !.running = TRUE]
      <4>1. /\ container' \in {made, again} /\ promised' \in {0, built}
            /\ promised' # 0 => shell.command = "restart"
        BY <1>4, <3>2 DEF StartContainer
      <4>2. promised' # 0 => container' = made /\ promised' = built
        BY <1>4, <3>2, <4>1 DEF StartContainer, ControlInv, Stopping, NoContainer
      <4>3. /\ made \in [there : BOOLEAN, running : BOOLEAN, rev : 0..MaxRev]
            /\ again \in [there : BOOLEAN, running : BOOLEAN, rev : 0..MaxRev]
        BY DEF ControlInv, ControlTypes
      <4>4. made.running /\ made.rev = built /\ Docker
        BY <1>4 DEF StartContainer
      <4> QED BY <4>1, <4>2, <4>3, <4>4
    <3> QED BY <3>1, <3>2
  <2>3. ControlTypes'
    <3>1. shell' \in Shells BY <2>1, ShellTypes DEF ControlInv, ControlTypes, PStates
    <3> QED BY <1>0, <2>1, <2>2, <3>1, PluginControlOK DEF ControlInv, ControlTypes
  <2>4. InReach' BY <2>1 DEF ControlInv, InReach, Live
  <2>5. Starting' /\ Stopping' BY <2>1 DEF NoCommand, Starting, Stopping
  <2>6. Promising' BY <2>1, <2>2 DEF NoCommand, Promising, RestartRuns, Docker
  <2> QED BY <2>3, <2>4, <2>5, <2>6 DEF ControlInv
<1>5. CASE NoImage
  <2>1. UNCHANGED <<kind, upstream, checkout, built, pidFile, procs, container, promised>>
    BY <1>5 DEF NoImage, disk, host
  <2>2. shell' \in Shells /\ shell'.pc = "idle"
    BY <1>5, ShellTypes DEF NoImage, Fail, ControlInv, ControlTypes, PStates
  <2>3. checkout \in 0..MaxRev /\ built \in 0..MaxRev BY DEF ControlInv, ControlTypes
  <2> QED BY <2>1, <2>2, <2>3, ShellStep
<1> QED BY <1>1, <1>2, <1>3, <1>4, <1>5

\* After a stop a restart goes on to its check, with nothing promised.
LEMMA AfterStopGoesOn ==
  ASSUME ControlInv, AfterStop
  PROVE  shell' \in Shells /\ shell'.pc \in {"idle", "check"}
  BY ShellTypes DEF AfterStop, Step, Succeed, ControlInv, ControlTypes, PStates

\* Stop takes the pid file away only where it names no instance that is up.
LEMMA StopStep ==
  ASSUME ControlInv, StopFind \/ StopKill \/ StopContainer
  PROVE  ControlInv'
<1>0. promised = 0
  BY DEF StopFind, StopKill, StopContainer, ControlInv, Promising
<1>1. CASE StopFind
  <2>1. UNCHANGED <<kind, upstream, checkout, built, procs, container, promised>> /\ ~Docker
    BY <1>1 DEF StopFind, disk
  <2>2. /\ shell' \in Shells /\ shell'.pc \in {"idle", "check", "kill"}
        /\ shell'.pc = "kill" => shell'.pid = pidFile'
        /\ pidFile' \in {0, pidFile}
        /\ RecordedPid # 0 => pidFile' = pidFile
    <3>1. CASE RecordedPid # 0
      <4>1. shell' = [shell EXCEPT !.pc = "kill", !.pid = RecordedPid] /\ pidFile' = pidFile
        BY <1>1, <3>1 DEF StopFind
      <4>2. shell' \in Shells /\ shell'.pc = "kill" /\ shell'.pid = RecordedPid
        BY <4>1, RecordedReaches DEF ControlInv, ControlTypes, Shells, PStates
      <4> QED BY <3>1, <4>1, <4>2, RecordedReaches
    <3>2. CASE RecordedPid = 0
      BY <1>1, <3>2, AfterStopGoesOn DEF StopFind
    <3> QED BY <3>1, <3>2
  <2>3. ControlTypes' BY <2>1, <2>2 DEF ControlInv, ControlTypes
  <2>4. InReach' BY <2>1, <2>2, RecordedReaches DEF ControlInv, InReach, Live
  <2>5. Starting' /\ Stopping' BY <2>1, <2>2 DEF Starting, Stopping, Docker
  <2>6. Promising' BY <1>0, <2>1 DEF Promising, RestartRuns
  <2> QED BY <2>3, <2>4, <2>5, <2>6 DEF ControlInv
<1>2. CASE StopKill
  <2>1. UNCHANGED <<kind, upstream, checkout, built, container, promised>> /\ pidFile' = 0
    BY <1>2 DEF StopKill, disk
  <2>2. ~Docker /\ shell.pid = pidFile
    BY <1>2 DEF StopKill, ControlInv, Starting, Stopping
  <2>3. shell' \in Shells /\ shell'.pc \in {"idle", "check"}
    BY <1>2, AfterStopGoesOn DEF StopKill
  <2>4. procs' \in [Pid -> [who : {"nobody", "plugin", "leaving", "other"}, rev : 0..MaxRev]]
    <3>1. shell.pid \in Pid =>
            Ended(shell.pid) \in [who : {"nobody", "plugin", "leaving", "other"}, rev : 0..MaxRev]
      BY PluginControlOK DEF Ended, Nobody, ControlInv, ControlTypes
    <3> QED BY <1>2, <3>1 DEF StopKill, ControlInv, ControlTypes
  <2>5. Live' = {}
    BY <1>2, <2>2 DEF StopKill, Ended, Nobody, Live, InReach, ControlInv, ControlTypes
  <2>6. ControlTypes' BY <2>1, <2>3, <2>4 DEF ControlInv, ControlTypes
  <2>7. InReach' /\ Starting' /\ Stopping'
    BY <2>1, <2>2, <2>3, <2>5 DEF InReach, Starting, Stopping, Docker
  <2>8. Promising' BY <1>0, <2>1 DEF Promising, RestartRuns
  <2> QED BY <2>6, <2>7, <2>8 DEF ControlInv
<1>3. CASE StopContainer
  <2>1. /\ UNCHANGED <<kind, upstream, checkout, built, pidFile, procs, promised>>
        /\ container' = NoContainer
    BY <1>3 DEF StopContainer, Removed, disk
  <2>2. shell' \in Shells /\ shell'.pc \in {"idle", "check"}
    BY <1>3, AfterStopGoesOn DEF StopContainer
  <2>3. ControlTypes'
    BY <2>1, <2>2, PluginControlOK DEF ControlInv, ControlTypes, NoContainer
  <2>4. InReach' BY <2>1 DEF ControlInv, InReach, Live
  <2>5. Starting' /\ Stopping' BY <2>1, <2>2 DEF Starting, Stopping
  <2>6. Promising' BY <1>0, <2>1 DEF Promising, RestartRuns
  <2> QED BY <2>3, <2>4, <2>5, <2>6 DEF ControlInv
<1> QED BY <1>1, <1>2, <1>3

\* Exits, reboots and other programs never make an instance.
LEMMA HostStep ==
  ASSUME ControlInv, Push \/ Exit \/ Reboot \/ (\E p \in Pid : Leave(p) \/ TakePid(p))
  PROVE  ControlInv'
<1>1. /\ UNCHANGED <<kind, pidFile, checkout, built>>
      /\ shell' = shell \/ shell' = NoCommand
      /\ container' = container \/ container' = [container EXCEPT !.running = FALSE]
  BY DEF Push, Exit, Reboot, Leave, TakePid, disk, host
<1>2. /\ upstream' \in 0..MaxRev
      /\ procs' \in [Pid -> [who : {"nobody", "plugin", "leaving", "other"}, rev : 0..MaxRev]]
      /\ promised' \in {0, promised}
  BY PluginControlOK
     DEF Push, Exit, Reboot, Leave, TakePid, disk, host, Nobody, Other, ControlInv, ControlTypes
<1>3. ControlTypes'
  <2>1. shell' \in Shells BY <1>1, ShellTypes DEF ControlInv, ControlTypes, PStates
  <2>2. container' \in [there : BOOLEAN, running : BOOLEAN, rev : 0..MaxRev]
    BY <1>1 DEF ControlInv, ControlTypes
  <2> QED BY <1>1, <1>2, <2>1, <2>2, PluginControlOK DEF ControlInv, ControlTypes
<1>4. /\ Live' \subseteq Live
      /\ \A p \in Live' : procs'[p] = procs[p]
  BY DEF Push, Exit, Reboot, Leave, TakePid, host, Nobody, Other, Live, ControlInv, ControlTypes
<1>5. InReach' BY <1>1, <1>4 DEF ControlInv, InReach
<1>6. Starting' BY <1>1, <1>4 DEF ControlInv, Starting, RevRun, Docker, NoCommand
<1>7. Stopping' BY <1>1 DEF ControlInv, ControlTypes, Stopping, Docker, NoCommand, NoContainer
<1>8. Promising'
  <2>1. CASE promised' = 0 BY <2>1 DEF Promising, RestartRuns
  <2>2. CASE promised' # 0
    <3>1. promised' = promised /\ shell' = shell /\ container' = container /\ Live' = Live
      BY <2>2 DEF Push, Exit, Reboot, Leave, TakePid, host, Nobody, Other, Live, ControlInv, ControlTypes
    <3> QED BY <1>1, <1>4, <2>2, <3>1 DEF ControlInv, Promising, RestartRuns, Docker
  <2> QED BY <2>1, <2>2
<1> QED BY <1>3, <1>5, <1>6, <1>7, <1>8 DEF ControlInv

\* Every step of the shell and of the host preserves the invariant.
LEMMA ControlStep == ControlInv /\ [PNext]_pvars => ControlInv'
<1> SUFFICES ASSUME ControlInv, [PNext]_pvars PROVE ControlInv'
  OBVIOUS
<1>1. CASE Install \/ StartCommand \/ StopCommand \/ RestartCommand \/ BuildCommand
  BY <1>1, CommandStep DEF Install, StartCommand, StopCommand, RestartCommand, BuildCommand, PCommands
<1>2. CASE Source \/ WriteFiles \/ Build
  BY <1>2, InstallStep
<1>3. CASE StartCheck \/ Launch \/ Verify \/ StartContainer \/ NoImage
  BY <1>3, StartStep
<1>4. CASE StopFind \/ StopKill \/ StopContainer
  BY <1>4, StopStep
<1>5. CASE Push \/ Exit \/ Reboot \/ (\E p \in Pid : Leave(p) \/ TakePid(p))
  BY <1>5, HostStep
<1>6. CASE UNCHANGED pvars
  BY <1>6 DEF pvars, host, disk, ControlInv, ControlTypes, InReach, Live, Starting, RevRun,
     Docker, Stopping, Promising, RestartRuns
<1> QED BY <1>1, <1>2, <1>3, <1>4, <1>5, <1>6 DEF PNext

\* The shapes hold in every state.
THEOREM ControlTyped == PSpec => []PTypeOK
<1>1. ControlInv => PTypeOK BY DEF ControlInv, ControlTypes, PTypeOK, Shells, PStates
<1> QED BY ControlInitial, ControlStep, <1>1, PTL DEF PSpec

\* However commands, exits, reboots and pids given to others interleave, the
\* pid file names the only instance that nobody has asked to end.
THEOREM ScriptReaches == PSpec => []InReach
<1>1. ControlInv => InReach BY DEF ControlInv
<1> QED BY ControlInitial, ControlStep, <1>1, PTL DEF PSpec

\* A restart that reported success has left the newest build running.
THEOREM RestartIsFresh == PSpec => []RestartRuns
<1>1. ControlInv => RestartRuns BY DEF ControlInv, Promising
<1> QED BY ControlInitial, ControlStep, <1>1, PTL DEF PSpec

-----------------------------------------------------------------------------
(* Numbers and their order.  The least element of a set stands in for      *)
(* induction: a least counterexample is taken apart.                       *)

LEMMA LeastNat ==
  ASSUME NEW T, T \subseteq Nat, T # {}
  PROVE  \E n \in T : \A m \in T : n <= m
<1> DEFINE R == OpToRel(<, Nat)
<1>1. IsWellFoundedOn(R, Nat)
  BY NatLessThanWellFounded
<1>2. \A x \in Nat, y \in Nat : y < x => <<y, x>> \in R
  BY DEF OpToRel
<1> HIDE DEF R
<1>3. \E x \in T : \A y \in T : ~ (<<y, x>> \in R)
  BY <1>1, WFMin
<1>4. PICK x \in T : \A y \in T : ~ (<<y, x>> \in R)
  BY <1>3
<1>5. ASSUME NEW y \in T PROVE x <= y
  <2>1. ~(y < x)
    BY <1>2, <1>4
  <2>2. x \in Nat /\ y \in Nat OBVIOUS
  <2> QED BY <2>1, <2>2
<1> QED BY <1>5

LEMMA MinIsLeast ==
  ASSUME NEW T, T \subseteq Nat, T # {}
  PROVE  Min(T) \in T /\ \A m \in T : Min(T) <= m
<1>1. \E n \in T : \A m \in T : n <= m
  BY LeastNat
<1> QED BY <1>1 DEF Min

Ordered(f) == \A m, n \in DOMAIN f : m < n => f[m] < f[n]

\* Every finite set of numbers can be listed in order.
LEMMA CanBeOrdered ==
  ASSUME NEW S, S \subseteq Nat, IsFiniteSet(S)
  PROVE  \E f \in [1..Cardinality(S) -> S] : Ordered(f)
<1> DEFINE Bad == {A \in SUBSET Nat : /\ IsFiniteSet(A)
                                      /\ ~ \E f \in [1..Cardinality(A) -> A] : Ordered(f)}
           Sizes == {Cardinality(A) : A \in Bad}
<1>1. SUFFICES ASSUME Bad # {} PROVE FALSE
  OBVIOUS
<1>2. Sizes \subseteq Nat /\ Sizes # {}
  BY <1>1, FS_CardinalityType
<1>3. PICK A \in Bad : \A B \in Bad : Cardinality(A) <= Cardinality(B)
  <2>1. PICK n \in Sizes : \A m \in Sizes : n <= m
    BY <1>2, LeastNat
  <2>2. PICK A \in Bad : n = Cardinality(A)
    OBVIOUS
  <2> QED BY <2>1, <2>2
<1>4. A \subseteq Nat /\ IsFiniteSet(A) /\ ~ \E f \in [1..Cardinality(A) -> A] : Ordered(f)
  OBVIOUS
<1>5. Cardinality(A) \in Nat
  BY <1>4, FS_CardinalityType
<1>6. A # {}
  <2> SUFFICES ASSUME A = {} PROVE FALSE
    OBVIOUS
  <2>1. Cardinality(A) = 0
    BY FS_EmptySet
  <2> DEFINE f == [i \in 1..0 |-> i]
  <2>2. f \in [1..Cardinality(A) -> A] /\ Ordered(f)
    BY <2>1 DEF Ordered
  <2> QED BY <1>4, <2>2
<1> HIDE DEF Sizes
<1>7. PICK a \in A : \A m \in A : a <= m
  BY <1>4, <1>6, LeastNat
<1> DEFINE B == A \ {a}
           k == Cardinality(B)
<1>8. IsFiniteSet(B) /\ k = Cardinality(A) - 1 /\ k \in Nat /\ B \subseteq Nat
  BY <1>4, <1>5, FS_RemoveElement, FS_CardinalityType
<1> HIDE DEF Bad
<1>9. B \notin Bad
  <2> SUFFICES ASSUME B \in Bad PROVE FALSE
    OBVIOUS
  <2>1. Cardinality(A) <= Cardinality(B)
    BY <1>3
  <2> QED BY <1>5, <1>8, <2>1
<1>10. PICK g \in [1..k -> B] : Ordered(g)
  BY <1>8, <1>9 DEF Bad
<1> DEFINE f == [i \in 1..k + 1 |-> IF i = 1 THEN a ELSE g[i - 1]]
<1>11. k + 1 = Cardinality(A)
  BY <1>5, <1>8
<1> HIDE DEF k
<1>12. f \in [1..k + 1 -> A]
  <2> SUFFICES ASSUME NEW i \in 1..k + 1, i # 1 PROVE g[i - 1] \in A
    OBVIOUS
  <2>1. i - 1 \in 1..k
    BY <1>8
  <2> QED BY <1>10, <2>1
<1>13. ASSUME NEW m \in 1..k + 1, NEW n \in 1..k + 1, m < n
       PROVE  f[m] < f[n]
  <2>1. n - 1 \in 1..k /\ f[n] = g[n - 1]
    BY <1>8, <1>13
  <2>2. g[n - 1] \in B
    BY <1>10, <2>1
  <2>3. CASE m = 1
    <3>1. a <= g[n - 1] /\ a # g[n - 1] /\ a \in Nat /\ g[n - 1] \in Nat
      BY <1>4, <1>7, <2>2
    <3> QED BY <2>1, <2>3, <3>1
  <2>4. CASE m # 1
    <3>1. m - 1 \in 1..k /\ f[m] = g[m - 1] /\ m - 1 < n - 1
      BY <1>8, <1>13, <2>4
    <3>2. g[m - 1] < g[n - 1]
      BY <1>10, <2>1, <3>1 DEF Ordered
    <3> QED BY <2>1, <3>1, <3>2
  <2> QED BY <2>3, <2>4
<1>14. Ordered(f)
  BY <1>13 DEF Ordered
<1> QED BY <1>4, <1>11, <1>12, <1>14

LEMMA OrderedApart ==
  ASSUME NEW k \in Nat, NEW S, S \subseteq Nat, NEW f \in [1..k -> S], Ordered(f)
  PROVE  \A m, n \in 1..k : f[m] = f[n] => m = n
<1> SUFFICES ASSUME NEW m \in 1..k, NEW n \in 1..k, m < n
             PROVE  f[m] # f[n]
  OBVIOUS
<1>1. f[m] < f[n] /\ f[m] \in Nat /\ f[n] \in Nat
  BY DEF Ordered
<1> QED BY <1>1

\* What InOrder lists: each member once, in order.
LEMMA InOrderLists ==
  ASSUME NEW S, S \subseteq Nat, IsFiniteSet(S)
  PROVE  /\ Cardinality(S) \in Nat
         /\ InOrder(S) \in [1..Cardinality(S) -> S]
         /\ Ordered(InOrder(S))
         /\ \A m, n \in DOMAIN InOrder(S) : InOrder(S)[m] = InOrder(S)[n] => m = n
         /\ \A x \in S : \E n \in DOMAIN InOrder(S) : InOrder(S)[n] = x
<1> DEFINE k == Cardinality(S)
           f == InOrder(S)
<1>1. k \in Nat
  BY FS_CardinalityType
<1>2. f \in [1..k -> S] /\ Ordered(f)
  BY CanBeOrdered DEF InOrder, Ordered
<1> HIDE DEF f
<1>3. \A m, n \in 1..k : f[m] = f[n] => m = n
  BY <1>1, <1>2, OrderedApart
<1>4. f \in Injection(1..k, S)
  BY <1>2, <1>3 DEF Injection, IsInjective
<1>5. f \in Surjection(1..k, S)
  <2>1. IsFiniteSet(1..k) /\ Cardinality(1..k) = k
    BY <1>1, FS_Interval
  <2> QED BY <1>4, <2>1, FS_Injection
<1>6. \A x \in S : \E n \in 1..k : f[n] = x
  BY <1>5 DEF Surjection
<1> QED BY <1>1, <1>2, <1>3, <1>6 DEF f

\* A list of everything from one on is in its order already.
LEMMA InOrderOfAll ==
  ASSUME NEW k \in Nat
  PROVE  InOrder(1..k) = [n \in 1..k |-> n]
<1> DEFINE f == InOrder(1..k)
           Wrong == {n \in 1..k : f[n] # n}
<1>1. IsFiniteSet(1..k) /\ Cardinality(1..k) = k /\ 1..k \subseteq Nat
  BY FS_Interval
<1>2. /\ f \in [1..k -> 1..k] /\ Ordered(f)
      /\ \A m, n \in 1..k : f[m] = f[n] => m = n
      /\ \A x \in 1..k : \E n \in 1..k : f[n] = x
  BY <1>1, InOrderLists
<1> HIDE DEF f
<1>3. SUFFICES ASSUME Wrong # {} PROVE FALSE
  BY <1>2 DEF f
<1>4. PICK n \in Wrong : \A m \in Wrong : n <= m
  <2>1. Wrong \subseteq Nat
    OBVIOUS
  <2> HIDE DEF Wrong
  <2> QED BY <1>3, <2>1, LeastNat
<1>5. n \in 1..k /\ f[n] # n /\ f[n] \in 1..k
  BY <1>2
<1>6. \A m \in 1..k : m < n => f[m] = m
  BY <1>4
<1>7. PICK j \in 1..k : f[j] = n
  BY <1>2, <1>5
<1>8. CASE j < n
  BY <1>6, <1>7, <1>8
<1>9. CASE n < j
  <2>1. f[n] < n
    BY <1>2, <1>5, <1>7, <1>9 DEF Ordered
  <2>2. f[f[n]] = f[n]
    BY <1>5, <1>6, <2>1
  <2> QED BY <1>2, <1>5, <2>1, <2>2
<1>10. CASE j = n
  BY <1>5, <1>7, <1>10
<1> QED BY <1>5, <1>7, <1>8, <1>9, <1>10
-----------------------------------------------------------------------------
(* The table and the requests: what every step leaves of their shape.      *)

ExtRows == {r \in ExtRowsOf({"none", "builtin", "extension"}) :
              /\ r.kind = "none" => r = NoRow
              /\ r.kind = "builtin" => NoAction(r)}
WorkPcs == {"idle", "save", "delete", "sweep", "ask", "list", "write"}
AllNamed(list) == \A n \in DOMAIN list : ~Nameless(list[n])
WorkShape(w, among) ==
  /\ DOMAIN w = {"pc", "id", "plugin", "body", "asked", "rest", "index", "claimed"}
  /\ w.pc \in WorkPcs
  /\ w.id \in among \cup {0}
  /\ w.pc = "save" => w.body \in ExtRows /\ w.body.kind # "none"
  /\ w.pc \in {"delete", "sweep"} => w.id \in among
  /\ w.plugin \in Nat
  /\ w.pc \in {"ask", "list", "write"} => w.plugin # 0
  /\ w.pc \in {"list", "write"} => /\ w.asked \in Seq(ReportedAction) /\ AllNamed(w.asked)
                                   /\ w.rest \in Seq(ReportedAction) /\ AllNamed(w.rest)
  /\ w.pc = "list" => w.rest = w.asked
  /\ DOMAIN w.index \subseteq Nat \ {0}
  /\ w.pc = "write" => \A n \in DOMAIN w.index : w.index[n][1] \in among
  /\ w.claimed \subseteq DOMAIN w.index
  /\ w.pc # "write" => w.claimed = {}
XBase ==
  /\ overlapping \in BOOLEAN /\ begun \in Nat /\ unread \in Nat
  /\ rows \in Seq(ExtRows) /\ Len(rows) <= MaxRows
  /\ live \in Lives
  /\ boot \in [prune : SUBSET Retired, seed : SUBSET DOMAIN Builtins]
  /\ DOMAIN work = Servers
  /\ \A s \in Servers : WorkShape(work[s], Ids)
  /\ DOMAIN edited \subseteq Ids

LEMMA ActionsAlike ==
  ASSUME NEW r, NEW q, r.action = q.action
  PROVE  NoAction(r) <=> NoAction(q)
BY Zenon DEF NoAction

LEMMA ExtBlanks ==
  /\ NoRow \in ExtRows /\ NoRow.kind = "none" /\ NoRow.plugin = 0 /\ NoAction(NoRow)
  /\ DOMAIN NoRow = {"kind", "name", "plugin", "action", "edit"}
<1>1. NoRow.kind = "none" /\ NoRow.plugin = 0 /\ NoAction(NoRow)
  BY DEF NoRow, NoAction
<1>2. NoRow.name \in Text /\ NoRow.edit \in Text /\ NoRow.action \in Text
  BY Zenon DEF NoRow, Text
<1>3. DOMAIN NoRow = {"kind", "name", "plugin", "action", "edit"}
  BY DEF NoRow
<1>4. NoRow = [kind |-> NoRow.kind, name |-> NoRow.name, plugin |-> NoRow.plugin,
               action |-> NoRow.action, edit |-> NoRow.edit]
  BY Zenon DEF NoRow
<1> HIDE DEF NoRow
<1>5. NoRow \in ExtRowsOf({"none", "builtin", "extension"})
  BY <1>1, <1>2, <1>4, SMT DEF ExtRowsOf
<1> QED BY <1>1, <1>3, <1>5 DEF ExtRows

LEMMA WorkBlank ==
  /\ DOMAIN NoWork = {"pc", "id", "plugin", "body", "asked", "rest", "index", "claimed"}
  /\ NoWork.pc = "idle" /\ NoWork.id = 0 /\ NoWork.plugin = 0 /\ NoWork.claimed = {}
  /\ DOMAIN NoWork.index = {}
  /\ \A among : WorkShape(NoWork, among)
<1>1. /\ DOMAIN NoWork = {"pc", "id", "plugin", "body", "asked", "rest", "index", "claimed"}
      /\ NoWork.pc = "idle" /\ NoWork.id = 0 /\ NoWork.plugin = 0 /\ NoWork.claimed = {}
      /\ NoWork.index = << >>
  BY DEF NoWork
<1>2. DOMAIN << >> = {}
  OBVIOUS
<1>3. DOMAIN NoWork.index = {}
  BY <1>1, <1>2
<1> QED BY <1>1, <1>3 DEF WorkShape, WorkPcs

LEMMA RowParts ==
  ASSUME NEW r \in ExtRows
  PROVE  /\ r.kind \in {"none", "builtin", "extension"} /\ r.plugin \in Nat
         /\ r.name \in Text /\ r.action \in Text /\ r.edit \in Text
         /\ DOMAIN r = {"kind", "name", "plugin", "action", "edit"}
         /\ r.kind = "none" => r = NoRow
         /\ r.kind = "builtin" => NoAction(r)
BY DEF ExtRows, ExtRowsOf

LEMMA TableParts ==
  ASSUME rows \in Seq(ExtRows)
  PROVE  /\ Len(rows) \in Nat /\ Ids = 1..Len(rows) /\ Ids \subseteq Nat \ {0}
         /\ \A i \in Ids : rows[i] \in ExtRows
BY LenProperties, ElementOfSeq DEF Ids

\* A row written over.
LEMMA RowIsSet ==
  ASSUME rows \in Seq(ExtRows), NEW i \in Ids, NEW r \in ExtRows, rows' = [rows EXCEPT ![i] = r]
  PROVE  /\ rows' \in Seq(ExtRows) /\ Len(rows') = Len(rows) /\ Ids' = Ids
         /\ rows'[i] = r /\ \A j \in Ids \ {i} : rows'[j] = rows[j]
<1>1. i \in 1..Len(rows) /\ Ids = 1..Len(rows)
  BY TableParts
<1>2. rows' \in Seq(ExtRows) /\ Len(rows') = Len(rows)
      /\ \A j \in 1..Len(rows) : rows'[j] = IF j = i THEN r ELSE rows[j]
  BY <1>1, ExceptSeq
<1>3. Ids' = 1..Len(rows')
  BY <1>2, LenProperties DEF Ids
<1> QED BY <1>1, <1>2, <1>3

\* A row added at the end.
LEMMA RowIsAdded ==
  ASSUME rows \in Seq(ExtRows), NEW r \in ExtRows, rows' = Append(rows, r)
  PROVE  /\ rows' \in Seq(ExtRows) /\ Len(rows') = Len(rows) + 1
         /\ Len(rows) + 1 \notin Ids /\ Ids' = Ids \cup {Len(rows) + 1}
         /\ rows'[Len(rows) + 1] = r /\ \A j \in Ids : rows'[j] = rows[j]
<1>1. Len(rows) \in Nat /\ Ids = 1..Len(rows)
  BY TableParts
<1>2. rows' \in Seq(ExtRows) /\ Len(rows') = Len(rows) + 1
      /\ (\A j \in 1..Len(rows) : rows'[j] = rows[j]) /\ rows'[Len(rows) + 1] = r
  BY AppendProperties
<1>3. Ids' = 1..Len(rows')
  BY <1>2, LenProperties DEF Ids
<1>4. 1..Len(rows) + 1 = (1..Len(rows)) \cup {Len(rows) + 1} /\ Len(rows) + 1 \notin 1..Len(rows)
  BY <1>1
<1> QED BY <1>1, <1>2, <1>3, <1>4

LEMMA ShapeGrows ==
  ASSUME NEW w, NEW among, NEW more, among \subseteq more, WorkShape(w, among)
  PROVE  WorkShape(w, more)
BY DEF WorkShape

\* One request moves, the others stay where they are.
LEMMA OneMoves ==
  ASSUME XBase, NEW s \in Servers, NEW w, work' = [work EXCEPT ![s] = w]
  PROVE  DOMAIN work' = Servers /\ work'[s] = w /\ \A t \in Servers \ {s} : work'[t] = work[t]
BY DEF XBase

LEMMA NamedLists ==
  ASSUME NEW list \in Seq(ReportedAction)
  PROVE  /\ Named(list) \in Seq(ReportedAction) /\ AllNamed(Named(list))
         /\ AllNamed(list) => Named(list) = list
<1> DEFINE S == {n \in DOMAIN list : ~Nameless(list[n])}
           at == InOrder(S)
           k == Cardinality(S)
<1>1. DOMAIN list = 1..Len(list) /\ Len(list) \in Nat
      /\ \A n \in DOMAIN list : list[n] \in ReportedAction
  BY LenProperties, ElementOfSeq
<1>2. S \subseteq Nat /\ IsFiniteSet(S)
  <2>1. IsFiniteSet(1..Len(list))
    BY <1>1, FS_Interval
  <2>2. S \in SUBSET (1..Len(list))
    BY <1>1
  <2>3. S \subseteq Nat
    BY <1>1
  <2> HIDE DEF S
  <2>4. IsFiniteSet(S)
    BY <2>1, <2>2, FS_Subset
  <2> QED BY <2>3, <2>4
<1>3. k \in Nat /\ at \in [1..k -> S]
  BY <1>2, InOrderLists
<1>4. Named(list) = [n \in 1..k |-> list[at[n]]]
  BY <1>3 DEF Named
<1>5. \A n \in 1..k : at[n] \in DOMAIN list /\ ~Nameless(list[at[n]])
  BY <1>3
<1> HIDE DEF at, k
<1>6. Named(list) \in [1..k -> ReportedAction]
  BY <1>1, <1>4, <1>5
<1>7. Named(list) \in Seq(ReportedAction)
  BY <1>3, <1>6, SeqDef
<1>8. AllNamed(Named(list))
  BY <1>4, <1>5 DEF AllNamed
<1>9. ASSUME AllNamed(list)
      PROVE  Named(list) = list
  <2>1. S = 1..Len(list)
    BY <1>1, <1>9 DEF AllNamed
  <2>2. at = [n \in 1..Len(list) |-> n]
    BY <1>1, <2>1, InOrderOfAll DEF at
  <2>3. Named(list) = [n \in 1..Len(list) |-> list[n]]
    BY <2>2 DEF Named, at
  <2>4. list \in [1..Len(list) -> ReportedAction]
    BY LenProperties
  <2> QED BY <2>3, <2>4
<1> QED BY <1>7, <1>8, <1>9
-----------------------------------------------------------------------------
(* What a sync has written, in any table t.                                *)

IsAction(P, r) == r.plugin = P /\ ~NoAction(r)

\* The first d of the list have a row each, and besides those rows and the ones
\* in spare no row is one of the plugin's actions.
Written(t, P, list, d, spare) ==
  \E r \in [1..d -> DOMAIN t] :
    /\ \A j, k \in 1..d : r[j] = r[k] => j = k
    /\ \A j \in 1..d : t[r[j]] = ActionRow(P, list[j]) /\ r[j] \notin spare
    /\ \A i \in DOMAIN t : IsAction(P, t[i]) => i \in spare \/ \E j \in 1..d : r[j] = i

LEMMA WrittenNext ==
  ASSUME NEW t, NEW u, NEW P, NEW list, NEW d \in Nat, NEW spare, Written(t, P, list, d, spare),
         NEW i, i \in spare \/ i \notin DOMAIN t, DOMAIN u = DOMAIN t \cup {i},
         u[i] = ActionRow(P, list[d + 1]), \A k \in DOMAIN t \ {i} : u[k] = t[k]
  PROVE  Written(u, P, list, d + 1, spare \ {i})
<1>1. PICK r \in [1..d -> DOMAIN t] :
        /\ \A j, k \in 1..d : r[j] = r[k] => j = k
        /\ \A j \in 1..d : t[r[j]] = ActionRow(P, list[j]) /\ r[j] \notin spare
        /\ \A k \in DOMAIN t : IsAction(P, t[k]) => k \in spare \/ \E j \in 1..d : r[j] = k
  BY DEF Written
<1> DEFINE q == [j \in 1..d + 1 |-> IF j = d + 1 THEN i ELSE r[j]]
<1>2. 1..d + 1 = (1..d) \cup {d + 1} /\ d + 1 \notin 1..d
  OBVIOUS
<1>3. \A j \in 1..d : q[j] = r[j] /\ r[j] \in DOMAIN t /\ r[j] # i
  BY <1>1, <1>2
<1>4. q[d + 1] = i
  BY <1>2
<1>5. q \in [1..d + 1 -> DOMAIN u]
  BY <1>1, <1>2
<1> HIDE DEF q
<1>6. \A j, k \in 1..d + 1 : q[j] = q[k] => j = k
  BY <1>1, <1>2, <1>3, <1>4
<1>7. \A j \in 1..d + 1 : u[q[j]] = ActionRow(P, list[j]) /\ q[j] \notin spare \ {i}
  BY <1>1, <1>2, <1>3, <1>4
<1>8. ASSUME NEW k \in DOMAIN u, IsAction(P, u[k])
      PROVE  k \in spare \ {i} \/ \E j \in 1..d + 1 : q[j] = k
  <2>1. CASE k = i
    BY <1>2, <1>4, <2>1
  <2>2. CASE k # i
    <3>1. k \in DOMAIN t /\ u[k] = t[k]
      BY <2>2
    <3>2. k \in spare \/ \E j \in 1..d : r[j] = k
      BY <1>1, <1>8, <3>1
    <3> QED BY <1>2, <1>3, <2>2, <3>2
  <2> QED BY <2>1, <2>2
<1> QED BY <1>5, <1>6, <1>7, <1>8 DEF Written

LEMMA WrittenLess ==
  ASSUME NEW t, NEW u, NEW P, NEW list, NEW d \in Nat, NEW spare, Written(t, P, list, d, spare),
         NEW i \in spare, DOMAIN u = DOMAIN t, ~IsAction(P, u[i]),
         \A k \in DOMAIN t \ {i} : u[k] = t[k]
  PROVE  Written(u, P, list, d, spare \ {i})
<1>1. PICK r \in [1..d -> DOMAIN t] :
        /\ \A j, k \in 1..d : r[j] = r[k] => j = k
        /\ \A j \in 1..d : t[r[j]] = ActionRow(P, list[j]) /\ r[j] \notin spare
        /\ \A k \in DOMAIN t : IsAction(P, t[k]) => k \in spare \/ \E j \in 1..d : r[j] = k
  BY DEF Written
<1>2. \A j \in 1..d : r[j] \in DOMAIN t \ {i}
  BY <1>1
<1>3. \A j \in 1..d : u[r[j]] = ActionRow(P, list[j]) /\ r[j] \notin spare \ {i}
  BY <1>1, <1>2
<1>4. \A k \in DOMAIN u : IsAction(P, u[k]) => k \in spare \ {i} \/ \E j \in 1..d : r[j] = k
  <2> SUFFICES ASSUME NEW k \in DOMAIN u, IsAction(P, u[k])
               PROVE  k \in spare \ {i} \/ \E j \in 1..d : r[j] = k
    OBVIOUS
  <2>1. k # i
    OBVIOUS
  <2>2. k \in DOMAIN t /\ u[k] = t[k]
    BY <2>1
  <2> QED BY <1>1, <2>1, <2>2
<1>5. r \in [1..d -> DOMAIN u]
  OBVIOUS
<1> QED BY <1>1, <1>3, <1>4, <1>5 DEF Written

LEMMA WrittenStays ==
  ASSUME NEW t, NEW u, NEW P, NEW list, NEW d \in Nat, NEW spare, Written(t, P, list, d, spare),
         DOMAIN t \subseteq DOMAIN u,
         \A j \in 1..d : IsAction(P, ActionRow(P, list[j])),
         \A k \in DOMAIN t : IsAction(P, t[k]) => u[k] = t[k],
         \A k \in DOMAIN u : IsAction(P, u[k]) => k \in DOMAIN t /\ IsAction(P, t[k])
  PROVE  Written(u, P, list, d, spare)
<1>1. PICK r \in [1..d -> DOMAIN t] :
        /\ \A j, k \in 1..d : r[j] = r[k] => j = k
        /\ \A j \in 1..d : t[r[j]] = ActionRow(P, list[j]) /\ r[j] \notin spare
        /\ \A k \in DOMAIN t : IsAction(P, t[k]) => k \in spare \/ \E j \in 1..d : r[j] = k
  BY DEF Written
<1>2. \A j \in 1..d : u[r[j]] = ActionRow(P, list[j]) /\ r[j] \notin spare
  <2> SUFFICES ASSUME NEW j \in 1..d PROVE u[r[j]] = ActionRow(P, list[j])
    BY <1>1
  <2>1. r[j] \in DOMAIN t /\ t[r[j]] = ActionRow(P, list[j])
    BY <1>1
  <2> QED BY <2>1
<1>3. r \in [1..d -> DOMAIN u]
  BY <1>1
<1> QED BY <1>1, <1>2, <1>3 DEF Written

-----------------------------------------------------------------------------
(* The parts of the invariant                                              *)

\* How many of the actions a sync has written.
Told(w) == Len(w.asked) - Len(w.rest)
Spare(w) == {w.index[n][1] : n \in Unclaimed(w)}

\* A sync that is alone, in the table t: what is told is written, and the rows no
\* action has claimed are the plugin's other rows.
SyncFits(t, w) ==
  /\ Len(w.rest) <= Len(w.asked)
  /\ \A j \in 1..Len(w.rest) : w.rest[j] = w.asked[Told(w) + j]
  /\ \A m, n \in DOMAIN w.index : w.index[m][1] = w.index[n][1] => m = n
  /\ \A n \in Unclaimed(w) : IsAction(w.plugin, t[w.index[n][1]])
  /\ Written(t, w.plugin, w.asked, Told(w), Spare(w))

\* A sync of what the palette shows already finds each action by its method.
Resynced(t, w) ==
  /\ \A n \in DOMAIN w.index :
       /\ w.index[n][2] = t[w.index[n][1]] /\ IsAction(w.plugin, t[w.index[n][1]])
       /\ n \in w.claimed <=> \E j \in 1..Told(w) : w.asked[j].method = w.index[n][2].action
  /\ \A i \in DOMAIN t : IsAction(w.plugin, t[i]) => \E n \in DOMAIN w.index : w.index[n][1] = i

OneWorks == \A s, t \in Servers : work[s].pc # "idle" /\ work[t].pc # "idle" => s = t
WorkFits(s) ==
  LET w == work[s]
  IN /\ w.pc = "sweep" => synced.plugin = 0
     /\ w.pc = "save" /\ unread = 0 /\ w.id # 0 /\ w.body.kind = "extension"
          /\ rows[w.id].kind = "extension" /\ rows[w.id].plugin # 0
          => w.body.plugin = rows[w.id].plugin
     /\ w.pc \in {"list", "write"} /\ synced.plugin = w.plugin => w.asked = synced.list
     /\ w.pc = "write" => SyncFits(rows, w)
     /\ w.pc = "write" /\ synced.plugin = w.plugin => Resynced(rows, w)
SyncedFits ==
  /\ synced.plugin = 0 => synced = NoSync
  /\ synced.plugin # 0 =>
       /\ ~overlapping /\ synced.plugin \in Nat /\ synced.list = live.list
       /\ synced.list \in Seq(ReportedAction) /\ AllNamed(synced.list)
       /\ Written(rows, synced.plugin, synced.list, Len(synced.list), {})

BuiltinsOf(t, name) == {i \in DOMAIN t : t[i].kind = "builtin" /\ t[i].name = name}
Planted(t, name) ==
  /\ BuiltinsOf(t, name) # {}
  /\ Builtins[name] # 0 => t[Min(BuiltinsOf(t, name))].plugin # 0
OneOfEach(t) ==
  \A i, j \in DOMAIN t :
    t[i].kind = "builtin" /\ t[j].kind = "builtin" /\ t[i].name = t[j].name => i = j
\* No administrator has written a built-in.
Untouched == edited = << >>
BootFits ==
  /\ ~Serving => NobodyWorks
  /\ boot.prune # {} => boot.seed = DOMAIN Builtins
  /\ boot.prune = {} /\ boot.seed # {} => \A name \in DOMAIN Builtins \ boot.seed : Planted(rows, name)
  /\ Untouched => /\ OneOfEach(rows)
                  /\ \A name \in Retired \ boot.prune : BuiltinsOf(rows, name) = {}
EditFits == \A i \in DOMAIN edited : rows[i].kind = "builtin" => rows[i].edit = edited[i]

ExtensionsInv ==
  /\ XBase /\ BootFits /\ EditFits /\ SyncedFits
  /\ ~overlapping => OneWorks /\ \A s \in Servers : WorkFits(s)
-----------------------------------------------------------------------------
(* The operators a sync is made of.                                        *)

LEMMA ActionRows ==
  ASSUME NEW P \in Nat, NEW a \in ReportedAction, ~Nameless(a)
  PROVE  /\ ActionRow(P, a) \in ExtRows /\ ActionRow(P, a).kind = "extension"
         /\ ActionRow(P, a).plugin = P /\ ActionRow(P, a).action = a.method
         /\ ActionRow(P, a).name = NameOf(a) /\ IsAction(P, ActionRow(P, a))
         /\ [a EXCEPT !.title = NameOf(a)].method = a.method
         /\ ActionRow(P, [a EXCEPT !.title = NameOf(a)]) = ActionRow(P, a)
<1> DEFINE b == [a EXCEPT !.title = NameOf(a)]
<1>1. DOMAIN a = {"method", "title"} /\ a.method \in Text /\ a.title \in Text
  BY DEF ReportedAction
<1>2. NameOf(a) \in Text /\ b.method = a.method /\ b.title = NameOf(a)
  BY <1>1 DEF NameOf
<1>3. ActionRow(P, a) \in ExtRowsOf({"none", "builtin", "extension"})
      /\ ActionRow(P, a).kind = "extension" /\ ActionRow(P, a).plugin = P
      /\ ActionRow(P, a).action = a.method /\ ActionRow(P, a).name = NameOf(a)
  <2>1. NoRow \in ExtRowsOf({"none", "builtin", "extension"})
    BY ExtBlanks DEF ExtRows
  <2> QED BY <1>1, <1>2, <2>1 DEF ActionRow, ExtRowsOf
<1>4. ActionRow(P, a) \in ExtRows
  <2> HIDE DEF ActionRow
  <2> QED BY <1>3 DEF ExtRows
<1>5. ~NoAction(ActionRow(P, a))
  <2> HIDE DEF ActionRow
  <2> QED BY <1>3, Zenon DEF NoAction, Nameless
<1> HIDE DEF b
<1>6. NameOf(b) = NameOf(a)
  BY <1>2, Zenon DEF NameOf, Untitled, Nameless
<1>7. ActionRow(P, b) = ActionRow(P, a)
  BY <1>2, <1>6 DEF ActionRow
<1> QED BY <1>2, <1>3, <1>4, <1>5, <1>7 DEF b, IsAction

LEMMA ClaimIs ==
  ASSUME NEW index, DOMAIN index \subseteq Nat \ {0}, NEW claimed, NEW a
  PROVE  /\ Claim(index, claimed, a) \in {0} \cup (DOMAIN index \ claimed)
         /\ \A n : ByMethod(index, a) = {n} /\ n \notin claimed => Claim(index, claimed, a) = n
<1> DEFINE method == First(ByMethod(index, a)) \ claimed
           name == First(ByName(index, a)) \ claimed
<1>1. ASSUME NEW T, T \subseteq Nat PROVE First(T) \subseteq T
  BY <1>1, MinIsLeast DEF First
<1>2. ByMethod(index, a) \subseteq DOMAIN index /\ ByName(index, a) \subseteq DOMAIN index
  BY DEF ByMethod, ByName
<1>3. method \subseteq DOMAIN index \ claimed /\ name \subseteq DOMAIN index \ claimed
  BY <1>1, <1>2
<1>4. ASSUME NEW n, ByMethod(index, a) = {n}, n \notin claimed
      PROVE  method = {n}
  <2>1. n \in Nat
    BY <1>2, <1>4
  <2>2. Min({n}) = n
    BY <2>1, MinIsLeast
  <2> QED BY <1>4, <2>2 DEF First
<1>5. Claim(index, claimed, a) = IF method # {} THEN CHOOSE n \in method : TRUE
                                 ELSE IF name # {} THEN CHOOSE n \in name : TRUE ELSE 0
  BY DEF Claim
<1> HIDE DEF method, name
<1>6. Claim(index, claimed, a) \in {0} \cup (DOMAIN index \ claimed)
  BY <1>3, <1>5
<1>7. \A n : ByMethod(index, a) = {n} /\ n \notin claimed => Claim(index, claimed, a) = n
  BY <1>4, <1>5
<1> QED BY <1>6, <1>7

LEMMA ActionsAre ==
  ASSUME NEW P
  PROVE  ActionsOf(P) = {i \in Ids : IsAction(P, rows[i])}
BY DEF ActionsOf, RowsWhere, IsAction

LEMMA BuiltinsAre ==
  ASSUME NEW name
  PROVE  BuiltinNamed(name) = BuiltinsOf(rows, name)
BY DEF BuiltinNamed, BuiltinsOf, RowsWhere, Ids

LEMMA ToldNext ==
  ASSUME NEW w, NEW v, Len(w.asked) \in Nat, Len(w.rest) \in Nat \ {0},
         Len(w.rest) <= Len(w.asked), v.asked = w.asked, Len(v.rest) = Len(w.rest) - 1
  PROVE  Told(w) \in Nat /\ Told(v) = Told(w) + 1 /\ Told(w) + 1 \in 1..Len(w.asked)
<1> DEFINE x == Len(w.asked)
           y == Len(w.rest)
<1>1. /\ x \in Nat /\ y \in Nat \ {0} /\ y <= x
      /\ Told(w) = x - y /\ Told(v) = Len(v.asked) - (y - 1) /\ Len(v.asked) = x
  BY DEF Told
<1> HIDE DEF x, y
<1>2. Told(w) \in Nat /\ Told(v) = Told(w) + 1 /\ Told(w) + 1 \in 1..x
  BY ONLY <1>1
<1> QED BY <1>2 DEF x

LEMMA ToldAll ==
  ASSUME NEW w, Len(w.asked) \in Nat, Len(w.rest) = 0
  PROVE  Told(w) = Len(w.asked)
BY DEF Told

\* One more action is told; it has a row that was spare, or a new one.
\* The next action, by row n of the index or a new row, at i.
Tells(t, u, w, v, n, i) ==
  /\ Len(w.asked) \in Nat /\ Len(w.rest) \in Nat \ {0} /\ Len(v.rest) = Len(w.rest) - 1
  /\ \A j \in 1..Len(v.rest) : v.rest[j] = w.rest[j + 1]
  /\ DOMAIN w.index \subseteq Nat \ {0} /\ \A m \in DOMAIN w.index : w.index[m][1] \in DOMAIN t
  /\ n \in {0} \cup Unclaimed(w)
  /\ n # 0 => i = w.index[n][1]
  /\ n = 0 => i \notin DOMAIN t
  /\ v.asked = w.asked /\ v.index = w.index /\ v.plugin = w.plugin
  /\ v.claimed = w.claimed \cup ({n} \ {0})
  /\ DOMAIN u = DOMAIN t \cup {i} /\ u[i] = ActionRow(w.plugin, w.rest[1])
  /\ \A k \in DOMAIN t \ {i} : u[k] = t[k]

LEMMA SyncTells ==
  ASSUME NEW t, NEW u, NEW w, NEW v, NEW n, NEW i, SyncFits(t, w), Tells(t, u, w, v, n, i)
  PROVE  SyncFits(u, v) /\ Told(v) = Told(w) + 1 /\ Told(w) \in Nat
         /\ w.rest[1] = w.asked[Told(w) + 1] /\ Told(w) + 1 \in 1..Len(w.asked)
<1> USE DEF Tells
<1>1. Len(w.rest) <= Len(w.asked)
  BY DEF SyncFits
<1>2. Told(w) \in Nat /\ Told(v) = Told(w) + 1 /\ Told(w) + 1 \in 1..Len(w.asked)
  <2>1. /\ Len(w.asked) \in Nat /\ Len(w.rest) \in Nat \ {0} /\ Len(w.rest) <= Len(w.asked)
        /\ v.asked = w.asked /\ Len(v.rest) = Len(w.rest) - 1
    BY <1>1
  <2> QED BY ONLY <2>1, ToldNext
<1>3. w.rest[1] = w.asked[Told(w) + 1]
  <2>1. 1 \in 1..Len(w.rest)
    BY <1>1
  <2> QED BY <1>1, <2>1 DEF SyncFits
<1>4. ASSUME NEW j \in 1..Len(v.rest)
      PROVE  v.rest[j] = v.asked[Told(v) + j]
  <2>1. j \in Nat /\ j + 1 \in 1..Len(w.rest)
    BY <1>1
  <2>2. v.rest[j] = w.asked[Told(w) + (j + 1)]
    BY <1>1, <2>1 DEF SyncFits
  <2>3. Told(w) + (j + 1) = Told(v) + j
    BY <1>2, <2>1
  <2> QED BY <2>2, <2>3
<1>5. Unclaimed(v) = Unclaimed(w) \ {n} /\ 0 \notin Unclaimed(w)
  BY DEF Unclaimed
<1>6. Spare(v) = Spare(w) \ {i} /\ (i \in Spare(w) \/ i \notin DOMAIN t)
  <2>1. CASE n = 0
    <3>1. i \notin Spare(w)
      BY <2>1 DEF Spare, Unclaimed
    <3> QED BY <1>5, <2>1, <3>1 DEF Spare
  <2>2. CASE n # 0
    <3>1. \A m \in Unclaimed(w) : w.index[m][1] = i => m = n
      BY <2>2 DEF SyncFits, Unclaimed
    <3> QED BY <1>5, <2>2, <3>1 DEF Spare
  <2> QED BY <2>1, <2>2
<1>7. ASSUME NEW m \in Unclaimed(v)
      PROVE  IsAction(v.plugin, u[v.index[m][1]])
  <2>1. m \in Unclaimed(w) /\ w.index[m][1] \in Spare(v)
    BY <1>5 DEF Spare
  <2>2. w.index[m][1] \in DOMAIN t \ {i}
    BY <1>6, <2>1 DEF Unclaimed
  <2> QED BY <2>1, <2>2 DEF SyncFits
<1>8. Written(u, w.plugin, w.asked, Told(w) + 1, Spare(w) \ {i})
  <2>1. Written(t, w.plugin, w.asked, Told(w), Spare(w))
    BY DEF SyncFits
  <2> HIDE DEF Written, Spare, Told
  <2>2. /\ Told(w) \in Nat /\ (i \in Spare(w) \/ i \notin DOMAIN t)
        /\ u[i] = ActionRow(w.plugin, w.asked[Told(w) + 1])
        /\ DOMAIN u = DOMAIN t \cup {i} /\ \A k \in DOMAIN t \ {i} : u[k] = t[k]
    BY <1>2, <1>3, <1>6
  <2> QED BY ONLY <2>1, <2>2, WrittenNext
<1>9. Written(u, v.plugin, v.asked, Told(v), Spare(v))
  BY <1>2, <1>6, <1>8
<1>10. \A m, k \in DOMAIN v.index : v.index[m][1] = v.index[k][1] => m = k
  BY DEF SyncFits
<1>11. Len(v.rest) <= Len(v.asked)
  BY <1>1
<1> HIDE DEF Told, Spare, Unclaimed, Written, IsAction
<1> QED BY <1>2, <1>3, <1>4, <1>7, <1>9, <1>10, <1>11 DEF SyncFits

\* A stale row goes.
LEMMA SyncDrops ==
  ASSUME NEW t, NEW u, NEW w, NEW v, SyncFits(t, w),
         Len(w.rest) = 0, Len(w.asked) \in Nat, \A k \in DOMAIN w.index : w.index[k][1] \in DOMAIN t,
         NEW n \in Unclaimed(w),
         v.asked = w.asked, v.index = w.index, v.plugin = w.plugin, v.rest = w.rest,
         v.claimed = w.claimed \cup {n},
         DOMAIN u = DOMAIN t, ~IsAction(w.plugin, u[w.index[n][1]]),
         \A k \in DOMAIN t \ {w.index[n][1]} : u[k] = t[k]
  PROVE  SyncFits(u, v)
<1> DEFINE i == w.index[n][1]
<1>1. Told(w) = Told(v) /\ Told(w) \in Nat
  <2>1. /\ Len(w.asked) \in Nat /\ Len(w.rest) = 0
        /\ Len(v.asked) = Len(w.asked) /\ Len(v.rest) = 0
    OBVIOUS
  <2> QED BY ONLY <2>1, ToldAll
<1>2. Unclaimed(v) = Unclaimed(w) \ {n}
  BY DEF Unclaimed
<1>3. Spare(v) = Spare(w) \ {i} /\ i \in Spare(w)
  <2>1. \A m \in Unclaimed(w) : w.index[m][1] = i => m = n
    BY DEF SyncFits, Unclaimed
  <2> QED BY <1>2, <2>1 DEF Spare
<1>4. ASSUME NEW m \in Unclaimed(v)
      PROVE  IsAction(v.plugin, u[v.index[m][1]])
  <2>1. m \in Unclaimed(w) /\ w.index[m][1] \in Spare(v)
    BY <1>2 DEF Spare
  <2>2. w.index[m][1] \in DOMAIN t \ {i}
    BY <1>3, <2>1 DEF Unclaimed
  <2> QED BY <2>1, <2>2 DEF SyncFits
<1>5. Written(u, w.plugin, w.asked, Told(w), Spare(w) \ {i})
  <2>1. Written(t, w.plugin, w.asked, Told(w), Spare(w))
    BY DEF SyncFits
  <2> HIDE DEF Written, Spare, Told
  <2> QED BY <1>1, <1>3, <2>1, WrittenLess
<1>6. Written(u, v.plugin, v.asked, Told(v), Spare(v))
  BY <1>1, <1>3, <1>5
<1>7. /\ Len(v.rest) <= Len(v.asked)
      /\ \A j \in 1..Len(v.rest) : v.rest[j] = v.asked[Told(v) + j]
      /\ \A m, k \in DOMAIN v.index : v.index[m][1] = v.index[k][1] => m = k
  BY <1>1 DEF SyncFits
<1> HIDE DEF Told, Spare, Unclaimed, Written, IsAction
<1> QED BY <1>4, <1>6, <1>7 DEF SyncFits

-----------------------------------------------------------------------------
(* A sync of what the palette shows already changes nothing.               *)

OneMethod(list) == \A m, n \in DOMAIN list : list[m].method = list[n].method => m = n

ShowsOnce(t, P, list) ==
  /\ \A i \in DOMAIN t : IsAction(P, t[i]) =>
       \E j \in 1..Len(list) : t[i] = ActionRow(P, list[j]) /\ t[i].action = list[j].method
  /\ \A j \in 1..Len(list) : \E i \in DOMAIN t : IsAction(P, t[i]) /\ t[i].action = list[j].method
  /\ OneMethod(list) => \A i, k \in DOMAIN t :
       IsAction(P, t[i]) /\ IsAction(P, t[k]) /\ t[i].action = t[k].action => i = k

LEMMA ShownByMethod ==
  ASSUME NEW t, NEW P \in Nat, NEW list \in Seq(ReportedAction), AllNamed(list),
         Written(t, P, list, Len(list), {})
  PROVE  ShowsOnce(t, P, list)
<1> DEFINE d == Len(list)
<1>1. /\ d \in Nat /\ DOMAIN list = 1..d
      /\ \A j \in 1..d : list[j] \in ReportedAction /\ ~Nameless(list[j])
  BY LenProperties, ElementOfSeq DEF AllNamed
<1>2. \A j \in 1..d : /\ ActionRow(P, list[j]).action = list[j].method
                      /\ IsAction(P, ActionRow(P, list[j]))
  BY <1>1, ActionRows
<1>3. PICK r \in [1..d -> DOMAIN t] :
        /\ \A j, k \in 1..d : r[j] = r[k] => j = k
        /\ \A j \in 1..d : t[r[j]] = ActionRow(P, list[j]) /\ r[j] \notin {}
        /\ \A i \in DOMAIN t : IsAction(P, t[i]) => i \in {} \/ \E j \in 1..d : r[j] = i
  BY DEF Written
<1> HIDE DEF d
<1>4. \A i \in DOMAIN t : IsAction(P, t[i]) =>
        \E j \in 1..d : r[j] = i /\ t[i] = ActionRow(P, list[j]) /\ t[i].action = list[j].method
  BY <1>2, <1>3
<1>5. \A j \in 1..d : r[j] \in DOMAIN t /\ IsAction(P, t[r[j]]) /\ t[r[j]].action = list[j].method
  BY <1>2, <1>3
<1>6. ASSUME OneMethod(list), NEW i \in DOMAIN t, NEW k \in DOMAIN t,
             IsAction(P, t[i]), IsAction(P, t[k]), t[i].action = t[k].action
      PROVE  i = k
  <2>1. PICK j \in 1..d : r[j] = i /\ t[i].action = list[j].method
    BY <1>4, <1>6
  <2>2. PICK l \in 1..d : r[l] = k /\ t[k].action = list[l].method
    BY <1>4, <1>6
  <2>3. j = l
    BY <1>1, <1>6, <2>1, <2>2 DEF OneMethod
  <2> QED BY <2>1, <2>2, <2>3
<1> QED BY <1>4, <1>5, <1>6 DEF d, ShowsOnce

LEMMA ResyncFinds ==
  ASSUME NEW t, NEW w, SyncFits(t, w), Resynced(t, w),
         w.asked \in Seq(ReportedAction), OneMethod(w.asked), ShowsOnce(t, w.plugin, w.asked),
         DOMAIN w.index \subseteq Nat \ {0}, \A n \in DOMAIN w.index : w.index[n][1] \in DOMAIN t,
         NEW a, a.method = w.asked[Told(w) + 1].method,
         Told(w) \in Nat, Told(w) + 1 \in 1..Len(w.asked)
  PROVE  LET n == Claim(w.index, w.claimed, a)
         IN /\ n \in DOMAIN w.index /\ w.index[n][2].action = a.method
            /\ t[w.index[n][1]] = ActionRow(w.plugin, w.asked[Told(w) + 1])
            /\ \A m \in DOMAIN w.index : w.index[m][2].action = a.method => m = n
<1>1. PICK i \in DOMAIN t : IsAction(w.plugin, t[i]) /\ t[i].action = a.method
  BY DEF ShowsOnce
<1>2. PICK n \in DOMAIN w.index : w.index[n][1] = i
  BY <1>1 DEF Resynced
<1>3. w.index[n][2].action = a.method
  BY <1>1, <1>2 DEF Resynced
<1>4. ASSUME NEW m \in DOMAIN w.index, w.index[m][2].action = a.method
      PROVE  m = n
  <2>1. /\ w.index[m][1] \in DOMAIN t /\ IsAction(w.plugin, t[w.index[m][1]])
        /\ t[w.index[m][1]].action = a.method
    BY <1>4 DEF Resynced
  <2>2. w.index[m][1] = i
    BY <1>1, <2>1 DEF ShowsOnce
  <2> QED BY <1>2, <2>2 DEF SyncFits
<1>5. ByMethod(w.index, a) = {n}
  BY <1>3, <1>4 DEF ByMethod
<1>6. n \notin w.claimed
  <2> SUFFICES ASSUME n \in w.claimed PROVE FALSE
    OBVIOUS
  <2>1. PICK j \in 1..Told(w) : w.asked[j].method = a.method
    BY <1>3 DEF Resynced
  <2>2. j \in DOMAIN w.asked /\ Told(w) + 1 \in DOMAIN w.asked
    BY LenProperties
  <2>3. j = Told(w) + 1
    BY <2>1, <2>2 DEF OneMethod
  <2> QED BY <2>3
<1>7. Claim(w.index, w.claimed, a) = n
  BY <1>5, <1>6, ClaimIs
<1>8. t[i] = ActionRow(w.plugin, w.asked[Told(w) + 1])
  <2>1. PICK j \in 1..Len(w.asked) :
          t[i] = ActionRow(w.plugin, w.asked[j]) /\ t[i].action = w.asked[j].method
    BY <1>1 DEF ShowsOnce
  <2>2. j \in DOMAIN w.asked /\ Told(w) + 1 \in DOMAIN w.asked
    BY LenProperties
  <2>3. j = Told(w) + 1
    BY <1>1, <2>1, <2>2 DEF OneMethod
  <2> QED BY <2>1, <2>3
<1> QED BY <1>2, <1>3, <1>4, <1>7, <1>8

LEMMA ResyncTells ==
  ASSUME NEW t, NEW u, NEW w, NEW v, Resynced(t, w), NEW n \in DOMAIN w.index, n # 0,
         Told(w) \in Nat, Told(v) = Told(w) + 1,
         w.index[n][2].action = w.asked[Told(w) + 1].method,
         \A m \in DOMAIN w.index : w.index[m][2].action = w.index[n][2].action => m = n,
         v.asked = w.asked, v.index = w.index, v.plugin = w.plugin,
         v.claimed = w.claimed \cup ({n} \ {0}),
         DOMAIN u = DOMAIN t, \A k \in DOMAIN t : u[k] = t[k],
         \A m \in DOMAIN w.index : w.index[m][1] \in DOMAIN t
  PROVE  Resynced(u, v)
<1>1. 1..Told(v) = (1..Told(w)) \cup {Told(w) + 1}
  OBVIOUS
<1>2. ASSUME NEW m \in DOMAIN w.index
      PROVE  m \in v.claimed <=> \E j \in 1..Told(v) : w.asked[j].method = w.index[m][2].action
  <2>1. m \in w.claimed <=> \E j \in 1..Told(w) : w.asked[j].method = w.index[m][2].action
    BY DEF Resynced
  <2>2. m = n <=> w.index[m][2].action = w.asked[Told(w) + 1].method
    OBVIOUS
  <2> QED BY <1>1, <2>1, <2>2
<1>3. ASSUME NEW m \in DOMAIN w.index
      PROVE  w.index[m][2] = u[w.index[m][1]] /\ IsAction(w.plugin, u[w.index[m][1]])
  BY DEF Resynced
<1>4. \A i \in DOMAIN u : IsAction(w.plugin, u[i]) => \E m \in DOMAIN w.index : w.index[m][1] = i
  BY DEF Resynced
<1> QED BY <1>2, <1>3, <1>4 DEF Resynced

LEMMA ResyncLeaves ==
  ASSUME NEW t, NEW w, SyncFits(t, w), Resynced(t, w), Len(w.rest) = 0,
         w.asked \in Seq(ReportedAction), ShowsOnce(t, w.plugin, w.asked),
         \A n \in DOMAIN w.index : w.index[n][1] \in DOMAIN t
  PROVE  Unclaimed(w) = {}
<1>1. Told(w) = Len(w.asked)
  <2>1. Len(w.asked) \in Nat
    BY LenProperties
  <2>2. Len(w.rest) = 0
    OBVIOUS
  <2> QED BY ONLY <2>1, <2>2, ToldAll
<1>2. ASSUME NEW n \in DOMAIN w.index PROVE n \in w.claimed
  <2>1. /\ w.index[n][1] \in DOMAIN t /\ IsAction(w.plugin, t[w.index[n][1]])
        /\ w.index[n][2] = t[w.index[n][1]]
    BY DEF Resynced
  <2>2. PICK j \in 1..Len(w.asked) : t[w.index[n][1]].action = w.asked[j].method
    BY <2>1 DEF ShowsOnce
  <2> QED BY <1>1, <2>1, <2>2 DEF Resynced
<1> QED BY <1>2 DEF Unclaimed
-----------------------------------------------------------------------------
(* What each action leaves.                                                *)

LEMMA BeginIs ==
  ASSUME XBase, NEW s \in Servers, NEW i \in 0..MaxRows,
         \/ \E body \in ExtBodies : BeginSave(s, i, body) \/ BeginSaveUnread(s, i, body)
         \/ BeginDelete(s, i) \/ BeginSync(s, i)
  PROVE  /\ Serving /\ (overlapping \/ NobodyWorks) /\ work[s].pc = "idle"
         /\ UNCHANGED <<overlapping, rows, live, boot, crashes, synced, edited>>
         /\ begun' = begun + 1 /\ (unread' = unread \/ unread' = unread + 1)
         /\ DOMAIN work' = Servers /\ \A t \in Servers \ {s} : work'[t] = work[t]
         /\ WorkShape(work'[s], Ids) /\ work'[s].pc \in {"save", "delete", "ask"}
         /\ work'[s].pc = "save" /\ unread' = 0 /\ work'[s].id # 0
              /\ work'[s].body.kind = "extension" /\ rows[work'[s].id].plugin # 0
              => work'[s].body.plugin = rows[work'[s].id].plugin
<1>1. /\ begun \in Nat /\ unread \in Nat /\ rows \in Seq(ExtRows) /\ Ids \subseteq Nat \ {0}
      /\ \A j \in Ids : rows[j] \in ExtRows /\ rows[j].plugin \in Nat
  BY TableParts, RowParts DEF XBase
<1>2. ASSUME NEW w, Takes(s, w)
      PROVE  /\ Serving /\ (overlapping \/ NobodyWorks) /\ work[s].pc = "idle"
             /\ begun' = begun + 1 /\ work'[s] = w
             /\ DOMAIN work' = Servers /\ \A t \in Servers \ {s} : work'[t] = work[t]
  BY <1>2, OneMoves DEF Takes
<1>3. ASSUME NEW body \in ExtBodies, NEW p \in Nat
      PROVE  /\ [body EXCEPT !.plugin = p] \in ExtRows
             /\ [body EXCEPT !.plugin = p].kind = body.kind /\ body.kind # "none"
             /\ [body EXCEPT !.plugin = p].plugin = p
  <2>1. body \in ExtRowsOf({"builtin", "extension"}) /\ (body.kind = "builtin" => NoAction(body))
    BY ExtensionData
  <2>2. /\ [body EXCEPT !.plugin = p] \in ExtRowsOf({"none", "builtin", "extension"})
        /\ [body EXCEPT !.plugin = p].kind = body.kind /\ body.kind # "none"
        /\ [body EXCEPT !.plugin = p].plugin = p
        /\ [body EXCEPT !.plugin = p].action = body.action
    BY <2>1 DEF ExtRowsOf
  <2> QED BY <2>1, <2>2, ActionsAlike DEF ExtRows
<1>4. ASSUME NEW b \in ExtRows, b.kind # "none", NEW j \in Ids \cup {0}
      PROVE  LET w == [NoWork EXCEPT !.pc = "save", !.id = j, !.body = b]
             IN WorkShape(w, Ids) /\ w.pc = "save" /\ w.id = j /\ w.body = b
  <2> DEFINE w == [NoWork EXCEPT !.pc = "save", !.id = j, !.body = b]
  <2>1. /\ DOMAIN w = {"pc", "id", "plugin", "body", "asked", "rest", "index", "claimed"}
        /\ w.pc = "save" /\ w.id = j /\ w.body = b /\ w.plugin = NoWork.plugin
        /\ w.claimed = NoWork.claimed /\ w.index = NoWork.index
    BY WorkBlank
  <2> HIDE DEF w
  <2> QED BY <1>4, <2>1, WorkBlank DEF WorkShape, WorkPcs, w
<1>5. CASE \E body \in ExtBodies : BeginSave(s, i, body) \/ BeginSaveUnread(s, i, body)
  <2>1. PICK body \in ExtBodies : BeginSave(s, i, body) \/ BeginSaveUnread(s, i, body)
    BY <1>5
  <2>2. CASE BeginSave(s, i, body)
    <3> DEFINE existing == IF i = 0 THEN NoRow ELSE rows[i]
               plugin == IF body.kind = "extension" THEN ResolvePluginID(existing) ELSE body.plugin
    <3>1. i \in Ids \cup {0} /\ existing.plugin \in Nat /\ (i # 0 => existing = rows[i])
      <4>1. i \in Ids \cup {0}
        BY <2>2, Zenon DEF BeginSave
      <4>2. existing = IF i = 0 THEN NoRow ELSE rows[i]
        OBVIOUS
      <4> HIDE DEF existing
      <4> QED BY <1>1, <4>1, <4>2, ExtBlanks
    <3>2. plugin \in Nat /\ (body.kind = "extension" /\ existing.plugin # 0 => plugin = existing.plugin)
      <4>1. body.plugin \in Nat
        BY ExtensionData DEF ExtRowsOf
      <4>2. ResolvePluginID(existing) \in Nat
            /\ (existing.plugin # 0 => ResolvePluginID(existing) = existing.plugin)
        BY <1>1, <3>1 DEF ResolvePluginID, NewPluginID
      <4> QED BY <4>1, <4>2
    <3>3. /\ Takes(s, [NoWork EXCEPT !.pc = "save", !.id = i, !.body = [body EXCEPT !.plugin = plugin]])
          /\ UNCHANGED <<overlapping, rows, live, boot, crashes, unread, synced, edited>>
      BY <2>2 DEF BeginSave
    <3> HIDE DEF existing, plugin
    <3>4. /\ work'[s].pc = "save" /\ work'[s].id = i
          /\ work'[s].body.kind = body.kind /\ work'[s].body.plugin = plugin
          /\ WorkShape(work'[s], Ids)
      <4> DEFINE b == [body EXCEPT !.plugin = plugin]
      <4>1. b \in ExtRows /\ b.kind = body.kind /\ b.kind # "none" /\ b.plugin = plugin
        BY <1>3, <3>2
      <4>2. Takes(s, [NoWork EXCEPT !.pc = "save", !.id = i, !.body = b])
        BY <3>3
      <4> HIDE DEF b
      <4> DEFINE v == [NoWork EXCEPT !.pc = "save", !.id = i, !.body = b]
      <4>3. work'[s] = v
        BY <1>2, <4>2
      <4>4. WorkShape(v, Ids) /\ v.pc = "save" /\ v.id = i /\ v.body = b
        <5>1. i \in Ids \cup {0} /\ b \in ExtRows /\ b.kind # "none"
          BY <3>1, <4>1
        <5> QED BY ONLY <1>4, <5>1
      <4> HIDE DEF v
      <4> QED BY <4>1, <4>3, <4>4
    <3> QED BY <1>2, <3>1, <3>2, <3>3, <3>4
  <2>3. CASE BeginSaveUnread(s, i, body)
    <3>1. /\ i \in Ids /\ unread' = unread + 1 /\ NewPluginID \in Nat
          /\ Takes(s, [NoWork EXCEPT !.pc = "save", !.id = i,
                                     !.body = [body EXCEPT !.plugin = NewPluginID]])
          /\ UNCHANGED <<overlapping, rows, live, boot, crashes, synced, edited>>
      <4>1. NewPluginID \in Nat
        BY <1>1 DEF NewPluginID
      <4> QED BY <2>3, <4>1, Zenon DEF BeginSaveUnread
    <3>2. WorkShape(work'[s], Ids) /\ work'[s].pc = "save" /\ unread' # 0
      <4> DEFINE b == [body EXCEPT !.plugin = NewPluginID]
      <4>1. b \in ExtRows /\ b.kind = body.kind /\ b.kind # "none"
        BY <1>3, <3>1
      <4>2. Takes(s, [NoWork EXCEPT !.pc = "save", !.id = i, !.body = b]) /\ unread' # 0
        BY <1>1, <3>1
      <4> HIDE DEF b
      <4> DEFINE v == [NoWork EXCEPT !.pc = "save", !.id = i, !.body = b]
      <4>3. work'[s] = v
        BY <1>2, <4>2
      <4>4. WorkShape(v, Ids) /\ v.pc = "save" /\ v.id = i /\ v.body = b
        <5>1. i \in Ids \cup {0} /\ b \in ExtRows /\ b.kind # "none"
          BY <3>1, <4>1
        <5> QED BY ONLY <1>4, <5>1
      <4> HIDE DEF v
      <4> QED BY <4>2, <4>3, <4>4
    <3> QED BY <1>2, <3>1, <3>2
  <2> QED BY <2>1, <2>2, <2>3
<1>6. CASE BeginDelete(s, i)
  <2> DEFINE w == [NoWork EXCEPT !.pc = "delete", !.id = i, !.body = rows[i]]
  <2>1. i \in Ids /\ Takes(s, w)
        /\ UNCHANGED <<overlapping, rows, live, boot, crashes, unread, synced, edited>>
    BY <1>6 DEF BeginDelete
  <2>2. /\ DOMAIN w = {"pc", "id", "plugin", "body", "asked", "rest", "index", "claimed"}
        /\ w.pc = "delete" /\ w.id = i /\ w.plugin = NoWork.plugin
        /\ w.claimed = NoWork.claimed /\ w.index = NoWork.index
    BY WorkBlank
  <2> HIDE DEF w
  <2>3. WorkShape(w, Ids)
    BY <2>1, <2>2, WorkBlank DEF WorkShape, WorkPcs
  <2> QED BY <1>2, <2>1, <2>2, <2>3
<1>7. CASE BeginSync(s, i)
  <2> DEFINE w == [NoWork EXCEPT !.pc = "ask", !.id = i, !.plugin = rows[i].plugin]
  <2>1. i \in Ids /\ Takes(s, w) /\ rows[i].plugin # 0
        /\ UNCHANGED <<overlapping, rows, live, boot, crashes, unread, synced, edited>>
    BY <1>7 DEF BeginSync
  <2>2. /\ DOMAIN w = {"pc", "id", "plugin", "body", "asked", "rest", "index", "claimed"}
        /\ w.pc = "ask" /\ w.id = i /\ w.plugin = rows[i].plugin
        /\ w.claimed = NoWork.claimed /\ w.index = NoWork.index
    BY WorkBlank
  <2> HIDE DEF w
  <2>3. WorkShape(w, Ids)
    BY <1>1, <2>1, <2>2, WorkBlank DEF WorkShape, WorkPcs
  <2> QED BY <1>2, <2>1, <2>2, <2>3
<1> QED BY <1>5, <1>6, <1>7

LEMMA SaveIs ==
  ASSUME XBase, NEW s \in Servers, Save(s)
  PROVE  LET w == work[s]
             i == IF w.id = 0 THEN Len(rows) + 1 ELSE w.id
         IN /\ w.pc = "save" /\ w.body \in ExtRows
            /\ rows' \in Seq(ExtRows) /\ Len(rows') <= MaxRows /\ Ids' = Ids \cup {i}
            /\ rows'[i] = w.body /\ (\A j \in Ids \ {i} : rows'[j] = rows[j])
            /\ (w.id = 0 => i \notin Ids)
            /\ synced' = NoSync /\ work'[s] = NoWork
            /\ DOMAIN work' = Servers /\ (\A t \in Servers \ {s} : work'[t] = work[t])
            /\ UNCHANGED <<overlapping, live, boot, begun, crashes, unread>>
            /\ (w.body.kind # "builtin" => edited' = edited)
            /\ (w.body.kind = "builtin" =>
                  /\ DOMAIN edited' = DOMAIN edited \cup {i} /\ edited'[i] = w.body.edit
                  /\ \A k \in DOMAIN edited \ {i} : edited'[k] = edited[k])
<1> DEFINE w == work[s]
           i == IF w.id = 0 THEN Len(rows) + 1 ELSE w.id
<1>1. /\ w.pc = "save" /\ i <= MaxRows
      /\ rows' = IF w.id = 0 THEN Append(rows, w.body) ELSE [rows EXCEPT ![i] = w.body]
      /\ edited' = (IF w.body.kind # "builtin" THEN edited
                    ELSE [k \in DOMAIN edited \cup {i} |-> IF k = i THEN w.body.edit ELSE edited[k]])
      /\ synced' = NoSync /\ work' = [work EXCEPT ![s] = NoWork]
      /\ UNCHANGED <<overlapping, live, boot, begun, crashes, unread>>
  BY DEF Save, Done, Proceeds
<1>2. rows \in Seq(ExtRows) /\ Len(rows) <= MaxRows /\ w.body \in ExtRows /\ w.id \in Ids \cup {0}
  BY <1>1 DEF XBase, WorkShape
<1>3. DOMAIN work' = Servers /\ work'[s] = NoWork /\ \A t \in Servers \ {s} : work'[t] = work[t]
  BY <1>1, OneMoves
<1> HIDE DEF w
<1>4. rows' \in Seq(ExtRows) /\ Len(rows') <= MaxRows /\ Ids' = Ids \cup {i}
      /\ rows'[i] = w.body /\ (\A j \in Ids \ {i} : rows'[j] = rows[j]) /\ (w.id = 0 => i \notin Ids)
  <2>1. CASE w.id = 0
    BY <1>1, <1>2, <2>1, RowIsAdded
  <2>2. CASE w.id # 0
    <3>1. i \in Ids /\ rows' = [rows EXCEPT ![i] = w.body]
      BY <1>1, <1>2, <2>2
    <3> HIDE DEF i
    <3> QED BY <1>2, <2>2, <3>1, RowIsSet
  <2> QED BY <2>1, <2>2
<1> HIDE DEF i
<1>5. w.body.kind = "builtin" =>
        /\ DOMAIN edited' = DOMAIN edited \cup {i} /\ edited'[i] = w.body.edit
        /\ \A k \in DOMAIN edited \ {i} : edited'[k] = edited[k]
  BY <1>1
<1> QED BY <1>1, <1>2, <1>3, <1>4, <1>5 DEF w, i

LEMMA DeleteIs ==
  ASSUME XBase, NEW s \in Servers, Delete(s)
  PROVE  LET w == work[s]
         IN /\ w.pc = "delete" /\ w.id \in Ids
            /\ rows' \in Seq(ExtRows) /\ Len(rows') <= MaxRows /\ Ids' = Ids
            /\ rows'[w.id] = NoRow /\ (\A j \in Ids \ {w.id} : rows'[j] = rows[j])
            /\ synced' = NoSync /\ WorkShape(work'[s], Ids) /\ work'[s].pc \in {"idle", "sweep"}
            /\ DOMAIN work' = Servers /\ (\A t \in Servers \ {s} : work'[t] = work[t])
            /\ UNCHANGED <<overlapping, live, boot, begun, crashes, unread, edited>>
<1> DEFINE w == work[s]
<1>1. /\ w.pc = "delete" /\ rows' = [rows EXCEPT ![w.id] = NoRow] /\ synced' = NoSync
      /\ (work' = [work EXCEPT ![s] = [w EXCEPT !.pc = "sweep"]] \/ work' = [work EXCEPT ![s] = NoWork])
      /\ UNCHANGED <<overlapping, live, boot, begun, crashes, unread, edited>>
  BY DEF Delete, Done, Proceeds
<1>2. WorkShape(w, Ids) /\ rows \in Seq(ExtRows) /\ Len(rows) <= MaxRows
  BY DEF XBase
<1>3. w.id \in Ids
  BY <1>1, <1>2 DEF WorkShape
<1>4. /\ rows' \in Seq(ExtRows) /\ Len(rows') <= MaxRows /\ Ids' = Ids
      /\ rows'[w.id] = NoRow /\ (\A j \in Ids \ {w.id} : rows'[j] = rows[j])
  <2> HIDE DEF w
  <2> QED BY <1>1, <1>2, <1>3, ExtBlanks, RowIsSet
<1>5. DOMAIN work' = Servers /\ (\A t \in Servers \ {s} : work'[t] = work[t])
      /\ (work'[s] = [w EXCEPT !.pc = "sweep"] \/ work'[s] = NoWork)
  BY <1>1, OneMoves
<1>6. WorkShape([w EXCEPT !.pc = "sweep"], Ids) /\ [w EXCEPT !.pc = "sweep"].pc = "sweep"
  <2> HIDE DEF w
  <2> QED BY <1>1, <1>2, <1>3 DEF WorkShape, WorkPcs
<1> QED BY <1>1, <1>3, <1>4, <1>5, <1>6, WorkBlank

LEMMA SweepIs ==
  ASSUME XBase, NEW s \in Servers, Sweep(s)
  PROVE  /\ work[s].pc = "sweep" /\ rows' \in Seq(ExtRows) /\ Len(rows') <= MaxRows /\ Ids' = Ids
         /\ \A j \in Ids : rows'[j] = NoRow \/ rows'[j] = rows[j]
         /\ work'[s] = NoWork
         /\ DOMAIN work' = Servers /\ (\A t \in Servers \ {s} : work'[t] = work[t])
         /\ UNCHANGED <<overlapping, live, boot, begun, crashes, unread, synced, edited>>
<1> DEFINE gone == ActionsOf(work[s].body.plugin)
<1>1. /\ work[s].pc = "sweep" /\ rows' = [i \in Ids |-> IF i \in gone THEN NoRow ELSE rows[i]]
      /\ work' = [work EXCEPT ![s] = NoWork]
      /\ UNCHANGED <<overlapping, live, boot, begun, crashes, unread, synced, edited>>
  BY DEF Sweep, Done, Proceeds
<1> HIDE DEF gone
<1>2. rows \in Seq(ExtRows) /\ Len(rows) <= MaxRows
  BY DEF XBase
<1>3. Len(rows) \in Nat /\ Ids = 1..Len(rows) /\ \A i \in Ids : rows[i] \in ExtRows
  BY <1>2, TableParts
<1>4. rows' \in [1..Len(rows) -> ExtRows]
  BY <1>1, <1>3, ExtBlanks
<1>5. rows' \in Seq(ExtRows)
  BY <1>3, <1>4, SeqDef
<1>6. Ids' = Ids
  BY <1>3, <1>4 DEF Ids
<1>7. Len(rows') = Len(rows)
  <2>1. Len(rows') \in Nat /\ DOMAIN rows' = 1..Len(rows')
    BY <1>5, LenProperties
  <2> QED BY <1>3, <1>4, <2>1
<1> QED BY <1>1, <1>2, <1>3, <1>5, <1>6, <1>7, OneMoves

LEMMA AskIs ==
  ASSUME XBase, NEW s \in Servers, Ask(s)
  PROVE  /\ work[s].pc = "ask"
         /\ WorkShape(work'[s], Ids) /\ work'[s].pc \in {"idle", "list"}
         /\ work'[s].pc = "list" => work'[s].asked = Named(live.list)
         /\ DOMAIN work' = Servers /\ (\A t \in Servers \ {s} : work'[t] = work[t])
         /\ UNCHANGED <<overlapping, rows, live, boot, begun, crashes, unread, synced, edited>>
<1> DEFINE w == work[s]
           v == [w EXCEPT !.pc = "list", !.asked = Named(live.list), !.rest = Named(live.list)]
<1>1. /\ w.pc = "ask" /\ (work' = [work EXCEPT ![s] = v] \/ work' = [work EXCEPT ![s] = NoWork])
      /\ UNCHANGED <<overlapping, rows, live, boot, begun, crashes, unread, synced, edited>>
  BY DEF Ask, Done, Proceeds
<1>2. WorkShape(w, Ids) /\ live \in Lives
  BY DEF XBase
<1>3. Named(live.list) \in Seq(ReportedAction) /\ AllNamed(Named(live.list))
  BY <1>2, ExtensionData, NamedLists
<1> HIDE DEF w
<1>4. /\ DOMAIN v = DOMAIN w /\ v.pc = "list" /\ v.asked = Named(live.list) /\ v.rest = v.asked
      /\ v.id = w.id /\ v.plugin = w.plugin /\ v.index = w.index /\ v.claimed = w.claimed
  BY <1>2 DEF WorkShape
<1> HIDE DEF v
<1>5. WorkShape(v, Ids)
  BY <1>1, <1>2, <1>3, <1>4 DEF WorkShape, WorkPcs
<1>6. DOMAIN work' = Servers /\ (\A t \in Servers \ {s} : work'[t] = work[t])
      /\ (work'[s] = v \/ work'[s] = NoWork)
  BY <1>1, OneMoves
<1> QED BY <1>1, <1>4, <1>5, <1>6, WorkBlank DEF w

LEMMA ListIs ==
  ASSUME XBase, NEW s \in Servers, List(s)
  PROVE  LET w == work[s]
             v == work'[s]
         IN /\ w.pc = "list" /\ WorkShape(v, Ids) /\ v.pc = "write"
            /\ v.plugin = w.plugin /\ v.asked = w.asked /\ v.rest = w.rest /\ v.claimed = {}
            /\ (\A n \in DOMAIN v.index : v.index[n][1] \in ActionsOf(w.plugin)
                                          /\ v.index[n][2] = rows[v.index[n][1]])
            /\ (\A m, n \in DOMAIN v.index : v.index[m][1] = v.index[n][1] => m = n)
            /\ (\A i \in ActionsOf(w.plugin) : \E n \in DOMAIN v.index : v.index[n][1] = i)
            /\ DOMAIN work' = Servers /\ (\A t \in Servers \ {s} : work'[t] = work[t])
            /\ UNCHANGED <<overlapping, rows, live, boot, begun, crashes, unread, synced, edited>>
<1> DEFINE w == work[s]
           S == ActionsOf(w.plugin)
           found == InOrder(S)
           index == [n \in DOMAIN found |-> <<found[n], rows[found[n]]>>]
           v == [w EXCEPT !.pc = "write", !.index = index]
<1>1. /\ w.pc = "list" /\ work' = [work EXCEPT ![s] = v]
      /\ UNCHANGED <<overlapping, rows, live, boot, begun, crashes, unread, synced, edited>>
  BY DEF List, Proceeds
<1>2. WorkShape(w, Ids) /\ rows \in Seq(ExtRows)
  BY DEF XBase
<1>3. S \subseteq Ids /\ S \subseteq Nat /\ IsFiniteSet(S)
  <2>1. S \in SUBSET (1..Len(rows)) /\ Ids = 1..Len(rows) /\ Len(rows) \in Nat
    BY <1>2, TableParts, ActionsAre
  <2> HIDE DEF S
  <2>2. IsFiniteSet(1..Len(rows))
    BY <2>1, FS_Interval
  <2>3. IsFiniteSet(S)
    BY <2>1, <2>2, FS_Subset
  <2> QED BY <2>1, <2>3
<1> HIDE DEF w, S
<1>4. /\ Cardinality(S) \in Nat /\ found \in [1..Cardinality(S) -> S]
      /\ \A m, n \in DOMAIN found : found[m] = found[n] => m = n
      /\ \A x \in S : \E n \in DOMAIN found : found[n] = x
  BY <1>3, InOrderLists
<1> HIDE DEF found
<1>5. DOMAIN index = DOMAIN found /\ DOMAIN index \subseteq Nat \ {0}
      /\ \A n \in DOMAIN index : index[n][1] = found[n] /\ index[n][2] = rows[found[n]] /\ found[n] \in S
  BY <1>4
<1> HIDE DEF index
<1>6. /\ DOMAIN v = DOMAIN w /\ v.pc = "write" /\ v.asked = w.asked /\ v.rest = w.rest
      /\ v.id = w.id /\ v.plugin = w.plugin /\ v.index = index /\ v.claimed = w.claimed
  BY <1>2 DEF WorkShape
<1> HIDE DEF v
<1>7. WorkShape(v, Ids) /\ v.claimed = {}
  BY <1>1, <1>2, <1>3, <1>5, <1>6 DEF WorkShape, WorkPcs
<1>8. DOMAIN work' = Servers /\ (\A t \in Servers \ {s} : work'[t] = work[t]) /\ work'[s] = v
  BY <1>1, OneMoves
<1>9. /\ \A n \in DOMAIN v.index : v.index[n][1] \in S /\ v.index[n][2] = rows[v.index[n][1]]
      /\ \A m, n \in DOMAIN v.index : v.index[m][1] = v.index[n][1] => m = n
      /\ \A i \in S : \E n \in DOMAIN v.index : v.index[n][1] = i
  BY <1>4, <1>5, <1>6
<1> QED BY <1>1, <1>6, <1>7, <1>8, <1>9 DEF w, S
LEMMA WriteIs ==
  ASSUME XBase, NEW s \in Servers, WriteAction(s)
  PROVE  LET w == work[s]
             v == work'[s]
             h == Head(w.rest)
             a == [h EXCEPT !.title = NameOf(h)]
             n == Claim(w.index, w.claimed, a)
             i == IF n = 0 THEN Len(rows) + 1 ELSE w.index[n][1]
         IN /\ w.pc = "write" /\ n \in {0} \cup Unclaimed(w)
            /\ h \in ReportedAction /\ ~Nameless(h) /\ a.method = h.method
            /\ ActionRow(w.plugin, h) \in ExtRows
            /\ rows' \in Seq(ExtRows) /\ Len(rows') <= MaxRows /\ Ids' = Ids \cup {i}
            /\ rows'[i] = ActionRow(w.plugin, h) /\ (\A j \in Ids \ {i} : rows'[j] = rows[j])
            /\ (n = 0 => i \notin Ids) /\ (n # 0 => i \in Ids)
            /\ WorkShape(v, Ids') /\ v.pc = "write"
            /\ v.plugin = w.plugin /\ v.asked = w.asked
            /\ v.index = w.index /\ v.claimed = w.claimed \cup ({n} \ {0})
            /\ Len(w.asked) \in Nat /\ Len(w.rest) \in Nat \ {0} /\ h = w.rest[1]
            /\ Len(v.rest) = Len(w.rest) - 1 /\ (\A j \in 1..Len(v.rest) : v.rest[j] = w.rest[j + 1])
            /\ DOMAIN work' = Servers /\ (\A t \in Servers \ {s} : work'[t] = work[t])
            /\ UNCHANGED <<overlapping, live, boot, begun, crashes, unread, synced, edited>>
<1> DEFINE w == work[s]
           h == Head(w.rest)
           a == [h EXCEPT !.title = NameOf(h)]
           n == Claim(w.index, w.claimed, a)
           i == IF n = 0 THEN Len(rows) + 1 ELSE w.index[n][1]
           v == [w EXCEPT !.rest = Tail(@), !.claimed = @ \cup ({n} \ {0})]
<1>1. /\ w.pc = "write" /\ w.rest # << >>
      /\ IF n # 0 THEN rows' = [rows EXCEPT ![w.index[n][1]] = ActionRow(w.plugin, a)]
         ELSE Len(rows) < MaxRows /\ rows' = Append(rows, ActionRow(w.plugin, a))
      /\ work' = [work EXCEPT ![s] = v]
      /\ UNCHANGED <<overlapping, live, boot, begun, crashes, unread, synced, edited>>
  BY DEF WriteAction, Proceeds
<1>2. WorkShape(w, Ids) /\ rows \in Seq(ExtRows) /\ Len(rows) <= MaxRows /\ MaxRows \in Nat
  BY ExtensionsOK DEF XBase
<1> HIDE DEF w, v
<1>3. /\ w.rest \in Seq(ReportedAction) /\ AllNamed(w.rest) /\ w.plugin \in Nat
      /\ DOMAIN w.index \subseteq Nat \ {0} /\ \A m \in DOMAIN w.index : w.index[m][1] \in Ids
  BY <1>1, <1>2 DEF WorkShape
<1>4. /\ h \in ReportedAction /\ ~Nameless(h)
      /\ Tail(w.rest) \in Seq(ReportedAction) /\ AllNamed(Tail(w.rest))
      /\ Len(w.rest) \in Nat \ {0} /\ h = w.rest[1] /\ Len(Tail(w.rest)) = Len(w.rest) - 1
      /\ \A j \in 1..Len(Tail(w.rest)) : Tail(w.rest)[j] = w.rest[j + 1]
  <2>1. /\ Len(w.rest) \in Nat \ {0} /\ DOMAIN w.rest = 1..Len(w.rest)
        /\ h \in ReportedAction /\ h = w.rest[1]
        /\ Tail(w.rest) \in Seq(ReportedAction) /\ Len(Tail(w.rest)) = Len(w.rest) - 1
        /\ DOMAIN Tail(w.rest) = 1..Len(Tail(w.rest))
        /\ \A j \in 1..Len(Tail(w.rest)) : Tail(w.rest)[j] = w.rest[j + 1]
    BY <1>1, <1>3, EmptySeq, LenProperties, HeadTailProperties
  <2>2. 1 \in DOMAIN w.rest /\ \A j \in DOMAIN Tail(w.rest) : j + 1 \in DOMAIN w.rest
    BY <2>1
  <2> HIDE DEF h
  <2> QED BY <1>3, <2>1, <2>2 DEF AllNamed
<1>5. /\ ActionRow(w.plugin, h) \in ExtRows /\ a.method = h.method
      /\ ActionRow(w.plugin, a) = ActionRow(w.plugin, h)
  <2> HIDE DEF h
  <2> QED BY <1>3, <1>4, ActionRows
<1> HIDE DEF a
<1>6. n \in {0} \cup Unclaimed(w) /\ Unclaimed(w) \subseteq DOMAIN w.index
  BY <1>3, ClaimIs DEF Unclaimed
<1> HIDE DEF n
<1>7. /\ rows' \in Seq(ExtRows) /\ Len(rows') <= MaxRows /\ Ids' = Ids \cup {i}
      /\ rows'[i] = ActionRow(w.plugin, h) /\ (\A j \in Ids \ {i} : rows'[j] = rows[j])
      /\ (n = 0 => i \notin Ids) /\ (n # 0 => i \in Ids)
  <2> HIDE DEF h
  <2>1. CASE n = 0
    <3>1. Len(rows) \in Nat /\ Len(rows) < MaxRows /\ rows' = Append(rows, ActionRow(w.plugin, h))
      BY <1>1, <1>2, <1>5, <2>1, TableParts
    <3>2. i = Len(rows) + 1
      BY <2>1
    <3>3. /\ rows' \in Seq(ExtRows) /\ Len(rows') = i /\ i \notin Ids /\ Ids' = Ids \cup {i}
          /\ rows'[i] = ActionRow(w.plugin, h) /\ \A j \in Ids : rows'[j] = rows[j]
      <4> HIDE DEF i
      <4> QED BY <1>2, <1>5, <3>1, <3>2, RowIsAdded
    <3>4. Len(rows') <= MaxRows
      BY <1>2, <3>1, <3>2, <3>3
    <3> HIDE DEF i
    <3> QED BY <2>1, <3>3, <3>4
  <2>2. CASE n # 0
    <3>1. i \in Ids /\ rows' = [rows EXCEPT ![i] = ActionRow(w.plugin, h)]
      BY <1>1, <1>3, <1>5, <1>6, <2>2
    <3> HIDE DEF i
    <3> QED BY <1>2, <1>5, <2>2, <3>1, RowIsSet
  <2> QED BY <2>1, <2>2
<1>8. /\ DOMAIN v = DOMAIN w /\ v.pc = "write" /\ v.asked = w.asked /\ v.rest = Tail(w.rest)
      /\ v.id = w.id /\ v.plugin = w.plugin /\ v.index = w.index
      /\ v.claimed = w.claimed \cup ({n} \ {0})
  BY <1>1, <1>2 DEF WorkShape, v
<1>9. WorkShape(v, Ids')
  <2>1. v.claimed \subseteq DOMAIN v.index
    BY <1>2, <1>6, <1>8 DEF WorkShape
  <2>2. Ids \subseteq Ids'
    BY <1>7
  <2> HIDE DEF Ids, Unclaimed
  <2>3. /\ v.id \in Ids' \cup {0} /\ v.pc = "write" /\ v.plugin \in Nat /\ v.plugin # 0
        /\ v.asked \in Seq(ReportedAction) /\ AllNamed(v.asked) /\ v.rest \in Seq(ReportedAction) /\ AllNamed(v.rest)
        /\ DOMAIN v.index \subseteq Nat \ {0} /\ \A m \in DOMAIN v.index : v.index[m][1] \in Ids'
        /\ DOMAIN v = {"pc", "id", "plugin", "body", "asked", "rest", "index", "claimed"}
    BY <1>1, <1>2, <1>3, <1>4, <1>8, <2>2 DEF WorkShape
  <2> QED BY <2>1, <2>3 DEF WorkShape, WorkPcs
<1>10. DOMAIN work' = Servers /\ (\A t \in Servers \ {s} : work'[t] = work[t]) /\ work'[s] = v
  BY <1>1, OneMoves
<1>11. Len(w.asked) \in Nat
  BY <1>1, <1>2, LenProperties DEF WorkShape
<1>12. Len(v.rest) = Len(w.rest) - 1 /\ \A j \in 1..Len(v.rest) : v.rest[j] = w.rest[j + 1]
  BY <1>4, <1>8
<1> QED BY <1>1, <1>4, <1>5, <1>6, <1>7, <1>8, <1>9, <1>10, <1>11, <1>12 DEF w, h, a, n, i

LEMMA DropIs ==
  ASSUME XBase, NEW s \in Servers, DropStale(s)
  PROVE  LET w == work[s]
             v == work'[s]
         IN /\ w.pc = "write" /\ Len(w.rest) = 0 /\ Len(w.asked) \in Nat /\ Unclaimed(w) # {}
            /\ \E n \in Unclaimed(w) :
                 /\ w.index[n][1] \in Ids
                 /\ rows'[w.index[n][1]] = NoRow
                 /\ (\A j \in Ids \ {w.index[n][1]} : rows'[j] = rows[j])
                 /\ \/ rows[w.index[n][1]] = NoRow /\ v = NoWork
                    \/ /\ v.pc = "write" /\ v.claimed = w.claimed \cup {n}
                       /\ v.plugin = w.plugin /\ v.asked = w.asked /\ v.rest = w.rest
                       /\ v.index = w.index
            /\ rows' \in Seq(ExtRows) /\ Len(rows') <= MaxRows /\ Ids' = Ids
            /\ WorkShape(v, Ids)
            /\ DOMAIN work' = Servers /\ (\A t \in Servers \ {s} : work'[t] = work[t])
            /\ UNCHANGED <<overlapping, live, boot, begun, crashes, unread, synced, edited>>
<1> DEFINE w == work[s]
           n == Min(Unclaimed(w))
           i == w.index[n][1]
           v == [w EXCEPT !.claimed = @ \cup {n}]
<1>0. w.rest = << >> /\ Len(<< >>) = 0
  BY EmptySeq DEF DropStale, EndSync
<1>1. /\ w.pc = "write" /\ Len(w.rest) = 0 /\ Unclaimed(w) # {}
      /\ rows' = [rows EXCEPT ![i] = NoRow]
      /\ IF rows[i] = NoRow THEN work' = [work EXCEPT ![s] = NoWork]
         ELSE work' = [work EXCEPT ![s] = v]
      /\ UNCHANGED <<overlapping, live, boot, begun, crashes, unread, synced, edited>>
  BY <1>0 DEF DropStale, Done, Proceeds
<1>2. WorkShape(w, Ids) /\ rows \in Seq(ExtRows) /\ Len(rows) <= MaxRows
  BY DEF XBase
<1> HIDE DEF w, v
<1>3. n \in Unclaimed(w) /\ n \in DOMAIN w.index
  <2>1. Unclaimed(w) \subseteq Nat /\ Unclaimed(w) \subseteq DOMAIN w.index
    BY <1>2 DEF WorkShape, Unclaimed
  <2> HIDE DEF Unclaimed
  <2> QED BY <1>1, <2>1, MinIsLeast
<1> HIDE DEF n
<1>4. i \in Ids
  BY <1>1, <1>2, <1>3 DEF WorkShape
<1>5. /\ rows' \in Seq(ExtRows) /\ Len(rows') <= MaxRows /\ Ids' = Ids
      /\ rows'[i] = NoRow /\ (\A j \in Ids \ {i} : rows'[j] = rows[j])
  <2> HIDE DEF i
  <2> QED BY <1>1, <1>2, <1>4, ExtBlanks, RowIsSet
<1>6. /\ DOMAIN v = DOMAIN w /\ v.pc = "write" /\ v.asked = w.asked /\ v.rest = w.rest
      /\ v.id = w.id /\ v.plugin = w.plugin /\ v.index = w.index
      /\ v.claimed = w.claimed \cup {n}
  BY <1>1, <1>2 DEF WorkShape, v
<1>7. WorkShape(v, Ids)
  <2>1. v.claimed \subseteq DOMAIN v.index
    BY <1>2, <1>3, <1>6 DEF WorkShape
  <2> QED BY <1>1, <1>2, <1>6, <2>1 DEF WorkShape
<1>8. DOMAIN work' = Servers /\ (\A t \in Servers \ {s} : work'[t] = work[t])
      /\ ((rows[i] = NoRow /\ work'[s] = NoWork) \/ work'[s] = v)
  BY <1>1, OneMoves
<1>9. WorkShape(work'[s], Ids)
  BY <1>7, <1>8, WorkBlank
<1>11. Len(w.asked) \in Nat
  BY <1>1, <1>2, LenProperties DEF WorkShape
<1>10. \/ rows[i] = NoRow /\ work'[s] = NoWork
       \/ /\ work'[s].pc = "write" /\ work'[s].claimed = w.claimed \cup {n}
          /\ work'[s].plugin = w.plugin /\ work'[s].asked = w.asked /\ work'[s].rest = w.rest
          /\ work'[s].index = w.index
  BY <1>6, <1>8
<1> QED BY <1>1, <1>3, <1>4, <1>5, <1>8, <1>9, <1>10, <1>11 DEF w, i

LEMMA EndIs ==
  ASSUME XBase, NEW s \in Servers, EndSync(s)
  PROVE  LET w == work[s]
         IN /\ w.pc = "write" /\ Len(w.rest) = 0 /\ Unclaimed(w) = {}
            /\ \/ synced' = NoSync
               \/ /\ ~overlapping /\ w.asked = live.list
                  /\ synced'.plugin = w.plugin /\ synced'.list = w.asked
            /\ work'[s] = NoWork
            /\ DOMAIN work' = Servers /\ (\A t \in Servers \ {s} : work'[t] = work[t])
            /\ UNCHANGED <<overlapping, rows, live, boot, begun, crashes, unread, edited>>
<1> DEFINE w == work[s]
<1>0. w.rest = << >> /\ Len(<< >>) = 0
  BY EmptySeq DEF DropStale, EndSync
<1>1. /\ w.pc = "write" /\ Len(w.rest) = 0 /\ Unclaimed(w) = {}
      /\ synced' = (IF overlapping \/ w.asked # live.list THEN NoSync
                    ELSE [plugin |-> w.plugin, list |-> w.asked])
      /\ work' = [work EXCEPT ![s] = NoWork]
      /\ UNCHANGED <<overlapping, rows, live, boot, begun, crashes, unread, edited>>
  BY <1>0 DEF EndSync, Done, Proceeds
<1> HIDE DEF w
<1>2. DOMAIN work' = Servers /\ (\A t \in Servers \ {s} : work'[t] = work[t]) /\ work'[s] = NoWork
  BY <1>1, OneMoves
<1>3. \/ synced' = NoSync
      \/ ~overlapping /\ w.asked = live.list /\ synced'.plugin = w.plugin /\ synced'.list = w.asked
  BY <1>1
<1> QED BY <1>1, <1>2, <1>3 DEF w
LEMMA PruneIs ==
  ASSUME XBase, NEW name \in Retired, Prune(name)
  PROVE  /\ ~Serving /\ boot.prune # {}
         /\ boot'.prune = boot.prune \ {name} /\ boot'.seed = boot.seed
         /\ rows' \in Seq(ExtRows) /\ Len(rows') <= MaxRows /\ Ids' = Ids
         /\ \/ rows' = rows /\ BuiltinsOf(rows, name) = {}
            \/ \E i \in BuiltinsOf(rows, name) :
                 rows'[i] = NoRow /\ \A j \in Ids \ {i} : rows'[j] = rows[j]
         /\ UNCHANGED <<overlapping, live, work, begun, crashes, unread, synced, edited>>
<1> DEFINE found == BuiltinsOf(rows, name)
<1>1. /\ name \in boot.prune /\ boot' = [boot EXCEPT !.prune = @ \ {name}]
      /\ IF found = {} THEN UNCHANGED rows ELSE rows' = [rows EXCEPT ![Min(found)] = NoRow]
      /\ UNCHANGED <<overlapping, live, work, begun, crashes, unread, synced, edited>>
  BY BuiltinsAre DEF Prune
<1>2. rows \in Seq(ExtRows) /\ Len(rows) <= MaxRows
      /\ boot \in [prune : SUBSET Retired, seed : SUBSET DOMAIN Builtins]
  BY DEF XBase
<1>3. ~Serving /\ boot'.prune = boot.prune \ {name} /\ boot'.seed = boot.seed
  BY <1>1, <1>2 DEF Serving, Nothing
<1>4. found \subseteq Ids /\ found \subseteq Nat
  BY <1>2, TableParts DEF BuiltinsOf, Ids
<1> HIDE DEF found
<1>5. CASE found = {}
  <2>1. rows' = rows /\ Ids' = Ids
    BY <1>1, <1>5 DEF Ids
  <2> QED BY <1>1, <1>2, <1>3, <1>5, <2>1 DEF found
<1>6. CASE found # {}
  <2> DEFINE i == Min(found)
  <2>1. i \in found /\ i \in Ids
    BY <1>4, <1>6, MinIsLeast
  <2>2. rows' = [rows EXCEPT ![i] = NoRow]
    BY <1>1, <1>6
  <2> HIDE DEF i
  <2>3. /\ rows' \in Seq(ExtRows) /\ Len(rows') <= MaxRows /\ Ids' = Ids
        /\ rows'[i] = NoRow /\ \A j \in Ids \ {i} : rows'[j] = rows[j]
    BY <1>2, <2>1, <2>2, ExtBlanks, RowIsSet
  <2> QED BY <1>1, <1>3, <2>1, <2>3 DEF found
<1> QED BY <1>5, <1>6

LEMMA SeedIs ==
  ASSUME XBase, NEW name \in DOMAIN Builtins, Seed(name)
  PROVE  /\ ~Serving /\ boot.prune = {} /\ boot'.prune = {} /\ boot'.seed = boot.seed \ {name}
         /\ rows' \in Seq(ExtRows) /\ Len(rows') <= MaxRows /\ Ids \subseteq Ids'
         /\ \A j \in Ids : /\ rows'[j].kind = rows[j].kind /\ rows'[j].name = rows[j].name
                           /\ rows'[j].edit = rows[j].edit /\ rows'[j].action = rows[j].action
                           /\ rows[j].kind # "builtin" => rows'[j] = rows[j]
                           /\ rows[j].plugin # 0 => rows'[j].plugin = rows[j].plugin
         /\ \A j \in Ids' \ Ids : /\ rows'[j].kind = "builtin" /\ rows'[j].name = name
                                  /\ BuiltinsOf(rows, name) = {} /\ j = Len(rows) + 1
         /\ Planted(rows', name)
         /\ UNCHANGED <<overlapping, live, work, begun, crashes, unread, synced, edited>>
<1> DEFINE found == BuiltinsOf(rows, name)
           new == [NoRow EXCEPT !.kind = "builtin", !.name = name, !.plugin = Builtins[name]]
<1>1. /\ boot.prune = {} /\ name \in boot.seed /\ boot' = [boot EXCEPT !.seed = @ \ {name}]
      /\ IF found # {} THEN rows' = [rows EXCEPT ![Min(found)] = Backfill(@, name)]
         ELSE Len(rows) < MaxRows /\ rows' = Append(rows, new)
      /\ UNCHANGED <<overlapping, live, work, begun, crashes, unread, synced, edited>>
  BY BuiltinsAre DEF Seed
<1>2. rows \in Seq(ExtRows) /\ Len(rows) <= MaxRows
      /\ boot \in [prune : SUBSET Retired, seed : SUBSET DOMAIN Builtins]
  BY DEF XBase
<1>3. ~Serving /\ boot'.prune = {} /\ boot'.seed = boot.seed \ {name}
  BY <1>1, <1>2 DEF Serving, Nothing
<1>4. name \in Text /\ Builtins[name] \in Nat
  <2>1. name \in STRING /\ Builtins[name] \in Nat
    BY ExtensionData
  <2> QED BY <2>1, Zenon DEF Text
<1>5. /\ Len(rows) \in Nat /\ Ids \subseteq Nat \ {0} /\ MaxRows \in Nat
      /\ \A i \in Ids : rows[i] \in ExtRows
  BY <1>2, TableParts, ExtensionsOK
<1>6. found \subseteq Ids /\ found \subseteq Nat
  BY <1>5 DEF BuiltinsOf, Ids
<1>7. CASE found # {}
  <2> DEFINE i == Min(found)
             r == Backfill(rows[i], name)
  <2>1. i \in found /\ i \in Ids
    BY <1>6, <1>7, MinIsLeast
  <2>2. rows[i] \in ExtRows /\ rows[i].kind = "builtin" /\ rows[i].name = name
    BY <1>5, <2>1 DEF BuiltinsOf
  <2>3. rows' = [rows EXCEPT ![i] = r]
    <3>1. i \in DOMAIN rows
      BY <2>1 DEF Ids
    <3> HIDE DEF i
    <3> QED BY <1>1, <1>7, <3>1 DEF i
  <2> HIDE DEF i, found
  <2>4. /\ r \in ExtRows /\ r.kind = "builtin" /\ r.name = rows[i].name /\ r.edit = rows[i].edit
        /\ r.action = rows[i].action /\ (Builtins[name] # 0 => r.plugin # 0)
        /\ (rows[i].plugin # 0 => r.plugin = rows[i].plugin)
    <3>1. CASE rows[i].plugin # 0
      BY <2>2, <3>1 DEF Backfill
    <3>2. CASE rows[i].plugin = 0
      <4> DEFINE old == rows[i]
      <4>1. r = [old EXCEPT !.plugin = Builtins[name]]
        BY <3>2 DEF Backfill
      <4> HIDE DEF old, r
      <4>2. old \in ExtRowsOf({"none", "builtin", "extension"}) /\ old.kind = "builtin" /\ NoAction(old)
        BY <2>2 DEF ExtRows, old
      <4>3. /\ r \in ExtRowsOf({"none", "builtin", "extension"}) /\ r.kind = "builtin" /\ r.name = old.name
            /\ r.edit = old.edit /\ r.action = old.action /\ r.plugin = Builtins[name]
        BY <1>4, <4>1, <4>2 DEF ExtRowsOf
      <4>4. r \in ExtRows
        BY <4>2, <4>3, ActionsAlike DEF ExtRows
      <4> QED BY <3>2, <4>3, <4>4 DEF old
    <3> QED BY <3>1, <3>2
  <2> HIDE DEF r
  <2>5. /\ rows' \in Seq(ExtRows) /\ Len(rows') = Len(rows) /\ Ids' = Ids
        /\ rows'[i] = r /\ \A j \in Ids \ {i} : rows'[j] = rows[j]
    BY <1>2, <2>1, <2>3, <2>4, RowIsSet
  <2>6. BuiltinsOf(rows', name) = found
    BY <2>2, <2>4, <2>5 DEF BuiltinsOf, Ids, found
  <2>7. Planted(rows', name)
    BY <1>7, <2>4, <2>5, <2>6 DEF Planted, i
  <2> QED BY <1>1, <1>2, <1>3, <2>2, <2>4, <2>5, <2>7
<1>8. CASE found = {}
  <2> DEFINE k == Len(rows) + 1
  <2>1. /\ new \in ExtRows /\ new.kind = "builtin" /\ new.name = name /\ new.plugin = Builtins[name]
    <3>1. NoRow \in ExtRowsOf({"none", "builtin", "extension"}) /\ NoAction(NoRow)
      BY ExtBlanks DEF ExtRows
    <3> HIDE DEF NoRow
    <3>2. new \in ExtRowsOf({"none", "builtin", "extension"}) /\ new.kind = "builtin"
          /\ new.name = name /\ new.plugin = Builtins[name] /\ new.action = NoRow.action
      BY <1>4, <3>1 DEF ExtRowsOf
    <3> HIDE DEF new
    <3> QED BY <3>1, <3>2, ActionsAlike DEF ExtRows
  <2>2. rows' = Append(rows, new) /\ Len(rows) < MaxRows
    BY <1>1, <1>8
  <2> HIDE DEF new, found
  <2>3. /\ rows' \in Seq(ExtRows) /\ Len(rows') = k /\ k \notin Ids /\ Ids' = Ids \cup {k}
        /\ rows'[k] = new /\ \A j \in Ids : rows'[j] = rows[j]
    BY <1>2, <2>1, <2>2, RowIsAdded
  <2>4. k \in Nat /\ k <= MaxRows
    BY <1>5, <2>2
  <2>5. BuiltinsOf(rows', name) = {k}
    BY <1>8, <2>1, <2>3 DEF BuiltinsOf, Ids, found
  <2>6. Min({k}) = k
    BY <2>4, MinIsLeast
  <2> HIDE DEF k
  <2>7. Planted(rows', name)
    BY <2>1, <2>3, <2>5, <2>6 DEF Planted
  <2> QED BY <1>1, <1>3, <1>8, <2>1, <2>3, <2>4, <2>7 DEF k, found
<1> QED BY <1>7, <1>8

-----------------------------------------------------------------------------
(* The table and the built-ins through every step.                         *)

LEMMA XBaseGoesOn ==
  ASSUME XBase, NEW s \in Servers, rows' \in Seq(ExtRows), Len(rows') <= MaxRows,
         Ids \subseteq Ids', UNCHANGED <<overlapping, live, boot>>,
         begun' \in Nat, unread' \in Nat, DOMAIN work' = Servers, WorkShape(work'[s], Ids'),
         \A t \in Servers \ {s} : work'[t] = work[t], DOMAIN edited' \subseteq Ids'
  PROVE  XBase'
<1>1. \A t \in Servers : WorkShape(work'[t], Ids')
  BY ShapeGrows DEF XBase
<1> HIDE DEF WorkShape, Ids
<1> QED BY <1>1 DEF XBase

\* The built-ins of u are among those of t.
Fewer(t, u) ==
  \A i \in DOMAIN u : u[i].kind = "builtin" =>
    i \in DOMAIN t /\ t[i].kind = "builtin" /\ u[i].name = t[i].name /\ u[i].edit = t[i].edit

LEMMA FewerKeepsEdits ==
  ASSUME XBase, Fewer(rows, rows'), Ids \subseteq Ids', edited' = edited, EditFits
  PROVE  EditFits'
BY DEF XBase, Fewer, EditFits, Ids

LEMMA WorkIs ==
  ASSUME XBase, NEW s \in Servers,
         Save(s) \/ Delete(s) \/ Sweep(s) \/ Ask(s) \/ List(s) \/ WriteAction(s) \/ DropStale(s) \/ EndSync(s)
  PROVE  /\ XBase' /\ work[s].pc # "idle"
         /\ UNCHANGED <<overlapping, live, boot, unread>>
         /\ \A t \in Servers \ {s} : work'[t] = work[t]
         /\ Untouched' => Untouched /\ Fewer(rows, rows')
         /\ EditFits => EditFits'
<1>1. /\ rows \in Seq(ExtRows) /\ Len(rows) <= MaxRows /\ begun \in Nat /\ unread \in Nat
      /\ DOMAIN edited \subseteq Ids
  BY DEF XBase
<1>2. Fewer(rows, rows)
  BY DEF Fewer
<1>3. \A among : WorkShape(NoWork, among)
  BY WorkBlank
<1>4. NoRow.kind # "builtin"
  BY ExtBlanks
<1>5. CASE Save(s)
  <2> DEFINE w == work[s]
             i == IF w.id = 0 THEN Len(rows) + 1 ELSE w.id
  <2>1. /\ w.pc = "save" /\ w.body \in ExtRows
        /\ rows' \in Seq(ExtRows) /\ Len(rows') <= MaxRows /\ Ids' = Ids \cup {i}
        /\ rows'[i] = w.body /\ (\A j \in Ids \ {i} : rows'[j] = rows[j])
        /\ work'[s] = NoWork
        /\ DOMAIN work' = Servers /\ (\A t \in Servers \ {s} : work'[t] = work[t])
        /\ UNCHANGED <<overlapping, live, boot, begun, crashes, unread>>
        /\ (w.body.kind # "builtin" => edited' = edited)
        /\ (w.body.kind = "builtin" =>
              /\ DOMAIN edited' = DOMAIN edited \cup {i} /\ edited'[i] = w.body.edit
              /\ \A k \in DOMAIN edited \ {i} : edited'[k] = edited[k])
    BY <1>5, SaveIs
  <2> HIDE DEF w, i
  <2>2. DOMAIN edited' \subseteq Ids'
    BY <1>1, <2>1
  <2>3. XBase'
    BY <1>1, <1>3, <2>1, <2>2, XBaseGoesOn
  <2>4. CASE w.body.kind # "builtin"
    <3>1. Fewer(rows, rows')
      BY <2>1, <2>4 DEF Fewer, Ids
    <3>2. edited' = edited /\ Ids \subseteq Ids'
      BY <2>1, <2>4
    <3>3. EditFits => EditFits'
      BY <3>1, <3>2, FewerKeepsEdits
    <3>4. Untouched' => Untouched
      BY <3>2 DEF Untouched
    <3> QED BY <2>1, <2>3, <3>1, <3>3, <3>4 DEF w
  <2>5. CASE w.body.kind = "builtin"
    <3>1. i \in DOMAIN edited'
      BY <2>1, <2>5
    <3>2. ~Untouched'
      <4>1. DOMAIN << >> = {}
        OBVIOUS
      <4> QED BY <3>1, <4>1 DEF Untouched
    <3>3. EditFits => EditFits'
      BY <1>1, <2>1, <2>5 DEF EditFits
    <3> QED BY <2>1, <2>3, <3>2, <3>3 DEF w
  <2> QED BY <2>4, <2>5
<1>6. ASSUME edited' = edited, Fewer(rows, rows'), Ids \subseteq Ids', work[s].pc # "idle",
             rows' \in Seq(ExtRows), Len(rows') <= MaxRows, WorkShape(work'[s], Ids'),
             DOMAIN work' = Servers, \A t \in Servers \ {s} : work'[t] = work[t],
             UNCHANGED <<overlapping, live, boot, begun, unread>>
      PROVE  /\ XBase' /\ work[s].pc # "idle"
             /\ UNCHANGED <<overlapping, live, boot, unread>>
             /\ \A t \in Servers \ {s} : work'[t] = work[t]
             /\ Untouched' => Untouched /\ Fewer(rows, rows')
             /\ EditFits => EditFits'
  <2>1. XBase'
    BY <1>1, <1>6, XBaseGoesOn
  <2>2. EditFits => EditFits'
    BY <1>6, FewerKeepsEdits
  <2>3. Untouched' => Untouched
    BY <1>6 DEF Untouched
  <2> QED BY <1>6, <2>1, <2>2, <2>3
<1>7. ASSUME NEW i, i \in Ids' \/ i \in Ids, Ids' = Ids \cup {i}, rows'[i].kind # "builtin",
             \A j \in Ids \ {i} : rows'[j] = rows[j]
      PROVE  Fewer(rows, rows')
  BY <1>7 DEF Fewer, Ids
<1>8. CASE Delete(s)
  <2>1. Fewer(rows, rows')
    <3>1. PICK i \in Ids : rows'[i] = NoRow /\ Ids' = Ids /\ (\A j \in Ids \ {i} : rows'[j] = rows[j])
      BY <1>8, DeleteIs
    <3> QED BY <1>4, <1>7, <3>1
  <2> QED BY <1>6, <1>8, <2>1, DeleteIs
<1>9. CASE Sweep(s)
  <2>1. Fewer(rows, rows')
    BY <1>4, <1>9, SweepIs DEF Fewer, Ids
  <2> QED BY <1>3, <1>6, <1>9, <2>1, SweepIs
<1>10. ASSUME UNCHANGED rows PROVE Ids' = Ids /\ Fewer(rows, rows')
  BY <1>2, <1>10 DEF Ids
<1>11. CASE Ask(s)
  BY <1>1, <1>6, <1>10, <1>11, AskIs
<1>12. CASE List(s)
  BY <1>1, <1>6, <1>10, <1>12, ListIs
<1>13. CASE EndSync(s)
  BY <1>1, <1>3, <1>6, <1>10, <1>13, EndIs
<1>14. CASE WriteAction(s)
  <2> DEFINE w == work[s]
             h == Head(w.rest)
             n == Claim(w.index, w.claimed, [h EXCEPT !.title = NameOf(h)])
             i == IF n = 0 THEN Len(rows) + 1 ELSE w.index[n][1]
  <2>1. /\ w.pc = "write" /\ h \in ReportedAction /\ ~Nameless(h)
        /\ rows' \in Seq(ExtRows) /\ Len(rows') <= MaxRows /\ Ids' = Ids \cup {i}
        /\ rows'[i] = ActionRow(w.plugin, h) /\ (\A j \in Ids \ {i} : rows'[j] = rows[j])
        /\ WorkShape(work'[s], Ids')
        /\ DOMAIN work' = Servers /\ (\A t \in Servers \ {s} : work'[t] = work[t])
        /\ UNCHANGED <<overlapping, live, boot, begun, crashes, unread, synced, edited>>
    BY <1>14, WriteIs
  <2>2. w.plugin \in Nat
    BY <2>1 DEF XBase, WorkShape
  <2> HIDE DEF w, h, n, i
  <2>3. rows'[i].kind = "extension"
    <3>1. h \in ReportedAction /\ ~Nameless(h) /\ w.plugin \in Nat
      BY <2>1, <2>2 DEF w
    <3>2. ActionRow(w.plugin, h).kind = "extension"
      BY ONLY <3>1, ActionRows
    <3> QED BY <2>1, <3>2
  <2>4. Fewer(rows, rows') /\ Ids \subseteq Ids'
    BY <1>7, <2>1, <2>3
  <2> QED BY <1>6, <2>1, <2>4 DEF w
<1>15. CASE DropStale(s)
  <2>1. PICK i \in Ids : rows'[i] = NoRow /\ Ids' = Ids /\ (\A j \in Ids \ {i} : rows'[j] = rows[j])
    BY <1>15, DropIs
  <2>2. Fewer(rows, rows')
    BY <1>4, <1>7, <2>1
  <2> QED BY <1>6, <1>15, <2>2, DropIs
<1> QED BY <1>5, <1>8, <1>9, <1>11, <1>12, <1>13, <1>14, <1>15
Works(s) == Save(s) \/ Delete(s) \/ Sweep(s) \/ Ask(s) \/ List(s) \/ WriteAction(s) \/ DropStale(s) \/ EndSync(s)
BeginsAt(s, i) ==
  \/ \E body \in ExtBodies : BeginSave(s, i, body) \/ BeginSaveUnread(s, i, body)
  \/ BeginDelete(s, i) \/ BeginSync(s, i)

LEMMA XSteps ==
  ASSUME [XNext]_xvars
  PROVE  \/ UNCHANGED xvars
         \/ \E name \in Retired : Prune(name)
         \/ \E name \in DOMAIN Builtins : Seed(name)
         \/ Restart
         \/ \E answer \in Lives : Redeploy(answer)
         \/ \E s \in Servers, i \in 0..MaxRows : BeginsAt(s, i)
         \/ \E s \in Servers : Works(s)
BY Zenon DEF XNext, Works, BeginsAt

LEMMA XBaseStep ==
  ASSUME XBase, [XNext]_xvars
  PROVE  XBase'
<1>1. CASE UNCHANGED xvars
  BY <1>1 DEF XBase, xvars, Ids
<1>2. ASSUME NEW name \in Retired, Prune(name) PROVE XBase'
  <2>1. boot' \in [prune : SUBSET Retired, seed : SUBSET DOMAIN Builtins]
    BY <1>2 DEF Prune, XBase
  <2> QED BY <1>2, <2>1, PruneIs DEF XBase
<1>3. ASSUME NEW name \in DOMAIN Builtins, Seed(name) PROVE XBase'
  <2>1. boot' \in [prune : SUBSET Retired, seed : SUBSET DOMAIN Builtins]
    BY <1>3 DEF Seed, XBase
  <2>2. /\ rows' \in Seq(ExtRows) /\ Len(rows') <= MaxRows /\ Ids \subseteq Ids'
        /\ UNCHANGED <<overlapping, live, work, begun, unread, edited>>
    BY <1>3, SeedIs
  <2>3. \A s \in Servers : WorkShape(work'[s], Ids')
    BY <2>2, ShapeGrows DEF XBase
  <2> HIDE DEF WorkShape, Ids
  <2> QED BY <2>1, <2>2, <2>3 DEF XBase
<1>4. CASE Restart
  <2>1. /\ boot' = AllSeeding /\ work' = [s \in Servers |-> NoWork]
        /\ UNCHANGED <<overlapping, rows, live, begun, unread, edited>> /\ Ids' = Ids
    BY <1>4 DEF Restart, Ids
  <2>2. AllSeeding \in [prune : SUBSET Retired, seed : SUBSET DOMAIN Builtins]
    BY DEF AllSeeding
  <2>3. DOMAIN work' = Servers /\ \A s \in Servers : WorkShape(work'[s], Ids')
    BY <2>1, WorkBlank
  <2> HIDE DEF WorkShape, Ids, AllSeeding, NoWork
  <2> QED BY <2>1, <2>2, <2>3 DEF XBase
<1>5. ASSUME NEW answer \in Lives, Redeploy(answer) PROVE XBase'
  BY <1>5 DEF Redeploy, XBase, Ids
<1>6. ASSUME NEW s \in Servers, NEW i \in 0..MaxRows, BeginsAt(s, i) PROVE XBase'
  <2>1. /\ UNCHANGED <<overlapping, rows, live, boot, edited>> /\ Ids' = Ids
        /\ begun' \in Nat /\ unread' \in Nat /\ DOMAIN work' = Servers
        /\ WorkShape(work'[s], Ids') /\ \A t \in Servers \ {s} : work'[t] = work[t]
    BY <1>6, BeginIs DEF BeginsAt, Ids, XBase
  <2>2. rows' \in Seq(ExtRows) /\ Len(rows') <= MaxRows /\ DOMAIN edited' \subseteq Ids'
    BY <2>1 DEF XBase
  <2> QED BY <2>1, <2>2, XBaseGoesOn
<1>7. ASSUME NEW s \in Servers, Works(s) PROVE XBase'
  BY <1>7, WorkIs DEF Works
<1> QED BY <1>1, <1>2, <1>3, <1>4, <1>5, <1>6, <1>7, XSteps

LEMMA ServedAtWork ==
  ASSUME BootFits, NEW s \in Servers, work[s].pc # "idle"
  PROVE  Serving /\ boot.prune = {} /\ boot.seed = {}
BY DEF BootFits, NobodyWorks, Serving, Nothing

LEMMA OneOfEachFewer ==
  ASSUME NEW t, NEW u, Fewer(t, u), OneOfEach(t)
  PROVE  OneOfEach(u)
BY DEF Fewer, OneOfEach

LEMMA BootStep ==
  ASSUME XBase, BootFits, [XNext]_xvars
  PROVE  BootFits'
<1>1. ASSUME UNCHANGED <<rows, boot, edited>>, Serving \/ work' = work
      PROVE  BootFits'
  BY <1>1 DEF BootFits, Serving, NobodyWorks, Untouched
<1>2. ASSUME NEW s \in Servers, Works(s) PROVE BootFits'
  <2>1. /\ work[s].pc # "idle" /\ boot' = boot /\ (Untouched' => Untouched /\ Fewer(rows, rows'))
    BY <1>2, WorkIs DEF Works
  <2>2. Serving /\ boot.prune = {} /\ boot.seed = {}
    BY <2>1, ServedAtWork
  <2>3. ASSUME Untouched' PROVE OneOfEach(rows') /\ \A name \in Retired : BuiltinsOf(rows', name) = {}
    <3>1. Fewer(rows, rows') /\ OneOfEach(rows) /\ \A name \in Retired : BuiltinsOf(rows, name) = {}
      BY <2>1, <2>2, <2>3 DEF BootFits
    <3>2. \A name \in Retired : BuiltinsOf(rows', name) = {}
      BY <3>1 DEF Fewer, BuiltinsOf
    <3> QED BY <3>1, <3>2, OneOfEachFewer
  <2> QED BY <2>1, <2>2, <2>3 DEF BootFits, Serving
<1>3. ASSUME NEW name \in Retired, Prune(name) PROVE BootFits'
  <2>1. /\ ~Serving /\ boot.prune # {}
        /\ boot'.prune = boot.prune \ {name} /\ boot'.seed = boot.seed
        /\ \/ rows' = rows /\ BuiltinsOf(rows, name) = {}
           \/ \E i \in BuiltinsOf(rows, name) :
                rows'[i] = NoRow /\ \A j \in Ids \ {i} : rows'[j] = rows[j]
        /\ Ids' = Ids /\ work' = work /\ edited' = edited
    BY <1>3, PruneIs
  <2>2. NobodyWorks'
    BY <2>1 DEF BootFits, NobodyWorks
  <2>3. boot'.seed = DOMAIN Builtins
    BY <2>1 DEF BootFits
  <2>4. Fewer(rows, rows')
    <3>1. CASE rows' = rows
      BY <3>1 DEF Fewer
    <3>2. ASSUME NEW i \in BuiltinsOf(rows, name), rows'[i] = NoRow, \A j \in Ids \ {i} : rows'[j] = rows[j]
          PROVE  Fewer(rows, rows')
      BY <2>1, <3>2, ExtBlanks DEF Fewer, Ids
    <3> QED BY <2>1, <3>1, <3>2
  <2>5. ASSUME Untouched' PROVE OneOfEach(rows') /\ \A nm \in Retired \ boot'.prune : BuiltinsOf(rows', nm) = {}
    <3>1. OneOfEach(rows) /\ \A nm \in Retired \ boot.prune : BuiltinsOf(rows, nm) = {}
      BY <2>1, <2>5 DEF BootFits, Untouched
    <3>2. \A nm \in Retired \ boot.prune : BuiltinsOf(rows', nm) = {}
      BY <2>4, <3>1 DEF Fewer, BuiltinsOf
    <3>3. BuiltinsOf(rows', name) = {}
      <4>1. CASE rows' = rows /\ BuiltinsOf(rows, name) = {}
        BY <4>1
      <4>2. ASSUME NEW i \in BuiltinsOf(rows, name), rows'[i] = NoRow
            PROVE  BuiltinsOf(rows', name) = {}
        <5>1. ASSUME NEW k \in BuiltinsOf(rows', name) PROVE FALSE
          <6>1. k \in DOMAIN rows /\ rows[k].kind = "builtin" /\ rows[k].name = name
            BY <2>4 DEF Fewer, BuiltinsOf
          <6>2. k = i
            BY <3>1, <6>1 DEF OneOfEach, BuiltinsOf
          <6> QED BY <4>2, <6>2, ExtBlanks DEF BuiltinsOf
        <5> QED BY <5>1
      <4> QED BY <2>1, <4>1, <4>2
    <3> QED BY <2>1, <2>4, <3>1, <3>2, <3>3, OneOfEachFewer
  <2> HIDE DEF BuiltinsOf, OneOfEach, Planted
  <2> QED BY <2>2, <2>3, <2>5 DEF BootFits
<1>4. ASSUME NEW name \in DOMAIN Builtins, Seed(name) PROVE BootFits'
  <2>1. /\ ~Serving /\ boot.prune = {} /\ boot'.prune = {} /\ boot'.seed = boot.seed \ {name}
        /\ Ids \subseteq Ids'
        /\ \A j \in Ids : /\ rows'[j].kind = rows[j].kind /\ rows'[j].name = rows[j].name
                          /\ rows[j].plugin # 0 => rows'[j].plugin = rows[j].plugin
        /\ \A j \in Ids' \ Ids : /\ rows'[j].kind = "builtin" /\ rows'[j].name = name
                                 /\ BuiltinsOf(rows, name) = {} /\ j = Len(rows) + 1
        /\ Planted(rows', name) /\ work' = work /\ edited' = edited
    BY <1>4, SeedIs
  <2>2. NobodyWorks'
    BY <2>1 DEF BootFits, NobodyWorks
  <2>3. boot.seed # {}
    BY <1>4 DEF Seed
  <2>4. \A nm : nm # name => BuiltinsOf(rows', nm) = BuiltinsOf(rows, nm)
    BY <2>1 DEF BuiltinsOf, Ids
  <2>5. ASSUME NEW nm \in DOMAIN Builtins \ boot'.seed PROVE Planted(rows', nm)
    <3>1. CASE nm = name
      BY <2>1, <3>1
    <3>2. CASE nm # name
      <4> DEFINE S == BuiltinsOf(rows, nm)
      <4>1. Planted(rows, nm) /\ BuiltinsOf(rows', nm) = S
        BY <2>1, <2>3, <2>4, <3>2 DEF BootFits
      <4>2. S # {} /\ S \subseteq Ids /\ S \subseteq Nat /\ (Builtins[nm] # 0 => rows[Min(S)].plugin # 0)
        BY <4>1, TableParts DEF Planted, BuiltinsOf, Ids, XBase
      <4> HIDE DEF S
      <4>3. Min(S) \in Ids
        BY <4>2, MinIsLeast
      <4>4. Builtins[nm] # 0 => rows'[Min(S)].plugin # 0
        BY <2>1, <4>2, <4>3
      <4> QED BY <4>1, <4>2, <4>4 DEF Planted
    <3> QED BY <3>1, <3>2
  <2>6. ASSUME Untouched' PROVE OneOfEach(rows') /\ \A nm \in Retired \ boot'.prune : BuiltinsOf(rows', nm) = {}
    <3>1. OneOfEach(rows) /\ \A nm \in Retired : BuiltinsOf(rows, nm) = {}
      BY <2>1, <2>6 DEF BootFits, Untouched
    <3>2. OneOfEach(rows')
      <4> SUFFICES ASSUME NEW i \in Ids', NEW j \in Ids', rows'[i].kind = "builtin",
                          rows'[j].kind = "builtin", rows'[i].name = rows'[j].name
                   PROVE  i = j
        BY DEF OneOfEach, Ids
      <4>1. CASE i \in Ids /\ j \in Ids
        BY <2>1, <3>1, <4>1 DEF OneOfEach, Ids
      <4>2. CASE i \in Ids' \ Ids /\ j \in Ids
        BY <2>1, <4>2 DEF BuiltinsOf, Ids
      <4>3. CASE j \in Ids' \ Ids /\ i \in Ids
        BY <2>1, <4>3 DEF BuiltinsOf, Ids
      <4>4. CASE i \in Ids' \ Ids /\ j \in Ids' \ Ids
        BY <2>1, <4>4
      <4> QED BY <4>1, <4>2, <4>3, <4>4
    <3>3. \A nm \in Retired : BuiltinsOf(rows', nm) = {}
      BY <2>4, <3>1, ExtensionsOK
    <3> QED BY <3>2, <3>3
  <2> HIDE DEF BuiltinsOf, OneOfEach, Planted
  <2> QED BY <2>1, <2>2, <2>5, <2>6 DEF BootFits
<1>5. CASE Restart
  <2>1. /\ boot'.prune = Retired /\ boot'.seed = DOMAIN Builtins /\ rows' = rows /\ edited' = edited
        /\ \A s \in Servers : work'[s].pc = "idle"
    BY <1>5, WorkBlank DEF Restart, AllSeeding
  <2> QED BY <2>1 DEF BootFits, NobodyWorks, Untouched
<1>6. ASSUME NEW s \in Servers, NEW i \in 0..MaxRows, BeginsAt(s, i) PROVE BootFits'
  BY <1>1, <1>6, BeginIs DEF BeginsAt
<1>7. CASE UNCHANGED xvars
  BY <1>1, <1>7 DEF xvars
<1>8. ASSUME NEW answer \in Lives, Redeploy(answer) PROVE BootFits'
  BY <1>1, <1>8 DEF Redeploy
<1> QED BY <1>2, <1>3, <1>4, <1>5, <1>6, <1>7, <1>8, XSteps

LEMMA EditStep ==
  ASSUME XBase, EditFits, [XNext]_xvars
  PROVE  EditFits'
<1>1. ASSUME UNCHANGED <<rows, edited>> PROVE EditFits'
  BY <1>1 DEF EditFits
<1>2. ASSUME NEW name \in Retired, Prune(name) PROVE EditFits'
  <2>1. edited' = edited /\ \A j \in Ids : rows'[j] = rows[j] \/ rows'[j] = NoRow
    BY <1>2, PruneIs
  <2> QED BY <2>1, ExtBlanks DEF EditFits, XBase
<1>3. ASSUME NEW name \in DOMAIN Builtins, Seed(name) PROVE EditFits'
  <2>1. edited' = edited /\ \A j \in Ids : rows'[j].kind = rows[j].kind /\ rows'[j].edit = rows[j].edit
    BY <1>3, SeedIs
  <2> QED BY <2>1 DEF EditFits, XBase
<1>4. ASSUME NEW s \in Servers, NEW i \in 0..MaxRows, BeginsAt(s, i) PROVE EditFits'
  BY <1>1, <1>4, BeginIs DEF BeginsAt
<1>5. ASSUME NEW s \in Servers, Works(s) PROVE EditFits'
  BY <1>5, WorkIs DEF Works
<1>6. ASSUME NEW answer \in Lives, Redeploy(answer) PROVE EditFits'
  BY <1>1, <1>6 DEF Redeploy
<1>7. CASE Restart \/ UNCHANGED xvars
  BY <1>1, <1>7 DEF Restart, xvars
<1> QED BY <1>2, <1>3, <1>4, <1>5, <1>6, <1>7, XSteps

LEMMA OneWorksStep ==
  ASSUME XBase, ~overlapping, OneWorks, [XNext]_xvars
  PROVE  OneWorks'
<1>1. ASSUME work' = work PROVE OneWorks'
  BY <1>1 DEF OneWorks
<1>2. ASSUME NEW s \in Servers, NEW i \in 0..MaxRows, BeginsAt(s, i) PROVE OneWorks'
  <2>1. NobodyWorks /\ \A t \in Servers \ {s} : work'[t] = work[t]
    BY <1>2, BeginIs DEF BeginsAt
  <2> QED BY <2>1 DEF OneWorks, NobodyWorks
<1>3. ASSUME NEW s \in Servers, Works(s) PROVE OneWorks'
  <2>1. work[s].pc # "idle" /\ \A t \in Servers \ {s} : work'[t] = work[t]
    BY <1>3, WorkIs DEF Works
  <2> QED BY <2>1 DEF OneWorks
<1>4. CASE Restart
  BY <1>4, WorkBlank DEF Restart, OneWorks
<1>5. ASSUME NEW name \in Retired, Prune(name) PROVE OneWorks'
  BY <1>1, <1>5, PruneIs
<1>6. ASSUME NEW name \in DOMAIN Builtins, Seed(name) PROVE OneWorks'
  BY <1>1, <1>6, SeedIs
<1>7. ASSUME NEW answer \in Lives, Redeploy(answer) PROVE OneWorks'
  BY <1>1, <1>7 DEF Redeploy
<1>8. CASE UNCHANGED xvars
  BY <1>1, <1>8 DEF xvars
<1> QED BY <1>2, <1>3, <1>4, <1>5, <1>6, <1>7, <1>8, XSteps

LEMMA NoSyncIs == NoSync.plugin = 0
BY DEF NoSync

LEMMA IdleFits ==
  ASSUME NEW s \in Servers, work'[s].pc = "idle"
  PROVE  WorkFits(s)'
BY DEF WorkFits

LEMMA SyncedGone ==
  ASSUME synced' = NoSync
  PROVE  SyncedFits'
BY NoSyncIs DEF SyncedFits

LEMMA NobodyElse ==
  ASSUME OneWorks, NEW s \in Servers, work[s].pc # "idle",
         \A t \in Servers \ {s} : work'[t] = work[t], WorkFits(s)'
  PROVE  \A t \in Servers : WorkFits(t)'
BY IdleFits DEF OneWorks

\* What was synced stays shown when no row of that plugin's actions comes or goes.
LEMMA SyncedStays ==
  ASSUME SyncedFits, UNCHANGED <<overlapping, synced, live>>, Ids \subseteq Ids',
         synced.plugin # 0 =>
           /\ \A k \in Ids : IsAction(synced.plugin, rows[k]) => rows'[k] = rows[k]
           /\ \A k \in Ids' : IsAction(synced.plugin, rows'[k]) =>
                k \in Ids /\ IsAction(synced.plugin, rows[k])
  PROVE  SyncedFits'
<1>1. CASE synced.plugin = 0
  BY <1>1 DEF SyncedFits
<1>2. CASE synced.plugin # 0
  <2> DEFINE P == synced.plugin
             list == synced.list
  <2>1. /\ ~overlapping /\ P \in Nat /\ list = live.list /\ list \in Seq(ReportedAction)
        /\ AllNamed(list) /\ Written(rows, P, list, Len(list), {})
    BY <1>2 DEF SyncedFits
  <2>2. /\ Len(list) \in Nat
        /\ \A j \in 1..Len(list) : list[j] \in ReportedAction /\ ~Nameless(list[j])
    BY <2>1, LenProperties, ElementOfSeq DEF AllNamed
  <2>3. \A j \in 1..Len(list) : IsAction(P, ActionRow(P, list[j]))
    BY <2>1, <2>2, ActionRows
  <2>4. /\ DOMAIN rows \subseteq DOMAIN rows'
        /\ \A k \in DOMAIN rows : IsAction(P, rows[k]) => rows'[k] = rows[k]
        /\ \A k \in DOMAIN rows' : IsAction(P, rows'[k]) => k \in DOMAIN rows /\ IsAction(P, rows[k])
    BY <1>2 DEF Ids
  <2> HIDE DEF P, list
  <2>5. Written(rows', P, list, Len(list), {})
    BY ONLY <2>1, <2>2, <2>3, <2>4, WrittenStays
  <2>6. synced'.plugin = P /\ synced'.list = list /\ live' = live /\ overlapping' = overlapping
    BY DEF P, list
  <2> QED BY <1>2, <2>1, <2>5, <2>6 DEF SyncedFits, P
<1> QED BY <1>1, <1>2

\* What a sync knows of the list when it syncs what the palette shows already.
LEMMA ResyncKnows ==
  ASSUME XBase, SyncedFits, NEW s \in Servers, WorkFits(s), work[s].pc = "write",
         synced.plugin = work[s].plugin
  PROVE  LET w == work[s]
         IN /\ SyncFits(rows, w) /\ Resynced(rows, w) /\ w.asked \in Seq(ReportedAction)
            /\ OneMethod(w.asked) /\ ShowsOnce(rows, w.plugin, w.asked)
<1> DEFINE w == work[s]
<1>1. /\ w.plugin \in Nat /\ w.plugin # 0 /\ w.asked \in Seq(ReportedAction) /\ AllNamed(w.asked)
  BY DEF XBase, WorkShape
<1>2. /\ SyncFits(rows, w) /\ Resynced(rows, w) /\ w.asked = synced.list
  BY DEF WorkFits
<1>3. /\ synced.list = live.list /\ Written(rows, w.plugin, w.asked, Len(w.asked), {})
  BY <1>1, <1>2 DEF SyncedFits
<1>4. ShowsOnce(rows, w.plugin, w.asked)
  BY <1>1, <1>3, ShownByMethod
<1>5. OneMethod(w.asked)
  <2>1. live \in Lives /\ w.asked = live.list
    BY <1>2, <1>3 DEF XBase
  <2>2. \A m, n \in DOMAIN w.asked :
          w.asked[m].method = w.asked[n].method /\ ~Nameless(w.asked[m]) => m = n
    BY <2>1, ExtensionData
  <2> QED BY <1>1, <2>2 DEF OneMethod, AllNamed
<1> QED BY <1>1, <1>2, <1>4, <1>5

LEMMA ListFits ==
  ASSUME XBase, SyncedFits, NEW s \in Servers, WorkFits(s), List(s)
  PROVE  WorkFits(s)' /\ SyncedFits'
<1> DEFINE w == work[s]
           v == work'[s]
<1>1. /\ w.pc = "list" /\ v.pc = "write" /\ rows' = rows /\ synced' = synced
      /\ v.plugin = w.plugin /\ v.asked = w.asked /\ v.rest = w.rest /\ v.claimed = {}
      /\ (\A n \in DOMAIN v.index : v.index[n][1] \in ActionsOf(w.plugin)
                                    /\ v.index[n][2] = rows[v.index[n][1]])
      /\ (\A m, n \in DOMAIN v.index : v.index[m][1] = v.index[n][1] => m = n)
      /\ (\A i \in ActionsOf(w.plugin) : \E n \in DOMAIN v.index : v.index[n][1] = i)
      /\ UNCHANGED <<overlapping, live>>
  BY ListIs
<1>2. w.rest = w.asked /\ w.asked \in Seq(ReportedAction)
  BY <1>1 DEF XBase, WorkShape
<1>3. SyncedFits'
  BY <1>1, SyncedStays DEF Ids
<1>4. Len(v.asked) \in Nat /\ v.rest = v.asked
  BY <1>1, <1>2, LenProperties
<1>5. Told(v) = 0
  BY <1>4 DEF Told
<1>6. Unclaimed(v) = DOMAIN v.index
  BY <1>1 DEF Unclaimed
<1>7. \A n \in DOMAIN v.index : v.index[n][1] \in Ids /\ IsAction(v.plugin, rows[v.index[n][1]])
  BY <1>1, ActionsAre
<1>8. \A i \in Ids : IsAction(v.plugin, rows[i]) => \E n \in DOMAIN v.index : v.index[n][1] = i
  BY <1>1, ActionsAre
<1> HIDE DEF v, w
<1>9. Written(rows, v.plugin, v.asked, 0, Spare(v))
  <2> DEFINE r == [j \in 1..0 |-> 0]
  <2>1. r \in [1..0 -> DOMAIN rows] /\ \A j : j \notin 1..0
    OBVIOUS
  <2>2. \A i \in DOMAIN rows : IsAction(v.plugin, rows[i]) => i \in Spare(v)
    BY <1>6, <1>8 DEF Spare, Ids
  <2> HIDE DEF r
  <2> QED BY <2>1, <2>2 DEF Written
<1>10. SyncFits(rows, v)
  BY <1>1, <1>4, <1>5, <1>6, <1>7, <1>9 DEF SyncFits
<1>11. Resynced(rows, v)
  BY <1>1, <1>5, <1>7, <1>8 DEF Resynced, Ids
<1>12. synced.plugin = v.plugin => v.asked = synced.list
  BY <1>1 DEF WorkFits, w
<1> QED BY <1>1, <1>3, <1>10, <1>11, <1>12 DEF WorkFits, v

LEMMA WriteFits ==
  ASSUME XBase, SyncedFits, NEW s \in Servers, WorkFits(s), WriteAction(s)
  PROVE  WorkFits(s)' /\ SyncedFits'
<1> DEFINE w == work[s]
           v == work'[s]
           h == Head(w.rest)
           a == [h EXCEPT !.title = NameOf(h)]
           n == Claim(w.index, w.claimed, a)
           i == IF n = 0 THEN Len(rows) + 1 ELSE w.index[n][1]
<1>1. /\ w.pc = "write" /\ n \in {0} \cup Unclaimed(w)
      /\ h \in ReportedAction /\ ~Nameless(h) /\ a.method = h.method
      /\ Ids' = Ids \cup {i}
      /\ rows'[i] = ActionRow(w.plugin, h) /\ (\A j \in Ids \ {i} : rows'[j] = rows[j])
      /\ (n = 0 => i \notin Ids) /\ (n # 0 => i \in Ids) /\ (n # 0 => i = w.index[n][1])
      /\ v.pc = "write" /\ v.plugin = w.plugin /\ v.asked = w.asked
      /\ v.index = w.index /\ v.claimed = w.claimed \cup ({n} \ {0})
      /\ Len(w.asked) \in Nat /\ Len(w.rest) \in Nat \ {0} /\ h = w.rest[1]
      /\ Len(v.rest) = Len(w.rest) - 1 /\ (\A j \in 1..Len(v.rest) : v.rest[j] = w.rest[j + 1])
      /\ UNCHANGED <<overlapping, live, synced>>
  BY WriteIs
<1>2. /\ DOMAIN w.index \subseteq Nat \ {0} /\ w.plugin \in Nat /\ w.plugin # 0
      /\ \A m \in DOMAIN w.index : w.index[m][1] \in Ids
  BY <1>1 DEF XBase, WorkShape
<1>3. /\ SyncFits(rows, w) /\ (synced.plugin = w.plugin => w.asked = synced.list)
  BY <1>1 DEF WorkFits
<1>4. IsAction(w.plugin, ActionRow(w.plugin, h))
  BY <1>1, <1>2, ActionRows
<1>5. synced.plugin = w.plugin =>
        /\ Resynced(rows, w) /\ w.asked \in Seq(ReportedAction)
        /\ OneMethod(w.asked) /\ ShowsOnce(rows, w.plugin, w.asked)
  BY <1>1, ResyncKnows
<1>6. n = Claim(w.index, w.claimed, a)
  OBVIOUS
<1>7. n # 0 => IsAction(w.plugin, rows[i])
  BY <1>1, <1>3 DEF SyncFits
<1>8. /\ n # 0 => i = w.index[n][1]
      /\ n = 0 => i \notin DOMAIN rows
      /\ DOMAIN rows' = DOMAIN rows \cup {i} /\ rows'[i] = ActionRow(w.plugin, w.rest[1])
      /\ \A k \in DOMAIN rows \ {i} : rows'[k] = rows[k]
      /\ \A m \in DOMAIN w.index : w.index[m][1] \in DOMAIN rows
  BY <1>1, <1>2 DEF Ids
<1> HIDE DEF v, w, h, a, n, i
<1>9. /\ SyncFits(rows', v) /\ Told(v) = Told(w) + 1 /\ Told(w) \in Nat
      /\ w.rest[1] = w.asked[Told(w) + 1] /\ Told(w) + 1 \in 1..Len(w.asked)
  <2>1. Tells(rows, rows', w, v, n, i)
    BY <1>1, <1>2, <1>8 DEF Tells
  <2> QED BY ONLY <1>3, <2>1, SyncTells
<1>10. synced.plugin = w.plugin =>
         /\ n \in DOMAIN w.index /\ n # 0 /\ w.index[n][2].action = a.method
         /\ rows[i] = ActionRow(w.plugin, h)
         /\ \A m \in DOMAIN w.index : w.index[m][2].action = a.method => m = n
  <2> SUFFICES ASSUME synced.plugin = w.plugin
               PROVE  /\ n \in DOMAIN w.index /\ n # 0 /\ w.index[n][2].action = a.method
                      /\ rows[i] = ActionRow(w.plugin, h)
                      /\ \A m \in DOMAIN w.index : w.index[m][2].action = a.method => m = n
    OBVIOUS
  <2>1. /\ SyncFits(rows, w) /\ Resynced(rows, w) /\ w.asked \in Seq(ReportedAction)
        /\ OneMethod(w.asked) /\ ShowsOnce(rows, w.plugin, w.asked)
        /\ DOMAIN w.index \subseteq Nat \ {0} /\ \A m \in DOMAIN w.index : w.index[m][1] \in DOMAIN rows
        /\ a.method = w.asked[Told(w) + 1].method
        /\ Told(w) \in Nat /\ Told(w) + 1 \in 1..Len(w.asked)
    BY <1>1, <1>2, <1>3, <1>5, <1>8, <1>9
  <2>2. LET k == Claim(w.index, w.claimed, a)
        IN /\ k \in DOMAIN w.index /\ w.index[k][2].action = a.method
           /\ rows[w.index[k][1]] = ActionRow(w.plugin, w.asked[Told(w) + 1])
           /\ \A m \in DOMAIN w.index : w.index[m][2].action = a.method => m = k
    BY ONLY <2>1, ResyncFinds
  <2>3. /\ n \in DOMAIN w.index /\ w.index[n][2].action = a.method
        /\ rows[w.index[n][1]] = ActionRow(w.plugin, w.asked[Told(w) + 1])
        /\ \A m \in DOMAIN w.index : w.index[m][2].action = a.method => m = n
    BY ONLY <2>2, <1>6
  <2>4. n # 0
    BY <1>2, <2>3
  <2> QED BY <1>1, <1>9, <2>3, <2>4
<1>11. synced.plugin = w.plugin => DOMAIN rows' = DOMAIN rows /\ \A k \in DOMAIN rows : rows'[k] = rows[k]
  BY <1>1, <1>8, <1>10 DEF Ids
<1>12. synced.plugin = w.plugin => Resynced(rows', v)
  <2> SUFFICES ASSUME synced.plugin = w.plugin PROVE Resynced(rows', v)
    OBVIOUS
  <2>1. /\ Resynced(rows, w) /\ n \in DOMAIN w.index /\ n # 0
        /\ Told(w) \in Nat /\ Told(v) = Told(w) + 1
        /\ w.index[n][2].action = w.asked[Told(w) + 1].method
        /\ \A m \in DOMAIN w.index : w.index[m][2].action = w.index[n][2].action => m = n
        /\ v.asked = w.asked /\ v.index = w.index /\ v.plugin = w.plugin
        /\ v.claimed = w.claimed \cup ({n} \ {0})
        /\ DOMAIN rows' = DOMAIN rows /\ \A k \in DOMAIN rows : rows'[k] = rows[k]
        /\ \A m \in DOMAIN w.index : w.index[m][1] \in DOMAIN rows
    BY <1>1, <1>5, <1>8, <1>9, <1>10, <1>11
  <2> QED BY ONLY <2>1, ResyncTells
<1>13. WorkFits(s)'
  BY <1>1, <1>3, <1>9, <1>12 DEF WorkFits, v
<1>14. ASSUME NEW k \in Ids', synced.plugin # 0, IsAction(synced.plugin, rows'[k])
       PROVE  k \in Ids /\ IsAction(synced.plugin, rows[k])
  <2>1. CASE synced.plugin = w.plugin
    BY <1>11, <1>14, <2>1 DEF Ids
  <2>2. CASE synced.plugin # w.plugin
    <3>1. k # i
      BY <1>1, <1>4, <1>14, <2>2 DEF IsAction
    <3> QED BY <1>1, <1>14, <3>1
  <2> QED BY <2>1, <2>2
<1>15. ASSUME NEW k \in Ids, synced.plugin # 0, IsAction(synced.plugin, rows[k])
       PROVE  rows'[k] = rows[k]
  <2>1. CASE synced.plugin = w.plugin
    BY <1>11, <2>1 DEF Ids
  <2>2. CASE synced.plugin # w.plugin
    <3>1. k # i
      BY <1>1, <1>7, <1>15, <2>2 DEF IsAction
    <3> QED BY <1>1, <3>1
  <2> QED BY <2>1, <2>2
<1>16. SyncedFits'
  BY <1>1, <1>14, <1>15, SyncedStays
<1> QED BY <1>13, <1>16

LEMMA DropFits ==
  ASSUME XBase, SyncedFits, NEW s \in Servers, WorkFits(s), DropStale(s)
  PROVE  WorkFits(s)' /\ SyncedFits'
<1> DEFINE w == work[s]
           v == work'[s]
<1>1. /\ w.pc = "write" /\ Len(w.rest) = 0 /\ Len(w.asked) \in Nat /\ Unclaimed(w) # {}
      /\ Ids' = Ids /\ UNCHANGED <<overlapping, live, synced>>
  BY DropIs
<1>2. PICK n \in Unclaimed(w) :
        /\ w.index[n][1] \in Ids
        /\ rows'[w.index[n][1]] = NoRow
        /\ (\A j \in Ids \ {w.index[n][1]} : rows'[j] = rows[j])
        /\ \/ rows[w.index[n][1]] = NoRow /\ v = NoWork
           \/ /\ v.pc = "write" /\ v.claimed = w.claimed \cup {n}
              /\ v.plugin = w.plugin /\ v.asked = w.asked /\ v.rest = w.rest
              /\ v.index = w.index
  BY DropIs
<1> DEFINE i == w.index[n][1]
<1>3. /\ SyncFits(rows, w) /\ \A m \in DOMAIN w.index : w.index[m][1] \in DOMAIN rows
  BY <1>1 DEF WorkFits, XBase, WorkShape, Ids
<1>4. synced.plugin # w.plugin
  <2> SUFFICES ASSUME synced.plugin = w.plugin PROVE FALSE
    OBVIOUS
  <2>1. /\ SyncFits(rows, w) /\ Resynced(rows, w) /\ w.asked \in Seq(ReportedAction)
        /\ ShowsOnce(rows, w.plugin, w.asked)
    BY <1>1, ResyncKnows
  <2> HIDE DEF w
  <2>2. Unclaimed(w) = {}
    BY ONLY <1>1, <1>3, <2>1, ResyncLeaves
  <2> QED BY <1>1, <2>2
<1>5. IsAction(w.plugin, rows[i])
  BY <1>3 DEF SyncFits
<1>6. \A P : ~IsAction(P, NoRow)
  BY ExtBlanks DEF IsAction
<1>7. /\ v.pc = "write" /\ v.claimed = w.claimed \cup {n}
      /\ v.plugin = w.plugin /\ v.asked = w.asked /\ v.rest = w.rest /\ v.index = w.index
  BY <1>2, <1>5, <1>6
<1>8. /\ DOMAIN rows' = DOMAIN rows /\ ~IsAction(w.plugin, rows'[w.index[n][1]])
      /\ \A k \in DOMAIN rows \ {w.index[n][1]} : rows'[k] = rows[k]
  BY <1>1, <1>2, <1>6 DEF Ids
<1>9. ASSUME NEW k \in Ids, IsAction(synced.plugin, rows[k]) PROVE rows'[k] = rows[k]
  BY <1>2, <1>4, <1>5, <1>9 DEF IsAction
<1>10. ASSUME NEW k \in Ids', IsAction(synced.plugin, rows'[k])
       PROVE  k \in Ids /\ IsAction(synced.plugin, rows[k])
  BY <1>1, <1>2, <1>6, <1>10
<1>11. SyncedFits'
  BY <1>1, <1>9, <1>10, SyncedStays
<1> HIDE DEF v, w
<1>12. SyncFits(rows', v)
  BY ONLY <1>1, <1>2, <1>3, <1>7, <1>8, SyncDrops
<1>13. WorkFits(s)'
  BY <1>1, <1>4, <1>7, <1>12 DEF WorkFits, v
<1> QED BY <1>11, <1>13

LEMMA EndFits ==
  ASSUME XBase, SyncedFits, NEW s \in Servers, WorkFits(s), EndSync(s)
  PROVE  WorkFits(s)' /\ SyncedFits'
<1> DEFINE w == work[s]
<1>1. /\ w.pc = "write" /\ Len(w.rest) = 0 /\ Unclaimed(w) = {}
      /\ \/ synced' = NoSync
         \/ /\ ~overlapping /\ w.asked = live.list
            /\ synced'.plugin = w.plugin /\ synced'.list = w.asked
      /\ work'[s] = NoWork /\ UNCHANGED <<overlapping, rows, live>>
  BY EndIs
<1>2. /\ w.plugin \in Nat /\ w.plugin # 0 /\ w.asked \in Seq(ReportedAction) /\ AllNamed(w.asked)
      /\ Len(w.asked) \in Nat
  BY <1>1, LenProperties DEF XBase, WorkShape
<1>3. WorkFits(s)'
  BY <1>1, WorkBlank, IdleFits
<1>4. Written(rows, w.plugin, w.asked, Told(w), Spare(w))
  BY <1>1 DEF WorkFits, SyncFits
<1>5. Told(w) = Len(w.asked) /\ Spare(w) = {}
  BY <1>1, <1>2, ToldAll DEF Spare
<1>6. SyncedFits'
  BY <1>1, <1>2, <1>4, <1>5, SyncedGone DEF SyncedFits
<1> QED BY <1>3, <1>6

LEMMA WorksFits ==
  ASSUME XBase, SyncedFits, OneWorks, NEW s \in Servers, WorkFits(s), Works(s)
  PROVE  SyncedFits' /\ \A t \in Servers : WorkFits(t)'
<1>1. work[s].pc # "idle" /\ \A t \in Servers \ {s} : work'[t] = work[t]
  BY WorkIs DEF Works
<1>2. CASE Save(s)
  <2>1. synced' = NoSync /\ work'[s] = NoWork
    BY <1>2, SaveIs
  <2> QED BY <1>1, <2>1, WorkBlank, IdleFits, SyncedGone, NobodyElse
<1>3. CASE Delete(s)
  <2>1. synced' = NoSync /\ work'[s].pc \in {"idle", "sweep"}
    BY <1>3, DeleteIs
  <2>2. WorkFits(s)'
    BY <2>1, NoSyncIs DEF WorkFits
  <2> QED BY <1>1, <2>1, <2>2, SyncedGone, NobodyElse
<1>4. CASE Sweep(s)
  <2>1. work[s].pc = "sweep" /\ work'[s] = NoWork /\ synced' = synced
    BY <1>4, SweepIs
  <2>2. synced' = NoSync
    BY <2>1 DEF WorkFits, SyncedFits
  <2> QED BY <1>1, <2>1, <2>2, WorkBlank, IdleFits, SyncedGone, NobodyElse
<1>5. CASE Ask(s)
  <2>1. /\ work'[s].pc \in {"idle", "list"} /\ WorkShape(work'[s], Ids)
        /\ work'[s].pc = "list" => work'[s].asked = Named(live.list)
        /\ UNCHANGED <<overlapping, rows, live, synced>>
    BY <1>5, AskIs
  <2>2. SyncedFits'
    BY <2>1, SyncedStays DEF Ids
  <2>3. work'[s].pc = "list" /\ synced.plugin = work'[s].plugin => work'[s].asked = synced.list
    <3>1. work'[s].pc = "list" => work'[s].plugin # 0
      BY <2>1 DEF WorkShape
    <3>2. synced.plugin # 0 => Named(live.list) = synced.list
      BY NamedLists DEF SyncedFits
    <3> QED BY <2>1, <3>1, <3>2
  <2>4. WorkFits(s)'
    BY <2>1, <2>3 DEF WorkFits
  <2> QED BY <1>1, <2>2, <2>4, NobodyElse
<1>6. CASE List(s)
  BY <1>1, <1>6, ListFits, NobodyElse
<1>7. CASE WriteAction(s)
  BY <1>1, <1>7, WriteFits, NobodyElse
<1>8. CASE DropStale(s)
  BY <1>1, <1>8, DropFits, NobodyElse
<1>9. CASE EndSync(s)
  BY <1>1, <1>9, EndFits, NobodyElse
<1> QED BY <1>2, <1>3, <1>4, <1>5, <1>6, <1>7, <1>8, <1>9 DEF Works

LEMMA FitsStep ==
  ASSUME XBase, BootFits, SyncedFits, ~overlapping, OneWorks, \A s \in Servers : WorkFits(s),
         [XNext]_xvars
  PROVE  SyncedFits' /\ \A s \in Servers : WorkFits(s)'
<1>1. ASSUME UNCHANGED <<overlapping, rows, live, synced>> PROVE SyncedFits'
  BY <1>1, SyncedStays DEF Ids
<1>2. ASSUME ~Serving, work' = work PROVE \A s \in Servers : WorkFits(s)'
  BY <1>2, IdleFits DEF BootFits, NobodyWorks
<1>3. \A P : ~IsAction(P, NoRow)
  BY ExtBlanks DEF IsAction
<1>4. \A k \in Ids : rows[k] \in ExtRows
  BY TableParts DEF XBase
<1>5. CASE UNCHANGED xvars
  <2>1. UNCHANGED <<overlapping, rows, live, synced, work, unread>>
    BY <1>5 DEF xvars
  <2> QED BY <1>1, <2>1 DEF WorkFits
<1>6. ASSUME NEW name \in Retired, Prune(name)
      PROVE  SyncedFits' /\ \A s \in Servers : WorkFits(s)'
  <2>1. /\ ~Serving /\ work' = work /\ Ids' = Ids /\ UNCHANGED <<overlapping, live, synced>>
        /\ \/ rows' = rows
           \/ \E i \in BuiltinsOf(rows, name) :
                rows'[i] = NoRow /\ \A j \in Ids \ {i} : rows'[j] = rows[j]
    BY <1>6, PruneIs
  <2>2. ASSUME NEW i \in BuiltinsOf(rows, name), rows'[i] = NoRow, \A j \in Ids \ {i} : rows'[j] = rows[j]
        PROVE  SyncedFits'
    <3>1. i \in Ids /\ NoAction(rows[i])
      BY <1>4, RowParts DEF BuiltinsOf, Ids
    <3>2. ~IsAction(synced.plugin, rows[i]) /\ ~IsAction(synced.plugin, rows'[i])
      BY <1>3, <2>2, <3>1 DEF IsAction
    <3>3. /\ \A k \in Ids : IsAction(synced.plugin, rows[k]) => rows'[k] = rows[k]
          /\ \A k \in Ids' : IsAction(synced.plugin, rows'[k]) =>
               k \in Ids /\ IsAction(synced.plugin, rows[k])
      BY <2>1, <2>2, <3>2
    <3> QED BY <2>1, <3>3, SyncedStays
  <2> QED BY <1>1, <1>2, <2>1, <2>2
<1>7. ASSUME NEW name \in DOMAIN Builtins, Seed(name)
      PROVE  SyncedFits' /\ \A s \in Servers : WorkFits(s)'
  <2>1. /\ ~Serving /\ work' = work /\ Ids \subseteq Ids' /\ UNCHANGED <<overlapping, live, synced>>
        /\ rows' \in Seq(ExtRows)
        /\ \A j \in Ids : /\ rows'[j].action = rows[j].action
                          /\ rows[j].kind # "builtin" => rows'[j] = rows[j]
        /\ \A j \in Ids' \ Ids : rows'[j].kind = "builtin"
    BY <1>7, SeedIs
  <2>2. \A j \in Ids : ~NoAction(rows[j]) => rows'[j] = rows[j]
    BY <1>4, <2>1, RowParts
  <2>3. \A j \in Ids : ~NoAction(rows'[j]) => rows'[j] = rows[j]
    BY <2>1, <2>2, ActionsAlike
  <2>4. \A j \in Ids' \ Ids : NoAction(rows'[j])
    <3>1. \A j \in Ids' : rows'[j] \in ExtRows
      BY <2>1, LenProperties, ElementOfSeq DEF Ids
    <3> QED BY <2>1, <3>1, RowParts
  <2>5. /\ \A k \in Ids : IsAction(synced.plugin, rows[k]) => rows'[k] = rows[k]
        /\ \A k \in Ids' : IsAction(synced.plugin, rows'[k]) =>
             k \in Ids /\ IsAction(synced.plugin, rows[k])
    BY <2>1, <2>2, <2>3, <2>4 DEF IsAction
  <2> QED BY <1>2, <2>1, <2>5, SyncedStays
<1>8. CASE Restart
  <2>1. UNCHANGED <<overlapping, rows, live, synced>> /\ \A s \in Servers : work'[s].pc = "idle"
    BY <1>8, WorkBlank DEF Restart
  <2> QED BY <1>1, <2>1, IdleFits
<1>9. ASSUME NEW answer \in Lives, Redeploy(answer)
      PROVE  SyncedFits' /\ \A s \in Servers : WorkFits(s)'
  <2>1. synced' = NoSync /\ UNCHANGED <<rows, work, unread>>
    BY <1>9 DEF Redeploy
  <2>2. ASSUME NEW s \in Servers PROVE WorkFits(s)'
    <3>1. work[s].pc \in {"list", "write"} => work[s].plugin # 0
      BY DEF XBase, WorkShape
    <3>2. synced'.plugin = 0
      BY <2>1, NoSyncIs
    <3> QED BY <2>1, <3>1, <3>2 DEF WorkFits
  <2> QED BY <2>1, <2>2, SyncedGone
<1>10. ASSUME NEW s \in Servers, NEW i \in 0..MaxRows, BeginsAt(s, i)
       PROVE  SyncedFits' /\ \A t \in Servers : WorkFits(t)'
  <2>1. /\ overlapping \/ NobodyWorks
        /\ UNCHANGED <<overlapping, rows, live, synced>>
        /\ \A t \in Servers \ {s} : work'[t] = work[t]
        /\ work'[s].pc \in {"save", "delete", "ask"}
        /\ work'[s].pc = "save" /\ unread' = 0 /\ work'[s].id # 0
              /\ work'[s].body.kind = "extension" /\ rows[work'[s].id].plugin # 0
              => work'[s].body.plugin = rows[work'[s].id].plugin
    BY <1>10, BeginIs DEF BeginsAt
  <2>2. WorkFits(s)'
    BY <2>1 DEF WorkFits
  <2>3. \A t \in Servers \ {s} : WorkFits(t)'
    BY <2>1, IdleFits DEF NobodyWorks
  <2> QED BY <1>1, <2>1, <2>2, <2>3
<1>11. ASSUME NEW s \in Servers, Works(s)
       PROVE  SyncedFits' /\ \A t \in Servers : WorkFits(t)'
  BY <1>11, WorksFits
<1> QED BY <1>5, <1>6, <1>7, <1>8, <1>9, <1>10, <1>11, XSteps

\* A palette that was synced while requests overlap is not remembered as synced.
LEMMA OverlapStep ==
  ASSUME XBase, SyncedFits, overlapping, [XNext]_xvars
  PROVE  SyncedFits'
<1>1. synced = NoSync
  BY DEF SyncedFits
<1>2. synced' = NoSync
  <2>1. ASSUME NEW s \in Servers, Works(s) PROVE synced' = NoSync
    BY <1>1, <2>1, SaveIs, DeleteIs, SweepIs, AskIs, ListIs, WriteIs, DropIs, EndIs DEF Works
  <2>2. ASSUME NEW s \in Servers, NEW i \in 0..MaxRows, BeginsAt(s, i) PROVE synced' = NoSync
    BY <1>1, <2>2, BeginIs DEF BeginsAt
  <2>3. ASSUME NEW name \in Retired, Prune(name) PROVE synced' = NoSync
    BY <1>1, <2>3, PruneIs
  <2>4. ASSUME NEW name \in DOMAIN Builtins, Seed(name) PROVE synced' = NoSync
    BY <1>1, <2>4, SeedIs
  <2>5. CASE Restart \/ (\E answer \in Lives : Redeploy(answer)) \/ UNCHANGED xvars
    BY <1>1, <2>5 DEF Restart, Redeploy, xvars
  <2> QED BY <2>1, <2>2, <2>3, <2>4, <2>5, XSteps
<1> QED BY <1>2, SyncedGone

LEMMA ExtensionsStep ==
  ASSUME ExtensionsInv, [XNext]_xvars
  PROVE  ExtensionsInv'
<1>1. XBase /\ BootFits /\ EditFits /\ SyncedFits
      /\ (~overlapping => OneWorks /\ \A s \in Servers : WorkFits(s))
  BY DEF ExtensionsInv
<1>2. XBase' /\ BootFits' /\ EditFits'
  BY <1>1, XBaseStep, BootStep, EditStep
<1>3. overlapping' = overlapping
  <2>1. ASSUME NEW s \in Servers, Works(s) PROVE overlapping' = overlapping
    BY <1>1, <2>1, WorkIs DEF Works
  <2>2. ASSUME NEW s \in Servers, NEW i \in 0..MaxRows, BeginsAt(s, i) PROVE overlapping' = overlapping
    BY <1>1, <2>2, BeginIs DEF BeginsAt
  <2>3. ASSUME NEW name \in Retired, Prune(name) PROVE overlapping' = overlapping
    BY <1>1, <2>3, PruneIs
  <2>4. ASSUME NEW name \in DOMAIN Builtins, Seed(name) PROVE overlapping' = overlapping
    BY <1>1, <2>4, SeedIs
  <2>5. CASE Restart \/ (\E answer \in Lives : Redeploy(answer)) \/ UNCHANGED xvars
    BY <2>5 DEF Restart, Redeploy, xvars
  <2> QED BY <2>1, <2>2, <2>3, <2>4, <2>5, XSteps
<1>4. CASE overlapping
  BY <1>1, <1>2, <1>3, <1>4, OverlapStep DEF ExtensionsInv
<1>5. CASE ~overlapping
  BY <1>1, <1>2, <1>3, <1>5, FitsStep, OneWorksStep DEF ExtensionsInv
<1> QED BY <1>4, <1>5

LEMMA ExtensionsInitial ==
  ASSUME XInit
  PROVE  ExtensionsInv
<1>1. /\ overlapping \in BOOLEAN /\ begun = 0 /\ unread = 0 /\ live \in Lives /\ rows \in OldRows
      /\ Len(rows) <= MaxRows
  BY ExtensionsOK DEF XInit
<1>2. rows \in Seq(ExtRows)
  <2>1. /\ rows \in Seq(ExtRowsOf({"builtin", "extension"}))
        /\ \A i \in DOMAIN rows : rows[i].kind = "builtin" => NoAction(rows[i])
    BY <1>1, ExtensionData
  <2>2. Len(rows) \in Nat /\ DOMAIN rows = 1..Len(rows)
    BY <2>1, LenProperties
  <2>3. ASSUME NEW i \in 1..Len(rows) PROVE rows[i] \in ExtRows
    <3>1. rows[i] \in ExtRowsOf({"builtin", "extension"}) /\ (rows[i].kind = "builtin" => NoAction(rows[i]))
      BY <2>1, <2>2, ElementOfSeq
    <3> QED BY <3>1 DEF ExtRows, ExtRowsOf
  <2>4. rows = [i \in 1..Len(rows) |-> rows[i]]
    BY <2>1, LenProperties
  <2>5. rows \in [1..Len(rows) -> ExtRows]
    BY ONLY <2>3, <2>4
  <2> QED BY <2>2, <2>5, SeqDef
<1>3. boot.prune = Retired /\ boot.seed = DOMAIN Builtins
      /\ boot \in [prune : SUBSET Retired, seed : SUBSET DOMAIN Builtins]
  BY DEF XInit, AllSeeding
<1>4. DOMAIN work = Servers /\ \A s \in Servers : work[s] = NoWork
  BY DEF XInit
<1>5. DOMAIN edited = {} /\ Untouched /\ synced = NoSync
  <2>1. DOMAIN << >> = {}
    OBVIOUS
  <2> QED BY <2>1, Zenon DEF XInit, Untouched
<1>6. XBase
  BY <1>1, <1>2, <1>3, <1>4, <1>5, WorkBlank DEF XBase
<1>7. BootFits
  <2>1. OneOfEach(rows)
    BY <1>1, ExtensionData DEF OneOfEach
  <2>2. NobodyWorks
    BY <1>4, WorkBlank DEF NobodyWorks
  <2> QED BY <1>3, <2>1, <2>2 DEF BootFits
<1>8. EditFits /\ SyncedFits
  BY <1>5, NoSyncIs DEF EditFits, SyncedFits
<1>9. OneWorks /\ \A s \in Servers : WorkFits(s)
  BY <1>4, WorkBlank DEF OneWorks, WorkFits
<1> QED BY <1>6, <1>7, <1>8, <1>9 DEF ExtensionsInv

LEMMA ShownOnce ==
  ASSUME XBase, SyncedFits
  PROVE  PaletteFollows
<1> SUFFICES ASSUME synced # NoSync
             PROVE  LET shown == [i \in ActionsOf(synced.plugin) |-> <<rows[i].action, rows[i].name>>]
                    IN /\ Range(shown) = {<<a.method, NameOf(a)>> : a \in Range(synced.list)}
                       /\ Cardinality(DOMAIN shown) = Len(synced.list)
  BY DEF PaletteFollows
<1> DEFINE P == synced.plugin
           list == synced.list
           d == Len(list)
           palette == ActionsOf(P)
           shown == [i \in palette |-> <<rows[i].action, rows[i].name>>]
<1>1. /\ P \in Nat /\ list \in Seq(ReportedAction) /\ AllNamed(list)
      /\ Written(rows, P, list, d, {})
  BY DEF SyncedFits
<1>2. /\ d \in Nat /\ DOMAIN list = 1..d
      /\ \A j \in 1..d : list[j] \in ReportedAction /\ ~Nameless(list[j])
  BY <1>1, LenProperties, ElementOfSeq DEF AllNamed
<1>3. \A j \in 1..d : /\ ActionRow(P, list[j]).action = list[j].method
                      /\ ActionRow(P, list[j]).name = NameOf(list[j])
                      /\ IsAction(P, ActionRow(P, list[j]))
  BY <1>1, <1>2, ActionRows, ZenonT(60)
<1>4. PICK r \in [1..d -> DOMAIN rows] :
        /\ \A j, k \in 1..d : r[j] = r[k] => j = k
        /\ \A j \in 1..d : rows[r[j]] = ActionRow(P, list[j]) /\ r[j] \notin {}
        /\ \A i \in DOMAIN rows : IsAction(P, rows[i]) => i \in {} \/ \E j \in 1..d : r[j] = i
  BY <1>1 DEF Written
<1>5. palette = {i \in DOMAIN rows : IsAction(P, rows[i])}
  BY ActionsAre DEF Ids
<1> HIDE DEF palette, d, list, P
<1>6. /\ \A j \in 1..d : r[j] \in palette /\ rows[r[j]].action = list[j].method
                         /\ rows[r[j]].name = NameOf(list[j])
      /\ \A i \in palette : \E j \in 1..d : r[j] = i
  BY <1>3, <1>4, <1>5
<1>7. Cardinality(palette) = d
  <2>1. r \in Bijection(1..d, palette)
    BY <1>4, <1>6 DEF Bijection, Injection, Surjection, IsInjective
  <2>2. IsFiniteSet(1..d) /\ Cardinality(1..d) = d
    BY <1>2, FS_Interval
  <2>3. ExistsBijection(1..d, palette)
    BY <2>1 DEF ExistsBijection
  <2> QED BY <2>2, <2>3, FS_Bijection
<1>8. Range(shown) = {<<a.method, NameOf(a)>> : a \in Range(list)}
  <2>1. \A j \in 1..d : shown[r[j]] = <<list[j].method, NameOf(list[j])>>
    BY <1>6
  <2>2. Range(shown) = {shown[i] : i \in palette} /\ Range(list) = {list[j] : j \in 1..d}
    BY <1>2 DEF Range
  <2> HIDE DEF shown
  <2>3. ASSUME NEW i \in palette
        PROVE  shown[i] \in {<<a.method, NameOf(a)>> : a \in Range(list)}
    <3>1. PICK j \in 1..d : r[j] = i
      BY <1>6
    <3>2. list[j] \in Range(list) /\ shown[i] = <<list[j].method, NameOf(list[j])>>
      BY <2>1, <2>2, <3>1
    <3> QED BY <3>2
  <2>4. ASSUME NEW a \in Range(list) PROVE <<a.method, NameOf(a)>> \in Range(shown)
    <3>1. PICK j \in 1..d : a = list[j]
      BY <2>2
    <3>2. r[j] \in palette /\ shown[r[j]] = <<a.method, NameOf(a)>>
      BY <1>6, <2>1, <3>1
    <3> QED BY <2>2, <3>2
  <2> QED BY <2>2, <2>3, <2>4
<1>9. Cardinality(DOMAIN shown) = d
  BY <1>7
<1> QED BY <1>8, <1>9 DEF palette, d, list, P

LEMMA ExtensionsShown ==
  ASSUME ExtensionsInv
  PROVE  XTypeOK /\ PaletteFollows /\ BuiltinsSurvive
<1>1. XBase /\ BootFits /\ EditFits /\ SyncedFits
  BY DEF ExtensionsInv
<1>2. XTypeOK
  <2>1. \A i \in Ids : rows[i] \in ExtRows
    BY <1>1, TableParts DEF XBase
  <2> QED BY <1>1, <2>1, RowParts DEF XTypeOK, XBase, WorkShape, WorkPcs
<1>3. PaletteFollows
  BY <1>1, ShownOnce
<1>4. ASSUME boot.prune = {}, boot.seed # {}
      PROVE  /\ \A name \in DOMAIN Builtins \ boot.seed :
                  /\ BuiltinNamed(name) # {}
                  /\ Builtins[name] # 0 => rows[Min(BuiltinNamed(name))].plugin # 0
             /\ Untouched => \A name \in Retired : BuiltinNamed(name) = {}
  <2> HIDE DEF BuiltinNamed
  <2> QED BY <1>1, <1>4, BuiltinsAre DEF BootFits, Planted
<1>5. BuiltinsSurvive
  BY <1>1, <1>4, Zenon DEF BuiltinsSurvive, EditFits, Untouched
<1> QED BY <1>2, <1>3, <1>5

LEMMA PluginIdStep ==
  ASSUME ExtensionsInv, [XNext]_xvars
  PROVE  PluginIdKept
<1> SUFFICES ASSUME NEW i \in Ids, rows[i].kind = "extension", rows'[i].kind = "extension",
                    rows[i].plugin # 0, ~overlapping, unread = 0
             PROVE  rows'[i].plugin = rows[i].plugin
  BY DEF PluginIdKept
<1>1. XBase /\ \A s \in Servers : WorkFits(s)
  BY DEF ExtensionsInv
<1>2. rows'[i] # NoRow
  BY ExtBlanks
<1>3. ASSUME NEW name \in Retired, Prune(name) PROVE rows'[i] = rows[i]
  BY <1>1, <1>2, <1>3, PruneIs
<1>4. ASSUME NEW name \in DOMAIN Builtins, Seed(name) PROVE rows'[i] = rows[i]
  BY <1>1, <1>4, SeedIs
<1>5. ASSUME NEW s \in Servers, NEW j \in 0..MaxRows, BeginsAt(s, j) PROVE rows'[i] = rows[i]
  BY <1>1, <1>5, BeginIs DEF BeginsAt
<1>6. CASE UNCHANGED xvars \/ Restart \/ \E answer \in Lives : Redeploy(answer)
  BY <1>6 DEF xvars, Restart, Redeploy
<1>7. ASSUME NEW s \in Servers, Save(s) PROVE rows'[i].plugin = rows[i].plugin
  <2>1. LET w == work[s]
            j == IF w.id = 0 THEN Len(rows) + 1 ELSE w.id
        IN /\ w.pc = "save" /\ rows'[j] = w.body /\ (\A k \in Ids \ {j} : rows'[k] = rows[k])
           /\ (w.id = 0 => j \notin Ids)
    BY <1>1, <1>7, SaveIs
  <2>2. WorkFits(s)
    BY <1>1
  <2> QED BY <2>1, <2>2 DEF WorkFits
<1>8. ASSUME NEW s \in Servers, Delete(s) \/ Sweep(s) \/ Ask(s) \/ List(s) \/ DropStale(s) \/ EndSync(s)
      PROVE  rows'[i] = rows[i]
  BY <1>1, <1>2, <1>8, DeleteIs, SweepIs, AskIs, ListIs, DropIs, EndIs
<1>9. ASSUME NEW s \in Servers, WriteAction(s) PROVE rows'[i].plugin = rows[i].plugin
  <2> DEFINE w == work[s]
             h == Head(w.rest)
             n == Claim(w.index, w.claimed, [h EXCEPT !.title = NameOf(h)])
             j == IF n = 0 THEN Len(rows) + 1 ELSE w.index[n][1]
  <2>1. /\ w.pc = "write" /\ n \in {0} \cup Unclaimed(w)
        /\ h \in ReportedAction /\ ~Nameless(h)
        /\ rows'[j] = ActionRow(w.plugin, h) /\ (\A k \in Ids \ {j} : rows'[k] = rows[k])
        /\ (n = 0 => j \notin Ids) /\ (n # 0 => j = w.index[n][1])
    BY <1>1, <1>9, WriteIs
  <2>2. SyncFits(rows, w) /\ w.plugin \in Nat
    BY <1>1, <2>1 DEF WorkFits, XBase, WorkShape
  <2> HIDE DEF w, h, n, j
  <2>3. CASE i = j
    <3>1. rows[i].plugin = w.plugin
      BY <2>1, <2>2, <2>3 DEF SyncFits, IsAction
    <3>2. rows'[i].plugin = w.plugin
      BY <2>1, <2>2, <2>3, ActionRows
    <3> QED BY <3>1, <3>2
  <2>4. CASE i # j
    BY <2>1, <2>4
  <2> QED BY <2>3, <2>4
<1> QED BY <1>3, <1>4, <1>5, <1>6, <1>7, <1>8, <1>9, XSteps DEF Works
=============================================================================
