----------------------------- MODULE PluginControl -----------------------------
(***************************************************************************)
(* The installer and the control script that the API renders for a plugin, *)
(* for bash and for PowerShell, as they run on the host of its user: a     *)
(* checkout, a build, a dotenv, a pid file and the processes of the host,  *)
(* or a container.                                                         *)
(*                                                                         *)
(* One command runs at a time; the plugin may exit, the host may reboot    *)
(* and other programs may be given the pids the plugin had, between any    *)
(* two of its steps.                                                       *)
(***************************************************************************)
EXTENDS Naturals, FiniteSets

CONSTANTS
  Pid,         \* pids of the host
  Flavours,    \* of {"bash", "ps"}: the scripts to check
  Runtimes,    \* of {"go", "node", "docker"}: what the checkout holds
  MaxRev,      \* bound on revisions of the source
  MaxCommands, \* bound on commands
  MaxMishaps   \* bound on exits, reboots and pids taken by others

ASSUME PluginControlOK ==
  /\ Flavours \subseteq {"bash", "ps"}
  /\ Runtimes \subseteq {"go", "node", "docker"}
  /\ 0 \notin Pid
  /\ MaxRev \in Nat \ {0}
  /\ {MaxCommands, MaxMishaps} \subseteq Nat

VARIABLES
  kind,       \* the script in use and the runtime it resolves to
  upstream,   \* the newest revision of the repository
  checkout,   \* the revision checked out, 0 for none
  built,      \* the revision built: a binary, installed modules or an image
  dotenv,     \* is the plugin's dotenv there?
  pidFile,    \* the pid recorded, 0 for no pid file
  procs,      \* the processes: nobody, an instance of the plugin, another's
  container,  \* the container by the plugin's name
  shell,      \* the command in progress
  commands,   \* commands begun
  mishaps,    \* mishaps so far
  promised    \* history: the revision a finished restart has promised, or 0

pvars == <<kind, upstream, checkout, built, dotenv, pidFile, procs, container,
           shell, commands, mishaps, promised>>
host == <<pidFile, procs, container>>
disk == <<checkout, built, dotenv>>

Nobody == [who |-> "nobody", rev |-> 0]
Other == [who |-> "other", rev |-> 0]
Instance(rev) == [who |-> "plugin", rev |-> rev]
NoContainer == [there |-> FALSE, running |-> FALSE, rev |-> 0]
NoCommand == [command |-> "none", pc |-> "idle", pid |-> 0]

Docker == kind.runtime = "docker"
Live == {p \in Pid : procs[p].who = "plugin"}

PInit ==
  /\ kind \in [flavour : Flavours, runtime : Runtimes]
  /\ upstream = 1
  /\ checkout = 0
  /\ built = 0
  /\ dotenv = FALSE
  /\ pidFile = 0
  /\ procs = [p \in Pid |-> Nobody]
  /\ container = NoContainer
  /\ shell = NoCommand
  /\ commands = 0
  /\ mishaps = 0
  /\ promised = 0

-----------------------------------------------------------------------------
(* The installer                                                           *)

Step(pc) == shell' = [shell EXCEPT !.pc = pc, !.pid = 0]
Fail == shell' = NoCommand
Succeed == shell' = NoCommand

Run(command, pc) ==
  /\ shell = NoCommand
  /\ commands < MaxCommands
  /\ commands' = commands + 1
  /\ shell' = [NoCommand EXCEPT !.command = command, !.pc = pc]
  /\ promised' = 0
  /\ UNCHANGED <<kind, upstream, disk, host, mishaps>>

Install == Run("install", "source")

\* A clone or, where there is a checkout, a fetch of the newest revision.
Source ==
  /\ shell.pc = "source"
  /\ \/ checkout' = upstream /\ Step("env")
     \/ Fail /\ UNCHANGED checkout
  /\ UNCHANGED <<kind, upstream, built, dotenv, host, commands, mishaps, promised>>

WriteFiles ==
  /\ shell.pc = "env"
  /\ dotenv' = TRUE
  /\ Step("build")
  /\ UNCHANGED <<kind, upstream, checkout, built, host, commands, mishaps, promised>>

\* Both installers build and then start: a plugin that is up stays as it is.
Build ==
  /\ shell.pc = "build"
  /\ \/ /\ built' = checkout
        /\ IF shell.command = "install" THEN Step("check") ELSE Succeed
     \/ Fail /\ UNCHANGED built
  /\ UNCHANGED <<kind, upstream, checkout, dotenv, host, commands, mishaps, promised>>

-----------------------------------------------------------------------------
(* The control script                                                      *)

\* The pid in the pid file, when some process has it.
PidRunning == IF pidFile # 0 /\ procs[pidFile].who # "nobody" THEN pidFile ELSE 0
GetPluginPid == IF pidFile # 0 /\ procs[pidFile].who # "nobody" THEN pidFile ELSE 0
RecordedPid == IF kind.flavour = "bash" THEN PidRunning ELSE GetPluginPid

Present == checkout # 0 /\ dotenv
StartCommand == Present /\ Run("start", "check")
StopCommand == Present /\ Run("stop", "find")
RestartCommand == Present /\ Run("restart", "find")
BuildCommand == Present /\ Run("build", "build")

\* A plugin that is up is not started again.
NeverUp == FALSE
AlreadyUp == RecordedPid # 0

StartCheck ==
  /\ shell.pc = "check" /\ ~Docker
  /\ IF AlreadyUp THEN Succeed
     ELSE IF kind.runtime = "go" /\ built = 0 THEN Fail
     ELSE Step("launch")
  /\ UNCHANGED <<kind, upstream, disk, host, commands, mishaps, promised>>

\* The process runs the binary, or what npm finds in the checkout.
RevRun == IF kind.runtime = "go" THEN built ELSE checkout

Launch ==
  /\ shell.pc = "launch"
  /\ \E p \in Pid :
       /\ procs[p] = Nobody
       /\ procs' = [procs EXCEPT ![p] = Instance(RevRun)]
       /\ pidFile' = p
       /\ shell' = [shell EXCEPT !.pc = "verify", !.pid = p]
  /\ UNCHANGED <<kind, upstream, disk, container, commands, mishaps, promised>>

\* Two seconds later: is the pid still somebody's?
Verify ==
  /\ shell.pc = "verify"
  /\ IF RecordedPid # 0 THEN UNCHANGED pidFile
     ELSE pidFile' = IF kind.flavour = "ps" THEN 0 ELSE pidFile
  /\ promised' = IF RecordedPid # 0 /\ shell.command = "restart"
                     /\ procs[RecordedPid].who = "plugin" THEN RevRun ELSE 0
  /\ Succeed
  /\ UNCHANGED <<kind, upstream, disk, procs, container, commands, mishaps>>

\* A container that is there is started as it is; else one is made of the
\* image with the dotenv.
StartContainer ==
  /\ shell.pc = "check" /\ Docker
  /\ IF container.running THEN UNCHANGED <<container, promised>>
     ELSE /\ container.there \/ built # 0
          /\ container' = IF container.there THEN [container EXCEPT !.running = TRUE]
                          ELSE [there |-> TRUE, running |-> TRUE, rev |-> built]
          /\ promised' = IF shell.command = "restart" THEN built ELSE 0
  /\ Succeed
  /\ UNCHANGED <<kind, upstream, disk, pidFile, procs, commands, mishaps>>

\* No image to run: docker fails.
NoImage ==
  /\ shell.pc = "check" /\ Docker
  /\ ~container.there /\ built = 0
  /\ Fail
  /\ UNCHANGED <<kind, upstream, disk, host, commands, mishaps, promised>>

AfterStop == IF shell.command = "restart" THEN Step("check") ELSE Succeed

\* Nothing to stop: PowerShell takes a stale pid file away.
StopFind ==
  /\ shell.pc = "find" /\ ~Docker
  /\ IF RecordedPid # 0
       THEN /\ shell' = [shell EXCEPT !.pc = "kill", !.pid = RecordedPid]
            /\ UNCHANGED pidFile
       ELSE /\ pidFile' = IF kind.flavour = "ps" THEN 0 ELSE pidFile
            /\ AfterStop
  /\ UNCHANGED <<kind, upstream, disk, procs, container, commands, mishaps, promised>>

\* bash asks the process to end, PowerShell ends its whole tree; whoever has
\* the pid by now is meant.
Ended(p) ==
  IF procs[p].who = "plugin" /\ kind.flavour = "bash"
    THEN [procs[p] EXCEPT !.who = "leaving"]
    ELSE Nobody

StopKill ==
  /\ shell.pc = "kill"
  /\ procs' = [procs EXCEPT ![shell.pid] = Ended(shell.pid)]
  /\ pidFile' = 0
  /\ AfterStop
  /\ UNCHANGED <<kind, upstream, disk, container, commands, mishaps, promised>>

\* docker rm -f: the container goes with the image it was made of.
Removed(c) == NoContainer

StopContainer ==
  /\ shell.pc = "find" /\ Docker
  /\ container' = Removed(container)
  /\ AfterStop
  /\ UNCHANGED <<kind, upstream, disk, pidFile, procs, commands, mishaps, promised>>

-----------------------------------------------------------------------------
(* The host                                                                *)

Mishap == mishaps < MaxMishaps /\ mishaps' = mishaps + 1

\* The author pushes a new revision.
Push ==
  /\ upstream < MaxRev
  /\ upstream' = upstream + 1
  /\ UNCHANGED <<kind, disk, host, shell, commands, mishaps, promised>>

\* A process that was asked to end does so.
Leave(p) ==
  /\ procs[p].who = "leaving"
  /\ procs' = [procs EXCEPT ![p] = Nobody]
  /\ UNCHANGED <<kind, upstream, disk, pidFile, container, shell, commands, mishaps, promised>>

\* The plugin exits by itself, or its container is stopped by hand.
Exit ==
  /\ Mishap
  /\ \/ \E p \in Live : procs' = [procs EXCEPT ![p] = Nobody] /\ UNCHANGED container
     \/ /\ container.running
        /\ container' = [container EXCEPT !.running = FALSE]
        /\ UNCHANGED procs
  /\ promised' = 0
  /\ UNCHANGED <<kind, upstream, disk, pidFile, shell, commands>>

\* Another program is given a free pid.
TakePid(p) ==
  /\ Mishap
  /\ procs[p] = Nobody
  /\ procs' = [procs EXCEPT ![p] = Other]
  /\ UNCHANGED <<kind, upstream, disk, pidFile, container, shell, commands, promised>>

\* Processes do not survive a reboot, files do; docker starts the container
\* again that was not stopped.
Reboot ==
  /\ Mishap
  /\ procs' = [p \in Pid |-> Nobody]
  /\ shell' = NoCommand
  /\ promised' = 0
  /\ UNCHANGED <<kind, upstream, disk, pidFile, container, commands>>

PNext ==
  \/ Install \/ Source \/ WriteFiles \/ Build
  \/ StartCommand \/ StopCommand \/ RestartCommand \/ BuildCommand
  \/ StartCheck \/ Launch \/ Verify \/ StartContainer \/ NoImage
  \/ StopFind \/ StopKill \/ StopContainer
  \/ Push \/ Exit \/ Reboot \/ \E p \in Pid : Leave(p) \/ TakePid(p)

PSpec == PInit /\ [][PNext]_pvars

-----------------------------------------------------------------------------
PTypeOK ==
  /\ kind \in [flavour : Flavours, runtime : Runtimes]
  /\ {upstream, checkout, built} \subseteq 0..MaxRev
  /\ pidFile \in Pid \cup {0}
  /\ \A p \in Pid : procs[p].who \in {"nobody", "plugin", "leaving", "other"}
                    /\ procs[p].rev \in 0..MaxRev
  /\ container \in [there : BOOLEAN, running : BOOLEAN, rev : 0..MaxRev]
  /\ shell.pc \in {"idle", "source", "env", "build", "check", "launch", "verify",
                   "find", "kill"}
  /\ promised \in 0..MaxRev

\* Every instance of the plugin that nobody asked to end is the one the pid
\* file names, so that there is never a second one and stop can reach it:
\* after exits, reboots and stale pid files too.
InReach == Live \subseteq {pidFile}

\* A restart that reports success has left the newest build running, not one
\* a stale container or process carries on with, unless the process ends
\* within the two seconds it is watched and its pid is given away.
RestartRuns ==
  promised # 0 =>
    IF Docker THEN container.running /\ container.rev = promised
    ELSE \E p \in Live : procs[p].rev = promised
=============================================================================
