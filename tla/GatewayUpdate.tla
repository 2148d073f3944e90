---------------------------- MODULE GatewayUpdate ----------------------------
(***************************************************************************)
(* How the gateway's executable is replaced under a running gateway        *)
(* (platform/update.rs): commands that update it, and commands that start  *)
(* and stop it (platform/lifecycle.rs), each under its file lock           *)
(* (platform/state_lock.rs), which the kernel frees however its holder     *)
(* dies. Anyone else may start or stop a gateway meanwhile, and any step   *)
(* on the disk or of the gateway may fail.                                 *)
(*                                                                         *)
(* A file is its image: which version, staged by which command; a hard     *)
(* link is one more name of the same image.                                *)
(***************************************************************************)
EXTENDS Naturals, FiniteSets

CONSTANTS
  Commands,     \* the commands; each does one thing
  MaxVersion,   \* bound: releases
  MaxFaults,    \* bound: steps that fail, commands killed
  MaxOthers     \* bound: starts and stops nobody here makes

ASSUME UpdateAssumption ==
  /\ {MaxVersion, MaxFaults, MaxOthers} \subseteq Nat /\ MaxVersion > 0
  /\ {"none", "other", "free"} \intersect Commands = {}

VARIABLES
  exe, backup,  \* the executable, and .muqun-gateway.update-backup
  staged,       \* by command, its file .muqun-gateway.update-<uuid>
  latest,       \* the newest release
  updateLock,   \* who holds the update lock, and
  commandLock,  \* the lifecycle lock
  gateway,      \* who holds the state lock: which image runs, and who started it
  jobs,         \* by command, where it is, its plan, and what it saw
  spent,        \* how often each bounded thing happened
  owed,         \* ghost: the image of a gateway that ran, until its successor does
  trouble       \* ghost: what happened that a reader is told of

vars == <<exe, backup, staged, latest, updateLock, commandLock, gateway, jobs, spent,
          owed, trouble>>

NoFile == [version |-> 0, by |-> "none"]
First == [version |-> 1, by |-> "none"]
Images == [version: 0..MaxVersion, by: Commands \union {"none"}]
Holders == Commands \union {"free"}
Off == [up |-> "off", image |-> NoFile, by |-> "none"]

UpdatePhases == {"planned", "seen", "staging", "staged", "linking", "linked", "stopped",
                 "replaced", "starting", "ready", "undo", "restoring", "restored", "recovering"}
ControlPhases == {"stop", "start", "await"}
Troubles == {"killed", "unrecovered", "uncleaned", "crossed"}

Jobs == [pc: {"rest", "over"} \union UpdatePhases \union ControlPhases,
         current: 0..MaxVersion, tag: 0..MaxVersion, before: Images,
         was: BOOLEAN, again: BOOLEAN, said: {"", "updated", "kept", "restored"}]
Gateways == [up: {"off", "booting", "ready"}, image: Images,
             by: Commands \union {"none", "other"}]

Typed ==
  /\ exe \in Images \ {NoFile} /\ backup \in Images
  /\ staged \in [Commands -> Images]
  /\ latest \in 1..MaxVersion
  /\ updateLock \in Holders /\ commandLock \in Holders
  /\ gateway \in Gateways /\ jobs \in [Commands -> Jobs]
  /\ owed \in Images /\ trouble \subseteq Troubles

(* Types, and who may hold a lock (state_lock.rs): nobody who is done.        *)
TypeOK ==
  /\ Typed
  /\ \A c \in Commands : updateLock = c => jobs[c].pc \in UpdatePhases
  /\ \A c \in Commands : commandLock = c => jobs[c].pc \notin {"rest", "over", "planned", "seen"}

Init ==
  /\ exe = First /\ backup = NoFile
  /\ staged = [c \in Commands |-> NoFile]
  /\ latest = 1
  /\ updateLock = "free" /\ commandLock = "free"
  /\ gateway \in {Off, [up |-> "ready", image |-> First, by |-> "other"]}
  /\ jobs = [c \in Commands |-> [pc |-> "rest", current |-> 0, tag |-> 0, before |-> NoFile,
                                 was |-> FALSE, again |-> FALSE, said |-> ""]]
  /\ spent = [faults |-> 0, others |-> 0]
  /\ owed = NoFile /\ trouble = {}

At(c, pc) == jobs[c].pc = pc
Goes(c, pc) == jobs' = [jobs EXCEPT ![c].pc = pc]
Spend(what, max) == spent[what] < max /\ spent' = [spent EXCEPT ![what] = @ + 1]
Fault == Spend("faults", MaxFaults)
Runs == gateway.up # "off"

(* Over: its locks are closed with it, and its staged file removed.          *)
Free(lock, c) == IF lock = c THEN "free" ELSE lock
Ends(c, said) ==
  /\ jobs' = [jobs EXCEPT ![c].pc = "over", ![c].said = said]
  /\ updateLock' = Free(updateLock, c)
  /\ commandLock' = Free(commandLock, c)
  /\ staged' = [staged EXCEPT ![c] = NoFile]

-----------------------------------------------------------------------------
(* Before the gateway is touched.                                            *)

(* check: a newer release than the image this command runs.                  *)
Plans(c) ==
  /\ At(c, "rest") /\ latest > exe.version
  /\ jobs' = [jobs EXCEPT ![c].pc = "planned", ![c].current = exe.version, ![c].tag = latest]
  /\ UNCHANGED <<exe, backup, staged, latest, updateLock, commandLock, gateway, spent, owed, trouble>>

Sees(c) ==
  /\ At(c, "planned")
  /\ jobs' = [jobs EXCEPT ![c].pc = "seen", ![c].before = exe]
  /\ UNCHANGED <<exe, backup, staged, latest, updateLock, commandLock, gateway, spent, owed, trouble>>

(* Mutant of Fresh: what was planned is taken as it was.                     *)
FreshAsPlanned(c) == TRUE
(* The plan still fits what is installed.                                    *)
Fresh(c) == exe.version = jobs[c].current /\ jobs[c].tag > exe.version

Claims(c) ==
  /\ At(c, "seen")
  /\ IF updateLock = "free" /\ backup = NoFile /\ Fresh(c)
     THEN /\ updateLock' = c
          /\ Goes(c, "staging")
          /\ UNCHANGED <<commandLock, staged>>
     ELSE Ends(c, "kept")
  /\ UNCHANGED <<exe, backup, latest, gateway, spent, owed, trouble>>

(* prepare: downloaded, its checksum and version verified.                   *)
Stages(c) ==
  /\ At(c, "staging")
  /\ staged' = [staged EXCEPT ![c] = [version |-> jobs[c].tag, by |-> c]]
  /\ Goes(c, "staged")
  /\ UNCHANGED <<exe, backup, latest, updateLock, commandLock, gateway, spent, owed, trouble>>

StagingFails(c) ==
  /\ At(c, "staging") /\ Fault
  /\ Ends(c, "kept")
  /\ UNCHANGED <<exe, backup, latest, gateway, owed, trouble>>

(* The file validated before the download is still the one installed.        *)
Unchanged(c) == exe = jobs[c].before

(* Controller::acquire: refused at once if another command holds the lock;   *)
(* an owner whose PID is not published yet is refused too.                   *)
Takes(c) ==
  /\ At(c, "staged")
  /\ \/ /\ commandLock = "free" /\ Unchanged(c)
        /\ commandLock' = c
        /\ jobs' = [jobs EXCEPT ![c].pc = "linking", ![c].was = Runs]
        /\ UNCHANGED <<updateLock, staged>>
     \/ /\ commandLock # "free" \/ ~Unchanged(c) \/ gateway.up = "booting"
        /\ Ends(c, "kept")
  /\ UNCHANGED <<exe, backup, latest, gateway, spent, owed, trouble>>

-----------------------------------------------------------------------------
(* install                                                                   *)

Links(c) ==
  /\ At(c, "linking")
  /\ \/ backup = NoFile /\ backup' = exe /\ Goes(c, "linked")
        /\ UNCHANGED <<updateLock, commandLock, staged, spent>>
     \/ backup = NoFile /\ Fault /\ Ends(c, "kept") /\ UNCHANGED backup
     \/ backup # NoFile /\ Ends(c, "kept") /\ UNCHANGED <<backup, spent>>
  /\ UNCHANGED <<exe, latest, gateway, owed, trouble>>

(* A gateway that ran is stopped. If it does not stop in time, nothing was    *)
(* replaced.                                                                  *)
Stops(c) ==
  /\ At(c, "linked")
  /\ \/ gateway' = (IF jobs[c].was THEN Off ELSE gateway)
        /\ Goes(c, "stopped")
        /\ UNCHANGED <<backup, updateLock, commandLock, staged, spent>>
     \/ Fault
        /\ gateway' \in {gateway} \union (IF jobs[c].was THEN {Off} ELSE {})
        /\ backup' = NoFile
        /\ Ends(c, "kept")
  /\ UNCHANGED <<exe, latest, owed, trouble>>

(* rename and the directory's sync: either may fail.                          *)
Replaces(c) ==
  /\ At(c, "stopped")
  /\ \/ /\ exe' = staged[c]
        /\ staged' = [staged EXCEPT ![c] = NoFile]
        /\ owed' = IF jobs[c].was THEN exe ELSE owed
        /\ \/ Goes(c, "replaced") /\ UNCHANGED spent
           \/ Goes(c, "undo") /\ Fault
     \/ Fault /\ Goes(c, "undo") /\ UNCHANGED <<exe, staged, owed>>
  /\ UNCHANGED <<backup, latest, updateLock, commandLock, gateway, trouble>>

(* start_detached_at: a gateway that runs by now is taken for it.             *)
Spawned(c) == IF Runs THEN gateway ELSE [up |-> "booting", image |-> exe, by |-> c]
Crossing(c) == IF Runs /\ gateway.by # c THEN trouble \union {"crossed"} ELSE trouble

(* Mutant of Starts: the backup goes as soon as the new image is in place.    *)
StartsUnkept(c) ==
  /\ At(c, "replaced")
  /\ gateway' = IF jobs[c].was THEN Spawned(c) ELSE gateway
  /\ trouble' = IF jobs[c].was THEN Crossing(c) ELSE trouble
  /\ Goes(c, IF jobs[c].was THEN "starting" ELSE "ready")
  /\ backup' = NoFile
  /\ UNCHANGED <<exe, staged, latest, updateLock, commandLock, spent, owed>>
Starts(c) ==
  /\ At(c, "replaced")
  /\ gateway' = IF jobs[c].was THEN Spawned(c) ELSE gateway
  /\ trouble' = IF jobs[c].was THEN Crossing(c) ELSE trouble
  /\ Goes(c, IF jobs[c].was THEN "starting" ELSE "ready")
  /\ UNCHANGED <<exe, backup, staged, latest, updateLock, commandLock, spent, owed>>

(* The gateway is ready; or it exits or takes too long, and then a child is   *)
(* killed, and what a supervisor started may still run.                       *)
SeesReady(c, from, to) ==
  /\ At(c, from) /\ gateway.up = "ready"
  /\ Goes(c, to)
  /\ UNCHANGED gateway
SeesFailure(c) ==
  /\ gateway.up # "ready" \/ gateway.by # c
  /\ \/ gateway.up = "ready" /\ gateway.by # c /\ Fault
     \/ gateway.up = "booting" /\ Fault
     \/ gateway.up = "off" /\ UNCHANGED spent
  /\ gateway' \in {gateway} \union (IF gateway.by = c THEN {Off} ELSE {})

StartEnds(c) ==
  /\ \/ SeesReady(c, "starting", "ready") /\ UNCHANGED spent
        /\ owed' = IF gateway.image = exe THEN NoFile ELSE owed
     \/ At(c, "starting") /\ SeesFailure(c) /\ Goes(c, "undo") /\ UNCHANGED owed
  /\ UNCHANGED <<exe, backup, staged, latest, updateLock, commandLock, trouble>>

Cleans(c) ==
  /\ At(c, "ready")
  /\ \/ backup' = NoFile /\ Ends(c, "updated") /\ UNCHANGED <<spent, trouble>>
     \/ Fault /\ Ends(c, "") /\ trouble' = trouble \union {"uncleaned"} /\ UNCHANGED backup
  /\ UNCHANGED <<exe, latest, gateway, owed>>

-----------------------------------------------------------------------------
(* The one recovery.                                                         *)

Unrecovered(c) == Fault /\ Ends(c, "") /\ trouble' = trouble \union {"unrecovered"}

(* Mutant of Quiesces: what the new image left running stays.                *)
QuiescesNothing(c) ==
  /\ At(c, "undo") /\ Goes(c, "restoring")
  /\ UNCHANGED <<exe, backup, staged, latest, updateLock, commandLock, gateway, spent, owed, trouble>>
Quiesces(c) ==
  /\ At(c, "undo")
  /\ \/ /\ gateway' = IF jobs[c].was THEN Off ELSE gateway
        /\ Goes(c, "restoring")
        /\ UNCHANGED <<staged, updateLock, commandLock, spent, trouble>>
     \/ jobs[c].was /\ Unrecovered(c) /\ UNCHANGED gateway
  /\ UNCHANGED <<exe, backup, latest, owed>>

(* rename(2) of a name over another name of the same file does nothing.      *)
Restores(c) ==
  /\ At(c, "restoring")
  /\ \/ /\ exe' = backup
        /\ backup' = IF backup = exe THEN backup ELSE NoFile
        /\ owed' = IF backup = owed THEN NoFile ELSE owed
        /\ Goes(c, "restored")
        /\ UNCHANGED <<staged, updateLock, commandLock, spent, trouble>>
     \/ Unrecovered(c) /\ UNCHANGED <<exe, backup, owed>>
  /\ UNCHANGED <<latest, gateway>>

Recovers(c) ==
  /\ At(c, "restored")
  /\ IF jobs[c].was
     THEN /\ gateway' = Spawned(c)
          /\ trouble' = Crossing(c)
          /\ Goes(c, "recovering")
          /\ UNCHANGED <<staged, updateLock, commandLock>>
     ELSE Ends(c, "restored") /\ UNCHANGED <<gateway, trouble>>
  /\ UNCHANGED <<exe, backup, latest, spent, owed>>

RecoveryEnds(c) ==
  /\ At(c, "recovering")
  /\ \/ gateway.up = "ready" /\ Ends(c, "restored") /\ UNCHANGED <<gateway, spent, trouble>>
     \/ /\ SeesFailure(c)
        /\ Ends(c, "") /\ trouble' = trouble \union {"unrecovered"}
  /\ UNCHANGED <<exe, backup, latest, owed>>

-----------------------------------------------------------------------------
(* stop and restart, under the same lock.                                    *)

Controls(c) ==
  /\ At(c, "rest") /\ commandLock = "free"
  /\ commandLock' = c
  /\ \E again \in BOOLEAN : jobs' = [jobs EXCEPT ![c].pc = "stop", ![c].again = again]
  /\ UNCHANGED <<exe, backup, staged, latest, updateLock, gateway, spent, owed, trouble>>

ControlStops(c) ==
  /\ At(c, "stop")
  /\ \/ gateway' = Off /\ UNCHANGED spent
        /\ IF jobs[c].again THEN Goes(c, "start") /\ UNCHANGED <<updateLock, commandLock, staged>>
           ELSE Ends(c, "")
     \/ Runs /\ Fault /\ Ends(c, "") /\ UNCHANGED gateway
  /\ UNCHANGED <<exe, backup, latest, owed, trouble>>

ControlStarts(c) ==
  /\ At(c, "start")
  /\ gateway' = Spawned(c)
  /\ Goes(c, "await")
  /\ UNCHANGED <<exe, backup, staged, latest, updateLock, commandLock, spent, owed, trouble>>

ControlEnds(c) ==
  /\ At(c, "await")
  /\ \/ gateway.up = "ready" /\ UNCHANGED <<gateway, spent>>
     \/ SeesFailure(c)
  /\ Ends(c, "")
  /\ UNCHANGED <<exe, backup, latest, owed, trouble>>

-----------------------------------------------------------------------------
(* The gateway, everyone else, and a kill.                                   *)

GatewayReady ==
  /\ gateway.up = "booting"
  /\ gateway' = [gateway EXCEPT !.up = "ready"]
  /\ UNCHANGED <<exe, backup, staged, latest, updateLock, commandLock, jobs, spent, owed, trouble>>

GatewayDies ==
  /\ Runs /\ Fault
  /\ gateway' = Off
  /\ UNCHANGED <<exe, backup, staged, latest, updateLock, commandLock, jobs, owed, trouble>>

(* `muqun-gateway run` by hand, or by a supervisor this computer has besides. *)
OtherStarts ==
  /\ ~Runs /\ Spend("others", MaxOthers)
  /\ gateway' = [up |-> "booting", image |-> exe, by |-> "other"]
  /\ UNCHANGED <<exe, backup, staged, latest, updateLock, commandLock, jobs, owed, trouble>>

Publishes ==
  /\ latest < MaxVersion /\ latest' = latest + 1
  /\ UNCHANGED <<exe, backup, staged, updateLock, commandLock, gateway, jobs, spent, owed, trouble>>

(* Mutant of Killed: a lock that is a file somebody has to remove.            *)
KilledLocked(c) ==
  /\ jobs[c].pc \notin {"rest", "over"} /\ Fault
  /\ Goes(c, "over")
  /\ trouble' = trouble \union {"killed"}
  /\ UNCHANGED <<exe, backup, staged, latest, updateLock, commandLock, gateway, owed>>
(* The kernel frees its locks; its files stay.                                *)
Killed(c) ==
  /\ jobs[c].pc \notin {"rest", "over"} /\ Fault
  /\ Goes(c, "over")
  /\ updateLock' = Free(updateLock, c)
  /\ commandLock' = Free(commandLock, c)
  /\ trouble' = trouble \union {"killed"}
  /\ UNCHANGED <<exe, backup, staged, latest, gateway, owed>>

(* Its user puts the backup back, or decides to do without it.                *)
UserRecovers ==
  /\ backup # NoFile /\ updateLock = "free" /\ commandLock = "free"
  /\ exe' \in {exe, backup} /\ backup' = NoFile /\ owed' = NoFile
  /\ UNCHANGED <<staged, latest, updateLock, commandLock, gateway, jobs, spent, trouble>>

-----------------------------------------------------------------------------
Works(c) ==
  \/ Sees(c) \/ Claims(c) \/ Stages(c) \/ Takes(c)
  \/ Links(c) \/ Stops(c) \/ Replaces(c) \/ Starts(c) \/ StartEnds(c) \/ Cleans(c)
  \/ Quiesces(c) \/ Restores(c) \/ Recovers(c) \/ RecoveryEnds(c)
  \/ ControlStops(c) \/ ControlStarts(c) \/ ControlEnds(c)

Next ==
  \/ \E c \in Commands : Plans(c) \/ Works(c) \/ StagingFails(c) \/ Controls(c) \/ Killed(c)
  \/ GatewayReady \/ GatewayDies \/ OtherStarts
  \/ Publishes \/ UserRecovers

Spec == Init /\ [][Next]_vars

(* A command goes on until it is over or killed, and a gateway gets ready.    *)
FairSpec ==
  /\ Spec
  /\ \A c \in Commands : WF_vars(Works(c))
  /\ WF_vars(GatewayReady)

-----------------------------------------------------------------------------
(* PROPERTIES *)

(* A gateway someone else started came between an update's stop and start.    *)
Crossed == "crossed" \in trouble

(* Wherever an update of a running gateway stops, killed or failed, the image *)
(* that ran is there, under its own name or as the backup, until the new one  *)
(* runs; but for a gateway someone else started meanwhile (update.rs install).*)
WayBack == owed # NoFile => owed \in {exe, backup} \/ Crossed

(* No update replaces what is installed with an older version: only its own   *)
(* backup comes back (update.rs apply_install).                               *)
NeverDowngrades == [][ exe'.version < exe.version => exe' = backup ]_vars

(* An update that says it restored everything did: the image it found, and a  *)
(* gateway of that image if one ran (update.rs install).                      *)
RestoredAsBefore ==
  [][ \A c \in Commands :
        jobs'[c].said = "restored" /\ jobs[c].said = "" =>
          /\ exe' = jobs[c].before
          /\ jobs[c].was /\ ~Crossed => gateway'.up = "ready" /\ gateway'.image = exe' ]_vars

(* Nobody is locked out for good (state_lock.rs, update.rs update_lock).      *)
LocksComeFree == []<>(updateLock = "free" /\ commandLock = "free")

-----------------------------------------------------------------------------
(* What the sources say, and the code does not keep.                         *)

(* README.md: a backup is left by abrupt termination or a failed recovery;    *)
(* an update that says it restored everything leaves none.                    *)
BackupTellsTrouble ==
  backup # NoFile /\ updateLock = "free" => trouble \intersect {"killed", "unrecovered", "uncleaned"} # {}
=============================================================================
