------------------------- MODULE GatewayUpdateProofs -------------------------
(***************************************************************************)
(* GatewayUpdate proved for every set of commands, every number of         *)
(* releases and every number of faults and crossings.                      *)
(*                                                                         *)
(* The argument is who may touch what: a command past its lock holds it    *)
(* alone (Locks), so what it saw of the executable, the backup and the     *)
(* gateway is still so at its next step (Before, After, Started), and what *)
(* another command does spares it (Spares).                                *)
(***************************************************************************)
EXTENDS GatewayUpdate, TLAPS

HeldByUpdate == {"staging", "staged", "linking", "linked", "stopped", "replaced", "starting",
                 "ready", "undo", "restoring", "restored", "recovering"}
HeldByCommand == (HeldByUpdate \ {"staging", "staged"}) \union ControlPhases

(* Nothing is owed from an earlier update.                                   *)
Settled == owed = NoFile \/ Crossed

(* Which locks a command holds where it is.                                  *)
Locks(c) ==
  /\ updateLock = c <=> jobs[c].pc \in HeldByUpdate
  /\ commandLock = c <=> jobs[c].pc \in HeldByCommand

(* Until it replaces the executable: what it will install is newer than what *)
(* is there, which is what it saw, and by then the backup too.               *)
Before(c) ==
  /\ jobs[c].pc \in {"staging", "staged", "linking", "linked", "stopped"} =>
       jobs[c].tag > exe.version /\ Settled
  /\ jobs[c].pc \in {"staged", "linking", "linked", "stopped"} =>
       staged[c] = [version |-> jobs[c].tag, by |-> c]
  /\ jobs[c].pc \in {"linking", "linked", "stopped"} => exe = jobs[c].before
  /\ jobs[c].pc \in {"linked", "stopped"} => backup = exe

(* Then the backup is what it saw, until that is back in place.              *)
After(c) ==
  /\ jobs[c].pc \in {"replaced", "starting", "ready", "undo", "restoring"} =>
       backup = jobs[c].before /\ backup # NoFile /\ (~jobs[c].was => Settled)
  /\ jobs[c].pc = "ready" => Settled
  /\ jobs[c].pc \in {"restored", "recovering"} => exe = jobs[c].before

(* The gateway a command started, and the one it waits for.                  *)
Started(c) ==
  /\ jobs[c].pc \in {"starting", "recovering"} =>
       jobs[c].was /\ (Runs => gateway.image = exe \/ Crossed)
  /\ gateway.by = c =>
       /\ jobs[c].pc \in {"starting", "ready", "undo", "recovering", "await", "over"}
       /\ jobs[c].pc = "undo" => jobs[c].was

Kept == owed # NoFile => backup = owed \/ Crossed

CommandInv(c) == Locks(c) /\ Before(c) /\ After(c) /\ Started(c)

IInv == Typed /\ Kept /\ \A c \in Commands : CommandInv(c)

(* What a step of a command leaves every other command.                      *)
Spares(c) ==
  /\ \A d \in Commands \ {c} :
       /\ jobs'[d] = jobs[d] /\ staged'[d] = staged[d]
       /\ updateLock' = d <=> updateLock = d
       /\ commandLock' = d <=> commandLock = d
       /\ gateway'.by = d => gateway.by = d
  /\ updateLock = c \/ UNCHANGED <<exe, backup, owed>>
  /\ commandLock = c \/ UNCHANGED gateway
  /\ trouble \subseteq trouble'

-----------------------------------------------------------------------------
LEMMA ImageFacts == NoFile \in Images /\ NoFile.version = 0 /\ \A i \in Images : i.version \in Nat
<1>1. 0 \in 0..MaxVersion /\ \A v \in 0..MaxVersion : v \in Nat
  BY UpdateAssumption
<1> QED
  BY <1>1 DEF Images, NoFile

(* What moving on and ending do to a command's record.                        *)
Phases == {"rest", "over"} \union UpdatePhases \union ControlPhases

LEMMA GoesIs ==
  ASSUME Typed, NEW c \in Commands, NEW pc \in Phases, Goes(c, pc)
  PROVE  /\ jobs' \in [Commands -> Jobs]
         /\ \A d \in Commands \ {c} : jobs'[d] = jobs[d]
         /\ jobs'[c].pc = pc
         /\ jobs'[c].tag = jobs[c].tag /\ jobs'[c].before = jobs[c].before
         /\ jobs'[c].was = jobs[c].was /\ jobs'[c].said = jobs[c].said
<1>1. jobs[c] \in Jobs
  BY DEF Typed
<1>2. [jobs[c] EXCEPT !.pc = pc] \in Jobs
  BY <1>1 DEF Jobs, Phases
<1>3. jobs' = [jobs EXCEPT ![c] = [jobs[c] EXCEPT !.pc = pc]]
  BY DEF Goes
<1>4. jobs'[c] = [jobs[c] EXCEPT !.pc = pc]
  BY <1>3 DEF Typed
<1>5. jobs' \in [Commands -> Jobs] /\ \A d \in Commands \ {c} : jobs'[d] = jobs[d]
  BY <1>2, <1>3 DEF Typed
<1> QED
  BY <1>1, <1>4, <1>5 DEF Jobs

Says == {"", "updated", "kept", "restored"}

LEMMA EndsIs ==
  ASSUME Typed, NEW c \in Commands, NEW said \in Says, Ends(c, said)
  PROVE  /\ jobs' \in [Commands -> Jobs]
         /\ \A d \in Commands \ {c} : jobs'[d] = jobs[d] /\ staged'[d] = staged[d]
         /\ jobs'[c].pc = "over" /\ jobs'[c].said = said
         /\ staged' \in [Commands -> Images]
         /\ updateLock' \in Holders /\ commandLock' \in Holders
         /\ updateLock' # c /\ commandLock' # c
         /\ \A d \in Commands \ {c} : /\ updateLock' = d <=> updateLock = d
                                      /\ commandLock' = d <=> commandLock = d
<1>1. jobs[c] \in Jobs
  BY DEF Typed
<1>2. [jobs[c] EXCEPT !.pc = "over", !.said = said] \in Jobs
  BY <1>1 DEF Jobs, Says
<1>3. jobs' = [jobs EXCEPT ![c] = [jobs[c] EXCEPT !.pc = "over", !.said = said]]
  BY DEF Ends
<1>4. jobs'[c] = [jobs[c] EXCEPT !.pc = "over", !.said = said]
  BY <1>3 DEF Typed
<1>5. jobs' \in [Commands -> Jobs] /\ \A d \in Commands \ {c} : jobs'[d] = jobs[d]
  BY <1>2, <1>3 DEF Typed
<1>6. jobs'[c].pc = "over" /\ jobs'[c].said = said
  BY <1>1, <1>4 DEF Jobs
<1>7. "free" \notin Commands
  BY UpdateAssumption
<1>8. /\ updateLock' \in Holders /\ commandLock' \in Holders
      /\ updateLock' # c /\ commandLock' # c
      /\ \A d \in Commands \ {c} : /\ updateLock' = d <=> updateLock = d
                                   /\ commandLock' = d <=> commandLock = d
  BY <1>7 DEF Ends, Free, Typed, Holders
<1>9. NoFile \in Images
  BY ImageFacts
<1>10. staged' \in [Commands -> Images] /\ \A d \in Commands \ {c} : staged'[d] = staged[d]
  BY <1>9 DEF Ends, Typed
<1> QED
  BY <1>5, <1>6, <1>8, <1>10

(* A command that is over keeps nothing and owes nothing.                     *)
LEMMA OverIsDone ==
  ASSUME NEW c \in Commands, jobs'[c].pc = "over", updateLock' # c, commandLock' # c
  PROVE  CommandInv(c)'
BY DEF CommandInv, Locks, Before, After, Started, HeldByUpdate, HeldByCommand, ControlPhases

(* The locks exclude.                                                         *)
LEMMA LocksExclude ==
  ASSUME IInv, NEW c \in Commands, NEW d \in Commands, c # d
  PROVE  /\ updateLock = c => jobs[d].pc \notin HeldByUpdate
         /\ commandLock = c => jobs[d].pc \notin HeldByCommand
BY DEF IInv, CommandInv, Locks

(* A command that is spared keeps its invariant.                              *)
LEMMA SparedKeeps ==
  ASSUME IInv, NEW c \in Commands, Spares(c), NEW d \in Commands, c # d
  PROVE  CommandInv(d)'
<1>1. /\ jobs'[d] = jobs[d] /\ staged'[d] = staged[d]
      /\ updateLock' = d <=> updateLock = d
      /\ commandLock' = d <=> commandLock = d
      /\ gateway'.by = d => gateway.by = d
      /\ trouble \subseteq trouble'
  BY DEF Spares
<1>2. CommandInv(d)
  BY DEF IInv
<1>3. jobs[d].pc \in HeldByUpdate => UNCHANGED <<exe, backup, owed>>
  BY LocksExclude DEF Spares
<1>4. jobs[d].pc \in HeldByCommand => UNCHANGED gateway
  BY LocksExclude DEF Spares
<1>5. Locks(d)'
  BY <1>1, <1>2 DEF CommandInv, Locks
<1>6. jobs[d].pc \in HeldByUpdate => (Settled => Settled')
  BY <1>1, <1>3 DEF Settled, Crossed
<1>7. Before(d)'
  BY <1>1, <1>2, <1>3, <1>6 DEF CommandInv, Before, HeldByUpdate
<1>8. After(d)'
  BY <1>1, <1>2, <1>3, <1>6 DEF CommandInv, After, HeldByUpdate
<1>9. Started(d)'
  BY <1>1, <1>2, <1>3, <1>4 DEF CommandInv, Started, HeldByUpdate, HeldByCommand, Runs, Crossed
<1> QED
  BY <1>5, <1>7, <1>8, <1>9 DEF CommandInv

-----------------------------------------------------------------------------
(* What each step of a command keeps.                                         *)
Keeps(c) == Typed' /\ Kept' /\ CommandInv(c)' /\ Spares(c)

(* Until the lifecycle lock is taken only the command's own record, its       *)
(* staged file and the update lock move.                                      *)
LEMMA PreparingKeeps ==
  ASSUME IInv, NEW c \in Commands,
         Plans(c) \/ Sees(c) \/ Claims(c) \/ Stages(c) \/ StagingFails(c) \/ Takes(c)
  PROVE  Keeps(c)
<1>1. Typed /\ CommandInv(c) /\ UNCHANGED <<exe, backup, gateway, owed, trouble, latest>>
  BY DEF IInv, Plans, Sees, Claims, Stages, StagingFails, Takes
<1>2. Kept'
  BY <1>1 DEF IInv, Kept, Crossed
<1>3. UNCHANGED gateway /\ gateway \in Gateways /\ gateway'.by = gateway.by
  BY <1>1 DEF Typed
<1>4. ASSUME NEW said \in Says, Ends(c, said)
      PROVE  Keeps(c)
  <2>1. CommandInv(c)'
    BY <1>1, <1>4, EndsIs, OverIsDone
  <2>2. Typed'
    BY <1>1, <1>4, EndsIs DEF Typed
  <2>3. Spares(c)
    BY <1>1, <1>4, EndsIs DEF Spares
  <2> QED
    BY <1>2, <2>1, <2>2, <2>3 DEF Keeps
<1>5. CASE Plans(c)
  <2>1. UNCHANGED <<staged, updateLock, commandLock>>
    BY <1>5 DEF Plans
  <2>2. /\ jobs[c] \in Jobs /\ jobs[c].pc = "rest" /\ exe.version \in 0..MaxVersion
        /\ latest \in 0..MaxVersion
    BY <1>1, <1>5, UpdateAssumption DEF Typed, Plans, At, Images
  <2>3. jobs' = [jobs EXCEPT ![c] =
          [jobs[c] EXCEPT !.pc = "planned", !.current = exe.version, !.tag = latest]]
    BY <1>5 DEF Plans
  <2>4. [jobs[c] EXCEPT !.pc = "planned", !.current = exe.version, !.tag = latest] \in Jobs
    BY <2>2 DEF Jobs, UpdatePhases
  <2>5. jobs' \in [Commands -> Jobs] /\ jobs'[c].pc = "planned"
    BY <1>1, <2>2, <2>3, <2>4 DEF Typed, Jobs
  <2>6. Typed'
    BY <1>1, <2>1, <2>5 DEF Typed
  <2>7. CommandInv(c)'
    BY <1>1, <1>3, <2>1, <2>2, <2>5
    DEF CommandInv, Locks, Before, After, Started, HeldByUpdate, HeldByCommand, ControlPhases
  <2>8. Spares(c)
    BY <1>1, <2>1, <2>3 DEF Spares, Typed
  <2> QED
    BY <1>2, <2>6, <2>7, <2>8 DEF Keeps
<1>6. CASE Sees(c)
  <2>1. UNCHANGED <<staged, updateLock, commandLock>>
    BY <1>6 DEF Sees
  <2>2. jobs[c] \in Jobs /\ jobs[c].pc = "planned" /\ exe \in Images
    BY <1>1, <1>6 DEF Typed, Sees, At
  <2>3. jobs' = [jobs EXCEPT ![c] = [jobs[c] EXCEPT !.pc = "seen", !.before = exe]]
    BY <1>6 DEF Sees
  <2>4. [jobs[c] EXCEPT !.pc = "seen", !.before = exe] \in Jobs
    BY <2>2 DEF Jobs, UpdatePhases
  <2>5. jobs' \in [Commands -> Jobs] /\ jobs'[c].pc = "seen"
    BY <1>1, <2>2, <2>3, <2>4 DEF Typed, Jobs
  <2>6. Typed'
    BY <1>1, <2>1, <2>5 DEF Typed
  <2>7. CommandInv(c)'
    BY <1>1, <1>3, <2>1, <2>2, <2>5
    DEF CommandInv, Locks, Before, After, Started, HeldByUpdate, HeldByCommand, ControlPhases
  <2>8. Spares(c)
    BY <1>1, <2>1, <2>3 DEF Spares, Typed
  <2> QED
    BY <1>2, <2>6, <2>7, <2>8 DEF Keeps
<1>7. CASE Claims(c) /\ Goes(c, "staging")
  <2>1. /\ UNCHANGED <<staged, commandLock>> /\ updateLock = "free" /\ updateLock' = c
        /\ backup = NoFile /\ jobs[c].pc = "seen" /\ jobs[c].tag > exe.version
    <3>1. jobs[c].pc = "seen"
      BY <1>7 DEF Claims, At
    <3>2. jobs'[c].pc = "staging"
      BY <1>1, <1>7, GoesIs DEF Phases, UpdatePhases
    <3>3. ~Ends(c, "kept")
      BY <1>1, <3>2, EndsIs DEF Says
    <3> QED
      BY <1>7, <3>1, <3>3 DEF Claims, Fresh
  <2>2. /\ jobs' \in [Commands -> Jobs] /\ jobs'[c].pc = "staging" /\ jobs'[c].tag = jobs[c].tag
        /\ \A d \in Commands \ {c} : jobs'[d] = jobs[d]
    BY <1>1, <1>7, GoesIs DEF Phases, UpdatePhases
  <2>3. Typed'
    BY <1>1, <2>1, <2>2 DEF Typed, Holders
  <2>4. Settled'
    BY <1>1, <2>1 DEF IInv, Kept, Settled, Crossed
  <2>5. Locks(c)'
    BY <1>1, <2>1, <2>2 DEF CommandInv, Locks, HeldByUpdate, HeldByCommand, ControlPhases
  <2>6. Before(c)' /\ After(c)' /\ Started(c)'
    BY <1>1, <1>3, <2>1, <2>2, <2>4 DEF CommandInv, Before, After, Started
  <2>7. Spares(c)
    BY <1>1, <1>3, <2>1, <2>2, UpdateAssumption DEF Spares
  <2> QED
    BY <1>2, <2>3, <2>5, <2>6, <2>7 DEF Keeps, CommandInv
<1>8. CASE Stages(c)
  <2>1. /\ UNCHANGED <<updateLock, commandLock>> /\ jobs[c].pc = "staging"
        /\ staged' = [staged EXCEPT ![c] = [version |-> jobs[c].tag, by |-> c]]
    BY <1>8 DEF Stages, At
  <2>2. /\ jobs' \in [Commands -> Jobs] /\ jobs'[c].pc = "staged" /\ jobs'[c].tag = jobs[c].tag
        /\ \A d \in Commands \ {c} : jobs'[d] = jobs[d]
    BY <1>1, <1>8, GoesIs DEF Stages, Phases, UpdatePhases
  <2>3. [version |-> jobs[c].tag, by |-> c] \in Images
    BY <1>1 DEF Typed, Jobs, Images
  <2>4. Typed'
    BY <1>1, <2>1, <2>2, <2>3 DEF Typed
  <2>5. Locks(c)'
    BY <1>1, <2>1, <2>2 DEF CommandInv, Locks, HeldByUpdate, HeldByCommand, ControlPhases
  <2>6. staged'[c] = [version |-> jobs[c].tag, by |-> c]
    BY <1>1, <2>1 DEF Typed
  <2>7. Before(c)'
    BY <1>1, <2>1, <2>2, <2>6 DEF CommandInv, Before, Settled, Crossed
  <2>8. After(c)' /\ Started(c)'
    BY <1>1, <1>3, <2>1, <2>2 DEF CommandInv, After, Started
  <2>9. Spares(c)
    BY <1>1, <1>3, <2>1, <2>2 DEF Spares, Typed
  <2> QED
    BY <1>2, <2>4, <2>5, <2>7, <2>8, <2>9 DEF Keeps, CommandInv
<1>9. CASE Takes(c) /\ ~Ends(c, "kept")
  <2>1. /\ UNCHANGED <<updateLock, staged>> /\ commandLock = "free" /\ commandLock' = c
        /\ exe = jobs[c].before /\ jobs[c].pc = "staged"
        /\ jobs' = [jobs EXCEPT ![c] = [jobs[c] EXCEPT !.pc = "linking", !.was = Runs]]
    BY <1>9 DEF Takes, At, Unchanged
  <2>2. jobs[c] \in Jobs /\ Runs \in BOOLEAN
    BY <1>1 DEF Typed, Runs
  <2>3. [jobs[c] EXCEPT !.pc = "linking", !.was = Runs] \in Jobs
    BY <2>2 DEF Jobs, UpdatePhases
  <2>4. /\ jobs' \in [Commands -> Jobs]
        /\ jobs'[c] = [jobs[c] EXCEPT !.pc = "linking", !.was = Runs]
        /\ \A d \in Commands \ {c} : jobs'[d] = jobs[d]
    BY <1>1, <2>1, <2>3 DEF Typed
  <2>5. jobs'[c].pc = "linking" /\ jobs'[c].tag = jobs[c].tag /\ jobs'[c].before = jobs[c].before
    BY <2>2, <2>4 DEF Jobs
  <2>6. Typed'
    BY <1>1, <2>1, <2>4 DEF Typed, Holders
  <2>7. Locks(c)'
    BY <1>1, <2>1, <2>5 DEF CommandInv, Locks, HeldByUpdate, HeldByCommand, ControlPhases
  <2>8. Before(c)'
    BY <1>1, <2>1, <2>5 DEF CommandInv, Before, Settled, Crossed
  <2>9. After(c)' /\ Started(c)'
    BY <1>1, <1>3, <2>1, <2>5 DEF CommandInv, After, Started
  <2>10. Spares(c)
    BY <1>1, <1>3, <2>1, <2>4, UpdateAssumption DEF Spares
  <2> QED
    BY <1>2, <2>6, <2>7, <2>8, <2>9, <2>10 DEF Keeps, CommandInv
<1> QED
  BY <1>4, <1>5, <1>6, <1>7, <1>8, <1>9 DEF Claims, StagingFails, Takes, Says

-----------------------------------------------------------------------------
(* A command that ends and leaves the executable alone.                       *)
LEMMA EndingKeeps ==
  ASSUME IInv, NEW c \in Commands, NEW said \in Says, Ends(c, said),
         UNCHANGED <<exe, latest, owed>>,
         backup' \in Images, gateway' \in Gateways, trouble' \subseteq Troubles,
         trouble \subseteq trouble', Kept',
         updateLock = c \/ backup' = backup,
         commandLock = c \/ UNCHANGED gateway,
         \A d \in Commands \ {c} : gateway'.by = d => gateway.by = d
  PROVE  Keeps(c)
<1>1. Typed
  BY DEF IInv
<1>2. CommandInv(c)'
  BY <1>1, EndsIs, OverIsDone
<1>3. Typed'
  BY <1>1, EndsIs DEF Typed
<1>4. Spares(c)
  BY <1>1, EndsIs DEF Spares
<1> QED
  BY <1>2, <1>3, <1>4 DEF Keeps

(* A command that goes on while it holds both locks.                          *)
Holding == HeldByUpdate \intersect HeldByCommand

LEMMA GoingOnHolds ==
  ASSUME IInv, NEW c \in Commands, NEW pc \in Holding, Goes(c, pc), jobs[c].pc \in Holding,
         UNCHANGED <<updateLock, commandLock, latest>>,
         exe' \in Images \ {NoFile}, backup' \in Images, owed' \in Images,
         staged' \in [Commands -> Images], gateway' \in Gateways, trouble' \subseteq Troubles,
         trouble \subseteq trouble',
         \A d \in Commands \ {c} : staged'[d] = staged[d],
         \A d \in Commands \ {c} : gateway'.by = d => gateway.by = d
  PROVE  /\ Typed' /\ Locks(c)' /\ Spares(c)
         /\ jobs'[c].pc = pc /\ jobs'[c].tag = jobs[c].tag
         /\ jobs'[c].before = jobs[c].before /\ jobs'[c].was = jobs[c].was
         /\ jobs'[c].said = jobs[c].said
<1>1. Typed /\ Locks(c) /\ pc \in Phases
  BY DEF IInv, CommandInv, Holding, HeldByUpdate, HeldByCommand, ControlPhases, Phases, UpdatePhases
<1>2. updateLock = c /\ commandLock = c
  BY <1>1 DEF Locks, Holding
<1>3. /\ jobs' \in [Commands -> Jobs]
      /\ \A d \in Commands \ {c} : jobs'[d] = jobs[d]
      /\ jobs'[c].pc = pc /\ jobs'[c].tag = jobs[c].tag
      /\ jobs'[c].before = jobs[c].before /\ jobs'[c].was = jobs[c].was
      /\ jobs'[c].said = jobs[c].said
  BY <1>1, GoesIs
<1>4. Typed'
  BY <1>1, <1>3 DEF Typed
<1>5. Locks(c)'
  BY <1>2, <1>3 DEF Locks, Holding
<1>6. Spares(c)
  BY <1>2, <1>3 DEF Spares
<1> QED
  BY <1>3, <1>4, <1>5, <1>6

(* Where a command holds both locks.                                          *)
LEMMA InstallingHolds ==
  ASSUME IInv, NEW c \in Commands, jobs[c].pc \in Holding
  PROVE  updateLock = c /\ commandLock = c
BY DEF IInv, CommandInv, Locks, Holding

LEMMA LinksKeeps ==
  ASSUME IInv, NEW c \in Commands, Links(c)
  PROVE  Keeps(c)
<1>1. Typed /\ CommandInv(c) /\ jobs[c].pc = "linking" /\ jobs[c].pc \in Holding
  BY DEF IInv, Links, At, Holding, HeldByUpdate, HeldByCommand
<1>2. /\ UNCHANGED <<exe, latest, gateway, owed, trouble>>
      /\ gateway' \in Gateways /\ trouble' \subseteq Troubles
      /\ gateway'.by = gateway.by /\ owed' \in Images /\ exe' \in Images \ {NoFile}
  BY <1>1 DEF Links, Typed
<1>3. Settled /\ Settled'
  BY <1>1, <1>2 DEF CommandInv, Before, Settled, Crossed
<1>4. Kept'
  BY <1>3 DEF Kept, Settled
<1>5. CASE Ends(c, "kept")
  <2>1. backup' \in Images
    BY <1>1 DEF Links, Typed
  <2> QED
    BY <1>1, <1>2, <1>4, <1>5, <2>1, EndingKeeps, InstallingHolds DEF Says
<1>6. CASE backup' = exe /\ Goes(c, "linked") /\ UNCHANGED <<updateLock, commandLock, staged>>
  <2>1. "linked" \in Holding
    BY DEF Holding, HeldByUpdate, HeldByCommand
  <2>2. backup' \in Images /\ staged' \in [Commands -> Images]
        /\ \A d \in Commands \ {c} : staged'[d] = staged[d]
    BY <1>1, <1>6 DEF Typed
  <2>3. /\ Typed' /\ Locks(c)' /\ Spares(c)
        /\ jobs'[c].pc = "linked" /\ jobs'[c].tag = jobs[c].tag
        /\ jobs'[c].before = jobs[c].before /\ jobs'[c].was = jobs[c].was
    BY <1>1, <1>2, <1>6, <2>1, <2>2, GoingOnHolds
  <2>4. Before(c)'
    BY <1>1, <1>2, <1>3, <1>6, <2>3 DEF CommandInv, Before
  <2>5. After(c)' /\ Started(c)'
    BY <1>1, <1>2, <2>3 DEF CommandInv, After, Started
  <2> QED
    BY <1>4, <2>3, <2>4, <2>5 DEF Keeps, CommandInv
<1> QED
  BY <1>5, <1>6 DEF Links

LEMMA OffIsGateway == Off \in Gateways /\ Off.by \notin Commands /\ Off.up = "off"
BY UpdateAssumption DEF Off, Gateways, Images, NoFile

LEMMA StopsKeeps ==
  ASSUME IInv, NEW c \in Commands, Stops(c)
  PROVE  Keeps(c)
<1>1. Typed /\ CommandInv(c) /\ jobs[c].pc = "linked" /\ jobs[c].pc \in Holding
  BY DEF IInv, Stops, At, Holding, HeldByUpdate, HeldByCommand
<1>2. /\ UNCHANGED <<exe, latest, owed, trouble>> /\ gateway' \in {gateway, Off}
      /\ trouble' \subseteq Troubles /\ owed' \in Images /\ exe' \in Images \ {NoFile}
  BY <1>1 DEF Stops, Typed
<1>3. gateway' \in Gateways /\ \A d \in Commands : gateway'.by = d => gateway.by = d
  BY <1>1, <1>2, OffIsGateway DEF Typed
<1>4. Settled /\ Settled'
  BY <1>1, <1>2 DEF CommandInv, Before, Settled, Crossed
<1>5. Kept'
  BY <1>4 DEF Kept, Settled
<1>6. CASE Ends(c, "kept") /\ backup' = NoFile
  <2>1. backup' \in Images
    BY <1>6, ImageFacts
  <2> QED
    BY <1>1, <1>2, <1>3, <1>5, <1>6, <2>1, EndingKeeps, InstallingHolds DEF Says
<1>7. CASE Goes(c, "stopped") /\ UNCHANGED <<backup, updateLock, commandLock, staged>>
  <2>1. "stopped" \in Holding
    BY DEF Holding, HeldByUpdate, HeldByCommand
  <2>2. backup' \in Images /\ staged' \in [Commands -> Images]
        /\ \A d \in Commands \ {c} : staged'[d] = staged[d]
    BY <1>1, <1>7 DEF Typed
  <2>3. /\ Typed' /\ Locks(c)' /\ Spares(c)
        /\ jobs'[c].pc = "stopped" /\ jobs'[c].tag = jobs[c].tag
        /\ jobs'[c].before = jobs[c].before /\ jobs'[c].was = jobs[c].was
    BY <1>1, <1>2, <1>3, <1>7, <2>1, <2>2, GoingOnHolds
  <2>4. Before(c)'
    BY <1>1, <1>2, <1>4, <1>7, <2>3 DEF CommandInv, Before
  <2>5. After(c)' /\ Started(c)'
    BY <1>1, <1>3, <2>3 DEF CommandInv, After, Started
  <2> QED
    BY <1>5, <2>3, <2>4, <2>5 DEF Keeps, CommandInv
<1> QED
  BY <1>6, <1>7 DEF Stops

LEMMA ReplacesKeeps ==
  ASSUME IInv, NEW c \in Commands, Replaces(c)
  PROVE  Keeps(c) /\ exe'.version >= exe.version /\ jobs'[c].said = jobs[c].said
<1>1. Typed /\ CommandInv(c) /\ jobs[c].pc = "stopped" /\ jobs[c].pc \in Holding
  BY DEF IInv, Replaces, At, Holding, HeldByUpdate, HeldByCommand
<1>2. /\ UNCHANGED <<backup, latest, updateLock, commandLock, gateway, trouble>>
      /\ gateway' \in Gateways /\ trouble' \subseteq Troubles /\ backup' \in Images
      /\ gateway'.by = gateway.by
  BY <1>1 DEF Replaces, Typed
<1>3. /\ backup = exe /\ exe = jobs[c].before /\ Settled
      /\ staged[c] = [version |-> jobs[c].tag, by |-> c] /\ jobs[c].tag > exe.version
  BY <1>1 DEF CommandInv, Before
<1>4. /\ exe \in Images \ {NoFile} /\ exe.version \in Nat /\ jobs[c].tag \in 0..MaxVersion
      /\ NoFile \in Images /\ staged[c] \in Images /\ MaxVersion \in Nat
      /\ jobs[c].was \in BOOLEAN
  BY <1>1, ImageFacts, UpdateAssumption DEF Typed, Jobs
<1>5. staged[c] # NoFile /\ staged[c].version \in Nat /\ staged[c].version > exe.version
  <2>1. staged[c].version = jobs[c].tag
    BY <1>3
  <2>2. NoFile.version = 0 /\ jobs[c].tag \in Nat /\ jobs[c].tag > 0
    BY <1>3, <1>4, ImageFacts
  <2> QED
    BY <1>3, <2>1, <2>2
<1>6. /\ exe' \in {exe, staged[c]}
      /\ owed' \in {owed, exe} /\ (owed' # owed => backup = exe /\ jobs[c].was)
      /\ staged' \in [Commands -> Images] /\ \A d \in Commands \ {c} : staged'[d] = staged[d]
  BY <1>1, <1>3, <1>4 DEF Replaces, Typed
<1>7. exe' \in Images \ {NoFile} /\ owed' \in Images /\ exe'.version >= exe.version
  <2>1. exe'.version >= exe.version
    BY <1>4, <1>5, <1>6
  <2> QED
    BY <1>1, <1>4, <1>5, <1>6, <2>1 DEF Typed
<1>8. Kept'
  BY <1>2, <1>3, <1>6 DEF Kept, Settled, Crossed
<1>9. PICK pc \in {"replaced", "undo"} : Goes(c, pc)
  BY DEF Replaces
<1>10. pc \in Holding
  BY DEF Holding, HeldByUpdate, HeldByCommand
<1>11. /\ Typed' /\ Locks(c)' /\ Spares(c)
       /\ jobs'[c].pc = pc /\ jobs'[c].tag = jobs[c].tag
       /\ jobs'[c].before = jobs[c].before /\ jobs'[c].was = jobs[c].was
       /\ jobs'[c].said = jobs[c].said
  BY <1>1, <1>2, <1>6, <1>7, <1>9, <1>10, GoingOnHolds
<1>12. gateway.by # c
  BY <1>1 DEF CommandInv, Started
<1>13. Before(c)' /\ Started(c)'
  BY <1>2, <1>11, <1>12 DEF Before, Started
<1>14. After(c)'
  BY <1>2, <1>3, <1>4, <1>6, <1>11 DEF After, Settled, Crossed
<1> QED
  BY <1>7, <1>8, <1>11, <1>13, <1>14 DEF Keeps, CommandInv

-----------------------------------------------------------------------------
(* What a spawn leaves: a gateway of the image that is installed, or one that *)
(* somebody else started.                                                     *)
LEMMA SpawnedIs ==
  ASSUME Typed, NEW c \in Commands, gateway.by # c
  PROVE  /\ Spawned(c) \in Gateways
         /\ Spawned(c).image = exe \/ "crossed" \in Crossing(c)
         /\ \A d \in Commands \ {c} : Spawned(c).by = d => gateway.by = d
         /\ Crossing(c) \subseteq Troubles /\ trouble \subseteq Crossing(c)
<1>1. CASE Runs
  BY <1>1 DEF Spawned, Crossing, Typed, Troubles
<1>2. CASE ~Runs
  <2>1. Spawned(c) = [up |-> "booting", image |-> exe, by |-> c]
    BY <1>2 DEF Spawned
  <2>2. Spawned(c) \in Gateways /\ Spawned(c).image = exe /\ Spawned(c).by = c
    BY <2>1 DEF Typed, Gateways
  <2> QED
    BY <1>2, <2>2 DEF Crossing, Typed
<1> QED
  BY <1>1, <1>2

LEMMA StartsKeeps ==
  ASSUME IInv, NEW c \in Commands, Starts(c)
  PROVE  Keeps(c) /\ UNCHANGED exe /\ jobs'[c].said = jobs[c].said
<1>1. Typed /\ CommandInv(c) /\ jobs[c].pc = "replaced" /\ jobs[c].pc \in Holding
  BY DEF IInv, Starts, At, Holding, HeldByUpdate, HeldByCommand
<1>2. /\ UNCHANGED <<exe, backup, staged, latest, updateLock, commandLock, owed>>
      /\ exe' \in Images \ {NoFile} /\ backup' \in Images /\ owed' \in Images
      /\ staged' \in [Commands -> Images]
      /\ \A d \in Commands \ {c} : staged'[d] = staged[d]
      /\ gateway.by # c /\ jobs[c].was \in BOOLEAN
  BY <1>1 DEF Starts, Typed, CommandInv, Started, Jobs
<1>3. /\ gateway' \in Gateways /\ trouble' \subseteq Troubles /\ trouble \subseteq trouble'
      /\ \A d \in Commands \ {c} : gateway'.by = d => gateway.by = d
      /\ jobs[c].was => gateway'.image = exe \/ "crossed" \in trouble'
      /\ ~jobs[c].was => gateway' = gateway
  BY <1>1, <1>2, SpawnedIs DEF Starts, Typed
<1>4. PICK pc \in {"starting", "ready"} :
        Goes(c, pc) /\ (pc = "starting" => jobs[c].was) /\ (pc = "ready" => ~jobs[c].was)
  BY <1>2 DEF Starts
<1>5. pc \in Holding
  BY DEF Holding, HeldByUpdate, HeldByCommand
<1>6. /\ Typed' /\ Locks(c)' /\ Spares(c)
      /\ jobs'[c].pc = pc /\ jobs'[c].tag = jobs[c].tag
      /\ jobs'[c].before = jobs[c].before /\ jobs'[c].was = jobs[c].was
      /\ jobs'[c].said = jobs[c].said
  BY <1>1, <1>2, <1>3, <1>4, <1>5, GoingOnHolds
<1>7. Kept'
  BY <1>2, <1>3 DEF IInv, Kept, Crossed
<1>8. Before(c)'
  BY <1>6 DEF Before
<1>9. After(c)'
  BY <1>1, <1>2, <1>3, <1>4, <1>6 DEF CommandInv, After, Settled, Crossed
<1>10. Started(c)'
  BY <1>2, <1>3, <1>4, <1>6 DEF Started, Crossed
<1> QED
  BY <1>2, <1>6, <1>7, <1>8, <1>9, <1>10 DEF Keeps, CommandInv

(* A failure seen leaves the gateway, or none.                                *)
LEMMA FailureSeenIs ==
  ASSUME Typed, NEW c \in Commands, SeesFailure(c)
  PROVE  /\ gateway' \in Gateways /\ gateway' \in {gateway, Off}
         /\ \A d \in Commands : gateway'.by = d => gateway.by = d
<1>1. gateway' \in {gateway, Off}
  BY DEF SeesFailure
<1> QED
  BY <1>1, OffIsGateway DEF Typed

LEMMA StartEndsKeeps ==
  ASSUME IInv, NEW c \in Commands, StartEnds(c)
  PROVE  Keeps(c) /\ UNCHANGED exe /\ jobs'[c].said = jobs[c].said
<1>1. /\ Typed /\ CommandInv(c) /\ jobs[c].pc = "starting" /\ jobs[c].pc \in Holding
      /\ jobs[c].was
  BY DEF IInv, StartEnds, SeesReady, At, Holding, HeldByUpdate, HeldByCommand,
         CommandInv, Started
<1>2. /\ UNCHANGED <<exe, backup, staged, latest, updateLock, commandLock, trouble>>
      /\ exe' \in Images \ {NoFile} /\ backup' \in Images /\ trouble' \subseteq Troubles
      /\ staged' \in [Commands -> Images]
      /\ \A d \in Commands \ {c} : staged'[d] = staged[d]
  BY <1>1 DEF StartEnds, Typed
<1>3. owed' \in {owed, NoFile} /\ owed' \in Images
  BY <1>1, ImageFacts DEF StartEnds, Typed
<1>4. /\ gateway' \in Gateways
      /\ \A d \in Commands : gateway'.by = d => gateway.by = d
  BY <1>1, FailureSeenIs DEF StartEnds, SeesReady, Typed
<1>5. Kept'
  BY <1>2, <1>3 DEF IInv, Kept, Crossed
<1>6. PICK pc \in {"ready", "undo"} : Goes(c, pc) /\ (pc = "ready" => Settled')
  <2>1. CASE SeesReady(c, "starting", "ready")
    <3>1. Goes(c, "ready") /\ Runs
      BY <2>1 DEF SeesReady, Runs
    <3>2. gateway.image = exe \/ Crossed
      BY <1>1, <3>1 DEF CommandInv, Started
    <3>3. owed' = IF gateway.image = exe THEN NoFile ELSE owed
      <4>1. CASE Goes(c, "undo")
        <5>1. "ready" \in Phases /\ "undo" \in Phases
          BY DEF Phases, UpdatePhases
        <5> QED
          BY <1>1, <3>1, <4>1, <5>1, GoesIs
      <4> QED
        BY <4>1 DEF StartEnds
    <3>4. Settled'
      BY <1>2, <3>2, <3>3 DEF Settled, Crossed
    <3> QED
      BY <3>1, <3>4
  <2> QED
    BY <2>1 DEF StartEnds
<1>7. pc \in Holding
  BY DEF Holding, HeldByUpdate, HeldByCommand
<1>8. /\ Typed' /\ Locks(c)' /\ Spares(c)
      /\ jobs'[c].pc = pc /\ jobs'[c].tag = jobs[c].tag
      /\ jobs'[c].before = jobs[c].before /\ jobs'[c].was = jobs[c].was
      /\ jobs'[c].said = jobs[c].said
  BY <1>1, <1>2, <1>3, <1>4, <1>6, <1>7, GoingOnHolds
<1>9. Before(c)' /\ Started(c)'
  BY <1>1, <1>8 DEF Before, Started
<1>10. After(c)'
  BY <1>1, <1>2, <1>6, <1>8 DEF CommandInv, After
<1> QED
  BY <1>2, <1>5, <1>8, <1>9, <1>10 DEF Keeps, CommandInv

LEMMA CleansKeeps ==
  ASSUME IInv, NEW c \in Commands, Cleans(c)
  PROVE  Keeps(c) /\ UNCHANGED exe /\ jobs'[c].said \in {"updated", ""}
<1>1. Typed /\ CommandInv(c) /\ jobs[c].pc = "ready" /\ jobs[c].pc \in Holding
  BY DEF IInv, Cleans, At, Holding, HeldByUpdate, HeldByCommand
<1>2. /\ UNCHANGED <<exe, latest, gateway, owed>> /\ gateway' \in Gateways
      /\ gateway'.by = gateway.by
      /\ trouble' \subseteq Troubles /\ trouble \subseteq trouble' /\ backup' \in Images
  BY <1>1, ImageFacts DEF Cleans, Typed, Troubles
<1>3. Settled'
  BY <1>1, <1>2 DEF CommandInv, After, Settled, Crossed
<1>4. Kept'
  BY <1>3 DEF Kept, Settled
<1>5. PICK said \in {"updated", ""} : Ends(c, said)
  BY DEF Cleans
<1>6. said \in Says
  BY DEF Says
<1> QED
  BY <1>1, <1>2, <1>4, <1>5, <1>6, EndingKeeps, EndsIs, InstallingHolds

LEMMA QuiescesKeeps ==
  ASSUME IInv, NEW c \in Commands, Quiesces(c)
  PROVE  Keeps(c) /\ UNCHANGED exe /\ (jobs'[c].said = jobs[c].said \/ jobs'[c].said = "")
<1>1. Typed /\ CommandInv(c) /\ jobs[c].pc = "undo" /\ jobs[c].pc \in Holding
  BY DEF IInv, Quiesces, At, Holding, HeldByUpdate, HeldByCommand
<1>2. /\ UNCHANGED <<exe, backup, latest, owed>> /\ gateway' \in {gateway, Off}
      /\ exe' \in Images \ {NoFile} /\ backup' \in Images /\ owed' \in Images
  BY <1>1 DEF Quiesces, Typed
<1>3. gateway' \in Gateways /\ \A d \in Commands : gateway'.by = d => gateway.by = d
  BY <1>1, <1>2, OffIsGateway DEF Typed
<1>4. CASE /\ Goes(c, "restoring") /\ gateway' = IF jobs[c].was THEN Off ELSE gateway
           /\ UNCHANGED <<staged, updateLock, commandLock, spent, trouble>>
  <2>1. "restoring" \in Holding
    BY DEF Holding, HeldByUpdate, HeldByCommand
  <2>2. /\ staged' \in [Commands -> Images]
        /\ \A d \in Commands \ {c} : staged'[d] = staged[d]
        /\ trouble' \subseteq Troubles
    BY <1>1, <1>4 DEF Typed
  <2>3. /\ Typed' /\ Locks(c)' /\ Spares(c)
        /\ jobs'[c].pc = "restoring" /\ jobs'[c].tag = jobs[c].tag
        /\ jobs'[c].before = jobs[c].before /\ jobs'[c].was = jobs[c].was
        /\ jobs'[c].said = jobs[c].said
    BY <1>1, <1>2, <1>3, <1>4, <2>1, <2>2, GoingOnHolds
  <2>4. gateway'.by # c
    BY <1>1, <1>4, OffIsGateway DEF CommandInv, Started
  <2>5. Kept'
    BY <1>2, <1>4 DEF IInv, Kept, Crossed
  <2>6. Before(c)' /\ Started(c)'
    BY <2>3, <2>4 DEF Before, Started
  <2>7. After(c)'
    BY <1>1, <1>2, <1>4, <2>3 DEF CommandInv, After, Settled, Crossed
  <2> QED
    BY <1>2, <2>3, <2>5, <2>6, <2>7 DEF Keeps, CommandInv
<1>5. CASE Unrecovered(c) /\ UNCHANGED gateway
  <2>1. /\ Ends(c, "") /\ trouble \subseteq trouble' /\ trouble' \subseteq Troubles
    BY <1>1, <1>5 DEF Unrecovered, Typed, Troubles
  <2>2. Kept'
    BY <1>2, <2>1 DEF IInv, Kept, Crossed
  <2> QED
    BY <1>1, <1>2, <1>3, <2>1, <2>2, EndingKeeps, EndsIs, InstallingHolds DEF Says
<1> QED
  BY <1>4, <1>5 DEF Quiesces

LEMMA RestoresKeeps ==
  ASSUME IInv, NEW c \in Commands, Restores(c)
  PROVE  /\ Keeps(c) /\ exe' \in {exe, backup}
         /\ jobs'[c].said = jobs[c].said \/ jobs'[c].said = ""
<1>1. /\ Typed /\ CommandInv(c) /\ jobs[c].pc = "restoring" /\ jobs[c].pc \in Holding
      /\ backup = jobs[c].before /\ backup # NoFile
  BY DEF IInv, Restores, At, Holding, HeldByUpdate, HeldByCommand, CommandInv, After
<1>2. /\ UNCHANGED <<latest, gateway>> /\ gateway' \in Gateways
      /\ gateway'.by = gateway.by /\ gateway.by # c
  BY <1>1 DEF Restores, Typed, CommandInv, Started
<1>3. CASE /\ exe' = backup /\ backup' = IF backup = exe THEN backup ELSE NoFile
           /\ owed' = IF backup = owed THEN NoFile ELSE owed
           /\ Goes(c, "restored")
           /\ UNCHANGED <<staged, updateLock, commandLock, spent, trouble>>
  <2>1. "restored" \in Holding
    BY DEF Holding, HeldByUpdate, HeldByCommand
  <2>2. /\ exe' \in Images \ {NoFile} /\ backup' \in Images /\ owed' \in Images
        /\ staged' \in [Commands -> Images] /\ trouble' \subseteq Troubles
        /\ \A d \in Commands \ {c} : staged'[d] = staged[d]
    BY <1>1, <1>3, ImageFacts DEF Typed
  <2>3. /\ Typed' /\ Locks(c)' /\ Spares(c)
        /\ jobs'[c].pc = "restored" /\ jobs'[c].tag = jobs[c].tag
        /\ jobs'[c].before = jobs[c].before /\ jobs'[c].was = jobs[c].was
        /\ jobs'[c].said = jobs[c].said
    BY <1>1, <1>2, <1>3, <2>1, <2>2, GoingOnHolds
  <2>4. Kept'
    BY <1>3 DEF IInv, Kept, Crossed
  <2>5. Before(c)' /\ After(c)' /\ Started(c)'
    BY <1>1, <1>2, <1>3, <2>3 DEF Before, After, Started
  <2> QED
    BY <1>3, <2>3, <2>4, <2>5 DEF Keeps, CommandInv
<1>4. CASE Unrecovered(c) /\ UNCHANGED <<exe, backup, owed>>
  <2>1. /\ Ends(c, "") /\ trouble \subseteq trouble' /\ trouble' \subseteq Troubles
        /\ backup' \in Images
    BY <1>1, <1>4 DEF Unrecovered, Typed, Troubles
  <2>2. Kept'
    BY <1>4, <2>1 DEF IInv, Kept, Crossed
  <2> QED
    BY <1>1, <1>2, <1>4, <2>1, <2>2, EndingKeeps, EndsIs, InstallingHolds DEF Says
<1> QED
  BY <1>3, <1>4 DEF Restores

(* The two ends that say everything is as it was: without a gateway to start  *)
(* again, and with one that is ready.                                         *)
SaysRight(c) ==
  jobs'[c].said = "restored" =>
    /\ exe' = jobs[c].before
    /\ jobs[c].was /\ ~Crossed => gateway'.up = "ready" /\ gateway'.image = exe'

LEMMA RecoversKeeps ==
  ASSUME IInv, NEW c \in Commands, Recovers(c)
  PROVE  Keeps(c) /\ UNCHANGED exe /\ (jobs[c].said = "" => SaysRight(c))
<1>1. /\ Typed /\ CommandInv(c) /\ jobs[c].pc = "restored" /\ jobs[c].pc \in Holding
      /\ exe = jobs[c].before
  BY DEF IInv, Recovers, At, Holding, HeldByUpdate, HeldByCommand, CommandInv, After
<1>2. /\ UNCHANGED <<exe, backup, latest, owed>>
      /\ exe' \in Images \ {NoFile} /\ backup' \in Images /\ owed' \in Images
      /\ gateway.by # c
  BY <1>1 DEF Recovers, Typed, CommandInv, Started
<1>3. CASE jobs[c].was
  <2>1. /\ gateway' = Spawned(c) /\ trouble' = Crossing(c) /\ Goes(c, "recovering")
        /\ UNCHANGED <<staged, updateLock, commandLock>>
    BY <1>3 DEF Recovers
  <2>2. "recovering" \in Holding
    BY DEF Holding, HeldByUpdate, HeldByCommand
  <2>3. /\ gateway' \in Gateways /\ trouble' \subseteq Troubles /\ trouble \subseteq trouble'
        /\ \A d \in Commands \ {c} : gateway'.by = d => gateway.by = d
        /\ gateway'.image = exe \/ "crossed" \in trouble'
    BY <1>1, <1>2, <2>1, SpawnedIs
  <2>4. /\ staged' \in [Commands -> Images]
        /\ \A d \in Commands \ {c} : staged'[d] = staged[d]
    BY <1>1, <2>1 DEF Typed
  <2>5. /\ Typed' /\ Locks(c)' /\ Spares(c)
        /\ jobs'[c].pc = "recovering" /\ jobs'[c].tag = jobs[c].tag
        /\ jobs'[c].before = jobs[c].before /\ jobs'[c].was = jobs[c].was
        /\ jobs'[c].said = jobs[c].said
    BY <1>1, <1>2, <2>1, <2>2, <2>3, <2>4, GoingOnHolds
  <2>6. Kept'
    BY <1>2, <2>3 DEF IInv, Kept, Crossed
  <2>7. Before(c)' /\ After(c)' /\ Started(c)'
    BY <1>1, <1>2, <1>3, <2>3, <2>5 DEF Before, After, Started, Crossed
  <2> QED
    BY <1>2, <2>5, <2>6, <2>7 DEF Keeps, CommandInv, SaysRight
<1>4. CASE ~jobs[c].was
  <2>1. Ends(c, "restored") /\ UNCHANGED <<gateway, trouble>>
    BY <1>4 DEF Recovers
  <2>2. /\ gateway' \in Gateways /\ trouble' \subseteq Troubles /\ gateway'.by = gateway.by
    BY <1>1, <2>1 DEF Typed
  <2>3. Kept'
    BY <1>2, <2>1 DEF IInv, Kept, Crossed
  <2>4. Keeps(c)
    BY <1>1, <1>2, <2>1, <2>2, <2>3, EndingKeeps, InstallingHolds DEF Says
  <2> QED
    BY <1>1, <1>2, <1>4, <2>4 DEF SaysRight
<1> QED
  BY <1>3, <1>4

LEMMA RecoveryEndsKeeps ==
  ASSUME IInv, NEW c \in Commands, RecoveryEnds(c)
  PROVE  Keeps(c) /\ UNCHANGED exe /\ SaysRight(c)
<1>1. /\ Typed /\ CommandInv(c) /\ jobs[c].pc = "recovering" /\ jobs[c].pc \in Holding
      /\ exe = jobs[c].before /\ (Runs => gateway.image = exe \/ Crossed)
  BY DEF IInv, RecoveryEnds, At, Holding, HeldByUpdate, HeldByCommand, CommandInv, After, Started
<1>2. /\ UNCHANGED <<exe, backup, latest, owed>> /\ backup' \in Images
      /\ trouble \subseteq trouble' /\ trouble' \subseteq Troubles
  BY <1>1 DEF RecoveryEnds, Typed, Troubles
<1>3. Kept'
  BY <1>2 DEF IInv, Kept, Crossed
<1>4. CASE gateway.up = "ready" /\ Ends(c, "restored") /\ UNCHANGED <<gateway, spent, trouble>>
  <2>1. gateway' \in Gateways /\ gateway'.by = gateway.by
    BY <1>1, <1>4 DEF Typed
  <2>2. Keeps(c)
    BY <1>1, <1>2, <1>3, <1>4, <2>1, EndingKeeps, InstallingHolds DEF Says
  <2>3. Runs
    BY <1>4 DEF Runs
  <2> QED
    BY <1>1, <1>2, <1>4, <2>2, <2>3 DEF SaysRight
<1>5. CASE SeesFailure(c) /\ Ends(c, "")
  <2>1. Keeps(c)
    BY <1>1, <1>2, <1>3, <1>5, FailureSeenIs, EndingKeeps, InstallingHolds DEF Says
  <2>2. jobs'[c].said = ""
    BY <1>1, <1>5, EndsIs DEF Says
  <2> QED
    BY <1>2, <2>1, <2>2 DEF SaysRight
<1> QED
  BY <1>4, <1>5 DEF RecoveryEnds

-----------------------------------------------------------------------------
(* stop and restart touch the gateway alone.                                  *)
LEMMA ControllingKeeps ==
  ASSUME IInv, NEW c \in Commands,
         Controls(c) \/ ControlStops(c) \/ ControlStarts(c) \/ ControlEnds(c)
  PROVE  Keeps(c) /\ UNCHANGED exe /\ (jobs'[c].said = jobs[c].said \/ jobs'[c].said = "")
<1>1. /\ Typed /\ CommandInv(c) /\ UNCHANGED <<exe, backup, latest, owed, trouble>>
      /\ trouble' \subseteq Troubles /\ backup' \in Images
  BY DEF IInv, Controls, ControlStops, ControlStarts, ControlEnds, Typed
<1>2. Kept'
  BY <1>1 DEF IInv, Kept, Crossed
<1>3. ASSUME Ends(c, ""), gateway' \in Gateways, commandLock = c,
             \A d \in Commands \ {c} : gateway'.by = d => gateway.by = d
      PROVE  Keeps(c) /\ UNCHANGED exe /\ jobs'[c].said = ""
  BY <1>1, <1>2, <1>3, EndingKeeps, EndsIs DEF Says
<1>4. CASE Controls(c)
  <2>1. /\ jobs[c] \in Jobs /\ jobs[c].pc = "rest" /\ commandLock = "free" /\ commandLock' = c
        /\ UNCHANGED <<staged, updateLock, gateway>>
    BY <1>1, <1>4 DEF Controls, Typed, At
  <2>2. PICK again \in BOOLEAN :
          jobs' = [jobs EXCEPT ![c] = [jobs[c] EXCEPT !.pc = "stop", !.again = again]]
    BY <1>4 DEF Controls
  <2>3. [jobs[c] EXCEPT !.pc = "stop", !.again = again] \in Jobs
    BY <2>1 DEF Jobs, ControlPhases
  <2>4. /\ jobs' \in [Commands -> Jobs] /\ \A d \in Commands \ {c} : jobs'[d] = jobs[d]
        /\ jobs'[c] = [jobs[c] EXCEPT !.pc = "stop", !.again = again]
    BY <1>1, <2>2, <2>3 DEF Typed
  <2>5. jobs'[c].pc = "stop" /\ jobs'[c].said = jobs[c].said
    BY <2>1, <2>4 DEF Jobs
  <2>6. Typed'
    BY <1>1, <2>1, <2>4 DEF Typed, Holders
  <2>7. CommandInv(c)'
    BY <1>1, <2>1, <2>5
    DEF CommandInv, Locks, Before, After, Started, HeldByUpdate, HeldByCommand, ControlPhases
  <2>8. gateway'.by = gateway.by
    BY <2>1
  <2>9. Spares(c)
    BY <1>1, <2>1, <2>4, <2>8, UpdateAssumption DEF Spares
  <2> QED
    BY <1>1, <1>2, <2>5, <2>6, <2>7, <2>9 DEF Keeps
<1>5. ASSUME jobs[c].pc \in ControlPhases
      PROVE  commandLock = c /\ updateLock # c
  BY <1>1, <1>5 DEF CommandInv, Locks, HeldByUpdate, HeldByCommand, ControlPhases
<1>6. ASSUME jobs[c].pc \in ControlPhases, NEW pc \in ControlPhases, Goes(c, pc),
             UNCHANGED <<staged, updateLock, commandLock>>,
             gateway' \in Gateways, gateway'.by = c => pc = "await",
             \A d \in Commands \ {c} : gateway'.by = d => gateway.by = d
      PROVE  Keeps(c) /\ UNCHANGED exe /\ jobs'[c].said = jobs[c].said
  <2>1. /\ jobs' \in [Commands -> Jobs] /\ \A d \in Commands \ {c} : jobs'[d] = jobs[d]
        /\ jobs'[c].pc = pc /\ jobs'[c].said = jobs[c].said
    BY <1>1, <1>6, GoesIs DEF Phases
  <2>2. Typed'
    BY <1>1, <1>6, <2>1 DEF Typed
  <2>3. CommandInv(c)'
    BY <1>5, <1>6, <2>1
    DEF CommandInv, Locks, Before, After, Started, HeldByUpdate, HeldByCommand, ControlPhases
  <2>4. Spares(c)
    BY <1>1, <1>5, <1>6, <2>1 DEF Spares
  <2> QED
    BY <1>1, <1>2, <2>1, <2>2, <2>3, <2>4 DEF Keeps
<1>7. CASE ControlStops(c)
  <2>1. jobs[c].pc = "stop" /\ commandLock = c
    BY <1>5, <1>7 DEF ControlStops, At, ControlPhases
  <2>2. /\ gateway' \in {gateway, Off} /\ gateway' \in Gateways
        /\ \A d \in Commands : gateway'.by = d => gateway.by = d
    BY <1>1, <1>7, OffIsGateway DEF ControlStops, Typed
  <2>3. CASE Ends(c, "")
    BY <1>3, <2>1, <2>2, <2>3
  <2>4. CASE Goes(c, "start") /\ gateway' = Off /\ UNCHANGED <<updateLock, commandLock, staged>>
    BY <1>6, <2>1, <2>2, <2>4, OffIsGateway DEF ControlPhases
  <2> QED
    BY <1>7, <2>3, <2>4 DEF ControlStops
<1>8. CASE ControlStarts(c)
  <2>1. jobs[c].pc = "start" /\ commandLock = c /\ gateway.by # c
    BY <1>1, <1>5, <1>8 DEF ControlStarts, At, ControlPhases, CommandInv, Started
  <2>2. gateway' = Spawned(c) /\ Goes(c, "await") /\ UNCHANGED <<staged, updateLock, commandLock>>
    BY <1>8 DEF ControlStarts
  <2> QED
    BY <1>1, <1>6, <2>1, <2>2, SpawnedIs DEF ControlPhases
<1>9. CASE ControlEnds(c)
  <2>1. jobs[c].pc = "await" /\ commandLock = c /\ Ends(c, "")
    BY <1>5, <1>9 DEF ControlEnds, At, ControlPhases
  <2>2. /\ gateway' \in Gateways
        /\ \A d \in Commands : gateway'.by = d => gateway.by = d
    BY <1>1, <1>9, FailureSeenIs DEF ControlEnds, Typed
  <2> QED
    BY <1>3, <2>1, <2>2
<1> QED
  BY <1>4, <1>7, <1>8, <1>9

(* A kill frees the locks, and leaves the files as they are.                  *)
LEMMA KilledKeeps ==
  ASSUME IInv, NEW c \in Commands, Killed(c)
  PROVE  Keeps(c) /\ UNCHANGED exe /\ jobs'[c].said = jobs[c].said
<1>1. /\ Typed /\ UNCHANGED <<exe, backup, staged, latest, gateway, owed>>
      /\ gateway'.by = gateway.by
      /\ trouble \subseteq trouble' /\ trouble' \subseteq Troubles
  BY DEF IInv, Killed, Typed, Troubles
<1>2. /\ jobs' \in [Commands -> Jobs] /\ \A d \in Commands \ {c} : jobs'[d] = jobs[d]
      /\ jobs'[c].pc = "over" /\ jobs'[c].said = jobs[c].said
  BY <1>1, GoesIs DEF Killed, Phases
<1>3. "free" \notin Commands
  BY UpdateAssumption
<1>4. /\ updateLock' \in Holders /\ commandLock' \in Holders
      /\ updateLock' # c /\ commandLock' # c
      /\ \A d \in Commands \ {c} : /\ updateLock' = d <=> updateLock = d
                                   /\ commandLock' = d <=> commandLock = d
  BY <1>1, <1>3 DEF Killed, Free, Typed, Holders
<1>5. Typed'
  BY <1>1, <1>2, <1>4 DEF Typed
<1>6. Kept'
  BY <1>1 DEF IInv, Kept, Crossed
<1>7. CommandInv(c)'
  BY <1>2, <1>4, OverIsDone
<1>8. Spares(c)
  BY <1>1, <1>2, <1>4 DEF Spares
<1> QED
  BY <1>1, <1>2, <1>5, <1>6, <1>7, <1>8 DEF Keeps

(* What the world does: no command moves, and none that has begun to install  *)
(* loses what it counts on.                                                   *)
World == GatewayReady \/ GatewayDies \/ OtherStarts \/ Publishes \/ UserRecovers

LEMMA WorldKeeps ==
  ASSUME IInv, World
  PROVE  IInv' /\ UNCHANGED jobs
<1>1. /\ Typed /\ UNCHANGED <<staged, updateLock, commandLock, jobs, trouble>>
      /\ \A c \in Commands : CommandInv(c)
  BY DEF IInv, World, GatewayReady, GatewayDies, OtherStarts, Publishes, UserRecovers
<1>2. CASE GatewayReady \/ GatewayDies \/ OtherStarts
  <2>1. UNCHANGED <<exe, backup, latest, owed>>
    BY <1>2 DEF GatewayReady, GatewayDies, OtherStarts
  <2>2. /\ gateway' \in Gateways
        /\ \A c \in Commands : gateway'.by = c => gateway.by = c
        /\ gateway'.up # "off" => gateway'.image = exe \/ (Runs /\ gateway'.image = gateway.image)
    <3>1. CASE GatewayReady
      <4>1. gateway \in Gateways /\ gateway' = [gateway EXCEPT !.up = "ready"] /\ Runs
        BY <1>1, <3>1 DEF GatewayReady, Typed, Runs
      <4>2. /\ gateway' \in Gateways /\ gateway'.by = gateway.by
            /\ gateway'.image = gateway.image
        BY <4>1 DEF Gateways
      <4> QED
        BY <4>1, <4>2
    <3>2. CASE GatewayDies
      BY <3>2, OffIsGateway DEF GatewayDies
    <3>3. CASE OtherStarts
      <4>1. gateway' = [up |-> "booting", image |-> exe, by |-> "other"] /\ "other" \notin Commands
        BY <3>3, UpdateAssumption DEF OtherStarts
      <4>2. gateway' \in Gateways
        BY <1>1, <4>1 DEF Typed, Gateways
      <4>3. gateway'.image = exe /\ gateway'.by = "other"
        BY <4>1
      <4>4. \A c \in Commands : gateway'.by # c
        BY <4>1, <4>3
      <4> QED
        BY <4>2, <4>3, <4>4
    <3> QED
      BY <1>2, <3>1, <3>2, <3>3
  <2>3. Typed' /\ Kept'
    BY <1>1, <2>1, <2>2 DEF IInv, Typed, Kept, Crossed
  <2>4. ASSUME NEW c \in Commands
        PROVE  CommandInv(c)'
    <3>1. CommandInv(c)
      BY <1>1
    <3>2. Locks(c)' /\ Before(c)' /\ After(c)'
      BY <1>1, <2>1, <3>1 DEF CommandInv, Locks, Before, After, Settled, Crossed
    <3>3. Started(c)'
      BY <1>1, <2>1, <2>2, <3>1 DEF CommandInv, Started, Runs, Crossed
    <3> QED
      BY <3>2, <3>3 DEF CommandInv
  <2> QED
    BY <1>1, <2>3, <2>4 DEF IInv
<1>3. CASE Publishes
  <2>1. /\ UNCHANGED <<exe, backup, gateway, owed>> /\ latest' \in 1..MaxVersion
    BY <1>1, <1>3, UpdateAssumption DEF Publishes, Typed
  <2>2. Typed' /\ Kept'
    BY <1>1, <2>1 DEF IInv, Typed, Kept, Crossed
  <2>3. \A c \in Commands : CommandInv(c)'
    BY <1>1, <2>1
    DEF CommandInv, Locks, Before, After, Started, Settled, Crossed, Runs
  <2> QED
    BY <1>1, <2>2, <2>3 DEF IInv
<1>4. CASE UserRecovers
  <2>1. /\ UNCHANGED <<latest, gateway>> /\ exe' \in {exe, backup} /\ backup # NoFile
        /\ backup' = NoFile /\ owed' = NoFile /\ updateLock = "free" /\ commandLock = "free"
    BY <1>4 DEF UserRecovers
  <2>2. Typed' /\ Kept'
    BY <1>1, <2>1, ImageFacts DEF Typed, Kept
  <2>3. ASSUME NEW c \in Commands
        PROVE  CommandInv(c)'
    <3>1. jobs[c].pc \notin HeldByUpdate /\ jobs[c].pc \notin HeldByCommand /\ Started(c)
      BY <1>1, <2>1, UpdateAssumption DEF CommandInv, Locks
    <3>2. Locks(c)'
      BY <1>1 DEF CommandInv, Locks
    <3>3. Before(c)' /\ After(c)' /\ Started(c)'
      BY <1>1, <2>1, <3>1 DEF HeldByUpdate, Before, After, Started
    <3> QED
      BY <3>2, <3>3 DEF CommandInv
  <2> QED
    BY <1>1, <2>2, <2>3 DEF IInv
<1> QED
  BY <1>1, <1>2, <1>3, <1>4 DEF World

-----------------------------------------------------------------------------
LEMMA InitKeeps == Init => IInv
<1> SUFFICES ASSUME Init PROVE IInv
  OBVIOUS
<1>1. /\ First \in Images \ {NoFile} /\ 0 \in 0..MaxVersion /\ 1 \in 1..MaxVersion
      /\ {"none", "other", "free"} \intersect Commands = {}
  BY UpdateAssumption DEF First, Images, NoFile
<1>2. [pc |-> "rest", current |-> 0, tag |-> 0, before |-> NoFile,
       was |-> FALSE, again |-> FALSE, said |-> ""] \in Jobs
  BY <1>1, ImageFacts DEF Jobs
<1>3. jobs \in [Commands -> Jobs] /\ \A c \in Commands : jobs[c].pc = "rest"
  BY <1>2 DEF Init
<1>4. gateway \in Gateways /\ gateway.by \notin Commands
  <2>1. CASE gateway = Off
    BY <2>1, OffIsGateway
  <2>2. CASE gateway = [up |-> "ready", image |-> First, by |-> "other"]
    <3>1. gateway.by = "other"
      BY <2>2
    <3> QED
      BY <1>1, <2>2, <3>1 DEF Gateways
  <2> QED
    BY <2>1, <2>2 DEF Init
<1>5. Typed
  BY <1>1, <1>3, <1>4, ImageFacts DEF Init, Typed, Holders
<1>6. ASSUME NEW c \in Commands
      PROVE  CommandInv(c)
  BY <1>1, <1>3, <1>4
  DEF Init, CommandInv, Locks, Before, After, Started, HeldByUpdate, HeldByCommand, ControlPhases
<1> QED
  BY <1>5, <1>6 DEF IInv, Init, Kept

(* What a step of a command does to the executable and to what it says.       *)
LEMMA CommandStep ==
  ASSUME IInv, NEW c \in Commands,
         Plans(c) \/ Works(c) \/ StagingFails(c) \/ Controls(c) \/ Killed(c)
  PROVE  /\ Keeps(c)
         /\ exe'.version >= exe.version \/ exe' = backup
         /\ jobs[c].said = "" => SaysRight(c)
<1>1. exe.version \in Nat /\ Typed
  BY ImageFacts DEF IInv, Typed
<1>2. ASSUME UNCHANGED exe PROVE exe'.version >= exe.version
  BY <1>1, <1>2
<1>3. ASSUME jobs'[c].said = jobs[c].said \/ jobs'[c].said # "restored"
      PROVE  jobs[c].said = "" => SaysRight(c)
  BY <1>3 DEF SaysRight
<1>4. CASE Plans(c) \/ Sees(c) \/ Claims(c) \/ Stages(c) \/ StagingFails(c) \/ Takes(c)
  <2>1. UNCHANGED exe
    BY <1>4 DEF Plans, Sees, Claims, Stages, StagingFails, Takes
  <2>2. jobs'[c].said = jobs[c].said \/ jobs'[c].said # "restored"
    <3>1. ASSUME NEW pc \in Phases, Goes(c, pc) PROVE jobs'[c].said = jobs[c].said
      BY <1>1, <3>1, GoesIs
    <3>2. ASSUME Ends(c, "kept") PROVE jobs'[c].said # "restored"
      BY <1>1, <3>2, EndsIs DEF Says
    <3>3. CASE Claims(c) \/ Stages(c) \/ StagingFails(c)
      BY <3>1, <3>2, <3>3 DEF Claims, Stages, StagingFails, Phases, UpdatePhases
    <3>4. CASE Plans(c) \/ Sees(c) \/ Takes(c)
      <4>1. jobs[c] \in Jobs
        BY <1>1 DEF Typed
      <4>2. CASE Plans(c)
        <5>1. jobs'[c] =
                [jobs[c] EXCEPT !.pc = "planned", !.current = exe.version, !.tag = latest]
          BY <1>1, <4>2 DEF Plans, Typed
        <5> QED
          BY <4>1, <5>1 DEF Jobs
      <4>3. CASE Sees(c)
        <5>1. jobs'[c] = [jobs[c] EXCEPT !.pc = "seen", !.before = exe]
          BY <1>1, <4>3 DEF Sees, Typed
        <5> QED
          BY <4>1, <5>1 DEF Jobs
      <4>4. CASE Takes(c) /\ ~Ends(c, "kept")
        <5>1. jobs'[c] = [jobs[c] EXCEPT !.pc = "linking", !.was = Runs]
          BY <1>1, <4>4 DEF Takes, Typed
        <5> QED
          BY <4>1, <5>1 DEF Jobs
      <4> QED
        BY <3>2, <3>4, <4>2, <4>3, <4>4
    <3> QED
      BY <1>4, <3>3, <3>4
  <2> QED
    BY <1>2, <1>3, <1>4, <2>1, <2>2, PreparingKeeps
<1>5. CASE Links(c) \/ Stops(c)
  <2>1. UNCHANGED exe
    BY <1>5 DEF Links, Stops
  <2>2. jobs'[c].said = jobs[c].said \/ jobs'[c].said # "restored"
    <3>1. ASSUME NEW pc \in Phases, Goes(c, pc) PROVE jobs'[c].said = jobs[c].said
      BY <1>1, <3>1, GoesIs
    <3>2. ASSUME Ends(c, "kept") PROVE jobs'[c].said # "restored"
      BY <1>1, <3>2, EndsIs DEF Says
    <3> QED
      BY <1>5, <3>1, <3>2 DEF Links, Stops, Phases, UpdatePhases
  <2> QED
    BY <1>2, <1>3, <1>5, <2>1, <2>2, LinksKeeps, StopsKeeps
<1>6. CASE Replaces(c)
  BY <1>3, <1>6, ReplacesKeeps
<1>7. CASE Starts(c) \/ StartEnds(c) \/ Cleans(c) \/ Killed(c)
  BY <1>2, <1>3, <1>7, StartsKeeps, StartEndsKeeps, CleansKeeps, KilledKeeps
<1>8. CASE Quiesces(c) \/ Restores(c)
  BY <1>2, <1>3, <1>8, QuiescesKeeps, RestoresKeeps
<1>9. CASE Recovers(c) \/ RecoveryEnds(c)
  BY <1>2, <1>9, RecoversKeeps, RecoveryEndsKeeps
<1>10. CASE Controls(c) \/ ControlStops(c) \/ ControlStarts(c) \/ ControlEnds(c)
  BY <1>2, <1>3, <1>10, ControllingKeeps
<1> QED
  BY <1>4, <1>5, <1>6, <1>7, <1>8, <1>9, <1>10 DEF Works
-----------------------------------------------------------------------------
LEMMA NextKeeps == IInv /\ [Next]_vars => IInv'
<1> SUFFICES ASSUME IInv, [Next]_vars PROVE IInv'
  OBVIOUS
<1>1. ASSUME NEW c \in Commands,
             Plans(c) \/ Works(c) \/ StagingFails(c) \/ Controls(c) \/ Killed(c)
      PROVE  IInv'
  <2>1. Typed' /\ Kept' /\ CommandInv(c)' /\ Spares(c)
    BY <1>1, CommandStep DEF Keeps
  <2>2. ASSUME NEW d \in Commands PROVE CommandInv(d)'
    BY <2>1, SparedKeeps
  <2> QED
    BY <2>1, <2>2 DEF IInv
<1>2. CASE World
  BY <1>2, WorldKeeps
<1>3. CASE UNCHANGED vars
  BY <1>3 DEF vars, IInv, Typed, Kept, CommandInv, Locks, Before, After, Started,
              Settled, Crossed, Runs
<1> QED
  BY <1>1, <1>2, <1>3 DEF Next, World

LEMMA Invariance == Spec => []IInv
<1> QED
  BY InitKeeps, NextKeeps, PTL DEF Spec

(* Every variable keeps its type, and nobody who is done holds a lock: neither *)
(* an end nor a kill leaves one behind (state_lock.rs, update.rs update_lock).  *)
THEOREM UpdateTypes == Spec => []TypeOK
<1>1. IInv => TypeOK
  <2> SUFFICES ASSUME IInv, NEW c \in Commands
               PROVE  /\ updateLock = c => jobs[c].pc \in UpdatePhases
                      /\ commandLock = c => jobs[c].pc \notin {"rest", "over", "planned", "seen"}
    BY DEF IInv, TypeOK
  <2>1. Locks(c)
    BY DEF IInv, CommandInv
  <2> QED
    BY <2>1 DEF Locks, HeldByUpdate, HeldByCommand, UpdatePhases, ControlPhases
<1> QED
  BY <1>1, Invariance, PTL

(* Wherever any number of updates stop, the image of the gateway that ran is   *)
(* installed or is the backup (update.rs install).                             *)
THEOREM AlwaysAWayBack == Spec => []WayBack
<1>1. IInv => WayBack
  BY DEF IInv, Kept, WayBack
<1> QED
  BY <1>1, Invariance, PTL

(* No race of updates ever puts an older version in place of a newer one, but  *)
(* for the backup an update or its user puts back (update.rs apply_install).   *)
THEOREM NoDowngrade == Spec => NeverDowngrades
<1>1. IInv /\ [Next]_vars => [exe'.version < exe.version => exe' = backup]_vars
  <2> SUFFICES ASSUME IInv, Next, exe'.version < exe.version PROVE exe' = backup
    BY DEF vars
  <2>1. exe.version \in Nat /\ exe'.version \in Nat
    BY NextKeeps, ImageFacts DEF IInv, Typed
  <2>2. ASSUME NEW c \in Commands,
               Plans(c) \/ Works(c) \/ StagingFails(c) \/ Controls(c) \/ Killed(c)
        PROVE  exe' = backup
    <3>1. exe'.version >= exe.version \/ exe' = backup
      BY <2>2, CommandStep
    <3> QED
      BY <2>1, <3>1
  <2>3. CASE World
    <3>1. exe' \in {exe, backup}
      BY <2>3 DEF World, GatewayReady, GatewayDies, OtherStarts, Publishes, UserRecovers
    <3> QED
      BY <2>1, <3>1
  <2> QED
    BY <2>2, <2>3 DEF Next, World
<1> QED
  BY <1>1, Invariance, PTL DEF Spec, NeverDowngrades

(* An update that says it restored everything has: the image it found, and a   *)
(* ready gateway of it if one ran (update.rs install).                         *)
THEOREM RestoredIsRestored == Spec => RestoredAsBefore
<1> DEFINE Tells(c) == jobs'[c].said = "restored" /\ jobs[c].said = "" =>
                        /\ exe' = jobs[c].before
                        /\ jobs[c].was /\ ~Crossed =>
                             gateway'.up = "ready" /\ gateway'.image = exe'
<1>1. IInv /\ [Next]_vars => [\A c \in Commands : Tells(c)]_vars
  <2> SUFFICES ASSUME IInv, Next, NEW c \in Commands PROVE Tells(c)
    OBVIOUS
  <2>1. ASSUME NEW d \in Commands,
               Plans(d) \/ Works(d) \/ StagingFails(d) \/ Controls(d) \/ Killed(d)
        PROVE  Tells(c)
    <3>1. CASE c = d
      BY <2>1, <3>1, CommandStep DEF SaysRight
    <3>2. CASE c # d
      BY <2>1, <3>2, CommandStep DEF Keeps, Spares
    <3> QED
      BY <3>1, <3>2
  <2>2. CASE World
    BY <2>2, WorldKeeps
  <2> QED
    BY <2>1, <2>2 DEF Next, World
<1> QED
  BY <1>1, Invariance, PTL DEF Spec, RestoredAsBefore
=============================================================================
