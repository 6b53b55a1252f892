----------------------------- MODULE TeamProofs -----------------------------
(***************************************************************************)
(* Types and safety of Team for any team, panes and processes and whatever *)
(* faults there are.  The type of a pane in the hands of a launch thread,  *)
(* which the code takes for granted (it panics without), needs the rest of *)
(* Typed, and every other proof starts from Typed.                         *)
(***************************************************************************)
EXTENDS MCTeam, FiniteSetTheorems, SequenceTheorems, TLAPS

(* A recorded pane is of its worker's kind, and its worker is on the board. *)
PanesTyped ==
    /\ \A w \in Spawned : paneOf[w] \in Panes \cup {None}
    /\ \A w \in Workers : paneOf[w] # None => life[w] # "absent"
    /\ \A a \in Adoptable :
        /\ paneOf[a] \in UserPanes \cup {None}
        /\ life[a] # "absent" => paneOf[a] # None

(* Herdr has created every pane that is recorded, copied or held. *)
Made ==
    /\ \A w \in Spawned : paneOf[w] # None => pane[paneOf[w]] # "unused"
    /\ \A s \in Spawners, w \in Spawned :
        /\ copy[s].pane[w] # None => pane[copy[s].pane[w]] # "unused"
        /\ hand[s][w] # None => pane[hand[s][w]] # "unused"

Allocating == {"record_tree", "setup", "workspace", "record_pane"}

(* A step belongs to one phase. *)
Phased ==
    \A s \in Spawners, w \in Spawned :
        /\ step[s][w] \in Allocating => sphase[s] = "allocate"
        /\ step[s][w] \notin Allocating \cup {"rest"} => sphase[s] = "launch"
        /\ step[s][w] \in {"record_tree", "setup"} => w \in Trees

(* The copy of a process has no pane the board has not, and it has one for *)
(* each worker the process has allocated and for each it launches.         *)
Copied ==
    \A s \in Spawners, w \in Spawned :
        /\ copy[s].pane[w] # None => paneOf[w] # None
        /\ sphase[s] = "allocate" /\ w \in crew[s] \ todo[s] => copy[s].pane[w] # None
        /\ sphase[s] = "launch" /\ step[s][w] # "rest" => copy[s].pane[w] # None

(* What a kill is to close is a pane of the worker's kind. *)
KillAims ==
    \A k \in Killers : \A w \in due[k] :
        shown[k][w] \in IF w \in Spawned THEN Panes ELSE UserPanes

(* The workers a kill has loaded are on the board. *)
KillTargets ==
    \A k \in Killers, w \in Workers :
        w \in due[k] \cup missed[k] \/ (kphase[k] # "off" /\ w = target[k])
            => life[w] # "absent"

(* An adoption under way has a name and a pane. *)
AdoptAims ==
    \A x \in Adopters :
        aphase[x] # "off" => wanted[x] \in Adoptable /\ place[x] \in UserPanes

(* Only a run that exists has workers and commands working on it, and the  *)
(* workers of the specification come on the board together.                *)
Begun ==
    /\ runLife = "none" => \A w \in Workers : life[w] = "absent"
    /\ \A s \in Spawners : sphase[s] # "off" =>
        runLife # "none" /\ \A w \in Spawned : life[w] # "absent"
    /\ \A x \in Adopters : aphase[x] # "off" => runLife # "none"
    /\ \A v, w \in Spawned : life[v] = "absent" => life[w] = "absent"

Typed ==
    /\ TypeOK
    /\ PanesTyped
    /\ Made
    /\ Phased
    /\ Copied
    /\ KillAims
    /\ KillTargets
    /\ AdoptAims
    /\ Begun

-----------------------------------------------------------------------------
(* A command changes no other command's variables. *)

(* Without a step of spawn its variables stay typed and its steps in phase. *)
LEMMA SpawnKept ==
    ASSUME SpawnTypeOK /\ Phased, UNCHANGED spawnVars
    PROVE  (SpawnTypeOK /\ Phased)'
BY DEF SpawnTypeOK, Phased, spawnVars

(* Without a step of kill its variables stay typed and its panes of their kind. *)
LEMMA KillKept ==
    ASSUME KillTypeOK /\ KillAims, UNCHANGED killVars
    PROVE  (KillTypeOK /\ KillAims)'
BY DEF KillTypeOK, KillAims, killVars

(* Without a step of adopt its variables stay typed and its aims known. *)
LEMMA AdoptKept ==
    ASSUME AdoptTypeOK /\ AdoptAims, UNCHANGED adoptVars
    PROVE  (AdoptTypeOK /\ AdoptAims)'
BY DEF AdoptTypeOK, AdoptAims, adoptVars

-----------------------------------------------------------------------------
(* One lemma for each command and each part of Typed it may disturb. *)

(* A step of spawn or resume keeps the board, Herdr and the events typed. *)
LEMMA SpawnKeepsBoardTypeOK ==
    ASSUME Typed, NEW s \in Spawners, SpawnStep(s),
           UNCHANGED <<killVars, adoptVars>>
    PROVE  BoardTypeOK'
<1> USE BoardAssumption DEF Typed, TypeOK, BoardTypeOK, SpawnTypeOK, Phased,
        Goes, boardVars, board, world, Workers, Places, Lives, TerminalLives
<1>1. CASE CreateRun(s)
  BY <1>1 DEF CreateRun, StartsWith
<1>2. CASE StartResume(s)
  BY <1>2 DEF StartResume, StartsWith
<1>3. CASE WriteProtocols(s)
  BY <1>3 DEF WriteProtocols, LaunchThreads, Rests
<1>4. CASE ProtocolsFail(s)
  BY <1>4 DEF ProtocolsFail, Leaves
<1>5. CASE FinishLaunch(s)
  BY <1>5 DEF FinishLaunch, Leaves
<1>6. CASE SpawnCrashes(s)
  BY <1>6 DEF SpawnCrashes, Leaves
<1>7. ASSUME NEW w \in Spawned, KeepPane(s, w) PROVE BoardTypeOK'
  BY <1>7 DEF KeepPane, PaneIsLive, Recorded, Rests
<1>8. ASSUME NEW w \in Spawned, MakeTree(s, w) PROVE BoardTypeOK'
  BY <1>8 DEF MakeTree, Picks, Takes, Rests, HasCwd
<1>9. ASSUME NEW w \in Spawned, RecordTree(s, w) PROVE BoardTypeOK'
  BY <1>9 DEF RecordTree
<1>10. ASSUME NEW w \in Spawned, RunSetup(s, w) PROVE BoardTypeOK'
  BY <1>10 DEF RunSetup
<1>11. ASSUME NEW w \in Spawned, MakeWorkspace(s, w) PROVE BoardTypeOK'
  BY <1>11 DEF MakeWorkspace, Picks, Takes, Rests
<1>12. ASSUME NEW w \in Spawned, RecordPane(s, w) PROVE BoardTypeOK'
  BY <1>12 DEF RecordPane
<1>13. ASSUME NEW w \in Spawned, AllocateFails(s, w) PROVE BoardTypeOK'
  BY <1>13 DEF AllocateFails, Leaves, Picks, Rests
<1>14. ASSUME NEW w \in Spawned, ReadPane(s, w) PROVE BoardTypeOK'
  BY <1>14 DEF ReadPane
<1>15. ASSUME NEW w \in Spawned, LookAtPane(s, w) PROVE BoardTypeOK'
  BY <1>15 DEF LookAtPane, AfterLook
<1>16. ASSUME NEW w \in Spawned, LaunchAgent(s, w) PROVE BoardTypeOK'
  BY <1>16 DEF LaunchAgent, Open
<1>17. ASSUME NEW w \in Spawned, BriefWorker(s, w) PROVE BoardTypeOK'
  BY <1>17 DEF BriefWorker, SubmitBrief, Takes
<1>18. ASSUME NEW w \in Spawned, LaunchFails(s, w) PROVE BoardTypeOK'
  BY <1>18 DEF LaunchFails, Takes
<1>19. ASSUME NEW w \in Spawned, Checkpoint(s, w) PROVE BoardTypeOK'
  BY <1>19 DEF Checkpoint, ResolvePending
<1>20. ASSUME NEW w \in Spawned, RecordFailure(s, w) PROVE BoardTypeOK'
  BY <1>20 DEF RecordFailure, ResolvePending
<1> QED BY <1>1, <1>2, <1>3, <1>4, <1>5, <1>6, <1>7, <1>8, <1>9, <1>10,
          <1>11, <1>12, <1>13, <1>14, <1>15, <1>16, <1>17, <1>18, <1>19, <1>20
       DEF SpawnStep, Allocate, LaunchThread

(* A step of spawn or resume keeps the spawn processes typed. *)
LEMMA SpawnKeepsSpawnTypeOK ==
    ASSUME Typed, NEW s \in Spawners, SpawnStep(s),
           UNCHANGED <<killVars, adoptVars>>
    PROVE  SpawnTypeOK'
<1> USE BoardAssumption DEF Typed, TypeOK, SpawnTypeOK, BoardTypeOK,
        PanesTyped, Made, Phased, Allocating, Copied, boardVars, board, Steps,
        Refresh, NoCopy, Goes, Takes, Places
<1>1. CASE CreateRun(s)
  BY <1>1 DEF CreateRun, StartsWith
<1>2. CASE StartResume(s)
  BY <1>2 DEF StartResume, StartsWith
<1>3. CASE WriteProtocols(s)
  BY <1>3 DEF WriteProtocols, LaunchThreads, Rests
<1>4. CASE ProtocolsFail(s)
  BY <1>4 DEF ProtocolsFail, Leaves
<1>5. CASE FinishLaunch(s)
  BY <1>5 DEF FinishLaunch, Leaves
<1>6. CASE SpawnCrashes(s)
  BY <1>6 DEF SpawnCrashes, Leaves
<1>7. ASSUME NEW w \in Spawned, KeepPane(s, w) PROVE SpawnTypeOK'
  BY <1>7 DEF KeepPane, PaneIsLive, Recorded, Rests
<1>8. ASSUME NEW w \in Spawned, MakeTree(s, w) PROVE SpawnTypeOK'
  BY <1>8 DEF MakeTree, Picks, Takes, Rests, HasCwd
<1>9. ASSUME NEW w \in Spawned, RecordTree(s, w) PROVE SpawnTypeOK'
  BY <1>9 DEF RecordTree
<1>10. ASSUME NEW w \in Spawned, RunSetup(s, w) PROVE SpawnTypeOK'
  BY <1>10 DEF RunSetup
<1>11. ASSUME NEW w \in Spawned, MakeWorkspace(s, w) PROVE SpawnTypeOK'
  BY <1>11 DEF MakeWorkspace, Picks, Takes, Rests
<1>12. ASSUME NEW w \in Spawned, RecordPane(s, w) PROVE SpawnTypeOK'
  BY <1>12 DEF RecordPane
<1>13. ASSUME NEW w \in Spawned, AllocateFails(s, w) PROVE SpawnTypeOK'
  BY <1>13 DEF AllocateFails, Leaves, Picks, Rests
<1>14. ASSUME NEW w \in Spawned, ReadPane(s, w) PROVE SpawnTypeOK'
  <2>1. sphase[s] = "launch" /\ step[s][w] = "start"
    BY <1>14 DEF ReadPane
  <2>2. copy[s].pane[w] \in Panes
    BY <2>1
  <2>3. hand' = [hand EXCEPT ![s][w] = copy[s].pane[w]]
    BY <1>14 DEF ReadPane
  <2>4. step' = [step EXCEPT ![s][w] = IF resuming[s] THEN "look" ELSE "launch"]
    BY <1>14 DEF ReadPane
  <2>5. \A t \in Spawners, v \in Spawned :
          t # s \/ v # w => step'[t][v] = step[t][v] /\ hand'[t][v] = hand[t][v]
    BY <2>3, <2>4
  <2>6. hand'[s][w] \in Panes
    BY <2>2, <2>3
  <2> QED
    BY <1>14, <2>2, <2>3, <2>4, <2>5, <2>6 DEF ReadPane
<1>15. ASSUME NEW w \in Spawned, LookAtPane(s, w) PROVE SpawnTypeOK'
  BY <1>15 DEF LookAtPane, AfterLook
<1>16. ASSUME NEW w \in Spawned, LaunchAgent(s, w) PROVE SpawnTypeOK'
  BY <1>16 DEF LaunchAgent, Open
<1>17. ASSUME NEW w \in Spawned, BriefWorker(s, w) PROVE SpawnTypeOK'
  BY <1>17 DEF BriefWorker, SubmitBrief, Takes
<1>18. ASSUME NEW w \in Spawned, LaunchFails(s, w) PROVE SpawnTypeOK'
  BY <1>18 DEF LaunchFails, Takes
<1>19. ASSUME NEW w \in Spawned, Checkpoint(s, w) PROVE SpawnTypeOK'
  BY <1>19 DEF Checkpoint, ResolvePending
<1>20. ASSUME NEW w \in Spawned, RecordFailure(s, w) PROVE SpawnTypeOK'
  BY <1>20 DEF RecordFailure, ResolvePending
<1> QED BY <1>1, <1>2, <1>3, <1>4, <1>5, <1>6, <1>7, <1>8, <1>9, <1>10,
          <1>11, <1>12, <1>13, <1>14, <1>15, <1>16, <1>17, <1>18, <1>19, <1>20
       DEF SpawnStep, Allocate, LaunchThread

(* A step of spawn or resume records only panes of a worker's kind, for      *)
(* workers on the board.                                                     *)
LEMMA SpawnKeepsPanesTyped ==
    ASSUME Typed, NEW s \in Spawners, SpawnStep(s),
           UNCHANGED <<killVars, adoptVars>>
    PROVE  PanesTyped'
<1> USE BoardAssumption DEF Typed, TypeOK, PanesTyped, Begun, Phased, Workers,
        SpawnTypeOK, boardVars, board, Goes
<1>1. CASE CreateRun(s)
  BY <1>1 DEF CreateRun, StartsWith
<1>2. CASE StartResume(s)
  BY <1>2 DEF StartResume, StartsWith
<1>3. CASE WriteProtocols(s)
  BY <1>3 DEF WriteProtocols, LaunchThreads, Rests
<1>4. CASE ProtocolsFail(s)
  BY <1>4 DEF ProtocolsFail, Leaves
<1>5. CASE FinishLaunch(s)
  BY <1>5 DEF FinishLaunch, Leaves
<1>6. CASE SpawnCrashes(s)
  BY <1>6 DEF SpawnCrashes, Leaves
<1>7. ASSUME NEW w \in Spawned, KeepPane(s, w) PROVE PanesTyped'
  BY <1>7 DEF KeepPane, PaneIsLive, Recorded, Rests
<1>8. ASSUME NEW w \in Spawned, MakeTree(s, w) PROVE PanesTyped'
  BY <1>8 DEF MakeTree, Picks, Takes, Rests, HasCwd
<1>9. ASSUME NEW w \in Spawned, RecordTree(s, w) PROVE PanesTyped'
  BY <1>9 DEF RecordTree
<1>10. ASSUME NEW w \in Spawned, RunSetup(s, w) PROVE PanesTyped'
  BY <1>10 DEF RunSetup
<1>11. ASSUME NEW w \in Spawned, MakeWorkspace(s, w) PROVE PanesTyped'
  BY <1>11 DEF MakeWorkspace, Picks, Takes, Rests
<1>12. ASSUME NEW w \in Spawned, RecordPane(s, w) PROVE PanesTyped'
  <2>1. sphase[s] # "off" /\ hand[s][w] \in Panes
    BY <1>12 DEF RecordPane
  <2>2. life[w] # "absent"
    BY <2>1
  <2>3. paneOf' = [paneOf EXCEPT ![w] = hand[s][w]] /\ life' = life
    BY <1>12 DEF RecordPane
  <2> QED
    BY <2>1, <2>2, <2>3
<1>13. ASSUME NEW w \in Spawned, AllocateFails(s, w) PROVE PanesTyped'
  BY <1>13 DEF AllocateFails, Leaves, Picks, Rests
<1>14. ASSUME NEW w \in Spawned, ReadPane(s, w) PROVE PanesTyped'
  BY <1>14 DEF ReadPane
<1>15. ASSUME NEW w \in Spawned, LookAtPane(s, w) PROVE PanesTyped'
  BY <1>15 DEF LookAtPane, AfterLook
<1>16. ASSUME NEW w \in Spawned, LaunchAgent(s, w) PROVE PanesTyped'
  BY <1>16 DEF LaunchAgent, Open
<1>17. ASSUME NEW w \in Spawned, BriefWorker(s, w) PROVE PanesTyped'
  BY <1>17 DEF BriefWorker, SubmitBrief, Takes
<1>18. ASSUME NEW w \in Spawned, LaunchFails(s, w) PROVE PanesTyped'
  BY <1>18 DEF LaunchFails, Takes
<1>19. ASSUME NEW w \in Spawned, Checkpoint(s, w) PROVE PanesTyped'
  BY <1>19 DEF Checkpoint, ResolvePending
<1>20. ASSUME NEW w \in Spawned, RecordFailure(s, w) PROVE PanesTyped'
  BY <1>20 DEF RecordFailure, ResolvePending
<1> QED BY <1>1, <1>2, <1>3, <1>4, <1>5, <1>6, <1>7, <1>8, <1>9, <1>10,
          <1>11, <1>12, <1>13, <1>14, <1>15, <1>16, <1>17, <1>18, <1>19, <1>20
       DEF SpawnStep, Allocate, LaunchThread

(* A step of spawn or resume leaves only created panes recorded, copied or   *)
(* held.                                                                     *)
LEMMA SpawnKeepsMade ==
    ASSUME Typed, NEW s \in Spawners, SpawnStep(s),
           UNCHANGED <<killVars, adoptVars>>
    PROVE  Made'
<1> USE BoardAssumption DEF Typed, TypeOK, Made, BoardTypeOK, boardVars, board,
        world, Refresh, NoCopy, Places
<1>1. CASE CreateRun(s)
  BY <1>1 DEF CreateRun, StartsWith
<1>2. CASE StartResume(s)
  BY <1>2 DEF StartResume, StartsWith
<1>3. CASE WriteProtocols(s)
  BY <1>3 DEF WriteProtocols, LaunchThreads, Rests
<1>4. CASE ProtocolsFail(s)
  BY <1>4 DEF ProtocolsFail, Leaves
<1>5. CASE FinishLaunch(s)
  BY <1>5 DEF FinishLaunch, Leaves
<1>6. CASE SpawnCrashes(s)
  BY <1>6 DEF SpawnCrashes, Leaves
<1>7. ASSUME NEW w \in Spawned, KeepPane(s, w) PROVE Made'
  BY <1>7 DEF KeepPane, PaneIsLive, Recorded, Rests
<1>8. ASSUME NEW w \in Spawned, MakeTree(s, w) PROVE Made'
  BY <1>8 DEF MakeTree, Picks, Takes, Rests, HasCwd
<1>9. ASSUME NEW w \in Spawned, RecordTree(s, w) PROVE Made'
  BY <1>9 DEF RecordTree
<1>10. ASSUME NEW w \in Spawned, RunSetup(s, w) PROVE Made'
  BY <1>10 DEF RunSetup
<1>11. ASSUME NEW w \in Spawned, MakeWorkspace(s, w) PROVE Made'
  BY <1>11 DEF MakeWorkspace, Picks, Takes, Rests
<1>12. ASSUME NEW w \in Spawned, RecordPane(s, w) PROVE Made'
  BY <1>12 DEF RecordPane
<1>13. ASSUME NEW w \in Spawned, AllocateFails(s, w) PROVE Made'
  BY <1>13 DEF AllocateFails, Leaves, Picks, Rests
<1>14. ASSUME NEW w \in Spawned, ReadPane(s, w) PROVE Made'
  BY <1>14 DEF ReadPane
<1>15. ASSUME NEW w \in Spawned, LookAtPane(s, w) PROVE Made'
  BY <1>15 DEF LookAtPane, AfterLook
<1>16. ASSUME NEW w \in Spawned, LaunchAgent(s, w) PROVE Made'
  BY <1>16 DEF LaunchAgent, Open
<1>17. ASSUME NEW w \in Spawned, BriefWorker(s, w) PROVE Made'
  BY <1>17 DEF BriefWorker, SubmitBrief, Takes
<1>18. ASSUME NEW w \in Spawned, LaunchFails(s, w) PROVE Made'
  BY <1>18 DEF LaunchFails, Takes
<1>19. ASSUME NEW w \in Spawned, Checkpoint(s, w) PROVE Made'
  BY <1>19 DEF Checkpoint, ResolvePending
<1>20. ASSUME NEW w \in Spawned, RecordFailure(s, w) PROVE Made'
  BY <1>20 DEF RecordFailure, ResolvePending
<1> QED BY <1>1, <1>2, <1>3, <1>4, <1>5, <1>6, <1>7, <1>8, <1>9, <1>10,
          <1>11, <1>12, <1>13, <1>14, <1>15, <1>16, <1>17, <1>18, <1>19, <1>20
       DEF SpawnStep, Allocate, LaunchThread

(* A step of spawn or resume leaves each step in the phase that takes it. *)
LEMMA SpawnKeepsPhased ==
    ASSUME Typed, NEW s \in Spawners, SpawnStep(s),
           UNCHANGED <<killVars, adoptVars>>
    PROVE  Phased'
<1> USE BoardAssumption DEF Typed, TypeOK, Phased, Allocating, SpawnTypeOK,
        Goes, Takes
<1>1. CASE CreateRun(s)
  BY <1>1 DEF CreateRun, StartsWith
<1>2. CASE StartResume(s)
  BY <1>2 DEF StartResume, StartsWith
<1>3. CASE WriteProtocols(s)
  BY <1>3 DEF WriteProtocols, LaunchThreads, Rests
<1>4. CASE ProtocolsFail(s)
  BY <1>4 DEF ProtocolsFail, Leaves
<1>5. CASE FinishLaunch(s)
  BY <1>5 DEF FinishLaunch, Leaves
<1>6. CASE SpawnCrashes(s)
  BY <1>6 DEF SpawnCrashes, Leaves
<1>7. ASSUME NEW w \in Spawned, KeepPane(s, w) PROVE Phased'
  BY <1>7 DEF KeepPane, PaneIsLive, Recorded, Rests
<1>8. ASSUME NEW w \in Spawned, MakeTree(s, w) PROVE Phased'
  BY <1>8 DEF MakeTree, Picks, Takes, Rests, HasCwd
<1>9. ASSUME NEW w \in Spawned, RecordTree(s, w) PROVE Phased'
  BY <1>9 DEF RecordTree
<1>10. ASSUME NEW w \in Spawned, RunSetup(s, w) PROVE Phased'
  BY <1>10 DEF RunSetup
<1>11. ASSUME NEW w \in Spawned, MakeWorkspace(s, w) PROVE Phased'
  BY <1>11 DEF MakeWorkspace, Picks, Takes, Rests
<1>12. ASSUME NEW w \in Spawned, RecordPane(s, w) PROVE Phased'
  BY <1>12 DEF RecordPane
<1>13. ASSUME NEW w \in Spawned, AllocateFails(s, w) PROVE Phased'
  BY <1>13 DEF AllocateFails, Leaves, Picks, Rests
<1>14. ASSUME NEW w \in Spawned, ReadPane(s, w) PROVE Phased'
  BY <1>14 DEF ReadPane
<1>15. ASSUME NEW w \in Spawned, LookAtPane(s, w) PROVE Phased'
  <2>1. step[s][w] = "look" /\ hand[s][w] \in Panes
    BY <1>15 DEF LookAtPane
  <2>2. pane[hand[s][w]] \in {"closed", "shell", "idle", "working"}
    BY <2>1, BoardAssumption DEF BoardTypeOK, Made, Places
  <2>3. AfterLook[pane[hand[s][w]]] \in {"failed", "launch", "brief", "checkpoint"}
    BY <2>2 DEF AfterLook
  <2> QED
    BY <1>15, <2>1, <2>3 DEF LookAtPane
<1>16. ASSUME NEW w \in Spawned, LaunchAgent(s, w) PROVE Phased'
  BY <1>16 DEF LaunchAgent, Open
<1>17. ASSUME NEW w \in Spawned, BriefWorker(s, w) PROVE Phased'
  BY <1>17 DEF BriefWorker, SubmitBrief, Takes
<1>18. ASSUME NEW w \in Spawned, LaunchFails(s, w) PROVE Phased'
  BY <1>18 DEF LaunchFails, Takes
<1>19. ASSUME NEW w \in Spawned, Checkpoint(s, w) PROVE Phased'
  BY <1>19 DEF Checkpoint, ResolvePending
<1>20. ASSUME NEW w \in Spawned, RecordFailure(s, w) PROVE Phased'
  BY <1>20 DEF RecordFailure, ResolvePending
<1> QED BY <1>1, <1>2, <1>3, <1>4, <1>5, <1>6, <1>7, <1>8, <1>9, <1>10,
          <1>11, <1>12, <1>13, <1>14, <1>15, <1>16, <1>17, <1>18, <1>19, <1>20
       DEF SpawnStep, Allocate, LaunchThread

(* A step of spawn or resume leaves in each copy the panes that its process  *)
(* relies on.                                                                *)
LEMMA SpawnKeepsCopied ==
    ASSUME Typed, NEW s \in Spawners, SpawnStep(s),
           UNCHANGED <<killVars, adoptVars>>
    PROVE  Copied'
<1> USE BoardAssumption DEF Typed, TypeOK, Copied, SpawnTypeOK, BoardTypeOK,
        Phased, Allocating, Refresh, NoCopy, Goes, Takes, boardVars, board,
        Places
<1>1. CASE CreateRun(s)
  BY <1>1 DEF CreateRun, StartsWith
<1>2. CASE StartResume(s)
  BY <1>2 DEF StartResume, StartsWith
<1>3. CASE WriteProtocols(s)
  BY <1>3 DEF WriteProtocols, LaunchThreads, Rests
<1>4. CASE ProtocolsFail(s)
  BY <1>4 DEF ProtocolsFail, Leaves
<1>5. CASE FinishLaunch(s)
  BY <1>5 DEF FinishLaunch, Leaves
<1>6. CASE SpawnCrashes(s)
  BY <1>6 DEF SpawnCrashes, Leaves
<1>7. ASSUME NEW w \in Spawned, KeepPane(s, w) PROVE Copied'
  BY <1>7 DEF KeepPane, PaneIsLive, Recorded, Rests
<1>8. ASSUME NEW w \in Spawned, MakeTree(s, w) PROVE Copied'
  BY <1>8 DEF MakeTree, Picks, Takes, Rests, HasCwd
<1>9. ASSUME NEW w \in Spawned, RecordTree(s, w) PROVE Copied'
  BY <1>9 DEF RecordTree
<1>10. ASSUME NEW w \in Spawned, RunSetup(s, w) PROVE Copied'
  BY <1>10 DEF RunSetup
<1>11. ASSUME NEW w \in Spawned, MakeWorkspace(s, w) PROVE Copied'
  BY <1>11 DEF MakeWorkspace, Picks, Takes, Rests
<1>12. ASSUME NEW w \in Spawned, RecordPane(s, w) PROVE Copied'
  <2>1. hand[s][w] # None /\ sphase[s] = "allocate"
    BY <1>12 DEF RecordPane
  <2>2. \A v \in Spawned : paneOf'[v] = IF v = w THEN hand[s][w] ELSE paneOf[v]
    BY <1>12 DEF RecordPane, Workers
  <2>3. \A v \in Spawned : copy'[s].pane[v] = paneOf'[v]
    BY <1>12 DEF RecordPane
  <2>4. \A t \in Spawners, v \in Spawned :
          t # s => copy'[t].pane[v] = copy[t].pane[v] /\ todo'[t] = todo[t]
    BY <1>12 DEF RecordPane
  <2>5. todo'[s] = todo[s] \ {w}
    BY <1>12 DEF RecordPane
  <2> QED
    BY <1>12, <2>1, <2>2, <2>3, <2>4, <2>5 DEF RecordPane
<1>13. ASSUME NEW w \in Spawned, AllocateFails(s, w) PROVE Copied'
  BY <1>13 DEF AllocateFails, Leaves, Picks, Rests
<1>14. ASSUME NEW w \in Spawned, ReadPane(s, w) PROVE Copied'
  BY <1>14 DEF ReadPane
<1>15. ASSUME NEW w \in Spawned, LookAtPane(s, w) PROVE Copied'
  BY <1>15 DEF LookAtPane, AfterLook
<1>16. ASSUME NEW w \in Spawned, LaunchAgent(s, w) PROVE Copied'
  BY <1>16 DEF LaunchAgent, Open
<1>17. ASSUME NEW w \in Spawned, BriefWorker(s, w) PROVE Copied'
  BY <1>17 DEF BriefWorker, SubmitBrief, Takes
<1>18. ASSUME NEW w \in Spawned, LaunchFails(s, w) PROVE Copied'
  BY <1>18 DEF LaunchFails, Takes
<1>19. ASSUME NEW w \in Spawned, Checkpoint(s, w) PROVE Copied'
  BY <1>19 DEF Checkpoint, ResolvePending
<1>20. ASSUME NEW w \in Spawned, RecordFailure(s, w) PROVE Copied'
  BY <1>20 DEF RecordFailure, ResolvePending
<1> QED BY <1>1, <1>2, <1>3, <1>4, <1>5, <1>6, <1>7, <1>8, <1>9, <1>10,
          <1>11, <1>12, <1>13, <1>14, <1>15, <1>16, <1>17, <1>18, <1>19, <1>20
       DEF SpawnStep, Allocate, LaunchThread

(* A step of spawn or resume leaves the workers a kill has loaded on the     *)
(* board.                                                                    *)
LEMMA SpawnKeepsKillTargets ==
    ASSUME Typed, NEW s \in Spawners, SpawnStep(s),
           UNCHANGED <<killVars, adoptVars>>
    PROVE  KillTargets'
<1> USE BoardAssumption DEF Typed, KillTargets, Begun, BoardTypeOK, killVars,
        boardVars, board
<1>1. CASE CreateRun(s)
  BY <1>1 DEF CreateRun, StartsWith
<1>2. CASE StartResume(s)
  BY <1>2 DEF StartResume, StartsWith
<1>3. CASE WriteProtocols(s)
  BY <1>3 DEF WriteProtocols, LaunchThreads, Rests
<1>4. CASE ProtocolsFail(s)
  BY <1>4 DEF ProtocolsFail, Leaves
<1>5. CASE FinishLaunch(s)
  BY <1>5 DEF FinishLaunch, Leaves
<1>6. CASE SpawnCrashes(s)
  BY <1>6 DEF SpawnCrashes, Leaves
<1>7. ASSUME NEW w \in Spawned, KeepPane(s, w) PROVE KillTargets'
  BY <1>7 DEF KeepPane, PaneIsLive, Recorded, Rests
<1>8. ASSUME NEW w \in Spawned, MakeTree(s, w) PROVE KillTargets'
  BY <1>8 DEF MakeTree, Picks, Takes, Rests, HasCwd
<1>9. ASSUME NEW w \in Spawned, RecordTree(s, w) PROVE KillTargets'
  BY <1>9 DEF RecordTree
<1>10. ASSUME NEW w \in Spawned, RunSetup(s, w) PROVE KillTargets'
  BY <1>10 DEF RunSetup
<1>11. ASSUME NEW w \in Spawned, MakeWorkspace(s, w) PROVE KillTargets'
  BY <1>11 DEF MakeWorkspace, Picks, Takes, Rests
<1>12. ASSUME NEW w \in Spawned, RecordPane(s, w) PROVE KillTargets'
  BY <1>12 DEF RecordPane
<1>13. ASSUME NEW w \in Spawned, AllocateFails(s, w) PROVE KillTargets'
  BY <1>13 DEF AllocateFails, Leaves, Picks, Rests
<1>14. ASSUME NEW w \in Spawned, ReadPane(s, w) PROVE KillTargets'
  BY <1>14 DEF ReadPane
<1>15. ASSUME NEW w \in Spawned, LookAtPane(s, w) PROVE KillTargets'
  BY <1>15 DEF LookAtPane, AfterLook
<1>16. ASSUME NEW w \in Spawned, LaunchAgent(s, w) PROVE KillTargets'
  BY <1>16 DEF LaunchAgent, Open
<1>17. ASSUME NEW w \in Spawned, BriefWorker(s, w) PROVE KillTargets'
  BY <1>17 DEF BriefWorker, SubmitBrief, Takes
<1>18. ASSUME NEW w \in Spawned, LaunchFails(s, w) PROVE KillTargets'
  BY <1>18 DEF LaunchFails, Takes
<1>19. ASSUME NEW w \in Spawned, Checkpoint(s, w) PROVE KillTargets'
  BY <1>19 DEF Checkpoint, ResolvePending
<1>20. ASSUME NEW w \in Spawned, RecordFailure(s, w) PROVE KillTargets'
  BY <1>20 DEF RecordFailure, ResolvePending
<1> QED BY <1>1, <1>2, <1>3, <1>4, <1>5, <1>6, <1>7, <1>8, <1>9, <1>10,
          <1>11, <1>12, <1>13, <1>14, <1>15, <1>16, <1>17, <1>18, <1>19, <1>20
       DEF SpawnStep, Allocate, LaunchThread

(* A step of spawn or resume lets nothing start before the run is created. *)
LEMMA SpawnKeepsBegun ==
    ASSUME Typed, NEW s \in Spawners, SpawnStep(s),
           UNCHANGED <<killVars, adoptVars>>
    PROVE  Begun'
<1> USE BoardAssumption DEF adoptVars, Typed, Begun, Phased, Workers,
        boardVars, board
<1>1. CASE CreateRun(s)
  BY <1>1 DEF CreateRun, StartsWith
<1>2. CASE StartResume(s)
  BY <1>2 DEF StartResume, StartsWith
<1>3. CASE WriteProtocols(s)
  BY <1>3 DEF WriteProtocols, LaunchThreads, Rests
<1>4. CASE ProtocolsFail(s)
  BY <1>4 DEF ProtocolsFail, Leaves
<1>5. CASE FinishLaunch(s)
  BY <1>5 DEF FinishLaunch, Leaves
<1>6. CASE SpawnCrashes(s)
  BY <1>6 DEF SpawnCrashes, Leaves
<1>7. ASSUME NEW w \in Spawned, KeepPane(s, w) PROVE Begun'
  BY <1>7 DEF KeepPane, PaneIsLive, Recorded, Rests
<1>8. ASSUME NEW w \in Spawned, MakeTree(s, w) PROVE Begun'
  BY <1>8 DEF MakeTree, Picks, Takes, Rests, HasCwd
<1>9. ASSUME NEW w \in Spawned, RecordTree(s, w) PROVE Begun'
  BY <1>9 DEF RecordTree
<1>10. ASSUME NEW w \in Spawned, RunSetup(s, w) PROVE Begun'
  BY <1>10 DEF RunSetup
<1>11. ASSUME NEW w \in Spawned, MakeWorkspace(s, w) PROVE Begun'
  BY <1>11 DEF MakeWorkspace, Picks, Takes, Rests
<1>12. ASSUME NEW w \in Spawned, RecordPane(s, w) PROVE Begun'
  BY <1>12 DEF RecordPane
<1>13. ASSUME NEW w \in Spawned, AllocateFails(s, w) PROVE Begun'
  BY <1>13 DEF AllocateFails, Leaves, Picks, Rests
<1>14. ASSUME NEW w \in Spawned, ReadPane(s, w) PROVE Begun'
  BY <1>14 DEF ReadPane
<1>15. ASSUME NEW w \in Spawned, LookAtPane(s, w) PROVE Begun'
  BY <1>15 DEF LookAtPane, AfterLook
<1>16. ASSUME NEW w \in Spawned, LaunchAgent(s, w) PROVE Begun'
  BY <1>16 DEF LaunchAgent, Open
<1>17. ASSUME NEW w \in Spawned, BriefWorker(s, w) PROVE Begun'
  BY <1>17 DEF BriefWorker, SubmitBrief, Takes
<1>18. ASSUME NEW w \in Spawned, LaunchFails(s, w) PROVE Begun'
  BY <1>18 DEF LaunchFails, Takes
<1>19. ASSUME NEW w \in Spawned, Checkpoint(s, w) PROVE Begun'
  BY <1>19 DEF Checkpoint, ResolvePending
<1>20. ASSUME NEW w \in Spawned, RecordFailure(s, w) PROVE Begun'
  BY <1>20 DEF RecordFailure, ResolvePending
<1> QED BY <1>1, <1>2, <1>3, <1>4, <1>5, <1>6, <1>7, <1>8, <1>9, <1>10,
          <1>11, <1>12, <1>13, <1>14, <1>15, <1>16, <1>17, <1>18, <1>19, <1>20
       DEF SpawnStep, Allocate, LaunchThread

(* A step of kill keeps the board, Herdr and the events typed. *)
LEMMA KillKeepsBoardTypeOK ==
    ASSUME Typed, NEW k \in Killers, KillStep(k),
           UNCHANGED <<spawnVars, adoptVars>>
    PROVE  BoardTypeOK'
<1> USE BoardAssumption, KillAssumption DEF Typed, TypeOK, BoardTypeOK,
        KillAims, boardVars, board, world, Places, Lives, TerminalLives,
        Events, EndOf
<1>1. CASE LoadActiveRun(k)
  BY <1>1 DEF LoadActiveRun, Closes
<1>2. CASE LoadEndedRun(k)
  BY <1>2 DEF LoadEndedRun, Closes
<1>3. CASE PersistRun(k)
  BY <1>3 DEF PersistRun, KillLeaves
<1>4. CASE PersistWorker(k)
  BY <1>4 DEF PersistWorker, KillLeaves
<1>5. CASE KillCrashes(k)
  BY <1>5 DEF KillCrashes, KillLeaves
<1>6. ASSUME NEW w \in Workers, LoadWorker(k, w) PROVE BoardTypeOK'
  BY <1>6 DEF LoadWorker, Closes
<1>7. ASSUME NEW w \in Workers, CloseOwn(k, w) PROVE BoardTypeOK'
  BY <1>7 DEF CloseOwn, Does, CloseWorkspace, Emit, Open
<1>8. ASSUME NEW w \in Workers, ReleaseAdopted(k, w) PROVE BoardTypeOK'
  BY <1>8 DEF ReleaseAdopted, Does, Open
<1>9. ASSUME NEW w \in Workers, CloseMisses(k, w) PROVE BoardTypeOK'
  BY <1>9 DEF CloseMisses, Does
<1> QED BY <1>1, <1>2, <1>3, <1>4, <1>5, <1>6, <1>7, <1>8, <1>9 DEF KillStep

(* A step of kill keeps the kill processes typed. *)
LEMMA KillKeepsKillTypeOK ==
    ASSUME Typed, NEW k \in Killers, KillStep(k),
           UNCHANGED <<spawnVars, adoptVars>>
    PROVE  KillTypeOK'
<1> USE BoardAssumption, KillAssumption DEF Typed, TypeOK, KillTypeOK,
        BoardTypeOK, Workers, Nothing
<1>1. CASE LoadActiveRun(k)
  BY <1>1 DEF LoadActiveRun, Closes
<1>2. CASE LoadEndedRun(k)
  BY <1>2 DEF LoadEndedRun, Closes
<1>3. CASE PersistRun(k)
  BY <1>3 DEF PersistRun, KillLeaves
<1>4. CASE PersistWorker(k)
  BY <1>4 DEF PersistWorker, KillLeaves
<1>5. CASE KillCrashes(k)
  BY <1>5 DEF KillCrashes, KillLeaves
<1>6. ASSUME NEW w \in Workers, LoadWorker(k, w) PROVE KillTypeOK'
  BY <1>6 DEF LoadWorker, Closes
<1>7. ASSUME NEW w \in Workers, CloseOwn(k, w) PROVE KillTypeOK'
  BY <1>7 DEF CloseOwn, Does, CloseWorkspace, Emit, Open
<1>8. ASSUME NEW w \in Workers, ReleaseAdopted(k, w) PROVE KillTypeOK'
  BY <1>8 DEF ReleaseAdopted, Does, Open
<1>9. ASSUME NEW w \in Workers, CloseMisses(k, w) PROVE KillTypeOK'
  BY <1>9 DEF CloseMisses, Does
<1> QED BY <1>1, <1>2, <1>3, <1>4, <1>5, <1>6, <1>7, <1>8, <1>9 DEF KillStep

(* A step of kill records only panes of a worker's kind, for workers on the  *)
(* board.                                                                    *)
LEMMA KillKeepsPanesTyped ==
    ASSUME Typed, NEW k \in Killers, KillStep(k),
           UNCHANGED <<spawnVars, adoptVars>>
    PROVE  PanesTyped'
<1> USE BoardAssumption, KillAssumption DEF Typed, KillTargets, PanesTyped,
        boardVars, board, Workers, EndOf
<1>1. CASE LoadActiveRun(k)
  BY <1>1 DEF LoadActiveRun, Closes
<1>2. CASE LoadEndedRun(k)
  BY <1>2 DEF LoadEndedRun, Closes
<1>3. CASE PersistRun(k)
  BY <1>3 DEF PersistRun, KillLeaves
<1>4. CASE PersistWorker(k)
  BY <1>4 DEF PersistWorker, KillLeaves
<1>5. CASE KillCrashes(k)
  BY <1>5 DEF KillCrashes, KillLeaves
<1>6. ASSUME NEW w \in Workers, LoadWorker(k, w) PROVE PanesTyped'
  BY <1>6 DEF LoadWorker, Closes
<1>7. ASSUME NEW w \in Workers, CloseOwn(k, w) PROVE PanesTyped'
  BY <1>7 DEF CloseOwn, Does, CloseWorkspace, Emit, Open
<1>8. ASSUME NEW w \in Workers, ReleaseAdopted(k, w) PROVE PanesTyped'
  BY <1>8 DEF ReleaseAdopted, Does, Open
<1>9. ASSUME NEW w \in Workers, CloseMisses(k, w) PROVE PanesTyped'
  BY <1>9 DEF CloseMisses, Does
<1> QED BY <1>1, <1>2, <1>3, <1>4, <1>5, <1>6, <1>7, <1>8, <1>9 DEF KillStep

(* A step of kill leaves only created panes recorded, copied or held. *)
LEMMA KillKeepsMade ==
    ASSUME Typed, NEW k \in Killers, KillStep(k),
           UNCHANGED <<spawnVars, adoptVars>>
    PROVE  Made'
<1> USE BoardAssumption, KillAssumption DEF Typed, Made, boardVars, board,
        world, spawnVars
<1>1. CASE LoadActiveRun(k)
  BY <1>1 DEF LoadActiveRun, Closes
<1>2. CASE LoadEndedRun(k)
  BY <1>2 DEF LoadEndedRun, Closes
<1>3. CASE PersistRun(k)
  BY <1>3 DEF PersistRun, KillLeaves
<1>4. CASE PersistWorker(k)
  BY <1>4 DEF PersistWorker, KillLeaves
<1>5. CASE KillCrashes(k)
  BY <1>5 DEF KillCrashes, KillLeaves
<1>6. ASSUME NEW w \in Workers, LoadWorker(k, w) PROVE Made'
  BY <1>6 DEF LoadWorker, Closes
<1>7. ASSUME NEW w \in Workers, CloseOwn(k, w) PROVE Made'
  BY <1>7 DEF CloseOwn, Does, CloseWorkspace, Emit, Open
<1>8. ASSUME NEW w \in Workers, ReleaseAdopted(k, w) PROVE Made'
  BY <1>8 DEF ReleaseAdopted, Does, Open
<1>9. ASSUME NEW w \in Workers, CloseMisses(k, w) PROVE Made'
  BY <1>9 DEF CloseMisses, Does
<1> QED BY <1>1, <1>2, <1>3, <1>4, <1>5, <1>6, <1>7, <1>8, <1>9 DEF KillStep

(* A step of kill leaves in each copy the panes that its process relies on. *)
LEMMA KillKeepsCopied ==
    ASSUME Typed, NEW k \in Killers, KillStep(k),
           UNCHANGED <<spawnVars, adoptVars>>
    PROVE  Copied'
<1> USE BoardAssumption, KillAssumption DEF Typed, Copied, boardVars, board,
        spawnVars
<1>1. CASE LoadActiveRun(k)
  BY <1>1 DEF LoadActiveRun, Closes
<1>2. CASE LoadEndedRun(k)
  BY <1>2 DEF LoadEndedRun, Closes
<1>3. CASE PersistRun(k)
  BY <1>3 DEF PersistRun, KillLeaves
<1>4. CASE PersistWorker(k)
  BY <1>4 DEF PersistWorker, KillLeaves
<1>5. CASE KillCrashes(k)
  BY <1>5 DEF KillCrashes, KillLeaves
<1>6. ASSUME NEW w \in Workers, LoadWorker(k, w) PROVE Copied'
  BY <1>6 DEF LoadWorker, Closes
<1>7. ASSUME NEW w \in Workers, CloseOwn(k, w) PROVE Copied'
  BY <1>7 DEF CloseOwn, Does, CloseWorkspace, Emit, Open
<1>8. ASSUME NEW w \in Workers, ReleaseAdopted(k, w) PROVE Copied'
  BY <1>8 DEF ReleaseAdopted, Does, Open
<1>9. ASSUME NEW w \in Workers, CloseMisses(k, w) PROVE Copied'
  BY <1>9 DEF CloseMisses, Does
<1> QED BY <1>1, <1>2, <1>3, <1>4, <1>5, <1>6, <1>7, <1>8, <1>9 DEF KillStep

(* A step of kill leaves the panes a kill has loaded of their workers' kind. *)
LEMMA KillKeepsKillAims ==
    ASSUME Typed, NEW k \in Killers, KillStep(k),
           UNCHANGED <<spawnVars, adoptVars>>
    PROVE  KillAims'
<1> USE BoardAssumption, KillAssumption DEF Typed, TypeOK, KillAims,
        PanesTyped, Workers, KillTypeOK, OnBoard
<1>1. CASE LoadActiveRun(k)
  BY <1>1 DEF LoadActiveRun, Closes
<1>2. CASE LoadEndedRun(k)
  BY <1>2 DEF LoadEndedRun, Closes
<1>3. CASE PersistRun(k)
  BY <1>3 DEF PersistRun, KillLeaves
<1>4. CASE PersistWorker(k)
  BY <1>4 DEF PersistWorker, KillLeaves
<1>5. CASE KillCrashes(k)
  BY <1>5 DEF KillCrashes, KillLeaves
<1>6. ASSUME NEW w \in Workers, LoadWorker(k, w) PROVE KillAims'
  BY <1>6 DEF LoadWorker, Closes
<1>7. ASSUME NEW w \in Workers, CloseOwn(k, w) PROVE KillAims'
  BY <1>7 DEF CloseOwn, Does, CloseWorkspace, Emit, Open
<1>8. ASSUME NEW w \in Workers, ReleaseAdopted(k, w) PROVE KillAims'
  BY <1>8 DEF ReleaseAdopted, Does, Open
<1>9. ASSUME NEW w \in Workers, CloseMisses(k, w) PROVE KillAims'
  BY <1>9 DEF CloseMisses, Does
<1> QED BY <1>1, <1>2, <1>3, <1>4, <1>5, <1>6, <1>7, <1>8, <1>9 DEF KillStep

(* A step of kill leaves the workers a kill has loaded on the board. *)
LEMMA KillKeepsKillTargets ==
    ASSUME Typed, NEW k \in Killers, KillStep(k),
           UNCHANGED <<spawnVars, adoptVars>>
    PROVE  KillTargets'
<1> USE BoardAssumption, KillAssumption DEF Typed, TypeOK, PanesTyped,
        KillTargets, OnBoard, boardVars, board, KillTypeOK, EndOf
<1>1. CASE LoadActiveRun(k)
  BY <1>1 DEF LoadActiveRun, Closes
<1>2. CASE LoadEndedRun(k)
  BY <1>2 DEF LoadEndedRun, Closes
<1>3. CASE PersistRun(k)
  BY <1>3 DEF PersistRun, KillLeaves
<1>4. CASE PersistWorker(k)
  BY <1>4 DEF PersistWorker, KillLeaves
<1>5. CASE KillCrashes(k)
  BY <1>5 DEF KillCrashes, KillLeaves
<1>6. ASSUME NEW w \in Workers, LoadWorker(k, w) PROVE KillTargets'
  BY <1>6 DEF LoadWorker, Closes
<1>7. ASSUME NEW w \in Workers, CloseOwn(k, w) PROVE KillTargets'
  BY <1>7 DEF CloseOwn, Does, CloseWorkspace, Emit, Open
<1>8. ASSUME NEW w \in Workers, ReleaseAdopted(k, w) PROVE KillTargets'
  BY <1>8 DEF ReleaseAdopted, Does, Open
<1>9. ASSUME NEW w \in Workers, CloseMisses(k, w) PROVE KillTargets'
  BY <1>9 DEF CloseMisses, Does
<1> QED BY <1>1, <1>2, <1>3, <1>4, <1>5, <1>6, <1>7, <1>8, <1>9 DEF KillStep

(* A step of kill lets nothing start before the run is created. *)
LEMMA KillKeepsBegun ==
    ASSUME Typed, NEW k \in Killers, KillStep(k),
           UNCHANGED <<spawnVars, adoptVars>>
    PROVE  Begun'
<1> USE BoardAssumption, KillAssumption DEF Typed, KillTargets, adoptVars,
        Begun, boardVars, board, spawnVars, Workers, EndOf
<1>1. CASE LoadActiveRun(k)
  BY <1>1 DEF LoadActiveRun, Closes
<1>2. CASE LoadEndedRun(k)
  BY <1>2 DEF LoadEndedRun, Closes
<1>3. CASE PersistRun(k)
  BY <1>3 DEF PersistRun, KillLeaves
<1>4. CASE PersistWorker(k)
  BY <1>4 DEF PersistWorker, KillLeaves
<1>5. CASE KillCrashes(k)
  BY <1>5 DEF KillCrashes, KillLeaves
<1>6. ASSUME NEW w \in Workers, LoadWorker(k, w) PROVE Begun'
  BY <1>6 DEF LoadWorker, Closes
<1>7. ASSUME NEW w \in Workers, CloseOwn(k, w) PROVE Begun'
  BY <1>7 DEF CloseOwn, Does, CloseWorkspace, Emit, Open
<1>8. ASSUME NEW w \in Workers, ReleaseAdopted(k, w) PROVE Begun'
  BY <1>8 DEF ReleaseAdopted, Does, Open
<1>9. ASSUME NEW w \in Workers, CloseMisses(k, w) PROVE Begun'
  BY <1>9 DEF CloseMisses, Does
<1> QED BY <1>1, <1>2, <1>3, <1>4, <1>5, <1>6, <1>7, <1>8, <1>9 DEF KillStep

(* A step of adopt keeps the board, Herdr and the events typed. *)
LEMMA AdoptKeepsBoardTypeOK ==
    ASSUME Typed, NEW x \in Adopters, AdoptStep(x),
           UNCHANGED <<spawnVars, killVars>>
    PROVE  BoardTypeOK'
<1> USE BoardAssumption DEF Typed, TypeOK, BoardTypeOK, AdoptAims, boardVars,
        board, world, Places, Lives, TerminalLives, AdoptGoes
<1>1. CASE Insert(x)
  BY <1>1 DEF Insert
<1>2. CASE InsertRefused(x)
  BY <1>2 DEF InsertRefused
<1>3. CASE Recover(x)
  BY <1>3 DEF Recover
<1>4. CASE RecoverTooLate(x)
  BY <1>4 DEF RecoverTooLate
<1>5. CASE PromptAdopted(x)
  BY <1>5 DEF PromptAdopted, SubmitBrief
<1>6. CASE PromptFails(x)
  BY <1>6 DEF PromptFails
<1>7. CASE ProtocolRefused(x)
  BY <1>7 DEF ProtocolRefused
<1>8. CASE CompleteAdoption(x)
  BY <1>8 DEF CompleteAdoption, ResolvePending
<1>9. CASE FailAdoption(x)
  BY <1>9 DEF FailAdoption, ResolvePending
<1>10. CASE AdoptCrashes(x)
  BY <1>10 DEF AdoptCrashes
<1>11. ASSUME NEW a \in Adoptable, NEW p \in UserPanes, Bootstrap(x, a, p)
       PROVE  BoardTypeOK'
  BY <1>11 DEF Bootstrap
<1>12. ASSUME NEW a \in Adoptable, NEW p \in UserPanes, SelectNew(x, a, p)
       PROVE  BoardTypeOK'
  BY <1>12 DEF SelectNew, Selects
<1>13. ASSUME NEW a \in Adoptable, NEW p \in UserPanes, SelectPending(x, a, p)
       PROVE  BoardTypeOK'
  BY <1>13 DEF SelectPending, Selects
<1> QED BY <1>1, <1>2, <1>3, <1>4, <1>5, <1>6, <1>7, <1>8, <1>9, <1>10,
          <1>11, <1>12, <1>13
       DEF AdoptStep

(* A step of adopt keeps the adopt processes typed. *)
LEMMA AdoptKeepsAdoptTypeOK ==
    ASSUME Typed, NEW x \in Adopters, AdoptStep(x),
           UNCHANGED <<spawnVars, killVars>>
    PROVE  AdoptTypeOK'
<1> USE BoardAssumption DEF Typed, TypeOK, AdoptTypeOK, AdoptGoes, AdoptLeaves
<1>1. CASE Insert(x)
  BY <1>1 DEF Insert
<1>2. CASE InsertRefused(x)
  BY <1>2 DEF InsertRefused
<1>3. CASE Recover(x)
  BY <1>3 DEF Recover
<1>4. CASE RecoverTooLate(x)
  BY <1>4 DEF RecoverTooLate
<1>5. CASE PromptAdopted(x)
  BY <1>5 DEF PromptAdopted, SubmitBrief
<1>6. CASE PromptFails(x)
  BY <1>6 DEF PromptFails
<1>7. CASE ProtocolRefused(x)
  BY <1>7 DEF ProtocolRefused
<1>8. CASE CompleteAdoption(x)
  BY <1>8 DEF CompleteAdoption, ResolvePending
<1>9. CASE FailAdoption(x)
  BY <1>9 DEF FailAdoption, ResolvePending
<1>10. CASE AdoptCrashes(x)
  BY <1>10 DEF AdoptCrashes
<1>11. ASSUME NEW a \in Adoptable, NEW p \in UserPanes, Bootstrap(x, a, p)
       PROVE  AdoptTypeOK'
  BY <1>11 DEF Bootstrap
<1>12. ASSUME NEW a \in Adoptable, NEW p \in UserPanes, SelectNew(x, a, p)
       PROVE  AdoptTypeOK'
  BY <1>12 DEF SelectNew, Selects
<1>13. ASSUME NEW a \in Adoptable, NEW p \in UserPanes, SelectPending(x, a, p)
       PROVE  AdoptTypeOK'
  BY <1>13 DEF SelectPending, Selects
<1> QED BY <1>1, <1>2, <1>3, <1>4, <1>5, <1>6, <1>7, <1>8, <1>9, <1>10,
          <1>11, <1>12, <1>13
       DEF AdoptStep

(* A step of adopt records only panes of a worker's kind, for workers on the *)
(* board.                                                                    *)
LEMMA AdoptKeepsPanesTyped ==
    ASSUME Typed, NEW x \in Adopters, AdoptStep(x),
           UNCHANGED <<spawnVars, killVars>>
    PROVE  PanesTyped'
<1> USE BoardAssumption DEF Typed, TypeOK, AdoptAims, Places, PanesTyped,
        BoardTypeOK, boardVars, board, AdoptGoes
<1>1. CASE Insert(x)
  BY <1>1 DEF Insert
<1>2. CASE InsertRefused(x)
  BY <1>2 DEF InsertRefused
<1>3. CASE Recover(x)
  BY <1>3 DEF Recover
<1>4. CASE RecoverTooLate(x)
  BY <1>4 DEF RecoverTooLate
<1>5. CASE PromptAdopted(x)
  BY <1>5 DEF PromptAdopted, SubmitBrief
<1>6. CASE PromptFails(x)
  BY <1>6 DEF PromptFails
<1>7. CASE ProtocolRefused(x)
  BY <1>7 DEF ProtocolRefused
<1>8. CASE CompleteAdoption(x)
  BY <1>8 DEF CompleteAdoption, ResolvePending
<1>9. CASE FailAdoption(x)
  BY <1>9 DEF FailAdoption, ResolvePending
<1>10. CASE AdoptCrashes(x)
  BY <1>10 DEF AdoptCrashes
<1>11. ASSUME NEW a \in Adoptable, NEW p \in UserPanes, Bootstrap(x, a, p)
       PROVE  PanesTyped'
  BY <1>11 DEF Bootstrap
<1>12. ASSUME NEW a \in Adoptable, NEW p \in UserPanes, SelectNew(x, a, p)
       PROVE  PanesTyped'
  BY <1>12 DEF SelectNew, Selects
<1>13. ASSUME NEW a \in Adoptable, NEW p \in UserPanes, SelectPending(x, a, p)
       PROVE  PanesTyped'
  BY <1>13 DEF SelectPending, Selects
<1> QED BY <1>1, <1>2, <1>3, <1>4, <1>5, <1>6, <1>7, <1>8, <1>9, <1>10,
          <1>11, <1>12, <1>13
       DEF AdoptStep

(* A step of adopt leaves only created panes recorded, copied or held. *)
LEMMA AdoptKeepsMade ==
    ASSUME Typed, NEW x \in Adopters, AdoptStep(x),
           UNCHANGED <<spawnVars, killVars>>
    PROVE  Made'
<1> USE BoardAssumption DEF Typed, AdoptAims, Made, boardVars, board, world,
        spawnVars, AdoptGoes
<1>1. CASE Insert(x)
  BY <1>1 DEF Insert
<1>2. CASE InsertRefused(x)
  BY <1>2 DEF InsertRefused
<1>3. CASE Recover(x)
  BY <1>3 DEF Recover
<1>4. CASE RecoverTooLate(x)
  BY <1>4 DEF RecoverTooLate
<1>5. CASE PromptAdopted(x)
  BY <1>5 DEF PromptAdopted, SubmitBrief
<1>6. CASE PromptFails(x)
  BY <1>6 DEF PromptFails
<1>7. CASE ProtocolRefused(x)
  BY <1>7 DEF ProtocolRefused
<1>8. CASE CompleteAdoption(x)
  BY <1>8 DEF CompleteAdoption, ResolvePending
<1>9. CASE FailAdoption(x)
  BY <1>9 DEF FailAdoption, ResolvePending
<1>10. CASE AdoptCrashes(x)
  BY <1>10 DEF AdoptCrashes
<1>11. ASSUME NEW a \in Adoptable, NEW p \in UserPanes, Bootstrap(x, a, p)
       PROVE  Made'
  BY <1>11 DEF Bootstrap
<1>12. ASSUME NEW a \in Adoptable, NEW p \in UserPanes, SelectNew(x, a, p)
       PROVE  Made'
  BY <1>12 DEF SelectNew, Selects
<1>13. ASSUME NEW a \in Adoptable, NEW p \in UserPanes, SelectPending(x, a, p)
       PROVE  Made'
  BY <1>13 DEF SelectPending, Selects
<1> QED BY <1>1, <1>2, <1>3, <1>4, <1>5, <1>6, <1>7, <1>8, <1>9, <1>10,
          <1>11, <1>12, <1>13
       DEF AdoptStep

(* A step of adopt leaves in each copy the panes that its process relies on. *)
LEMMA AdoptKeepsCopied ==
    ASSUME Typed, NEW x \in Adopters, AdoptStep(x),
           UNCHANGED <<spawnVars, killVars>>
    PROVE  Copied'
<1> USE BoardAssumption DEF Typed, AdoptAims, Copied, boardVars, board,
        spawnVars, AdoptGoes
<1>1. CASE Insert(x)
  BY <1>1 DEF Insert
<1>2. CASE InsertRefused(x)
  BY <1>2 DEF InsertRefused
<1>3. CASE Recover(x)
  BY <1>3 DEF Recover
<1>4. CASE RecoverTooLate(x)
  BY <1>4 DEF RecoverTooLate
<1>5. CASE PromptAdopted(x)
  BY <1>5 DEF PromptAdopted, SubmitBrief
<1>6. CASE PromptFails(x)
  BY <1>6 DEF PromptFails
<1>7. CASE ProtocolRefused(x)
  BY <1>7 DEF ProtocolRefused
<1>8. CASE CompleteAdoption(x)
  BY <1>8 DEF CompleteAdoption, ResolvePending
<1>9. CASE FailAdoption(x)
  BY <1>9 DEF FailAdoption, ResolvePending
<1>10. CASE AdoptCrashes(x)
  BY <1>10 DEF AdoptCrashes
<1>11. ASSUME NEW a \in Adoptable, NEW p \in UserPanes, Bootstrap(x, a, p)
       PROVE  Copied'
  BY <1>11 DEF Bootstrap
<1>12. ASSUME NEW a \in Adoptable, NEW p \in UserPanes, SelectNew(x, a, p)
       PROVE  Copied'
  BY <1>12 DEF SelectNew, Selects
<1>13. ASSUME NEW a \in Adoptable, NEW p \in UserPanes, SelectPending(x, a, p)
       PROVE  Copied'
  BY <1>13 DEF SelectPending, Selects
<1> QED BY <1>1, <1>2, <1>3, <1>4, <1>5, <1>6, <1>7, <1>8, <1>9, <1>10,
          <1>11, <1>12, <1>13
       DEF AdoptStep

(* A step of adopt leaves the workers a kill has loaded on the board. *)
LEMMA AdoptKeepsKillTargets ==
    ASSUME Typed, NEW x \in Adopters, AdoptStep(x),
           UNCHANGED <<spawnVars, killVars>>
    PROVE  KillTargets'
<1> USE BoardAssumption DEF Typed, KillTargets, killVars, boardVars, board
<1>1. CASE Insert(x)
  BY <1>1 DEF Insert
<1>2. CASE InsertRefused(x)
  BY <1>2 DEF InsertRefused
<1>3. CASE Recover(x)
  BY <1>3 DEF Recover
<1>4. CASE RecoverTooLate(x)
  BY <1>4 DEF RecoverTooLate
<1>5. CASE PromptAdopted(x)
  BY <1>5 DEF PromptAdopted, SubmitBrief
<1>6. CASE PromptFails(x)
  BY <1>6 DEF PromptFails
<1>7. CASE ProtocolRefused(x)
  BY <1>7 DEF ProtocolRefused
<1>8. CASE CompleteAdoption(x)
  BY <1>8 DEF CompleteAdoption, ResolvePending
<1>9. CASE FailAdoption(x)
  BY <1>9 DEF FailAdoption, ResolvePending
<1>10. CASE AdoptCrashes(x)
  BY <1>10 DEF AdoptCrashes
<1>11. ASSUME NEW a \in Adoptable, NEW p \in UserPanes, Bootstrap(x, a, p)
       PROVE  KillTargets'
  BY <1>11 DEF Bootstrap
<1>12. ASSUME NEW a \in Adoptable, NEW p \in UserPanes, SelectNew(x, a, p)
       PROVE  KillTargets'
  BY <1>12 DEF SelectNew, Selects
<1>13. ASSUME NEW a \in Adoptable, NEW p \in UserPanes, SelectPending(x, a, p)
       PROVE  KillTargets'
  BY <1>13 DEF SelectPending, Selects
<1> QED BY <1>1, <1>2, <1>3, <1>4, <1>5, <1>6, <1>7, <1>8, <1>9, <1>10,
          <1>11, <1>12, <1>13
       DEF AdoptStep

(* A step of adopt leaves each adoption under way its name and pane. *)
LEMMA AdoptKeepsAdoptAims ==
    ASSUME Typed, NEW x \in Adopters, AdoptStep(x),
           UNCHANGED <<spawnVars, killVars>>
    PROVE  AdoptAims'
<1> USE BoardAssumption DEF Typed, TypeOK, AdoptAims, AdoptTypeOK, AdoptGoes,
        AdoptLeaves
<1>1. CASE Insert(x)
  BY <1>1 DEF Insert
<1>2. CASE InsertRefused(x)
  BY <1>2 DEF InsertRefused
<1>3. CASE Recover(x)
  BY <1>3 DEF Recover
<1>4. CASE RecoverTooLate(x)
  BY <1>4 DEF RecoverTooLate
<1>5. CASE PromptAdopted(x)
  BY <1>5 DEF PromptAdopted, SubmitBrief
<1>6. CASE PromptFails(x)
  BY <1>6 DEF PromptFails
<1>7. CASE ProtocolRefused(x)
  BY <1>7 DEF ProtocolRefused
<1>8. CASE CompleteAdoption(x)
  BY <1>8 DEF CompleteAdoption, ResolvePending
<1>9. CASE FailAdoption(x)
  BY <1>9 DEF FailAdoption, ResolvePending
<1>10. CASE AdoptCrashes(x)
  BY <1>10 DEF AdoptCrashes
<1>11. ASSUME NEW a \in Adoptable, NEW p \in UserPanes, Bootstrap(x, a, p)
       PROVE  AdoptAims'
  BY <1>11 DEF Bootstrap
<1>12. ASSUME NEW a \in Adoptable, NEW p \in UserPanes, SelectNew(x, a, p)
       PROVE  AdoptAims'
  BY <1>12 DEF SelectNew, Selects
<1>13. ASSUME NEW a \in Adoptable, NEW p \in UserPanes, SelectPending(x, a, p)
       PROVE  AdoptAims'
  BY <1>13 DEF SelectPending, Selects
<1> QED BY <1>1, <1>2, <1>3, <1>4, <1>5, <1>6, <1>7, <1>8, <1>9, <1>10,
          <1>11, <1>12, <1>13
       DEF AdoptStep

(* A step of adopt lets nothing start before the run is created. *)
LEMMA AdoptKeepsBegun ==
    ASSUME Typed, NEW x \in Adopters, AdoptStep(x),
           UNCHANGED <<spawnVars, killVars>>
    PROVE  Begun'
<1> USE BoardAssumption DEF Typed, AdoptAims, Begun, boardVars, board,
        spawnVars, AdoptGoes
<1>1. CASE Insert(x)
  BY <1>1 DEF Insert
<1>2. CASE InsertRefused(x)
  BY <1>2 DEF InsertRefused
<1>3. CASE Recover(x)
  BY <1>3 DEF Recover
<1>4. CASE RecoverTooLate(x)
  BY <1>4 DEF RecoverTooLate
<1>5. CASE PromptAdopted(x)
  BY <1>5 DEF PromptAdopted, SubmitBrief
<1>6. CASE PromptFails(x)
  BY <1>6 DEF PromptFails
<1>7. CASE ProtocolRefused(x)
  BY <1>7 DEF ProtocolRefused
<1>8. CASE CompleteAdoption(x)
  BY <1>8 DEF CompleteAdoption, ResolvePending
<1>9. CASE FailAdoption(x)
  BY <1>9 DEF FailAdoption, ResolvePending
<1>10. CASE AdoptCrashes(x)
  BY <1>10 DEF AdoptCrashes
<1>11. ASSUME NEW a \in Adoptable, NEW p \in UserPanes, Bootstrap(x, a, p)
       PROVE  Begun'
  BY <1>11 DEF Bootstrap
<1>12. ASSUME NEW a \in Adoptable, NEW p \in UserPanes, SelectNew(x, a, p)
       PROVE  Begun'
  BY <1>12 DEF SelectNew, Selects
<1>13. ASSUME NEW a \in Adoptable, NEW p \in UserPanes, SelectPending(x, a, p)
       PROVE  Begun'
  BY <1>13 DEF SelectPending, Selects
<1> QED BY <1>1, <1>2, <1>3, <1>4, <1>5, <1>6, <1>7, <1>8, <1>9, <1>10,
          <1>11, <1>12, <1>13
       DEF AdoptStep

(* A step of a hook keeps the board, Herdr and the events typed. *)
LEMMA HookKeepsBoardTypeOK ==
    ASSUME Typed, HookStep, UNCHANGED <<spawnVars, killVars, adoptVars>>
    PROVE  BoardTypeOK'
<1> USE BoardAssumption DEF Typed, TypeOK, BoardTypeOK, Lives, TerminalLives,
        Events, world, TakesEvent, Marks, EndIfNoneLives
<1>1. ASSUME NEW p \in Places, PaneExited(p) PROVE BoardTypeOK'
  BY <1>1 DEF PaneExited
<1>2. ASSUME NEW p \in Places, WorkspaceClosed(p) PROVE BoardTypeOK'
  BY <1>2 DEF WorkspaceClosed
<1>3. ASSUME NEW p \in Places, NotOfTheTeam(p) PROVE BoardTypeOK'
  BY <1>3 DEF NotOfTheTeam
<1>4. CASE GodGone
  BY <1>4 DEF GodGone
<1>5. ASSUME NEW e \in events, HookMisses(e) PROVE BoardTypeOK'
  BY <1>5 DEF HookMisses
<1> QED BY <1>1, <1>2, <1>3, <1>4, <1>5 DEF HookStep

(* A step of a hook records only panes of a worker's kind, for workers on    *)
(* the board.                                                                *)
LEMMA HookKeepsPanesTyped ==
    ASSUME Typed, HookStep, UNCHANGED <<spawnVars, killVars, adoptVars>>
    PROVE  PanesTyped'
<1> USE BoardAssumption DEF Typed, PanesTyped, TakesEvent, Marks, At
<1>1. ASSUME NEW p \in Places, PaneExited(p) PROVE PanesTyped'
  BY <1>1 DEF PaneExited
<1>2. ASSUME NEW p \in Places, WorkspaceClosed(p) PROVE PanesTyped'
  BY <1>2 DEF WorkspaceClosed
<1>3. ASSUME NEW p \in Places, NotOfTheTeam(p) PROVE PanesTyped'
  BY <1>3 DEF NotOfTheTeam
<1>4. CASE GodGone
  BY <1>4 DEF GodGone
<1>5. ASSUME NEW e \in events, HookMisses(e) PROVE PanesTyped'
  BY <1>5 DEF HookMisses
<1> QED BY <1>1, <1>2, <1>3, <1>4, <1>5 DEF HookStep

(* A step of a hook leaves only created panes recorded, copied or held. *)
LEMMA HookKeepsMade ==
    ASSUME Typed, HookStep, UNCHANGED <<spawnVars, killVars, adoptVars>>
    PROVE  Made'
<1> USE BoardAssumption DEF Typed, world, Made, spawnVars, TakesEvent
<1>1. ASSUME NEW p \in Places, PaneExited(p) PROVE Made'
  BY <1>1 DEF PaneExited
<1>2. ASSUME NEW p \in Places, WorkspaceClosed(p) PROVE Made'
  BY <1>2 DEF WorkspaceClosed
<1>3. ASSUME NEW p \in Places, NotOfTheTeam(p) PROVE Made'
  BY <1>3 DEF NotOfTheTeam
<1>4. CASE GodGone
  BY <1>4 DEF GodGone
<1>5. ASSUME NEW e \in events, HookMisses(e) PROVE Made'
  BY <1>5 DEF HookMisses
<1> QED BY <1>1, <1>2, <1>3, <1>4, <1>5 DEF HookStep

(* A step of a hook leaves in each copy the panes that its process relies    *)
(* on.                                                                       *)
LEMMA HookKeepsCopied ==
    ASSUME Typed, HookStep, UNCHANGED <<spawnVars, killVars, adoptVars>>
    PROVE  Copied'
<1> USE BoardAssumption DEF Typed, Copied, spawnVars, TakesEvent
<1>1. ASSUME NEW p \in Places, PaneExited(p) PROVE Copied'
  BY <1>1 DEF PaneExited
<1>2. ASSUME NEW p \in Places, WorkspaceClosed(p) PROVE Copied'
  BY <1>2 DEF WorkspaceClosed
<1>3. ASSUME NEW p \in Places, NotOfTheTeam(p) PROVE Copied'
  BY <1>3 DEF NotOfTheTeam
<1>4. CASE GodGone
  BY <1>4 DEF GodGone
<1>5. ASSUME NEW e \in events, HookMisses(e) PROVE Copied'
  BY <1>5 DEF HookMisses
<1> QED BY <1>1, <1>2, <1>3, <1>4, <1>5 DEF HookStep

(* A step of a hook leaves the workers a kill has loaded on the board. *)
LEMMA HookKeepsKillTargets ==
    ASSUME Typed, HookStep, UNCHANGED <<spawnVars, killVars, adoptVars>>
    PROVE  KillTargets'
<1> USE BoardAssumption DEF Typed, KillTargets, killVars, Marks
<1>1. ASSUME NEW p \in Places, PaneExited(p) PROVE KillTargets'
  BY <1>1 DEF PaneExited
<1>2. ASSUME NEW p \in Places, WorkspaceClosed(p) PROVE KillTargets'
  BY <1>2 DEF WorkspaceClosed
<1>3. ASSUME NEW p \in Places, NotOfTheTeam(p) PROVE KillTargets'
  BY <1>3 DEF NotOfTheTeam
<1>4. CASE GodGone
  BY <1>4 DEF GodGone
<1>5. ASSUME NEW e \in events, HookMisses(e) PROVE KillTargets'
  BY <1>5 DEF HookMisses
<1> QED BY <1>1, <1>2, <1>3, <1>4, <1>5 DEF HookStep

(* A step of a hook lets nothing start before the run is created. *)
LEMMA HookKeepsBegun ==
    ASSUME Typed, HookStep, UNCHANGED <<spawnVars, killVars, adoptVars>>
    PROVE  Begun'
<1> USE BoardAssumption DEF Typed, PanesTyped, Begun, spawnVars, adoptVars,
        Marks, At, EndIfNoneLives
<1>1. ASSUME NEW p \in Places, PaneExited(p) PROVE Begun'
  BY <1>1 DEF PaneExited
<1>2. ASSUME NEW p \in Places, WorkspaceClosed(p) PROVE Begun'
  BY <1>2 DEF WorkspaceClosed
<1>3. ASSUME NEW p \in Places, NotOfTheTeam(p) PROVE Begun'
  BY <1>3 DEF NotOfTheTeam
<1>4. CASE GodGone
  BY <1>4 DEF GodGone
<1>5. ASSUME NEW e \in events, HookMisses(e) PROVE Begun'
  BY <1>5 DEF HookMisses
<1> QED BY <1>1, <1>2, <1>3, <1>4, <1>5 DEF HookStep

(* A move of Herdr's own keeps the board, Herdr and the events typed. *)
LEMMA HerdrKeepsBoardTypeOK ==
    ASSUME Typed, HerdrMoves, UNCHANGED <<spawnVars, killVars, adoptVars>>
    PROVE  BoardTypeOK'
<1> USE BoardAssumption DEF Typed, TypeOK, BoardTypeOK, Events, board, world,
        Emit
<1>1. ASSUME NEW p \in Places, AgentEndsTurn(p) PROVE BoardTypeOK'
  BY <1>1 DEF AgentEndsTurn
<1>2. ASSUME NEW p \in Places, AgentPrompted(p) PROVE BoardTypeOK'
  BY <1>2 DEF AgentPrompted
<1>3. ASSUME NEW p \in Places, PaneExits(p) PROVE BoardTypeOK'
  BY <1>3 DEF PaneExits
<1>4. CASE GodPaneCloses
  BY <1>4 DEF GodPaneCloses
<1> QED BY <1>1, <1>2, <1>3, <1>4 DEF HerdrMoves

(* A move of Herdr's own records only panes of a worker's kind, for workers  *)
(* on the board.                                                             *)
LEMMA HerdrKeepsPanesTyped ==
    ASSUME Typed, HerdrMoves, UNCHANGED <<spawnVars, killVars, adoptVars>>
    PROVE  PanesTyped'
<1> USE BoardAssumption DEF Typed, PanesTyped, board
<1>1. ASSUME NEW p \in Places, AgentEndsTurn(p) PROVE PanesTyped'
  BY <1>1 DEF AgentEndsTurn
<1>2. ASSUME NEW p \in Places, AgentPrompted(p) PROVE PanesTyped'
  BY <1>2 DEF AgentPrompted
<1>3. ASSUME NEW p \in Places, PaneExits(p) PROVE PanesTyped'
  BY <1>3 DEF PaneExits
<1>4. CASE GodPaneCloses
  BY <1>4 DEF GodPaneCloses
<1> QED BY <1>1, <1>2, <1>3, <1>4 DEF HerdrMoves

(* A move of Herdr's own leaves only created panes recorded, copied or held. *)
LEMMA HerdrKeepsMade ==
    ASSUME Typed, HerdrMoves, UNCHANGED <<spawnVars, killVars, adoptVars>>
    PROVE  Made'
<1> USE BoardAssumption DEF Typed, board, world, Made, spawnVars
<1>1. ASSUME NEW p \in Places, AgentEndsTurn(p) PROVE Made'
  BY <1>1 DEF AgentEndsTurn
<1>2. ASSUME NEW p \in Places, AgentPrompted(p) PROVE Made'
  BY <1>2 DEF AgentPrompted
<1>3. ASSUME NEW p \in Places, PaneExits(p) PROVE Made'
  BY <1>3 DEF PaneExits
<1>4. CASE GodPaneCloses
  BY <1>4 DEF GodPaneCloses
<1> QED BY <1>1, <1>2, <1>3, <1>4 DEF HerdrMoves

(* A move of Herdr's own leaves in each copy the panes that its process      *)
(* relies on.                                                                *)
LEMMA HerdrKeepsCopied ==
    ASSUME Typed, HerdrMoves, UNCHANGED <<spawnVars, killVars, adoptVars>>
    PROVE  Copied'
<1> USE BoardAssumption DEF Typed, board, Copied, spawnVars
<1>1. ASSUME NEW p \in Places, AgentEndsTurn(p) PROVE Copied'
  BY <1>1 DEF AgentEndsTurn
<1>2. ASSUME NEW p \in Places, AgentPrompted(p) PROVE Copied'
  BY <1>2 DEF AgentPrompted
<1>3. ASSUME NEW p \in Places, PaneExits(p) PROVE Copied'
  BY <1>3 DEF PaneExits
<1>4. CASE GodPaneCloses
  BY <1>4 DEF GodPaneCloses
<1> QED BY <1>1, <1>2, <1>3, <1>4 DEF HerdrMoves

(* A move of Herdr's own leaves the workers a kill has loaded on the board. *)
LEMMA HerdrKeepsKillTargets ==
    ASSUME Typed, HerdrMoves, UNCHANGED <<spawnVars, killVars, adoptVars>>
    PROVE  KillTargets'
<1> USE BoardAssumption DEF Typed, board, KillTargets, killVars
<1>1. ASSUME NEW p \in Places, AgentEndsTurn(p) PROVE KillTargets'
  BY <1>1 DEF AgentEndsTurn
<1>2. ASSUME NEW p \in Places, AgentPrompted(p) PROVE KillTargets'
  BY <1>2 DEF AgentPrompted
<1>3. ASSUME NEW p \in Places, PaneExits(p) PROVE KillTargets'
  BY <1>3 DEF PaneExits
<1>4. CASE GodPaneCloses
  BY <1>4 DEF GodPaneCloses
<1> QED BY <1>1, <1>2, <1>3, <1>4 DEF HerdrMoves

(* A move of Herdr's own lets nothing start before the run is created. *)
LEMMA HerdrKeepsBegun ==
    ASSUME Typed, HerdrMoves, UNCHANGED <<spawnVars, killVars, adoptVars>>
    PROVE  Begun'
<1> USE BoardAssumption DEF Typed, board, Begun, spawnVars, adoptVars
<1>1. ASSUME NEW p \in Places, AgentEndsTurn(p) PROVE Begun'
  BY <1>1 DEF AgentEndsTurn
<1>2. ASSUME NEW p \in Places, AgentPrompted(p) PROVE Begun'
  BY <1>2 DEF AgentPrompted
<1>3. ASSUME NEW p \in Places, PaneExits(p) PROVE Begun'
  BY <1>3 DEF PaneExits
<1>4. CASE GodPaneCloses
  BY <1>4 DEF GodPaneCloses
<1> QED BY <1>1, <1>2, <1>3, <1>4 DEF HerdrMoves

-----------------------------------------------------------------------------
(* Nothing but the users' panes exists at first, so all is typed. *)
LEMMA TypedInit ==
    ASSUME Init PROVE Typed
<1> USE BoardAssumption DEF Init, BoardInit, SpawnInit, KillInit, AdoptInit
<1>1. BoardTypeOK
  BY DEF BoardTypeOK, Workers, Places, Lives
<1>2. SpawnTypeOK
  BY DEF SpawnTypeOK, Steps, NoCopy
<1>3. KillTypeOK
  BY DEF KillTypeOK, Nothing
<1>4. AdoptTypeOK
  BY DEF AdoptTypeOK
<1>5. PanesTyped /\ Made
  BY DEF PanesTyped, Made, Workers, NoCopy
<1>6. Phased /\ Copied
  BY DEF Phased, Copied, NoCopy, Allocating
<1>7. KillAims /\ KillTargets /\ AdoptAims
  BY DEF KillAims, KillTargets, AdoptAims
<1>8. Begun
  BY DEF Begun, Workers
<1> QED
  BY <1>1, <1>2, <1>3, <1>4, <1>5, <1>6, <1>7, <1>8 DEF Typed, TypeOK

(* Every step of the team, and none, keeps all of Typed. *)
LEMMA TypedStep ==
    ASSUME Typed, [Next]_vars
    PROVE  Typed'
<1>1. ASSUME NEW s \in Spawners, SpawnStep(s), UNCHANGED <<killVars, adoptVars>>
      PROVE  Typed'
  <2>1. BoardTypeOK' /\ SpawnTypeOK' /\ Phased'
    BY <1>1, SpawnKeepsBoardTypeOK, SpawnKeepsSpawnTypeOK, SpawnKeepsPhased
  <2>2. PanesTyped' /\ Made' /\ Copied' /\ KillTargets' /\ Begun'
    BY <1>1, SpawnKeepsPanesTyped, SpawnKeepsMade, SpawnKeepsCopied,
       SpawnKeepsKillTargets, SpawnKeepsBegun
  <2> QED BY <1>1, <2>1, <2>2, KillKept, AdoptKept DEF Typed, TypeOK
<1>2. ASSUME NEW k \in Killers, KillStep(k), UNCHANGED <<spawnVars, adoptVars>>
      PROVE  Typed'
  <2>1. BoardTypeOK' /\ KillTypeOK' /\ KillAims'
    BY <1>2, KillKeepsBoardTypeOK, KillKeepsKillTypeOK, KillKeepsKillAims
  <2>2. PanesTyped' /\ Made' /\ Copied' /\ KillTargets' /\ Begun'
    BY <1>2, KillKeepsPanesTyped, KillKeepsMade, KillKeepsCopied,
       KillKeepsKillTargets, KillKeepsBegun
  <2> QED BY <1>2, <2>1, <2>2, SpawnKept, AdoptKept DEF Typed, TypeOK
<1>3. ASSUME NEW x \in Adopters, AdoptStep(x), UNCHANGED <<spawnVars, killVars>>
      PROVE  Typed'
  <2>1. BoardTypeOK' /\ AdoptTypeOK' /\ AdoptAims'
    BY <1>3, AdoptKeepsBoardTypeOK, AdoptKeepsAdoptTypeOK, AdoptKeepsAdoptAims
  <2>2. PanesTyped' /\ Made' /\ Copied' /\ KillTargets' /\ Begun'
    BY <1>3, AdoptKeepsPanesTyped, AdoptKeepsMade, AdoptKeepsCopied,
       AdoptKeepsKillTargets, AdoptKeepsBegun
  <2> QED BY <1>3, <2>1, <2>2, SpawnKept, KillKept DEF Typed, TypeOK
<1>4. ASSUME HookStep, UNCHANGED <<spawnVars, killVars, adoptVars>>
      PROVE  Typed'
  <2>1. BoardTypeOK' /\ PanesTyped' /\ Made' /\ Copied' /\ KillTargets' /\ Begun'
    BY <1>4, HookKeepsBoardTypeOK, HookKeepsPanesTyped, HookKeepsMade, HookKeepsCopied,
       HookKeepsKillTargets, HookKeepsBegun
  <2> QED BY <1>4, <2>1, SpawnKept, KillKept, AdoptKept DEF Typed, TypeOK
<1>5. ASSUME HerdrMoves, UNCHANGED <<spawnVars, killVars, adoptVars>>
      PROVE  Typed'
  <2>1. BoardTypeOK' /\ PanesTyped' /\ Made' /\ Copied' /\ KillTargets' /\ Begun'
    BY <1>5, HerdrKeepsBoardTypeOK, HerdrKeepsPanesTyped, HerdrKeepsMade,
       HerdrKeepsCopied, HerdrKeepsKillTargets, HerdrKeepsBegun
  <2> QED BY <1>5, <2>1, SpawnKept, KillKept, AdoptKept DEF Typed, TypeOK
<1>6. CASE UNCHANGED vars
  <2> USE <1>6 DEF Typed, TypeOK, vars, boardVars, board, world, spawnVars
  <2>1. BoardTypeOK' /\ PanesTyped' /\ Made'
    BY DEF BoardTypeOK, PanesTyped, Made
  <2>2. Copied' /\ KillTargets' /\ Begun'
    BY DEF Copied, KillTargets, Begun, killVars, adoptVars
  <2> QED BY <2>1, <2>2, SpawnKept, KillKept, AdoptKept
<1> QED BY <1>1, <1>2, <1>3, <1>4, <1>5, <1>6 DEF Next

(* Typed is inductive. *)
THEOREM TypedAlways == Spec => []Typed
<1> QED BY TypedInit, TypedStep, PTL DEF Spec

(***************************************************************************)
(* All state keeps its type; above all a launch thread that is past        *)
(* reading its pane has one, and the code does not panic there.            *)
(***************************************************************************)
THEOREM TypeCorrect == Spec => []TypeOK
<1>1. Typed => TypeOK
  BY DEF Typed
<1> QED BY <1>1, TypedAlways, PTL

-----------------------------------------------------------------------------
(* Safety. *)

(* No worker and no other process has a pane that is about to be recorded. *)
Fresh ==
    /\ \A s \in Spawners, v, w \in Spawned :
        step[s][w] = "record_pane" => paneOf[v] # hand[s][w]
    /\ \A s, t \in Spawners, v, w \in Spawned :
        /\ step[s][v] = "record_pane"
        /\ step[t][w] = "record_pane"
        /\ hand[s][v] = hand[t][w]
        => s = t /\ v = w

Distinct == OnePanePerWorker /\ Fresh

Allocated(w) == paneOf[w] # None \/ life[w] \in TerminalLives

(***************************************************************************)
(* A spawn process that allocates is through with all but its todo list,   *)
(* a resume because no other worker was pending; one that launches is      *)
(* through with every worker.                                              *)
(***************************************************************************)
Allotted ==
    /\ \A w \in Spawned : life[w] = "running" => paneOf[w] # None
    /\ \A s \in Spawners : sphase[s] = "allocate" => \A w \in Spawned \ todo[s] : Allocated(w)
    /\ \A s \in Spawners : sphase[s] = "launch" => \A w \in Spawned : Allocated(w)

Ordered == Allotted /\ LaunchAfterAllocation

-----------------------------------------------------------------------------
(* One lemma for each command and each of these. *)

(* A step of spawn or resume leaves the recorded panes distinct and those to *)
(* be recorded unused.                                                       *)
LEMMA SpawnKeepsDistinct ==
    ASSUME Typed, Distinct, NEW s \in Spawners, SpawnStep(s)
    PROVE  Distinct'
<1> USE BoardAssumption DEF Typed, TypeOK, BoardTypeOK, Distinct,
        OnePanePerWorker, Fresh, Made, PanesTyped, SpawnTypeOK, boardVars,
        board, Workers, Places, Goes, Takes
<1>1. CASE CreateRun(s)
  BY <1>1 DEF CreateRun, StartsWith
<1>2. CASE StartResume(s)
  BY <1>2 DEF StartResume, StartsWith
<1>3. CASE WriteProtocols(s)
  BY <1>3 DEF WriteProtocols, LaunchThreads, Rests
<1>4. CASE ProtocolsFail(s)
  BY <1>4 DEF ProtocolsFail, Leaves
<1>5. CASE FinishLaunch(s)
  BY <1>5 DEF FinishLaunch, Leaves
<1>6. CASE SpawnCrashes(s)
  BY <1>6 DEF SpawnCrashes, Leaves
<1>7. ASSUME NEW w \in Spawned, KeepPane(s, w) PROVE Distinct'
  BY <1>7 DEF KeepPane, PaneIsLive, Recorded, Rests
<1>8. ASSUME NEW w \in Spawned, MakeTree(s, w) PROVE Distinct'
  BY <1>8 DEF MakeTree, Picks, Takes, Rests, HasCwd
<1>9. ASSUME NEW w \in Spawned, RecordTree(s, w) PROVE Distinct'
  BY <1>9 DEF RecordTree
<1>10. ASSUME NEW w \in Spawned, RunSetup(s, w) PROVE Distinct'
  BY <1>10 DEF RunSetup
<1>11. ASSUME NEW w \in Spawned, MakeWorkspace(s, w) PROVE Distinct'
  BY <1>11 DEF MakeWorkspace, Picks, Takes, Rests
<1>12. ASSUME NEW w \in Spawned, RecordPane(s, w) PROVE Distinct'
  BY <1>12 DEF RecordPane
<1>13. ASSUME NEW w \in Spawned, AllocateFails(s, w) PROVE Distinct'
  BY <1>13 DEF AllocateFails, Leaves, Picks, Rests
<1>14. ASSUME NEW w \in Spawned, ReadPane(s, w) PROVE Distinct'
  BY <1>14 DEF ReadPane
<1>15. ASSUME NEW w \in Spawned, LookAtPane(s, w) PROVE Distinct'
  BY <1>15 DEF LookAtPane, AfterLook
<1>16. ASSUME NEW w \in Spawned, LaunchAgent(s, w) PROVE Distinct'
  BY <1>16 DEF LaunchAgent, Open
<1>17. ASSUME NEW w \in Spawned, BriefWorker(s, w) PROVE Distinct'
  BY <1>17 DEF BriefWorker, SubmitBrief, Takes
<1>18. ASSUME NEW w \in Spawned, LaunchFails(s, w) PROVE Distinct'
  BY <1>18 DEF LaunchFails, Takes
<1>19. ASSUME NEW w \in Spawned, Checkpoint(s, w) PROVE Distinct'
  BY <1>19 DEF Checkpoint, ResolvePending
<1>20. ASSUME NEW w \in Spawned, RecordFailure(s, w) PROVE Distinct'
  BY <1>20 DEF RecordFailure, ResolvePending
<1> QED BY <1>1, <1>2, <1>3, <1>4, <1>5, <1>6, <1>7, <1>8, <1>9, <1>10,
          <1>11, <1>12, <1>13, <1>14, <1>15, <1>16, <1>17, <1>18, <1>19, <1>20
       DEF SpawnStep, Allocate, LaunchThread

(* A step of kill leaves the recorded panes distinct and those to be         *)
(* recorded unused.                                                          *)
LEMMA KillKeepsDistinct ==
    ASSUME Typed, Distinct, NEW k \in Killers, KillStep(k), UNCHANGED spawnVars
    PROVE  Distinct'
<1> USE BoardAssumption, KillAssumption DEF Typed, Distinct, OnePanePerWorker,
        Fresh, spawnVars, boardVars, board
<1>1. CASE LoadActiveRun(k)
  BY <1>1 DEF LoadActiveRun, Closes
<1>2. CASE LoadEndedRun(k)
  BY <1>2 DEF LoadEndedRun, Closes
<1>3. CASE PersistRun(k)
  BY <1>3 DEF PersistRun, KillLeaves
<1>4. CASE PersistWorker(k)
  BY <1>4 DEF PersistWorker, KillLeaves
<1>5. CASE KillCrashes(k)
  BY <1>5 DEF KillCrashes, KillLeaves
<1>6. ASSUME NEW w \in Workers, LoadWorker(k, w) PROVE Distinct'
  BY <1>6 DEF LoadWorker, Closes
<1>7. ASSUME NEW w \in Workers, CloseOwn(k, w) PROVE Distinct'
  BY <1>7 DEF CloseOwn, Does, CloseWorkspace, Emit, Open
<1>8. ASSUME NEW w \in Workers, ReleaseAdopted(k, w) PROVE Distinct'
  BY <1>8 DEF ReleaseAdopted, Does, Open
<1>9. ASSUME NEW w \in Workers, CloseMisses(k, w) PROVE Distinct'
  BY <1>9 DEF CloseMisses, Does
<1> QED BY <1>1, <1>2, <1>3, <1>4, <1>5, <1>6, <1>7, <1>8, <1>9 DEF KillStep

(* A step of adopt leaves the recorded panes distinct and those to be        *)
(* recorded unused.                                                          *)
LEMMA AdoptKeepsDistinct ==
    ASSUME Typed, Distinct, NEW x \in Adopters, AdoptStep(x), UNCHANGED spawnVars
    PROVE  Distinct'
<1> USE BoardAssumption DEF Typed, TypeOK, BoardTypeOK, Distinct,
        OnePanePerWorker, Fresh, PanesTyped, SpawnTypeOK, AdoptTypeOK, Begun,
        spawnVars, boardVars, board, InUse
<1>1. CASE Insert(x)
  BY <1>1 DEF Insert
<1>2. CASE InsertRefused(x)
  BY <1>2 DEF InsertRefused
<1>3. CASE Recover(x)
  BY <1>3 DEF Recover
<1>4. CASE RecoverTooLate(x)
  BY <1>4 DEF RecoverTooLate
<1>5. CASE PromptAdopted(x)
  BY <1>5 DEF PromptAdopted, SubmitBrief
<1>6. CASE PromptFails(x)
  BY <1>6 DEF PromptFails
<1>7. CASE ProtocolRefused(x)
  BY <1>7 DEF ProtocolRefused
<1>8. CASE CompleteAdoption(x)
  BY <1>8 DEF CompleteAdoption, ResolvePending
<1>9. CASE FailAdoption(x)
  BY <1>9 DEF FailAdoption, ResolvePending
<1>10. CASE AdoptCrashes(x)
  BY <1>10 DEF AdoptCrashes
<1>11. ASSUME NEW a \in Adoptable, NEW p \in UserPanes, Bootstrap(x, a, p)
       PROVE  Distinct'
  BY <1>11 DEF Bootstrap
<1>12. ASSUME NEW a \in Adoptable, NEW p \in UserPanes, SelectNew(x, a, p)
       PROVE  Distinct'
  BY <1>12 DEF SelectNew, Selects
<1>13. ASSUME NEW a \in Adoptable, NEW p \in UserPanes, SelectPending(x, a, p)
       PROVE  Distinct'
  BY <1>13 DEF SelectPending, Selects
<1> QED BY <1>1, <1>2, <1>3, <1>4, <1>5, <1>6, <1>7, <1>8, <1>9, <1>10,
          <1>11, <1>12, <1>13
       DEF AdoptStep

(* A step of a hook leaves the recorded panes distinct and those to be       *)
(* recorded unused.                                                          *)
LEMMA HookKeepsDistinct ==
    ASSUME Typed, Distinct, HookStep, UNCHANGED spawnVars
    PROVE  Distinct'
<1> USE BoardAssumption DEF Typed, Distinct, OnePanePerWorker, Fresh,
        spawnVars, TakesEvent
<1>1. ASSUME NEW p \in Places, PaneExited(p) PROVE Distinct'
  BY <1>1 DEF PaneExited
<1>2. ASSUME NEW p \in Places, WorkspaceClosed(p) PROVE Distinct'
  BY <1>2 DEF WorkspaceClosed
<1>3. ASSUME NEW p \in Places, NotOfTheTeam(p) PROVE Distinct'
  BY <1>3 DEF NotOfTheTeam
<1>4. CASE GodGone
  BY <1>4 DEF GodGone
<1>5. ASSUME NEW e \in events, HookMisses(e) PROVE Distinct'
  BY <1>5 DEF HookMisses
<1> QED BY <1>1, <1>2, <1>3, <1>4, <1>5 DEF HookStep

(* A move of Herdr's own leaves the recorded panes distinct and those to be  *)
(* recorded unused.                                                          *)
LEMMA HerdrKeepsDistinct ==
    ASSUME Typed, Distinct, HerdrMoves, UNCHANGED spawnVars
    PROVE  Distinct'
<1> USE BoardAssumption DEF Typed, Distinct, OnePanePerWorker, Fresh,
        spawnVars, board
<1>1. ASSUME NEW p \in Places, AgentEndsTurn(p) PROVE Distinct'
  BY <1>1 DEF AgentEndsTurn
<1>2. ASSUME NEW p \in Places, AgentPrompted(p) PROVE Distinct'
  BY <1>2 DEF AgentPrompted
<1>3. ASSUME NEW p \in Places, PaneExits(p) PROVE Distinct'
  BY <1>3 DEF PaneExits
<1>4. CASE GodPaneCloses
  BY <1>4 DEF GodPaneCloses
<1> QED BY <1>1, <1>2, <1>3, <1>4 DEF HerdrMoves

(* A step of spawn or resume leaves each worker allocated that a spawn       *)
(* process is through with.                                                  *)
LEMMA SpawnKeepsAllotted ==
    ASSUME Typed, Ordered, NEW s \in Spawners, SpawnStep(s)
    PROVE  Allotted'
<1> USE BoardAssumption DEF Typed, TypeOK, BoardTypeOK, Ordered, Allotted,
        Allocated, Begun, Copied, SpawnTypeOK, Phased, Allocating, Lives,
        boardVars, board, Workers, Places, TerminalLives, Goes
<1>1. CASE CreateRun(s)
  BY <1>1 DEF CreateRun, StartsWith
<1>2. CASE StartResume(s)
  BY <1>2 DEF StartResume, StartsWith
<1>3. CASE WriteProtocols(s)
  BY <1>3 DEF WriteProtocols, LaunchThreads, Rests
<1>4. CASE ProtocolsFail(s)
  BY <1>4 DEF ProtocolsFail, Leaves
<1>5. CASE FinishLaunch(s)
  BY <1>5 DEF FinishLaunch, Leaves
<1>6. CASE SpawnCrashes(s)
  BY <1>6 DEF SpawnCrashes, Leaves
<1>7. ASSUME NEW w \in Spawned, KeepPane(s, w) PROVE Allotted'
  BY <1>7 DEF KeepPane, PaneIsLive, Recorded, Rests
<1>8. ASSUME NEW w \in Spawned, MakeTree(s, w) PROVE Allotted'
  BY <1>8 DEF MakeTree, Picks, Takes, Rests, HasCwd
<1>9. ASSUME NEW w \in Spawned, RecordTree(s, w) PROVE Allotted'
  BY <1>9 DEF RecordTree
<1>10. ASSUME NEW w \in Spawned, RunSetup(s, w) PROVE Allotted'
  BY <1>10 DEF RunSetup
<1>11. ASSUME NEW w \in Spawned, MakeWorkspace(s, w) PROVE Allotted'
  BY <1>11 DEF MakeWorkspace, Picks, Takes, Rests
<1>12. ASSUME NEW w \in Spawned, RecordPane(s, w) PROVE Allotted'
  BY <1>12 DEF RecordPane
<1>13. ASSUME NEW w \in Spawned, AllocateFails(s, w) PROVE Allotted'
  BY <1>13 DEF AllocateFails, Leaves, Picks, Rests
<1>14. ASSUME NEW w \in Spawned, ReadPane(s, w) PROVE Allotted'
  BY <1>14 DEF ReadPane
<1>15. ASSUME NEW w \in Spawned, LookAtPane(s, w) PROVE Allotted'
  BY <1>15 DEF LookAtPane, AfterLook
<1>16. ASSUME NEW w \in Spawned, LaunchAgent(s, w) PROVE Allotted'
  BY <1>16 DEF LaunchAgent, Open
<1>17. ASSUME NEW w \in Spawned, BriefWorker(s, w) PROVE Allotted'
  BY <1>17 DEF BriefWorker, SubmitBrief, Takes
<1>18. ASSUME NEW w \in Spawned, LaunchFails(s, w) PROVE Allotted'
  BY <1>18 DEF LaunchFails, Takes
<1>19. ASSUME NEW w \in Spawned, Checkpoint(s, w) PROVE Allotted'
  <2>1. step[s][w] = "checkpoint"
    BY <1>19 DEF Checkpoint
  <2>2. sphase[s] = "launch"
    BY <2>1
  <2>3. copy[s].pane[w] # None
    BY <2>1, <2>2
  <2>4. paneOf[w] # None
    BY <2>3
  <2>5. UNCHANGED <<paneOf, sphase, todo>>
    BY <1>19 DEF Checkpoint
  <2>6. \A v \in Spawned : v # w => life'[v] = life[v]
    BY <1>19 DEF Checkpoint, ResolvePending
  <2>7. \A v \in Spawned : Allocated(v) => Allocated(v)'
    BY <2>4, <2>5, <2>6
  <2> QED BY <2>4, <2>5, <2>6, <2>7
<1>20. ASSUME NEW w \in Spawned, RecordFailure(s, w) PROVE Allotted'
  BY <1>20 DEF RecordFailure, ResolvePending
<1> QED BY <1>1, <1>2, <1>3, <1>4, <1>5, <1>6, <1>7, <1>8, <1>9, <1>10,
          <1>11, <1>12, <1>13, <1>14, <1>15, <1>16, <1>17, <1>18, <1>19, <1>20
       DEF SpawnStep, Allocate, LaunchThread

(* A step of kill leaves each worker allocated that a spawn process is       *)
(* through with.                                                             *)
LEMMA KillKeepsAllotted ==
    ASSUME Typed, Ordered, NEW k \in Killers, KillStep(k), UNCHANGED spawnVars
    PROVE  Allotted'
<1> USE BoardAssumption, KillAssumption DEF Typed, Ordered, Allotted,
        Allocated, spawnVars, boardVars, board, Workers, TerminalLives, EndOf
<1>1. CASE LoadActiveRun(k)
  BY <1>1 DEF LoadActiveRun, Closes
<1>2. CASE LoadEndedRun(k)
  BY <1>2 DEF LoadEndedRun, Closes
<1>3. CASE PersistRun(k)
  BY <1>3 DEF PersistRun, KillLeaves
<1>4. CASE PersistWorker(k)
  BY <1>4 DEF PersistWorker, KillLeaves
<1>5. CASE KillCrashes(k)
  BY <1>5 DEF KillCrashes, KillLeaves
<1>6. ASSUME NEW w \in Workers, LoadWorker(k, w) PROVE Allotted'
  BY <1>6 DEF LoadWorker, Closes
<1>7. ASSUME NEW w \in Workers, CloseOwn(k, w) PROVE Allotted'
  BY <1>7 DEF CloseOwn, Does, CloseWorkspace, Emit, Open
<1>8. ASSUME NEW w \in Workers, ReleaseAdopted(k, w) PROVE Allotted'
  BY <1>8 DEF ReleaseAdopted, Does, Open
<1>9. ASSUME NEW w \in Workers, CloseMisses(k, w) PROVE Allotted'
  BY <1>9 DEF CloseMisses, Does
<1> QED BY <1>1, <1>2, <1>3, <1>4, <1>5, <1>6, <1>7, <1>8, <1>9 DEF KillStep

(* A step of adopt leaves each worker allocated that a spawn process is      *)
(* through with.                                                             *)
LEMMA AdoptKeepsAllotted ==
    ASSUME Typed, Ordered, NEW x \in Adopters, AdoptStep(x), UNCHANGED spawnVars
    PROVE  Allotted'
<1> USE BoardAssumption DEF Typed, TypeOK, BoardTypeOK, Ordered, Allotted,
        Allocated, AdoptAims, spawnVars, PanesTyped, boardVars, board,
        TerminalLives
<1>1. CASE Insert(x)
  BY <1>1 DEF Insert
<1>2. CASE InsertRefused(x)
  BY <1>2 DEF InsertRefused
<1>3. CASE Recover(x)
  BY <1>3 DEF Recover
<1>4. CASE RecoverTooLate(x)
  BY <1>4 DEF RecoverTooLate
<1>5. CASE PromptAdopted(x)
  BY <1>5 DEF PromptAdopted, SubmitBrief
<1>6. CASE PromptFails(x)
  BY <1>6 DEF PromptFails
<1>7. CASE ProtocolRefused(x)
  BY <1>7 DEF ProtocolRefused
<1>8. CASE CompleteAdoption(x)
  BY <1>8 DEF CompleteAdoption, ResolvePending
<1>9. CASE FailAdoption(x)
  BY <1>9 DEF FailAdoption, ResolvePending
<1>10. CASE AdoptCrashes(x)
  BY <1>10 DEF AdoptCrashes
<1>11. ASSUME NEW a \in Adoptable, NEW p \in UserPanes, Bootstrap(x, a, p)
       PROVE  Allotted'
  BY <1>11 DEF Bootstrap
<1>12. ASSUME NEW a \in Adoptable, NEW p \in UserPanes, SelectNew(x, a, p)
       PROVE  Allotted'
  BY <1>12 DEF SelectNew, Selects
<1>13. ASSUME NEW a \in Adoptable, NEW p \in UserPanes, SelectPending(x, a, p)
       PROVE  Allotted'
  BY <1>13 DEF SelectPending, Selects
<1> QED BY <1>1, <1>2, <1>3, <1>4, <1>5, <1>6, <1>7, <1>8, <1>9, <1>10,
          <1>11, <1>12, <1>13
       DEF AdoptStep

(* A step of a hook leaves each worker allocated that a spawn process is     *)
(* through with.                                                             *)
LEMMA HookKeepsAllotted ==
    ASSUME Typed, Ordered, HookStep, UNCHANGED spawnVars
    PROVE  Allotted'
<1> USE BoardAssumption DEF Typed, Ordered, Allotted, Allocated, spawnVars,
        TerminalLives, TakesEvent, Marks
<1>1. ASSUME NEW p \in Places, PaneExited(p) PROVE Allotted'
  BY <1>1 DEF PaneExited
<1>2. ASSUME NEW p \in Places, WorkspaceClosed(p) PROVE Allotted'
  BY <1>2 DEF WorkspaceClosed
<1>3. ASSUME NEW p \in Places, NotOfTheTeam(p) PROVE Allotted'
  BY <1>3 DEF NotOfTheTeam
<1>4. CASE GodGone
  BY <1>4 DEF GodGone
<1>5. ASSUME NEW e \in events, HookMisses(e) PROVE Allotted'
  BY <1>5 DEF HookMisses
<1> QED BY <1>1, <1>2, <1>3, <1>4, <1>5 DEF HookStep

(* A move of Herdr's own leaves each worker allocated that a spawn process   *)
(* is through with.                                                          *)
LEMMA HerdrKeepsAllotted ==
    ASSUME Typed, Ordered, HerdrMoves, UNCHANGED spawnVars
    PROVE  Allotted'
<1> USE BoardAssumption DEF Typed, Ordered, Allotted, Allocated, spawnVars,
        board
<1>1. ASSUME NEW p \in Places, AgentEndsTurn(p) PROVE Allotted'
  BY <1>1 DEF AgentEndsTurn
<1>2. ASSUME NEW p \in Places, AgentPrompted(p) PROVE Allotted'
  BY <1>2 DEF AgentPrompted
<1>3. ASSUME NEW p \in Places, PaneExits(p) PROVE Allotted'
  BY <1>3 DEF PaneExits
<1>4. CASE GodPaneCloses
  BY <1>4 DEF GodPaneCloses
<1> QED BY <1>1, <1>2, <1>3, <1>4 DEF HerdrMoves

(* A step of spawn or resume puts no agent in a pane of spawn's before all   *)
(* is allocated.                                                             *)
LEMMA SpawnKeepsLaunchAfterAllocation ==
    ASSUME Typed, Ordered, NEW s \in Spawners, SpawnStep(s)
    PROVE  LaunchAfterAllocation'
<1> USE BoardAssumption DEF Typed, TypeOK, Ordered, LaunchAfterAllocation,
        Allotted, Allocated, Begun, SpawnTypeOK, Phased, Allocating, world,
        Lives, boardVars, board, Workers, Places, TerminalLives, Goes,
        BoardTypeOK, PanesTyped
<1>1. CASE CreateRun(s)
  BY <1>1 DEF CreateRun, StartsWith
<1>2. CASE StartResume(s)
  BY <1>2 DEF StartResume, StartsWith
<1>3. CASE WriteProtocols(s)
  BY <1>3 DEF WriteProtocols, LaunchThreads, Rests
<1>4. CASE ProtocolsFail(s)
  BY <1>4 DEF ProtocolsFail, Leaves
<1>5. CASE FinishLaunch(s)
  BY <1>5 DEF FinishLaunch, Leaves
<1>6. CASE SpawnCrashes(s)
  BY <1>6 DEF SpawnCrashes, Leaves
<1>7. ASSUME NEW w \in Spawned, KeepPane(s, w) PROVE LaunchAfterAllocation'
  BY <1>7 DEF KeepPane, PaneIsLive, Recorded, Rests
<1>8. ASSUME NEW w \in Spawned, MakeTree(s, w) PROVE LaunchAfterAllocation'
  BY <1>8 DEF MakeTree, Picks, Takes, Rests, HasCwd
<1>9. ASSUME NEW w \in Spawned, RecordTree(s, w) PROVE LaunchAfterAllocation'
  BY <1>9 DEF RecordTree
<1>10. ASSUME NEW w \in Spawned, RunSetup(s, w) PROVE LaunchAfterAllocation'
  BY <1>10 DEF RunSetup
<1>11. ASSUME NEW w \in Spawned, MakeWorkspace(s, w)
       PROVE  LaunchAfterAllocation'
  BY <1>11 DEF MakeWorkspace, Picks, Takes, Rests
<1>12. ASSUME NEW w \in Spawned, RecordPane(s, w) PROVE LaunchAfterAllocation'
  BY <1>12 DEF RecordPane
<1>13. ASSUME NEW w \in Spawned, AllocateFails(s, w)
       PROVE  LaunchAfterAllocation'
  BY <1>13 DEF AllocateFails, Leaves, Picks, Rests
<1>14. ASSUME NEW w \in Spawned, ReadPane(s, w) PROVE LaunchAfterAllocation'
  BY <1>14 DEF ReadPane
<1>15. ASSUME NEW w \in Spawned, LookAtPane(s, w) PROVE LaunchAfterAllocation'
  BY <1>15 DEF LookAtPane, AfterLook
<1>16. ASSUME NEW w \in Spawned, LaunchAgent(s, w) PROVE LaunchAfterAllocation'
  <2>1. step[s][w] = "launch"
    BY <1>16 DEF LaunchAgent
  <2>2. sphase[s] = "launch"
    BY <2>1
  <2>3. \A v \in Spawned : Allocated(v)
    BY <2>2
  <2>4. UNCHANGED <<paneOf, life>>
    BY <1>16 DEF LaunchAgent
  <2> QED BY <2>3, <2>4
<1>17. ASSUME NEW w \in Spawned, BriefWorker(s, w) PROVE LaunchAfterAllocation'
  BY <1>17 DEF BriefWorker, SubmitBrief, Takes
<1>18. ASSUME NEW w \in Spawned, LaunchFails(s, w) PROVE LaunchAfterAllocation'
  BY <1>18 DEF LaunchFails, Takes
<1>19. ASSUME NEW w \in Spawned, Checkpoint(s, w) PROVE LaunchAfterAllocation'
  BY <1>19 DEF Checkpoint, ResolvePending
<1>20. ASSUME NEW w \in Spawned, RecordFailure(s, w)
       PROVE  LaunchAfterAllocation'
  BY <1>20 DEF RecordFailure, ResolvePending
<1> QED BY <1>1, <1>2, <1>3, <1>4, <1>5, <1>6, <1>7, <1>8, <1>9, <1>10,
          <1>11, <1>12, <1>13, <1>14, <1>15, <1>16, <1>17, <1>18, <1>19, <1>20
       DEF SpawnStep, Allocate, LaunchThread

(* A step of kill puts no agent in a pane of spawn's before all is           *)
(* allocated.                                                                *)
LEMMA KillKeepsLaunchAfterAllocation ==
    ASSUME Typed, Ordered, NEW k \in Killers, KillStep(k)
    PROVE  LaunchAfterAllocation'
<1> USE BoardAssumption, KillAssumption DEF Typed, Ordered,
        LaunchAfterAllocation, KillAims, world, boardVars, board, Workers,
        TerminalLives, EndOf
<1>1. CASE LoadActiveRun(k)
  BY <1>1 DEF LoadActiveRun, Closes
<1>2. CASE LoadEndedRun(k)
  BY <1>2 DEF LoadEndedRun, Closes
<1>3. CASE PersistRun(k)
  BY <1>3 DEF PersistRun, KillLeaves
<1>4. CASE PersistWorker(k)
  BY <1>4 DEF PersistWorker, KillLeaves
<1>5. CASE KillCrashes(k)
  BY <1>5 DEF KillCrashes, KillLeaves
<1>6. ASSUME NEW w \in Workers, LoadWorker(k, w) PROVE LaunchAfterAllocation'
  BY <1>6 DEF LoadWorker, Closes
<1>7. ASSUME NEW w \in Workers, CloseOwn(k, w) PROVE LaunchAfterAllocation'
  BY <1>7 DEF CloseOwn, Does, CloseWorkspace, Emit, Open
<1>8. ASSUME NEW w \in Workers, ReleaseAdopted(k, w)
      PROVE  LaunchAfterAllocation'
  BY <1>8 DEF ReleaseAdopted, Does, Open
<1>9. ASSUME NEW w \in Workers, CloseMisses(k, w) PROVE LaunchAfterAllocation'
  BY <1>9 DEF CloseMisses, Does
<1> QED BY <1>1, <1>2, <1>3, <1>4, <1>5, <1>6, <1>7, <1>8, <1>9 DEF KillStep

(* A step of adopt puts no agent in a pane of spawn's before all is          *)
(* allocated.                                                                *)
LEMMA AdoptKeepsLaunchAfterAllocation ==
    ASSUME Typed, Ordered, NEW x \in Adopters, AdoptStep(x)
    PROVE  LaunchAfterAllocation'
<1> USE BoardAssumption DEF Typed, TypeOK, BoardTypeOK, Ordered,
        LaunchAfterAllocation, PanesTyped, world, boardVars, board,
        TerminalLives
<1>1. CASE Insert(x)
  BY <1>1 DEF Insert
<1>2. CASE InsertRefused(x)
  BY <1>2 DEF InsertRefused
<1>3. CASE Recover(x)
  BY <1>3 DEF Recover
<1>4. CASE RecoverTooLate(x)
  BY <1>4 DEF RecoverTooLate
<1>5. CASE PromptAdopted(x)
  BY <1>5 DEF PromptAdopted, SubmitBrief
<1>6. CASE PromptFails(x)
  BY <1>6 DEF PromptFails
<1>7. CASE ProtocolRefused(x)
  BY <1>7 DEF ProtocolRefused
<1>8. CASE CompleteAdoption(x)
  BY <1>8 DEF CompleteAdoption, ResolvePending
<1>9. CASE FailAdoption(x)
  BY <1>9 DEF FailAdoption, ResolvePending
<1>10. CASE AdoptCrashes(x)
  BY <1>10 DEF AdoptCrashes
<1>11. ASSUME NEW a \in Adoptable, NEW p \in UserPanes, Bootstrap(x, a, p)
       PROVE  LaunchAfterAllocation'
  BY <1>11 DEF Bootstrap
<1>12. ASSUME NEW a \in Adoptable, NEW p \in UserPanes, SelectNew(x, a, p)
       PROVE  LaunchAfterAllocation'
  BY <1>12 DEF SelectNew, Selects
<1>13. ASSUME NEW a \in Adoptable, NEW p \in UserPanes, SelectPending(x, a, p)
       PROVE  LaunchAfterAllocation'
  BY <1>13 DEF SelectPending, Selects
<1> QED BY <1>1, <1>2, <1>3, <1>4, <1>5, <1>6, <1>7, <1>8, <1>9, <1>10,
          <1>11, <1>12, <1>13
       DEF AdoptStep

(* A step of a hook puts no agent in a pane of spawn's before all is         *)
(* allocated.                                                                *)
LEMMA HookKeepsLaunchAfterAllocation ==
    ASSUME Typed, Ordered, HookStep
    PROVE  LaunchAfterAllocation'
<1> USE BoardAssumption DEF Typed, Ordered, LaunchAfterAllocation, world,
        TerminalLives, TakesEvent, Marks
<1>1. ASSUME NEW p \in Places, PaneExited(p) PROVE LaunchAfterAllocation'
  BY <1>1 DEF PaneExited
<1>2. ASSUME NEW p \in Places, WorkspaceClosed(p) PROVE LaunchAfterAllocation'
  BY <1>2 DEF WorkspaceClosed
<1>3. ASSUME NEW p \in Places, NotOfTheTeam(p) PROVE LaunchAfterAllocation'
  BY <1>3 DEF NotOfTheTeam
<1>4. CASE GodGone
  BY <1>4 DEF GodGone
<1>5. ASSUME NEW e \in events, HookMisses(e) PROVE LaunchAfterAllocation'
  BY <1>5 DEF HookMisses
<1> QED BY <1>1, <1>2, <1>3, <1>4, <1>5 DEF HookStep

(* A move of Herdr's own puts no agent in a pane of spawn's before all is    *)
(* allocated.                                                                *)
LEMMA HerdrKeepsLaunchAfterAllocation ==
    ASSUME Typed, Ordered, HerdrMoves
    PROVE  LaunchAfterAllocation'
<1> USE BoardAssumption DEF Typed, Ordered, LaunchAfterAllocation, world, board
<1>1. ASSUME NEW p \in Places, AgentEndsTurn(p) PROVE LaunchAfterAllocation'
  BY <1>1 DEF AgentEndsTurn
<1>2. ASSUME NEW p \in Places, AgentPrompted(p) PROVE LaunchAfterAllocation'
  BY <1>2 DEF AgentPrompted
<1>3. ASSUME NEW p \in Places, PaneExits(p) PROVE LaunchAfterAllocation'
  BY <1>3 DEF PaneExits
<1>4. CASE GodPaneCloses
  BY <1>4 DEF GodPaneCloses
<1> QED BY <1>1, <1>2, <1>3, <1>4 DEF HerdrMoves

-----------------------------------------------------------------------------
(* At first no pane is recorded. *)
LEMMA DistinctInit ==
    ASSUME Init PROVE Distinct
BY DEF Init, BoardInit, SpawnInit, Distinct, OnePanePerWorker, Fresh

(* Every step, and none, keeps the panes distinct. *)
LEMMA DistinctStep ==
    ASSUME Typed, Distinct, [Next]_vars
    PROVE  Distinct'
<1>1. CASE UNCHANGED vars
  BY <1>1 DEF Distinct, OnePanePerWorker, Fresh, vars, boardVars, board, spawnVars
<1> QED
  BY <1>1, SpawnKeepsDistinct, KillKeepsDistinct, AdoptKeepsDistinct,
     HookKeepsDistinct, HerdrKeepsDistinct
  DEF Next

(***************************************************************************)
(* However many spawns, resumes and adoptions overlap, no two workers are  *)
(* recorded in one pane.                                                   *)
(***************************************************************************)
THEOREM PanesDistinct == Spec => []OnePanePerWorker
<1>1. Distinct => OnePanePerWorker
  BY DEF Distinct
<1> QED BY <1>1, DistinctInit, DistinctStep, TypedAlways, PTL DEF Spec

-----------------------------------------------------------------------------
(* The roster: one lemma for each command. *)

(* A step enters something on the roster, or leaves it as it is. *)
Untouched == UNCHANGED <<runLife, life, paneOf>>
Entry == Promised!Next \/ Untouched

(* What ends a run, or workers that are on the board, settles them. *)
LEMMA Settles ==
    ASSUME runLife # "none", runLife' \in {runLife, "ended"}, DOMAIN life' = Workers,
           \A w \in Workers :
               life'[w] = life[w] \/ (life[w] # "absent" /\ life'[w] \in TerminalLives),
           UNCHANGED paneOf
    PROVE  Entry
BY DEF Entry, Promised!Next, Promised!Settle

(* A pending worker that is resolved starts or is over; any other is left alone. *)
LEMMA PendingResolves ==
    ASSUME Typed, NEW w \in Workers, NEW to \in {"running", "failed"}, runLife # "none",
           ResolvePending(w, to), UNCHANGED <<runLife, paneOf>>
    PROVE  Entry
<1> USE DEF Typed, TypeOK, BoardTypeOK
<1>1. CASE life[w] # "pending"
  BY <1>1 DEF ResolvePending, Entry, Untouched
<1>2. CASE life[w] = "pending" /\ to = "running"
  <2>1. Promised!Start(w)
    BY <1>2 DEF ResolvePending, Promised!Start
  <2> QED BY <2>1 DEF Entry, Promised!Next
<1>3. CASE life[w] = "pending" /\ to = "failed"
  <2>1. life' = [life EXCEPT ![w] = "failed"]
    BY <1>3 DEF ResolvePending
  <2>2. \A v \in Workers :
            life'[v] = life[v] \/ (life[v] # "absent" /\ life'[v] \in TerminalLives)
    BY <1>3, <2>1 DEF TerminalLives
  <2> QED BY <2>1, <2>2, Settles
<1> QED BY <1>1, <1>2, <1>3

(* The pane of spawn's that is about to be recorded is nobody's. *)
LEMMA HandIsFree ==
    ASSUME Typed, Distinct, NEW s \in Spawners, NEW w \in Spawned, step[s][w] = "record_pane"
    PROVE  hand[s][w] \in Places /\ Promised!Free(hand[s][w])
<1>1. hand[s][w] \in Panes
  BY DEF Typed, TypeOK, SpawnTypeOK
<1>2. \A v \in Spawned : paneOf[v] # hand[s][w]
  BY DEF Distinct, Fresh
<1>3. \A a \in Adoptable : paneOf[a] # hand[s][w]
  BY <1>1, BoardAssumption DEF Typed, PanesTyped, Places
<1> QED BY <1>1, <1>2, <1>3 DEF Promised!Free, Workers, Places

(* A step of spawn or resume founds the team, houses a worker, resolves one, *)
(* or touches nothing of the roster.                                         *)
LEMMA SpawnEnters ==
    ASSUME Typed, Distinct, NEW s \in Spawners, SpawnStep(s)
    PROVE  Entry
<1> USE DEF boardVars, board, Goes
<1>1. CASE CreateRun(s)
  <2>1. Promised!Found(Spawned)
    BY <1>1 DEF CreateRun, Promised!Found
  <2> QED BY <2>1 DEF Entry, Promised!Next, Workers
<1>2. CASE StartResume(s)
  BY <1>2 DEF StartResume, Entry, Untouched
<1>3. CASE WriteProtocols(s)
  BY <1>3 DEF WriteProtocols, LaunchThreads, Entry, Untouched
<1>4. CASE ProtocolsFail(s)
  BY <1>4 DEF ProtocolsFail, Entry, Untouched
<1>5. CASE FinishLaunch(s)
  BY <1>5 DEF FinishLaunch, Entry, Untouched
<1>6. CASE SpawnCrashes(s)
  BY <1>6 DEF SpawnCrashes, Entry, Untouched
<1>7. ASSUME NEW w \in Spawned, KeepPane(s, w) PROVE Entry
  BY <1>7 DEF KeepPane, Entry, Untouched
<1>8. ASSUME NEW w \in Spawned, MakeTree(s, w) PROVE Entry
  BY <1>8 DEF MakeTree, Entry, Untouched
<1>9. ASSUME NEW w \in Spawned, RecordTree(s, w) PROVE Entry
  BY <1>9 DEF RecordTree, Entry, Untouched
<1>10. ASSUME NEW w \in Spawned, RunSetup(s, w) PROVE Entry
  BY <1>10 DEF RunSetup, Entry, Untouched
<1>11. ASSUME NEW w \in Spawned, MakeWorkspace(s, w) PROVE Entry
  BY <1>11 DEF MakeWorkspace, Entry, Untouched
<1>12. ASSUME NEW w \in Spawned, RecordPane(s, w) PROVE Entry
  <2>1. step[s][w] = "record_pane"
    BY <1>12 DEF RecordPane
  <2>2. life[w] # "absent"
    BY <2>1 DEF Typed, Phased, Begun, Allocating
  <2>3. Promised!House(w, hand[s][w])
    BY <1>12, <2>1, <2>2, HandIsFree DEF RecordPane, Promised!House
  <2> QED BY <2>1, <2>3, HandIsFree DEF Entry, Promised!Next, Workers
<1>13. ASSUME NEW w \in Spawned, AllocateFails(s, w) PROVE Entry
  <2>1. sphase[s] # "off"
    BY <1>13 DEF AllocateFails, Picks, Typed, Phased, Allocating
  <2>2. runLife # "none" /\ life[w] # "absent"
    BY <2>1 DEF Typed, Begun
  <2>3. life' \in {life, [life EXCEPT ![w] = "failed"]} /\ UNCHANGED <<runLife, paneOf>>
    BY <1>13 DEF AllocateFails
  <2>4. DOMAIN life' = Workers /\ \A v \in Workers :
            life'[v] = life[v] \/ (life[v] # "absent" /\ life'[v] \in TerminalLives)
    BY <2>2, <2>3 DEF Typed, TypeOK, BoardTypeOK, TerminalLives
  <2> QED BY <2>2, <2>3, <2>4, Settles
<1>14. ASSUME NEW w \in Spawned, ReadPane(s, w) PROVE Entry
  BY <1>14 DEF ReadPane, Entry, Untouched
<1>15. ASSUME NEW w \in Spawned, LookAtPane(s, w) PROVE Entry
  BY <1>15 DEF LookAtPane, Entry, Untouched
<1>16. ASSUME NEW w \in Spawned, LaunchAgent(s, w) PROVE Entry
  BY <1>16 DEF LaunchAgent, Entry, Untouched
<1>17. ASSUME NEW w \in Spawned, BriefWorker(s, w) PROVE Entry
  BY <1>17 DEF BriefWorker, Entry, Untouched
<1>18. ASSUME NEW w \in Spawned, LaunchFails(s, w) PROVE Entry
  BY <1>18 DEF LaunchFails, Entry, Untouched
<1>19. ASSUME NEW w \in Spawned, Checkpoint(s, w) PROVE Entry
  <2>1. runLife # "none"
    BY <1>19 DEF Checkpoint, Typed, Phased, Begun, Allocating
  <2> QED BY <1>19, <2>1, PendingResolves DEF Checkpoint, Workers
<1>20. ASSUME NEW w \in Spawned, RecordFailure(s, w) PROVE Entry
  <2>1. runLife # "none"
    BY <1>20 DEF RecordFailure, Typed, Phased, Begun, Allocating
  <2> QED BY <1>20, <2>1, PendingResolves DEF RecordFailure, Workers
<1> QED BY <1>1, <1>2, <1>3, <1>4, <1>5, <1>6, <1>7, <1>8, <1>9, <1>10,
          <1>11, <1>12, <1>13, <1>14, <1>15, <1>16, <1>17, <1>18, <1>19, <1>20
       DEF SpawnStep, Allocate, LaunchThread

(* Kills and events are of a run that has begun. *)
OfRuns == runLife = "none" => events = {} /\ \A k \in Killers : kphase[k] = "off"

(* Whatever is done to a run to come leaves it without events and kills. *)
LEMMA OfRunsStep ==
    ASSUME OfRuns, [Next]_vars
    PROVE  OfRuns'
<1> USE DEF boardVars, board
<1>1. ASSUME NEW s \in Spawners, SpawnStep(s), UNCHANGED killVars PROVE OfRuns'
  <2>1. UNCHANGED events /\ runLife' \in {runLife, "active"}
    BY <1>1 DEF SpawnStep, Allocate, LaunchThread, CreateRun, StartResume, WriteProtocols,
       LaunchThreads, ProtocolsFail, FinishLaunch, SpawnCrashes, KeepPane, MakeTree, RecordTree,
       RunSetup, MakeWorkspace, RecordPane, AllocateFails, ReadPane, LookAtPane, LaunchAgent,
       BriefWorker, LaunchFails, Checkpoint, RecordFailure
  <2> QED BY <1>1, <2>1 DEF OfRuns, killVars
<1>2. ASSUME NEW k \in Killers, KillStep(k) PROVE OfRuns'
  <2>1. runLife' \in {runLife, "ended"}
    BY <1>2 DEF KillStep, LoadActiveRun, LoadEndedRun, LoadWorker, Closes, CloseOwn,
       ReleaseAdopted, CloseMisses, PersistRun, PersistWorker, KillCrashes
  <2>2. CASE runLife # "none"
    BY <2>1, <2>2 DEF OfRuns
  <2>3. CASE kphase[k] # "off"
    BY <2>1, <2>3 DEF OfRuns
  <2>4. runLife # "none" \/ kphase[k] # "off"
    BY <1>2 DEF KillStep, LoadActiveRun, LoadEndedRun, LoadWorker, Closes, CloseOwn,
       ReleaseAdopted, CloseMisses, Does, PersistRun, PersistWorker, KillCrashes
  <2> QED BY <2>1, <2>2, <2>3, <2>4 DEF OfRuns
<1>3. ASSUME NEW x \in Adopters, AdoptStep(x), UNCHANGED killVars PROVE OfRuns'
  <2>1. UNCHANGED events /\ runLife' \in {runLife, "active"}
    BY <1>3 DEF AdoptStep, Bootstrap, SelectNew, SelectPending, Selects, Insert, InsertRefused,
       Recover, RecoverTooLate, PromptAdopted, PromptFails, ProtocolRefused, CompleteAdoption,
       FailAdoption, AdoptCrashes
  <2> QED BY <1>3, <2>1 DEF OfRuns, killVars
<1>4. ASSUME HookStep, UNCHANGED killVars PROVE OfRuns'
  <2>1. events' \in SUBSET events /\ runLife' \in {runLife, "ended"}
    BY <1>4 DEF HookStep, PaneExited, WorkspaceClosed, NotOfTheTeam, GodGone, HookMisses,
       TakesEvent, Marks, EndIfNoneLives
  <2> QED BY <1>4, <2>1 DEF OfRuns, killVars
<1>5. ASSUME HerdrMoves, UNCHANGED killVars PROVE OfRuns'
  BY <1>5 DEF HerdrMoves, AgentEndsTurn, AgentPrompted, PaneExits, GodPaneCloses, Emit, OfRuns,
     killVars
<1>6. CASE UNCHANGED vars
  BY <1>6 DEF vars, killVars, OfRuns
<1> QED BY <1>1, <1>2, <1>3, <1>4, <1>5, <1>6 DEF Next

(* A step of kill settles workers that are on the board, perhaps with their  *)
(* run, or touches nothing of the roster.                                    *)
LEMMA KillEnters ==
    ASSUME Typed, OfRuns, NEW k \in Killers, KillStep(k)
    PROVE  Entry
<1> USE DEF boardVars, board
<1>1. CASE LoadActiveRun(k)
  BY <1>1 DEF LoadActiveRun, Closes, Entry, Untouched
<1>2. CASE LoadEndedRun(k)
  BY <1>2 DEF LoadEndedRun, Closes, Entry, Untouched
<1>3. CASE PersistRun(k)
  <2>1. \A w \in Workers : w \in missed[k] => life[w] # "absent"
    BY DEF Typed, KillTargets
  <2>2. \A w \in Workers :
            life'[w] = life[w] \/ (life[w] # "absent" /\ life'[w] \in TerminalLives)
    BY <1>3, <2>1 DEF PersistRun, EndOf, TerminalLives
  <2>3. runLife' = "ended" /\ DOMAIN life' = Workers /\ UNCHANGED paneOf
    BY <1>3 DEF PersistRun
  <2>4. runLife # "none"
    BY <1>3 DEF PersistRun, OfRuns
  <2> QED BY <2>2, <2>3, <2>4, Settles
<1>4. CASE PersistWorker(k)
  <2>1. target[k] \in Workers /\ life[target[k]] # "absent"
    BY <1>4 DEF PersistWorker, Typed, KillTargets
  <2>2. runLife # "none"
    BY <2>1 DEF Typed, Begun
  <2>3. /\ DOMAIN life' = Workers
        /\ \A w \in Workers :
              life'[w] = life[w] \/ (life[w] # "absent" /\ life'[w] \in TerminalLives)
    BY <1>4, <2>1 DEF PersistWorker, EndOf, TerminalLives, Typed, TypeOK, BoardTypeOK
  <2>4. runLife' \in {runLife, "ended"} /\ UNCHANGED paneOf
    BY <1>4 DEF PersistWorker
  <2> QED BY <2>2, <2>3, <2>4, Settles
<1>5. CASE KillCrashes(k)
  BY <1>5 DEF KillCrashes, Entry, Untouched
<1>6. ASSUME NEW w \in Workers, LoadWorker(k, w) PROVE Entry
  BY <1>6 DEF LoadWorker, Closes, Entry, Untouched
<1>7. ASSUME NEW w \in Workers, CloseOwn(k, w) PROVE Entry
  BY <1>7 DEF CloseOwn, Entry, Untouched
<1>8. ASSUME NEW w \in Workers, ReleaseAdopted(k, w) PROVE Entry
  BY <1>8 DEF ReleaseAdopted, Entry, Untouched
<1>9. ASSUME NEW w \in Workers, CloseMisses(k, w) PROVE Entry
  BY <1>9 DEF CloseMisses, Entry, Untouched
<1> QED BY <1>1, <1>2, <1>3, <1>4, <1>5, <1>6, <1>7, <1>8, <1>9 DEF KillStep

(* A step of adopt founds a run around a worker, enters one, resolves one or *)
(* touches nothing of the roster.                                            *)
LEMMA AdoptEnters ==
    ASSUME Typed, NEW x \in Adopters, AdoptStep(x)
    PROVE  Entry
<1> USE BoardAssumption DEF boardVars, board, AdoptGoes
<1>1. CASE Insert(x)
  <2>1. /\ wanted[x] \in Adoptable /\ place[x] \in UserPanes /\ runLife # "none"
        /\ life[wanted[x]] = "absent" /\ ~InUse(place[x])
    BY <1>1 DEF Insert, Typed, AdoptAims, Begun
  <2>2. Promised!Join(wanted[x], place[x])
    BY <1>1, <2>1 DEF Insert, InUse, Promised!Join, Promised!Enters, Promised!Free
  <2> QED BY <2>1, <2>2 DEF Entry, Promised!Next, Workers, Places
<1>2. CASE InsertRefused(x)
  BY <1>2 DEF InsertRefused, Entry, Untouched
<1>3. CASE Recover(x)
  BY <1>3 DEF Recover, Entry, Untouched
<1>4. CASE RecoverTooLate(x)
  BY <1>4 DEF RecoverTooLate, Entry, Untouched
<1>5. CASE PromptAdopted(x)
  BY <1>5 DEF PromptAdopted, Entry, Untouched
<1>6. CASE PromptFails(x)
  BY <1>6 DEF PromptFails, Entry, Untouched
<1>7. CASE ProtocolRefused(x)
  BY <1>7 DEF ProtocolRefused, Entry, Untouched
<1>8. CASE CompleteAdoption(x)
  <2>1. wanted[x] \in Workers /\ runLife # "none"
    BY <1>8 DEF CompleteAdoption, Typed, AdoptAims, Begun, Workers
  <2> QED BY <1>8, <2>1, PendingResolves DEF CompleteAdoption
<1>9. CASE FailAdoption(x)
  <2>1. wanted[x] \in Workers /\ runLife # "none"
    BY <1>9 DEF FailAdoption, Typed, AdoptAims, Begun, Workers
  <2> QED BY <1>9, <2>1, PendingResolves DEF FailAdoption
<1>10. CASE AdoptCrashes(x)
  BY <1>10 DEF AdoptCrashes, Entry, Untouched
<1>11. ASSUME NEW a \in Adoptable, NEW p \in UserPanes, Bootstrap(x, a, p)
       PROVE  Entry
  <2>1. runLife = "none" /\ \A w \in Workers : life[w] = "absent" /\ paneOf[w] = None
    BY <1>11 DEF Bootstrap, Typed, Begun, PanesTyped
  <2>2. p # None
    BY DEF Places
  <2>3. Promised!FoundAround(a, p)
    BY <1>11, <2>1, <2>2
       DEF Bootstrap, Promised!FoundAround, Promised!Enters, Promised!Free, Workers
  <2> QED BY <2>3 DEF Entry, Promised!Next, Workers, Places
<1>12. ASSUME NEW a \in Adoptable, NEW p \in UserPanes, SelectNew(x, a, p)
       PROVE  Entry
  BY <1>12 DEF SelectNew, Selects, Entry, Untouched
<1>13. ASSUME NEW a \in Adoptable, NEW p \in UserPanes, SelectPending(x, a, p)
       PROVE  Entry
  BY <1>13 DEF SelectPending, Selects, Entry, Untouched
<1> QED BY <1>1, <1>2, <1>3, <1>4, <1>5, <1>6, <1>7, <1>8, <1>9, <1>10,
          <1>11, <1>12, <1>13
       DEF AdoptStep

(* A step of a hook settles one worker, perhaps with the run, or the run, or *)
(* touches nothing of the roster.                                            *)
LEMMA HookEnters ==
    ASSUME Typed, OfRuns, HookStep
    PROVE  Entry
<1> USE BoardAssumption DEF TakesEvent
<1>1. ASSUME NEW p \in Places, NEW to \in {"orphaned", "ended"}, Marks(p, to), UNCHANGED paneOf
      PROVE  Entry
  <2>1. PICK w \in At(p) : life' = [life EXCEPT ![w] = to] /\ EndIfNoneLives
    BY <1>1 DEF Marks
  <2>2. w \in Workers /\ paneOf[w] # None
    BY DEF At, Places
  <2>3. life[w] # "absent" /\ runLife # "none"
    BY <2>2 DEF Typed, PanesTyped, Begun
  <2>4. /\ DOMAIN life' = Workers
        /\ \A v \in Workers :
              life'[v] = life[v] \/ (life[v] # "absent" /\ life'[v] \in TerminalLives)
    BY <2>1, <2>3 DEF TerminalLives, Typed, TypeOK, BoardTypeOK
  <2>5. runLife' \in {runLife, "ended"}
    BY <2>1 DEF EndIfNoneLives
  <2> QED BY <1>1, <2>3, <2>4, <2>5, Settles
<1>2. ASSUME NEW p \in Places, PaneExited(p) PROVE Entry
  BY <1>1, <1>2 DEF PaneExited
<1>3. ASSUME NEW p \in Places, WorkspaceClosed(p) PROVE Entry
  BY <1>1, <1>3 DEF WorkspaceClosed
<1>4. ASSUME NEW p \in Places, NotOfTheTeam(p) PROVE Entry
  BY <1>4 DEF NotOfTheTeam, Entry, Untouched
<1>5. CASE GodGone
  <2>1. runLife # "none"
    BY <1>5 DEF GodGone, OfRuns
  <2> QED BY <1>5, <2>1, Settles DEF GodGone, Typed, TypeOK, BoardTypeOK
<1>6. ASSUME NEW e \in events, HookMisses(e) PROVE Entry
  BY <1>6 DEF HookMisses, Entry, Untouched
<1> QED BY <1>2, <1>3, <1>4, <1>5, <1>6 DEF HookStep

(* A move of Herdr's own touches nothing of the roster. *)
LEMMA HerdrEnters ==
    ASSUME HerdrMoves
    PROVE  Entry
<1> USE DEF board
<1>1. ASSUME NEW p \in Places, AgentEndsTurn(p) PROVE Entry
  BY <1>1 DEF AgentEndsTurn, Entry, Untouched
<1>2. ASSUME NEW p \in Places, AgentPrompted(p) PROVE Entry
  BY <1>2 DEF AgentPrompted, Entry, Untouched
<1>3. ASSUME NEW p \in Places, PaneExits(p) PROVE Entry
  BY <1>3 DEF PaneExits, Entry, Untouched
<1>4. CASE GodPaneCloses
  BY <1>4 DEF GodPaneCloses, Entry, Untouched
<1> QED BY <1>1, <1>2, <1>3, <1>4 DEF HerdrMoves

(***************************************************************************)
(* However spawns, resumes, kills, adoptions and hooks interleave, die and *)
(* act on what they read long ago, together they keep one roster: each     *)
(* step is one of its entries or none, and none of them is ever undone.    *)
(***************************************************************************)
THEOREM ImplementsRoster == Spec => KeepsRoster
<1>1. Init => Promised!Init
  BY DEF Init, BoardInit, Promised!Init
<1>2. Init => OfRuns
  BY DEF Init, BoardInit, KillInit, OfRuns
<1>3. Typed /\ Distinct /\ OfRuns /\ [Next]_vars => Entry
  <2>1. CASE UNCHANGED vars
    BY <2>1 DEF vars, boardVars, board, Entry, Untouched
  <2> QED BY <2>1, SpawnEnters, KillEnters, AdoptEnters, HookEnters, HerdrEnters DEF Next
<1> QED BY <1>1, <1>2, <1>3, OfRunsStep, DistinctInit, DistinctStep, TypedAlways, PTL
        DEF Spec, KeepsRoster, Promised!Spec, Entry, Untouched

-----------------------------------------------------------------------------
(* Launches behind the allocation. *)

(* At first there is no pane of spawn's. *)
LEMMA OrderedInit ==
    ASSUME Init PROVE Ordered
BY BoardAssumption
   DEF Init, BoardInit, SpawnInit, Ordered, Allotted, LaunchAfterAllocation,
       Workers, Places

(* Every step, and none, keeps launches behind the allocation. *)
LEMMA OrderedStep ==
    ASSUME Typed, Ordered, [Next]_vars
    PROVE  Ordered'
<1>1. CASE UNCHANGED vars
  BY <1>1 DEF Ordered, Allotted, Allocated, LaunchAfterAllocation,
              vars, boardVars, board, world, spawnVars
<1>2. ASSUME NEW s \in Spawners, SpawnStep(s) PROVE Ordered'
  BY <1>2, SpawnKeepsAllotted, SpawnKeepsLaunchAfterAllocation DEF Ordered
<1>3. ASSUME NEW k \in Killers, KillStep(k), UNCHANGED spawnVars PROVE Ordered'
  BY <1>3, KillKeepsAllotted, KillKeepsLaunchAfterAllocation DEF Ordered
<1>4. ASSUME NEW x \in Adopters, AdoptStep(x), UNCHANGED spawnVars PROVE Ordered'
  BY <1>4, AdoptKeepsAllotted, AdoptKeepsLaunchAfterAllocation DEF Ordered
<1>5. ASSUME HookStep, UNCHANGED spawnVars PROVE Ordered'
  BY <1>5, HookKeepsAllotted, HookKeepsLaunchAfterAllocation DEF Ordered
<1>6. ASSUME HerdrMoves, UNCHANGED spawnVars PROVE Ordered'
  BY <1>6, HerdrKeepsAllotted, HerdrKeepsLaunchAfterAllocation DEF Ordered
<1> QED BY <1>1, <1>2, <1>3, <1>4, <1>5, <1>6 DEF Next

(***************************************************************************)
(* No agent is in a pane of spawn's before each worker of the team has its *)
(* pane on the board or is terminal, even if spawns and resumes overlap    *)
(* and die.                                                                *)
(***************************************************************************)
THEOREM LaunchesOrdered == Spec => []LaunchAfterAllocation
<1>1. Ordered => LaunchAfterAllocation
  BY DEF Ordered
<1> QED BY <1>1, OrderedInit, OrderedStep, TypedAlways, PTL DEF Spec

-----------------------------------------------------------------------------
(* What a kill of the run has closed. *)

(* What a kill of the run is through with is closed, or known not to be. *)
Accounted ==
    \A k \in Killers : kphase[k] = "close" /\ target[k] = Everyone =>
        \A w \in Spawned : shown[k][w] # None /\ w \notin due[k] \cup missed[k] =>
            shown[k][w] \in Places /\ pane[shown[k][w]] = "closed"

(* What is closed stays so: Herdr uses no pane's name again. *)
Shuts == \A p \in Places : pane[p] = "closed" => pane'[p] = "closed"

(* A step of spawn or resume opens no closed pane. *)
LEMMA SpawnShuts ==
    ASSUME Typed, NEW s \in Spawners, SpawnStep(s)
    PROVE  Shuts
<1> USE BoardAssumption DEF Typed, TypeOK, BoardTypeOK, SpawnTypeOK, Shuts, boardVars, board, world,
        Goes, Takes, Places
<1>1. CASE CreateRun(s)
  BY <1>1 DEF CreateRun, StartsWith
<1>2. CASE StartResume(s)
  BY <1>2 DEF StartResume, StartsWith
<1>3. CASE WriteProtocols(s)
  BY <1>3 DEF WriteProtocols, LaunchThreads, Rests
<1>4. CASE ProtocolsFail(s)
  BY <1>4 DEF ProtocolsFail, Leaves
<1>5. CASE FinishLaunch(s)
  BY <1>5 DEF FinishLaunch, Leaves
<1>6. CASE SpawnCrashes(s)
  BY <1>6 DEF SpawnCrashes, Leaves
<1>7. ASSUME NEW w \in Spawned, KeepPane(s, w) PROVE Shuts
  BY <1>7 DEF KeepPane, PaneIsLive, Recorded, Rests
<1>8. ASSUME NEW w \in Spawned, MakeTree(s, w) PROVE Shuts
  BY <1>8 DEF MakeTree, Picks, Takes, Rests, HasCwd
<1>9. ASSUME NEW w \in Spawned, RecordTree(s, w) PROVE Shuts
  BY <1>9 DEF RecordTree
<1>10. ASSUME NEW w \in Spawned, RunSetup(s, w) PROVE Shuts
  BY <1>10 DEF RunSetup
<1>11. ASSUME NEW w \in Spawned, MakeWorkspace(s, w) PROVE Shuts
  BY <1>11 DEF MakeWorkspace, Picks, Takes, Rests
<1>12. ASSUME NEW w \in Spawned, RecordPane(s, w) PROVE Shuts
  BY <1>12 DEF RecordPane
<1>13. ASSUME NEW w \in Spawned, AllocateFails(s, w) PROVE Shuts
  BY <1>13 DEF AllocateFails, Leaves, Picks, Rests
<1>14. ASSUME NEW w \in Spawned, ReadPane(s, w) PROVE Shuts
  BY <1>14 DEF ReadPane
<1>15. ASSUME NEW w \in Spawned, LookAtPane(s, w) PROVE Shuts
  BY <1>15 DEF LookAtPane, AfterLook
<1>16. ASSUME NEW w \in Spawned, LaunchAgent(s, w) PROVE Shuts
  BY <1>16 DEF LaunchAgent, Open
<1>17. ASSUME NEW w \in Spawned, BriefWorker(s, w) PROVE Shuts
  BY <1>17 DEF BriefWorker, SubmitBrief, Takes
<1>18. ASSUME NEW w \in Spawned, LaunchFails(s, w) PROVE Shuts
  BY <1>18 DEF LaunchFails, Takes
<1>19. ASSUME NEW w \in Spawned, Checkpoint(s, w) PROVE Shuts
  BY <1>19 DEF Checkpoint, ResolvePending
<1>20. ASSUME NEW w \in Spawned, RecordFailure(s, w) PROVE Shuts
  BY <1>20 DEF RecordFailure, ResolvePending
<1> QED
  BY <1>1, <1>2, <1>3, <1>4, <1>5, <1>6, <1>7, <1>8, <1>9, <1>10, <1>11, <1>12, <1>13, <1>14,
     <1>15, <1>16, <1>17, <1>18, <1>19, <1>20 DEF SpawnStep, Allocate, LaunchThread

(* A step of kill opens no closed pane. *)
LEMMA KillShuts ==
    ASSUME Typed, NEW k \in Killers, KillStep(k)
    PROVE  Shuts
<1> USE BoardAssumption DEF Typed, TypeOK, BoardTypeOK, Shuts, KillAims, boardVars, board, world,
        Workers, Places
<1>1. CASE LoadActiveRun(k)
  BY <1>1 DEF LoadActiveRun, Closes
<1>2. CASE LoadEndedRun(k)
  BY <1>2 DEF LoadEndedRun, Closes
<1>3. CASE PersistRun(k)
  BY <1>3 DEF PersistRun, KillLeaves
<1>4. CASE PersistWorker(k)
  BY <1>4 DEF PersistWorker, KillLeaves
<1>5. CASE KillCrashes(k)
  BY <1>5 DEF KillCrashes, KillLeaves
<1>6. ASSUME NEW w \in Workers, LoadWorker(k, w) PROVE Shuts
  BY <1>6 DEF LoadWorker, Closes
<1>7. ASSUME NEW w \in Workers, CloseOwn(k, w) PROVE Shuts
  BY <1>7 DEF CloseOwn, Does, CloseWorkspace, Emit, Open
<1>8. ASSUME NEW w \in Workers, ReleaseAdopted(k, w) PROVE Shuts
  BY <1>8 DEF ReleaseAdopted, Does, Open
<1>9. ASSUME NEW w \in Workers, CloseMisses(k, w) PROVE Shuts
  BY <1>9 DEF CloseMisses, Does
<1> QED
  BY <1>1, <1>2, <1>3, <1>4, <1>5, <1>6, <1>7, <1>8, <1>9 DEF KillStep

(* A step of adopt opens no closed pane. *)
LEMMA AdoptShuts ==
    ASSUME Typed, NEW x \in Adopters, AdoptStep(x)
    PROVE  Shuts
<1> USE BoardAssumption DEF Typed, TypeOK, BoardTypeOK, Shuts, AdoptAims, boardVars, board, world,
        Places
<1>1. CASE Insert(x)
  BY <1>1 DEF Insert
<1>2. CASE InsertRefused(x)
  BY <1>2 DEF InsertRefused
<1>3. CASE Recover(x)
  BY <1>3 DEF Recover
<1>4. CASE RecoverTooLate(x)
  BY <1>4 DEF RecoverTooLate
<1>5. CASE PromptAdopted(x)
  BY <1>5 DEF PromptAdopted, SubmitBrief
<1>6. CASE PromptFails(x)
  BY <1>6 DEF PromptFails
<1>7. CASE ProtocolRefused(x)
  BY <1>7 DEF ProtocolRefused
<1>8. CASE CompleteAdoption(x)
  BY <1>8 DEF CompleteAdoption, ResolvePending
<1>9. CASE FailAdoption(x)
  BY <1>9 DEF FailAdoption, ResolvePending
<1>10. CASE AdoptCrashes(x)
  BY <1>10 DEF AdoptCrashes
<1>11. ASSUME NEW a \in Adoptable, NEW p \in UserPanes, Bootstrap(x, a, p)
       PROVE  Shuts
  BY <1>11 DEF Bootstrap
<1>12. ASSUME NEW a \in Adoptable, NEW p \in UserPanes, SelectNew(x, a, p)
       PROVE  Shuts
  BY <1>12 DEF SelectNew, Selects
<1>13. ASSUME NEW a \in Adoptable, NEW p \in UserPanes, SelectPending(x, a, p)
       PROVE  Shuts
  BY <1>13 DEF SelectPending, Selects
<1> QED
  BY <1>1, <1>2, <1>3, <1>4, <1>5, <1>6, <1>7, <1>8, <1>9, <1>10, <1>11, <1>12, <1>13 DEF
     AdoptStep

(* A step of a hook opens no closed pane. *)
LEMMA HookShuts ==
    ASSUME Typed, HookStep
    PROVE  Shuts
<1> USE DEF Shuts, TakesEvent, world
<1>1. ASSUME NEW p \in Places, PaneExited(p) PROVE Shuts
  BY <1>1 DEF PaneExited
<1>2. ASSUME NEW p \in Places, WorkspaceClosed(p) PROVE Shuts
  BY <1>2 DEF WorkspaceClosed
<1>3. ASSUME NEW p \in Places, NotOfTheTeam(p) PROVE Shuts
  BY <1>3 DEF NotOfTheTeam
<1>4. CASE GodGone
  BY <1>4 DEF GodGone
<1>5. ASSUME NEW e \in events, HookMisses(e) PROVE Shuts
  BY <1>5 DEF HookMisses
<1> QED
  BY <1>1, <1>2, <1>3, <1>4, <1>5 DEF HookStep

(* A move of Herdr's own opens no closed pane. *)
LEMMA HerdrShuts ==
    ASSUME Typed, HerdrMoves
    PROVE  Shuts
<1> USE DEF Typed, TypeOK, BoardTypeOK, Shuts, Open, world
<1>1. ASSUME NEW p \in Places, AgentEndsTurn(p) PROVE Shuts
  BY <1>1 DEF AgentEndsTurn
<1>2. ASSUME NEW p \in Places, AgentPrompted(p) PROVE Shuts
  BY <1>2 DEF AgentPrompted
<1>3. ASSUME NEW p \in Places, PaneExits(p) PROVE Shuts
  BY <1>3 DEF PaneExits
<1>4. CASE GodPaneCloses
  BY <1>4 DEF GodPaneCloses
<1> QED
  BY <1>1, <1>2, <1>3, <1>4 DEF HerdrMoves

(* A step of kill accounts for what it is through with. *)
LEMMA KillAccounted ==
    ASSUME Typed, Accounted, NEW k \in Killers, KillStep(k)
    PROVE  Accounted'
<1>0. Shuts
  BY KillShuts
<1> USE <1>0, BoardAssumption, KillAssumption
    DEF Typed, TypeOK, BoardTypeOK, KillTypeOK, PanesTyped, KillAims, Accounted, Shuts,
        boardVars, board, world, Workers, Places
<1>1. CASE LoadActiveRun(k)
  BY <1>1 DEF LoadActiveRun, Closes
<1>2. CASE LoadEndedRun(k)
  <2>1. /\ kphase' = [kphase EXCEPT ![k] = "close"]
        /\ target' = [target EXCEPT ![k] = Everyone]
        /\ shown' = [shown EXCEPT ![k] = Nothing]
        /\ due' = [due EXCEPT ![k] = {}]
        /\ UNCHANGED <<missed, pane>>
    BY <1>2 DEF LoadEndedRun, Closes
  <2>2. \A w \in Spawned : shown'[k][w] = None
    BY <2>1 DEF Nothing
  <2> QED BY <2>1, <2>2
<1>3. CASE PersistRun(k)
  BY <1>3 DEF PersistRun, KillLeaves
<1>4. CASE PersistWorker(k)
  BY <1>4 DEF PersistWorker, KillLeaves
<1>5. CASE KillCrashes(k)
  BY <1>5 DEF KillCrashes, KillLeaves
<1>6. ASSUME NEW w \in Workers, LoadWorker(k, w) PROVE Accounted'
  BY <1>6 DEF LoadWorker, Closes
<1>7. ASSUME NEW w \in Workers, CloseOwn(k, w) PROVE Accounted'
  BY <1>7 DEF CloseOwn, Does, CloseWorkspace, Emit, Open
<1>8. ASSUME NEW w \in Workers, ReleaseAdopted(k, w) PROVE Accounted'
  BY <1>8 DEF ReleaseAdopted, Does, Open
<1>9. ASSUME NEW w \in Workers, CloseMisses(k, w) PROVE Accounted'
  BY <1>9 DEF CloseMisses, Does
<1> QED
  BY <1>1, <1>2, <1>3, <1>4, <1>5, <1>6, <1>7, <1>8, <1>9 DEF KillStep

(* At first no kill is under way. *)
LEMMA AccountedInit ==
    ASSUME Init PROVE Accounted
BY DEF Init, KillInit, Accounted

(* Every step, and none, leaves the kills of the run accounted for. *)
LEMMA AccountedStep ==
    ASSUME Typed, Accounted, [Next]_vars
    PROVE  Accounted'
<1>1. CASE UNCHANGED vars
  BY <1>1 DEF Accounted, vars, boardVars, world, killVars
<1>2. ASSUME NEW k \in Killers, KillStep(k) PROVE Accounted'
  BY <1>2, KillAccounted
<1>3. ASSUME Shuts, UNCHANGED killVars PROVE Accounted'
  BY <1>3 DEF Accounted, Shuts, killVars
<1> QED
  BY <1>1, <1>2, <1>3, SpawnShuts, AdoptShuts, HookShuts, HerdrShuts DEF Next

(***************************************************************************)
(* However spawns, resumes, adoptions and hooks interleave with it, a kill *)
(* of the run that writes its result has closed each workspace it set out  *)
(* to close, or records the worker as failed.                              *)
(***************************************************************************)
THEOREM KillsAreAccounted == Spec => KillAccounts
<1> DEFINE Tells == \A k \in Killers : PersistRun(k) =>
                \A w \in Spawned : shown[k][w] # None => ~Open(shown[k][w]) \/ life'[w] = "failed"
<1>1. Typed /\ Accounted /\ [Next]_vars => [Tells]_vars
  <2> SUFFICES ASSUME Typed, Accounted,
                      NEW k \in Killers, PersistRun(k),
                      NEW w \in Spawned, shown[k][w] # None
               PROVE  ~Open(shown[k][w]) \/ life'[w] = "failed"
    OBVIOUS
  <2>1. kphase[k] = "close" /\ target[k] = Everyone /\ due[k] = {}
    BY DEF PersistRun
  <2>2. CASE w \in missed[k]
    BY <2>2 DEF PersistRun, Workers
  <2>3. CASE w \notin missed[k]
    BY <2>1, <2>3 DEF Accounted, Open
  <2> QED BY <2>2, <2>3
<1>2. Spec => [][Tells]_vars
  BY <1>1, AccountedInit, AccountedStep, TypedAlways, PTL DEF Spec
<1> QED BY <1>2 DEF KillAccounts

-----------------------------------------------------------------------------
(* Briefing, as long as resumes do not overlap. *)

Apart == "overlap" \notin Faults

(* Spawns and resumes follow each other. *)
OneSpawner ==
    \A s, t \in Spawners : sphase[s] # "off" /\ sphase[t] # "off" => s = t

(***************************************************************************)
(* A process works on workers that have no checkpoint, nor anybody but it  *)
(* to write one, and it knows their panes from the board.                  *)
(***************************************************************************)
Crewed ==
    /\ \A w \in Spawned : life[w] \in {"absent", "pending"} => point[w] # "briefed"
    /\ \A s \in Spawners :
        /\ todo[s] \subseteq crew[s]
        /\ sphase[s] = "allocate" =>
              \A w \in crew[s] : life[w] # "running" /\ point[w] # "briefed"
        /\ \A w \in Spawned :
              /\ step[s][w] \in Allocating => w \in todo[s]
              /\ step[s][w] \in {"start", "look", "launch", "brief", "checkpoint"} =>
                    point[w] # "briefed"
              /\ sphase[s] # "off" => copy[s].pane[w] = paneOf[w]
              /\ step[s][w] \in {"look", "launch", "brief", "checkpoint"} => hand[s][w] = paneOf[w]

(* No agent has been in the pane. *)
Bare(p) == pane[p] \in {"shell", "closed"}

(***************************************************************************)
(* What is to be launched has not been, neither a pane that spawn has just *)
(* made nor one that resume has found so; and a shell takes no brief.      *)
(***************************************************************************)
Unlaunched ==
    /\ \A p \in Panes : pane[p] \in {"unused", "shell"} => briefs[p] = 0
    /\ \A s \in Spawners, w \in Spawned :
        /\ step[s][w] \in {"record_pane", "launch"} => Bare(hand[s][w])
        /\ ~resuming[s] /\ sphase[s] = "allocate" /\ w \in crew[s] \ todo[s] => Bare(paneOf[w])
        /\ ~resuming[s] /\ step[s][w] = "start" => Bare(paneOf[w])

Launching == OneSpawner /\ Crewed /\ Unlaunched

(* Nobody else starts a turn of an agent that is not briefed. *)
Unprompted == Apart /\ "prompt" \notin Faults

(* An agent that works has its brief, and so has one whose checkpoint is due. *)
WorksBriefed ==
    /\ \A p \in Panes : pane[p] = "working" => briefs[p] > 0
    /\ \A s \in Spawners, w \in Spawned : step[s][w] = "checkpoint" => briefs[hand[s][w]] > 0
    /\ \A w \in Spawned : life[w] = "running" => paneOf[w] # None /\ briefs[paneOf[w]] > 0

(* An adoption prompts the agent in the pane of its worker. *)
AdoptsBriefed ==
    /\ \A x \in Adopters :
        /\ aphase[x] \in {"recover", "prompt", "complete", "failed"} =>
              paneOf[wanted[x]] = place[x]
        /\ aphase[x] = "complete" => briefs[place[x]] > 0
    /\ \A a \in Adoptable : life[a] = "running" => paneOf[a] # None /\ briefs[paneOf[a]] > 0

(* No agent ends its turn before its checkpoint is on the board. *)
Steadfast == Apart /\ "idle" \notin Faults

(* An agent at rest that is not known to have its brief has not got it. *)
RestsUnbriefed ==
    /\ \A w \in Spawned : /\ paneOf[w] # None /\ point[w] # "briefed"
                          /\ pane[paneOf[w]] = "idle"
                          => briefs[paneOf[w]] = 0
    /\ \A s \in Spawners, w \in Spawned : step[s][w] = "brief" => briefs[hand[s][w]] = 0

-----------------------------------------------------------------------------
(* What the other commands and Herdr do to spawn's workers and panes. *)

(* A pane may be closed, an agent ends its turn or somebody prompts it. *)
Moved(p) ==
    \/ pane'[p] = pane[p]
    \/ pane'[p] = "closed"
    \/ /\ pane[p] = "working" /\ pane'[p] = "idle"
       /\ "idle" \in Faults \/ \E w \in Workers : paneOf[w] = p /\ point[w] = "briefed"
    \/ pane[p] = "idle" /\ pane'[p] = "working" /\ "prompt" \in Faults

(* Nobody but spawn records a pane of its workers, briefs or resolves them. *)
Aside ==
    /\ UNCHANGED spawnVars
    /\ \A w \in Spawned : /\ paneOf'[w] = paneOf[w] /\ point'[w] = point[w]
                          /\ life'[w] = life[w] \/ life'[w] \in TerminalLives
    /\ \A p \in Panes : briefs'[p] = briefs[p] /\ Moved(p)

(* A step of kill leaves spawn's workers aside. *)
LEMMA KillAside ==
    ASSUME Typed, NEW k \in Killers, KillStep(k), UNCHANGED spawnVars
    PROVE  Aside
<1> USE BoardAssumption, KillAssumption
    DEF Typed, TypeOK, BoardTypeOK, KillTypeOK, KillAims, KillTargets, Aside, Moved, EndOf,
        TerminalLives, boardVars, board, world, Workers, Places
<1>1. CASE LoadActiveRun(k)
  BY <1>1 DEF LoadActiveRun, Closes
<1>2. CASE LoadEndedRun(k)
  BY <1>2 DEF LoadEndedRun, Closes
<1>3. CASE PersistRun(k)
  BY <1>3 DEF PersistRun, KillLeaves
<1>4. CASE PersistWorker(k)
  BY <1>4 DEF PersistWorker, KillLeaves
<1>5. CASE KillCrashes(k)
  BY <1>5 DEF KillCrashes, KillLeaves
<1>6. ASSUME NEW w \in Workers, LoadWorker(k, w) PROVE Aside
  BY <1>6 DEF LoadWorker, Closes
<1>7. ASSUME NEW w \in Workers, CloseOwn(k, w) PROVE Aside
  BY <1>7 DEF CloseOwn, Does, CloseWorkspace, Emit, Open
<1>8. ASSUME NEW w \in Workers, ReleaseAdopted(k, w) PROVE Aside
  BY <1>8 DEF ReleaseAdopted, Does, Open
<1>9. ASSUME NEW w \in Workers, CloseMisses(k, w) PROVE Aside
  BY <1>9 DEF CloseMisses, Does
<1> QED
  BY <1>1, <1>2, <1>3, <1>4, <1>5, <1>6, <1>7, <1>8, <1>9 DEF KillStep

(* A step of adopt leaves spawn's workers aside. *)
LEMMA AdoptAside ==
    ASSUME Typed, NEW x \in Adopters, AdoptStep(x), UNCHANGED spawnVars
    PROVE  Aside
<1> USE BoardAssumption
    DEF Typed, TypeOK, BoardTypeOK, AdoptTypeOK, AdoptAims, Aside, Moved, AdoptGoes,
        boardVars, board, world, Workers, Places
<1>1. CASE Insert(x)
  BY <1>1 DEF Insert
<1>2. CASE InsertRefused(x)
  BY <1>2 DEF InsertRefused
<1>3. CASE Recover(x)
  BY <1>3 DEF Recover
<1>4. CASE RecoverTooLate(x)
  BY <1>4 DEF RecoverTooLate
<1>5. CASE PromptAdopted(x)
  BY <1>5 DEF PromptAdopted, SubmitBrief
<1>6. CASE PromptFails(x)
  BY <1>6 DEF PromptFails
<1>7. CASE ProtocolRefused(x)
  BY <1>7 DEF ProtocolRefused
<1>8. CASE CompleteAdoption(x)
  BY <1>8 DEF CompleteAdoption, ResolvePending
<1>9. CASE FailAdoption(x)
  BY <1>9 DEF FailAdoption, ResolvePending
<1>10. CASE AdoptCrashes(x)
  BY <1>10 DEF AdoptCrashes
<1>11. ASSUME NEW a \in Adoptable, NEW p \in UserPanes, Bootstrap(x, a, p)
       PROVE  Aside
  BY <1>11 DEF Bootstrap
<1>12. ASSUME NEW a \in Adoptable, NEW p \in UserPanes, SelectNew(x, a, p)
       PROVE  Aside
  BY <1>12 DEF SelectNew, Selects
<1>13. ASSUME NEW a \in Adoptable, NEW p \in UserPanes, SelectPending(x, a, p)
       PROVE  Aside
  BY <1>13 DEF SelectPending, Selects
<1> QED
  BY <1>1, <1>2, <1>3, <1>4, <1>5, <1>6, <1>7, <1>8, <1>9, <1>10, <1>11, <1>12, <1>13 DEF
     AdoptStep

(* A step of a hook leaves spawn's workers aside. *)
LEMMA HookAside ==
    ASSUME Typed, HookStep, UNCHANGED spawnVars
    PROVE  Aside
<1> USE BoardAssumption
    DEF Typed, TypeOK, BoardTypeOK, Aside, Moved, TakesEvent, Marks, At, TerminalLives,
        boardVars, board, world, Workers, Places
<1>1. ASSUME NEW p \in Places, PaneExited(p) PROVE Aside
  BY <1>1 DEF PaneExited
<1>2. ASSUME NEW p \in Places, WorkspaceClosed(p) PROVE Aside
  BY <1>2 DEF WorkspaceClosed
<1>3. ASSUME NEW p \in Places, NotOfTheTeam(p) PROVE Aside
  BY <1>3 DEF NotOfTheTeam
<1>4. CASE GodGone
  BY <1>4 DEF GodGone
<1>5. ASSUME NEW e \in events, HookMisses(e) PROVE Aside
  BY <1>5 DEF HookMisses
<1> QED
  BY <1>1, <1>2, <1>3, <1>4, <1>5 DEF HookStep

(* A move of Herdr's own leaves spawn's workers aside. *)
LEMMA HerdrAside ==
    ASSUME Typed, HerdrMoves, UNCHANGED spawnVars
    PROVE  Aside
<1> USE BoardAssumption
    DEF Typed, TypeOK, BoardTypeOK, Aside, Moved, Open, boardVars, board, world, Workers, Places
<1>1. ASSUME NEW p \in Places, AgentEndsTurn(p) PROVE Aside
  BY <1>1 DEF AgentEndsTurn
<1>2. ASSUME NEW p \in Places, AgentPrompted(p) PROVE Aside
  BY <1>2 DEF AgentPrompted
<1>3. ASSUME NEW p \in Places, PaneExits(p) PROVE Aside
  BY <1>3 DEF PaneExits
<1>4. CASE GodPaneCloses
  BY <1>4 DEF GodPaneCloses
<1> QED
  BY <1>1, <1>2, <1>3, <1>4 DEF HerdrMoves

-----------------------------------------------------------------------------
(* What spawn and resume work on, one process at a time. *)

(* What the others do leaves the launches in order. *)
LEMMA AsideKeepsLaunching ==
    ASSUME Typed, Launching, Aside
    PROVE  Launching'
<1> USE BoardAssumption DEF Typed, TypeOK, BoardTypeOK, SpawnTypeOK, Aside, spawnVars, Workers
<1>1. OneSpawner'
  BY DEF Launching, OneSpawner
<1>2. Crewed'
  <2>1. \A w \in Spawned :
            /\ life'[w] \in {"absent", "pending", "running"} => life'[w] = life[w]
            /\ point'[w] = point[w] /\ paneOf'[w] = paneOf[w]
    BY DEF TerminalLives
  <2>2. \A s \in Spawners : crew[s] \subseteq Spawned
    OBVIOUS
  <2> QED BY <2>1, <2>2 DEF Launching, Crewed
<1>3. \A p \in Panes : /\ pane'[p] \in {"unused", "shell"} => pane[p] = pane'[p]
                       /\ Bare(p) => Bare(p)'
  BY DEF Moved, Bare
<1>4. \A w \in Spawned : paneOf'[w] = paneOf[w]
  OBVIOUS
<1>5. \A s \in Spawners, w \in Spawned :
         step[s][w] \in {"record_pane", "launch"} => hand[s][w] \in Panes
  OBVIOUS
<1>6. \A s \in Spawners, w \in Spawned :
         /\ sphase[s] = "allocate" /\ w \in crew[s] \ todo[s] => paneOf[w] \in Panes
         /\ step[s][w] = "start" => paneOf[w] \in Panes
  <2>1. \A s \in Spawners, w \in Spawned : step[s][w] = "start" => sphase[s] = "launch"
    BY DEF Phased, Allocating
  <2>2. \A s \in Spawners, w \in Spawned :
           /\ sphase[s] = "allocate" /\ w \in crew[s] \ todo[s] => copy[s].pane[w] # None
           /\ step[s][w] = "start" => copy[s].pane[w] # None
    BY <2>1 DEF Copied
  <2> QED BY <2>2 DEF Copied, PanesTyped
<1>7. Unlaunched'
  BY <1>3, <1>4, <1>5, <1>6 DEF Launching, Unlaunched
<1> QED BY <1>1, <1>2, <1>7 DEF Launching

(* A step of spawn or resume leaves one process at work. *)
LEMMA SpawnKeepsOneSpawner ==
    ASSUME Typed, Apart, OneSpawner, NEW s \in Spawners, SpawnStep(s)
    PROVE  OneSpawner'
<1> USE DEF Typed, TypeOK, SpawnTypeOK, Begun, Apart, OneSpawner
<1>1. CASE CreateRun(s)
  BY <1>1 DEF CreateRun, StartsWith
<1>2. CASE StartResume(s)
  BY <1>2 DEF StartResume, StartsWith
<1>3. CASE WriteProtocols(s)
  BY <1>3 DEF WriteProtocols, LaunchThreads, Rests
<1>4. CASE ProtocolsFail(s)
  BY <1>4 DEF ProtocolsFail, Leaves
<1>5. CASE FinishLaunch(s)
  BY <1>5 DEF FinishLaunch, Leaves
<1>6. CASE SpawnCrashes(s)
  BY <1>6 DEF SpawnCrashes, Leaves
<1>7. ASSUME NEW w \in Spawned, KeepPane(s, w) PROVE OneSpawner'
  BY <1>7 DEF KeepPane, PaneIsLive, Recorded, Rests
<1>8. ASSUME NEW w \in Spawned, MakeTree(s, w) PROVE OneSpawner'
  BY <1>8 DEF MakeTree, Picks, Takes, Rests, HasCwd
<1>9. ASSUME NEW w \in Spawned, RecordTree(s, w) PROVE OneSpawner'
  BY <1>9 DEF RecordTree
<1>10. ASSUME NEW w \in Spawned, RunSetup(s, w) PROVE OneSpawner'
  BY <1>10 DEF RunSetup
<1>11. ASSUME NEW w \in Spawned, MakeWorkspace(s, w) PROVE OneSpawner'
  BY <1>11 DEF MakeWorkspace, Picks, Takes, Rests
<1>12. ASSUME NEW w \in Spawned, RecordPane(s, w) PROVE OneSpawner'
  BY <1>12 DEF RecordPane
<1>13. ASSUME NEW w \in Spawned, AllocateFails(s, w) PROVE OneSpawner'
  BY <1>13 DEF AllocateFails, Leaves, Picks, Rests
<1>14. ASSUME NEW w \in Spawned, ReadPane(s, w) PROVE OneSpawner'
  BY <1>14 DEF ReadPane
<1>15. ASSUME NEW w \in Spawned, LookAtPane(s, w) PROVE OneSpawner'
  BY <1>15 DEF LookAtPane, AfterLook
<1>16. ASSUME NEW w \in Spawned, LaunchAgent(s, w) PROVE OneSpawner'
  BY <1>16 DEF LaunchAgent, Open
<1>17. ASSUME NEW w \in Spawned, BriefWorker(s, w) PROVE OneSpawner'
  BY <1>17 DEF BriefWorker, SubmitBrief, Takes
<1>18. ASSUME NEW w \in Spawned, LaunchFails(s, w) PROVE OneSpawner'
  BY <1>18 DEF LaunchFails, Takes
<1>19. ASSUME NEW w \in Spawned, Checkpoint(s, w) PROVE OneSpawner'
  BY <1>19 DEF Checkpoint, ResolvePending
<1>20. ASSUME NEW w \in Spawned, RecordFailure(s, w) PROVE OneSpawner'
  BY <1>20 DEF RecordFailure, ResolvePending
<1> QED
  BY <1>1, <1>2, <1>3, <1>4, <1>5, <1>6, <1>7, <1>8, <1>9, <1>10, <1>11, <1>12, <1>13, <1>14,
     <1>15, <1>16, <1>17, <1>18, <1>19, <1>20 DEF SpawnStep, Allocate, LaunchThread

(* While one process is at work no other has a step to take. *)
LEMMA OthersRest ==
    ASSUME Typed, OneSpawner, NEW s \in Spawners, sphase[s] # "off"
    PROVE  \A t \in Spawners : t # s =>
              sphase[t] = "off" /\ \A w \in Spawned : step[t][w] = "rest"
BY DEF Typed, TypeOK, SpawnTypeOK, Phased, Allocating, Steps, OneSpawner

(* A step of spawn or resume leaves a process to its own workers. *)
LEMMA SpawnKeepsCrewed ==
    ASSUME Typed, Apart, Launching, NEW s \in Spawners, SpawnStep(s)
    PROVE  Crewed'
<1> USE BoardAssumption
    DEF Typed, TypeOK, BoardTypeOK, SpawnTypeOK, Phased, Allocating, Begun, PanesTyped, Apart,
        Launching, OneSpawner, Crewed, boardVars, board, Workers, Goes, Takes, Refresh
<1>0. sphase[s] # "off" => \A t \in Spawners : t # s =>
          sphase[t] = "off" /\ \A w \in Spawned : step[t][w] = "rest"
  BY OthersRest
<1>1. CASE CreateRun(s)
  BY <1>1 DEF CreateRun, StartsWith
<1>2. CASE StartResume(s)
  BY <1>2 DEF StartResume, StartsWith
<1>3. CASE WriteProtocols(s)
  BY <1>3 DEF WriteProtocols, LaunchThreads, Rests
<1>4. CASE ProtocolsFail(s)
  BY <1>4 DEF ProtocolsFail, Leaves
<1>5. CASE FinishLaunch(s)
  BY <1>5 DEF FinishLaunch, Leaves
<1>6. CASE SpawnCrashes(s)
  BY <1>6 DEF SpawnCrashes, Leaves
<1>7. ASSUME NEW w \in Spawned, KeepPane(s, w) PROVE Crewed'
  BY <1>7 DEF KeepPane, PaneIsLive, Recorded, Rests
<1>8. ASSUME NEW w \in Spawned, MakeTree(s, w) PROVE Crewed'
  BY <1>8 DEF MakeTree, Picks, Takes, Rests, HasCwd
<1>9. ASSUME NEW w \in Spawned, RecordTree(s, w) PROVE Crewed'
  BY <1>9 DEF RecordTree
<1>10. ASSUME NEW w \in Spawned, RunSetup(s, w) PROVE Crewed'
  BY <1>10 DEF RunSetup
<1>11. ASSUME NEW w \in Spawned, MakeWorkspace(s, w) PROVE Crewed'
  BY <1>11 DEF MakeWorkspace, Picks, Takes, Rests
<1>12. ASSUME NEW w \in Spawned, RecordPane(s, w) PROVE Crewed'
  <2>1. /\ step[s][w] = "record_pane" /\ sphase[s] = "allocate"
        /\ step' = [step EXCEPT ![s][w] = "rest"]
        /\ paneOf' = [paneOf EXCEPT ![w] = hand[s][w]]
        /\ point' = [point EXCEPT ![w] = "ready"]
        /\ todo' = [todo EXCEPT ![s] = @ \ {w}]
        /\ UNCHANGED <<life, sphase, crew, hand>>
        /\ copy' = [copy EXCEPT ![s] = [pane |-> [v \in Spawned |-> paneOf'[v]], tree |-> treeOf']]
    BY <1>12 DEF RecordPane
  <2>2. \A t \in Spawners : t # s =>
            sphase[t] = "off" /\ \A v \in Spawned : step[t][v] = "rest"
    BY <1>0, <2>1
  <2>3. \A v \in Spawned :
            step[s][v] \notin {"start", "look", "launch", "brief", "checkpoint"}
    BY <2>1
  <2>4. \A t \in Spawners, v \in Spawned : step'[t][v] # "rest" =>
            t = s /\ v # w /\ step'[t][v] = step[t][v]
    BY <2>1, <2>2
  <2>5. \A v \in Spawned : copy'[s].pane[v] = paneOf'[v]
    BY <2>1
  <2>6. \A v \in Spawned : point'[v] = IF v = w THEN "ready" ELSE point[v]
    BY <2>1
  <2>7. \A t \in Spawners : todo'[t] \subseteq crew'[t]
    BY <2>1
  <2>8. \A t \in Spawners : sphase'[t] = "allocate" =>
            \A v \in crew'[t] : life'[v] # "running" /\ point'[v] # "briefed"
    BY <2>1, <2>6
  <2>9. \A t \in Spawners, v \in Spawned : step'[t][v] \in Allocating => v \in todo'[t]
    BY <2>1, <2>4
  <2>10. \A t \in Spawners, v \in Spawned : sphase'[t] # "off" => copy'[t].pane[v] = paneOf'[v]
    BY <2>1, <2>2, <2>5
  <2> QED BY <2>1, <2>3, <2>4, <2>6, <2>7, <2>8, <2>9, <2>10
<1>13. ASSUME NEW w \in Spawned, AllocateFails(s, w) PROVE Crewed'
  BY <1>13 DEF AllocateFails, Leaves, Picks, Rests
<1>14. ASSUME NEW w \in Spawned, ReadPane(s, w) PROVE Crewed'
  <2>1. /\ step[s][w] = "start" /\ sphase[s] = "launch"
        /\ step' = [step EXCEPT ![s][w] = IF resuming[s] THEN "look" ELSE "launch"]
        /\ hand' = [hand EXCEPT ![s][w] = copy[s].pane[w]]
        /\ UNCHANGED <<life, point, paneOf, sphase, crew, todo, copy>>
    BY <1>14 DEF ReadPane
  <2>2. copy[s].pane[w] = paneOf[w] /\ point[w] # "briefed"
    BY <2>1
  <2>3. \A t \in Spawners, v \in Spawned :
            t # s \/ v # w => step'[t][v] = step[t][v] /\ hand'[t][v] = hand[t][v]
    BY <2>1
  <2>4. step'[s][w] \in {"look", "launch"} /\ hand'[s][w] = paneOf[w]
    BY <2>1, <2>2
  <2> QED BY <2>1, <2>2, <2>3, <2>4
<1>15. ASSUME NEW w \in Spawned, LookAtPane(s, w) PROVE Crewed'
  <2>1. /\ step[s][w] = "look"
        /\ step' = [step EXCEPT ![s][w] = AfterLook[pane[hand[s][w]]]]
        /\ UNCHANGED <<life, point, paneOf, sphase, crew, todo, copy, hand>>
    BY <1>15 DEF LookAtPane
  <2>2. \A t \in Spawners, v \in Spawned : t # s \/ v # w => step'[t][v] = step[t][v]
    BY <2>1
  <2>3. pane[hand[s][w]] \in {"closed", "shell", "idle", "working"}
    BY <2>1 DEF Made, Places
  <2>4. step'[s][w] \in {"failed", "launch", "brief", "checkpoint"}
    BY <2>1, <2>3 DEF AfterLook
  <2> QED BY <2>1, <2>2, <2>4
<1>16. ASSUME NEW w \in Spawned, LaunchAgent(s, w) PROVE Crewed'
  BY <1>16 DEF LaunchAgent, Open
<1>17. ASSUME NEW w \in Spawned, BriefWorker(s, w) PROVE Crewed'
  BY <1>17 DEF BriefWorker, SubmitBrief, Takes
<1>18. ASSUME NEW w \in Spawned, LaunchFails(s, w) PROVE Crewed'
  BY <1>18 DEF LaunchFails, Takes
<1>19. ASSUME NEW w \in Spawned, Checkpoint(s, w) PROVE Crewed'
  <2>1. /\ step[s][w] = "checkpoint" /\ sphase[s] = "launch"
        /\ step' = [step EXCEPT ![s][w] = "rest"]
        /\ point' = [point EXCEPT ![w] = "briefed"]
        /\ life' = [life EXCEPT ![w] = IF @ = "pending" THEN "running" ELSE @]
        /\ UNCHANGED <<paneOf, sphase, crew, todo, hand>>
        /\ copy' = [copy EXCEPT ![s] = [pane |-> [v \in Spawned |-> paneOf'[v]], tree |-> treeOf']]
    BY <1>19 DEF Checkpoint, ResolvePending
  <2>2. \A t \in Spawners : t # s =>
            sphase[t] = "off" /\ \A v \in Spawned : step[t][v] = "rest"
    BY <1>0, <2>1
  <2>3. \A t \in Spawners, v \in Spawned : step'[t][v] # "rest" =>
            t = s /\ v # w /\ step'[t][v] = step[t][v]
    BY <2>1, <2>2
  <2>4. life[w] # "absent"
    BY <2>1
  <2>5. \A v \in Spawned : /\ v # w => life'[v] = life[v] /\ point'[v] = point[v]
                           /\ life'[w] \notin {"absent", "pending"}
    BY <2>1, <2>4
  <2>6. \A v \in Spawned : life'[v] \in {"absent", "pending"} => point'[v] # "briefed"
    BY <2>5
  <2>7. \A t \in Spawners : sphase'[t] # "allocate"
    BY <2>1, <2>2
  <2>8. \A t \in Spawners, v \in Spawned : sphase'[t] # "off" => copy'[t].pane[v] = paneOf'[v]
    BY <2>1, <2>2
  <2> QED BY <2>1, <2>3, <2>5, <2>6, <2>7, <2>8
<1>20. ASSUME NEW w \in Spawned, RecordFailure(s, w) PROVE Crewed'
  BY <1>20 DEF RecordFailure, ResolvePending
<1> QED
  BY <1>1, <1>2, <1>3, <1>4, <1>5, <1>6, <1>7, <1>8, <1>9, <1>10, <1>11, <1>12, <1>13, <1>14,
     <1>15, <1>16, <1>17, <1>18, <1>19, <1>20 DEF SpawnStep, Allocate, LaunchThread

(* A thread has taken the pane of its worker. *)
Held == {"look", "launch", "brief", "checkpoint"}

(* A worker whose pane a thread is at, or will be, has it to itself. *)
LEMMA HandsApart ==
    ASSUME Typed, Distinct, Launching, NEW s \in Spawners, NEW w \in Spawned, step[s][w] \in Held
    PROVE  /\ sphase[s] = "launch" /\ hand[s][w] = paneOf[w] /\ point[w] # "briefed"
           /\ hand[s][w] \in Panes
           /\ \A v \in Spawned : v # w => paneOf[v] # hand[s][w]
<1>1. sphase[s] = "launch"
  BY DEF Typed, Phased, Allocating, Held
<1>2. hand[s][w] = paneOf[w] /\ point[w] # "briefed"
  BY <1>1 DEF Launching, Crewed, Held
<1>3. copy[s].pane[w] = paneOf[w]
  BY <1>1 DEF Launching, Crewed
<1>4. paneOf[w] \in Panes
  BY <1>1, <1>3 DEF Typed, Copied, PanesTyped, Held
<1>5. \A v \in Spawned : v # w => paneOf[v] # paneOf[w]
  BY <1>4, BoardAssumption DEF Distinct, OnePanePerWorker, Workers, Places
<1> QED BY <1>1, <1>2, <1>4, <1>5

(* A step of spawn or resume launches no agent beside another. *)
LEMMA SpawnKeepsUnlaunched ==
    ASSUME Typed, Apart, Distinct, Launching, NEW s \in Spawners, SpawnStep(s)
    PROVE  Unlaunched'
<1>0. sphase[s] # "off" => \A t \in Spawners : t # s =>
          sphase[t] = "off" /\ \A w \in Spawned : step[t][w] = "rest"
  BY OthersRest DEF Launching
<1> USE BoardAssumption
    DEF Typed, TypeOK, BoardTypeOK, SpawnTypeOK, Phased, Allocating, Begun, PanesTyped, Apart,
        Launching, OneSpawner, Unlaunched, Bare, boardVars, board, world, Workers, Places,
        Goes, Takes
<1>1. CASE CreateRun(s)
  BY <1>1 DEF CreateRun, StartsWith
<1>2. CASE StartResume(s)
  BY <1>2 DEF StartResume, StartsWith
<1>3. CASE WriteProtocols(s)
  BY <1>3 DEF WriteProtocols, LaunchThreads, Rests
<1>4. CASE ProtocolsFail(s)
  BY <1>4 DEF ProtocolsFail, Leaves
<1>5. CASE FinishLaunch(s)
  BY <1>5 DEF FinishLaunch, Leaves
<1>6. CASE SpawnCrashes(s)
  BY <1>6 DEF SpawnCrashes, Leaves
<1>7. ASSUME NEW w \in Spawned, KeepPane(s, w) PROVE Unlaunched'
  BY <1>7 DEF KeepPane, PaneIsLive, Recorded, Rests
<1>8. ASSUME NEW w \in Spawned, MakeTree(s, w) PROVE Unlaunched'
  BY <1>8 DEF MakeTree, Picks, Takes, Rests, HasCwd
<1>9. ASSUME NEW w \in Spawned, RecordTree(s, w) PROVE Unlaunched'
  BY <1>9 DEF RecordTree
<1>10. ASSUME NEW w \in Spawned, RunSetup(s, w) PROVE Unlaunched'
  BY <1>10 DEF RunSetup
<1>11. ASSUME NEW w \in Spawned, MakeWorkspace(s, w) PROVE Unlaunched'
  BY <1>11 DEF MakeWorkspace, Picks, Takes, Rests
<1>12. ASSUME NEW w \in Spawned, RecordPane(s, w) PROVE Unlaunched'
  BY <1>12 DEF RecordPane
<1>13. ASSUME NEW w \in Spawned, AllocateFails(s, w) PROVE Unlaunched'
  BY <1>13 DEF AllocateFails, Leaves, Picks, Rests
<1>14. ASSUME NEW w \in Spawned, ReadPane(s, w) PROVE Unlaunched'
  <2>1. /\ step[s][w] = "start" /\ sphase[s] = "launch"
        /\ step' = [step EXCEPT ![s][w] = IF resuming[s] THEN "look" ELSE "launch"]
        /\ hand' = [hand EXCEPT ![s][w] = copy[s].pane[w]]
        /\ UNCHANGED <<pane, briefs, paneOf, sphase, resuming, crew, todo>>
    BY <1>14 DEF ReadPane
  <2>2. copy[s].pane[w] = paneOf[w]
    BY <2>1 DEF Crewed
  <2>3. \A t \in Spawners, v \in Spawned :
            t # s \/ v # w => step'[t][v] = step[t][v] /\ hand'[t][v] = hand[t][v]
    BY <2>1
  <2>4. /\ step'[s][w] = IF resuming[s] THEN "look" ELSE "launch"
        /\ hand'[s][w] = paneOf[w]
    BY <2>1, <2>2
  <2> QED BY <2>1, <2>3, <2>4
<1>15. ASSUME NEW w \in Spawned, LookAtPane(s, w) PROVE Unlaunched'
  <2>1. /\ step[s][w] = "look"
        /\ step' = [step EXCEPT ![s][w] = AfterLook[pane[hand[s][w]]]]
        /\ UNCHANGED <<pane, briefs, paneOf, sphase, resuming, crew, todo, hand>>
    BY <1>15 DEF LookAtPane
  <2>2. \A t \in Spawners, v \in Spawned : t # s \/ v # w => step'[t][v] = step[t][v]
    BY <2>1
  <2>3. pane[hand[s][w]] \in {"closed", "shell", "idle", "working"}
    BY <2>1 DEF Made
  <2>4. /\ step'[s][w] \in {"failed", "launch", "brief", "checkpoint"}
        /\ step'[s][w] = "launch" => pane[hand[s][w]] = "shell"
    BY <2>1, <2>3 DEF AfterLook
  <2> QED BY <2>1, <2>2, <2>4
<1>16. ASSUME NEW w \in Spawned, LaunchAgent(s, w) PROVE Unlaunched'
  <2> DEFINE p == hand[s][w]
  <2>1. /\ step[s][w] = "launch"
        /\ \E next \in {"brief", "failed"} : step' = [step EXCEPT ![s][w] = next]
        /\ pane' = [pane EXCEPT ![p] = IF @ = "shell" THEN "idle" ELSE "working"]
        /\ UNCHANGED <<briefs, paneOf, sphase, resuming, crew, todo, hand>>
    BY <1>16 DEF LaunchAgent
  <2>2. /\ sphase[s] = "launch" /\ p \in Panes
        /\ \A v \in Spawned : v # w => paneOf[v] # p
    BY <2>1, HandsApart DEF Held
  <2>3. \A t \in Spawners : t # s =>
            sphase[t] = "off" /\ \A v \in Spawned : step[t][v] = "rest"
    BY <1>0, <2>2
  <2>4. /\ \A t \in Spawners, v \in Spawned : t # s \/ v # w => step'[t][v] = step[t][v]
        /\ step'[s][w] \in {"brief", "failed"}
    BY <2>1
  <2>5. \A q \in Panes : /\ q # p => pane'[q] = pane[q]
                         /\ pane'[p] \in {"idle", "working"}
    BY <2>1, <2>2
  <2>6. \A q \in Panes : pane'[q] \in {"unused", "shell"} => briefs'[q] = 0
    BY <2>1, <2>5
  <2>7. \A t \in Spawners, v \in Spawned : step'[t][v] \in {"record_pane", "launch", "start"} =>
            t = s /\ v # w /\ step[s][v] = step'[t][v]
    <3> SUFFICES ASSUME NEW t \in Spawners, NEW v \in Spawned,
                        step'[t][v] \in {"record_pane", "launch", "start"}
                 PROVE  t = s /\ v # w /\ step[s][v] = step'[t][v]
      OBVIOUS
    <3>1. CASE t # s
      BY <2>3, <2>4, <3>1
    <3>2. CASE t = s
      BY <2>4, <3>2
    <3> QED BY <3>1, <3>2
  <2>8. \A t \in Spawners, v \in Spawned :
            step'[t][v] \in {"record_pane", "launch"} =>
                t = s /\ v # w /\ step[s][v] = "launch" /\ hand[s][v] # p
    <3> SUFFICES ASSUME NEW t \in Spawners, NEW v \in Spawned,
                        step'[t][v] \in {"record_pane", "launch"}
                 PROVE  t = s /\ v # w /\ step[s][v] = "launch" /\ hand[s][v] # p
      OBVIOUS
    <3>1. t = s /\ v # w /\ step[s][v] \in {"record_pane", "launch"}
      BY <2>7
    <3>2. step[s][v] = "launch"
      BY <2>2, <3>1
    <3>3. hand[s][v] = paneOf[v]
      BY <3>2, HandsApart DEF Held
    <3> QED BY <2>2, <3>1, <3>2, <3>3
  <2>9. \A t \in Spawners, v \in Spawned :
            step'[t][v] = "start" => t = s /\ v # w /\ step[s][v] = "start" /\ paneOf[v] # p
    BY <2>2, <2>7
  <2>10. \A v \in Spawned : step[s][v] = "start" => paneOf[v] \in Panes
    BY <2>2 DEF Copied
  <2>11. \A t \in Spawners : sphase'[t] # "allocate"
    BY <2>1, <2>2, <2>3
  <2> QED BY <2>1, <2>5, <2>6, <2>7, <2>8, <2>9, <2>10, <2>11
<1>17. ASSUME NEW w \in Spawned, BriefWorker(s, w) PROVE Unlaunched'
  BY <1>17 DEF BriefWorker, SubmitBrief, Takes
<1>18. ASSUME NEW w \in Spawned, LaunchFails(s, w) PROVE Unlaunched'
  BY <1>18 DEF LaunchFails, Takes
<1>19. ASSUME NEW w \in Spawned, Checkpoint(s, w) PROVE Unlaunched'
  BY <1>19 DEF Checkpoint, ResolvePending
<1>20. ASSUME NEW w \in Spawned, RecordFailure(s, w) PROVE Unlaunched'
  BY <1>20 DEF RecordFailure, ResolvePending
<1> QED
  BY <1>1, <1>2, <1>3, <1>4, <1>5, <1>6, <1>7, <1>8, <1>9, <1>10, <1>11, <1>12, <1>13, <1>14,
     <1>15, <1>16, <1>17, <1>18, <1>19, <1>20 DEF SpawnStep, Allocate, LaunchThread

-----------------------------------------------------------------------------
(* A running worker has its brief. *)

(* What the others do leaves working agents briefed. *)
LEMMA AsideKeepsWorksBriefed ==
    ASSUME Typed, Unprompted, Launching, WorksBriefed, Aside
    PROVE  WorksBriefed'
<1>1. \A w \in Spawned : /\ paneOf'[w] = paneOf[w] /\ paneOf[w] \in Panes \cup {None}
                         /\ life'[w] = "running" => life[w] = "running"
  BY DEF Typed, PanesTyped, Aside, TerminalLives
<1>2. \A p \in Panes : /\ briefs'[p] = briefs[p]
                       /\ pane'[p] = "working" => pane[p] = "working"
  BY DEF Aside, Moved, Unprompted
<1>3. UNCHANGED <<step, hand>>
  BY DEF Aside, spawnVars
<1>4. \A s \in Spawners, w \in Spawned : step[s][w] = "checkpoint" => hand[s][w] \in Panes
  <2> SUFFICES ASSUME NEW s \in Spawners, NEW w \in Spawned, step[s][w] = "checkpoint"
               PROVE  hand[s][w] \in Panes
    OBVIOUS
  <2>1. sphase[s] = "launch" /\ copy[s].pane[w] # None
    BY DEF Typed, Phased, Copied, Allocating
  <2>2. hand[s][w] = copy[s].pane[w] /\ copy[s].pane[w] = paneOf[w]
    BY <2>1 DEF Launching, Crewed
  <2> QED BY <2>1, <2>2, <1>1
<1> QED BY <1>1, <1>2, <1>3, <1>4 DEF WorksBriefed

(* A step of spawn or resume leaves working agents briefed. *)
LEMMA SpawnKeepsWorksBriefed ==
    ASSUME Typed, Apart, Distinct, Launching, WorksBriefed, NEW s \in Spawners, SpawnStep(s)
    PROVE  WorksBriefed'
<1> USE BoardAssumption
    DEF Typed, TypeOK, BoardTypeOK, SpawnTypeOK, PanesTyped, boardVars, board, world, Workers,
        Places, Lives, TerminalLives, Goes, Takes, WorksBriefed
<1>1. CASE CreateRun(s)
  BY <1>1 DEF CreateRun, StartsWith
<1>2. CASE StartResume(s)
  BY <1>2 DEF StartResume, StartsWith
<1>3. CASE WriteProtocols(s)
  BY <1>3 DEF WriteProtocols, LaunchThreads, Rests
<1>4. CASE ProtocolsFail(s)
  BY <1>4 DEF ProtocolsFail, Leaves
<1>5. CASE FinishLaunch(s)
  BY <1>5 DEF FinishLaunch, Leaves
<1>6. CASE SpawnCrashes(s)
  BY <1>6 DEF SpawnCrashes, Leaves
<1>7. ASSUME NEW w \in Spawned, KeepPane(s, w) PROVE WorksBriefed'
  BY <1>7 DEF KeepPane, PaneIsLive, Recorded, Rests
<1>8. ASSUME NEW w \in Spawned, MakeTree(s, w) PROVE WorksBriefed'
  BY <1>8 DEF MakeTree, Picks, Takes, Rests, HasCwd
<1>9. ASSUME NEW w \in Spawned, RecordTree(s, w) PROVE WorksBriefed'
  BY <1>9 DEF RecordTree
<1>10. ASSUME NEW w \in Spawned, RunSetup(s, w) PROVE WorksBriefed'
  BY <1>10 DEF RunSetup
<1>11. ASSUME NEW w \in Spawned, MakeWorkspace(s, w) PROVE WorksBriefed'
  BY <1>11 DEF MakeWorkspace, Picks, Takes, Rests
<1>12. ASSUME NEW w \in Spawned, RecordPane(s, w) PROVE WorksBriefed'
  <2>1. /\ step[s][w] = "record_pane" /\ sphase[s] = "allocate"
        /\ step' = [step EXCEPT ![s][w] = "rest"]
        /\ paneOf' = [paneOf EXCEPT ![w] = hand[s][w]]
        /\ UNCHANGED <<life, pane, briefs, hand>>
    BY <1>12 DEF RecordPane, Phased, Allocating
  <2>2. life[w] # "running"
    BY <2>1 DEF Launching, Crewed, Allocating
  <2>3. \A v \in Spawned : v # w => paneOf'[v] = paneOf[v]
    BY <2>1
  <2>4. \A t \in Spawners, v \in Spawned :
            step'[t][v] = "checkpoint" => step[t][v] = "checkpoint"
    BY <2>1
  <2> QED BY <2>1, <2>2, <2>3, <2>4
<1>13. ASSUME NEW w \in Spawned, AllocateFails(s, w) PROVE WorksBriefed'
  BY <1>13 DEF AllocateFails, Leaves, Picks, Rests
<1>14. ASSUME NEW w \in Spawned, ReadPane(s, w) PROVE WorksBriefed'
  BY <1>14 DEF ReadPane
<1>15. ASSUME NEW w \in Spawned, LookAtPane(s, w) PROVE WorksBriefed'
  <2>1. /\ step[s][w] = "look"
        /\ step' = [step EXCEPT ![s][w] = AfterLook[pane[hand[s][w]]]]
        /\ UNCHANGED <<life, point, pane, briefs, paneOf, hand>>
    BY <1>15 DEF LookAtPane
  <2>2. \A t \in Spawners, v \in Spawned : t # s \/ v # w => step'[t][v] = step[t][v]
    BY <2>1
  <2>3. pane[hand[s][w]] \in {"closed", "shell", "idle", "working"}
    BY <2>1 DEF Made
  <2>4. /\ step'[s][w] \in {"failed", "launch", "brief", "checkpoint"}
        /\ step'[s][w] = "checkpoint" => pane[hand[s][w]] = "working"
    BY <2>1, <2>3 DEF AfterLook
  <2>5. hand[s][w] \in Panes /\ hand[s][w] = paneOf[w] /\ point[w] # "briefed"
    BY <2>1, HandsApart DEF Held
  <2> QED BY <2>1, <2>2, <2>4, <2>5 DEF WorksBriefed
<1>16. ASSUME NEW w \in Spawned, LaunchAgent(s, w) PROVE WorksBriefed'
  <2> DEFINE p == hand[s][w]
  <2>1. /\ step[s][w] = "launch" /\ pane[p] \in {"shell", "idle", "working"}
        /\ \E next \in {"brief", "failed"} : step' = [step EXCEPT ![s][w] = next]
        /\ pane' = [pane EXCEPT ![p] = IF @ = "shell" THEN "idle" ELSE "working"]
        /\ UNCHANGED <<life, briefs, paneOf, hand>>
    BY <1>16 DEF LaunchAgent, Open
  <2>2. p \in Panes /\ pane[p] = "shell"
    BY <2>1 DEF Launching, Unlaunched, Bare
  <2>3. \A q \in Panes : pane'[q] = "working" => pane[q] = "working"
    BY <2>1, <2>2
  <2>4. \A t \in Spawners, v \in Spawned :
            step'[t][v] = "checkpoint" => step[t][v] = "checkpoint"
    BY <2>1
  <2> QED BY <2>1, <2>3, <2>4
<1>17. ASSUME NEW w \in Spawned, BriefWorker(s, w) PROVE WorksBriefed'
  <2> DEFINE p == hand[s][w]
  <2>1. /\ step[s][w] = "brief"
        /\ \E next \in {"checkpoint", "failed"} : step' = [step EXCEPT ![s][w] = next]
        /\ pane' = [pane EXCEPT ![p] = "working"]
        /\ briefs' = [briefs EXCEPT ![p] = IF @ < 2 THEN @ + 1 ELSE @]
        /\ UNCHANGED <<life, paneOf, hand>>
    BY <1>17 DEF BriefWorker, SubmitBrief
  <2>2. p \in Panes
    BY <2>1
  <2>3. /\ \A q \in Panes : briefs[q] > 0 => briefs'[q] > 0
        /\ \A q \in Panes : q # p => pane'[q] = pane[q]
        /\ briefs'[p] > 0
    <3>1. briefs[p] \in 0..2 /\ briefs'[p] = IF briefs[p] < 2 THEN briefs[p] + 1 ELSE briefs[p]
      BY <2>1, <2>2
    <3>2. briefs'[p] > 0
      BY ONLY <3>1, SMT
    <3>3. \A q \in Panes : q # p => briefs'[q] = briefs[q] /\ pane'[q] = pane[q]
      BY <2>1, <2>2
    <3> QED BY <3>2, <3>3
  <2>4. \A t \in Spawners, v \in Spawned :
            step'[t][v] = "checkpoint" => step[t][v] = "checkpoint" \/ (t = s /\ v = w)
    BY <2>1
  <2>5. \A t \in Spawners, v \in Spawned : step[t][v] = "checkpoint" => hand[t][v] \in Panes
    BY HandsApart DEF Held
  <2>6. \A q \in Panes : pane'[q] = "working" => briefs'[q] > 0
    BY <2>3
  <2>7. \A t \in Spawners, v \in Spawned : step'[t][v] = "checkpoint" => briefs'[hand'[t][v]] > 0
    BY <2>1, <2>3, <2>4, <2>5
  <2>8. \A v \in Spawned : life'[v] = "running" => paneOf'[v] # None /\ briefs'[paneOf'[v]] > 0
    BY <2>1, <2>3
  <2> QED BY <2>6, <2>7, <2>8
<1>18. ASSUME NEW w \in Spawned, LaunchFails(s, w) PROVE WorksBriefed'
  BY <1>18 DEF LaunchFails, Takes
<1>19. ASSUME NEW w \in Spawned, Checkpoint(s, w) PROVE WorksBriefed'
  <2>1. /\ step[s][w] = "checkpoint"
        /\ step' = [step EXCEPT ![s][w] = "rest"]
        /\ life' = [life EXCEPT ![w] = IF @ = "pending" THEN "running" ELSE @]
        /\ UNCHANGED <<pane, briefs, paneOf, hand>>
    BY <1>19 DEF Checkpoint, ResolvePending
  <2>2. hand[s][w] = paneOf[w] /\ hand[s][w] \in Panes
    BY <2>1, HandsApart DEF Held
  <2>3. paneOf[w] # None /\ briefs[paneOf[w]] > 0
    BY <2>1, <2>2
  <2>4. \A v \in Spawned : v # w => life'[v] = life[v]
    BY <2>1
  <2>5. \A t \in Spawners, v \in Spawned :
            step'[t][v] = "checkpoint" => step[t][v] = "checkpoint"
    BY <2>1
  <2> QED BY <2>1, <2>3, <2>4, <2>5
<1>20. ASSUME NEW w \in Spawned, RecordFailure(s, w) PROVE WorksBriefed'
  BY <1>20 DEF RecordFailure, ResolvePending
<1> QED
  BY <1>1, <1>2, <1>3, <1>4, <1>5, <1>6, <1>7, <1>8, <1>9, <1>10, <1>11, <1>12, <1>13, <1>14,
     <1>15, <1>16, <1>17, <1>18, <1>19, <1>20 DEF SpawnStep, Allocate, LaunchThread

(* What a step of another command or of Herdr leaves to adopt. *)
Beside ==
    /\ UNCHANGED adoptVars
    /\ \A p \in UserPanes : briefs'[p] = briefs[p]
    /\ \A a \in Adoptable : /\ paneOf'[a] = paneOf[a]
                            /\ life'[a] = "running" => life[a] = "running"

(* A step of spawn or resume leaves the adopted workers alone. *)
LEMMA SpawnBeside ==
    ASSUME Typed, NEW s \in Spawners, SpawnStep(s), UNCHANGED adoptVars
    PROVE  Beside
<1> USE BoardAssumption
    DEF Typed, TypeOK, BoardTypeOK, SpawnTypeOK, Begun, Beside, boardVars, board, world, Workers,
        Places, Goes, Takes
<1>1. CASE CreateRun(s)
  BY <1>1 DEF CreateRun, StartsWith
<1>2. CASE StartResume(s)
  BY <1>2 DEF StartResume, StartsWith
<1>3. CASE WriteProtocols(s)
  BY <1>3 DEF WriteProtocols, LaunchThreads, Rests
<1>4. CASE ProtocolsFail(s)
  BY <1>4 DEF ProtocolsFail, Leaves
<1>5. CASE FinishLaunch(s)
  BY <1>5 DEF FinishLaunch, Leaves
<1>6. CASE SpawnCrashes(s)
  BY <1>6 DEF SpawnCrashes, Leaves
<1>7. ASSUME NEW w \in Spawned, KeepPane(s, w) PROVE Beside
  BY <1>7 DEF KeepPane, PaneIsLive, Recorded, Rests
<1>8. ASSUME NEW w \in Spawned, MakeTree(s, w) PROVE Beside
  BY <1>8 DEF MakeTree, Picks, Takes, Rests, HasCwd
<1>9. ASSUME NEW w \in Spawned, RecordTree(s, w) PROVE Beside
  BY <1>9 DEF RecordTree
<1>10. ASSUME NEW w \in Spawned, RunSetup(s, w) PROVE Beside
  BY <1>10 DEF RunSetup
<1>11. ASSUME NEW w \in Spawned, MakeWorkspace(s, w) PROVE Beside
  BY <1>11 DEF MakeWorkspace, Picks, Takes, Rests
<1>12. ASSUME NEW w \in Spawned, RecordPane(s, w) PROVE Beside
  BY <1>12 DEF RecordPane
<1>13. ASSUME NEW w \in Spawned, AllocateFails(s, w) PROVE Beside
  BY <1>13 DEF AllocateFails, Leaves, Picks, Rests
<1>14. ASSUME NEW w \in Spawned, ReadPane(s, w) PROVE Beside
  BY <1>14 DEF ReadPane
<1>15. ASSUME NEW w \in Spawned, LookAtPane(s, w) PROVE Beside
  BY <1>15 DEF LookAtPane, AfterLook
<1>16. ASSUME NEW w \in Spawned, LaunchAgent(s, w) PROVE Beside
  BY <1>16 DEF LaunchAgent, Open
<1>17. ASSUME NEW w \in Spawned, BriefWorker(s, w) PROVE Beside
  <2>1. hand[s][w] \in Panes
    BY <1>17 DEF BriefWorker
  <2> QED BY <1>17, <2>1 DEF BriefWorker, SubmitBrief, Takes
<1>18. ASSUME NEW w \in Spawned, LaunchFails(s, w) PROVE Beside
  BY <1>18 DEF LaunchFails, Takes
<1>19. ASSUME NEW w \in Spawned, Checkpoint(s, w) PROVE Beside
  BY <1>19 DEF Checkpoint, ResolvePending
<1>20. ASSUME NEW w \in Spawned, RecordFailure(s, w) PROVE Beside
  BY <1>20 DEF RecordFailure, ResolvePending
<1> QED
  BY <1>1, <1>2, <1>3, <1>4, <1>5, <1>6, <1>7, <1>8, <1>9, <1>10, <1>11, <1>12, <1>13, <1>14,
     <1>15, <1>16, <1>17, <1>18, <1>19, <1>20 DEF SpawnStep, Allocate, LaunchThread

(* A step of kill leaves the adopted workers to be prompted alone. *)
LEMMA KillBeside ==
    ASSUME Typed, NEW k \in Killers, KillStep(k), UNCHANGED adoptVars
    PROVE  Beside
<1> USE BoardAssumption, KillAssumption
    DEF Typed, TypeOK, BoardTypeOK, KillTypeOK, Beside, EndOf, boardVars, board, world, Workers,
        Places
<1>1. CASE LoadActiveRun(k)
  BY <1>1 DEF LoadActiveRun, Closes
<1>2. CASE LoadEndedRun(k)
  BY <1>2 DEF LoadEndedRun, Closes
<1>3. CASE PersistRun(k)
  BY <1>3 DEF PersistRun, KillLeaves
<1>4. CASE PersistWorker(k)
  BY <1>4 DEF PersistWorker, KillLeaves
<1>5. CASE KillCrashes(k)
  BY <1>5 DEF KillCrashes, KillLeaves
<1>6. ASSUME NEW w \in Workers, LoadWorker(k, w) PROVE Beside
  BY <1>6 DEF LoadWorker, Closes
<1>7. ASSUME NEW w \in Workers, CloseOwn(k, w) PROVE Beside
  BY <1>7 DEF CloseOwn, Does, CloseWorkspace, Emit, Open
<1>8. ASSUME NEW w \in Workers, ReleaseAdopted(k, w) PROVE Beside
  BY <1>8 DEF ReleaseAdopted, Does, Open
<1>9. ASSUME NEW w \in Workers, CloseMisses(k, w) PROVE Beside
  BY <1>9 DEF CloseMisses, Does
<1> QED
  BY <1>1, <1>2, <1>3, <1>4, <1>5, <1>6, <1>7, <1>8, <1>9 DEF KillStep

(* A step of a hook leaves the adopted workers to be prompted alone. *)
LEMMA HookBeside ==
    ASSUME Typed, HookStep, UNCHANGED adoptVars
    PROVE  Beside
<1> USE BoardAssumption
    DEF Typed, TypeOK, BoardTypeOK, Beside, TakesEvent, Marks, At, boardVars, board, world, Workers,
        Places
<1>1. ASSUME NEW p \in Places, PaneExited(p) PROVE Beside
  BY <1>1 DEF PaneExited
<1>2. ASSUME NEW p \in Places, WorkspaceClosed(p) PROVE Beside
  BY <1>2 DEF WorkspaceClosed
<1>3. ASSUME NEW p \in Places, NotOfTheTeam(p) PROVE Beside
  BY <1>3 DEF NotOfTheTeam
<1>4. CASE GodGone
  BY <1>4 DEF GodGone
<1>5. ASSUME NEW e \in events, HookMisses(e) PROVE Beside
  BY <1>5 DEF HookMisses
<1> QED
  BY <1>1, <1>2, <1>3, <1>4, <1>5 DEF HookStep

(* A move of Herdr's own leaves the adopted workers to be prompted alone. *)
LEMMA HerdrBeside ==
    ASSUME Typed, HerdrMoves, UNCHANGED adoptVars
    PROVE  Beside
<1> USE DEF Beside, board, world
<1>1. ASSUME NEW p \in Places, AgentEndsTurn(p) PROVE Beside
  BY <1>1 DEF AgentEndsTurn
<1>2. ASSUME NEW p \in Places, AgentPrompted(p) PROVE Beside
  BY <1>2 DEF AgentPrompted
<1>3. ASSUME NEW p \in Places, PaneExits(p) PROVE Beside
  BY <1>3 DEF PaneExits
<1>4. CASE GodPaneCloses
  BY <1>4 DEF GodPaneCloses
<1> QED
  BY <1>1, <1>2, <1>3, <1>4 DEF HerdrMoves

(* A step of adopt leaves the agents that run prompted. *)
LEMMA AdoptKeepsAdoptsBriefed ==
    ASSUME Typed, AdoptsBriefed, NEW x \in Adopters, AdoptStep(x)
    PROVE  AdoptsBriefed'
<1> USE BoardAssumption
    DEF Typed, TypeOK, BoardTypeOK, AdoptTypeOK, AdoptAims, PanesTyped, Begun, AdoptsBriefed,
        AdoptGoes, AdoptLeaves, boardVars, board, world, Workers, Places
<1>1. CASE Insert(x)
  BY <1>1 DEF Insert
<1>2. CASE InsertRefused(x)
  BY <1>2 DEF InsertRefused
<1>3. CASE Recover(x)
  BY <1>3 DEF Recover
<1>4. CASE RecoverTooLate(x)
  BY <1>4 DEF RecoverTooLate
<1>5. CASE PromptAdopted(x)
  BY <1>5 DEF PromptAdopted, SubmitBrief
<1>6. CASE PromptFails(x)
  BY <1>6 DEF PromptFails
<1>7. CASE ProtocolRefused(x)
  BY <1>7 DEF ProtocolRefused
<1>8. CASE CompleteAdoption(x)
  BY <1>8 DEF CompleteAdoption, ResolvePending
<1>9. CASE FailAdoption(x)
  BY <1>9 DEF FailAdoption, ResolvePending
<1>10. CASE AdoptCrashes(x)
  BY <1>10 DEF AdoptCrashes
<1>11. ASSUME NEW a \in Adoptable, NEW p \in UserPanes, Bootstrap(x, a, p)
       PROVE  AdoptsBriefed'
  BY <1>11 DEF Bootstrap
<1>12. ASSUME NEW a \in Adoptable, NEW p \in UserPanes, SelectNew(x, a, p)
       PROVE  AdoptsBriefed'
  BY <1>12 DEF SelectNew, Selects
<1>13. ASSUME NEW a \in Adoptable, NEW p \in UserPanes, SelectPending(x, a, p)
       PROVE  AdoptsBriefed'
  BY <1>13 DEF SelectPending, Selects
<1> QED
  BY <1>1, <1>2, <1>3, <1>4, <1>5, <1>6, <1>7, <1>8, <1>9, <1>10, <1>11, <1>12, <1>13 DEF
     AdoptStep

-----------------------------------------------------------------------------
(* No agent is briefed again. *)

Sparing == RestsUnbriefed /\ BriefedOnce

(* Whose pane it is, and that it has none but him. *)
LEMMA OwnersApart ==
    ASSUME Typed, Distinct, NEW w \in Spawned, NEW v \in Workers,
           paneOf[w] # None, paneOf[v] = paneOf[w]
    PROVE  v = w
BY DEF Distinct, OnePanePerWorker, Workers

(* What the others do leaves agents at rest unbriefed, or known to be. *)
LEMMA AsideKeepsSparing ==
    ASSUME Typed, Steadfast, Distinct, Launching, Sparing, Aside
    PROVE  Sparing'
<1>1. \A w \in Spawned : /\ paneOf'[w] = paneOf[w] /\ paneOf[w] \in Panes \cup {None}
                         /\ point'[w] = point[w]
  BY DEF Typed, PanesTyped, Aside
<1>2. \A p \in Panes : /\ briefs'[p] = briefs[p]
                       /\ pane'[p] = "idle" =>
                            \/ pane[p] = "idle"
                            \/ \E v \in Workers : paneOf[v] = p /\ point[v] = "briefed"
  BY DEF Aside, Moved, Steadfast
<1>3. UNCHANGED <<step, hand>>
  BY DEF Aside, spawnVars
<1>4. \A s \in Spawners, w \in Spawned : step[s][w] = "brief" => hand[s][w] \in Panes
  BY HandsApart DEF Held
<1>5. \A w \in Spawned : /\ paneOf'[w] # None /\ point'[w] # "briefed" /\ pane'[paneOf'[w]] = "idle"
                         => briefs'[paneOf'[w]] = 0
  <2> SUFFICES ASSUME NEW w \in Spawned,
                      paneOf'[w] # None, point'[w] # "briefed", pane'[paneOf'[w]] = "idle"
               PROVE  briefs'[paneOf'[w]] = 0
    OBVIOUS
  <2>1. paneOf'[w] = paneOf[w] /\ paneOf[w] \in Panes /\ point[w] # "briefed"
    BY <1>1
  <2>2. ~\E v \in Workers : paneOf[v] = paneOf[w] /\ point[v] = "briefed"
    BY <2>1, OwnersApart
  <2>3. pane[paneOf[w]] = "idle"
    BY <1>2, <2>1, <2>2
  <2> QED BY <1>2, <2>1, <2>3 DEF Sparing, RestsUnbriefed
<1>6. RestsUnbriefed'
  BY <1>2, <1>3, <1>4, <1>5 DEF Sparing, RestsUnbriefed
<1>7. BriefedOnce'
  BY <1>2 DEF Sparing, BriefedOnce
<1> QED BY <1>6, <1>7 DEF Sparing

(* A step of spawn or resume briefs no agent that has its brief. *)
LEMMA SpawnKeepsSparing ==
    ASSUME Typed, Apart, Distinct, Launching, Sparing, NEW s \in Spawners, SpawnStep(s)
    PROVE  Sparing'
<1> USE BoardAssumption
    DEF Typed, TypeOK, BoardTypeOK, SpawnTypeOK, PanesTyped, boardVars, board, world, Workers,
        Places, Lives, TerminalLives, Goes, Takes,
        Sparing, RestsUnbriefed, BriefedOnce
<1>1. CASE CreateRun(s)
  BY <1>1 DEF CreateRun, StartsWith
<1>2. CASE StartResume(s)
  BY <1>2 DEF StartResume, StartsWith
<1>3. CASE WriteProtocols(s)
  BY <1>3 DEF WriteProtocols, LaunchThreads, Rests
<1>4. CASE ProtocolsFail(s)
  BY <1>4 DEF ProtocolsFail, Leaves
<1>5. CASE FinishLaunch(s)
  BY <1>5 DEF FinishLaunch, Leaves
<1>6. CASE SpawnCrashes(s)
  BY <1>6 DEF SpawnCrashes, Leaves
<1>7. ASSUME NEW w \in Spawned, KeepPane(s, w) PROVE Sparing'
  <2>1. /\ sphase[s] = "allocate" /\ w \in todo[s]
        /\ point' = [point EXCEPT ![w] = "ready"]
        /\ UNCHANGED <<paneOf, pane, briefs, step, hand>>
    BY <1>7 DEF KeepPane
  <2>2. point[w] # "briefed"
    BY <2>1 DEF Launching, Crewed
  <2>3. \A v \in Spawned : point'[v] # "briefed" => point[v] # "briefed"
    BY <2>1, <2>2
  <2> QED BY <2>1, <2>3
<1>8. ASSUME NEW w \in Spawned, MakeTree(s, w) PROVE Sparing'
  BY <1>8 DEF MakeTree, Picks, Takes, Rests, HasCwd
<1>9. ASSUME NEW w \in Spawned, RecordTree(s, w) PROVE Sparing'
  BY <1>9 DEF RecordTree
<1>10. ASSUME NEW w \in Spawned, RunSetup(s, w) PROVE Sparing'
  BY <1>10 DEF RunSetup
<1>11. ASSUME NEW w \in Spawned, MakeWorkspace(s, w) PROVE Sparing'
  BY <1>11 DEF MakeWorkspace, Picks, Takes, Rests
<1>12. ASSUME NEW w \in Spawned, RecordPane(s, w) PROVE Sparing'
  <2>1. /\ step[s][w] = "record_pane" /\ sphase[s] = "allocate"
        /\ step' = [step EXCEPT ![s][w] = "rest"]
        /\ paneOf' = [paneOf EXCEPT ![w] = hand[s][w]]
        /\ point' = [point EXCEPT ![w] = "ready"]
        /\ UNCHANGED <<pane, briefs, hand>>
    BY <1>12 DEF RecordPane, Phased, Allocating
  <2>2. Bare(hand[s][w])
    BY <2>1 DEF Launching, Unlaunched
  <2>3. \A v \in Spawned : v # w => paneOf'[v] = paneOf[v] /\ point'[v] = point[v]
    BY <2>1
  <2>4. paneOf'[w] = hand[s][w]
    BY <2>1
  <2>5. \A v \in Spawned : /\ paneOf'[v] # None /\ point'[v] # "briefed"
                           /\ pane'[paneOf'[v]] = "idle"
                           => briefs'[paneOf'[v]] = 0
    BY <2>1, <2>2, <2>3, <2>4 DEF Bare
  <2>6. \A t \in Spawners, v \in Spawned : step'[t][v] = "brief" => step[t][v] = "brief"
    BY <2>1
  <2> QED BY <2>1, <2>5, <2>6
<1>13. ASSUME NEW w \in Spawned, AllocateFails(s, w) PROVE Sparing'
  BY <1>13 DEF AllocateFails, Leaves, Picks, Rests
<1>14. ASSUME NEW w \in Spawned, ReadPane(s, w) PROVE Sparing'
  BY <1>14 DEF ReadPane
<1>15. ASSUME NEW w \in Spawned, LookAtPane(s, w) PROVE Sparing'
  <2>1. /\ step[s][w] = "look"
        /\ step' = [step EXCEPT ![s][w] = AfterLook[pane[hand[s][w]]]]
        /\ UNCHANGED <<life, point, pane, briefs, paneOf, hand>>
    BY <1>15 DEF LookAtPane
  <2>2. \A t \in Spawners, v \in Spawned : t # s \/ v # w => step'[t][v] = step[t][v]
    BY <2>1
  <2>3. pane[hand[s][w]] \in {"closed", "shell", "idle", "working"}
    BY <2>1 DEF Made
  <2>4. /\ step'[s][w] \in {"failed", "launch", "brief", "checkpoint"}
        /\ step'[s][w] = "brief" => pane[hand[s][w]] = "idle"
    BY <2>1, <2>3 DEF AfterLook
  <2>5. hand[s][w] \in Panes /\ hand[s][w] = paneOf[w] /\ point[w] # "briefed"
    BY <2>1, HandsApart DEF Held
  <2> QED BY <2>1, <2>2, <2>4, <2>5 DEF Sparing, RestsUnbriefed, BriefedOnce
<1>16. ASSUME NEW w \in Spawned, LaunchAgent(s, w) PROVE Sparing'
  <2> DEFINE p == hand[s][w]
  <2>1. /\ step[s][w] = "launch" /\ pane[p] \in {"shell", "idle", "working"}
        /\ \E next \in {"brief", "failed"} : step' = [step EXCEPT ![s][w] = next]
        /\ pane' = [pane EXCEPT ![p] = IF @ = "shell" THEN "idle" ELSE "working"]
        /\ UNCHANGED <<point, briefs, paneOf, hand>>
    BY <1>16 DEF LaunchAgent, Open
  <2>2. p \in Panes /\ pane[p] = "shell" /\ briefs[p] = 0
    BY <2>1 DEF Launching, Unlaunched, Bare
  <2>3. \A q \in Panes : pane'[q] = "idle" => pane[q] = "idle" \/ q = p
    BY <2>1, <2>2
  <2>4. \A t \in Spawners, v \in Spawned :
            step'[t][v] = "brief" => step[t][v] = "brief" \/ (t = s /\ v = w)
    BY <2>1
  <2> QED BY <2>1, <2>2, <2>3, <2>4
<1>17. ASSUME NEW w \in Spawned, BriefWorker(s, w) PROVE Sparing'
  <2> DEFINE p == hand[s][w]
  <2>1. /\ step[s][w] = "brief"
        /\ \E next \in {"checkpoint", "failed"} : step' = [step EXCEPT ![s][w] = next]
        /\ pane' = [pane EXCEPT ![p] = "working"]
        /\ briefs' = [briefs EXCEPT ![p] = IF @ < 2 THEN @ + 1 ELSE @]
        /\ UNCHANGED <<point, paneOf, hand>>
    BY <1>17 DEF BriefWorker, SubmitBrief
  <2>2. /\ p \in Panes /\ briefs[p] = 0 /\ sphase[s] = "launch"
        /\ \A v \in Spawned : v # w => paneOf[v] # p
    BY <2>1, HandsApart DEF Held
  <2>3. /\ \A q \in Panes : q # p => pane'[q] = pane[q] /\ briefs'[q] = briefs[q]
        /\ pane'[p] = "working" /\ briefs'[p] = 1
    BY <2>1, <2>2
  <2>4. \A t \in Spawners, v \in Spawned :
            step'[t][v] = "brief" => step[t][v] = "brief" /\ ~(t = s /\ v = w)
    BY <2>1
  <2>5. \A t \in Spawners, v \in Spawned :
            step'[t][v] = "brief" => hand[t][v] \in Panes /\ hand[t][v] # p
    <3> SUFFICES ASSUME NEW t \in Spawners, NEW v \in Spawned, step'[t][v] = "brief"
                 PROVE  hand[t][v] \in Panes /\ hand[t][v] # p
      OBVIOUS
    <3>1. step[t][v] = "brief" /\ ~(t = s /\ v = w)
      BY <2>4
    <3>2. hand[t][v] \in Panes /\ hand[t][v] = paneOf[v] /\ sphase[t] = "launch"
      BY <3>1, HandsApart DEF Held
    <3>3. t = s
      BY <2>2, <3>2 DEF Launching, OneSpawner
    <3> QED BY <2>2, <3>1, <3>2, <3>3
  <2>6. \A t \in Spawners, v \in Spawned : step'[t][v] = "brief" => briefs'[hand'[t][v]] = 0
    BY <2>1, <2>3, <2>4, <2>5
  <2>7. \A v \in Spawned : /\ paneOf'[v] # None /\ point'[v] # "briefed"
                           /\ pane'[paneOf'[v]] = "idle"
                           => briefs'[paneOf'[v]] = 0
    BY <2>1, <2>3
  <2>8. \A q \in Panes : briefs'[q] <= 1
    <3>1. \A q \in Panes : briefs[q] <= 1
      OBVIOUS
    <3>2. \A q \in Panes : briefs'[q] = briefs[q] \/ briefs'[q] = 1
      BY <2>3
    <3> QED BY ONLY <3>1, <3>2, SMT
  <2> QED BY <2>6, <2>7, <2>8
<1>18. ASSUME NEW w \in Spawned, LaunchFails(s, w) PROVE Sparing'
  BY <1>18 DEF LaunchFails, Takes
<1>19. ASSUME NEW w \in Spawned, Checkpoint(s, w) PROVE Sparing'
  BY <1>19 DEF Checkpoint, ResolvePending
<1>20. ASSUME NEW w \in Spawned, RecordFailure(s, w) PROVE Sparing'
  BY <1>20 DEF RecordFailure, ResolvePending
<1> QED
  BY <1>1, <1>2, <1>3, <1>4, <1>5, <1>6, <1>7, <1>8, <1>9, <1>10, <1>11, <1>12, <1>13, <1>14,
     <1>15, <1>16, <1>17, <1>18, <1>19, <1>20 DEF SpawnStep, Allocate, LaunchThread

-----------------------------------------------------------------------------
(* At first nothing is launched and nobody is briefed. *)
LEMMA BriefingInit ==
    ASSUME Init PROVE Launching /\ WorksBriefed /\ AdoptsBriefed /\ Sparing
<1> USE BoardAssumption
    DEF Init, BoardInit, SpawnInit, AdoptInit, Workers, Places, Allocating
<1>1. Launching
  BY DEF Launching, OneSpawner, Crewed, Unlaunched, NoCopy
<1>2. WorksBriefed
  BY DEF WorksBriefed
<1>3. AdoptsBriefed
  BY DEF AdoptsBriefed
<1>4. Sparing
  BY DEF Sparing, RestsUnbriefed, BriefedOnce
<1> QED BY <1>1, <1>2, <1>3, <1>4

(* A step that is not spawn's leaves spawn's workers aside. *)
LEMMA OthersAside ==
    ASSUME Typed, [Next]_vars, \A s \in Spawners : ~SpawnStep(s)
    PROVE  Aside
<1>1. CASE UNCHANGED vars
  BY <1>1 DEF Aside, Moved, vars, boardVars, board, world
<1> QED
  BY <1>1, KillAside, AdoptAside, HookAside, HerdrAside DEF Next

(* Every step, and none, keeps the launches in order. *)
LEMMA LaunchingStep ==
    ASSUME Typed, Apart, Distinct, Launching, [Next]_vars
    PROVE  Launching'
<1>1. ASSUME NEW s \in Spawners, SpawnStep(s) PROVE Launching'
  BY <1>1, SpawnKeepsOneSpawner, SpawnKeepsCrewed, SpawnKeepsUnlaunched DEF Launching
<1>2. CASE \A s \in Spawners : ~SpawnStep(s)
  BY <1>2, OthersAside, AsideKeepsLaunching
<1> QED BY <1>1, <1>2

(* Every step, and none, leaves working agents briefed. *)
LEMMA WorksBriefedStep ==
    ASSUME Typed, Unprompted, Distinct, Launching, WorksBriefed, [Next]_vars
    PROVE  WorksBriefed'
<1>1. ASSUME NEW s \in Spawners, SpawnStep(s) PROVE WorksBriefed'
  BY <1>1, SpawnKeepsWorksBriefed DEF Unprompted
<1>2. CASE \A s \in Spawners : ~SpawnStep(s)
  BY <1>2, OthersAside, AsideKeepsWorksBriefed
<1> QED BY <1>1, <1>2

(* Every step, and none, briefs no agent that has its brief. *)
LEMMA SparingStep ==
    ASSUME Typed, Steadfast, Distinct, Launching, Sparing, [Next]_vars
    PROVE  Sparing'
<1>1. ASSUME NEW s \in Spawners, SpawnStep(s) PROVE Sparing'
  BY <1>1, SpawnKeepsSparing DEF Steadfast
<1>2. CASE \A s \in Spawners : ~SpawnStep(s)
  BY <1>2, OthersAside, AsideKeepsSparing
<1> QED BY <1>1, <1>2

(* Every step, and none, leaves the adopted workers that run prompted. *)
LEMMA AdoptsBriefedStep ==
    ASSUME Typed, AdoptsBriefed, [Next]_vars
    PROVE  AdoptsBriefed'
<1>1. CASE UNCHANGED vars
  BY <1>1 DEF AdoptsBriefed, vars, boardVars, board, world, adoptVars
<1>2. ASSUME NEW x \in Adopters, AdoptStep(x) PROVE AdoptsBriefed'
  BY <1>2, AdoptKeepsAdoptsBriefed
<1>3. CASE Beside
  <2>1. \A x \in Adopters : aphase[x] # "off" => wanted[x] \in Adoptable /\ place[x] \in UserPanes
    BY DEF Typed, AdoptAims
  <2>2. \A a \in Adoptable : paneOf[a] \in UserPanes \cup {None}
    BY DEF Typed, PanesTyped
  <2> QED BY <1>3, <2>1, <2>2 DEF AdoptsBriefed, Beside, adoptVars
<1> QED
  BY <1>1, <1>2, <1>3, SpawnBeside, KillBeside, HookBeside, HerdrBeside DEF Next

(***************************************************************************)
(* A worker runs only in a pane that was briefed, whatever crashes, exits  *)
(* or is killed or adopted and whenever turns end, as long as spawns and   *)
(* resumes do not overlap and nobody else prompts an agent (if somebody    *)
(* does, a resume takes the turn for the brief's).                         *)
(***************************************************************************)
THEOREM RunningAreBriefed == ASSUME Unprompted PROVE Spec => []RunningBriefed
<1>1. Apart
  BY DEF Unprompted
<1>2. Typed /\ Distinct /\ Launching /\ WorksBriefed /\ AdoptsBriefed /\ [Next]_vars
        => (Launching /\ WorksBriefed /\ AdoptsBriefed)'
  BY <1>1, LaunchingStep, WorksBriefedStep, AdoptsBriefedStep
<1>3. WorksBriefed /\ AdoptsBriefed => RunningBriefed
  BY DEF WorksBriefed, AdoptsBriefed, RunningBriefed, Workers
<1> QED
  BY <1>2, <1>3, BriefingInit, DistinctInit, DistinctStep, TypedAlways, PTL DEF Spec

(***************************************************************************)
(* No agent of spawn's is briefed twice, whatever crashes, exits, is       *)
(* killed or prompted by others and however often the run is resumed, as   *)
(* long as spawns and resumes do not overlap and no agent ends its turn    *)
(* before its checkpoint is on the board (if one does, a resume finds it   *)
(* idle and takes it for one without its brief).                           *)
(***************************************************************************)
THEOREM NoSecondBrief == ASSUME Steadfast PROVE Spec => []BriefedOnce
<1>1. Apart
  BY DEF Steadfast
<1>2. Typed /\ Distinct /\ Launching /\ Sparing /\ [Next]_vars => (Launching /\ Sparing)'
  BY <1>1, LaunchingStep, SparingStep
<1>3. Sparing => BriefedOnce
  BY DEF Sparing
<1> QED
  BY <1>2, <1>3, BriefingInit, DistinctInit, DistinctStep, TypedAlways, PTL DEF Spec

-----------------------------------------------------------------------------
(***************************************************************************)
(* What spawn takes from the user: TeamSpec has no state, and what is said *)
(* of it here is said of every specification, launcher table and place.    *)
(***************************************************************************)

(* Ascending lists every element of a finite set of numbers, in their order. *)
LEMMA AscendingOrders ==
    ASSUME NEW S \in SUBSET Nat, IsFiniteSet(S)
    PROVE  /\ Ascending(S) \in Seq(S)
           /\ \A k, l \in DOMAIN Ascending(S) : k < l => Ascending(S)[k] < Ascending(S)[l]
           /\ \A x \in S : \E k \in DOMAIN Ascending(S) : Ascending(S)[k] = x
           /\ \A k \in 1..Cardinality(S) :
                 Ascending(S)[k] \in S /\ Cardinality({j \in S : j =< Ascending(S)[k]}) = k
           /\ \A x \in S : Ascending(S)[Cardinality({j \in S : j =< x})] = x
<1> DEFINE n == Cardinality(S)
           Below(i) == {j \in S : j =< i}
           rank == [i \in S |-> Cardinality(Below(i))]
<1>1. n \in Nat
  BY FS_CardinalityType
<1>2. ASSUME NEW i \in S
      PROVE  IsFiniteSet(Below(i)) /\ Cardinality(Below(i)) \in 1..n
  <2>1. Below(i) \in SUBSET S
    OBVIOUS
  <2>2. IsFiniteSet(Below(i)) /\ Cardinality(Below(i)) =< n
    BY <2>1, FS_Subset
  <2>3. Cardinality(Below(i)) \in Nat
    BY <2>2, FS_CardinalityType
  <2>4. i \in Below(i)
    OBVIOUS
  <2>5. Cardinality(Below(i)) # 0
    BY <2>2, <2>4, FS_EmptySet
  <2> HIDE DEF n, Below
  <2> QED BY <1>1, <2>2, <2>3, <2>5
<1>3. ASSUME NEW i \in S, NEW j \in S, i < j
      PROVE  Cardinality(Below(i)) # Cardinality(Below(j))
  <2>1. Below(i) \in SUBSET Below(j)
    <3> SUFFICES ASSUME NEW l \in S, l =< i PROVE l =< j
      OBVIOUS
    <3>1. l \in Nat /\ i \in Nat /\ j \in Nat
      OBVIOUS
    <3> QED BY <1>3, <3>1
  <2>2. j \in Below(j) /\ j \notin Below(i)
    BY <1>3
  <2>3. IsFiniteSet(Below(j))
    BY <1>2
  <2> QED BY <2>1, <2>2, <2>3, FS_Subset
<1>4. rank \in Injection(S, 1..n)
  <2>1. rank \in [S -> 1..n]
    BY <1>2
  <2>2. \A i, j \in S : rank[i] = rank[j] => i = j
    <3> SUFFICES ASSUME NEW i \in S, NEW j \in S, i # j PROVE rank[i] # rank[j]
      OBVIOUS
    <3>1. i \in Nat /\ j \in Nat
      OBVIOUS
    <3>2. i < j \/ j < i
      BY <3>1
    <3> QED BY <1>3, <3>2
  <2> HIDE DEF rank, n
  <2> QED BY <2>1, <2>2 DEF Injection, IsInjective
<1>5. rank \in Surjection(S, 1..n)
  <2>1. IsFiniteSet(1..n) /\ Cardinality(1..n) = n
    BY <1>1, FS_Interval
  <2> HIDE DEF rank
  <2> QED BY <1>4, <2>1, FS_Injection
<1>6. \A k \in 1..n : \E i \in S : rank[i] = k
  BY <1>5 DEF Surjection
<1>7. \A k \in 1..n : Ascending(S)[k] \in S /\ rank[Ascending(S)[k]] = k
  <2> SUFFICES ASSUME NEW k \in 1..n
               PROVE  Ascending(S)[k] \in S /\ rank[Ascending(S)[k]] = k
    OBVIOUS
  <2>1. Ascending(S)[k] = CHOOSE i \in S : Cardinality(Below(i)) = k
    BY DEF Ascending
  <2>2. \E i \in S : Cardinality(Below(i)) = k
    BY <1>6
  <2>3. Ascending(S)[k] \in S /\ Cardinality(Below(Ascending(S)[k])) = k
    BY <2>1, <2>2
  <2> QED BY <2>3
<1>8. DOMAIN Ascending(S) = 1..n /\ Ascending(S) \in [1..n -> S]
  <2> DEFINE nth(k) == CHOOSE i \in S : Cardinality({j \in S : j =< i}) = k
  <2>1. Ascending(S) = [k \in 1..n |-> nth(k)]
    BY DEF Ascending
  <2> HIDE DEF nth
  <2>2. \A k \in 1..n : Ascending(S)[k] = nth(k)
    BY <2>1
  <2> HIDE DEF n, rank
  <2> QED BY <1>7, <2>1, <2>2
<1>9. Ascending(S) \in Seq(S)
  <2> HIDE DEF n, rank
  <2> QED BY <1>1, <1>8, SeqDef
<1>10. \A x \in S : Ascending(S)[rank[x]] = x /\ rank[x] \in 1..n
  <2> SUFFICES ASSUME NEW x \in S PROVE Ascending(S)[rank[x]] = x /\ rank[x] \in 1..n
    OBVIOUS
  <2>1. rank[x] \in 1..n
    BY <1>4 DEF Injection
  <2>2. Ascending(S)[rank[x]] \in S /\ rank[Ascending(S)[rank[x]]] = rank[x]
    BY <1>7, <2>1
  <2> HIDE DEF rank, n
  <2> QED BY <1>4, <2>1, <2>2 DEF Injection, IsInjective
<1>11. ASSUME NEW i \in S, NEW j \in S, i =< j PROVE rank[i] =< rank[j]
  <2>1. CASE i = j
    <3>1. rank[i] \in Nat /\ rank[i] = rank[j]
      BY <1>2, <2>1
    <3> HIDE DEF rank
    <3> QED BY <3>1
  <2>2. CASE i # j
    <3>1. Below(i) \in SUBSET Below(j)
      <4> SUFFICES ASSUME NEW l \in S, l =< i PROVE l =< j
        OBVIOUS
      <4>1. l \in Nat /\ i \in Nat /\ j \in Nat
        OBVIOUS
      <4> QED BY <1>11, <4>1
    <3>2. Cardinality(Below(i)) =< Cardinality(Below(j))
      BY <1>2, <3>1, FS_Subset
    <3> QED BY <3>2
  <2> QED BY <2>1, <2>2
<1>12. ASSUME NEW k \in 1..n, NEW l \in 1..n, k < l PROVE Ascending(S)[k] < Ascending(S)[l]
  <2>1. Ascending(S)[k] \in S /\ Ascending(S)[l] \in S
    BY <1>7
  <2>2. rank[Ascending(S)[k]] = k /\ rank[Ascending(S)[l]] = l
    BY <1>7
  <2>3. ~(Ascending(S)[l] =< Ascending(S)[k])
    <3> SUFFICES ASSUME Ascending(S)[l] =< Ascending(S)[k] PROVE FALSE
      OBVIOUS
    <3>1. rank[Ascending(S)[l]] =< rank[Ascending(S)[k]]
      BY <1>11, <2>1
    <3> HIDE DEF rank, n
    <3> QED BY <1>1, <1>12, <2>2, <3>1
  <2>4. Ascending(S)[k] \in Nat /\ Ascending(S)[l] \in Nat
    BY <2>1
  <2> HIDE DEF rank, n
  <2> QED BY <2>3, <2>4
<1>13. \A k \in 1..n : Ascending(S)[k] \in S /\ Cardinality({j \in S : j =< Ascending(S)[k]}) = k
  BY <1>7
<1>14. \A x \in S : Ascending(S)[Cardinality({j \in S : j =< x})] = x
  BY <1>10
<1>15. \A x \in S : \E k \in DOMAIN Ascending(S) : Ascending(S)[k] = x
  <2> HIDE DEF n, rank
  <2> QED BY <1>8, <1>10
<1> HIDE DEF rank
<1> QED BY <1>8, <1>9, <1>12, <1>13, <1>14, <1>15

(* SetToSeq lists every element of a finite set, each once. *)
LEMMA SetToSeqLists ==
    ASSUME NEW S, IsFiniteSet(S)
    PROVE  /\ SetToSeq(S) \in Seq(S)
           /\ \A i, j \in DOMAIN SetToSeq(S) : SetToSeq(S)[i] = SetToSeq(S)[j] => i = j
           /\ \A x \in S : \E i \in DOMAIN SetToSeq(S) : SetToSeq(S)[i] = x
<1> DEFINE n == Cardinality(S)
           Lists == {f \in [1..n -> S] : IsInjective(f)}
           s == SetToSeq(S)
<1>1. n \in Nat /\ ExistsBijection(1..n, S)
  BY FS_CardinalityType
<1>2. Lists # {}
  BY <1>1 DEF ExistsBijection, Bijection, Injection
<1>3. s = CHOOSE f \in [1..n -> S] : IsInjective(f)
  BY DEF SetToSeq
<1>4. s \in [1..n -> S] /\ IsInjective(s)
  BY <1>2, <1>3
<1>5. s \in Seq(S)
  BY <1>1, <1>4, SeqDef
<1>6. IsFiniteSet(1..n) /\ Cardinality(1..n) = n
  BY <1>1, FS_Interval
<1>7. s \in Injection(1..n, S)
  BY <1>4 DEF Injection
<1>8. s \in Surjection(1..n, S)
  BY <1>6, <1>7, FS_Injection
<1> QED BY <1>4, <1>5, <1>8 DEF IsInjective, Surjection


(* A list of one or two. *)
LEMMA ShortLists ==
    ASSUME NEW S, NEW x \in S, NEW y \in S
    PROVE  /\ <<x>> \in Seq(S) /\ Len(<<x>>) = 1 /\ <<x>>[1] = x
           /\ <<x, y>> \in Seq(S) /\ Len(<<x, y>>) = 2 /\ <<x, y>>[1] = x /\ <<x, y>>[2] = y
OBVIOUS

(* A list of three. *)
LEMMA ThreeLists ==
    ASSUME NEW S, NEW x \in S, NEW y \in S, NEW z \in S
    PROVE  <<x, y, z>> \in Seq(S) /\ Len(<<x, y, z>>) = 3 /\ <<x, y, z>>[3] = z
OBVIOUS

(* Picking all of a list leaves it as it is. *)
LEMMA AscendingAll ==
    ASSUME NEW n \in Nat
    PROVE  Cardinality(1..n) = n /\ \A k \in 1..n : Ascending(1..n)[k] = k
<1>1. IsFiniteSet(1..n) /\ Cardinality(1..n) = n /\ 1..n \in SUBSET Nat
  BY FS_Interval
<1>2. ASSUME NEW k \in 1..n PROVE Ascending(1..n)[k] = k
  <2>1. {j \in 1..n : j =< k} = 1..k
    OBVIOUS
  <2>2. Cardinality(1..k) = k
    BY FS_Interval
  <2>3. PICK S : S = 1..n
    OBVIOUS
  <2>4. Ascending(S)[Cardinality({j \in S : j =< k})] = k
    BY <1>1, <2>3, AscendingOrders
  <2> QED BY <2>1, <2>2, <2>3, <2>4
<1> QED BY <1>1, <1>2

(* The first of a list comes first among those that are picked with it. *)
LEMMA AscendingFirst ==
    ASSUME NEW n \in Nat, NEW S \in SUBSET (1..n), 1 \in S
    PROVE  /\ IsFiniteSet(S) /\ Cardinality(S) \in Nat \ {0} /\ Ascending(S)[1] = 1
           /\ \A k \in 1..Cardinality(S) : Ascending(S)[k] \in S
<1>1. IsFiniteSet(S) /\ S \in SUBSET Nat
  <2>1. IsFiniteSet(1..n)
    BY FS_Interval
  <2>2. IsFiniteSet(S)
    BY <2>1, FS_Subset
  <2>3. S \in SUBSET Nat
    OBVIOUS
  <2> QED BY <2>2, <2>3
<1>2. Cardinality(S) \in Nat \ {0}
  BY <1>1, FS_CardinalityType, FS_EmptySet
<1>3. {j \in S : j =< 1} = {1}
  <2>1. \A j \in S : j \in Nat \ {0}
    OBVIOUS
  <2>2. \A j \in S : j =< 1 <=> j = 1
    BY <2>1
  <2> QED BY <2>2
<1>4. Cardinality({1}) = 1
  BY FS_Singleton
<1>5. Ascending(S)[Cardinality({j \in S : j =< 1})] = 1
  BY <1>1, AscendingOrders
<1>6. \A k \in 1..Cardinality(S) : Ascending(S)[k] \in S
  BY <1>1, AscendingOrders
<1> QED BY <1>1, <1>2, <1>3, <1>4, <1>5, <1>6

-----------------------------------------------------------------------------
(* Paths. *)

(* The last component is a name. *)
HasName(path) == path # <<>> /\ path[Len(path)] \notin {"/", "."}

(* An absolute path stays absolute without its dots, and keeps its name. *)
LEMMA PlainAbsolute ==
    ASSUME NEW path \in Paths, Absolute(path)
    PROVE  /\ Plain(path) \in Paths /\ Absolute(Plain(path))
           /\ HasName(path) => Len(Plain(path)) > 1
<1> DEFINE S == {i \in DOMAIN path : path[i] # "."}
           n == Len(path)
<1>1. n \in Nat \ {0} /\ DOMAIN path = 1..n /\ path[1] = "/" /\ \A i \in 1..n : path[i] \in STRING
  BY DEF Paths, Absolute
<1>2. S \in SUBSET (1..n) /\ 1 \in S
  BY <1>1
<1>3. PICK m \in Nat \ {0} : m = Cardinality(S)
  BY <1>1, <1>2, AscendingFirst
<1>4. Ascending(S)[1] = 1 /\ \A k \in 1..m : Ascending(S)[k] \in S
  BY <1>1, <1>2, <1>3, AscendingFirst
<1>5. Plain(path) = [k \in 1..m |-> path[Ascending(S)[k]]]
  BY <1>3 DEF Plain, Picked
<1> HIDE DEF S
<1>6. ASSUME NEW k \in 1..m PROVE path[Ascending(S)[k]] \in STRING
  BY <1>1, <1>2, <1>4
<1>7. PICK p : p = Plain(path)
  OBVIOUS
<1>8. p \in Seq(STRING) /\ Len(p) = m /\ p[1] = path[1]
  BY <1>4, <1>5, <1>6, <1>7
<1>9. HasName(path) => m > 1
  <2> SUFFICES ASSUME HasName(path), m = 1 PROVE FALSE
    BY <1>3
  <2>1. n # 1 /\ n \in S
    BY <1>1 DEF HasName, S
  <2>2. IsFiniteSet(S)
    BY <1>1, <1>2, AscendingFirst
  <2>3. PICK x : S = {x}
    BY <1>3, <2>2, FS_Singleton
  <2> QED BY <1>2, <2>1, <2>3
<1> QED BY <1>1, <1>7, <1>8, <1>9 DEF Paths, Absolute

(* A path without dots is left alone. *)
LEMMA PlainSame ==
    ASSUME NEW path \in Paths, \A i \in 1..Len(path) : path[i] # "."
    PROVE  Plain(path) = path
<1>1. PICK n \in Nat : n = Len(path) /\ DOMAIN path = 1..n
  BY DEF Paths
<1>2. {i \in DOMAIN path : path[i] # "."} = 1..n
  BY <1>1
<1>3. Cardinality(1..n) = n /\ \A k \in 1..n : Ascending(1..n)[k] = k
  BY AscendingAll
<1>4. Plain(path) = [k \in 1..n |-> path[Ascending(1..n)[k]]]
  BY <1>2, <1>3 DEF Plain, Picked
<1>5. Plain(path) = [k \in 1..n |-> path[k]]
  BY <1>3, <1>4
<1> QED BY <1>1, <1>5 DEF Paths

(* What is relative to an absolute path becomes absolute. *)
LEMMA AbsolutizeAbsolute ==
    ASSUME NEW path \in Paths, NEW base \in Paths, Absolute(base)
    PROVE  /\ Absolutize(path, base) \in Paths /\ Absolute(Absolutize(path, base))
           /\ HasName(path) => Len(Absolutize(path, base)) > 1
<1>1. CASE Absolute(path)
  BY <1>1, PlainAbsolute DEF Absolutize
<1>2. CASE ~Absolute(path)
  <2>1. PICK p : p = base \o path
    OBVIOUS
  <2>2. p \in Paths /\ Absolute(p)
    BY <2>1 DEF Paths, Absolute
  <2>3. HasName(path) => HasName(p)
    <3> SUFFICES ASSUME HasName(path) PROVE HasName(p)
      OBVIOUS
    <3>1. Len(p) = Len(base) + Len(path) /\ Len(path) \in Nat \ {0} /\ Len(base) \in Nat
      BY <2>1 DEF HasName, Paths
    <3>2. p[Len(p)] = path[Len(path)]
      BY <2>1, <3>1 DEF Paths
    <3> QED BY <2>2, <3>1, <3>2 DEF HasName, Paths
  <2>4. Absolutize(path, base) = Plain(p)
    BY <1>2, <2>1 DEF Absolutize
  <2> QED BY <2>2, <2>3, <2>4, PlainAbsolute
<1> QED BY <1>1, <1>2

(* The directory of the specification is absolute. *)
LEMMA BaseAbsolute ==
    ASSUME NEW file \in Paths, HasName(file), NEW cwd \in Paths, Absolute(cwd)
    PROVE  SpecBase(file, cwd) \in Paths /\ Absolute(SpecBase(file, cwd))
<1>1. PICK p : p = Absolutize(file, cwd)
  OBVIOUS
<1>2. p \in Paths /\ Absolute(p) /\ Len(p) > 1
  BY <1>1, AbsolutizeAbsolute
<1>3. SpecBase(file, cwd) = SubSeq(p, 1, Len(p) - 1)
  BY <1>1 DEF SpecBase, Parent, Front
<1>4. Len(p) - 1 \in 1..Len(p) /\ p \in Seq(STRING) /\ p[1] = "/" /\ 1 \in Nat
  BY <1>2 DEF Paths, Absolute
<1>5. PICK q : q = SubSeq(p, 1, Len(p) - 1)
  OBVIOUS
<1>6. q \in Seq(STRING) /\ Len(q) = Len(p) - 1 /\ q[1] = p[1]
  BY <1>4, <1>5
<1>7. q # <<>>
  BY <1>4, <1>6
<1> QED BY <1>3, <1>4, <1>5, <1>6, <1>7 DEF Paths, Absolute

-----------------------------------------------------------------------------
(* What is written and where. *)

RawWorkers == [name : Seq(STRING \cup Nat), agent : STRING, role : STRING,
               worktree : BOOLEAN \cup {Missing}, branch : STRING \cup {Missing}, brief : Paths]
Teams == [cwd : Paths, workers : Seq(Worker)]

WrittenInFile(source) ==
    /\ source \in [file : Paths, raw : [cwd : Paths \cup {Missing}, workers : Seq(RawWorkers)]]
    /\ HasName(source.file)
WrittenAsKinds(source) == source \in [agents : Seq(STRING)]
SoundSource(source) == WrittenInFile(source) \/ WrittenAsKinds(source)

SoundEnv(env) ==
    /\ DOMAIN env = {"cwd", "dirs", "files", "table", "installed"}
    /\ env.cwd \in env.dirs
    /\ \A dir \in env.dirs : dir \in Paths /\ Absolute(dir) /\ Plain(dir) = dir
    /\ \A i \in Nat : ScratchBrief(i) \notin env.dirs
    /\ \/ env.table \in {Missing, Refused}
       \/ \A kind \in DOMAIN env.table : env.table[kind].command \in Seq(STRING)

(* Every launcher of the table has a command line. *)
LEMMA LaunchersTyped ==
    ASSUME NEW env, SoundEnv(env), env.table # Refused
    PROVE  \A kind \in DOMAIN LoadLaunchers(env.table) :
              LoadLaunchers(env.table)[kind].command \in Seq(STRING)
<1>1. \A kind \in DOMAIN DefaultLaunchers : DefaultLaunchers[kind].command \in Seq(STRING)
  <2>1. "claude" \in STRING /\ "codex" \in STRING
    BY TeamSpecAssumption
  <2>2. <<"claude">> \in Seq(STRING) /\ <<"codex">> \in Seq(STRING)
    BY <2>1, ShortLists
  <2> QED BY <2>2 DEF DefaultLaunchers, Launcher
<1>2. CASE env.table = Missing
  BY <1>1, <1>2 DEF LoadLaunchers
<1>3. CASE env.table # Missing
  <2>1. PICK table : table = env.table
    OBVIOUS
  <2>2. \A kind \in DOMAIN table : table[kind].command \in Seq(STRING)
    BY <1>3, <2>1 DEF SoundEnv
  <2> QED BY <1>1, <1>3, <2>1, <2>2 DEF LoadLaunchers
<1> QED BY <1>2, <1>3

(* What is read is a team. *)
LEMMA FileIsTeam ==
    ASSUME NEW source, WrittenInFile(source)
    PROVE  ResolveRawSpec(source.raw) \in Teams
<1>1. PICK raw : raw = source.raw /\ raw \in [cwd : Paths \cup {Missing}, workers : Seq(RawWorkers)]
  BY DEF WrittenInFile
<1>2. DefaultCwd \in Paths
  <2>1. "." \in STRING
    BY TeamSpecAssumption
  <2> QED BY <2>1, ShortLists DEF DefaultCwd, Paths
<1>3. ASSUME NEW w \in RawWorkers PROVE ResolveWorker(w) \in Worker
  BY DEF RawWorkers, Worker, ResolveWorker
<1>4. PICK resolved : resolved = [i \in DOMAIN raw.workers |-> ResolveWorker(raw.workers[i])]
  OBVIOUS
<1>5. PICK ws : ws = raw.workers /\ ws \in Seq(RawWorkers)
  BY <1>1
<1>6. \A i \in 1..Len(ws) : resolved[i] \in Worker
  BY <1>3, <1>4, <1>5
<1>7. DOMAIN ws = 1..Len(ws) /\ Len(ws) \in Nat /\ DOMAIN resolved = 1..Len(ws)
  BY <1>4, <1>5
<1>8. resolved \in Seq(Worker)
  <2>1. resolved \in [1..Len(ws) -> Worker]
    BY <1>4, <1>5, <1>6, <1>7
  <2> QED BY <1>7, <2>1, SeqDef
<1>9. ResolveRawSpec(raw) = [cwd |-> IF raw.cwd = Missing THEN DefaultCwd ELSE raw.cwd, workers |-> resolved]
  BY <1>4 DEF ResolveRawSpec
<1> QED BY <1>1, <1>2, <1>8, <1>9 DEF Teams

(* The briefs written for a list of kinds are files of their own, named by full paths. *)
LEMMA ScratchBriefs ==
    ASSUME NEW i \in Nat
    PROVE  ScratchBrief(i) \in Paths /\ Absolute(ScratchBrief(i)) /\ Plain(ScratchBrief(i)) = ScratchBrief(i)
<1>1. PICK strokes : strokes = [n \in 1..i |-> "I"]
  OBVIOUS
<1>2. strokes \in Seq(STRING) /\ Len(strokes) = i /\ \A n \in 1..i : strokes[n] = "I"
  <2>1. "I" \in STRING
    BY TeamSpecAssumption
  <2>2. strokes \in [1..i -> STRING]
    BY <1>1, <2>1
  <2>3. strokes \in Seq(STRING)
    BY <2>2, SeqDef
  <2> QED BY <1>1, <2>3
<1>3. PICK root : root = <<"/", "tmp">>
  OBVIOUS
<1>9. root \in Seq(STRING) /\ Len(root) = 2 /\ root[1] = "/" /\ root[2] = "tmp"
  <2>1. "/" \in STRING /\ "tmp" \in STRING
    BY TeamSpecAssumption
  <2> QED BY <1>3, <2>1, ShortLists
<1>10. PICK b : b = root \o strokes
  OBVIOUS
<1>4. b \in Seq(STRING) /\ Len(b) = i + 2 /\ b[1] = "/" /\ b[2] = "tmp"
  <2>1. /\ b \in Seq(STRING) /\ Len(b) = Len(root) + Len(strokes)
        /\ \A n \in 1..(Len(root) + Len(strokes)) :
              b[n] = IF n =< Len(root) THEN root[n] ELSE strokes[n - Len(root)]
    BY <1>2, <1>9, <1>10, ConcatProperties
  <2> QED BY <1>2, <1>9, <2>1
<1>11. \A n \in 1..(2 + i) : n > 2 => b[n] = strokes[n - 2]
  <2>1. \A n \in 1..(Len(root) + Len(strokes)) :
              b[n] = IF n =< Len(root) THEN root[n] ELSE strokes[n - Len(root)]
    BY <1>2, <1>9, <1>10, ConcatProperties
  <2> QED BY <1>2, <1>9, <2>1
<1>5. \A n \in 1..Len(b) : b[n] # "."
  <2> SUFFICES ASSUME NEW n \in 1..(i + 2) PROVE b[n] # "."
    BY <1>4
  <2>1. CASE n \in {1, 2}
    BY <1>4, <2>1
  <2>2. CASE n \notin {1, 2}
    <3>1. n - 2 \in 1..i
      BY <2>2
    <3>2. b[n] = strokes[n - 2]
      BY <1>11, <2>2
    <3> QED BY <1>2, <3>1, <3>2
  <2> QED BY <2>1, <2>2
<1>6. ScratchBrief(i) = b
  BY <1>1, <1>3, <1>10 DEF ScratchBrief
<1>7. Plain(b) = b
  BY <1>4, <1>5, PlainSame DEF Paths
<1> QED BY <1>4, <1>6, <1>7 DEF Paths, Absolute

(* So is what a list of agent kinds stands for, each with a brief of its own. *)
LEMMA KindsAreTeam ==
    ASSUME NEW kinds \in Seq(STRING), NEW cwd \in Paths
    PROVE  /\ SpecFromAgents(kinds, cwd) \in Teams
           /\ SpecFromAgents(kinds, cwd).cwd = cwd
           /\ Len(SpecFromAgents(kinds, cwd).workers) = Len(kinds)
           /\ DOMAIN SpecFromAgents(kinds, cwd).workers = 1..Len(kinds)
           /\ \A i \in 1..Len(kinds) :
                 SpecFromAgents(kinds, cwd).workers[i] =
                   [name |-> <<kinds[i], i>>, agent |-> kinds[i], role |-> "worker",
                    worktree |-> FALSE, branch |-> Missing, brief |-> ScratchBrief(i)]
<1> DEFINE worker(i) == [name |-> <<kinds[i], i>>, agent |-> kinds[i], role |-> "worker",
                         worktree |-> FALSE, branch |-> Missing, brief |-> ScratchBrief(i)]
<1>1. PICK n \in Nat : n = Len(kinds) /\ DOMAIN kinds = 1..n
  OBVIOUS
<1>2. ASSUME NEW i \in 1..n PROVE worker(i) \in Worker
  <2>1. kinds[i] \in STRING /\ i \in Nat
    BY <1>1
  <2>2. <<kinds[i], i>> \in Seq(STRING \cup Nat)
    BY <2>1
  <2>3. ScratchBrief(i) \in Paths
    BY <2>1, ScratchBriefs
  <2>4. "worker" \in STRING /\ Missing \in STRING \cup {Missing}
    BY TeamSpecAssumption
  <2> QED BY <2>1, <2>2, <2>3, <2>4 DEF Worker
<1>3. PICK ws : ws = [i \in 1..n |-> worker(i)]
  OBVIOUS
<1> HIDE DEF worker
<1>4. ws \in [1..n -> Worker] /\ \A i \in 1..n : ws[i] = worker(i)
  BY <1>2, <1>3
<1>5. ws \in Seq(Worker) /\ Len(ws) = n /\ DOMAIN ws = 1..n
  BY <1>4, SeqDef
<1>6. SpecFromAgents(kinds, cwd) = [cwd |-> cwd, workers |-> ws]
  BY <1>1, <1>3 DEF SpecFromAgents, ShorthandName, worker
<1>7. \A i \in 1..n : ws[i] = [name |-> <<kinds[i], i>>, agent |-> kinds[i], role |-> "worker",
                         worktree |-> FALSE, branch |-> Missing, brief |-> ScratchBrief(i)]
  BY <1>4 DEF worker
<1> QED BY <1>1, <1>5, <1>6, <1>7 DEF Teams

-----------------------------------------------------------------------------
(* The paths of a team are resolved. *)

(* What is resolved is a team whose paths are absolute, and exist. *)
LEMMA ResolvedTeam ==
    ASSUME NEW spec \in Teams, NEW base \in Paths, Absolute(base), NEW exists,
           ResolvePaths(spec, base, exists) # Refused
    PROVE  LET team == ResolvePaths(spec, base, exists)
           IN /\ team \in Teams /\ Absolute(team.cwd)
              /\ \A w \in Range(team.workers) : Absolute(w.brief)
<1>1. PICK cwd : cwd = Absolutize(spec.cwd, base)
  OBVIOUS
<1>2. cwd \in Paths /\ Absolute(cwd)
  BY <1>1, AbsolutizeAbsolute DEF Teams
<1>3. PICK ws : ws = spec.workers /\ ws \in Seq(Worker)
  BY DEF Teams
<1>4. PICK resolved : resolved = [i \in DOMAIN ws |-> [ws[i] EXCEPT !.brief = Absolutize(ws[i].brief, cwd)]]
  OBVIOUS
<1>5. ResolvePaths(spec, base, exists) = [cwd |-> cwd, workers |-> resolved]
  BY <1>1, <1>3, <1>4 DEF ResolvePaths
<1>6. PICK n \in Nat : n = Len(ws) /\ DOMAIN ws = 1..n
  BY <1>3
<1>7. ASSUME NEW i \in 1..n PROVE resolved[i] \in Worker /\ Absolute(resolved[i].brief)
  <2>1. PICK w \in Worker : w = ws[i]
    BY <1>3, <1>6
  <2>2. PICK brief : brief = Absolutize(w.brief, cwd)
    OBVIOUS
  <2>3. brief \in Paths /\ Absolute(brief)
    BY <1>2, <2>1, <2>2, AbsolutizeAbsolute DEF Worker
  <2>4. resolved[i] = [w EXCEPT !.brief = brief]
    BY <1>4, <1>6, <2>1, <2>2
  <2>5. [w EXCEPT !.brief = brief] \in Worker /\ [w EXCEPT !.brief = brief].brief = brief
    BY <2>1, <2>3 DEF Worker
  <2> QED BY <2>3, <2>4, <2>5
<1>8. DOMAIN resolved = 1..n
  BY <1>4, <1>6
<1>9. resolved \in Seq(Worker)
  <2>1. resolved \in [1..n -> Worker]
    BY <1>4, <1>6, <1>7
  <2> QED BY <2>1, SeqDef
<1>10. \A w \in Range(resolved) : Absolute(w.brief)
  BY <1>7, <1>8 DEF Range
<1> QED BY <1>2, <1>5, <1>9, <1>10 DEF Teams

(* A team that passes the checks can be launched. *)
LEMMA CheckedTeamLaunches ==
    ASSUME NEW env, SoundEnv(env), env.table # Refused, NEW spec,
           Preflight(spec, LoadLaunchers(env.table), env), Absolute(spec.cwd),
           \A w \in Range(spec.workers) : Absolute(w.brief)
    PROVE  LaunchNeeds(spec, LoadLaunchers(env.table), env)
<1>1. PICK launchers : launchers = LoadLaunchers(env.table)
  OBVIOUS
<1>2. \A kind \in DOMAIN launchers : launchers[kind].command \in Seq(STRING)
  BY <1>1, LaunchersTyped
<1>3. ASSUME NEW w \in Range(spec.workers)
      PROVE  /\ launchers[w.agent].command # <<>>
             /\ launchers[w.agent].command[1] \in env.installed
             /\ w.worktree => w.branch \notin {Missing, ""}
  <2>1. w.agent \in DOMAIN launchers /\ (w.worktree => w.branch \notin {Missing, ""})
    BY <1>1 DEF Preflight, Validate
  <2>2. PICK command : command = launchers[w.agent].command
    OBVIOUS
  <2>3. command # <<>> /\ Head(command) \in env.installed
    BY <1>1, <2>2 DEF Preflight
  <2>4. Head(command) = command[1]
    <3>1. command \in Seq(STRING)
      BY <1>2, <2>1, <2>2
    <3> QED BY <2>3, <3>1
  <2> QED BY <2>1, <2>2, <2>3, <2>4
<1>4. AllDistinct([i \in DOMAIN spec.workers |-> spec.workers[i].name])
  BY DEF Preflight, Validate
<1> QED BY <1>1, <1>3, <1>4 DEF LaunchNeeds

-----------------------------------------------------------------------------
(* The targets of a message. *)

(* What is picked from the front is the front. *)
LEMMA PickedFirst ==
    ASSUME NEW list, NEW k \in Nat
    PROVE  Picked(list, 1..k) = [i \in 1..k |-> list[i]]
<1>1. Cardinality(1..k) = k /\ \A i \in 1..k : Ascending(1..k)[i] = i
  BY AscendingAll
<1> QED BY <1>1 DEF Picked

(* A worker with a pane answers to its name, unless that is the god's. *)
LEMMA NameResolves ==
    ASSUME NEW run, NEW n \in DOMAIN run.workers, n # God, run.workers[n].pane \in Nat
    PROVE  Resolves(run, n) /\ (CHOOSE p \in Matches(run, n) : TRUE) = run.workers[n].pane
<1>1. PICK where \in Nat : where = run.workers[n].pane
  OBVIOUS
<1>2. Matches(run, n) = {where}
  BY <1>1 DEF Matches
<1>3. Cardinality({where}) = 1
  BY FS_Singleton
<1>4. Missing \notin {where}
  BY TeamSpecAssumption
<1> QED BY <1>1, <1>2, <1>3, <1>4 DEF Resolves

(* A message to one worker goes to its pane. *)
LEMMA OneIsSentTo ==
    ASSUME NEW run, NEW n \in DOMAIN run.workers, n \notin {God, All}, run.workers[n].pane \in Nat
    PROVE  SendsTo(run, <<n>>) = <<run.workers[n].pane>>
<1>1. PICK names : names = NamesOf(run, <<n>>)
  OBVIOUS
<1>2. <<n>> # <<All>>
  OBVIOUS
<1>3. {i \in DOMAIN <<n>> : \A j \in DOMAIN <<n>> : <<n>>[i] = <<n>>[j] => i =< j} = 1..1
  OBVIOUS
<1>4. names = [i \in 1..1 |-> <<n>>[i]]
  <2>1. names = Picked(<<n>>, {i \in DOMAIN <<n>> : \A j \in DOMAIN <<n>> : <<n>>[i] = <<n>>[j] => i =< j})
    BY <1>1, <1>2 DEF NamesOf
  <2>2. Picked(<<n>>, 1..1) = [i \in 1..1 |-> <<n>>[i]]
    BY PickedFirst
  <2> QED BY <1>3, <2>1, <2>2
<1>5. DOMAIN names = 1..1 /\ names[1] = n /\ names # <<>> /\ Range(names) = {n}
  BY <1>4 DEF Range
<1>6. Resolves(run, n) /\ (CHOOSE p \in Matches(run, n) : TRUE) = run.workers[n].pane
  BY NameResolves
<1> DEFINE first(name) == CHOOSE p \in Matches(run, name) : TRUE
<1>7. SendsTo(run, <<n>>) = [i \in DOMAIN names |-> first(names[i])]
  BY <1>1, <1>5, <1>6 DEF SendsTo
<1>8. first(n) = run.workers[n].pane
  BY <1>6
<1> HIDE DEF first
<1>9. SendsTo(run, <<n>>) = [i \in 1..1 |-> first(n)]
  <2>1. \A i \in 1..1 : names[i] = n
    BY <1>5
  <2> QED BY <1>5, <1>7, <2>1
<1> QED BY <1>8, <1>9

(* A worker that is listed twice gets one message. *)
LEMMA EachIsSentToOnce ==
    ASSUME NEW run, NEW m \in DOMAIN run.workers, NEW n \in DOMAIN run.workers, m # n,
           m \notin {God, All}, n \notin {God, All},
           run.workers[m].pane \in Nat, run.workers[n].pane \in Nat
    PROVE  SendsTo(run, <<m, n, m>>) = <<run.workers[m].pane, run.workers[n].pane>>
<1>1. PICK names : names = NamesOf(run, <<m, n, m>>)
  OBVIOUS
<1>2. <<m, n, m>> # <<All>>
  OBVIOUS
<1>3. {i \in DOMAIN <<m, n, m>> : \A j \in DOMAIN <<m, n, m>> : <<m, n, m>>[i] = <<m, n, m>>[j] => i =< j} = 1..2
  OBVIOUS
<1>4. names = [i \in 1..2 |-> <<m, n, m>>[i]]
  BY <1>1, <1>2, <1>3, PickedFirst DEF NamesOf
<1>5. DOMAIN names = 1..2 /\ names[1] = m /\ names[2] = n /\ names # <<>> /\ Range(names) = {m, n}
  BY <1>4 DEF Range
<1>6. /\ Resolves(run, n) /\ (CHOOSE p \in Matches(run, n) : TRUE) = run.workers[n].pane
      /\ Resolves(run, m) /\ (CHOOSE p \in Matches(run, m) : TRUE) = run.workers[m].pane
  BY NameResolves
<1> DEFINE first(name) == CHOOSE p \in Matches(run, name) : TRUE
<1>7. SendsTo(run, <<m, n, m>>) = [i \in DOMAIN names |-> first(names[i])]
  BY <1>1, <1>5, <1>6 DEF SendsTo
<1>8. first(n) = run.workers[n].pane /\ first(m) = run.workers[m].pane
  BY <1>6
<1> HIDE DEF first
<1>9. PICK sent : sent = SendsTo(run, <<m, n, m>>)
  OBVIOUS
<1>10. sent = [i \in 1..2 |-> first(names[i])]
  BY <1>5, <1>7, <1>9
<1>11. sent[1] = run.workers[m].pane /\ sent[2] = run.workers[n].pane /\ sent = [i \in 1..2 |-> sent[i]]
  BY <1>5, <1>8, <1>10
<1>12. sent = <<sent[1], sent[2]>>
  BY <1>11
<1> QED BY <1>9, <1>11, <1>12

(* A message to all is not refused while no worker has the god's name. *)
LEMMA AllAreSentTo ==
    ASSUME NEW run, IsFiniteSet(DOMAIN run.workers), DOMAIN run.workers # {}, God \notin DOMAIN run.workers,
           \A n \in DOMAIN run.workers : run.workers[n].pane \in Nat /\ run.workers[n].live
    PROVE  SendsTo(run, <<All>>) # Refused
<1>1. PICK all : all = DOMAIN run.workers
  OBVIOUS
<1>2. {n \in DOMAIN run.workers : run.workers[n].live} = all
  BY <1>1
<1>3. PICK names : names = NamesOf(run, <<All>>)
  OBVIOUS
<1>4. names = SetToSeq(all)
  BY <1>2, <1>3 DEF NamesOf
<1>5. names \in Seq(all) /\ \A x \in all : \E i \in DOMAIN names : names[i] = x
  BY <1>1, <1>4, SetToSeqLists
<1>6. names # <<>>
  <2>1. PICK x \in all : TRUE
    BY <1>1
  <2>2. PICK i \in DOMAIN names : names[i] = x
    BY <1>5, <2>1
  <2> QED BY <2>2
<1>7. ASSUME NEW n \in all
      PROVE  Resolves(run, n) /\ (CHOOSE p \in Matches(run, n) : TRUE) \in Nat
  BY <1>1, NameResolves
<1>8. Range(names) \subseteq all
  BY <1>5 DEF Range
<1> DEFINE first(name) == CHOOSE p \in Matches(run, name) : TRUE
<1>13. \A n \in Range(names) : Resolves(run, n)
  BY <1>7, <1>8
<1>9. SendsTo(run, <<All>>) = [i \in DOMAIN names |-> first(names[i])]
  <2>1. ~(names = <<>> \/ \E n \in Range(names) : ~Resolves(run, n))
    BY <1>6, <1>13
  <2> HIDE DEF first
  <2>2. SendsTo(run, <<All>>) = [i \in DOMAIN names |-> CHOOSE p \in Matches(run, names[i]) : TRUE]
    BY <1>3, <2>1 DEF SendsTo
  <2> QED BY <2>2 DEF first
<1>10. PICK l \in Nat : l = Len(names) /\ DOMAIN names = 1..l
  BY <1>5
<1>11. ASSUME NEW i \in 1..l PROVE first(names[i]) \in Nat
  BY <1>5, <1>7, <1>10
<1> HIDE DEF first
<1>12. SendsTo(run, <<All>>) \in [1..l -> Nat]
  BY <1>9, <1>10, <1>11
<1>14. SendsTo(run, <<All>>) \in Seq(Nat)
  BY <1>12, SeqDef
<1> QED BY <1>14, TeamSpecAssumption

(* Each worker of a team that is started answers to its name. *)
LEMMA TeamAnswers ==
    ASSUME NEW spec \in Teams, spec.workers # <<>>
    PROVE  Answers(RunOf(spec))
<1>1. PICK ws \in Seq(Worker) : ws = spec.workers
  BY DEF Teams
<1>2. PICK l \in Nat \ {0} : l = Len(ws) /\ DOMAIN ws = 1..l
  BY <1>1
<1>3. PICK names : names = {w.name : w \in Range(ws)}
  OBVIOUS
<1>4. PICK run : run = RunOf(spec)
  OBVIOUS
<1> DEFINE at(n) == CHOOSE i \in DOMAIN ws : ws[i].name = n
<1>5. run.workers = [n \in names |-> [pane |-> at(n), live |-> TRUE]]
  BY <1>1, <1>3, <1>4 DEF RunOf
<1>6. DOMAIN run.workers = names
  BY <1>5
<1>7. ASSUME NEW n \in names PROVE run.workers[n].pane \in Nat /\ run.workers[n].live
  <2>1. \E i \in 1..l : ws[i].name = n
    BY <1>2, <1>3 DEF Range
  <2>2. at(n) \in 1..l
    BY <1>2, <2>1
  <2> HIDE DEF at
  <2> QED BY <1>5, <2>2
<1>8. names # {} /\ IsFiniteSet(names)
  <2>1. PICK f : f = [i \in 1..l |-> ws[i].name]
    OBVIOUS
  <2>2. f \in Surjection(1..l, names)
    BY <1>2, <1>3, <2>1 DEF Range, Surjection
  <2>3. IsFiniteSet(1..l)
    <3>1. l \in Int /\ 1 \in Int
      OBVIOUS
    <3> QED BY <3>1, FS_Interval
  <2>4. IsFiniteSet(names)
    BY <2>2, <2>3, FS_Surjection
  <2>5. f[1] \in names
    BY <1>2, <1>3, <2>1 DEF Range
  <2> QED BY <2>4, <2>5
<1>9. \A n \in names \ {God, All} : SendsTo(run, <<n>>) = <<run.workers[n].pane>>
  BY <1>6, <1>7, OneIsSentTo
<1>10. \A m, n \in names \ {God, All} : m # n =>
          SendsTo(run, <<m, n, m>>) = <<run.workers[m].pane, run.workers[n].pane>>
  BY <1>6, <1>7, EachIsSentToOnce
<1>11. God \notin names => SendsTo(run, <<All>>) # Refused
  BY <1>6, <1>7, <1>8, AllAreSentTo
<1> QED BY <1>4, <1>6, <1>9, <1>10, <1>11 DEF Answers

-----------------------------------------------------------------------------
(* Which team is started. *)

SpecOf(source, env) ==
    IF "file" \in DOMAIN source THEN ResolveRawSpec(source.raw) ELSE SpecFromAgents(source.agents, env.cwd)
BaseOf(source, env) ==
    IF "file" \in DOMAIN source THEN SpecBase(source.file, env.cwd) ELSE env.cwd
ExistsFor(source, env) ==
    env.dirs \cup env.files
    \cup (IF "file" \in DOMAIN source THEN {} ELSE {ScratchBrief(i) : i \in DOMAIN source.agents})

(* What is not refused was resolved. *)
LEMMA LoadedIsResolved ==
    ASSUME NEW source, NEW env, LoadContext(source, env) # Refused
    PROVE  /\ env.table # Refused
           /\ LoadContext(source, env) =
                 ResolvePaths(SpecOf(source, env), BaseOf(source, env), ExistsFor(source, env))
BY DEF LoadContext, SpecOf, BaseOf, ExistsFor

(* What is read from a sound source, and where. *)
LEMMA ReadsTeam ==
    ASSUME NEW source, SoundSource(source), NEW env, SoundEnv(env)
    PROVE  SpecOf(source, env) \in Teams /\ BaseOf(source, env) \in Paths /\ Absolute(BaseOf(source, env))
<1>1. env.cwd \in Paths /\ Absolute(env.cwd)
  BY DEF SoundEnv
<1>2. CASE WrittenInFile(source)
  <2>1. "file" \in DOMAIN source /\ source.file \in Paths /\ HasName(source.file)
    BY <1>2 DEF WrittenInFile
  <2>2. SpecOf(source, env) \in Teams
    BY <1>2, <2>1, FileIsTeam DEF SpecOf
  <2>3. BaseOf(source, env) \in Paths /\ Absolute(BaseOf(source, env))
    BY <1>1, <2>1, BaseAbsolute DEF BaseOf
  <2> QED BY <2>2, <2>3
<1>3. CASE WrittenAsKinds(source)
  <2>1. "file" \notin DOMAIN source /\ source.agents \in Seq(STRING)
    BY <1>3 DEF WrittenAsKinds
  <2>2. SpecOf(source, env) \in Teams
    BY <1>1, <2>1, KindsAreTeam DEF SpecOf
  <2> QED BY <1>1, <2>1, <2>2 DEF BaseOf
<1> QED BY <1>2, <1>3 DEF SoundSource

(* A team that is started can be launched, and msg can reach it. *)
LEMMA StartedTeamIsSound ==
    ASSUME NEW source, SoundSource(source), NEW env, SoundEnv(env), Start(source, env) # Refused
    PROVE  /\ LaunchNeeds(Start(source, env), LoadLaunchers(env.table), env)
           /\ Answers(RunOf(Start(source, env)))
<1>1. PICK spec : spec = LoadContext(source, env)
  OBVIOUS
<1>2. Start(source, env) = spec /\ spec # Refused /\ Preflight(spec, LoadLaunchers(env.table), env)
  BY <1>1 DEF Start
<1>3. /\ env.table # Refused
      /\ spec = ResolvePaths(SpecOf(source, env), BaseOf(source, env), ExistsFor(source, env))
  BY <1>1, <1>2, LoadedIsResolved
<1>4. PICK read, base, exists :
        /\ read = SpecOf(source, env) /\ base = BaseOf(source, env) /\ exists = ExistsFor(source, env)
  OBVIOUS
<1>5. read \in Teams /\ base \in Paths /\ Absolute(base) /\ spec = ResolvePaths(read, base, exists)
  BY <1>3, <1>4, ReadsTeam
<1>6. spec \in Teams /\ Absolute(spec.cwd) /\ \A w \in Range(spec.workers) : Absolute(w.brief)
  BY <1>2, <1>5, ResolvedTeam
<1>7. LaunchNeeds(spec, LoadLaunchers(env.table), env)
  BY <1>2, <1>3, <1>6, CheckedTeamLaunches
<1>8. spec.workers # <<>>
  BY <1>2 DEF Preflight
<1>9. Answers(RunOf(spec))
  BY <1>6, <1>8, TeamAnswers
<1> QED BY <1>2, <1>7, <1>9

(* A specification named by its full path is the same team wherever spawn is called. *)
LEMMA SameWhereverCalled ==
    ASSUME NEW source, "file" \in DOMAIN source, Absolute(source.file), NEW env, SoundEnv(env), NEW cwd
    PROVE  Start(source, [env EXCEPT !.cwd = cwd]) = Start(source, env)
<1>1. PICK other : other = [env EXCEPT !.cwd = cwd]
  OBVIOUS
<1>2. /\ other.table = env.table /\ other.dirs = env.dirs /\ other.files = env.files
      /\ other.installed = env.installed
  BY <1>1 DEF SoundEnv
<1>3. SpecBase(source.file, other.cwd) = SpecBase(source.file, env.cwd)
  BY DEF SpecBase, Absolutize
<1>4. LoadContext(source, other) = LoadContext(source, env)
  BY <1>2, <1>3 DEF LoadContext
<1>5. PICK spec : spec = LoadContext(source, env)
  OBVIOUS
<1>6. PICK launchers : launchers = LoadLaunchers(env.table)
  OBVIOUS
<1>7. Preflight(spec, launchers, other) <=> Preflight(spec, launchers, env)
  BY <1>2 DEF Preflight
<1> QED BY <1>1, <1>2, <1>4, <1>5, <1>6, <1>7 DEF Start

(* Elements that differ are as many as there are places. *)
LEMMA DistinctCount ==
    ASSUME NEW n \in Nat, NEW f, DOMAIN f = 1..n, Len(f) = n,
           \A i, j \in 1..n : f[i] = f[j] => i = j
    PROVE  Cardinality(Range(f)) = Len(f)
<1>1. PICK g : g = [i \in 1..n |-> f[i]]
  OBVIOUS
<1>2. g \in Surjection(1..n, Range(f)) /\ g \in Injection(1..n, Range(f))
  BY <1>1 DEF Range, Surjection, Injection, IsInjective
<1>3. IsFiniteSet(1..n) /\ Cardinality(1..n) = n
  BY FS_Interval
<1> QED BY <1>2, <1>3, FS_Surjection

(* The checks of a list of agent kinds come down to its launchers. *)
LEMMA KindsChecked ==
    ASSUME NEW kinds \in Seq(STRING), NEW env, SoundEnv(env), NEW launchers
    PROVE  LET team == SpecFromAgents(kinds, env.cwd)
               known(k) == k \in DOMAIN launchers
               installed(k) == /\ launchers[k].command # <<>>
                               /\ Head(launchers[k].command) \in env.installed
           IN /\ Validate(team, launchers) <=> \A i \in 1..Len(kinds) : known(kinds[i])
              /\ Preflight(team, launchers, env) <=>
                    /\ kinds # <<>>
                    /\ \A i \in 1..Len(kinds) : known(kinds[i]) /\ installed(kinds[i])
<1>1. PICK team : team = SpecFromAgents(kinds, env.cwd)
  OBVIOUS
<1>2. PICK n \in Nat : n = Len(kinds) /\ DOMAIN kinds = 1..n
  OBVIOUS
<1>3. env.cwd \in Paths /\ env.cwd \in env.dirs
  BY DEF SoundEnv
<1>4. /\ team \in Teams /\ team.cwd = env.cwd /\ Len(team.workers) = n /\ DOMAIN team.workers = 1..n
      /\ \A i \in 1..n :
            team.workers[i] = [name |-> <<kinds[i], i>>, agent |-> kinds[i], role |-> "worker",
                               worktree |-> FALSE, branch |-> Missing, brief |-> ScratchBrief(i)]
  BY <1>1, <1>2, <1>3, KindsAreTeam
<1>5. PICK ws : ws = team.workers
  OBVIOUS
<1>6. ws \in Seq(Worker) /\ Len(ws) = n /\ DOMAIN ws = 1..n
  BY <1>4, <1>5 DEF Teams
<1>7. \A i \in 1..n :
         /\ ws[i].name = <<kinds[i], i>> /\ ws[i].agent = kinds[i] /\ ws[i].worktree = FALSE
         /\ ws[i].branch = Missing /\ ws[i].brief = ScratchBrief(i)
  <2> SUFFICES ASSUME NEW i \in 1..n
               PROVE  /\ ws[i].name = <<kinds[i], i>> /\ ws[i].agent = kinds[i] /\ ws[i].worktree = FALSE
                      /\ ws[i].branch = Missing /\ ws[i].brief = ScratchBrief(i)
    OBVIOUS
  <2>1. PICK w : w = ws[i]
    OBVIOUS
  <2>2. w = [name |-> <<kinds[i], i>>, agent |-> kinds[i], role |-> "worker",
             worktree |-> FALSE, branch |-> Missing, brief |-> ScratchBrief(i)]
    BY <1>4, <1>5, <2>1
  <2> QED BY <2>1, <2>2
<1>13. (\A i \in 1..n : ws[i] \in Range(ws)) /\ (\A w \in Range(ws) : \E i \in 1..n : w = ws[i])
  BY <1>6 DEF Range
<1>8. AllDistinct([i \in DOMAIN ws |-> ws[i].name])
  <2>1. PICK f : f = [i \in 1..n |-> ws[i].name]
    OBVIOUS
  <2>2. f \in Seq(Seq(STRING \cup Nat)) /\ Len(f) = n /\ DOMAIN f = 1..n
    <3>1. ASSUME NEW i \in 1..n PROVE ws[i].name \in Seq(STRING \cup Nat)
      <4>1. ws[i] \in Worker
        BY <1>6
      <4> QED BY <4>1 DEF Worker
    <3>2. f \in [1..n -> Seq(STRING \cup Nat)]
      BY <2>1, <3>1
    <3> QED BY <3>2, SeqDef
  <2>3. ASSUME NEW i \in 1..n, NEW j \in 1..n, f[i] = f[j] PROVE i = j
    <3>1. <<kinds[i], i>> = <<kinds[j], j>>
      BY <1>7, <2>1, <2>3
    <3> QED BY <3>1
  <2>4. Cardinality(Range(f)) = Len(f)
    BY <2>2, <2>3, DistinctCount
  <2>5. f = [i \in DOMAIN ws |-> ws[i].name]
    BY <1>6, <2>1
  <2> QED BY <2>4, <2>5 DEF AllDistinct
<1>9. Validate(team, launchers) <=> \A i \in 1..n : kinds[i] \in DOMAIN launchers
  <2>1. Validate(team, launchers) <=>
           \A w \in Range(ws) :
              /\ w.agent \in DOMAIN launchers
              /\ IF w.worktree THEN w.branch \notin {Missing, ""} ELSE w.branch = Missing
    BY <1>5, <1>8 DEF Validate
  <2> QED BY <1>6, <1>7, <2>1 DEF Range
<1>10. ws # <<>> <=> kinds # <<>>
  BY <1>2, <1>6
<1>11. \A i \in 1..n : SafeFileName(ws[i].name) /\ ws[i].brief \notin env.dirs
  <2> SUFFICES ASSUME NEW i \in 1..n PROVE SafeFileName(ws[i].name) /\ ws[i].brief \notin env.dirs
    OBVIOUS
  <2>1. <<kinds[i], i>> # <<"">> /\ <<kinds[i], i>> # <<"..">> /\ <<kinds[i], i>> # <<"/x">>
    OBVIOUS
  <2>2. i \in Nat
    OBVIOUS
  <2>3. ScratchBrief(i) \notin env.dirs
    BY <2>2 DEF SoundEnv
  <2> QED BY <1>7, <2>1, <2>3 DEF SafeFileName
<1>12. Preflight(team, launchers, env) <=>
          /\ Validate(team, launchers)
          /\ ws # <<>>
          /\ \A i \in 1..n : /\ launchers[kinds[i]].command # <<>>
                             /\ Head(launchers[kinds[i]].command) \in env.installed
  <2>1. Preflight(team, launchers, env) <=>
          /\ Validate(team, launchers)
          /\ ws # <<>>
          /\ \A w \in Range(ws) : /\ SafeFileName(w.name)
                                  /\ w.brief \notin env.dirs
                                  /\ launchers[w.agent].command # <<>>
                                  /\ Head(launchers[w.agent].command) \in env.installed
    BY <1>3, <1>4, <1>5 DEF Preflight
  <2>2. (\A w \in Range(ws) : /\ SafeFileName(w.name)
                              /\ w.brief \notin env.dirs
                              /\ launchers[w.agent].command # <<>>
                              /\ Head(launchers[w.agent].command) \in env.installed)
        <=> \A i \in 1..n : /\ launchers[kinds[i]].command # <<>>
                           /\ Head(launchers[kinds[i]].command) \in env.installed
    <3> DEFINE ready(k) == /\ launchers[k].command # <<>>
                           /\ Head(launchers[k].command) \in env.installed
    <3> HIDE DEF ready
    <3>1. (\A w \in Range(ws) : SafeFileName(w.name) /\ w.brief \notin env.dirs /\ ready(w.agent))
          <=> \A i \in 1..n : ready(kinds[i])
      <4>1. \A i \in 1..n : ws[i].agent = kinds[i]
        BY <1>7
      <4>2. ASSUME \A w \in Range(ws) : SafeFileName(w.name) /\ w.brief \notin env.dirs /\ ready(w.agent),
                   NEW i \in 1..n
            PROVE  ready(kinds[i])
        <5>1. ready(ws[i].agent)
          BY <1>13, <4>2
        <5> QED BY <4>1, <5>1
      <4>3. ASSUME \A i \in 1..n : ready(kinds[i]), NEW w \in Range(ws)
            PROVE  SafeFileName(w.name) /\ w.brief \notin env.dirs /\ ready(w.agent)
        <5>1. PICK i \in 1..n : w = ws[i]
          BY <1>13
        <5>2. w.agent = kinds[i] /\ ready(kinds[i])
          BY <4>1, <4>3, <5>1
        <5> QED BY <1>11, <5>1, <5>2
      <4> QED BY <4>2, <4>3
    <3> QED BY <3>1 DEF ready
  <2> QED BY <2>1, <2>2
<1> QED BY <1>1, <1>2, <1>9, <1>10, <1>12

(* The paths of a list of agent kinds are resolved already. *)
LEMMA KindsResolved ==
    ASSUME NEW kinds \in Seq(STRING), NEW env, SoundEnv(env), NEW exists,
           env.dirs \cup {ScratchBrief(i) : i \in DOMAIN kinds} \subseteq exists
    PROVE  ResolvePaths(SpecFromAgents(kinds, env.cwd), env.cwd, exists) = SpecFromAgents(kinds, env.cwd)
<1>1. PICK team : team = SpecFromAgents(kinds, env.cwd)
  OBVIOUS
<1>2. PICK n \in Nat : n = Len(kinds) /\ DOMAIN kinds = 1..n
  OBVIOUS
<1>3. env.cwd \in Paths /\ Absolute(env.cwd) /\ Plain(env.cwd) = env.cwd /\ env.cwd \in env.dirs
  BY DEF SoundEnv
<1>4. /\ team \in Teams /\ team.cwd = env.cwd /\ DOMAIN team.workers = 1..n
      /\ \A i \in 1..n :
            team.workers[i] = [name |-> <<kinds[i], i>>, agent |-> kinds[i], role |-> "worker",
                               worktree |-> FALSE, branch |-> Missing, brief |-> ScratchBrief(i)]
  BY <1>1, <1>2, <1>3, KindsAreTeam
<1>5. PICK ws : ws = team.workers /\ team = [cwd |-> env.cwd, workers |-> ws] /\ ws \in Seq(Worker)
  BY <1>4 DEF Teams
<1>6. Absolutize(env.cwd, env.cwd) = env.cwd
  BY <1>3 DEF Absolutize
<1>7. ASSUME NEW i \in 1..n
      PROVE  /\ Absolutize(ws[i].brief, env.cwd) = ws[i].brief /\ ws[i].brief \in exists
             /\ [ws[i] EXCEPT !.brief = Absolutize(ws[i].brief, env.cwd)] = ws[i]
  <2>1. ws[i].brief = ScratchBrief(i) /\ i \in Nat /\ ws[i] \in Worker
    <3>1. PICK w : w = ws[i]
      OBVIOUS
    <3>2. w = [name |-> <<kinds[i], i>>, agent |-> kinds[i], role |-> "worker",
               worktree |-> FALSE, branch |-> Missing, brief |-> ScratchBrief(i)]
      BY <1>4, <1>5, <3>1
    <3>3. ws[i] \in Worker
      BY <1>4, <1>5
    <3> QED BY <3>1, <3>2, <3>3
  <2>2. Absolute(ScratchBrief(i)) /\ Plain(ScratchBrief(i)) = ScratchBrief(i)
    BY <2>1, ScratchBriefs
  <2>3. Absolutize(ws[i].brief, env.cwd) = ws[i].brief
    BY <2>1, <2>2 DEF Absolutize
  <2>4. ws[i].brief \in exists
    BY <1>2, <2>1
  <2>5. [ws[i] EXCEPT !.brief = ws[i].brief] = ws[i]
    BY <2>1 DEF Worker
  <2> QED BY <2>3, <2>4, <2>5
<1>8. PICK resolved : resolved = [i \in DOMAIN ws |-> [ws[i] EXCEPT !.brief = Absolutize(ws[i].brief, env.cwd)]]
  OBVIOUS
<1>12. DOMAIN ws = 1..n
  BY <1>4, <1>5
<1>9. resolved = ws
  <2>1. PICK same : same = [i \in 1..n |-> ws[i]]
    OBVIOUS
  <2>2. \A i \in 1..n : [ws[i] EXCEPT !.brief = Absolutize(ws[i].brief, env.cwd)] = ws[i]
    BY <1>7
  <2>3. resolved = same
    BY <1>8, <1>12, <2>1, <2>2
  <2>4. ws = same
    BY <1>5, <1>12, <2>1
  <2> QED BY <2>3, <2>4
<1>10. env.cwd \in exists /\ \A w \in Range(ws) : Absolutize(w.brief, env.cwd) \in exists
  <2>1. ASSUME NEW w \in Range(ws) PROVE Absolutize(w.brief, env.cwd) \in exists
    <3>1. PICK i \in 1..n : w = ws[i]
      BY <1>12 DEF Range
    <3> QED BY <1>7, <3>1
  <2> QED BY <1>3, <2>1
<1>11. ResolvePaths(team, env.cwd, exists) = [cwd |-> env.cwd, workers |-> resolved]
  BY <1>4, <1>5, <1>6, <1>8, <1>10 DEF ResolvePaths
<1> QED BY <1>1, <1>5, <1>9, <1>11

(* A list of agent kinds is refused only for a kind without a launcher that exists. *)
LEMMA KindsStart ==
    ASSUME NEW source, WrittenAsKinds(source), NEW env, SoundEnv(env), env.table # Refused
    PROVE  LET launchers == LoadLaunchers(env.table)
           IN Start(source, env) # Refused <=>
                 /\ source.agents # <<>>
                 /\ \A k \in Range(source.agents) :
                       /\ k \in DOMAIN launchers
                       /\ launchers[k].command # <<>>
                       /\ launchers[k].command[1] \in env.installed
<1>1. PICK kinds, launchers, team, exists :
        /\ kinds = source.agents /\ launchers = LoadLaunchers(env.table)
        /\ team = SpecFromAgents(kinds, env.cwd)
        /\ exists = env.dirs \cup env.files \cup {ScratchBrief(i) : i \in DOMAIN kinds}
  OBVIOUS
<1>2. kinds \in Seq(STRING) /\ "file" \notin DOMAIN source
  BY <1>1 DEF WrittenAsKinds
<1>3. PICK n \in Nat : n = Len(kinds) /\ DOMAIN kinds = 1..n
  BY <1>2
<1>4. ResolvePaths(team, env.cwd, exists) = team
  BY <1>1, <1>2, KindsResolved
<1>5. team # Refused
  <2>1. env.cwd \in Paths
    BY DEF SoundEnv
  <2>2. team \in Teams
    BY <1>1, <1>2, <2>1, KindsAreTeam
  <2> QED BY <2>2, TeamSpecAssumption DEF Teams
<1>6. LoadContext(source, env) = IF kinds = <<>> \/ ~Validate(team, launchers) THEN Refused ELSE team
  BY <1>1, <1>2, <1>4 DEF LoadContext
<1>7. /\ Validate(team, launchers) <=> \A i \in 1..n : kinds[i] \in DOMAIN launchers
      /\ Preflight(team, launchers, env) <=>
            /\ kinds # <<>>
            /\ \A i \in 1..n : /\ kinds[i] \in DOMAIN launchers
                               /\ launchers[kinds[i]].command # <<>>
                               /\ Head(launchers[kinds[i]].command) \in env.installed
  BY <1>1, <1>2, <1>3, KindsChecked
<1>8. Start(source, env) # Refused <=> Preflight(team, launchers, env)
  BY <1>1, <1>5, <1>6, <1>7 DEF Start
<1>9. \A k \in DOMAIN launchers : launchers[k].command # <<>> => Head(launchers[k].command) = launchers[k].command[1]
  <2> SUFFICES ASSUME NEW k \in DOMAIN launchers, launchers[k].command # <<>>
               PROVE  Head(launchers[k].command) = launchers[k].command[1]
    OBVIOUS
  <2>1. launchers[k].command \in Seq(STRING)
    BY <1>1, LaunchersTyped
  <2> QED BY <2>1
<1>10. (\A i \in 1..n : /\ kinds[i] \in DOMAIN launchers
                        /\ launchers[kinds[i]].command # <<>>
                        /\ Head(launchers[kinds[i]].command) \in env.installed)
       <=> \A k \in Range(kinds) : /\ k \in DOMAIN launchers
                                   /\ launchers[k].command # <<>>
                                   /\ launchers[k].command[1] \in env.installed
  BY <1>3, <1>9 DEF Range
<1> QED BY <1>1, <1>7, <1>8, <1>10

(***************************************************************************)
(* Whatever is written, wherever spawn is called and whatever the launcher *)
(* table says: a team that passes load_context and preflight can be        *)
(* launched and reached by msg, one that is named by its full path does    *)
(* not depend on where spawn is called, and a list of agent kinds is       *)
(* refused only for a kind without a launcher that exists.                 *)
(***************************************************************************)
THEOREM TeamsStartSoundly ==
    \A source, env : SoundSource(source) /\ SoundEnv(env) => StartsSoundly(source, env)
<1> SUFFICES ASSUME NEW source, SoundSource(source), NEW env, SoundEnv(env)
             PROVE  StartsSoundly(source, env)
  OBVIOUS
<1>1. Start(source, env) # Refused =>
        /\ LaunchNeeds(Start(source, env), LoadLaunchers(env.table), env)
        /\ Answers(RunOf(Start(source, env)))
  BY StartedTeamIsSound
<1>2. "file" \in DOMAIN source /\ Absolute(source.file) =>
        \A cwd \in env.dirs : Start(source, [env EXCEPT !.cwd = cwd]) = Start(source, env)
  BY SameWhereverCalled
<1>3. "agents" \in DOMAIN source => WrittenAsKinds(source)
  BY DEF SoundSource, WrittenInFile
<1>4. "agents" \in DOMAIN source /\ env.table # Refused =>
        (Start(source, env) # Refused <=>
           /\ source.agents # <<>>
           /\ \A k \in Range(source.agents) :
                 /\ k \in DOMAIN LoadLaunchers(env.table)
                 /\ LoadLaunchers(env.table)[k].command # <<>>
                 /\ LoadLaunchers(env.table)[k].command[1] \in env.installed)
  BY <1>3, KindsStart
<1> QED BY <1>1, <1>2, <1>4 DEF StartsSoundly

-----------------------------------------------------------------------------
(* What the runs start from is sound. *)

(* A path of one, two or three components. *)
LEMMA ShortPaths ==
    ASSUME NEW a \in STRING, NEW b \in STRING, NEW c \in STRING
    PROVE  /\ <<a>> \in Paths /\ Len(<<a>>) = 1 /\ <<a>>[1] = a /\ <<a>> # <<>>
           /\ <<a, b>> \in Paths /\ Len(<<a, b>>) = 2 /\ <<a, b>> # <<>>
           /\ <<a, b>>[1] = a /\ <<a, b>>[2] = b
           /\ <<a, b, c>> \in Paths /\ Len(<<a, b, c>>) = 3 /\ <<a, b, c>>[3] = c /\ <<a, b, c>> # <<>>
<1>1. /\ <<a>> \in Seq(STRING) /\ Len(<<a>>) = 1 /\ <<a>>[1] = a
      /\ <<a, b>> \in Seq(STRING) /\ Len(<<a, b>>) = 2 /\ <<a, b>>[1] = a /\ <<a, b>>[2] = b
  BY ShortLists
<1>2. <<a, b, c>> \in Seq(STRING) /\ Len(<<a, b, c>>) = 3 /\ <<a, b, c>>[3] = c
  BY ThreeLists
<1>3. <<a>> # <<>> /\ <<a, b>> # <<>> /\ <<a, b, c>> # <<>>
  BY <1>1, <1>2
<1> QED BY <1>1, <1>2, <1>3 DEF Paths

(* Files and lists of kinds alike. *)
LEMMA SourcesAreSound == \A source \in Sources : SoundSource(source)
<1>1. ASSUME NEW source \in [agents : SeqOf({"claude", "codex", "mine", "none"}, 3)]
      PROVE  SoundSource(source)
  <2>1. PICK kinds : kinds = source.agents /\ kinds \in SeqOf({"claude", "codex", "mine", "none"}, 3)
    OBVIOUS
  <2>2. PICK m \in 0..3 : kinds \in [1..m -> {"claude", "codex", "mine", "none"}]
    BY <2>1 DEF SeqOf
  <2>3. kinds \in [1..m -> STRING]
    BY <2>2, TeamSpecAssumption
  <2>4. kinds \in Seq(STRING)
    BY <2>3, SeqDef
  <2> QED BY <2>1, <2>4 DEF SoundSource, WrittenAsKinds
<1> DEFINE names == {<<"x">>, <<"y">>, <<"..">>, God, All}
           files == {<<"b">>, <<"/", "b">>, <<"gone">>}
           raws == RawWorker(names, {"claude", "mine", "codex"}, {"builder", "worker"},
                             {Missing, TRUE, FALSE}, {Missing, "", "b"}, files)
<1>2. names \subseteq Seq(STRING \cup Nat) /\ files \subseteq Paths
  <2>1. {"x", "y", "..", "god", "all", "b", "/", "gone"} \subseteq STRING
    BY TeamSpecAssumption
  <2>2. <<"x">> \in Seq(STRING \cup Nat) /\ <<"y">> \in Seq(STRING \cup Nat) /\ <<"..">> \in Seq(STRING \cup Nat)
    BY <2>1, ShortLists
  <2>3. God \in Seq(STRING \cup Nat) /\ All \in Seq(STRING \cup Nat)
    BY <2>1, ShortLists DEF God, All
  <2>5. "b" \in STRING /\ "/" \in STRING /\ "gone" \in STRING
    BY <2>1
  <2>4. <<"b">> \in Paths /\ <<"/", "b">> \in Paths /\ <<"gone">> \in Paths
    BY <2>5, ShortPaths
  <2> QED BY <2>2, <2>3, <2>4
<1>3. raws \subseteq RawWorkers
  <2>1. {"claude", "mine", "codex", "builder", "worker", "", "b"} \subseteq STRING
    BY TeamSpecAssumption
  <2> HIDE DEF names, files
  <2> QED BY <1>2, <2>1 DEF RawWorker, RawWorkers
<1>4. \A workers \in Written : \/ workers = <<>>
                               \/ \E w \in raws : workers = <<w>>
                               \/ \E v, w \in raws : workers = <<v, w>>
  <2> DEFINE one == RawWorker({<<"x">>, <<"..">>}, {"claude", "mine"}, {"builder", "worker"},
                              {Missing, TRUE, FALSE}, {Missing, "", "b"},
                              {<<"b">>, <<"/", "b">>, <<"gone">>})
             two == RawWorker({<<"x">>, <<"y">>}, {"codex", "mine"}, {"builder"},
                              {Missing, FALSE}, {Missing, "b"}, {<<"b">>})
             reserved == RawWorker({God, All}, {"claude"}, {"worker"}, {Missing}, {Missing}, {<<"b">>})
  <2>1. one \subseteq raws /\ two \subseteq raws /\ reserved \subseteq raws
    <3>1. one \subseteq raws
      BY DEF RawWorker
    <3>2. two \subseteq raws
      BY DEF RawWorker
    <3>3. reserved \subseteq raws
      BY DEF RawWorker
    <3> QED BY <3>1, <3>2, <3>3
  <2>2. Written = {<<>>} \cup {<<w>> : w \in one} \cup {<<v, w>> : v, w \in two} \cup {<<v, w>> : v, w \in reserved}
    BY DEF Written
  <2> HIDE DEF one, two, reserved, raws
  <2> SUFFICES ASSUME NEW workers \in Written
               PROVE  \/ workers = <<>>
                      \/ \E w \in raws : workers = <<w>>
                      \/ \E v, w \in raws : workers = <<v, w>>
    OBVIOUS
  <2>3. CASE workers = <<>>
    BY <2>3
  <2>4. CASE \E w \in one : workers = <<w>>
    BY <2>1, <2>4
  <2>5. CASE \E v, w \in two : workers = <<v, w>>
    BY <2>1, <2>5
  <2>6. CASE \E v, w \in reserved : workers = <<v, w>>
    BY <2>1, <2>6
  <2> QED BY <2>2, <2>3, <2>4, <2>5, <2>6
<1>5. Written \subseteq Seq(RawWorkers)
  <2> HIDE DEF raws
  <2> SUFFICES ASSUME NEW workers \in Written PROVE workers \in Seq(RawWorkers)
    OBVIOUS
  <2>1. CASE workers = <<>>
    BY <2>1
  <2>2. CASE \E w \in raws : workers = <<w>>
    BY <1>3, <2>2, ShortLists
  <2>3. CASE \E v, w \in raws : workers = <<v, w>>
    BY <1>3, <2>3, ShortLists
  <2> QED BY <1>4, <2>1, <2>2, <2>3
<1>6. /\ SpecFile \in Paths /\ HasName(SpecFile)
      /\ <<"team.toml">> \in Paths /\ HasName(<<"team.toml">>)
      /\ <<"/", "home">> \in Paths
  <2>1. "/" \in STRING /\ "spec" \in STRING /\ "team.toml" \in STRING /\ "home" \in STRING
    BY TeamSpecAssumption
  <2>2. PICK file : file = SpecFile
    OBVIOUS
  <2>3. file \in Paths /\ Len(file) = 3 /\ file[3] = "team.toml" /\ file # <<>>
    BY <2>1, <2>2, ShortPaths DEF SpecFile
  <2>4. PICK short : short = <<"team.toml">>
    OBVIOUS
  <2>5. short \in Paths /\ Len(short) = 1 /\ short[1] = "team.toml" /\ short # <<>>
    BY <2>1, <2>4, ShortPaths
  <2>6. <<"/", "home">> \in Paths
    BY <2>1, ShortPaths
  <2> QED BY <2>2, <2>3, <2>4, <2>5, <2>6 DEF HasName
<1>7. ASSUME NEW source \in [file : {SpecFile, <<"team.toml">>},
                             raw : [cwd : {Missing, <<"/", "home">>}, workers : Written]]
      PROVE  SoundSource(source)
  <2>1. source \in [file : Paths, raw : [cwd : Paths \cup {Missing}, workers : Seq(RawWorkers)]]
    BY <1>5, <1>6, <1>7
  <2>2. HasName(source.file)
    BY <1>6, <1>7
  <2> QED BY <2>1, <2>2 DEF SoundSource, WrittenInFile
<1> QED BY <1>1, <1>7 DEF Sources

(* So is where spawn is called. *)
LEMMA EnvsAreSound == \A env \in Envs : SoundEnv(env)
<1> SUFFICES ASSUME NEW env \in Envs PROVE SoundEnv(env)
  OBVIOUS
<1> DEFINE home == <<"/", "home">>
           spec == <<"/", "spec">>
<1>1. env.dirs = {home, spec} /\ env.cwd \in env.dirs
      /\ DOMAIN env = {"cwd", "dirs", "files", "table", "installed"}
  BY DEF Envs
<1>2. ASSUME NEW name \in {"home", "spec"}
      PROVE  /\ <<"/", name>> \in Paths /\ Absolute(<<"/", name>>) /\ Plain(<<"/", name>>) = <<"/", name>>
             /\ \A i \in Nat : ScratchBrief(i) # <<"/", name>>
  <2>1. "/" \in STRING /\ name \in STRING /\ "tmp" \in STRING /\ "I" \in STRING
    BY TeamSpecAssumption
  <2>2. PICK path : path = <<"/", name>>
    OBVIOUS
  <2>3. path \in Paths /\ Len(path) = 2 /\ path # <<>> /\ path[1] = "/" /\ path[2] = name
    BY <2>1, <2>2, ShortPaths
  <2>4. \A i \in 1..Len(path) : path[i] # "."
    BY <2>3
  <2>5. Plain(path) = path
    BY <2>3, <2>4, PlainSame
  <2>6. ASSUME NEW i \in Nat PROVE ScratchBrief(i)[2] = "tmp"
    <3>1. PICK root, strokes : root = <<"/", "tmp">> /\ strokes = [n \in 1..i |-> "I"]
      OBVIOUS
    <3>2. root \in Seq(STRING) /\ Len(root) = 2 /\ root[2] = "tmp"
      BY <2>1, <3>1, ShortLists
    <3>3. strokes \in Seq(STRING) /\ Len(strokes) = i
      <4>1. strokes \in [1..i -> STRING]
        BY <2>1, <3>1
      <4>2. strokes \in Seq(STRING)
        BY <4>1, SeqDef
      <4> QED BY <3>1, <4>2
    <3>4. (root \o strokes)[2] = root[2]
      <4>1. \A n \in 1..(Len(root) + Len(strokes)) :
               (root \o strokes)[n] = IF n =< Len(root) THEN root[n] ELSE strokes[n - Len(root)]
        BY <3>2, <3>3, ConcatProperties
      <4>2. 2 \in 1..(Len(root) + Len(strokes)) /\ 2 =< Len(root)
        BY <3>2, <3>3
      <4> QED BY <4>1, <4>2
    <3> QED BY <3>1, <3>2, <3>4 DEF ScratchBrief
  <2>7. \A i \in Nat : ScratchBrief(i) # path
    BY <2>3, <2>6
  <2> QED BY <2>2, <2>3, <2>5, <2>7 DEF Absolute
<1>3. env.table \in {Missing, Refused} \/ \A kind \in DOMAIN env.table : env.table[kind].command \in Seq(STRING)
  <2>1. "mine" \in STRING /\ "claude" \in STRING
    BY TeamSpecAssumption
  <2>2. <<"mine">> \in Seq(STRING) /\ <<"claude">> \in Seq(STRING) /\ <<>> \in Seq(STRING)
    BY <2>1, ShortLists
  <2>3. PICK table : table = env.table
    OBVIOUS
  <2>4. CASE table = [kind \in {"mine"} |-> Launcher(<<"mine">>)]
    <3>1. ASSUME NEW kind \in DOMAIN table PROVE table[kind].command = <<"mine">>
      BY <2>4 DEF Launcher
    <3> QED BY <2>2, <2>3, <3>1
  <2>5. CASE table = [kind \in {"mine", "codex"} |-> Launcher(IF kind = "mine" THEN <<>> ELSE <<"claude">>)]
    <3>1. ASSUME NEW kind \in DOMAIN table PROVE table[kind].command \in {<<>>, <<"claude">>}
      BY <2>5 DEF Launcher
    <3> QED BY <2>2, <2>3, <3>1
  <2> QED BY <2>3, <2>4, <2>5 DEF Envs
<1> HIDE DEF home, spec
<1>4. ASSUME NEW dir \in env.dirs
      PROVE  dir \in Paths /\ Absolute(dir) /\ Plain(dir) = dir /\ \A i \in Nat : ScratchBrief(i) # dir
  BY <1>1, <1>2 DEF home, spec
<1> QED BY <1>1, <1>3, <1>4 DEF SoundEnv

(* So every team the runs start from is. *)
LEMMA TeamsStart == TeamsCanStart
BY TeamsStartSoundly, SourcesAreSound, EnvsAreSound DEF TeamsCanStart

(***************************************************************************)
(* What spawn takes from the user, before it creates anything, is a team   *)
(* it can launch and msg can reach.                                        *)
(***************************************************************************)
THEOREM StartsSound == Spec => []StartsFromSoundTeams
<1>1. StartsFromSoundTeams
  BY TeamsStart DEF StartsFromSoundTeams
<1> QED BY <1>1, PTL
=============================================================================
