----------------------------- MODULE GodProofs ------------------------------
(***************************************************************************)
(* What GodCli says of the verdicts of `wait` and of the read markers of   *)
(* `report`, for any number of workers, waits and reports; below, what     *)
(* Focus says of the focus pane and of `jump`, for any number of both and  *)
(* whatever the sources of the queue hold; and, last, what CommandLine     *)
(* says of the lines the commands take, for lines of any length.           *)
(***************************************************************************)
EXTENDS MCGodCli, Focus, FiniteSetTheorems, SequenceTheorems, WellFoundedInduction, TLAPS

(* No worker starts a finished report over. *)
ReportsFinal == "rewrite" \notin Faults

(* No report is written twice within the resolution of its mtime. *)
ClockTicks == "tick" \notin Faults

-----------------------------------------------------------------------------
(* The invariants. *)

WaitTyped ==
    /\ runLife \in {"active", "ended"}
    /\ life \in [Workers -> Lives]
    /\ inbox = [w \in Workers |-> inbox[w]]
    /\ until \in [Waiters -> Untils]
    /\ wpc \in [Waiters -> {"start", "board", "reports", "decide", "sleep", "done"}]
    /\ snap \in [Waiters -> Snapshots]
    /\ unread \in [Waiters -> SUBSET Workers]
    /\ \A v \in Waiters : unread[v] # {} => wpc[v] = "reports"
    /\ verdict \in [Waiters -> Verdicts]

(* What a snapshot says of a worker that is over, and of a finished report, *)
(* stays true, however long ago it was read.                                *)
SnapHolds ==
    \A v \in Waiters, w \in Workers :
        /\ snap[v].life[w] = "over" => life[w] = "over"
        /\ w \in snap[v].ready => inbox[w].ready

(* A worker that was over before its report was looked at has finished it *)
(* since only if its agent went on.                                       *)
DeadUnfinished ==
    \A v \in Waiters, w \in Workers :
        snap[v].life[w] = "over" /\ w \notin unread[v] \cup snap[v].ready
            => (inbox[w].ready => w \in late)

WaitInv == WaitTyped /\ SnapHolds /\ DeadUnfinished /\ DeadIsDead /\ ReachedMeansReady

ReadTyped ==
    /\ marker \in [Workers -> Nat]
    /\ inbox \in [Workers -> [version : Nat, mtime : Nat, ready : BOOLEAN]]
    /\ rpc \in [Readers -> {"off", "mark", "print", "done", "died"}]
    /\ DOMAIN rof = Readers
    /\ \A r \in Readers : rpc[r] # "off" => rof[r] \in Workers
    /\ rtime \in [Readers -> Nat]
    /\ seen \in [Workers -> Nat]

(* The mtime tells the versions of a report apart, and none is read from the future. *)
Dated ==
    /\ \A w \in Workers : inbox[w].mtime = inbox[w].version /\ marker[w] <= inbox[w].version
    /\ \A r \in Readers : rpc[r] = "mark" => rtime[r] <= inbox[rof[r]].version

(* A marker is ahead of what was printed only while some `report` owes the print. *)
MarkerOwed ==
    \A w \in Workers : marker[w] > seen[w] =>
        \E r \in Readers : rof[r] = w /\ rpc[r] \in {"print", "died"}

ReadInv == ReadTyped /\ Dated /\ MarkerOwed

-----------------------------------------------------------------------------
(* What a step keeps. *)

(* A wait for a report names its worker. *)
LEMMA ReportsNameWorkers ==
    ASSUME NEW u \in Untils, u[1] = "report"
    PROVE  u[2] \in Workers
<1>1. CASE \E x \in Workers : u = <<"report", x>>
  <2>1. PICK x \in Workers : u = <<"report", x>>
    BY <1>1
  <2> QED BY <2>1
<1>2. CASE \E c \in {"any", "all", "signal", "terminal"} : u = <<c, "any worker">>
  <2>1. PICK c \in {"any", "all", "signal", "terminal"} : u = <<c, "any worker">>
    BY <1>2
  <2>2. u[1] = c
    BY <2>1
  <2> QED BY <2>1, <2>2
<1> QED BY <1>1, <1>2 DEF Untils

(* What is read into a snapshot leaves it one. *)
LEMMA SnapshotsUpdated ==
    ASSUME NEW s \in Snapshots, NEW b \in BOOLEAN, NEW R \in SUBSET Workers
    PROVE  [s EXCEPT !.signal = b] \in Snapshots /\ [s EXCEPT !.ready = R] \in Snapshots
<1>1. s = [runLife |-> s.runLife, life |-> s.life, signal |-> s.signal, ready |-> s.ready]
  BY DEF Snapshots
<1> QED BY <1>1 DEF Snapshots

(* The waits read and say what they may. *)
LEMMA StepKeepsTypes ==
    ASSUME WaitTyped, [Next]_vars
    PROVE  WaitTyped'
<1> USE GodCliAssumption DEF WaitTyped, Lives, Snapshots, Untils, Verdicts, board, work, waits,
        reads
<1>1. ASSUME NEW w \in Workers, WritesPart(w) PROVE WaitTyped'
  BY <1>1 DEF WritesPart, Writes
<1>2. ASSUME NEW w \in Workers, FinishesReport(w) PROVE WaitTyped'
  BY <1>2 DEF FinishesReport, Writes
<1>3. ASSUME NEW w \in Workers, WorkerOver(w) PROVE WaitTyped'
  BY <1>3 DEF WorkerOver
<1>4. ASSUME NEW w \in Workers, LaunchFails(w) PROVE WaitTyped'
  BY <1>4 DEF LaunchFails
<1>5. ASSUME RunKilled PROVE WaitTyped'
  BY <1>5 DEF RunKilled
<1>6. ASSUME NEW v \in Waiters, StartWait(v) PROVE WaitTyped'
  BY <1>6 DEF StartWait, WaitGoes
<1>7. ASSUME NEW v \in Waiters, LoadBoard(v) PROVE WaitTyped'
  <2>1. PICK signal \in {FALSE, until[v][1] = "signal"} : snap' = [snap EXCEPT ![v] =
            [Blank EXCEPT !.runLife = runLife, !.life = life, !.signal = signal]]
    BY <1>7 DEF LoadBoard
  <2>2. signal \in BOOLEAN
    OBVIOUS
  <2> DEFINE new == [Blank EXCEPT !.runLife = runLife, !.life = life, !.signal = signal]
  <2>3. new \in Snapshots
    BY <2>2 DEF Blank, Snapshots
  <2> HIDE DEF new
  <2>4. snap' \in [Waiters -> Snapshots]
    BY <2>1, <2>3 DEF new
  <2> QED BY <1>7, <2>4 DEF LoadBoard, WaitGoes
<1>8. ASSUME NEW v \in Waiters, NEW w \in Workers, LoadReport(v, w) PROVE WaitTyped'
  <2> DEFINE new == [snap[v] EXCEPT !.ready = IF ReportReady(w) THEN @ \cup {w} ELSE @]
  <2>1. new \in Snapshots
    <3>1. snap[v] \in Snapshots /\ snap[v].ready \in SUBSET Workers
      BY DEF WaitTyped, Snapshots
    <3>2. (IF ReportReady(w) THEN snap[v].ready \cup {w} ELSE snap[v].ready) \in SUBSET Workers
      BY <3>1
    <3> QED BY <3>1, <3>2, SnapshotsUpdated
  <2>2. snap' = [snap EXCEPT ![v] = new]
    BY <1>8 DEF LoadReport
  <2>3. snap' \in [Waiters -> Snapshots]
    BY <2>1, <2>2
  <2>4. /\ unread' \in [Waiters -> SUBSET Workers]
        /\ \A x \in Waiters : unread'[x] # {} => wpc'[x] = "reports"
        /\ wpc' \in [Waiters ->
                        {"start", "board", "reports", "decide", "sleep", "done"}]
    BY <1>8 DEF LoadReport, WaitGoes
  <2> QED BY <1>8, <2>3, <2>4 DEF LoadReport, WaitGoes
<1>9. ASSUME NEW v \in Waiters, VerdictInactive(v) PROVE WaitTyped'
  BY <1>9 DEF VerdictInactive, WaitGoes, Says, Blank
<1>10. ASSUME NEW v \in Waiters, VerdictDead(v) PROVE WaitTyped'
  <2>1. PICK w \in DeadWorkers(snap[v], until[v]) : Says(v, <<"dead", w>>)
    BY <1>10 DEF VerdictDead
  <2>2. w \in Workers
    BY <2>1 DEF DeadWorkers, TerminalIn
  <2>3. Blank \in Snapshots /\ <<"dead", w>> \in Verdicts
    BY <2>2 DEF Blank, Snapshots, Lives, Verdicts
  <2> QED BY <1>10, <2>1, <2>3 DEF VerdictDead, WaitGoes, Says
<1>11. ASSUME NEW v \in Waiters, VerdictReached(v) PROVE WaitTyped'
  BY <1>11 DEF VerdictReached, WaitGoes, Says, Blank
<1>12. ASSUME NEW v \in Waiters, KeepsWaiting(v) PROVE WaitTyped'
  BY <1>12 DEF KeepsWaiting, WaitGoes, Blank
<1>13. ASSUME NEW v \in Waiters, PollAgain(v) PROVE WaitTyped'
  BY <1>13 DEF PollAgain, WaitGoes
<1>14. ASSUME NEW v \in Waiters, TimesOut(v) PROVE WaitTyped'
  BY <1>14 DEF TimesOut, WaitGoes, Says, Blank
<1>15. ASSUME NEW r \in Readers, NEW w \in Workers, StatReport(r, w) PROVE WaitTyped'
  BY <1>15 DEF StatReport, ReportGoes
<1>16. ASSUME NEW r \in Readers, MarkRead(r) PROVE WaitTyped'
  BY <1>16 DEF MarkRead, ReportGoes
<1>17. ASSUME NEW r \in Readers, PrintReport(r) PROVE WaitTyped'
  BY <1>17 DEF PrintReport, ReportGoes
<1>18. ASSUME NEW r \in Readers, ReportDies(r) PROVE WaitTyped'
  BY <1>18 DEF ReportDies, ReportGoes
<1>19. CASE UNCHANGED vars
  BY <1>19 DEF vars
<1> QED BY <1>1, <1>2, <1>3, <1>4, <1>5, <1>6, <1>7, <1>8, <1>9, <1>10, <1>11, <1>12,
        <1>13, <1>14, <1>15, <1>16, <1>17, <1>18, <1>19 DEF Next, Wait, Report

(* No report is unwritten, and no worker comes back. *)
LEMMA StepKeepsSnapshots ==
    ASSUME ReportsFinal, WaitTyped, SnapHolds, DeadUnfinished, [Next]_vars
    PROVE  SnapHolds' /\ DeadUnfinished'
<1> USE GodCliAssumption DEF WaitTyped, Lives, Snapshots, ReportsFinal, SnapHolds,
        DeadUnfinished, board, work, waits, reads
<1>1. ASSUME NEW w \in Workers, WritesPart(w) PROVE SnapHolds' /\ DeadUnfinished'
  BY <1>1 DEF WritesPart, Writes
<1>2. ASSUME NEW w \in Workers, FinishesReport(w) PROVE SnapHolds' /\ DeadUnfinished'
  BY <1>2 DEF FinishesReport, Writes
<1>3. ASSUME NEW w \in Workers, WorkerOver(w) PROVE SnapHolds' /\ DeadUnfinished'
  BY <1>3 DEF WorkerOver
<1>4. ASSUME NEW w \in Workers, LaunchFails(w) PROVE SnapHolds' /\ DeadUnfinished'
  BY <1>4 DEF LaunchFails
<1>5. ASSUME RunKilled PROVE SnapHolds' /\ DeadUnfinished'
  BY <1>5 DEF RunKilled
<1>6. ASSUME NEW v \in Waiters, StartWait(v) PROVE SnapHolds' /\ DeadUnfinished'
  BY <1>6 DEF StartWait, WaitGoes
<1>7. ASSUME NEW v \in Waiters, LoadBoard(v) PROVE SnapHolds' /\ DeadUnfinished'
  BY <1>7 DEF LoadBoard, WaitGoes, Blank
<1>8. ASSUME NEW v \in Waiters, NEW w \in Workers, LoadReport(v,
        w) PROVE SnapHolds' /\ DeadUnfinished'
  BY <1>8 DEF LoadReport, WaitGoes, ReportReady
<1>9. ASSUME NEW v \in Waiters, VerdictInactive(v) PROVE SnapHolds' /\ DeadUnfinished'
  BY <1>9 DEF VerdictInactive, WaitGoes, Says, Blank
<1>10. ASSUME NEW v \in Waiters, VerdictDead(v) PROVE SnapHolds' /\ DeadUnfinished'
  BY <1>10 DEF VerdictDead, WaitGoes, Says, Blank
<1>11. ASSUME NEW v \in Waiters, VerdictReached(v) PROVE SnapHolds' /\ DeadUnfinished'
  BY <1>11 DEF VerdictReached, WaitGoes, Says, Blank
<1>12. ASSUME NEW v \in Waiters, KeepsWaiting(v) PROVE SnapHolds' /\ DeadUnfinished'
  BY <1>12 DEF KeepsWaiting, WaitGoes, Blank
<1>13. ASSUME NEW v \in Waiters, PollAgain(v) PROVE SnapHolds' /\ DeadUnfinished'
  BY <1>13 DEF PollAgain, WaitGoes
<1>14. ASSUME NEW v \in Waiters, TimesOut(v) PROVE SnapHolds' /\ DeadUnfinished'
  BY <1>14 DEF TimesOut, WaitGoes, Says, Blank
<1>15. ASSUME NEW r \in Readers, NEW w \in Workers,
        StatReport(r, w) PROVE SnapHolds' /\ DeadUnfinished'
  BY <1>15 DEF StatReport, ReportGoes
<1>16. ASSUME NEW r \in Readers, MarkRead(r) PROVE SnapHolds' /\ DeadUnfinished'
  BY <1>16 DEF MarkRead, ReportGoes
<1>17. ASSUME NEW r \in Readers, PrintReport(r) PROVE SnapHolds' /\ DeadUnfinished'
  BY <1>17 DEF PrintReport, ReportGoes
<1>18. ASSUME NEW r \in Readers, ReportDies(r) PROVE SnapHolds' /\ DeadUnfinished'
  BY <1>18 DEF ReportDies, ReportGoes
<1>19. CASE UNCHANGED vars
  BY <1>19 DEF vars
<1> QED BY <1>1, <1>2, <1>3, <1>4, <1>5, <1>6, <1>7, <1>8, <1>9, <1>10, <1>11, <1>12,
        <1>13, <1>14, <1>15, <1>16, <1>17, <1>18, <1>19 DEF Next, Wait, Report

(* A verdict of death is given by a snapshot with every report. *)
LEMMA StepKeepsDead ==
    ASSUME ReportsFinal, WaitTyped, SnapHolds, DeadUnfinished, DeadIsDead, [Next]_vars
    PROVE  DeadIsDead'
<1> USE GodCliAssumption DEF WaitTyped, Lives, Snapshots, ReportsFinal, DeadIsDead, board,
        work, waits, reads
<1>1. ASSUME NEW w \in Workers, WritesPart(w) PROVE DeadIsDead'
  BY <1>1 DEF WritesPart, Writes
<1>2. ASSUME NEW w \in Workers, FinishesReport(w) PROVE DeadIsDead'
  BY <1>2 DEF FinishesReport, Writes
<1>3. ASSUME NEW w \in Workers, WorkerOver(w) PROVE DeadIsDead'
  BY <1>3 DEF WorkerOver
<1>4. ASSUME NEW w \in Workers, LaunchFails(w) PROVE DeadIsDead'
  BY <1>4 DEF LaunchFails
<1>5. ASSUME RunKilled PROVE DeadIsDead'
  BY <1>5 DEF RunKilled
<1>6. ASSUME NEW v \in Waiters, StartWait(v) PROVE DeadIsDead'
  BY <1>6 DEF StartWait, WaitGoes
<1>7. ASSUME NEW v \in Waiters, LoadBoard(v) PROVE DeadIsDead'
  BY <1>7 DEF LoadBoard, WaitGoes, Blank
<1>8. ASSUME NEW v \in Waiters, NEW w \in Workers, LoadReport(v, w) PROVE DeadIsDead'
  <2>1. UNCHANGED <<verdict, life, inbox, late>>
    BY <1>8 DEF LoadReport, WaitGoes
  <2> QED BY <2>1
<1>9. ASSUME NEW v \in Waiters, VerdictInactive(v) PROVE DeadIsDead'
  BY <1>9, ZenonT(40) DEF VerdictInactive, WaitGoes, Says, Blank
<1>10. ASSUME NEW v \in Waiters, VerdictDead(v) PROVE DeadIsDead'
  <2>1. PICK w \in DeadWorkers(snap[v], until[v]) : Says(v, <<"dead", w>>)
    BY <1>10 DEF VerdictDead
  <2>2. w \in Workers /\ snap[v].life[w] = "over" /\ w \notin snap[v].ready
    BY <2>1 DEF DeadWorkers, TerminalIn
  <2>3. unread[v] = {} /\ UNCHANGED <<life, inbox, late>>
    BY <1>10 DEF VerdictDead, WaitGoes
  <2>4. life[w] = "over" /\ (inbox[w].ready => w \in late)
    BY <2>2, <2>3 DEF SnapHolds, DeadUnfinished
  <2>5. verdict' = [verdict EXCEPT ![v] = <<"dead", w>>]
    BY <2>1 DEF Says
  <2> QED BY <2>2, <2>3, <2>4, <2>5
<1>11. ASSUME NEW v \in Waiters, VerdictReached(v) PROVE DeadIsDead'
  <2>1. UNCHANGED <<life, inbox, late>> /\ verdict' = [verdict EXCEPT ![v] = <<"reached">>]
    BY <1>11 DEF VerdictReached, WaitGoes, Says
  <2>2. \A w \in Workers : <<"reached">> # <<"dead", w>>
    OBVIOUS
  <2> QED BY <2>1, <2>2
<1>12. ASSUME NEW v \in Waiters, KeepsWaiting(v) PROVE DeadIsDead'
  BY <1>12 DEF KeepsWaiting, WaitGoes, Blank
<1>13. ASSUME NEW v \in Waiters, PollAgain(v) PROVE DeadIsDead'
  BY <1>13 DEF PollAgain, WaitGoes
<1>14. ASSUME NEW v \in Waiters, TimesOut(v) PROVE DeadIsDead'
  BY <1>14 DEF TimesOut, WaitGoes, Says, Blank
<1>15. ASSUME NEW r \in Readers, NEW w \in Workers, StatReport(r, w) PROVE DeadIsDead'
  BY <1>15 DEF StatReport, ReportGoes
<1>16. ASSUME NEW r \in Readers, MarkRead(r) PROVE DeadIsDead'
  BY <1>16 DEF MarkRead, ReportGoes
<1>17. ASSUME NEW r \in Readers, PrintReport(r) PROVE DeadIsDead'
  BY <1>17 DEF PrintReport, ReportGoes
<1>18. ASSUME NEW r \in Readers, ReportDies(r) PROVE DeadIsDead'
  BY <1>18 DEF ReportDies, ReportGoes
<1>19. CASE UNCHANGED vars
  BY <1>19 DEF vars
<1> QED BY <1>1, <1>2, <1>3, <1>4, <1>5, <1>6, <1>7, <1>8, <1>9, <1>10, <1>11, <1>12,
        <1>13, <1>14, <1>15, <1>16, <1>17, <1>18, <1>19 DEF Next, Wait, Report

(* The reports a verdict was reached for are finished. *)
LEMMA StepKeepsReached ==
    ASSUME ReportsFinal, WaitTyped, SnapHolds, ReachedMeansReady, [Next]_vars
    PROVE  ReachedMeansReady'
<1> USE GodCliAssumption DEF WaitTyped, Lives, Snapshots, ReportsFinal, ReachedMeansReady,
        board, work, waits, reads
<1>1. ASSUME NEW w \in Workers, WritesPart(w) PROVE ReachedMeansReady'
  <2>1. PICK t : inbox' = [inbox EXCEPT ![w] = [version |-> @.version + 1, mtime |-> t,
          ready |-> FALSE]]
    BY <1>1 DEF WritesPart, Writes
  <2>2. UNCHANGED <<until, verdict>>
    BY <1>1 DEF WritesPart, Writes
  <2>3. \A x \in Workers : inbox[x].ready => inbox'[x].ready
    BY <1>1, <2>1 DEF WritesPart
  <2>4. ASSUME NEW v \in Waiters, until[v][1] = "report" PROVE until[v][2] \in Workers
    <3>1. until[v] \in Untils
      BY DEF WaitTyped
    <3> QED BY <2>4, <3>1, ReportsNameWorkers
  <2> QED BY <2>2, <2>3, <2>4
<1>2. ASSUME NEW w \in Workers, FinishesReport(w) PROVE ReachedMeansReady'
  <2>1. PICK t : inbox' = [inbox EXCEPT ![w] = [version |-> @.version + 1, mtime |-> t,
          ready |-> TRUE]]
    BY <1>2 DEF FinishesReport, Writes
  <2>2. UNCHANGED <<until, verdict>>
    BY <1>2 DEF FinishesReport, Writes
  <2>3. \A x \in Workers : inbox[x].ready => inbox'[x].ready
    BY <1>2, <2>1 DEF FinishesReport
  <2>4. ASSUME NEW v \in Waiters, until[v][1] = "report" PROVE until[v][2] \in Workers
    <3>1. until[v] \in Untils
      BY DEF WaitTyped
    <3> QED BY <2>4, <3>1, ReportsNameWorkers
  <2> QED BY <2>2, <2>3, <2>4
<1>3. ASSUME NEW w \in Workers, WorkerOver(w) PROVE ReachedMeansReady'
  BY <1>3 DEF WorkerOver
<1>4. ASSUME NEW w \in Workers, LaunchFails(w) PROVE ReachedMeansReady'
  BY <1>4 DEF LaunchFails
<1>5. ASSUME RunKilled PROVE ReachedMeansReady'
  BY <1>5 DEF RunKilled
<1>6. ASSUME NEW v \in Waiters, StartWait(v) PROVE ReachedMeansReady'
  BY <1>6 DEF StartWait, WaitGoes
<1>7. ASSUME NEW v \in Waiters, LoadBoard(v) PROVE ReachedMeansReady'
  BY <1>7 DEF LoadBoard, WaitGoes, Blank
<1>8. ASSUME NEW v \in Waiters, NEW w \in Workers, LoadReport(v, w) PROVE ReachedMeansReady'
  BY <1>8 DEF LoadReport, WaitGoes, ReportReady
<1>9. ASSUME NEW v \in Waiters, VerdictInactive(v) PROVE ReachedMeansReady'
  BY <1>9 DEF VerdictInactive, WaitGoes, Says, Blank
<1>10. ASSUME NEW v \in Waiters, VerdictDead(v) PROVE ReachedMeansReady'
  <2>1. PICK w \in DeadWorkers(snap[v], until[v]) : Says(v, <<"dead", w>>)
    BY <1>10 DEF VerdictDead
  <2>2. w \in Workers
    BY <2>1 DEF DeadWorkers, TerminalIn
  <2>3. UNCHANGED <<until, inbox>> /\ verdict' = [verdict EXCEPT ![v] = <<"dead", w>>]
    BY <1>10, <2>1 DEF VerdictDead, WaitGoes, Says
  <2>4. <<"reached">> # <<"dead", w>>
    OBVIOUS
  <2> QED BY <2>3, <2>4
<1>11. ASSUME NEW v \in Waiters, VerdictReached(v) PROVE ReachedMeansReady'
  <2>1. ConditionMet(snap[v], until[v]) /\ UNCHANGED <<until, inbox>>
    BY <1>11 DEF VerdictReached, WaitGoes
  <2>2. verdict' = [verdict EXCEPT ![v] = <<"reached">>]
    BY <1>11 DEF VerdictReached, Says
  <2>3. until[v] \in Untils /\ snap[v].ready \subseteq {w \in Workers : inbox[w].ready}
    BY DEF SnapHolds
  <2>4. until[v][1] = "all" => \A w \in Workers : inbox[w].ready
    BY <2>1, <2>3 DEF ConditionMet
  <2>5. until[v][1] = "report" => inbox[until[v][2]].ready
    BY <2>1, <2>3 DEF ConditionMet
  <2>6. ASSUME until[v][1] = "any" PROVE \E w \in Workers : inbox[w].ready
    <3>1. snap[v].ready # {}
      BY <2>1, <2>6 DEF ConditionMet
    <3> QED BY <2>3, <3>1
  <2> QED BY <2>1, <2>2, <2>4, <2>5, <2>6
<1>12. ASSUME NEW v \in Waiters, KeepsWaiting(v) PROVE ReachedMeansReady'
  BY <1>12 DEF KeepsWaiting, WaitGoes, Blank
<1>13. ASSUME NEW v \in Waiters, PollAgain(v) PROVE ReachedMeansReady'
  BY <1>13 DEF PollAgain, WaitGoes
<1>14. ASSUME NEW v \in Waiters, TimesOut(v) PROVE ReachedMeansReady'
  BY <1>14 DEF TimesOut, WaitGoes, Says, Blank
<1>15. ASSUME NEW r \in Readers, NEW w \in Workers, StatReport(r, w) PROVE ReachedMeansReady'
  BY <1>15 DEF StatReport, ReportGoes
<1>16. ASSUME NEW r \in Readers, MarkRead(r) PROVE ReachedMeansReady'
  BY <1>16 DEF MarkRead, ReportGoes
<1>17. ASSUME NEW r \in Readers, PrintReport(r) PROVE ReachedMeansReady'
  BY <1>17 DEF PrintReport, ReportGoes
<1>18. ASSUME NEW r \in Readers, ReportDies(r) PROVE ReachedMeansReady'
  BY <1>18 DEF ReportDies, ReportGoes
<1>19. CASE UNCHANGED vars
  BY <1>19 DEF vars
<1> QED BY <1>1, <1>2, <1>3, <1>4, <1>5, <1>6, <1>7, <1>8, <1>9, <1>10, <1>11, <1>12,
        <1>13, <1>14, <1>15, <1>16, <1>17, <1>18, <1>19 DEF Next, Wait, Report

(* A marker is set to a time read before, and paid by a print. *)
LEMMA StepKeepsMarkers ==
    ASSUME ClockTicks, ReadInv, [Next]_vars
    PROVE  ReadInv'
<1> USE GodCliAssumption DEF ClockTicks, ReadInv, ReadTyped, Dated, MarkerOwed, board, work,
        waits, reads
<1>1. ASSUME NEW w \in Workers, WritesPart(w) PROVE ReadInv'
  BY <1>1 DEF WritesPart, Writes
<1>2. ASSUME NEW w \in Workers, FinishesReport(w) PROVE ReadInv'
  BY <1>2 DEF FinishesReport, Writes
<1>3. ASSUME NEW w \in Workers, WorkerOver(w) PROVE ReadInv'
  BY <1>3 DEF WorkerOver
<1>4. ASSUME NEW w \in Workers, LaunchFails(w) PROVE ReadInv'
  BY <1>4 DEF LaunchFails
<1>5. ASSUME RunKilled PROVE ReadInv'
  BY <1>5 DEF RunKilled
<1>6. ASSUME NEW v \in Waiters, StartWait(v) PROVE ReadInv'
  BY <1>6 DEF StartWait, WaitGoes
<1>7. ASSUME NEW v \in Waiters, LoadBoard(v) PROVE ReadInv'
  BY <1>7 DEF LoadBoard, WaitGoes, Blank
<1>8. ASSUME NEW v \in Waiters, NEW w \in Workers, LoadReport(v, w) PROVE ReadInv'
  BY <1>8 DEF LoadReport, WaitGoes, ReportReady
<1>9. ASSUME NEW v \in Waiters, VerdictInactive(v) PROVE ReadInv'
  BY <1>9 DEF VerdictInactive, WaitGoes, Says, Blank
<1>10. ASSUME NEW v \in Waiters, VerdictDead(v) PROVE ReadInv'
  BY <1>10 DEF VerdictDead, WaitGoes, Says, Blank
<1>11. ASSUME NEW v \in Waiters, VerdictReached(v) PROVE ReadInv'
  BY <1>11 DEF VerdictReached, WaitGoes, Says, Blank
<1>12. ASSUME NEW v \in Waiters, KeepsWaiting(v) PROVE ReadInv'
  BY <1>12 DEF KeepsWaiting, WaitGoes, Blank
<1>13. ASSUME NEW v \in Waiters, PollAgain(v) PROVE ReadInv'
  BY <1>13 DEF PollAgain, WaitGoes
<1>14. ASSUME NEW v \in Waiters, TimesOut(v) PROVE ReadInv'
  BY <1>14 DEF TimesOut, WaitGoes, Says, Blank
<1>15. ASSUME NEW r \in Readers, NEW w \in Workers, StatReport(r, w) PROVE ReadInv'
  BY <1>15 DEF StatReport, ReportGoes
<1>16. ASSUME NEW r \in Readers, MarkRead(r) PROVE ReadInv'
  BY <1>16 DEF MarkRead, ReportGoes
<1>17. ASSUME NEW r \in Readers, PrintReport(r) PROVE ReadInv'
  BY <1>17 DEF PrintReport, ReportGoes
<1>18. ASSUME NEW r \in Readers, ReportDies(r) PROVE ReadInv'
  BY <1>18 DEF ReportDies, ReportGoes
<1>19. CASE UNCHANGED vars
  BY <1>19 DEF vars
<1> QED BY <1>1, <1>2, <1>3, <1>4, <1>5, <1>6, <1>7, <1>8, <1>9, <1>10, <1>11, <1>12,
        <1>13, <1>14, <1>15, <1>16, <1>17, <1>18, <1>19 DEF Next, Wait, Report

-----------------------------------------------------------------------------
(* The results. *)

(* The invariants hold throughout, when no report that is finished is started over. *)
LEMMA WaitInvThroughout == ASSUME ReportsFinal PROVE Spec => []WaitInv
<1>1. Init => WaitInv
  <2> SUFFICES ASSUME Init PROVE WaitInv
    OBVIOUS
  <2>1. Blank \in Snapshots
    BY DEF Blank, Snapshots, Lives
  <2>2. WaitTyped
    BY <2>1 DEF Init, WaitTyped, Lives, Verdicts
  <2>3. SnapHolds /\ DeadUnfinished
    BY DEF Init, SnapHolds, DeadUnfinished, Blank
  <2>4. DeadIsDead /\ ReachedMeansReady
    <3>1. \A v \in Waiters, w \in Workers : verdict[v] # <<"dead", w>>
      BY DEF Init
    <3>2. \A v \in Waiters : verdict[v] # <<"reached">>
      BY DEF Init
    <3> QED BY <3>1, <3>2 DEF DeadIsDead, ReachedMeansReady
  <2> QED BY <2>2, <2>3, <2>4 DEF WaitInv
<1>2. WaitInv /\ [Next]_vars => WaitInv'
  BY ReportsFinal, StepKeepsTypes, StepKeepsSnapshots, StepKeepsDead, StepKeepsReached DEF WaitInv
<1> QED BY <1>1, <1>2, PTL DEF Spec

(* A wait calls a worker dead only if it died without a finished report, for *)
(* any number of workers, although it reads the board first and the reports  *)
(* one after another (god_cli.rs, wait_with).                                *)
THEOREM TheDeadAreDead ==
    ASSUME ReportsFinal
    PROVE  Spec => []DeadIsDead
<1>1. WaitInv => DeadIsDead
  BY DEF WaitInv
<1> QED BY ReportsFinal, <1>1, WaitInvThroughout, PTL

(* What a wait was reached for is there. *)
THEOREM TheReachedAreReady ==
    ASSUME ReportsFinal
    PROVE  Spec => []ReachedMeansReady
<1>1. WaitInv => ReachedMeansReady
  BY DEF WaitInv
<1> QED BY ReportsFinal, <1>1, WaitInvThroughout, PTL

(* A report is marked read only if it was given to the god, or the command   *)
(* that marked it is yet to print it or died: even if reports run at a time  *)
(* and overtake each other (god_cli.rs, report_command).                     *)
THEOREM TheReadWereSeen ==
    ASSUME ClockTicks
    PROVE  Spec => []ReadMeansSeen
<1>1. Init => ReadInv
  BY DEF Init, ReadInv, ReadTyped, Dated, MarkerOwed
<1>2. ReadInv /\ [Next]_vars => ReadInv'
  BY ClockTicks, StepKeepsMarkers
<1>3. ReadInv => ReadMeansSeen
  BY DEF ReadInv, ReadTyped, Dated, MarkerOwed, ReadMeansSeen
<1> QED BY <1>1, <1>2, <1>3, PTL DEF Spec

-----------------------------------------------------------------------------
(* The focus pane and the jump: numbers in order. *)

(* A set of naturals has a least element. *)
LEMMA LeastExists ==
    ASSUME NEW S, S \subseteq Nat, S # {}
    PROVE  \E r \in S : \A q \in S : r =< q
<1> DEFINE Less == OpToRel(<, Nat)
<1>1. IsWellFoundedOn(Less, Nat)
  BY NatLessThanWellFounded, Zenon
<1> HIDE DEF Less
<1>2. PICK r \in S : \A q \in S : <<q, r>> \notin Less
  BY <1>1, WFMin
<1>3. \A q \in S : ~(q < r)
  BY <1>2 DEF Less, OpToRel
<1> QED BY <1>2, <1>3

(* A nonempty set of the places in a list has a last one. *)
LEMMA MaxIsIn ==
    ASSUME NEW n \in Nat, NEW S \in SUBSET (1..n), S # {}
    PROVE  Max(S) \in S /\ \A i \in S : i =< Max(S)
<1> DEFINE T == {n - i : i \in S}
<1>1. T \subseteq Nat /\ T # {}
  <2>1. \A i \in S : i \in 1..n /\ n - i \in Nat
    OBVIOUS
  <2> QED BY <2>1
<1>2. PICK r \in T : \A q \in T : r =< q
  BY <1>1, LeastExists
<1>3. PICK x \in S : r = n - x
  BY <1>2
<1>4. \A y \in S : x >= y
  <2> SUFFICES ASSUME NEW y \in S PROVE x >= y
    OBVIOUS
  <2>1. n - y \in T
    OBVIOUS
  <2>2. n - x =< n - y
    BY <1>2, <1>3, <2>1
  <2>3. x \in Nat /\ y \in Nat
    OBVIOUS
  <2> QED BY <2>2, <2>3
<1>5. Max(S) \in S /\ \A y \in S : Max(S) >= y
  BY <1>4 DEF Max
<1> QED BY <1>5

(* And a first. *)
LEMMA MinIsFirst ==
    ASSUME NEW S \in SUBSET Nat, S # {}
    PROVE  Min(S) \in S /\ \A i \in S : Min(S) =< i
<1>1. \E r \in S : \A q \in S : r =< q
  BY LeastExists
<1> QED BY <1>1 DEF Min

(* Ascending lists every element of a finite set of numbers, in their order. *)
LEMMA AscendingOrders ==
    ASSUME NEW S \in SUBSET Nat, IsFiniteSet(S)
    PROVE  /\ Ascending(S) \in Seq(S)
           /\ \A k, l \in DOMAIN Ascending(S) : k < l => Ascending(S)[k] < Ascending(S)[l]
           /\ \A x \in S : \E k \in DOMAIN Ascending(S) : Ascending(S)[k] = x
           /\ \A k \in 1..Cardinality(S) :
                 Ascending(S)[k] \in S /\ Cardinality({j \in S : j =< Ascending(S)[k]}) = k
           /\ \A x \in S : Ascending(S)[Cardinality({j \in S : j =< x})] = x
<1> DEFINE n == Cardinality(S)
           Below(i) == {j \in S : j =< i}
           rank == [i \in S |-> Cardinality(Below(i))]
<1>1. n \in Nat
  BY FS_CardinalityType
<1>2. ASSUME NEW i \in S
      PROVE  IsFiniteSet(Below(i)) /\ Cardinality(Below(i)) \in 1..n
  <2>1. Below(i) \in SUBSET S
    OBVIOUS
  <2>2. IsFiniteSet(Below(i)) /\ Cardinality(Below(i)) =< n
    BY <2>1, FS_Subset
  <2>3. Cardinality(Below(i)) \in Nat
    BY <2>2, FS_CardinalityType
  <2>4. i \in Below(i)
    OBVIOUS
  <2>5. Cardinality(Below(i)) # 0
    BY <2>2, <2>4, FS_EmptySet
  <2> HIDE DEF n, Below
  <2> QED BY <1>1, <2>2, <2>3, <2>5
<1>3. ASSUME NEW i \in S, NEW j \in S, i < j
      PROVE  Cardinality(Below(i)) # Cardinality(Below(j))
  <2>1. Below(i) \in SUBSET Below(j)
    <3> SUFFICES ASSUME NEW l \in S, l =< i PROVE l =< j
      OBVIOUS
    <3>1. l \in Nat /\ i \in Nat /\ j \in Nat
      OBVIOUS
    <3> QED BY <1>3, <3>1
  <2>2. j \in Below(j) /\ j \notin Below(i)
    BY <1>3
  <2>3. IsFiniteSet(Below(j))
    BY <1>2
  <2> QED BY <2>1, <2>2, <2>3, FS_Subset
<1>4. rank \in Injection(S, 1..n)
  <2>1. rank \in [S -> 1..n]
    BY <1>2
  <2>2. \A i, j \in S : rank[i] = rank[j] => i = j
    <3> SUFFICES ASSUME NEW i \in S, NEW j \in S, i # j PROVE rank[i] # rank[j]
      OBVIOUS
    <3>1. i \in Nat /\ j \in Nat
      OBVIOUS
    <3>2. i < j \/ j < i
      BY <3>1
    <3> QED BY <1>3, <3>2
  <2> HIDE DEF rank, n
  <2> QED BY <2>1, <2>2 DEF Injection, IsInjective
<1>5. rank \in Surjection(S, 1..n)
  <2>1. IsFiniteSet(1..n) /\ Cardinality(1..n) = n
    BY <1>1, FS_Interval
  <2> HIDE DEF rank
  <2> QED BY <1>4, <2>1, FS_Injection
<1>6. \A k \in 1..n : \E i \in S : rank[i] = k
  BY <1>5 DEF Surjection
<1>7. \A k \in 1..n : Ascending(S)[k] \in S /\ rank[Ascending(S)[k]] = k
  <2> SUFFICES ASSUME NEW k \in 1..n
               PROVE  Ascending(S)[k] \in S /\ rank[Ascending(S)[k]] = k
    OBVIOUS
  <2>1. Ascending(S)[k] = CHOOSE i \in S : Cardinality(Below(i)) = k
    BY DEF Ascending
  <2>2. \E i \in S : Cardinality(Below(i)) = k
    BY <1>6
  <2>3. Ascending(S)[k] \in S /\ Cardinality(Below(Ascending(S)[k])) = k
    BY <2>1, <2>2
  <2> QED BY <2>3
<1>8. DOMAIN Ascending(S) = 1..n /\ Ascending(S) \in [1..n -> S]
  <2> DEFINE nth(k) == CHOOSE i \in S : Cardinality({j \in S : j =< i}) = k
  <2>1. Ascending(S) = [k \in 1..n |-> nth(k)]
    BY DEF Ascending
  <2> HIDE DEF nth
  <2>2. \A k \in 1..n : Ascending(S)[k] = nth(k)
    BY <2>1
  <2> HIDE DEF n, rank
  <2> QED BY <1>7, <2>1, <2>2
<1>9. Ascending(S) \in Seq(S)
  <2> HIDE DEF n, rank
  <2> QED BY <1>1, <1>8, SeqDef
<1>10. \A x \in S : Ascending(S)[rank[x]] = x /\ rank[x] \in 1..n
  <2> SUFFICES ASSUME NEW x \in S PROVE Ascending(S)[rank[x]] = x /\ rank[x] \in 1..n
    OBVIOUS
  <2>1. rank[x] \in 1..n
    BY <1>4 DEF Injection
  <2>2. Ascending(S)[rank[x]] \in S /\ rank[Ascending(S)[rank[x]]] = rank[x]
    BY <1>7, <2>1
  <2> HIDE DEF rank, n
  <2> QED BY <1>4, <2>1, <2>2 DEF Injection, IsInjective
<1>11. ASSUME NEW i \in S, NEW j \in S, i =< j PROVE rank[i] =< rank[j]
  <2>1. CASE i = j
    <3>1. rank[i] \in Nat /\ rank[i] = rank[j]
      BY <1>2, <2>1
    <3> HIDE DEF rank
    <3> QED BY <3>1
  <2>2. CASE i # j
    <3>1. Below(i) \in SUBSET Below(j)
      <4> SUFFICES ASSUME NEW l \in S, l =< i PROVE l =< j
        OBVIOUS
      <4>1. l \in Nat /\ i \in Nat /\ j \in Nat
        OBVIOUS
      <4> QED BY <1>11, <4>1
    <3>2. Cardinality(Below(i)) =< Cardinality(Below(j))
      BY <1>2, <3>1, FS_Subset
    <3> QED BY <3>2
  <2> QED BY <2>1, <2>2
<1>12. ASSUME NEW k \in 1..n, NEW l \in 1..n, k < l PROVE Ascending(S)[k] < Ascending(S)[l]
  <2>1. Ascending(S)[k] \in S /\ Ascending(S)[l] \in S
    BY <1>7
  <2>2. rank[Ascending(S)[k]] = k /\ rank[Ascending(S)[l]] = l
    BY <1>7
  <2>3. ~(Ascending(S)[l] =< Ascending(S)[k])
    <3> SUFFICES ASSUME Ascending(S)[l] =< Ascending(S)[k] PROVE FALSE
      OBVIOUS
    <3>1. rank[Ascending(S)[l]] =< rank[Ascending(S)[k]]
      BY <1>11, <2>1
    <3> HIDE DEF rank, n
    <3> QED BY <1>1, <1>12, <2>2, <3>1
  <2>4. Ascending(S)[k] \in Nat /\ Ascending(S)[l] \in Nat
    BY <2>1
  <2> HIDE DEF rank, n
  <2> QED BY <2>3, <2>4
<1>13. \A k \in 1..n : Ascending(S)[k] \in S /\ Cardinality({j \in S : j =< Ascending(S)[k]}) = k
  BY <1>7
<1>14. \A x \in S : Ascending(S)[Cardinality({j \in S : j =< x})] = x
  BY <1>10
<1>15. \A x \in S : \E k \in DOMAIN Ascending(S) : Ascending(S)[k] = x
  <2> HIDE DEF n, rank
  <2> QED BY <1>8, <1>10
<1> HIDE DEF rank
<1> QED BY <1>8, <1>9, <1>12, <1>13, <1>14, <1>15

(* SetToSeq lists every element of a finite set, each once. *)
LEMMA SetToSeqLists ==
    ASSUME NEW S, IsFiniteSet(S)
    PROVE  /\ SetToSeq(S) \in Seq(S)
           /\ \A i, j \in DOMAIN SetToSeq(S) : SetToSeq(S)[i] = SetToSeq(S)[j] => i = j
           /\ \A x \in S : \E i \in DOMAIN SetToSeq(S) : SetToSeq(S)[i] = x
<1> DEFINE n == Cardinality(S)
           Lists == {f \in [1..n -> S] : IsInjective(f)}
           s == SetToSeq(S)
<1>1. n \in Nat /\ ExistsBijection(1..n, S)
  BY FS_CardinalityType
<1>2. Lists # {}
  BY <1>1 DEF ExistsBijection, Bijection, Injection
<1>3. s = CHOOSE f \in [1..n -> S] : IsInjective(f)
  BY DEF SetToSeq
<1>4. s \in [1..n -> S] /\ IsInjective(s)
  BY <1>2, <1>3
<1>5. s \in Seq(S)
  BY <1>1, <1>4, SeqDef
<1>6. IsFiniteSet(1..n) /\ Cardinality(1..n) = n
  BY <1>1, FS_Interval
<1>7. s \in Injection(1..n, S)
  BY <1>4 DEF Injection
<1>8. s \in Surjection(1..n, S)
  BY <1>6, <1>7, FS_Injection
<1> QED BY <1>4, <1>5, <1>8 DEF IsInjective, Surjection

-----------------------------------------------------------------------------
(* The queue. *)

AllBlocked == {Blocked(p) : p \in Panes}
AllDecisions == {Decision(t, n) : t \in Texts, n \in Nat}
AllMessages == {Message(m, p) : m \in Messages, p \in {None, LeadPane}}
Items == AllBlocked \cup AllDecisions \cup AllMessages

AgentsSeen == [Panes -> AgentStates]

(* Where a message is answered. *)
Home(a) == IF a[LeadPane] = "gone" THEN None ELSE LeadPane

(* What each source has for the queue. *)
FromAgents(a) == {Blocked(p) : p \in {p \in Panes : a[p] = "blocked"}}
FromFile(f) == {Decision(f[i].text, Suffix(f, i)) : i \in {i \in 1..Len(f) : ~f[i].resolved}}
FromInbox(a, b) == {Message(b[k], Home(a)) : k \in 1..Len(b)}

(* The id of an item says which source it is from, and how urgent it is. *)
LEMMA KindsDiffer ==
    /\ \A item \in AllBlocked : item.id[1] = "blocked" /\ Urgency(item) = 3
    /\ \A item \in AllDecisions : item.id[1] = "decision" /\ Urgency(item) = 2 /\ item.pane = None
    /\ \A item \in AllMessages : item.id[1] = "inbox" /\ Urgency(item) = 1
<1>1. ASSUME NEW p \in Panes PROVE Blocked(p).id[1] = "blocked" /\ Urgency(Blocked(p)) = 3
  <2>1. Blocked(p).id[1] = "blocked"
    BY DEF Blocked
  <2> QED BY <2>1 DEF Urgency
<1>2. ASSUME NEW t \in Texts, NEW n \in Nat
      PROVE  /\ Decision(t, n).id[1] = "decision"
             /\ Urgency(Decision(t, n)) = 2
             /\ Decision(t, n).pane = None
  <2>1. Decision(t, n).id[1] = "decision" /\ Decision(t, n).pane = None
    BY DEF Decision
  <2> QED BY <2>1 DEF Urgency
<1>3. ASSUME NEW m \in Messages, NEW p \in {None, LeadPane}
      PROVE  Message(m, p).id[1] = "inbox" /\ Urgency(Message(m, p)) = 1
  <2>1. Message(m, p).id[1] = "inbox"
    BY DEF Message
  <2> QED BY <2>1 DEF Urgency
<1> QED BY <1>1, <1>2, <1>3 DEF AllBlocked, AllDecisions, AllMessages

(* Items with the same id are about the same. *)
LEMMA IdSaysWhat ==
    ASSUME NEW x \in Items, NEW y \in Items, x.id = y.id
    PROVE  x.what = y.what
<1>1. CASE x \in AllBlocked
  <2>1. y \in AllBlocked
    BY <1>1, KindsDiffer DEF Items
  <2>2. PICK p \in Panes, q \in Panes : x = Blocked(p) /\ y = Blocked(q)
    BY <1>1, <2>1 DEF AllBlocked
  <2> QED BY <2>2 DEF Blocked
<1>2. CASE x \in AllDecisions
  <2>1. y \in AllDecisions
    BY <1>2, KindsDiffer DEF Items
  <2>2. PICK t \in Texts, n \in Nat, u \in Texts, k \in Nat :
           x = Decision(t, n) /\ y = Decision(u, k)
    BY <1>2, <2>1 DEF AllDecisions
  <2>3. x.id[2] = t /\ y.id[2] = u
    BY <2>2 DEF Decision
  <2>4. t = u
    BY <2>3
  <2> QED BY <2>2, <2>4 DEF Decision
<1>3. CASE x \in AllMessages
  <2>1. y \in AllMessages
    BY <1>3, KindsDiffer DEF Items
  <2>2. PICK m \in Messages, p \in {None, LeadPane}, o \in Messages, q \in {None, LeadPane} :
           x = Message(m, p) /\ y = Message(o, q)
    BY <1>3, <2>1 DEF AllMessages
  <2> QED BY <2>2 DEF Message
<1> QED BY <1>1, <1>2, <1>3 DEF Items

(* One item for each blocked agent. *)
LEMMA AgentsListed ==
    ASSUME NEW a \in AgentsSeen
    PROVE  /\ BlockedAgents(a) \in Seq(AllBlocked)
           /\ \A x : x \in FromAgents(a) <=>
                 \E k \in 1..Len(BlockedAgents(a)) : BlockedAgents(a)[k] = x
<1> DEFINE S == {p \in Panes : a[p] = "blocked"}
           panes == SetToSeq(S)
<1>1. IsFiniteSet(S) /\ S \subseteq Panes
  BY AttentionAssumption, FS_Subset
<1>2. panes \in Seq(S) /\ \A p \in S : \E k \in DOMAIN panes : panes[k] = p
  BY <1>1, SetToSeqLists
<1>3. BlockedAgents(a) = [k \in DOMAIN panes |-> Blocked(panes[k])]
  BY DEF BlockedAgents
<1> HIDE DEF panes
<1>4. DOMAIN panes = 1..Len(panes) /\ Len(panes) \in Nat /\ \A k \in DOMAIN panes : panes[k] \in S
  BY <1>2
<1>5. BlockedAgents(a) \in [1..Len(panes) -> AllBlocked]
  BY <1>1, <1>3, <1>4 DEF AllBlocked
<1>6. BlockedAgents(a) \in Seq(AllBlocked)
  BY <1>4, <1>5, SeqDef
<1>7. Len(BlockedAgents(a)) = Len(panes)
  BY <1>4, <1>5, <1>6
<1>8. FromAgents(a) = {Blocked(p) : p \in S}
  BY DEF FromAgents
<1> HIDE DEF S
<1> QED BY <1>2, <1>3, <1>4, <1>6, <1>7, <1>8

(* One for each open decision. *)
LEMMA DecisionsListed ==
    ASSUME NEW f \in Seq(Entries)
    PROVE  /\ OpenDecisions(f) \in Seq(AllDecisions)
           /\ \A x : x \in FromFile(f) <=>
                 \E k \in 1..Len(OpenDecisions(f)) : OpenDecisions(f)[k] = x
<1> DEFINE S == {i \in 1..Len(f) : ~f[i].resolved}
           open == Ascending(S)
           item(i) == Decision(f[i].text, Suffix(f, i))
<1>1. Len(f) \in Nat /\ \A i \in 1..Len(f) : f[i] \in Entries
  OBVIOUS
<1>2. IsFiniteSet(S) /\ S \in SUBSET Nat
  <2>1. IsFiniteSet(1..Len(f))
    BY <1>1, FS_Interval
  <2>2. S \in SUBSET (1..Len(f))
    OBVIOUS
  <2> QED BY <2>1, <2>2, FS_Subset
<1>3. open \in Seq(S) /\ \A i \in S : \E k \in DOMAIN open : open[k] = i
  BY <1>2, AscendingOrders
<1>4. ASSUME NEW i \in S PROVE item(i) \in AllDecisions
  <2>1. f[i].text \in Texts
    BY <1>1 DEF Entries
  <2>2. Suffix(f, i) \in Nat
    <3>1. i \in Nat /\ IsFiniteSet(1..i)
      BY <1>2, FS_Interval
    <3>2. {j \in 1..i : f[j].text = f[i].text} \in SUBSET (1..i)
      OBVIOUS
    <3> QED BY <3>1, <3>2, FS_Subset, FS_CardinalityType DEF Suffix
  <2> QED BY <2>1, <2>2 DEF AllDecisions
<1>5. OpenDecisions(f) = [k \in DOMAIN open |-> item(open[k])]
  BY DEF OpenDecisions
<1>6. FromFile(f) = {item(i) : i \in S}
  BY DEF FromFile
<1> HIDE DEF S, open, item
<1>7. DOMAIN open = 1..Len(open) /\ Len(open) \in Nat /\ \A k \in DOMAIN open : open[k] \in S
  BY <1>3
<1>8. OpenDecisions(f) \in [1..Len(open) -> AllDecisions]
  BY <1>4, <1>5, <1>7
<1>9. OpenDecisions(f) \in Seq(AllDecisions)
  BY <1>7, <1>8, SeqDef
<1>10. Len(OpenDecisions(f)) = Len(open)
  BY <1>7, <1>8, <1>9
<1> QED BY <1>3, <1>5, <1>6, <1>7, <1>9, <1>10

(* One for each message. *)
LEMMA MessagesListed ==
    ASSUME NEW a \in AgentsSeen, NEW b \in Seq(Messages)
    PROVE  /\ LeadMessages(a, b) \in Seq(AllMessages)
           /\ \A x : x \in FromInbox(a, b) <=>
                 \E k \in 1..Len(LeadMessages(a, b)) : LeadMessages(a, b)[k] = x
<1>1. DOMAIN b = 1..Len(b) /\ Len(b) \in Nat /\ \A k \in DOMAIN b : b[k] \in Messages
  OBVIOUS
<1>2. LeadMessages(a, b) = [k \in DOMAIN b |-> Message(b[k], Home(a))]
  BY DEF LeadMessages, Home
<1>3. Home(a) \in {None, LeadPane}
  BY DEF Home
<1>4. LeadMessages(a, b) \in [1..Len(b) -> AllMessages]
  BY <1>1, <1>2, <1>3 DEF AllMessages
<1>5. LeadMessages(a, b) \in Seq(AllMessages)
  BY <1>1, <1>4, SeqDef
<1>6. Len(LeadMessages(a, b)) = Len(b)
  BY <1>1, <1>4, <1>5
<1> QED BY <1>1, <1>2, <1>5, <1>6 DEF FromInbox

(* The queue has what the sources have, the most urgent first. *)
LEMMA QueueOrdered ==
    ASSUME NEW a \in AgentsSeen, NEW f \in Seq(Entries), NEW b \in Seq(Messages)
    PROVE  LET q == AttentionQueue(a, f, b)
           IN  /\ q \in Seq(Items)
               /\ ToSet(q) = FromAgents(a) \cup FromFile(f) \cup FromInbox(a, b)
               /\ \A i, k \in 1..Len(q) : i =< k => Urgency(q[i]) >= Urgency(q[k])
<1> DEFINE B == BlockedAgents(a)
           D == OpenDecisions(f)
           M == LeadMessages(a, b)
           q == AttentionQueue(a, f, b)
<1>1. /\ B \in Seq(AllBlocked)
      /\ \A x : x \in FromAgents(a) <=> \E k \in 1..Len(B) : B[k] = x
  BY AgentsListed
<1>2. /\ D \in Seq(AllDecisions)
      /\ \A x : x \in FromFile(f) <=> \E k \in 1..Len(D) : D[k] = x
  BY DecisionsListed
<1>3. /\ M \in Seq(AllMessages)
      /\ \A x : x \in FromInbox(a, b) <=> \E k \in 1..Len(M) : M[k] = x
  BY MessagesListed
<1>4. q = (B \o D) \o M
  BY DEF AttentionQueue
<1> HIDE DEF B, D, M, q
<1>5. B \in Seq(Items) /\ D \in Seq(Items) /\ M \in Seq(Items)
  BY <1>1, <1>2, <1>3, SeqMonotonic DEF Items
<1>6. /\ B \o D \in Seq(Items) /\ Len(B \o D) = Len(B) + Len(D)
      /\ \A i \in 1..Len(B) + Len(D) : (B \o D)[i] = IF i <= Len(B) THEN B[i] ELSE D[i - Len(B)]
  BY <1>5, ConcatProperties
<1>7. /\ q \in Seq(Items) /\ Len(q) = Len(B \o D) + Len(M)
      /\ \A i \in 1..Len(B \o D) + Len(M) :
            q[i] = IF i <= Len(B \o D) THEN (B \o D)[i] ELSE M[i - Len(B \o D)]
  BY <1>4, <1>5, <1>6, ConcatProperties
<1>8. Len(B) \in Nat /\ Len(D) \in Nat /\ Len(M) \in Nat
  BY <1>5
<1>9. Len(q) = Len(B) + Len(D) + Len(M)
  BY <1>6, <1>7, <1>8
<1>10. ASSUME NEW i \in 1..Len(q)
       PROVE  /\ i <= Len(B) => i \in 1..Len(B) /\ q[i] = B[i]
              /\ i > Len(B) /\ i <= Len(B) + Len(D) =>
                    i - Len(B) \in 1..Len(D) /\ q[i] = D[i - Len(B)]
              /\ i > Len(B) + Len(D) =>
                    i - (Len(B) + Len(D)) \in 1..Len(M) /\ q[i] = M[i - (Len(B) + Len(D))]
  BY <1>6, <1>7, <1>8, <1>9
<1>11. ToSet(q) \subseteq FromAgents(a) \cup FromFile(f) \cup FromInbox(a, b)
  <2> SUFFICES ASSUME NEW i \in 1..Len(q)
               PROVE  q[i] \in FromAgents(a) \cup FromFile(f) \cup FromInbox(a, b)
    BY <1>7 DEF ToSet
  <2>1. CASE i <= Len(B)
    BY <1>1, <1>10, <2>1
  <2>2. CASE i > Len(B) /\ i <= Len(B) + Len(D)
    BY <1>2, <1>10, <2>2
  <2>3. CASE i > Len(B) + Len(D)
    BY <1>3, <1>10, <2>3
  <2> QED BY <1>8, <2>1, <2>2, <2>3
<1>12. ASSUME NEW x \in FromAgents(a) \cup FromFile(f) \cup FromInbox(a, b) PROVE x \in ToSet(q)
  <2> SUFFICES \E i \in 1..Len(q) : q[i] = x
    BY <1>7 DEF ToSet
  <2>1. CASE x \in FromAgents(a)
    <3>1. PICK k \in 1..Len(B) : B[k] = x
      BY <1>1, <2>1
    <3>2. k \in 1..Len(q) /\ k <= Len(B)
      BY <1>8, <1>9
    <3> QED BY <1>10, <3>1, <3>2
  <2>2. CASE x \in FromFile(f)
    <3>1. PICK k \in 1..Len(D) : D[k] = x
      BY <1>2, <2>2
    <3> DEFINE i == k + Len(B)
    <3>2. i \in 1..Len(q) /\ i > Len(B) /\ i <= Len(B) + Len(D) /\ i - Len(B) = k
      BY <1>8, <1>9
    <3> HIDE DEF i
    <3> QED BY <1>10, <3>1, <3>2
  <2>3. CASE x \in FromInbox(a, b)
    <3>1. PICK k \in 1..Len(M) : M[k] = x
      BY <1>3, <2>3
    <3> DEFINE i == k + (Len(B) + Len(D))
    <3>2. i \in 1..Len(q) /\ i > Len(B) + Len(D) /\ i - (Len(B) + Len(D)) = k
      BY <1>8, <1>9
    <3> HIDE DEF i
    <3> QED BY <1>10, <3>1, <3>2
  <2> QED BY <2>1, <2>2, <2>3
<1>13. ASSUME NEW i \in 1..Len(q), NEW k \in 1..Len(q), i =< k
       PROVE  Urgency(q[i]) >= Urgency(q[k])
  <2> DEFINE Level(n) == IF n <= Len(B) THEN 3 ELSE IF n <= Len(B) + Len(D) THEN 2 ELSE 1
  <2>1. ASSUME NEW n \in 1..Len(q) PROVE Urgency(q[n]) = Level(n)
    <3>1. CASE n <= Len(B)
      <4>1. q[n] \in AllBlocked
        BY <1>1, <1>10, <3>1
      <4> QED BY <3>1, <4>1, KindsDiffer
    <3>2. CASE n > Len(B) /\ n <= Len(B) + Len(D)
      <4>1. q[n] \in AllDecisions
        BY <1>2, <1>10, <3>2
      <4>2. Level(n) = 2
        BY <1>8, <3>2
      <4> QED BY <4>1, <4>2, KindsDiffer
    <3>3. CASE n > Len(B) + Len(D)
      <4>1. q[n] \in AllMessages
        BY <1>3, <1>10, <3>3
      <4>2. Level(n) = 1
        BY <1>8, <3>3
      <4> QED BY <4>1, <4>2, KindsDiffer
    <3> QED BY <1>8, <3>1, <3>2, <3>3
  <2>2. Level(i) >= Level(k)
    BY <1>8, <1>13
  <2> HIDE DEF Level
  <2> QED BY <2>1, <2>2
<1> QED BY <1>7, <1>11, <1>12, <1>13 DEF q

-----------------------------------------------------------------------------
(* The invariant of the focus pane and the jump. *)

(* The audit log has the ids of items. *)
Ids == {item.id : item \in Items}
Lines == [id : Ids, at : Nat]
Readings == [agents : AgentsSeen, file : Seq(Entries), inbox : Seq(Messages), missed : BOOLEAN]

SourcesTyped ==
    /\ now \in Nat
    /\ agents \in AgentsSeen /\ file \in Seq(Entries) /\ leadInbox \in Seq(Messages)
    /\ log \in Seq(Lines)
    /\ got \in [Loaders -> Readings]

(* What is selected is a row, unless there is none. *)
ViewsTyped ==
    /\ queue \in [Views -> Seq(Items)]
    /\ selection \in [Views -> Nat \ {0}]
    /\ \A v \in Views : queue[v] # <<>> => selection[v] <= Len(queue[v])
    /\ DOMAIN pressed = Views
    /\ moved \in [Views -> BOOLEAN]

StagesTyped ==
    /\ DOMAIN pc = Loaders
    /\ \A v \in Views : pc[v] \in {"focus", "agents", "leads", "consumed", "keys", "quit"}
    /\ \A j \in Jumps :
          pc[j] \in {"off", "agents", "focus", "leads", "consumed", "go", "append", "over"}
    /\ DOMAIN target = Jumps
    /\ \A j \in Jumps : pc[j] \in {"go", "append"} => target[j] \in Items
    /\ stamp \in [Jumps -> Nat]

(* A line of the log was written for all there is with its id. *)
LogInDone ==
    \A i \in 1..Len(log), item \in Items :
        log[i].id = item.id => <<item.what, log[i].at>> \in done

(* What each load has read by now. *)
FileRead(l) ==
    pc[l] \in (IF l \in Views THEN {"agents", "leads", "consumed"} ELSE {"leads", "consumed"})
AgentsRead(l) ==
    pc[l] \in (IF l \in Views THEN {"leads", "consumed"} ELSE {"focus", "leads", "consumed"})
InboxRead(l) == pc[l] = "consumed"

(* What has needed attention since a load began is in what the load has read, *)
(* source by source.                                                          *)
HeldOf(l) ==
    /\ Loading(l) => held[l] \subseteq Needs
    /\ FileRead(l) => held[l] \subseteq AllBlocked \cup FromFile(got[l].file) \cup AllMessages
    /\ AgentsRead(l) => held[l] \subseteq
          FromAgents(got[l].agents) \cup AllDecisions
              \cup {Message(m, Home(got[l].agents)) : m \in Messages}
    /\ InboxRead(l) /\ ~got[l].missed => held[l] \subseteq
          AllBlocked \cup AllDecisions
              \cup {Message(m, p) : m \in ToSet(got[l].inbox), p \in {None, LeadPane}}

HeldIsRead == \A l \in Loaders : HeldOf(l)

FocusInv ==
    SourcesTyped /\ ViewsTyped /\ StagesTyped /\ LogInDone /\ HeldIsRead /\ ChosenUnlessMoved

-----------------------------------------------------------------------------
(* Facts about what is loaded. *)

(* The sources have items. *)
LEMMA SourcesHaveItems ==
    ASSUME NEW a \in AgentsSeen, NEW f \in Seq(Entries), NEW b \in Seq(Messages)
    PROVE  /\ FromAgents(a) \subseteq AllBlocked
           /\ FromFile(f) \subseteq AllDecisions
           /\ FromInbox(a, b) \subseteq {Message(m, Home(a)) : m \in Messages}
           /\ FromInbox(a, b) \subseteq {Message(m, p) : m \in ToSet(b), p \in {None, LeadPane}}
           /\ {Message(m, Home(a)) : m \in Messages} \subseteq AllMessages
<1>1. FromAgents(a) \subseteq AllBlocked
  BY DEF FromAgents, AllBlocked
<1>2. FromFile(f) \subseteq AllDecisions
  <2>1. /\ OpenDecisions(f) \in Seq(AllDecisions)
        /\ \A x : x \in FromFile(f) <=>
              \E k \in 1..Len(OpenDecisions(f)) : OpenDecisions(f)[k] = x
    BY DecisionsListed
  <2> QED BY <2>1
<1>3. \A k \in 1..Len(b) : b[k] \in Messages /\ b[k] \in ToSet(b)
  BY DEF ToSet
<1>4. Home(a) \in {None, LeadPane}
  BY DEF Home
<1> QED BY <1>1, <1>2, <1>3, <1>4 DEF FromInbox, AllMessages

(* What was consumed within the last CONSUMED_TTL_MS is all that is suppressed. *)
LEMMA FreshIsShown ==
    ASSUME SourcesTyped, LogInDone, NEW item \in Items, Fresh(item)
    PROVE  ~Suppressed(log, item.id, now)
<1> SUFFICES ASSUME Suppressed(log, item.id, now) PROVE FALSE
  OBVIOUS
<1> DEFINE lines == {i \in DOMAIN log : log[i].id = item.id}
<1>1. PICK at \in ConsumedAt(log, item.id) : Since(now, at) < CONSUMED_TTL_MS
  BY DEF Suppressed
<1>2. lines # {} /\ at = log[Max(lines)].at
  BY <1>1 DEF ConsumedAt
<1>3. log \in Seq(Lines) /\ now \in Nat
  BY DEF SourcesTyped
<1>4. Len(log) \in Nat /\ DOMAIN log = 1..Len(log)
  BY <1>3
<1>5. lines \in SUBSET (1..Len(log))
  BY <1>4
<1>6. Max(lines) \in lines
  BY <1>2, <1>4, <1>5, MaxIsIn
<1> DEFINE i == Max(lines)
<1>7. i \in 1..Len(log) /\ log[i].id = item.id
  BY <1>5, <1>6
<1> HIDE DEF i
<1>8. <<item.what, log[i].at>> \in done /\ log[i].at \in Nat
  <2>1. log[i] \in Lines
    BY <1>3, <1>7
  <2> QED BY <1>7, <2>1 DEF LogInDone, Lines
<1>9. now - log[i].at >= CONSUMED_TTL_MS
  BY <1>8 DEF Fresh
<1>10. at = log[i].at
  BY <1>2 DEF i
<1>11. CONSUMED_TTL_MS \in Nat \ {0}
  BY AttentionAssumption
<1>12. Since(now, at) >= CONSUMED_TTL_MS
  BY <1>3, <1>8, <1>9, <1>10, <1>11 DEF Since
<1>13. Since(now, at) \in Nat
  BY <1>3, <1>8, <1>10 DEF Since
<1> QED BY <1>1, <1>11, <1>12, <1>13

(* Rows in the order they have in a queue. *)
InOrderOf(q, rows) ==
    \A i, k \in 1..Len(rows) : i < k =>
        \E m, n \in 1..Len(q) : m < n /\ rows[i] = q[m] /\ rows[k] = q[n]

(* What is left of a queue has its order, and all that is not suppressed. *)
LEMMA UnconsumedKeeps ==
    ASSUME NEW q \in Seq(Items), NEW rows, rows = Unconsumed(q, log, now)
    PROVE  /\ rows \in Seq(Items)
           /\ InOrderOf(q, rows)
           /\ \A n \in 1..Len(q) : ~Suppressed(log, q[n].id, now) =>
                 \E k \in 1..Len(rows) : rows[k] = q[n]
<1> DEFINE S == {n \in 1..Len(q) : ~Suppressed(log, q[n].id, now)}
           kept == Ascending(S)
<1>1. Len(q) \in Nat
  OBVIOUS
<1>2. IsFiniteSet(S) /\ S \in SUBSET Nat
  <2>1. IsFiniteSet(1..Len(q))
    BY <1>1, FS_Interval
  <2>2. S \in SUBSET (1..Len(q))
    OBVIOUS
  <2> QED BY <2>1, <2>2, FS_Subset
<1>3. /\ kept \in Seq(S)
      /\ \A i, k \in DOMAIN kept : i < k => kept[i] < kept[k]
      /\ \A n \in S : \E k \in DOMAIN kept : kept[k] = n
  BY <1>2, AscendingOrders
<1>4. rows = [k \in DOMAIN kept |-> q[kept[k]]]
  BY DEF Unconsumed
<1>5. S \subseteq 1..Len(q)
  OBVIOUS
<1>6. \A n \in 1..Len(q) : ~Suppressed(log, q[n].id, now) => n \in S
  OBVIOUS
<1> HIDE DEF S, kept
<1>7. /\ DOMAIN kept = 1..Len(kept) /\ Len(kept) \in Nat
      /\ \A k \in DOMAIN kept : kept[k] \in 1..Len(q)
  <2>1. /\ DOMAIN kept = 1..Len(kept) /\ Len(kept) \in Nat
        /\ \A k \in DOMAIN kept : kept[k] \in S
    BY <1>3
  <2> QED BY <1>5, <2>1
<1>8. rows \in [1..Len(kept) -> Items]
  BY <1>4, <1>7
<1>9. rows \in Seq(Items)
  BY <1>7, <1>8, SeqDef
<1>10. Len(rows) = Len(kept)
  BY <1>7, <1>8, <1>9
<1>11. ASSUME NEW i \in 1..Len(rows), NEW k \in 1..Len(rows), i < k
       PROVE  \E m, n \in 1..Len(q) : m < n /\ rows[i] = q[m] /\ rows[k] = q[n]
  <2>1. i \in DOMAIN kept /\ k \in DOMAIN kept
    BY <1>7, <1>10
  <2>2. kept[i] < kept[k] /\ kept[i] \in 1..Len(q) /\ kept[k] \in 1..Len(q)
    BY <1>3, <1>7, <1>11, <2>1
  <2> QED BY <1>4, <2>1, <2>2
<1>12. ASSUME NEW n \in 1..Len(q), ~Suppressed(log, q[n].id, now)
       PROVE  \E k \in 1..Len(rows) : rows[k] = q[n]
  <2>1. n \in S
    BY <1>6, <1>12
  <2>2. PICK k \in DOMAIN kept : kept[k] = n
    BY <1>3, <2>1
  <2> QED BY <1>4, <1>7, <1>10, <2>2
<1> QED BY <1>9, <1>11, <1>12 DEF InOrderOf

(* A load that has read everything has all that has needed attention. *)
LEMMA HeldIsQueued ==
    ASSUME FocusInv, NEW l \in Loaders, pc[l] = "consumed", NEW item \in held[l],
           ~Overlooked(l, item)
    PROVE  /\ item \in Items /\ Fresh(item)
           /\ item \in ToSet(AttentionQueue(got[l].agents, got[l].file, got[l].inbox))
<1> DEFINE a == got[l].agents
           f == got[l].file
           b == got[l].inbox
<1>1. a \in AgentsSeen /\ f \in Seq(Entries) /\ b \in Seq(Messages)
  BY DEF FocusInv, SourcesTyped, Readings
<1>2. Loading(l) /\ FileRead(l) /\ AgentsRead(l) /\ InboxRead(l)
  BY DEF Loading, FileRead, AgentsRead, InboxRead
<1>3. item \in Needs
  BY <1>2 DEF FocusInv, HeldIsRead, HeldOf
<1>4. Fresh(item)
  BY <1>3 DEF Needs
<1>5. /\ item \in AllBlocked \cup FromFile(f) \cup AllMessages
      /\ item \in FromAgents(a) \cup AllDecisions \cup {Message(m, Home(a)) : m \in Messages}
      /\ item.id[1] = "inbox" => item \in AllBlocked \cup AllDecisions
            \cup {Message(m, p) : m \in ToSet(b), p \in {None, LeadPane}}
  BY <1>2 DEF FocusInv, HeldIsRead, HeldOf, Overlooked
<1> HIDE DEF a, f, b
<1>6. /\ FromAgents(a) \subseteq AllBlocked /\ FromFile(f) \subseteq AllDecisions
      /\ {Message(m, Home(a)) : m \in Messages} \subseteq AllMessages
  BY <1>1, SourcesHaveItems
<1>7. item \in Items
  BY <1>5, <1>6 DEF Items
<1>8. item \in FromAgents(a) \cup FromFile(f) \cup FromInbox(a, b)
  <2>1. CASE item.id[1] = "blocked"
    <3>1. item \notin AllDecisions /\ item \notin AllMessages
      BY <2>1, KindsDiffer
    <3> QED BY <1>5, <1>6, <3>1
  <2>2. CASE item.id[1] = "decision"
    <3>1. item \notin AllBlocked /\ item \notin AllMessages
      BY <2>2, KindsDiffer
    <3> QED BY <1>5, <3>1
  <2>3. CASE item.id[1] = "inbox"
    <3>1. item \notin AllBlocked /\ item \notin AllDecisions
      BY <2>3, KindsDiffer
    <3>2. PICK m \in Messages : item = Message(m, Home(a))
      BY <1>5, <1>6, <3>1
    <3>3. PICK n \in ToSet(b), p \in {None, LeadPane} : item = Message(n, p)
      BY <1>5, <2>3, <3>1
    <3>4. item.id[2] = m /\ item.id[2] = n
      BY <3>2, <3>3 DEF Message
    <3>5. PICK k \in 1..Len(b) : b[k] = n
      BY <1>1, <3>3 DEF ToSet
    <3>6. item = Message(b[k], Home(a))
      BY <3>2, <3>4, <3>5
    <3> QED BY <3>5, <3>6 DEF FromInbox
  <2> QED BY <1>7, <2>1, <2>2, <2>3, KindsDiffer DEF Items
<1>9. ToSet(AttentionQueue(a, f, b)) = FromAgents(a) \cup FromFile(f) \cup FromInbox(a, b)
  BY <1>1, QueueOrdered
<1> QED BY <1>4, <1>7, <1>8, <1>9 DEF a, f, b

(* So it has a row for it; the rows are in the order of their urgency. *)
LEMMA LoadedHasHeld ==
    ASSUME FocusInv, NEW l \in Loaders
    PROVE  /\ Loaded(l) \in Seq(Items)
           /\ \A i, k \in 1..Len(Loaded(l)) :
                 i < k => Urgency(Loaded(l)[i]) >= Urgency(Loaded(l)[k])
           /\ pc[l] = "consumed" => \A item \in held[l] : ~Overlooked(l, item) =>
                 \E k \in 1..Len(Loaded(l)) : Loaded(l)[k] = item
<1> DEFINE q == AttentionQueue(got[l].agents, got[l].file, got[l].inbox)
           rows == Loaded(l)
<1>1. /\ got[l].agents \in AgentsSeen /\ got[l].file \in Seq(Entries)
      /\ got[l].inbox \in Seq(Messages)
  BY DEF FocusInv, SourcesTyped, Readings
<1>2. q \in Seq(Items) /\ \A i, k \in 1..Len(q) : i =< k => Urgency(q[i]) >= Urgency(q[k])
  BY <1>1, QueueOrdered
<1>3. rows = Unconsumed(q, log, now)
  BY DEF Loaded
<1>4. ASSUME pc[l] = "consumed", NEW item \in held[l], ~Overlooked(l, item)
      PROVE  item \in ToSet(q) /\ ~Suppressed(log, item.id, now)
  <2>1. item \in Items /\ Fresh(item) /\ item \in ToSet(q)
    BY <1>4, HeldIsQueued
  <2> QED BY <2>1, FreshIsShown DEF FocusInv
<1> HIDE DEF q, rows
<1>5. /\ rows \in Seq(Items)
      /\ InOrderOf(q, rows)
      /\ \A n \in 1..Len(q) : ~Suppressed(log, q[n].id, now) =>
            \E k \in 1..Len(rows) : rows[k] = q[n]
  BY <1>2, <1>3, UnconsumedKeeps
<1>6. \A i, k \in 1..Len(rows) : i < k => Urgency(rows[i]) >= Urgency(rows[k])
  <2> SUFFICES ASSUME NEW i \in 1..Len(rows), NEW k \in 1..Len(rows), i < k
               PROVE  Urgency(rows[i]) >= Urgency(rows[k])
    OBVIOUS
  <2>1. PICK m \in 1..Len(q), n \in 1..Len(q) : m < n /\ rows[i] = q[m] /\ rows[k] = q[n]
    BY <1>5 DEF InOrderOf
  <2>2. m =< n
    BY <2>1
  <2> QED BY <1>2, <2>1, <2>2
<1>7. ASSUME pc[l] = "consumed", NEW item \in held[l], ~Overlooked(l, item)
      PROVE  \E k \in 1..Len(rows) : rows[k] = item
  <2>1. PICK n \in 1..Len(q) : q[n] = item
    BY <1>2, <1>4, <1>7 DEF ToSet
  <2> QED BY <1>4, <1>5, <1>7, <2>1
<1> QED BY <1>5, <1>6, <1>7 DEF rows

-----------------------------------------------------------------------------
(* What a step of the focus pane and the jump keeps. *)

(* What is read leaves a load with readings. *)
LEMMA ReadingsUpdated ==
    ASSUME NEW g \in Readings, NEW a \in AgentsSeen, NEW f \in Seq(Entries), NEW b \in Seq(Messages)
    PROVE  /\ [g EXCEPT !.agents = a] \in Readings
           /\ [g EXCEPT !.file = f] \in Readings
           /\ [g EXCEPT !.inbox = b] \in Readings
           /\ [g EXCEPT !.missed = TRUE] \in Readings
           /\ Nothing \in Readings
<1>1. g = [agents |-> g.agents, file |-> g.file, inbox |-> g.inbox,
         missed |-> g.missed]
  BY DEF Readings
<1>2. Nothing \in Readings
  BY DEF Nothing, Readings, AgentsSeen, AgentStates
<1> QED BY <1>1, <1>2 DEF Readings

(* The chosen row is an item. *)
LEMMA AtIsItem ==
    ASSUME ViewsTyped, NEW v \in Views, At(v) # NoItem
    PROVE  At(v) \in Items
<1>1. queue[v] \in Seq(Items) /\ selection[v] \in DOMAIN queue[v] /\ At(v) = queue[v][selection[v]]
  BY DEF ViewsTyped, At
<1> QED BY <1>1

(* An append writes a line for what was done. *)
LEMMA ConsumeKeeps ==
    ASSUME SourcesTyped, LogInDone, NEW item \in Items, NEW at \in Nat, Consume(item, at)
    PROVE  log' \in Seq(Lines) /\ LogInDone'
<1>1. log \in Seq(Lines)
  BY DEF SourcesTyped
<1> DEFINE line == [id |-> item.id, at |-> at]
<1>2. CASE log' = Append(log, line) /\ done' = done \cup {<<item.what, at>>}
  <2>1. line \in Lines
    BY DEF Lines, Ids
  <2>2. line.id = item.id /\ line.at = at
    OBVIOUS
  <2> HIDE DEF line
  <2>3. /\ log' \in Seq(Lines) /\ Len(log') = Len(log) + 1 /\ Len(log) \in Nat
        /\ \A i \in 1..Len(log) : log'[i] = log[i]
        /\ log'[Len(log) + 1] = line
    BY <1>1, <1>2, <2>1, AppendProperties
  <2>4. ASSUME NEW i \in 1..Len(log'), NEW x \in Items, log'[i].id = x.id
        PROVE  <<x.what, log'[i].at>> \in done'
    <3>1. CASE i \in 1..Len(log)
      <4>1. <<x.what, log[i].at>> \in done
        BY <2>3, <2>4, <3>1 DEF LogInDone
      <4> QED BY <1>2, <2>3, <3>1, <4>1
    <3>2. CASE i = Len(log) + 1
      <4>1. log'[i] = line
        BY <2>3, <3>2
      <4>2. x.what = item.what
        BY <2>2, <2>4, <4>1, IdSaysWhat
      <4> QED BY <1>2, <2>2, <4>1, <4>2
    <3> QED BY <2>3, <3>1, <3>2
  <2> QED BY <2>3, <2>4 DEF LogInDone
<1>3. CASE UNCHANGED audit
  BY <1>1, <1>3 DEF audit, LogInDone
<1> QED BY <1>2, <1>3 DEF Consume

(* Anyone may edit the list of decisions, and it stays one. *)
LEMMA DecideKeeps ==
    ASSUME file \in Seq(Entries), Decide
    PROVE  file' \in Seq(Entries)
<1>1. ASSUME NEW t \in Texts, file' = Append(file, [text |-> t, resolved |-> FALSE])
      PROVE  file' \in Seq(Entries)
  <2>1. [text |-> t, resolved |-> FALSE] \in Entries
    BY DEF Entries
  <2> QED BY <1>1, <2>1, AppendProperties
<1>2. ASSUME NEW i \in DOMAIN file, file' = RemoveAt(file, i)
      PROVE  file' \in Seq(Entries)
  <2>1. Len(file) \in Nat /\ i \in 1..Len(file)
    OBVIOUS
  <2>2. SubSeq(file, 1, i - 1) \in Seq(Entries) /\ SubSeq(file, i + 1, Len(file)) \in Seq(Entries)
    BY <2>1, SubSeqProperties
  <2> QED BY <1>2, <2>2, ConcatProperties DEF RemoveAt
<1>3. ASSUME NEW i \in DOMAIN file, file' = [file EXCEPT ![i].resolved = TRUE]
      PROVE  file' \in Seq(Entries)
  <2>1. file[i] \in Entries
    OBVIOUS
  <2>2. [file[i] EXCEPT !.resolved = TRUE] \in Entries
    BY <2>1 DEF Entries
  <2>3. file' = [file EXCEPT ![i] = [file[i] EXCEPT !.resolved = TRUE]]
    BY <1>3
  <2> QED BY <2>2, <2>3, ExceptSeq
<1> QED BY <1>1, <1>2, <1>3 DEF Decide

(* What is read and what is written has its type. *)
LEMMA StepKeepsSources ==
    ASSUME FocusInv, [FocusNext]_focusVars
    PROVE  SourcesTyped'
<1> USE FocusAssumption, AttentionAssumption DEF FocusInv, SourcesTyped, ViewsTyped,
       StagesTyped, Loaders, sources, view, jump, audit
<1>1. ASSUME NEW l \in Loaders, ReadFocusFile(l) PROVE SourcesTyped'
  <2>1. got[l] \in Readings
    OBVIOUS
  <2>2. [got[l] EXCEPT !.file = file] \in Readings
    BY <2>1, ReadingsUpdated
  <2>3. got' = [got EXCEPT ![l] = [got[l] EXCEPT !.file = file]]
    BY <1>1 DEF ReadFocusFile
  <2> QED BY <1>1, <2>2, <2>3 DEF ReadFocusFile, Reads
<1>2. ASSUME NEW l \in Loaders, ListAgents(l) PROVE SourcesTyped'
  <2>1. got[l] \in Readings
    OBVIOUS
  <2>2. [got[l] EXCEPT !.agents = agents] \in Readings
    BY <2>1, ReadingsUpdated
  <2>3. got' = [got EXCEPT ![l] = [got[l] EXCEPT !.agents = agents]]
    BY <1>2 DEF ListAgents
  <2> QED BY <1>2, <2>2, <2>3 DEF ListAgents, Reads
<1>3. ASSUME NEW l \in Loaders, ReadLeads(l) PROVE SourcesTyped'
  <2>1. got[l] \in Readings
    OBVIOUS
  <2>2. [got[l] EXCEPT !.inbox = leadInbox] \in Readings
    BY <2>1, ReadingsUpdated
  <2>3. got' = [got EXCEPT ![l] = [got[l] EXCEPT !.inbox = leadInbox]]
    BY <1>3 DEF ReadLeads
  <2> QED BY <1>3, <2>2, <2>3 DEF ReadLeads, Reads
<1>4. ASSUME NEW l \in Loaders, MissLeads(l) PROVE SourcesTyped'
  <2>1. got[l] \in Readings
    OBVIOUS
  <2>2. [got[l] EXCEPT !.missed = TRUE] \in Readings
    BY <2>1, ReadingsUpdated
  <2>3. got' = [got EXCEPT ![l] = [got[l] EXCEPT !.missed = TRUE]]
    BY <1>4 DEF MissLeads
  <2> QED BY <1>4, <2>2, <2>3 DEF MissLeads, Reads
<1>5. ASSUME NEW l \in Loaders, LoadFails(l) PROVE SourcesTyped'
  <2>1. Nothing \in Readings
    BY ReadingsUpdated
  <2>2. got' = [got EXCEPT ![l] = Nothing]
    BY <1>5 DEF LoadFails
  <2> QED BY <1>5, <2>1, <2>2 DEF LoadFails
<1>6. ASSUME NEW v \in Views, Reload(v) PROVE SourcesTyped'
  <2>1. Nothing \in Readings
    BY ReadingsUpdated
  <2>2. got' = [got EXCEPT ![v] = Nothing]
    BY <1>6 DEF Reload
  <2> QED BY <1>6, <2>1, <2>2 DEF Reload
<1>7. ASSUME NEW v \in Views, Refresh(v) PROVE SourcesTyped'
  BY <1>7 DEF Refresh
<1>8. ASSUME NEW v \in Views, NEW key, key # "none", Press(v, key) PROVE SourcesTyped'
  BY <1>8 DEF Press
<1>9. ASSUME NEW v \in Views, NEW key, NEW to, Move(v, key, to) PROVE SourcesTyped'
  BY <1>9 DEF Move, Handles
<1>10. ASSUME NEW v \in Views, JumpToSelected(v) PROVE SourcesTyped'
  BY <1>10 DEF JumpToSelected, Handles
<1>11. ASSUME NEW v \in Views, MarkDone(v) PROVE SourcesTyped'
  <2>1. CASE At(v) # NoItem /\ Consume(At(v), now)
    <3>1. At(v) \in Items /\ now \in Nat
      BY <2>1, AtIsItem DEF SourcesTyped
    <3>2. log' \in Seq(Lines)
      BY <2>1, <3>1, ConsumeKeeps DEF FocusInv
    <3> QED BY <1>11, <3>2 DEF MarkDone, Handles
  <2>2. CASE UNCHANGED audit
    BY <1>11, <2>2 DEF MarkDone, Handles
  <2> QED BY <1>11, <2>1, <2>2 DEF MarkDone
<1>12. ASSUME NEW v \in Views, Quit(v) PROVE SourcesTyped'
  BY <1>12 DEF Quit, Handles
<1>13. ASSUME NEW j \in Jumps, StartJump(j) PROVE SourcesTyped'
  BY <1>13 DEF StartJump
<1>14. ASSUME NEW j \in Jumps, PickTarget(j) PROVE SourcesTyped'
  <2>1. Nothing \in Readings
    BY ReadingsUpdated
  <2>2. got' = [got EXCEPT ![j] = Nothing]
    BY <1>14 DEF PickTarget
  <2> QED BY <1>14, <2>1, <2>2 DEF PickTarget
<1>15. ASSUME NEW j \in Jumps, Go(j) PROVE SourcesTyped'
  BY <1>15 DEF Go
<1>16. ASSUME NEW j \in Jumps, RecordJump(j) PROVE SourcesTyped'
  <2>1. target[j] \in Items /\ stamp[j] \in Nat /\ Consume(target[j], stamp[j])
    BY <1>16 DEF RecordJump
  <2>2. log' \in Seq(Lines)
    BY <2>1, ConsumeKeeps DEF FocusInv
  <2> QED BY <1>16, <2>2 DEF RecordJump
<1>17. ASSUME NEW p \in Panes, AgentChanges(p) PROVE SourcesTyped'
  <2>1. PICK s \in AgentStates : agents' = [agents EXCEPT ![p] = s]
    BY <1>17 DEF AgentChanges
  <2>2. agents' \in AgentsSeen
    BY <2>1 DEF AgentsSeen
  <2> QED BY <1>17, <2>2 DEF AgentChanges, Changes
<1>18. ASSUME Decide PROVE SourcesTyped'
  <2>1. file' \in Seq(Entries)
    BY <1>18, DecideKeeps
  <2> QED BY <1>18, <2>1 DEF Decide, Changes
<1>19. ASSUME MessageArrives PROVE SourcesTyped'
  BY <1>19 DEF MessageArrives, Changes
<1>20. ASSUME Tick PROVE SourcesTyped'
  BY <1>20 DEF Tick
<1>21. CASE UNCHANGED focusVars
  BY <1>21 DEF focusVars
<1> QED BY <1>1, <1>2, <1>3, <1>4, <1>5, <1>6, <1>7, <1>8, <1>9, <1>10, <1>11, <1>12, <1>13, <1>14,
        <1>15, <1>16, <1>17, <1>18, <1>19, <1>20, <1>21
        DEF FocusNext, View, Load, Key, Jump, Loaders

(* The selection stays within the rows. *)
LEMMA StepKeepsViews ==
    ASSUME FocusInv, [FocusNext]_focusVars
    PROVE  ViewsTyped'
<1> USE FocusAssumption, AttentionAssumption DEF FocusInv, SourcesTyped, ViewsTyped,
       StagesTyped, Loaders, sources, view, jump, audit
<1>1. ASSUME NEW l \in Loaders, ReadFocusFile(l) PROVE ViewsTyped'
  BY <1>1 DEF ReadFocusFile, Reads
<1>2. ASSUME NEW l \in Loaders, ListAgents(l) PROVE ViewsTyped'
  BY <1>2 DEF ListAgents, Reads
<1>3. ASSUME NEW l \in Loaders, ReadLeads(l) PROVE ViewsTyped'
  BY <1>3 DEF ReadLeads, Reads
<1>4. ASSUME NEW l \in Loaders, MissLeads(l) PROVE ViewsTyped'
  BY <1>4 DEF MissLeads, Reads
<1>5. ASSUME NEW l \in Loaders, LoadFails(l) PROVE ViewsTyped'
  BY <1>5 DEF LoadFails
<1>6. ASSUME NEW v \in Views, Reload(v) PROVE ViewsTyped'
  <2> DEFINE rows == Loaded(v)
  <2>1. rows \in Seq(Items)
    BY LoadedHasHeld
  <2>2. /\ queue' = [queue EXCEPT ![v] = rows]
        /\ selection' = [selection EXCEPT ![v] = SelectionAfter(v, rows)]
        /\ UNCHANGED pressed
    BY <1>6 DEF Reload
  <2>3. moved' \in [Views -> BOOLEAN]
    BY <1>6 DEF Reload
  <2> HIDE DEF rows
  <2>4. /\ SelectionAfter(v, rows) \in Nat \ {0}
        /\ rows # <<>> => SelectionAfter(v, rows) <= Len(rows)
    BY <2>1 DEF SelectionAfter
  <2>5. queue' \in [Views -> Seq(Items)] /\ selection' \in [Views -> Nat \ {0}]
    BY <2>1, <2>2, <2>4
  <2>6. ASSUME NEW u \in Views, queue'[u] # <<>> PROVE selection'[u] <= Len(queue'[u])
    <3>1. CASE u = v
      BY <2>2, <2>4, <2>6, <3>1
    <3>2. CASE u # v
      BY <2>2, <2>6, <3>2
    <3> QED BY <3>1, <3>2
  <2> QED BY <2>2, <2>3, <2>5, <2>6
<1>7. ASSUME NEW v \in Views, Refresh(v) PROVE ViewsTyped'
  BY <1>7 DEF Refresh
<1>8. ASSUME NEW v \in Views, NEW key, key # "none", Press(v, key) PROVE ViewsTyped'
  BY <1>8 DEF Press
<1>9. ASSUME NEW v \in Views, NEW key, NEW to, Move(v, key, to) PROVE ViewsTyped'
  BY <1>9 DEF Move, Handles
<1>10. ASSUME NEW v \in Views, JumpToSelected(v) PROVE ViewsTyped'
  BY <1>10 DEF JumpToSelected, Handles
<1>11. ASSUME NEW v \in Views, MarkDone(v) PROVE ViewsTyped'
  BY <1>11 DEF MarkDone, Handles
<1>12. ASSUME NEW v \in Views, Quit(v) PROVE ViewsTyped'
  BY <1>12 DEF Quit, Handles
<1>13. ASSUME NEW j \in Jumps, StartJump(j) PROVE ViewsTyped'
  BY <1>13 DEF StartJump
<1>14. ASSUME NEW j \in Jumps, PickTarget(j) PROVE ViewsTyped'
  BY <1>14 DEF PickTarget
<1>15. ASSUME NEW j \in Jumps, Go(j) PROVE ViewsTyped'
  BY <1>15 DEF Go
<1>16. ASSUME NEW j \in Jumps, RecordJump(j) PROVE ViewsTyped'
  BY <1>16 DEF RecordJump
<1>17. ASSUME NEW p \in Panes, AgentChanges(p) PROVE ViewsTyped'
  BY <1>17 DEF AgentChanges, Changes
<1>18. ASSUME Decide PROVE ViewsTyped'
  BY <1>18 DEF Decide, Changes
<1>19. ASSUME MessageArrives PROVE ViewsTyped'
  BY <1>19 DEF MessageArrives, Changes
<1>20. ASSUME Tick PROVE ViewsTyped'
  BY <1>20 DEF Tick
<1>21. CASE UNCHANGED focusVars
  BY <1>21 DEF focusVars
<1> QED BY <1>1, <1>2, <1>3, <1>4, <1>5, <1>6, <1>7, <1>8, <1>9, <1>10, <1>11, <1>12, <1>13, <1>14,
        <1>15, <1>16, <1>17, <1>18, <1>19, <1>20, <1>21
        DEF FocusNext, View, Load, Key, Jump, Loaders

(* Each load goes through its stages. *)
LEMMA StepKeepsStages ==
    ASSUME FocusInv, [FocusNext]_focusVars
    PROVE  StagesTyped'
<1> USE FocusAssumption, AttentionAssumption DEF FocusInv, SourcesTyped, ViewsTyped,
       StagesTyped, Loaders, After, sources, view, jump, audit
<1>1. ASSUME NEW l \in Loaders, ReadFocusFile(l) PROVE StagesTyped'
  BY <1>1 DEF ReadFocusFile, Reads
<1>2. ASSUME NEW l \in Loaders, ListAgents(l) PROVE StagesTyped'
  BY <1>2 DEF ListAgents, Reads
<1>3. ASSUME NEW l \in Loaders, ReadLeads(l) PROVE StagesTyped'
  BY <1>3 DEF ReadLeads, Reads
<1>4. ASSUME NEW l \in Loaders, MissLeads(l) PROVE StagesTyped'
  BY <1>4 DEF MissLeads, Reads
<1>5. ASSUME NEW l \in Loaders, LoadFails(l) PROVE StagesTyped'
  BY <1>5 DEF LoadFails
<1>6. ASSUME NEW v \in Views, Reload(v) PROVE StagesTyped'
  BY <1>6 DEF Reload
<1>7. ASSUME NEW v \in Views, Refresh(v) PROVE StagesTyped'
  BY <1>7 DEF Refresh
<1>8. ASSUME NEW v \in Views, NEW key, key # "none", Press(v, key) PROVE StagesTyped'
  BY <1>8 DEF Press
<1>9. ASSUME NEW v \in Views, NEW key, NEW to, Move(v, key, to) PROVE StagesTyped'
  BY <1>9 DEF Move, Handles
<1>10. ASSUME NEW v \in Views, JumpToSelected(v) PROVE StagesTyped'
  BY <1>10 DEF JumpToSelected, Handles
<1>11. ASSUME NEW v \in Views, MarkDone(v) PROVE StagesTyped'
  BY <1>11 DEF MarkDone, Handles
<1>12. ASSUME NEW v \in Views, Quit(v) PROVE StagesTyped'
  BY <1>12 DEF Quit, Handles
<1>13. ASSUME NEW j \in Jumps, StartJump(j) PROVE StagesTyped'
  BY <1>13 DEF StartJump
<1>14. ASSUME NEW j \in Jumps, PickTarget(j) PROVE StagesTyped'
  <2> DEFINE rows == Loaded(j)
  <2>1. rows \in Seq(Items)
    BY LoadedHasHeld
  <2>2. Candidates(rows) # {} => rows[Min(Candidates(rows))] \in Items
    <3>1. Candidates(rows) \in SUBSET (1..Len(rows)) /\ Len(rows) \in Nat
      BY <2>1 DEF Candidates
    <3>2. Candidates(rows) \in SUBSET Nat
      BY <3>1
    <3>3. Candidates(rows) # {} => Min(Candidates(rows)) \in Candidates(rows)
      BY <3>2, MinIsFirst
    <3> QED BY <2>1, <3>1, <3>3
  <2>3. CASE Candidates(rows) = {}
    <3>1. pc' = [pc EXCEPT ![j] = "over"] /\ UNCHANGED <<target, stamp>>
      BY <1>14, <2>3 DEF PickTarget
    <3> QED BY <3>1
  <2>4. CASE Candidates(rows) # {}
    <3>1. /\ pc' = [pc EXCEPT ![j] = "go"] /\ UNCHANGED stamp
          /\ target' = [target EXCEPT ![j] = rows[Min(Candidates(rows))]]
      BY <1>14, <2>4 DEF PickTarget
    <3> HIDE DEF rows
    <3> QED BY <2>2, <2>4, <3>1
  <2> QED BY <2>3, <2>4
<1>15. ASSUME NEW j \in Jumps, Go(j) PROVE StagesTyped'
  <2>1. CASE pc' = [pc EXCEPT ![j] = "append"] /\ stamp' = [stamp EXCEPT ![j] = now]
    <3>1. pc[j] = "go" /\ UNCHANGED target
      BY <1>15 DEF Go
    <3> QED BY <2>1, <3>1
  <2>2. CASE pc' = [pc EXCEPT ![j] = "over"] /\ UNCHANGED stamp
    BY <1>15, <2>2 DEF Go
  <2> QED BY <1>15, <2>1, <2>2 DEF Go
<1>16. ASSUME NEW j \in Jumps, RecordJump(j) PROVE StagesTyped'
  BY <1>16 DEF RecordJump
<1>17. ASSUME NEW p \in Panes, AgentChanges(p) PROVE StagesTyped'
  BY <1>17 DEF AgentChanges, Changes
<1>18. ASSUME Decide PROVE StagesTyped'
  BY <1>18 DEF Decide, Changes
<1>19. ASSUME MessageArrives PROVE StagesTyped'
  BY <1>19 DEF MessageArrives, Changes
<1>20. ASSUME Tick PROVE StagesTyped'
  BY <1>20 DEF Tick
<1>21. CASE UNCHANGED focusVars
  BY <1>21 DEF focusVars
<1> QED BY <1>1, <1>2, <1>3, <1>4, <1>5, <1>6, <1>7, <1>8, <1>9, <1>10, <1>11, <1>12, <1>13, <1>14,
        <1>15, <1>16, <1>17, <1>18, <1>19, <1>20, <1>21
        DEF FocusNext, View, Load, Key, Jump, Loaders

(* Whatever is appended has been done. *)
LEMMA StepKeepsLog ==
    ASSUME FocusInv, [FocusNext]_focusVars
    PROVE  LogInDone'
<1> USE FocusAssumption, AttentionAssumption DEF FocusInv, SourcesTyped, ViewsTyped,
       StagesTyped, LogInDone, Loaders, sources, view, jump, audit
<1>1. ASSUME NEW l \in Loaders, ReadFocusFile(l) PROVE LogInDone'
  BY <1>1 DEF ReadFocusFile, Reads
<1>2. ASSUME NEW l \in Loaders, ListAgents(l) PROVE LogInDone'
  BY <1>2 DEF ListAgents, Reads
<1>3. ASSUME NEW l \in Loaders, ReadLeads(l) PROVE LogInDone'
  BY <1>3 DEF ReadLeads, Reads
<1>4. ASSUME NEW l \in Loaders, MissLeads(l) PROVE LogInDone'
  BY <1>4 DEF MissLeads, Reads
<1>5. ASSUME NEW l \in Loaders, LoadFails(l) PROVE LogInDone'
  BY <1>5 DEF LoadFails
<1>6. ASSUME NEW v \in Views, Reload(v) PROVE LogInDone'
  BY <1>6 DEF Reload
<1>7. ASSUME NEW v \in Views, Refresh(v) PROVE LogInDone'
  BY <1>7 DEF Refresh
<1>8. ASSUME NEW v \in Views, NEW key, key # "none", Press(v, key) PROVE LogInDone'
  BY <1>8 DEF Press
<1>9. ASSUME NEW v \in Views, NEW key, NEW to, Move(v, key, to) PROVE LogInDone'
  BY <1>9 DEF Move, Handles
<1>10. ASSUME NEW v \in Views, JumpToSelected(v) PROVE LogInDone'
  BY <1>10 DEF JumpToSelected, Handles
<1>11. ASSUME NEW v \in Views, MarkDone(v) PROVE LogInDone'
  <2>1. CASE At(v) # NoItem /\ Consume(At(v), now)
    <3>1. At(v) \in Items /\ now \in Nat
      BY <2>1, AtIsItem DEF SourcesTyped
    <3>2. LogInDone'
      BY <2>1, <3>1, ConsumeKeeps DEF FocusInv
    <3> QED BY <1>11, <3>2 DEF MarkDone, Handles
  <2>2. CASE UNCHANGED audit
    BY <1>11, <2>2 DEF MarkDone, Handles
  <2> QED BY <1>11, <2>1, <2>2 DEF MarkDone
<1>12. ASSUME NEW v \in Views, Quit(v) PROVE LogInDone'
  BY <1>12 DEF Quit, Handles
<1>13. ASSUME NEW j \in Jumps, StartJump(j) PROVE LogInDone'
  BY <1>13 DEF StartJump
<1>14. ASSUME NEW j \in Jumps, PickTarget(j) PROVE LogInDone'
  BY <1>14 DEF PickTarget
<1>15. ASSUME NEW j \in Jumps, Go(j) PROVE LogInDone'
  BY <1>15 DEF Go
<1>16. ASSUME NEW j \in Jumps, RecordJump(j) PROVE LogInDone'
  <2>1. target[j] \in Items /\ stamp[j] \in Nat /\ Consume(target[j], stamp[j])
    BY <1>16 DEF RecordJump
  <2>2. LogInDone'
    BY <2>1, ConsumeKeeps DEF FocusInv
  <2> QED BY <1>16, <2>2 DEF RecordJump
<1>17. ASSUME NEW p \in Panes, AgentChanges(p) PROVE LogInDone'
  BY <1>17 DEF AgentChanges, Changes
<1>18. ASSUME Decide PROVE LogInDone'
  BY <1>18 DEF Decide, Changes
<1>19. ASSUME MessageArrives PROVE LogInDone'
  BY <1>19 DEF MessageArrives, Changes
<1>20. ASSUME Tick PROVE LogInDone'
  BY <1>20 DEF Tick
<1>21. CASE UNCHANGED focusVars
  BY <1>21 DEF focusVars
<1> QED BY <1>1, <1>2, <1>3, <1>4, <1>5, <1>6, <1>7, <1>8, <1>9, <1>10, <1>11, <1>12, <1>13, <1>14,
        <1>15, <1>16, <1>17, <1>18, <1>19, <1>20, <1>21
        DEF FocusNext, View, Load, Key, Jump, Loaders

(* Rows that are the same down to a selection have the same row there, and *)
(* the selection that is left of one beyond the rows is beyond both.       *)
LEMMA RowStays ==
    ASSUME NEW old \in Seq(Items), NEW rows \in Seq(Items), NEW s \in Nat \ {0},
           old # <<>> => s <= Len(old),
           Above(rows, s) = Above(old, s),
           NEW t, t = IF s <= Len(rows) THEN s ELSE IF rows = <<>> THEN 1 ELSE Len(rows)
    PROVE  (IF t \in DOMAIN rows THEN rows[t] ELSE NoItem) = (IF s \in DOMAIN old THEN old[s] ELSE NoItem)
<1>1. /\ DOMAIN old = 1..Len(old) /\ Len(old) \in Nat /\ old = <<>> <=> Len(old) = 0
      /\ DOMAIN rows = 1..Len(rows) /\ Len(rows) \in Nat /\ rows = <<>> <=> Len(rows) = 0
  OBVIOUS
<1>2. ASSUME NEW q \in Seq(Items)
      PROVE  /\ Len(Above(q, s)) = IF s < Len(q) THEN s ELSE Len(q)
             /\ \A i \in 1..Len(q) : i <= s => Above(q, s)[i] = q[i]
  <2> DEFINE n == IF s < Len(q) THEN s ELSE Len(q)
  <2>1. n \in Nat /\ n <= Len(q) /\ (\A i \in 1..Len(q) : i <= s => i <= n) /\ Len(q) \in Nat
    OBVIOUS
  <2>2. Above(q, s) = SubSeq(q, 1, n)
    BY DEF Above
  <2> HIDE DEF n
  <2>3. \A i \in 1..n : q[i] \in Items
    BY <2>1
  <2>4. /\ Len(SubSeq(q, 1, n)) = IF 1 <= n THEN n - 1 + 1 ELSE 0
        /\ \A i \in 1..n - 1 + 1 : SubSeq(q, 1, n)[i] = q[1 + i - 1]
    BY <2>1, <2>3, SubSeqProperties
  <2>5. Len(Above(q, s)) = n
    BY <2>1, <2>2, <2>4
  <2>6. ASSUME NEW i \in 1..Len(q), i <= s PROVE Above(q, s)[i] = q[i]
    <3>1. i \in 1..n - 1 + 1 /\ 1 + i - 1 = i
      BY <2>1, <2>6
    <3> QED BY <2>2, <2>4, <3>1
  <2> QED BY <2>5, <2>6 DEF n
<1>3. /\ Len(Above(old, s)) = IF s < Len(old) THEN s ELSE Len(old)
      /\ \A i \in 1..Len(old) : i <= s => Above(old, s)[i] = old[i]
      /\ Len(Above(rows, s)) = IF s < Len(rows) THEN s ELSE Len(rows)
      /\ \A i \in 1..Len(rows) : i <= s => Above(rows, s)[i] = rows[i]
  BY <1>2
<1>4. CASE s <= Len(rows)
  <2>1. t = s /\ s <= Len(old) /\ s \in 1..Len(old) /\ s \in 1..Len(rows)
    BY <1>1, <1>3, <1>4
  <2>2. rows[s] = old[s]
    BY <1>3, <2>1
  <2> QED BY <1>1, <2>1, <2>2
<1>5. CASE s > Len(rows)
  <2>1. Len(old) < s
    BY <1>1, <1>3, <1>5
  <2>2. old = <<>> /\ rows = <<>>
    BY <1>1, <1>3, <1>5, <2>1
  <2>3. t = 1 /\ t \notin DOMAIN rows /\ s \notin DOMAIN old
    BY <1>1, <1>5, <2>1, <2>2
  <2> QED BY <2>3
<1> QED BY <1>1, <1>4, <1>5

(***************************************************************************)
(* A key stays at its row: when the rows up to it are the same, so is it,  *)
(* and a selection beyond the rows there are is beyond those there were.   *)
(***************************************************************************)
LEMMA StepKeepsChosen ==
    ASSUME FocusInv, [FocusNext]_focusVars
    PROVE  ChosenUnlessMoved'
<1> USE FocusAssumption, AttentionAssumption DEF FocusInv, SourcesTyped, ViewsTyped,
       StagesTyped, ChosenUnlessMoved, Loaders, At, sources, view, jump, audit
<1>1. ASSUME NEW l \in Loaders, ReadFocusFile(l) PROVE ChosenUnlessMoved'
  BY <1>1 DEF ReadFocusFile, Reads
<1>2. ASSUME NEW l \in Loaders, ListAgents(l) PROVE ChosenUnlessMoved'
  BY <1>2 DEF ListAgents, Reads
<1>3. ASSUME NEW l \in Loaders, ReadLeads(l) PROVE ChosenUnlessMoved'
  BY <1>3 DEF ReadLeads, Reads
<1>4. ASSUME NEW l \in Loaders, MissLeads(l) PROVE ChosenUnlessMoved'
  BY <1>4 DEF MissLeads, Reads
<1>5. ASSUME NEW l \in Loaders, LoadFails(l) PROVE ChosenUnlessMoved'
  BY <1>5 DEF LoadFails
<1>6. ASSUME NEW v \in Views, Reload(v) PROVE ChosenUnlessMoved'
  <2> DEFINE rows == Loaded(v)
           s == selection[v]
  <2>1. rows \in Seq(Items)
    BY LoadedHasHeld
  <2>2. /\ queue' = [queue EXCEPT ![v] = rows]
        /\ selection' = [selection EXCEPT ![v] = SelectionAfter(v, rows)]
        /\ UNCHANGED pressed
        /\ moved' = [moved EXCEPT ![v] =
              moved[v] \/ (pressed[v] # NoKey /\ Above(rows, s) # Above(queue[v], s))]
    BY <1>6 DEF Reload
  <2> HIDE DEF rows
  <2> SUFFICES ASSUME NEW u \in Views, pressed[u] # NoKey, ~moved'[u]
               PROVE  At(u)' = pressed[u].item
    BY <2>2
  <2>3. CASE u # v
    BY <2>2, <2>3
  <2>4. CASE u = v
    <3>1. Above(rows, s) = Above(queue[v], s) /\ At(v) = pressed[v].item
      BY <2>2, <2>4
    <3>2. At(v)' = IF SelectionAfter(v, rows) \in DOMAIN rows
                   THEN rows[SelectionAfter(v, rows)] ELSE NoItem
      BY <2>2
    <3>3. /\ queue[v] \in Seq(Items) /\ s \in Nat \ {0}
          /\ queue[v] # <<>> => s <= Len(queue[v])
      OBVIOUS
    <3>4. SelectionAfter(v, rows) = IF s <= Len(rows) THEN s ELSE IF rows = <<>> THEN 1 ELSE Len(rows)
      BY DEF SelectionAfter
    <3> HIDE DEF s
    <3>5. (IF SelectionAfter(v, rows) \in DOMAIN rows THEN rows[SelectionAfter(v, rows)] ELSE NoItem)
             = (IF s \in DOMAIN queue[v] THEN queue[v][s] ELSE NoItem)
      BY <2>1, <3>1, <3>3, <3>4, RowStays
    <3>6. At(v)' = At(v)
      BY <3>2, <3>5 DEF s
    <3> QED BY <2>4, <3>1, <3>6
  <2> QED BY <2>3, <2>4
<1>7. ASSUME NEW v \in Views, Refresh(v) PROVE ChosenUnlessMoved'
  BY <1>7 DEF Refresh
<1>8. ASSUME NEW v \in Views, NEW key, key # "none", Press(v, key) PROVE ChosenUnlessMoved'
  BY <1>8 DEF Press
<1>9. ASSUME NEW v \in Views, NEW key, NEW to, Move(v, key, to) PROVE ChosenUnlessMoved'
  BY <1>9 DEF Move, Handles
<1>10. ASSUME NEW v \in Views, JumpToSelected(v) PROVE ChosenUnlessMoved'
  BY <1>10 DEF JumpToSelected, Handles
<1>11. ASSUME NEW v \in Views, MarkDone(v) PROVE ChosenUnlessMoved'
  BY <1>11 DEF MarkDone, Handles
<1>12. ASSUME NEW v \in Views, Quit(v) PROVE ChosenUnlessMoved'
  BY <1>12 DEF Quit, Handles
<1>13. ASSUME NEW j \in Jumps, StartJump(j) PROVE ChosenUnlessMoved'
  BY <1>13 DEF StartJump
<1>14. ASSUME NEW j \in Jumps, PickTarget(j) PROVE ChosenUnlessMoved'
  BY <1>14 DEF PickTarget
<1>15. ASSUME NEW j \in Jumps, Go(j) PROVE ChosenUnlessMoved'
  BY <1>15 DEF Go
<1>16. ASSUME NEW j \in Jumps, RecordJump(j) PROVE ChosenUnlessMoved'
  BY <1>16 DEF RecordJump
<1>17. ASSUME NEW p \in Panes, AgentChanges(p) PROVE ChosenUnlessMoved'
  BY <1>17 DEF AgentChanges, Changes
<1>18. ASSUME Decide PROVE ChosenUnlessMoved'
  BY <1>18 DEF Decide, Changes
<1>19. ASSUME MessageArrives PROVE ChosenUnlessMoved'
  BY <1>19 DEF MessageArrives, Changes
<1>20. ASSUME Tick PROVE ChosenUnlessMoved'
  BY <1>20 DEF Tick
<1>21. CASE UNCHANGED focusVars
  BY <1>21 DEF focusVars
<1> QED BY <1>1, <1>2, <1>3, <1>4, <1>5, <1>6, <1>7, <1>8, <1>9, <1>10, <1>11, <1>12, <1>13, <1>14,
        <1>15, <1>16, <1>17, <1>18, <1>19, <1>20, <1>21
        DEF FocusNext, View, Load, Key, Jump, Loaders

(* What Remember leaves of what has needed attention. *)
LEMMA Remembered ==
    ASSUME Remember, NEW l \in Loaders
    PROVE  /\ Loading(l)' => held'[l] \subseteq Needs'
           /\ Loading(l) /\ Loading(l)' => held'[l] \subseteq held[l]
           /\ ~Loading(l)' => held'[l] = {}
<1>1. held'[l] = CASE ~Loading(l)' -> {}
                   [] Loading(l)' /\ ~Loading(l) -> Needs'
                   [] Loading(l)' /\ Loading(l) -> held[l] \cap Needs'
  BY DEF Remember
<1>2. CASE ~Loading(l)'
  BY <1>1, <1>2
<1>3. CASE Loading(l)' /\ ~Loading(l)
  <2>1. held'[l] = Needs'
    BY <1>1, <1>3
  <2> QED BY <1>3, <2>1
<1>4. CASE Loading(l)' /\ Loading(l)
  <2>1. held'[l] = held[l] \cap Needs'
    BY <1>1, <1>4
  <2> QED BY <1>4, <2>1
<1> QED BY <1>2, <1>3, <1>4

(* A load that is where it was has read what it had. *)
LEMMA HeldStays ==
    ASSUME FocusInv, Remember, NEW l \in Loaders, pc'[l] = pc[l], got'[l] = got[l]
    PROVE  HeldOf(l)'
<1>1. /\ Loading(l)' <=> Loading(l)
      /\ FileRead(l)' <=> FileRead(l)
      /\ AgentsRead(l)' <=> AgentsRead(l)
      /\ InboxRead(l)' <=> InboxRead(l)
  BY DEF Loading, FileRead, AgentsRead, InboxRead
<1>2. FileRead(l) \/ AgentsRead(l) \/ InboxRead(l) => Loading(l)
  BY DEF Loading, FileRead, AgentsRead, InboxRead
<1>3. /\ Loading(l)' => held'[l] \subseteq Needs'
      /\ Loading(l) /\ Loading(l)' => held'[l] \subseteq held[l]
  BY Remembered
<1>4. HeldOf(l)
  BY DEF FocusInv, HeldIsRead
<1>5. FileRead(l)' => held'[l] \subseteq AllBlocked \cup FromFile(got'[l].file) \cup AllMessages
  BY <1>1, <1>2, <1>3, <1>4 DEF HeldOf
<1>6. AgentsRead(l)' => held'[l] \subseteq
         FromAgents(got'[l].agents) \cup AllDecisions
             \cup {Message(m, Home(got'[l].agents)) : m \in Messages}
  BY <1>1, <1>2, <1>3, <1>4 DEF HeldOf
<1>7. InboxRead(l)' /\ ~got'[l].missed => held'[l] \subseteq
         AllBlocked \cup AllDecisions
             \cup {Message(m, p) : m \in ToSet(got'[l].inbox), p \in {None, LeadPane}}
  BY <1>1, <1>2, <1>3, <1>4 DEF HeldOf
<1> QED BY <1>3, <1>5, <1>6, <1>7 DEF HeldOf

(* A load that begins or is over has read nothing. *)
LEMMA HeldBegins ==
    ASSUME Remember, NEW l \in Loaders, NEW at,
           pc'[l] = at, at \notin {"leads", "consumed"}, at # IF l \in Views THEN "agents" ELSE "focus"
    PROVE  HeldOf(l)'
<1>1. ~FileRead(l)' /\ ~AgentsRead(l)' /\ ~InboxRead(l)'
  BY DEF FileRead, AgentsRead, InboxRead
<1>2. Loading(l)' => held'[l] \subseteq Needs'
  BY Remembered
<1> QED BY <1>1, <1>2 DEF HeldOf

(* A load that reads a source has in its readings what is there and needs attention. *)
LEMMA HeldReads ==
    ASSUME FocusInv, Remember, NEW l \in Loaders,
           ReadFocusFile(l) \/ ListAgents(l) \/ ReadLeads(l) \/ MissLeads(l)
    PROVE  HeldOf(l)'
<1> USE FocusAssumption DEF Loaders
<1>1. /\ agents \in AgentsSeen /\ file \in Seq(Entries) /\ leadInbox \in Seq(Messages)
      /\ got[l] \in Readings /\ DOMAIN got = Loaders /\ DOMAIN pc = Loaders
  BY DEF FocusInv, SourcesTyped, StagesTyped
<1>2. Loading(l) /\ Loading(l)'
  BY <1>1 DEF ReadFocusFile, ListAgents, ReadLeads, MissLeads, Reads, After, Loading
<1>3. held'[l] \subseteq Needs' /\ held'[l] \subseteq held[l]
  BY <1>2, Remembered
<1>4. UNCHANGED <<agents, file, leadInbox>>
  BY DEF ReadFocusFile, ListAgents, ReadLeads, MissLeads, Reads, sources
<1>5. held'[l] \subseteq FromAgents(agents) \cup FromFile(file) \cup FromInbox(agents, leadInbox)
  <2>1. Needs' \subseteq ToSet(AttentionQueue(agents, file, leadInbox))
    BY <1>4 DEF Needs
  <2>2. ToSet(AttentionQueue(agents, file, leadInbox))
           = FromAgents(agents) \cup FromFile(file) \cup FromInbox(agents, leadInbox)
    BY <1>1, QueueOrdered
  <2> QED BY <1>3, <2>1, <2>2
<1>6. /\ FromAgents(agents) \subseteq AllBlocked /\ FromFile(file) \subseteq AllDecisions
      /\ FromInbox(agents, leadInbox) \subseteq {Message(m, Home(agents)) : m \in Messages}
      /\ FromInbox(agents, leadInbox) \subseteq
            {Message(m, p) : m \in ToSet(leadInbox), p \in {None, LeadPane}}
      /\ {Message(m, Home(agents)) : m \in Messages} \subseteq AllMessages
  BY <1>1, SourcesHaveItems
<1>7. HeldOf(l)
  BY DEF FocusInv, HeldIsRead
<1>8. CASE ReadFocusFile(l)
  <2>1. got'[l] = [got[l] EXCEPT !.file = file] /\ pc[l] = "focus"
        /\ pc'[l] = IF l \in Views THEN "agents" ELSE "leads"
    BY <1>1, <1>8 DEF ReadFocusFile, Reads, After
  <2>2. /\ got'[l].file = file /\ got'[l].agents = got[l].agents
        /\ (AgentsRead(l)' => AgentsRead(l)) /\ ~InboxRead(l)'
    BY <1>1, <2>1 DEF Readings, AgentsRead, InboxRead
  <2>3. held'[l] \subseteq AllBlocked \cup FromFile(got'[l].file) \cup AllMessages
    BY <1>5, <1>6, <2>2
  <2>4. AgentsRead(l)' => held'[l] \subseteq
           FromAgents(got'[l].agents) \cup AllDecisions
               \cup {Message(m, Home(got'[l].agents)) : m \in Messages}
    BY <1>3, <1>7, <2>2 DEF HeldOf
  <2> QED BY <1>3, <2>2, <2>3, <2>4 DEF HeldOf
<1>9. CASE ListAgents(l)
  <2>1. got'[l] = [got[l] EXCEPT !.agents = agents] /\ pc[l] = "agents"
        /\ pc'[l] = IF l \in Views THEN "leads" ELSE "focus"
    BY <1>1, <1>9 DEF ListAgents, Reads, After
  <2>2. /\ got'[l].agents = agents /\ got'[l].file = got[l].file
        /\ (FileRead(l)' => FileRead(l)) /\ ~InboxRead(l)'
    BY <1>1, <2>1 DEF Readings, FileRead, InboxRead
  <2>3. held'[l] \subseteq FromAgents(got'[l].agents) \cup AllDecisions
           \cup {Message(m, Home(got'[l].agents)) : m \in Messages}
    BY <1>5, <1>6, <2>2
  <2>4. FileRead(l)' => held'[l] \subseteq AllBlocked \cup FromFile(got'[l].file) \cup AllMessages
    BY <1>3, <1>7, <2>2 DEF HeldOf
  <2> QED BY <1>3, <2>2, <2>3, <2>4 DEF HeldOf
<1>10. CASE ReadLeads(l)
  <2>1. got'[l] = [got[l] EXCEPT !.inbox = leadInbox] /\ pc[l] = "leads" /\ pc'[l] = "consumed"
    BY <1>1, <1>10 DEF ReadLeads, Reads, After
  <2>2. /\ got'[l].inbox = leadInbox
        /\ got'[l].agents = got[l].agents /\ got'[l].file = got[l].file
        /\ FileRead(l) /\ AgentsRead(l)
    BY <1>1, <2>1 DEF Readings, FileRead, AgentsRead
  <2>3. held'[l] \subseteq AllBlocked \cup AllDecisions
           \cup {Message(m, p) : m \in ToSet(got'[l].inbox), p \in {None, LeadPane}}
    BY <1>5, <1>6, <2>2
  <2>4. held'[l] \subseteq AllBlocked \cup FromFile(got'[l].file) \cup AllMessages
    BY <1>3, <1>7, <2>2 DEF HeldOf
  <2>5. held'[l] \subseteq FromAgents(got'[l].agents) \cup AllDecisions
           \cup {Message(m, Home(got'[l].agents)) : m \in Messages}
    BY <1>3, <1>7, <2>2 DEF HeldOf
  <2> QED BY <1>3, <2>3, <2>4, <2>5 DEF HeldOf
<1>11. CASE MissLeads(l)
  <2>1. got'[l] = [got[l] EXCEPT !.missed = TRUE] /\ pc[l] = "leads" /\ pc'[l] = "consumed"
    BY <1>1, <1>11 DEF MissLeads, Reads, After
  <2>2. /\ got'[l].missed
        /\ got'[l].agents = got[l].agents /\ got'[l].file = got[l].file
        /\ FileRead(l) /\ AgentsRead(l)
    BY <1>1, <2>1 DEF Readings, FileRead, AgentsRead
  <2>3. held'[l] \subseteq AllBlocked \cup FromFile(got'[l].file) \cup AllMessages
    BY <1>3, <1>7, <2>2 DEF HeldOf
  <2>4. held'[l] \subseteq FromAgents(got'[l].agents) \cup AllDecisions
           \cup {Message(m, Home(got'[l].agents)) : m \in Messages}
    BY <1>3, <1>7, <2>2 DEF HeldOf
  <2> QED BY <1>3, <2>2, <2>3, <2>4 DEF HeldOf
<1> QED BY <1>8, <1>9, <1>10, <1>11

(* Each load keeps what it has read, or reads more, or begins. *)
LEMMA StepKeepsHeld ==
    ASSUME FocusInv, FocusNext
    PROVE  HeldIsRead'
<1> USE FocusAssumption DEF SourcesTyped, StagesTyped, Loaders, sources, view, jump, audit
<1>0. Remember /\ SourcesTyped /\ StagesTyped
  BY DEF FocusNext, FocusInv
<1>1. ASSUME NEW l \in Loaders, ReadFocusFile(l) PROVE HeldIsRead'
  <2> SUFFICES ASSUME NEW x \in Loaders PROVE HeldOf(x)'
    BY DEF HeldIsRead
  <2>1. CASE x # l
    <3>1. pc'[x] = pc[x] /\ got'[x] = got[x]
      BY <1>0, <1>1, <2>1 DEF ReadFocusFile, Reads
    <3> QED BY <3>1, <1>0, HeldStays
  <2>2. CASE x = l
    BY <1>1, <2>2, <1>0, HeldReads
  <2> QED BY <2>1, <2>2
<1>2. ASSUME NEW l \in Loaders, ListAgents(l) PROVE HeldIsRead'
  <2> SUFFICES ASSUME NEW x \in Loaders PROVE HeldOf(x)'
    BY DEF HeldIsRead
  <2>1. CASE x # l
    <3>1. pc'[x] = pc[x] /\ got'[x] = got[x]
      BY <1>0, <1>2, <2>1 DEF ListAgents, Reads
    <3> QED BY <3>1, <1>0, HeldStays
  <2>2. CASE x = l
    BY <1>2, <2>2, <1>0, HeldReads
  <2> QED BY <2>1, <2>2
<1>3. ASSUME NEW l \in Loaders, ReadLeads(l) PROVE HeldIsRead'
  <2> SUFFICES ASSUME NEW x \in Loaders PROVE HeldOf(x)'
    BY DEF HeldIsRead
  <2>1. CASE x # l
    <3>1. pc'[x] = pc[x] /\ got'[x] = got[x]
      BY <1>0, <1>3, <2>1 DEF ReadLeads, Reads
    <3> QED BY <3>1, <1>0, HeldStays
  <2>2. CASE x = l
    BY <1>3, <2>2, <1>0, HeldReads
  <2> QED BY <2>1, <2>2
<1>4. ASSUME NEW l \in Loaders, MissLeads(l) PROVE HeldIsRead'
  <2> SUFFICES ASSUME NEW x \in Loaders PROVE HeldOf(x)'
    BY DEF HeldIsRead
  <2>1. CASE x # l
    <3>1. pc'[x] = pc[x] /\ got'[x] = got[x]
      BY <1>0, <1>4, <2>1 DEF MissLeads, Reads
    <3> QED BY <3>1, <1>0, HeldStays
  <2>2. CASE x = l
    BY <1>4, <2>2, <1>0, HeldReads
  <2> QED BY <2>1, <2>2
<1>5. ASSUME NEW l \in Loaders, LoadFails(l) PROVE HeldIsRead'
  <2> SUFFICES ASSUME NEW x \in Loaders PROVE HeldOf(x)'
    BY DEF HeldIsRead
  <2>1. CASE x # l
    <3>1. pc'[x] = pc[x] /\ got'[x] = got[x]
      BY <1>0, <1>5, <2>1 DEF LoadFails
    <3> QED BY <3>1, <1>0, HeldStays
  <2>2. CASE x = l
    <3>1. pc'[x] = "keys" \/ pc'[x] = "over"
      BY <1>0, <1>5, <2>2 DEF LoadFails
    <3> QED BY <2>2, <3>1, <1>0, HeldBegins
  <2> QED BY <2>1, <2>2
<1>6. ASSUME NEW v \in Views, Reload(v) PROVE HeldIsRead'
  <2> SUFFICES ASSUME NEW x \in Loaders PROVE HeldOf(x)'
    BY DEF HeldIsRead
  <2>1. CASE x # v
    <3>1. pc'[x] = pc[x] /\ got'[x] = got[x]
      BY <1>0, <1>6, <2>1 DEF Reload
    <3> QED BY <3>1, <1>0, HeldStays
  <2>2. CASE x = v
    <3>1. pc'[x] = "keys"
      BY <1>0, <1>6, <2>2 DEF Reload
    <3> QED BY <2>2, <3>1, <1>0, HeldBegins
  <2> QED BY <2>1, <2>2
<1>7. ASSUME NEW v \in Views, Refresh(v) PROVE HeldIsRead'
  <2> SUFFICES ASSUME NEW x \in Loaders PROVE HeldOf(x)'
    BY DEF HeldIsRead
  <2>1. CASE x # v
    <3>1. pc'[x] = pc[x] /\ got'[x] = got[x]
      BY <1>0, <1>7, <2>1 DEF Refresh
    <3> QED BY <3>1, <1>0, HeldStays
  <2>2. CASE x = v
    <3>1. pc'[x] = "focus"
      BY <1>0, <1>7, <2>2 DEF Refresh
    <3> QED BY <2>2, <3>1, <1>0, HeldBegins
  <2> QED BY <2>1, <2>2
<1>8. ASSUME NEW v \in Views, NEW key, key # "none", Press(v, key) PROVE HeldIsRead'
  <2>1. UNCHANGED <<pc, got>>
    BY <1>8 DEF Press
  <2> QED BY <2>1, <1>0, HeldStays DEF HeldIsRead
<1>9. ASSUME NEW v \in Views, NEW key, NEW to, Move(v, key, to) PROVE HeldIsRead'
  <2> SUFFICES ASSUME NEW x \in Loaders PROVE HeldOf(x)'
    BY DEF HeldIsRead
  <2>1. CASE x # v
    <3>1. pc'[x] = pc[x] /\ got'[x] = got[x]
      BY <1>0, <1>9, <2>1 DEF Move, Handles
    <3> QED BY <3>1, <1>0, HeldStays
  <2>2. CASE x = v
    <3>1. pc'[x] = "keys"
      BY <1>0, <1>9, <2>2 DEF Move, Handles
    <3> QED BY <2>2, <3>1, <1>0, HeldBegins
  <2> QED BY <2>1, <2>2
<1>10. ASSUME NEW v \in Views, JumpToSelected(v) PROVE HeldIsRead'
  <2> SUFFICES ASSUME NEW x \in Loaders PROVE HeldOf(x)'
    BY DEF HeldIsRead
  <2>1. CASE x # v
    <3>1. pc'[x] = pc[x] /\ got'[x] = got[x]
      BY <1>0, <1>10, <2>1 DEF JumpToSelected, Handles
    <3> QED BY <3>1, <1>0, HeldStays
  <2>2. CASE x = v
    <3>1. pc'[x] = "keys"
      BY <1>0, <1>10, <2>2 DEF JumpToSelected, Handles
    <3> QED BY <2>2, <3>1, <1>0, HeldBegins
  <2> QED BY <2>1, <2>2
<1>11. ASSUME NEW v \in Views, MarkDone(v) PROVE HeldIsRead'
  <2> SUFFICES ASSUME NEW x \in Loaders PROVE HeldOf(x)'
    BY DEF HeldIsRead
  <2>1. CASE x # v
    <3>1. pc'[x] = pc[x] /\ got'[x] = got[x]
      BY <1>0, <1>11, <2>1 DEF MarkDone, Handles
    <3> QED BY <3>1, <1>0, HeldStays
  <2>2. CASE x = v
    <3>1. pc'[x] = "focus" \/ pc'[x] = "keys"
      BY <1>0, <1>11, <2>2 DEF MarkDone, Handles
    <3> QED BY <2>2, <3>1, <1>0, HeldBegins
  <2> QED BY <2>1, <2>2
<1>12. ASSUME NEW v \in Views, Quit(v) PROVE HeldIsRead'
  <2> SUFFICES ASSUME NEW x \in Loaders PROVE HeldOf(x)'
    BY DEF HeldIsRead
  <2>1. CASE x # v
    <3>1. pc'[x] = pc[x] /\ got'[x] = got[x]
      BY <1>0, <1>12, <2>1 DEF Quit, Handles
    <3> QED BY <3>1, <1>0, HeldStays
  <2>2. CASE x = v
    <3>1. pc'[x] = "quit"
      BY <1>0, <1>12, <2>2 DEF Quit, Handles
    <3> QED BY <2>2, <3>1, <1>0, HeldBegins
  <2> QED BY <2>1, <2>2
<1>13. ASSUME NEW j \in Jumps, StartJump(j) PROVE HeldIsRead'
  <2> SUFFICES ASSUME NEW x \in Loaders PROVE HeldOf(x)'
    BY DEF HeldIsRead
  <2>1. CASE x # j
    <3>1. pc'[x] = pc[x] /\ got'[x] = got[x]
      BY <1>0, <1>13, <2>1 DEF StartJump
    <3> QED BY <3>1, <1>0, HeldStays
  <2>2. CASE x = j
    <3>1. pc'[x] = "agents"
      BY <1>0, <1>13, <2>2 DEF StartJump
    <3> QED BY <2>2, <3>1, <1>0, HeldBegins
  <2> QED BY <2>1, <2>2
<1>14. ASSUME NEW j \in Jumps, PickTarget(j) PROVE HeldIsRead'
  <2> SUFFICES ASSUME NEW x \in Loaders PROVE HeldOf(x)'
    BY DEF HeldIsRead
  <2>1. CASE x # j
    <3>1. pc'[x] = pc[x] /\ got'[x] = got[x]
      BY <1>0, <1>14, <2>1 DEF PickTarget
    <3> QED BY <3>1, <1>0, HeldStays
  <2>2. CASE x = j
    <3>1. pc'[x] = "over" \/ pc'[x] = "go"
      BY <1>0, <1>14, <2>2 DEF PickTarget
    <3> QED BY <2>2, <3>1, <1>0, HeldBegins
  <2> QED BY <2>1, <2>2
<1>15. ASSUME NEW j \in Jumps, Go(j) PROVE HeldIsRead'
  <2> SUFFICES ASSUME NEW x \in Loaders PROVE HeldOf(x)'
    BY DEF HeldIsRead
  <2>1. CASE x # j
    <3>1. pc'[x] = pc[x] /\ got'[x] = got[x]
      BY <1>0, <1>15, <2>1 DEF Go
    <3> QED BY <3>1, <1>0, HeldStays
  <2>2. CASE x = j
    <3>1. pc'[x] = "append" \/ pc'[x] = "over"
      BY <1>0, <1>15, <2>2 DEF Go
    <3> QED BY <2>2, <3>1, <1>0, HeldBegins
  <2> QED BY <2>1, <2>2
<1>16. ASSUME NEW j \in Jumps, RecordJump(j) PROVE HeldIsRead'
  <2> SUFFICES ASSUME NEW x \in Loaders PROVE HeldOf(x)'
    BY DEF HeldIsRead
  <2>1. CASE x # j
    <3>1. pc'[x] = pc[x] /\ got'[x] = got[x]
      BY <1>0, <1>16, <2>1 DEF RecordJump
    <3> QED BY <3>1, <1>0, HeldStays
  <2>2. CASE x = j
    <3>1. pc'[x] = "over"
      BY <1>0, <1>16, <2>2 DEF RecordJump
    <3> QED BY <2>2, <3>1, <1>0, HeldBegins
  <2> QED BY <2>1, <2>2
<1>17. ASSUME NEW p \in Panes, AgentChanges(p) PROVE HeldIsRead'
  <2>1. UNCHANGED <<pc, got>>
    BY <1>17 DEF AgentChanges, Changes
  <2> QED BY <2>1, <1>0, HeldStays DEF HeldIsRead
<1>18. ASSUME Decide PROVE HeldIsRead'
  <2>1. UNCHANGED <<pc, got>>
    BY <1>18 DEF Decide, Changes
  <2> QED BY <2>1, <1>0, HeldStays DEF HeldIsRead
<1>19. ASSUME MessageArrives PROVE HeldIsRead'
  <2>1. UNCHANGED <<pc, got>>
    BY <1>19 DEF MessageArrives, Changes
  <2> QED BY <2>1, <1>0, HeldStays DEF HeldIsRead
<1>20. ASSUME Tick PROVE HeldIsRead'
  <2>1. UNCHANGED <<pc, got>>
    BY <1>20 DEF Tick
  <2> QED BY <2>1, <1>0, HeldStays DEF HeldIsRead
<1> QED BY <1>1, <1>2, <1>3, <1>4, <1>5, <1>6, <1>7, <1>8, <1>9, <1>10, <1>11, <1>12, <1>13, <1>14,
        <1>15, <1>16, <1>17, <1>18, <1>19, <1>20
        DEF FocusNext, View, Load, Key, Jump, Loaders

-----------------------------------------------------------------------------
(* The results about the focus pane and the jump. *)

(* The invariant holds from the start. *)
LEMMA FocusInvThroughout == FocusSpec => []FocusInv
<1>1. FocusInit => FocusInv
  <2> SUFFICES ASSUME FocusInit PROVE FocusInv
    OBVIOUS
  <2> USE FocusAssumption, AttentionAssumption
  <2>1. SourcesTyped
    <3>1. agents \in AgentsSeen /\ leadInbox \in Seq(Messages) /\ log \in Seq(Lines)
      BY DEF FocusInit, AgentsSeen, AgentStates
    <3>2. file \in Seq(Entries)
      <4>1. CASE file = <<>>
        BY <4>1
      <4>2. ASSUME NEW t \in Texts, file = <<[text |-> t, resolved |-> FALSE]>>
            PROVE  file \in Seq(Entries)
        <5>1. [text |-> t, resolved |-> FALSE] \in Entries
          BY DEF Entries
        <5> QED BY <4>2, <5>1
      <4> QED BY <4>1, <4>2 DEF FocusInit
    <3>3. Nothing \in Readings
      BY DEF Nothing, Readings, AgentsSeen, AgentStates
    <3> QED BY <3>1, <3>2, <3>3 DEF FocusInit, SourcesTyped
  <2>2. ViewsTyped /\ StagesTyped
    BY DEF FocusInit, ViewsTyped, StagesTyped, Loaders
  <2>3. LogInDone /\ ChosenUnlessMoved
    BY DEF FocusInit, LogInDone, ChosenUnlessMoved
  <2>4. HeldIsRead
    <3> SUFFICES ASSUME NEW l \in Loaders PROVE HeldOf(l)
      BY DEF HeldIsRead
    <3>1. pc[l] \in {"focus", "off"} /\ (l \in Views <=> pc[l] = "focus")
      BY DEF FocusInit
    <3>2. ~FileRead(l) /\ ~AgentsRead(l) /\ ~InboxRead(l)
      BY <3>1 DEF FileRead, AgentsRead, InboxRead
    <3>3. held[l] \subseteq Needs
      BY DEF FocusInit, Needs, Fresh
    <3> QED BY <3>2, <3>3 DEF HeldOf
  <2> QED BY <2>1, <2>2, <2>3, <2>4 DEF FocusInv
<1>2. FocusInv /\ [FocusNext]_focusVars => FocusInv'
  <2> SUFFICES ASSUME FocusInv, [FocusNext]_focusVars PROVE FocusInv'
    OBVIOUS
  <2>1. HeldIsRead'
    <3>1. CASE FocusNext
      BY <3>1, StepKeepsHeld
    <3>2. CASE UNCHANGED focusVars
      BY <3>2 DEF focusVars, sources, audit, FocusInv, HeldIsRead, HeldOf, Loading, FileRead,
              AgentsRead, InboxRead, Needs, Fresh
    <3> QED BY <3>1, <3>2
  <2> QED BY <2>1, StepKeepsSources, StepKeepsViews, StepKeepsStages, StepKeepsLog,
          StepKeepsChosen DEF FocusInv
<1> QED BY <1>1, <1>2, PTL DEF FocusSpec

(* A key acts on the row that was chosen when it was pressed, for any number   *)
(* of panes, whatever is loaded in between, as long as the rows down to it are *)
(* what they were (focus_pane.rs, try_reload_state).                           *)
THEOREM KeysStay == FocusSpec => []ChosenUnlessMoved
<1>1. FocusInv => ChosenUnlessMoved
  BY DEF FocusInv
<1> QED BY <1>1, FocusInvThroughout, PTL

(* What needs attention throughout a load comes up, whatever was consumed, for *)
(* any number of agents, decisions and messages that change while the sources  *)
(* are read one after the other (focus_pane.rs, load_state; audit.rs,          *)
(* filter_unconsumed).                                                         *)
THEOREM AttentionIsShown == FocusSpec => NothingSwallowed
<1>1. ASSUME FocusInv, NEW v \in Views, Reload(v), NEW item \in held[v], ~Overlooked(v, item)
      PROVE  \E i \in DOMAIN queue'[v] : queue'[v][i].what = item.what
  <2>1. v \in Loaders /\ pc[v] = "consumed"
    BY <1>1 DEF Loaders, Reload
  <2>2. queue'[v] = Loaded(v)
    BY <1>1 DEF Reload, FocusInv, ViewsTyped
  <2>3. Loaded(v) \in Seq(Items) /\ \E k \in 1..Len(Loaded(v)) : Loaded(v)[k] = item
    BY <1>1, <2>1, LoadedHasHeld
  <2> QED BY <2>2, <2>3
<1>2. FocusInv /\ [FocusNext]_focusVars =>
         [\A v \in Views : Reload(v) =>
             \A item \in held[v] : ~Overlooked(v, item) =>
                 \E i \in DOMAIN queue'[v] : queue'[v][i].what = item.what]_focusVars
  BY <1>1
<1> QED BY <1>2, FocusInvThroughout, PTL DEF FocusSpec, NothingSwallowed

(* A jump passes over nothing more urgent that has needed attention from its   *)
(* start and has a pane, and does not give up while there is something, for    *)
(* any number of jumps beside the panes (jump.rs, jump_command).               *)
THEOREM JumpsAreUrgent == FocusSpec => JumpsToMostUrgent
<1>1. ASSUME FocusInv, NEW j \in Jumps, PickTarget(j), NEW item \in held[j],
             item.pane # None, ~Overlooked(j, item)
      PROVE  pc'[j] = "go" /\ Urgency(target'[j]) >= Urgency(item)
  <2> DEFINE rows == Loaded(j)
  <2>1. j \in Loaders /\ pc[j] = "consumed"
    BY <1>1 DEF Loaders, PickTarget
  <2>2. /\ rows \in Seq(Items)
        /\ \A i, k \in 1..Len(rows) : i < k => Urgency(rows[i]) >= Urgency(rows[k])
    BY <1>1, <2>1, LoadedHasHeld
  <2>3. PICK k \in 1..Len(rows) : rows[k] = item
    BY <1>1, <2>1, LoadedHasHeld
  <2>4. k \in Candidates(rows) /\ Candidates(rows) \in SUBSET (1..Len(rows))
    BY <1>1, <2>3 DEF Candidates
  <2>5. Candidates(rows) \in SUBSET Nat
    BY <2>4
  <2> DEFINE i == Min(Candidates(rows))
  <2>6. i \in Candidates(rows) /\ i =< k
    BY <2>4, <2>5, MinIsFirst
  <2>7. pc' = [pc EXCEPT ![j] = "go"] /\ target' = [target EXCEPT ![j] = rows[i]]
    BY <1>1, <2>4 DEF PickTarget
  <2> HIDE DEF rows, i
  <2>8. i \in 1..Len(rows)
    BY <2>4, <2>6
  <2>9. Urgency(rows[i]) >= Urgency(rows[k])
    <3>1. CASE i < k
      BY <2>2, <2>8, <3>1
    <3>2. CASE i = k
      <4>1. rows[k] \in Items
        BY <2>2
      <4>2. Urgency(rows[k]) \in Nat
        BY <4>1, KindsDiffer DEF Items
      <4> QED BY <3>2, <4>2
    <3> QED BY <2>6, <2>8, <3>1, <3>2
  <2>10. pc'[j] = "go" /\ target'[j] = rows[i]
    <3>1. j \in DOMAIN pc /\ j \in DOMAIN target
      BY <1>1, <2>1 DEF FocusInv, StagesTyped
    <3> QED BY <2>7, <3>1
  <2> QED BY <2>3, <2>9, <2>10
<1>2. FocusInv /\ [FocusNext]_focusVars =>
         [\A j \in Jumps : PickTarget(j) =>
             \A item \in held[j] : item.pane # None /\ ~Overlooked(j, item) =>
                 pc'[j] = "go" /\ Urgency(target'[j]) >= Urgency(item)]_focusVars
  BY <1>1
<1> QED BY <1>2, FocusInvThroughout, PTL DEF FocusSpec, JumpsToMostUrgent

-----------------------------------------------------------------------------
(* The command lines: counting. *)

(* A set of numbers that goes on from each to the next is all of them. *)
LEMMA GoesOn ==
    ASSUME NEW n \in Nat, NEW T, 0 \in T,
           \A k \in Nat : k < n /\ k \in T => k + 1 \in T
    PROVE  \A k \in 0..n : k \in T
<1> DEFINE S == {k \in 0..n : k \notin T}
<1> SUFFICES ASSUME S # {} PROVE FALSE
  OBVIOUS
<1>0. S \subseteq Nat
  OBVIOUS
<1> HIDE DEF S
<1>1. PICK r \in S : \A q \in S : r =< q
  BY <1>0, LeastExists
<1> USE DEF S
<1>2. r \in 0..n /\ r \notin T /\ r # 0
  BY <1>1
<1>3. r - 1 \in Nat /\ r - 1 < n /\ r - 1 \in T
  BY <1>1, <1>2
<1> QED BY <1>2, <1>3

-----------------------------------------------------------------------------
(* What is known after each word. *)

(* The recursive function is the one that is meant: it starts with no word and scans one more. *)
LEMMA AfterEach ==
    ASSUME NEW c, NEW args, Len(args) \in Nat
    PROVE  /\ AfterWord(c, args)[0] = NoWord(c)
           /\ \A k \in Nat : k < Len(args) =>
                 AfterWord(c, args)[k + 1] = ScanWord(c, AfterWord(c, args)[k], args[k + 1])
<1> DEFINE n == Len(args)
           Is(m, f) == f = [k \in 0..m |->
               IF k = 0 THEN NoWord(c) ELSE ScanWord(c, f[k - 1], args[k])]
           Has(m) == \E f : Is(m, f)
           T == {m \in 0..n : Has(m)}
<1>0. n \in Nat
  OBVIOUS
<1>1. 0 \in T
  <2>1. Is(0, [k \in 0..0 |-> NoWord(c)])
    OBVIOUS
  <2>2. Has(0)
    BY <2>1
  <2> HIDE DEF Has
  <2> QED BY <2>2, <1>0
<1>2. ASSUME NEW m \in Nat, m < n, m \in T PROVE m + 1 \in T
  <2>1. PICK f : Is(m, f)
    BY <1>2
  <2> DEFINE g == [k \in 0..(m + 1) |-> IF k =< m THEN f[k] ELSE ScanWord(c, f[m], args[m + 1])]
  <2>2. ASSUME NEW k \in 0..(m + 1)
        PROVE  g[k] = IF k = 0 THEN NoWord(c) ELSE ScanWord(c, g[k - 1], args[k])
    <3>1. CASE k = 0
      BY <2>1, <3>1
    <3>2. CASE k # 0 /\ k =< m
      <4>1. k - 1 \in 0..m /\ k \in 0..m /\ k - 1 \in 0..(m + 1)
        BY <3>2
      <4>2. g[k] = f[k] /\ g[k - 1] = f[k - 1]
        BY <4>1
      <4> QED BY <2>1, <3>2, <4>1, <4>2
    <3>3. CASE k = m + 1
      <4>1. g[k] = ScanWord(c, f[m], args[m + 1]) /\ g[k - 1] = f[m] /\ k # 0
        BY <3>3
      <4> QED BY <3>3, <4>1
    <3> QED BY <3>1, <3>2, <3>3
  <2>3. Is(m + 1, g)
    BY <2>2
  <2>4. Has(m + 1)
    BY <2>3
  <2> HIDE DEF Has
  <2> QED BY <1>2, <2>4, <1>0
<1> HIDE DEF Is
<1>3. n \in T
  <2> HIDE DEF T, n
  <2>1. \A k \in 0..n : k \in T
    BY <1>0, <1>1, <1>2, GoesOn
  <2>2. n \in 0..n
    BY <1>0
  <2> QED BY <2>1, <2>2
<1>4. PICK f : Is(n, f)
  BY <1>3
<1>5. AfterWord(c, args) = CHOOSE g : Is(n, g)
  BY DEF AfterWord, Is
<1>6. Is(n, AfterWord(c, args))
  BY <1>4, <1>5
<1> DEFINE h == AfterWord(c, args)
<1>7. h = [k \in 0..n |-> IF k = 0 THEN NoWord(c) ELSE ScanWord(c, h[k - 1], args[k])]
  BY <1>6 DEF Is
<1> HIDE DEF h
<1>8. \A k \in 0..n : h[k] = IF k = 0 THEN NoWord(c) ELSE ScanWord(c, h[k - 1], args[k])
  BY <1>7
<1>9. \A k \in Nat : k < n => h[k + 1] = ScanWord(c, h[k], args[k + 1])
  <2> SUFFICES ASSUME NEW k \in Nat, k < n PROVE h[k + 1] = ScanWord(c, h[k], args[k + 1])
    OBVIOUS
  <2>1. k + 1 \in 0..n /\ k + 1 # 0 /\ (k + 1) - 1 = k
    OBVIOUS
  <2>2. h[k + 1] = ScanWord(c, h[(k + 1) - 1], args[k + 1])
    BY <1>8, <2>1, Zenon
  <2> QED BY <2>1, <2>2
<1>10. h[0] = NoWord(c)
  BY <1>8
<1> QED BY <1>9, <1>10 DEF h

-----------------------------------------------------------------------------
(* What the commands have in common. *)

(* What every command's options are like, and the scanners rely on. *)
Sound(c) ==
    /\ c.flags \subseteq Options /\ c.valued \subseteq Options
    /\ c.flags \cap c.valued = {}
    /\ Dash \notin c.flags \cup c.valued
    /\ DOMAIN Joined \cap (c.flags \cup c.valued) = {}
    /\ "--agents" \notin c.flags
    /\ c.bare \subseteq c.valued /\ c.bare \cap c.once = {}
    /\ c.needed \subseteq c.valued
    /\ c.refused \subseteq c.valued \X Alphabet
    /\ c.skips \in BOOLEAN
    /\ c.skips => c.flags = {} /\ c.places = {0} /\ "--agents" \notin c.valued

(* The table of the commands, row by row. *)
LEMMA CommandsAre ==
    /\ DOMAIN Commands = Names
    /\ Commands["spawn"] = SpawnOptions /\ Commands["spawn --dry-run"] = DryRunOptions
    /\ Commands["adopt"] = AdoptOptions /\ Commands["kill"] = KillOptions
    /\ Commands["status"] = StatusOptions /\ Commands["msg"] = MsgOptions
    /\ Commands["board"] = BoardOptions /\ Commands["inbox"] = InboxOptions
    /\ Commands["report"] = ReportOptions /\ Commands["wait"] = WaitOptions
    /\ Commands["record"] = RecordOptions /\ Commands["pane-board"] = PaneBoardOptions
BY DEF Commands, Names

(* There is one option that may be joined to its value. *)
LEMMA JoinedIs ==
    /\ DOMAIN Joined = {"--agents=x"}
    /\ Joined["--agents=x"][1] = "--agents" /\ Joined["--agents=x"][2] = "x"
BY DEF Joined

(* All twelve commands are so. *)
LEMMA AllSound == \A n \in DOMAIN Commands : Sound(Commands[n])
<1>1. \A n \in DOMAIN Commands : /\ Commands[n].flags \subseteq Options
                                 /\ Commands[n].valued \subseteq Options
  BY DEF Options
<1> DEFINE Fine(c) ==
      /\ c.flags \cap c.valued = {}
      /\ Dash \notin c.flags \cup c.valued
      /\ DOMAIN Joined \cap (c.flags \cup c.valued) = {}
      /\ "--agents" \notin c.flags
      /\ c.bare \subseteq c.valued /\ c.bare \cap c.once = {}
      /\ c.needed \subseteq c.valued
      /\ c.refused \subseteq c.valued \X Anything
      /\ c.skips \in BOOLEAN
      /\ c.skips => c.flags = {} /\ c.places = {0} /\ "--agents" \notin c.valued
<1> USE JoinedIs DEF Dash, Command, Strictly, Not
<1>2. Fine(SpawnOptions)
  BY DEF SpawnOptions
<1>3. Fine(DryRunOptions)
  BY DEF DryRunOptions
<1>4. Fine(AdoptOptions)
  BY DEF AdoptOptions, Anything
<1>5. Fine(KillOptions)
  BY DEF KillOptions
<1>6. Fine(StatusOptions)
  BY DEF StatusOptions
<1>7. Fine(MsgOptions)
  BY DEF MsgOptions
<1>8. Fine(BoardOptions)
  BY DEF BoardOptions
<1>9. Fine(InboxOptions)
  BY DEF InboxOptions
<1>10. Fine(ReportOptions)
  BY DEF ReportOptions
<1>11. Fine(WaitOptions)
  BY DEF WaitOptions
<1>12. Fine(RecordOptions)
  BY DEF RecordOptions
<1>13. Fine(PaneBoardOptions)
  BY DEF PaneBoardOptions
<1> HIDE DEF Fine
<1>14. \A n \in DOMAIN Commands : Fine(Commands[n])
  BY <1>2, <1>3, <1>4, <1>5, <1>6, <1>7, <1>8, <1>9, <1>10, <1>11, <1>12, <1>13, CommandsAre
     DEF Names
<1>15. Anything \subseteq Alphabet
  BY DEF Alphabet
<1> QED BY <1>1, <1>14, <1>15 DEF Sound, Fine

(* What a scanner may know. *)
State(c) == [ok : BOOLEAN, wants : c.valued \cup {Absent}, flags : SUBSET c.flags,
             values : [c.valued -> Alphabet \cup {Absent}], places : Seq(Alphabet)]

(* A word that means an option of the command, or its option with the value. *)
Takes(c, w) == Named(w) \in c.flags \cup c.valued

(* A word is an option of the command, the joined option, or neither, and never two of these. *)
LEMMA WordKinds ==
    ASSUME NEW c, Sound(c), NEW w
    PROVE  /\ w \in c.valued => w \in Alphabet /\ IsOption(w) /\ w \notin DOMAIN Joined /\ w \notin c.flags
           /\ w \in c.flags => w \in Alphabet /\ IsOption(w) /\ w \notin DOMAIN Joined /\ w \notin c.valued
           /\ w \in DOMAIN Joined => Named(w) = Joined[w][1] /\ w \notin c.flags \cup c.valued
                                     /\ Named(w) \notin c.flags /\ IsOption(w)
                                     /\ Joined[w][2] \in Alphabet
           /\ w \notin DOMAIN Joined => Named(w) = w
           /\ Takes(c, w) => IsOption(w)
<1>1. "x" \in Alphabet /\ Options \subseteq Alphabet /\ DOMAIN Joined \subseteq Alphabet
  BY DEF Alphabet, Anything, Words
<1>2. w \in Options \cup DOMAIN Joined => IsOption(w)
  BY DEF IsOption
<1> QED BY <1>1, <1>2, JoinedIs DEF Sound, Named, Takes

(* The scanner's cases, one fact each. *)
LEMMA ScanIs ==
    ASSUME NEW c, Sound(c), NEW s, NEW w
    PROVE  /\ s.wants # Absent => ScanWord(c, s, w) = SetOption(c, s, s.wants, w)
           /\ s.wants = Absent /\ w \in c.valued => ScanWord(c, s, w) = [s EXCEPT !.wants = w]
           /\ s.wants = Absent /\ w \in DOMAIN Joined /\ Takes(c, w) =>
                 ScanWord(c, s, w) = SetOption(c, s, Named(w), Joined[w][2])
           /\ s.wants = Absent /\ w \in c.flags =>
                 ScanWord(c, s, w) = IF w \in c.once \cap s.flags THEN Refuse(s)
                                     ELSE [s EXCEPT !.flags = @ \cup {w}]
           /\ s.wants = Absent /\ ~Takes(c, w) =>
                 ScanWord(c, s, w) = IF c.skips THEN s
                                     ELSE IF IsOption(w) THEN Refuse(s)
                                     ELSE [s EXCEPT !.places = Append(@, w)]
<1> HIDE DEF SetOption, Refuse
<1>1. Takes(c, w) <=> \/ w \in c.valued \/ w \in c.flags
                      \/ w \in DOMAIN Joined /\ Joined[w][1] \in c.valued
  BY WordKinds DEF Takes
<1> QED BY <1>1, WordKinds DEF ScanWord, Takes

(* A value given to an option is a word, and a refusal is not taken back. *)
LEMMA SetTyped ==
    ASSUME NEW c, NEW s \in State(c), NEW o \in c.valued, NEW v \in Alphabet
    PROVE  /\ SetOption(c, s, o, v) \in State(c)
           /\ ~s.ok => ~SetOption(c, s, o, v).ok
BY DEF SetOption, State, Refuse

(* A word scanned leaves what a scanner may know, and a refusal is not taken back. *)
LEMMA ScanTyped ==
    ASSUME NEW c, Sound(c), NEW s \in State(c), NEW w \in Alphabet
    PROVE  /\ ScanWord(c, s, w) \in State(c)
           /\ ~s.ok => ~ScanWord(c, s, w).ok
<1> DEFINE t == ScanWord(c, s, w)
<1> HIDE DEF t
<1>1. CASE s.wants # Absent
  <2>1. s.wants \in c.valued
    BY <1>1 DEF State
  <2> QED BY <1>1, <2>1, ScanIs, SetTyped
<1>2. CASE s.wants = Absent /\ w \in c.valued
  <2>1. ScanWord(c, s, w) = [s EXCEPT !.wants = w]
    BY <1>2, ScanIs
  <2> QED BY <1>2, <2>1 DEF State
<1>3. CASE s.wants = Absent /\ w \in DOMAIN Joined /\ Takes(c, w)
  <2>1. Named(w) \in c.valued /\ Joined[w][2] \in Alphabet
    BY <1>3, WordKinds DEF Takes
  <2> QED BY <1>3, <2>1, ScanIs, SetTyped
<1>4. CASE s.wants = Absent /\ w \in c.flags
  <2>1. ScanWord(c, s, w) = IF w \in c.once \cap s.flags THEN Refuse(s)
                            ELSE [s EXCEPT !.flags = @ \cup {w}]
    BY <1>4, ScanIs
  <2>2. s.flags \cup {w} \in SUBSET c.flags
    BY <1>4 DEF State
  <2>3. [s EXCEPT !.flags = @ \cup {w}] \in State(c) /\ [s EXCEPT !.flags = @ \cup {w}].ok = s.ok
    BY <2>2 DEF State
  <2>4. Refuse(s) \in State(c) /\ ~Refuse(s).ok
    BY DEF State, Refuse
  <2> QED BY <2>1, <2>3, <2>4
<1>5. CASE s.wants = Absent /\ ~Takes(c, w)
  <2>1. ScanWord(c, s, w) = IF c.skips THEN s ELSE IF IsOption(w) THEN Refuse(s)
                            ELSE [s EXCEPT !.places = Append(@, w)]
    BY <1>5, ScanIs
  <2>2. s.places \in Seq(Alphabet) /\ Append(s.places, w) \in Seq(Alphabet)
    BY DEF State
  <2> QED BY <2>1, <2>2 DEF State, Refuse
<1>6. Takes(c, w) => w \in c.valued \/ w \in c.flags \/ w \in DOMAIN Joined
  BY WordKinds DEF Takes
<1> QED BY <1>1, <1>2, <1>3, <1>4, <1>5, <1>6

(* What is known after each word of a line is what a scanner may know. *)
LEMMA AfterTyped ==
    ASSUME NEW c, Sound(c), NEW args \in Seq(Alphabet)
    PROVE  \A k \in 0..Len(args) : AfterWord(c, args)[k] \in State(c)
<1> DEFINE n == Len(args)
           T == {k \in 0..n : AfterWord(c, args)[k] \in State(c)}
<1>1. n \in Nat
  OBVIOUS
<1>2. NoWord(c) \in State(c)
  BY DEF NoWord, State
<1>3. 0 \in T
  BY <1>1, <1>2, AfterEach
<1>4. ASSUME NEW k \in Nat, k < n, k \in T PROVE k + 1 \in T
  <2>1. args[k + 1] \in Alphabet
    BY <1>1, <1>4
  <2>2. AfterWord(c, args)[k + 1] = ScanWord(c, AfterWord(c, args)[k], args[k + 1])
    BY <1>1, <1>4, AfterEach
  <2> QED BY <1>1, <1>4, <2>1, <2>2, ScanTyped
<1> HIDE DEF n
<1>5. \A k \in 0..n : k \in T
  <2> HIDE DEF T
  <2> QED BY <1>1, <1>3, <1>4, GoesOn
<1> QED BY <1>5 DEF n

-----------------------------------------------------------------------------
(* The readings of a line. *)

(* The word is an option that has its value in the next one. *)
Wants(c, args, O, i) == i \in O /\ args[i] \in c.valued

(* Each word that means an option is one, unless it is the value of the one before it. *)
Parses(c, args, O) ==
    /\ O \in SUBSET (1..Len(args))
    /\ \A i \in 1..Len(args) : i \in O <=> Takes(c, args[i]) /\ ~Wants(c, args, O, i - 1)

(* The options of a line are determined word by word from the left. *)
LEMMA OneParse ==
    ASSUME NEW c, NEW args, Len(args) \in Nat, NEW O, NEW P, Parses(c, args, O), Parses(c, args, P)
    PROVE  O = P
<1> DEFINE n == Len(args)
           T == {k \in 0..n : k \in O <=> k \in P}
<1>1. n \in Nat /\ O \subseteq 1..n /\ P \subseteq 1..n
  BY DEF Parses
<1>2. 0 \in T
  BY <1>1
<1>3. ASSUME NEW k \in Nat, k < n, k \in T PROVE k + 1 \in T
  <2>1. k + 1 \in 1..n /\ (k + 1) - 1 = k
    BY <1>1, <1>3
  <2>2. k + 1 \in O <=> Takes(c, args[k + 1]) /\ ~Wants(c, args, O, k)
    BY <2>1 DEF Parses
  <2>3. k + 1 \in P <=> Takes(c, args[k + 1]) /\ ~Wants(c, args, P, k)
    BY <2>1 DEF Parses
  <2>4. k \in O <=> k \in P
    BY <1>3
  <2> QED BY <1>1, <2>1, <2>2, <2>3, <2>4 DEF Wants
<1> HIDE DEF n
<1>4. \A k \in 0..n : k \in T
  <2> HIDE DEF T
  <2> QED BY <1>1, <1>2, <1>3, GoesOn
<1>5. \A k \in 1..n : k \in O <=> k \in P
  BY <1>1, <1>4
<1> QED BY <1>1, <1>5

(* Every line has such options. *)
LEMMA SomeParse ==
    ASSUME NEW c, NEW args, Len(args) \in Nat
    PROVE  \E O : Parses(c, args, O)
<1> DEFINE n == Len(args)
           Is(m, O) == /\ O \in SUBSET (1..m)
                       /\ \A i \in 1..m : i \in O <=> Takes(c, args[i]) /\ ~Wants(c, args, O, i - 1)
           Has(m) == \E O : Is(m, O)
           T == {m \in 0..n : Has(m)}
<1>0. n \in Nat
  OBVIOUS
<1>1. 0 \in T
  <2>1. Is(0, {})
    OBVIOUS
  <2>2. Has(0)
    BY <2>1
  <2> HIDE DEF Has
  <2> QED BY <2>2, <1>0
<1>2. ASSUME NEW m \in Nat, m < n, m \in T PROVE m + 1 \in T
  <2>1. PICK O : Is(m, O)
    BY <1>2
  <2> DEFINE P == IF Takes(c, args[m + 1]) /\ ~Wants(c, args, O, m) THEN O \cup {m + 1} ELSE O
  <2>2. P \in SUBSET (1..(m + 1)) /\ \A i \in 0..m : i \in P <=> i \in O
    BY <2>1
  <2>3. \A i \in 1..(m + 1) : Wants(c, args, P, i - 1) <=> Wants(c, args, O, i - 1)
    BY <2>2 DEF Wants
  <2>4. m + 1 \in P <=> Takes(c, args[m + 1]) /\ ~Wants(c, args, O, m)
    BY <2>1
  <2> HIDE DEF P
  <2>5. ASSUME NEW i \in 1..(m + 1)
        PROVE  i \in P <=> Takes(c, args[i]) /\ ~Wants(c, args, P, i - 1)
    <3>1. CASE i = m + 1
      BY <2>3, <2>4, <3>1
    <3>2. CASE i \in 1..m
      <4>1. i \in O <=> Takes(c, args[i]) /\ ~Wants(c, args, O, i - 1)
        BY <2>1, <3>2
      <4>2. i \in P <=> i \in O
        BY <2>2, <3>2
      <4> QED BY <2>3, <4>1, <4>2
    <3> QED BY <3>1, <3>2
  <2>6. Is(m + 1, P)
    BY <2>2, <2>5
  <2>7. Has(m + 1)
    BY <2>6
  <2> HIDE DEF Has
  <2> QED BY <1>2, <2>7, <1>0
<1>3. \A k \in 0..n : k \in T
  <2> HIDE DEF T, n
  <2> QED BY <1>0, <1>1, <1>2, GoesOn
<1>4. Has(n)
  <2> HIDE DEF Has
  <2> QED BY <1>0, <1>3
<1> QED BY <1>4 DEF Parses

(* The options that are complete after k words, and the words that are neither. *)
Done(c, args, O, k) == {i \in O : i =< k /\ (args[i] \in c.valued => i < k)}
Rest(c, args, O, k) == {i \in 1..k : i \notin O /\ ~Wants(c, args, O, i - 1)}

(* What the scanner refuses among the options, and the values it has of them. *)
Allowed(c, args, D) ==
    /\ \A i, j \in D : Named(args[i]) = Named(args[j]) /\ Named(args[i]) \in c.once => i = j
    /\ \A i \in D : <<Named(args[i]), ValueAt(c, args, i)>> \notin c.refused

LastOf(args, D, o, i) ==
    i \in D /\ Named(args[i]) = o /\ \A j \in D : Named(args[j]) = o => j =< i

Values(c, args, D, values) ==
    \A o \in c.valued :
        \/ values[o] = Absent /\ \A i \in D : Named(args[i]) # o
        \/ \E i \in D : LastOf(args, D, o, i) /\ values[o] = ValueAt(c, args, i)

PlacesOf(args, R) == [m \in 1..Cardinality(R) |-> args[Ascending(R)[m]]]

Legal(c, args, O, k) ==
    /\ Allowed(c, args, Done(c, args, O, k))
    /\ c.skips \/ \A i \in Rest(c, args, O, k) : ~IsOption(args[i])

(* What the scanner knows after k words. *)
Knows(c, args, O, k, s) ==
    /\ s.wants = IF Wants(c, args, O, k) THEN args[k] ELSE Absent
    /\ s.flags = {args[i] : i \in {j \in O : j =< k}} \cap c.flags
    /\ Values(c, args, Done(c, args, O, k), s.values)
    /\ s.places = IF c.skips THEN <<>> ELSE PlacesOf(args, Rest(c, args, O, k))

(* A number that is larger than all of them comes last. *)
LEMMA AscendingGrows ==
    ASSUME NEW S \in SUBSET Nat, IsFiniteSet(S), NEW x \in Nat, \A i \in S : i < x
    PROVE  LET n == Cardinality(S)
               R == S \cup {x} IN
           /\ n \in Nat /\ Cardinality(R) = n + 1
           /\ \A m \in 1..n : Ascending(R)[m] = Ascending(S)[m] /\ Ascending(S)[m] \in S
           /\ Ascending(R)[n + 1] = x
<1> DEFINE n == Cardinality(S)
           R == S \cup {x}
<1>1. n \in Nat /\ x \notin S
  BY FS_CardinalityType
<1>2. IsFiniteSet(R) /\ Cardinality(R) = n + 1 /\ R \in SUBSET Nat
  BY <1>1, FS_AddElement
<1>3. \A y \in S : {j \in R : j =< y} = {j \in S : j =< y}
  OBVIOUS
<1>4. {j \in R : j =< x} = R
  <2>1. \A j \in R : j \in Nat /\ j =< x
    OBVIOUS
  <2> QED BY <2>1
<1>5. ASSUME NEW m \in 1..n PROVE Ascending(R)[m] = Ascending(S)[m] /\ Ascending(S)[m] \in S
  <2>1. Ascending(S)[m] \in S /\ Cardinality({j \in S : j =< Ascending(S)[m]}) = m
    BY AscendingOrders
  <2>2. {j \in R : j =< Ascending(S)[m]} = {j \in S : j =< Ascending(S)[m]}
    BY <1>3, <2>1
  <2>3. Ascending(R)[Cardinality({j \in R : j =< Ascending(S)[m]})] = Ascending(S)[m]
    <3> HIDE DEF R
    <3>1. Ascending(S)[m] \in R
      BY <2>1 DEF R
    <3> QED BY <1>2, <3>1, AscendingOrders
  <2> QED BY <2>1, <2>2, <2>3
<1>6. Ascending(R)[Cardinality({j \in R : j =< x})] = x
  <2>1. x \in R
    OBVIOUS
  <2> HIDE DEF R
  <2> QED BY <1>2, <2>1, AscendingOrders
<1> HIDE DEF R, n
<1> QED BY <1>1, <1>2, <1>4, <1>5, <1>6 DEF R, n

(* What each word adds to the options and to the rest. *)
LEMMA PartsGrow ==
    ASSUME NEW c, NEW args, NEW n \in Nat, Len(args) = n, NEW O, Parses(c, args, O),
           NEW k \in Nat, k < n
    PROVE  LET D == Done(c, args, O, k)
               E == Done(c, args, O, k + 1)
               R == Rest(c, args, O, k)
               Q == Rest(c, args, O, k + 1)
               w == args[k + 1] IN
           /\ O \subseteq 1..n /\ D \subseteq 1..k /\ R \subseteq 1..k
           /\ k + 1 \in O <=> Takes(c, w) /\ ~Wants(c, args, O, k)
           /\ Wants(c, args, O, k) => k \notin D /\ k \in 1..n /\ E = D \cup {k} /\ Q = R
           /\ ~Wants(c, args, O, k) /\ w \in c.valued => E = D /\ (Takes(c, w) => Q = R)
           /\ ~Wants(c, args, O, k) /\ w \notin c.valued /\ Takes(c, w) => E = D \cup {k + 1} /\ Q = R
           /\ ~Wants(c, args, O, k) /\ ~Takes(c, w) => E = D /\ Q = R \cup {k + 1}
<1> DEFINE D == Done(c, args, O, k)
           E == Done(c, args, O, k + 1)
           R == Rest(c, args, O, k)
           Q == Rest(c, args, O, k + 1)
           w == args[k + 1]
<1>1. O \subseteq 1..n
  BY DEF Parses
<1>2. k + 1 \in O <=> Takes(c, w) /\ ~Wants(c, args, O, k)
  <2>1. k + 1 \in 1..n /\ (k + 1) - 1 = k
    OBVIOUS
  <2> QED BY <2>1 DEF Parses
<1>3. D \subseteq 1..k /\ R \subseteq 1..k
  BY <1>1 DEF Done, Rest
<1>4. ASSUME NEW i \in O PROVE i \in E <=> IF i = k + 1 THEN w \notin c.valued
                                         ELSE i \in D \/ (i = k /\ Wants(c, args, O, k))
  BY <1>1 DEF Done, Wants
<1>5. E \subseteq O /\ D \subseteq O /\ k + 1 \notin D
  BY DEF Done
<1>6. \A i : i \in Q <=> i \in R \/ (i = k + 1 /\ k + 1 \notin O /\ ~Wants(c, args, O, k))
  BY DEF Rest
<1>7. Wants(c, args, O, k) => k \notin D /\ k \in O
  BY DEF Wants, Done
<1> HIDE DEF D, E, R, Q
<1>8. Wants(c, args, O, k) => k \notin D /\ k \in 1..n /\ E = D \cup {k} /\ Q = R
  BY <1>1, <1>2, <1>4, <1>5, <1>6, <1>7
<1>9. ~Wants(c, args, O, k) /\ w \in c.valued => E = D /\ (Takes(c, w) => Q = R)
  BY <1>1, <1>2, <1>4, <1>5, <1>6
<1>10. ~Wants(c, args, O, k) /\ w \notin c.valued /\ Takes(c, w) => E = D \cup {k + 1} /\ Q = R
  BY <1>1, <1>2, <1>4, <1>5, <1>6
<1>11. ~Wants(c, args, O, k) /\ ~Takes(c, w) => E = D /\ Q = R \cup {k + 1}
  BY <1>1, <1>2, <1>4, <1>5, <1>6
<1> QED BY <1>1, <1>2, <1>3, <1>8, <1>9, <1>10, <1>11 DEF D, E, R, Q

(* E has one option more than D, after the others, whose values these are. *)
Ready(c, args, D, E, x, values) ==
    /\ D \in SUBSET Nat /\ x \in Nat /\ \A i \in D : i < x
    /\ E = D \cup {x}
    /\ values \in [c.valued -> Alphabet \cup {Absent}]
    /\ Values(c, args, D, values)
    /\ \A i \in D : Named(args[i]) \in c.valued => ValueAt(c, args, i) # Absent

(* An option more is allowed if it was not there that may be given once, with no refused value. *)
LEMMA OptionAdded ==
    ASSUME NEW c, NEW args, NEW D, NEW E, NEW x, NEW values, Ready(c, args, D, E, x, values),
           NEW o, o = Named(args[x]), NEW v, v = ValueAt(c, args, x)
    PROVE  /\ Allowed(c, args, E) <=>
                 /\ Allowed(c, args, D)
                 /\ o \in c.once => \A i \in D : Named(args[i]) # o
                 /\ <<o, v>> \notin c.refused
           /\ o \in c.valued => (values[o] = Absent <=> \A i \in D : Named(args[i]) # o)
<1> USE DEF Ready
<1>1. x \notin D
  OBVIOUS
<1>2. Allowed(c, args, E) <=> /\ Allowed(c, args, D)
                              /\ o \in c.once => \A i \in D : Named(args[i]) # o
                              /\ <<o, v>> \notin c.refused
  BY <1>1 DEF Allowed
<1>3. ASSUME o \in c.valued PROVE values[o] = Absent <=> \A i \in D : Named(args[i]) # o
  BY <1>3 DEF Values, LastOf
<1> QED BY <1>2, <1>3

(* Its value is what the scanner has of it from then on. *)
LEMMA ValueAdded ==
    ASSUME NEW c, NEW args, NEW D, NEW E, NEW x, NEW values, Ready(c, args, D, E, x, values),
           NEW o, o = Named(args[x]), NEW v, v = ValueAt(c, args, x), NEW after,
           o \in c.valued => after[o] = v, \A q \in c.valued : q # o => after[q] = values[q]
    PROVE  Values(c, args, E, after)
<1> USE DEF Ready
<1>4. ASSUME NEW q, q # o, NEW i PROVE LastOf(args, E, q, i) <=> LastOf(args, D, q, i)
  BY <1>4 DEF LastOf
<1>5. LastOf(args, E, o, x)
  BY DEF LastOf
<1> SUFFICES ASSUME NEW q \in c.valued
             PROVE  \/ after[q] = Absent /\ \A i \in E : Named(args[i]) # q
                    \/ \E i \in E : LastOf(args, E, q, i) /\ after[q] = ValueAt(c, args, i)
  BY DEF Values
<1>6. CASE q = o
  BY <1>5, <1>6
<1>7. CASE q # o
  BY <1>4, <1>7 DEF Values
<1> QED BY <1>6, <1>7

(* What the options that are complete have for a value. *)
LEMMA ValueTyped ==
    ASSUME NEW c, Sound(c), NEW args \in Seq(Alphabet), NEW i \in 1..Len(args)
    PROVE  /\ args[i] \in c.valued /\ i < Len(args) => ValueAt(c, args, i) = args[i + 1]
           /\ args[i] \in c.valued /\ i = Len(args) => ValueAt(c, args, i) = Absent
           /\ args[i] \in DOMAIN Joined => ValueAt(c, args, i) = Joined[args[i]][2]
           /\ ValueAt(c, args, i) \in Alphabet \cup {Absent}
           /\ Named(args[i]) \in c.valued /\ args[i] \notin c.valued => args[i] \in DOMAIN Joined
           /\ Named(args[i]) \in c.valued /\ (args[i] \in c.valued => i < Len(args))
                 => ValueAt(c, args, i) \in Alphabet /\ ValueAt(c, args, i) # Absent
<1>1. DOMAIN args = 1..Len(args) /\ Len(args) \in Nat /\ \A j \in 1..Len(args) : args[j] \in Alphabet
  OBVIOUS
<1>2. i + 1 \in DOMAIN args <=> i < Len(args)
  BY <1>1
<1>3. i < Len(args) => args[i + 1] \in Alphabet
  BY <1>1
<1>4. args[i] \in c.valued => args[i] \notin DOMAIN Joined
  BY WordKinds
<1>5. args[i] \in DOMAIN Joined => Joined[args[i]][2] \in Alphabet
  BY WordKinds
<1>6. args[i] \notin DOMAIN Joined => Named(args[i]) = args[i]
  BY WordKinds
<1>7. /\ args[i] \in DOMAIN Joined => ValueAt(c, args, i) = Joined[args[i]][2]
      /\ args[i] \notin DOMAIN Joined /\ i < Len(args) => ValueAt(c, args, i) = args[i + 1]
      /\ args[i] \notin DOMAIN Joined /\ ~(i < Len(args)) => ValueAt(c, args, i) = Absent
  BY <1>2 DEF ValueAt
<1>9. \A a \in Alphabet : a # Absent
  BY CommandLineAssumption
<1> DEFINE v == ValueAt(c, args, i)
           w == args[i]
           next == args[i + 1]
           more == i < Len(args)
<1>10. v \in Alphabet \cup {Absent}
  <2> HIDE DEF v, w, next, more
  <2> QED BY <1>3, <1>5, <1>7 DEF v, w, next, more
<1>11. Named(w) \in c.valued /\ w \notin c.valued => w \in DOMAIN Joined
  BY <1>6
<1>12. Named(w) \in c.valued /\ (w \in c.valued => more) => v \in Alphabet /\ v # Absent
  <2>1. CASE w \in DOMAIN Joined
    BY <1>5, <1>7, <1>9, <2>1
  <2>2. CASE w \notin DOMAIN Joined
    BY <1>3, <1>6, <1>7, <1>9, <2>2
  <2> QED BY <2>1, <2>2
<1>13. w \in c.valued /\ more => v = next
  BY <1>4, <1>7
<1>14. w \in c.valued /\ i = Len(args) => v = Absent
  BY <1>1, <1>4, <1>7
<1> QED BY <1>7, <1>10, <1>11, <1>12, <1>13, <1>14

(* One more word that is neither option nor value. *)
LEMMA PlaceAdded ==
    ASSUME NEW args, NEW n \in Nat, NEW k \in Nat, k < n, NEW R, R \subseteq 1..k
    PROVE  PlacesOf(args, R \cup {k + 1}) = Append(PlacesOf(args, R), args[k + 1])
<1> DEFINE Q == R \cup {k + 1}
           m == Cardinality(R)
<1>1. IsFiniteSet(R) /\ R \in SUBSET Nat /\ \A i \in R : i < k + 1
  <2>1. IsFiniteSet(1..k)
    BY FS_Interval
  <2>2. IsFiniteSet(R)
    BY <2>1, FS_Subset
  <2> QED BY <2>2
<1>2. /\ m \in Nat /\ Cardinality(Q) = m + 1
      /\ \A l \in 1..m : Ascending(Q)[l] = Ascending(R)[l]
      /\ Ascending(Q)[m + 1] = k + 1
  BY <1>1, AscendingGrows
<1> HIDE DEF Q, m
<1>3. PlacesOf(args, R) = [l \in 1..m |-> args[Ascending(R)[l]]] /\ Len(PlacesOf(args, R)) = m
  BY <1>2 DEF PlacesOf, m
<1>4. PlacesOf(args, Q) = [l \in 1..(m + 1) |-> args[Ascending(Q)[l]]]
  BY <1>2 DEF PlacesOf
<1>5. Append(PlacesOf(args, R), args[k + 1])
        = [l \in 1..(m + 1) |-> IF l = m + 1 THEN args[k + 1] ELSE args[Ascending(R)[l]]]
  <2> DEFINE p == PlacesOf(args, R)
  <2>1. Append(p, args[k + 1]) = [l \in 1..(m + 1) |-> IF l = m + 1 THEN args[k + 1] ELSE p[l]]
    BY <1>2, <1>3
  <2>2. \A l \in 1..(m + 1) : l # m + 1 => p[l] = args[Ascending(R)[l]]
    BY <1>2, <1>3
  <2> HIDE DEF p
  <2> QED BY <2>1, <2>2 DEF p
<1>6. \A l \in 1..(m + 1) : args[Ascending(Q)[l]] =
                                 IF l = m + 1 THEN args[k + 1] ELSE args[Ascending(R)[l]]
  BY <1>2
<1> QED BY <1>4, <1>5, <1>6 DEF Q

(* What a scanner has been told until k, and one word more. *)
LEMMA ScanStep ==
    ASSUME NEW c, Sound(c), NEW args \in Seq(Alphabet), NEW O, Parses(c, args, O),
           NEW k \in Nat, k < Len(args), NEW s \in State(c), NEW t,
           t = ScanWord(c, s, args[k + 1]),
           s.ok <=> Legal(c, args, O, k),
           s.ok => Knows(c, args, O, k, s)
    PROVE  /\ t.ok <=> Legal(c, args, O, k + 1)
           /\ t.ok => Knows(c, args, O, k + 1, t)
<1> DEFINE n == Len(args)
           w == args[k + 1]
           D == Done(c, args, O, k)
           E == Done(c, args, O, k + 1)
           R == Rest(c, args, O, k)
           Q == Rest(c, args, O, k + 1)
           wanted == Wants(c, args, O, k)
<1>1. /\ O \subseteq 1..n /\ D \subseteq 1..k /\ R \subseteq 1..k
      /\ k + 1 \in O <=> Takes(c, w) /\ ~wanted
      /\ wanted => k \notin D /\ k \in 1..n /\ E = D \cup {k} /\ Q = R
      /\ ~wanted /\ w \in c.valued => E = D /\ (Takes(c, w) => Q = R)
      /\ ~wanted /\ w \notin c.valued /\ Takes(c, w) => E = D \cup {k + 1} /\ Q = R
      /\ ~wanted /\ ~Takes(c, w) => E = D /\ Q = R \cup {k + 1}
  <2>1. n \in Nat
    OBVIOUS
  <2> QED BY <2>1, PartsGrow
<1>2. w \in Alphabet /\ k + 1 \in 1..n /\ n \in Nat
  OBVIOUS
<1>3. \A i \in 1..n : args[i] \in Alphabet /\ args[i] # Absent
  BY CommandLineAssumption
<1>4. wanted <=> k \in O /\ args[k] \in c.valued
  BY DEF Wants
<1>5. Wants(c, args, O, k + 1) <=> k + 1 \in O /\ w \in c.valued
  BY DEF Wants
<1>6. \A i \in D : Named(args[i]) \in c.valued => ValueAt(c, args, i) # Absent
  <2> SUFFICES ASSUME NEW i \in D, Named(args[i]) \in c.valued PROVE ValueAt(c, args, i) # Absent
    OBVIOUS
  <2>1. i \in 1..n /\ (args[i] \in c.valued => i < n)
    BY <1>1, <1>2 DEF Done
  <2> QED BY <2>1, ValueTyped
<1>7. {args[i] : i \in {j \in O : j =< k + 1}}
        = {args[i] : i \in {j \in O : j =< k}} \cup {a \in {w} : k + 1 \in O}
  BY <1>1
<1>8. s.values \in [c.valued -> Alphabet \cup {Absent}]
  BY DEF State
<1>9. t \in State(c) /\ (~s.ok => ~t.ok)
  BY <1>2, ScanTyped
<1>10. D \in SUBSET Nat /\ \A i \in D : i < k + 1
  BY <1>1
<1> HIDE DEF n, D, E, R, Q, wanted
<1>11. CASE ~s.ok
  <2>1. D \subseteq E /\ R \subseteq Q
    BY <1>1 DEF Takes
  <2>2. ~Legal(c, args, O, k + 1)
    BY <1>11, <2>1 DEF Legal, Allowed, D, E, R, Q
  <2> QED BY <1>9, <1>11, <2>2
<1>12. ASSUME s.ok
       PROVE  /\ Allowed(c, args, D)
              /\ ~c.skips => \A i \in R : ~IsOption(args[i])
              /\ s.wants = IF wanted THEN args[k] ELSE Absent
              /\ s.flags = {args[i] : i \in {j \in O : j =< k}} \cap c.flags
              /\ Values(c, args, D, s.values)
              /\ s.places = IF c.skips THEN <<>> ELSE PlacesOf(args, R)
  BY <1>12 DEF Legal, Knows, D, R, wanted
<1>13. Legal(c, args, O, k + 1) <=> /\ Allowed(c, args, E)
                                    /\ ~c.skips => \A i \in Q : ~IsOption(args[i])
  BY DEF Legal, E, Q
<1>14. Knows(c, args, O, k + 1, t) <=>
              /\ t.wants = IF k + 1 \in O /\ w \in c.valued THEN w ELSE Absent
              /\ t.flags = {args[i] : i \in {j \in O : j =< k + 1}} \cap c.flags
              /\ Values(c, args, E, t.values)
              /\ t.places = IF c.skips THEN <<>> ELSE PlacesOf(args, Q)
  BY <1>5 DEF Knows, E, Q
<1>15. CASE s.ok /\ wanted
  <2> DEFINE o == args[k]
  <2>1. /\ o \in c.valued /\ Named(o) = o /\ ValueAt(c, args, k) = w /\ o # Absent
        /\ s.wants = o /\ k \in Nat /\ \A i \in D : i < k
    <3>1. k \in 1..n /\ o \in c.valued /\ o # Absent
      BY <1>1, <1>3, <1>4, <1>15
    <3>2. ValueAt(c, args, k) = w
      BY <3>1, ValueTyped DEF n
    <3>3. \A i \in D : i < k
      <4>1. k \notin D /\ D \subseteq 1..k
        BY <1>1, <1>15
      <4> QED BY <4>1
    <3> QED BY <1>12, <1>15, <3>1, <3>2, <3>3, WordKinds
  <2>2. t = SetOption(c, s, o, w)
    BY <1>2, <2>1, ScanIs
  <2>3. /\ Allowed(c, args, E) <=>
              /\ Allowed(c, args, D)
              /\ o \in c.once => \A i \in D : Named(args[i]) # o
              /\ <<o, w>> \notin c.refused
        /\ s.values[o] = Absent <=> \A i \in D : Named(args[i]) # o
        /\ Ready(c, args, D, E, k, s.values)
    <3>1. Ready(c, args, D, E, k, s.values)
      BY <1>1, <1>6, <1>8, <1>10, <1>12, <1>15, <2>1 DEF Ready
    <3>2. o = Named(args[k]) /\ w = ValueAt(c, args, k)
      BY <2>1
    <3> HIDE DEF o, w
    <3> QED BY <2>1, <3>1, <3>2, OptionAdded
  <2>4. t.ok <=> Allowed(c, args, E)
    <3>1. Allowed(c, args, E) <=> /\ o \in c.once => s.values[o] = Absent
                                  /\ <<o, w>> \notin c.refused
      BY <1>12, <1>15, <2>3
    <3>2. t.ok <=> ~((o \in c.once /\ s.values[o] # Absent) \/ <<o, w>> \in c.refused)
      BY <1>15, <2>2 DEF SetOption, Refuse, State
    <3> QED BY <3>1, <3>2
  <2>5. ASSUME t.ok
        PROVE  /\ t.wants = Absent /\ t.flags = s.flags /\ t.places = s.places
               /\ t.values = [s.values EXCEPT ![o] = w]
    BY <1>15, <2>2, <2>5 DEF SetOption, Refuse, State
  <2>6. ASSUME t.ok PROVE Values(c, args, E, t.values)
    <3>1. t.values[o] = w /\ \A q \in c.valued : q # o => t.values[q] = s.values[q]
      BY <1>8, <2>1, <2>5, <2>6
    <3>2. o = Named(args[k]) /\ w = ValueAt(c, args, k)
      BY <2>1
    <3> HIDE DEF o, w
    <3> QED BY <2>3, <3>1, <3>2, ValueAdded
  <2> QED BY <1>1, <1>7, <1>12, <1>13, <1>14, <1>15, <2>3, <2>4, <2>5, <2>6
<1>16. CASE s.ok /\ ~wanted /\ w \in c.valued
  <2>1. t = [s EXCEPT !.wants = w]
    BY <1>2, <1>12, <1>16, ScanIs
  <2>2. t.ok /\ t.wants = w /\ t.flags = s.flags /\ t.places = s.places /\ t.values = s.values
    BY <1>16, <2>1 DEF State
  <2>3. Takes(c, w) /\ w \notin c.flags
    BY <1>16, WordKinds DEF Takes
  <2> QED BY <1>1, <1>7, <1>12, <1>13, <1>14, <1>16, <2>2, <2>3
<1>17. CASE s.ok /\ ~wanted /\ w \in DOMAIN Joined /\ Takes(c, w)
  <2> DEFINE o == Named(w)
             v == Joined[w][2]
  <2>1. o \in c.valued /\ w \notin c.valued /\ w \notin c.flags /\ ValueAt(c, args, k + 1) = v
    BY <1>2, <1>17, WordKinds, ValueTyped DEF Takes, n
  <2>2. t = SetOption(c, s, o, v) /\ s.wants = Absent
    BY <1>2, <1>12, <1>17, ScanIs
  <2>3. /\ Allowed(c, args, E) <=>
              /\ Allowed(c, args, D)
              /\ o \in c.once => \A i \in D : Named(args[i]) # o
              /\ <<o, v>> \notin c.refused
        /\ s.values[o] = Absent <=> \A i \in D : Named(args[i]) # o
        /\ Ready(c, args, D, E, k + 1, s.values)
        /\ o = Named(args[k + 1]) /\ v = ValueAt(c, args, k + 1)
    <3>1. k + 1 \in Nat /\ o = Named(args[k + 1]) /\ E = D \cup {k + 1}
      BY <1>1, <1>17, <2>1
    <3>2. Ready(c, args, D, E, k + 1, s.values)
      BY <1>6, <1>8, <1>10, <1>12, <1>17, <3>1 DEF Ready
    <3> HIDE DEF o, v, w
    <3> QED BY <2>1, <3>1, <3>2, OptionAdded
  <2>4. t.ok <=> Allowed(c, args, E)
    <3>1. Allowed(c, args, E) <=> /\ o \in c.once => s.values[o] = Absent
                                  /\ <<o, v>> \notin c.refused
      BY <1>12, <1>17, <2>3
    <3>2. t.ok <=> ~((o \in c.once /\ s.values[o] # Absent) \/ <<o, v>> \in c.refused)
      BY <1>17, <2>2 DEF SetOption, Refuse, State
    <3> QED BY <3>1, <3>2
  <2>5. ASSUME t.ok
        PROVE  /\ t.wants = Absent /\ t.flags = s.flags /\ t.places = s.places
               /\ t.values = [s.values EXCEPT ![o] = v]
    BY <1>17, <2>2, <2>5 DEF SetOption, Refuse, State
  <2>6. ASSUME t.ok PROVE Values(c, args, E, t.values)
    <3>1. t.values[o] = v /\ \A q \in c.valued : q # o => t.values[q] = s.values[q]
      BY <1>8, <2>1, <2>5, <2>6
    <3> HIDE DEF o, v, w
    <3> QED BY <2>3, <3>1, ValueAdded
  <2> QED BY <1>1, <1>7, <1>12, <1>13, <1>14, <1>17, <2>1, <2>3, <2>4, <2>5, <2>6
<1>18. CASE s.ok /\ ~wanted /\ w \in c.flags
  <2>1. /\ w \notin c.valued /\ Named(w) = w /\ Takes(c, w)
        /\ \A v : <<w, v>> \notin c.refused
    BY <1>18, WordKinds DEF Takes, Sound
  <2>2. t = IF w \in c.once \cap s.flags THEN Refuse(s) ELSE [s EXCEPT !.flags = @ \cup {w}]
    BY <1>2, <1>12, <1>18, ScanIs
  <2>3. /\ Allowed(c, args, E) <=>
              /\ Allowed(c, args, D)
              /\ w \in c.once => \A i \in D : Named(args[i]) # w
        /\ Values(c, args, E, s.values)
    <3>1. k + 1 \in Nat /\ w = Named(args[k + 1]) /\ E = D \cup {k + 1}
      BY <1>1, <1>18, <2>1
    <3>2. Ready(c, args, D, E, k + 1, s.values)
      BY <1>6, <1>8, <1>10, <1>12, <1>18, <3>1 DEF Ready
    <3>3. PICK v : v = ValueAt(c, args, k + 1)
      OBVIOUS
    <3> HIDE DEF w
    <3>4. Allowed(c, args, E) <=>
              /\ Allowed(c, args, D)
              /\ w \in c.once => \A i \in D : Named(args[i]) # w
              /\ <<w, v>> \notin c.refused
      BY <3>1, <3>2, <3>3, OptionAdded
    <3>5. Values(c, args, E, s.values)
      BY <2>1, <3>1, <3>2, <3>3, ValueAdded
    <3> QED BY <2>1, <3>4, <3>5
  <2>4. w \in s.flags <=> \E i \in D : Named(args[i]) = w
    <3>1. w \in s.flags <=> \E i \in O : i =< k /\ args[i] = w
      BY <1>12, <1>18
    <3>2. \A i \in O : i =< k /\ args[i] = w => i \in D
      BY <2>1 DEF D, Done
    <3>3. \A i \in D : i \in O /\ i =< k
      BY DEF D, Done
    <3>4. \A i \in D : Named(args[i]) = w => args[i] = w
      BY <1>18, WordKinds
    <3> QED BY <2>1, <3>1, <3>2, <3>3, <3>4
  <2>5. t.ok <=> ~(w \in c.once /\ w \in s.flags)
    BY <1>18, <2>2 DEF Refuse, State
  <2>6. ASSUME t.ok
        PROVE  /\ t.wants = Absent /\ t.flags = s.flags \cup {w} /\ t.places = s.places
               /\ t.values = s.values
    BY <1>12, <1>18, <2>2, <2>6 DEF Refuse, State
  <2> QED BY <1>1, <1>7, <1>12, <1>13, <1>14, <1>18, <2>1, <2>3, <2>4, <2>5, <2>6
<1>19. CASE s.ok /\ ~wanted /\ ~Takes(c, w)
  <2>1. t = IF c.skips THEN s ELSE IF IsOption(w) THEN Refuse(s)
            ELSE [s EXCEPT !.places = Append(@, w)]
    <3>1. s.wants = Absent /\ t = ScanWord(c, s, w)
      BY <1>12, <1>19
    <3> HIDE DEF w
    <3>2. ScanWord(c, s, w) = IF c.skips THEN s ELSE IF IsOption(w) THEN Refuse(s)
                              ELSE [s EXCEPT !.places = Append(@, w)]
      BY <1>2, <1>19, <3>1, ScanIs
    <3> QED BY <3>1, <3>2
  <2>2. t.ok <=> c.skips \/ ~IsOption(w)
    BY <1>19, <2>1 DEF Refuse, State
  <2>3. ASSUME t.ok
        PROVE  /\ t.wants = Absent /\ t.flags = s.flags /\ t.values = s.values
               /\ t.places = IF c.skips THEN s.places ELSE Append(s.places, w)
    BY <1>12, <1>19, <2>1, <2>2, <2>3 DEF Refuse, State
  <2>4. PlacesOf(args, R \cup {k + 1}) = Append(PlacesOf(args, R), w)
    BY <1>1, <1>2, PlaceAdded DEF n
  <2> QED BY <1>1, <1>7, <1>12, <1>13, <1>14, <1>19, <2>2, <2>3, <2>4
<1>20. Takes(c, w) => w \in c.valued \/ w \in c.flags \/ w \in DOMAIN Joined
  BY WordKinds DEF Takes
<1> QED BY <1>11, <1>15, <1>16, <1>17, <1>18, <1>19, <1>20

(* After every word the scanner knows what it has been told. *)
LEMMA ScanKnows ==
    ASSUME NEW c, Sound(c), NEW args \in Seq(Alphabet), NEW O, Parses(c, args, O)
    PROVE  LET s == AfterWord(c, args)[Len(args)] IN
           /\ s \in State(c)
           /\ s.ok <=> Legal(c, args, O, Len(args))
           /\ s.ok => Knows(c, args, O, Len(args), s)
<1> DEFINE n == Len(args)
           Tells(k) == LET s == AfterWord(c, args)[k] IN
                       (s.ok <=> Legal(c, args, O, k)) /\ (s.ok => Knows(c, args, O, k, s))
           T == {k \in 0..n : Tells(k)}
<1>1. n \in Nat /\ O \subseteq 1..n
  BY DEF Parses
<1>2. 0 \in T
  <2>1. AfterWord(c, args)[0] = NoWord(c)
    BY <1>1, AfterEach
  <2>2. Done(c, args, O, 0) = {} /\ Rest(c, args, O, 0) = {} /\ {j \in O : j =< 0} = {}
    <3> HIDE DEF n, Tells, T
    <3>1. \A j \in O : j \in Nat /\ ~(j =< 0)
      BY <1>1
    <3>2. {j \in O : j =< 0} = {} /\ Done(c, args, O, 0) = {}
      BY <3>1 DEF Done
    <3>3. Rest(c, args, O, 0) = {}
      BY DEF Rest
    <3> QED BY <3>2, <3>3
  <2>3. ~Wants(c, args, O, 0)
    BY <1>1 DEF Wants
  <2>4. PlacesOf(args, {}) = <<>>
    <3>1. Cardinality({}) = 0
      BY FS_EmptySet
    <3>2. 1..0 = {}
      OBVIOUS
    <3>3. PlacesOf(args, {}) = [m \in {} |-> args[Ascending({})[m]]]
      BY <3>1, <3>2 DEF PlacesOf
    <3>4. \A f : f = [m \in {} |-> f[m]] => f = <<>>
      OBVIOUS
    <3> QED BY <3>3, <3>4
  <2>5. NoWord(c).ok /\ Legal(c, args, O, 0)
    BY <2>2 DEF NoWord, Legal, Allowed
  <2>6. Knows(c, args, O, 0, NoWord(c))
    BY <2>2, <2>3, <2>4 DEF NoWord, Knows, Values
  <2> QED BY <1>1, <2>1, <2>5, <2>6
<1>3. ASSUME NEW k \in Nat, k < n, k \in T PROVE k + 1 \in T
  <2> DEFINE s == AfterWord(c, args)[k]
             t == AfterWord(c, args)[k + 1]
  <2>1. Tells(k) /\ k \in 0..n /\ k + 1 \in 0..n
    BY <1>1, <1>3
  <2>2. s \in State(c)
    BY <2>1, AfterTyped
  <2>3. t = ScanWord(c, s, args[k + 1])
    BY <1>1, <1>3, AfterEach
  <2> HIDE DEF s, t
  <2>4. (s.ok <=> Legal(c, args, O, k)) /\ (s.ok => Knows(c, args, O, k, s))
    BY <2>1 DEF s
  <2>5. (t.ok <=> Legal(c, args, O, k + 1)) /\ (t.ok => Knows(c, args, O, k + 1, t))
    BY <1>3, <2>2, <2>3, <2>4, ScanStep
  <2> QED BY <2>1, <2>5 DEF t
<1> HIDE DEF n, Tells
<1>4. \A k \in 0..n : k \in T
  <2> HIDE DEF T
  <2> QED BY <1>1, <1>2, <1>3, GoesOn
<1>5. n \in 0..n
  BY <1>1
<1>6. AfterWord(c, args)[n] \in State(c)
  BY <1>5, AfterTyped DEF n
<1>7. Tells(n)
  BY <1>4, <1>5
<1> QED BY <1>6, <1>7 DEF Tells, n
(* Where a line has an option of this name, if those in O are its options. *)
NamedAt(args, O, o) == {i \in O : Named(args[i]) = o}

(* The parts of a reading. *)
Parts(c, args, O, r) ==
    /\ r.options = O /\ r.flags = {args[i] : i \in O} \cap c.flags
    /\ \A i \in 1..Len(args) : i \in r.values <=> Wants(c, args, O, i - 1)
    /\ r.rest = Rest(c, args, O, Len(args))
    /\ r.value = [o \in c.valued |-> r.value[o]]
    /\ \A o \in c.valued : r.value[o] = IF NamedAt(args, O, o) = {} THEN Absent
                                       ELSE ValueAt(c, args, Max(NamedAt(args, O, o)))

(* A reading has the parts that its options determine. *)
LEMMA ReadingIs ==
    ASSUME NEW c, NEW args \in Seq(Alphabet), NEW O \in SUBSET (1..Len(args)),
           NEW r, r = Reading(c, args, O)
    PROVE  Parts(c, args, O, r)
<1>1. DOMAIN args = 1..Len(args) /\ Len(args) \in Nat
  OBVIOUS
<1>2. r.values = {i + 1 : i \in {j \in O : args[j] \in c.valued}}
  BY DEF Reading
<1>3. \A i \in 1..Len(args) : i \in r.values <=> Wants(c, args, O, i - 1)
  <2> DEFINE V == {j \in O : args[j] \in c.valued}
  <2>1. \A i \in 1..Len(args) : i \in {j + 1 : j \in V} <=> i - 1 \in V
    <3>1. V \subseteq 1..Len(args)
      OBVIOUS
    <3> HIDE DEF V
    <3> QED BY <1>1, <3>1
  <2>2. r.values = {j + 1 : j \in V}
    BY <1>2
  <2>3. \A i : i - 1 \in V <=> Wants(c, args, O, i - 1)
    BY DEF Wants
  <2> HIDE DEF V
  <2> QED BY <2>1, <2>2, <2>3
<1>4. r.rest = DOMAIN args \ (O \cup r.values)
  BY DEF Reading
<1>5. r.options = O /\ r.flags = {args[i] : i \in O} \cap c.flags
  BY DEF Reading
<1>6. r.value = [o \in c.valued |-> IF NamedAt(args, O, o) = {} THEN Absent
                                   ELSE ValueAt(c, args, Max(NamedAt(args, O, o)))]
  BY DEF Reading, NamedAt
<1>7. r.rest = Rest(c, args, O, Len(args))
  BY <1>1, <1>3, <1>4 DEF Rest
<1> QED BY <1>3, <1>5, <1>6, <1>7 DEF Parts

(* There is one way to divide the words of a line that can be right. *)
LEMMA RightParses ==
    ASSUME NEW c, Sound(c), NEW args \in Seq(Alphabet), NEW O \in SUBSET (1..Len(args)),
           RightReading(c, args, Reading(c, args, O))
    PROVE  Parses(c, args, O)
<1>0. PICK r : r = Reading(c, args, O)
  OBVIOUS
<1>1. /\ r.options = O /\ \A i \in 1..Len(args) : i \in r.values <=> Wants(c, args, O, i - 1)
      /\ r.rest = Rest(c, args, O, Len(args))
  <2>1. Parts(c, args, O, r)
    BY <1>0, ReadingIs
  <2> QED BY <2>1 DEF Parts
<1>2. /\ \A i \in r.options : Named(args[i]) \in c.flags \cup c.valued
      /\ r.values \cap r.options = {}
      /\ IF c.skips THEN \A i \in r.rest : args[i] \notin c.valued
         ELSE \A i \in r.rest : ~IsOption(args[i])
  BY <1>0 DEF RightReading
<1>3. ASSUME NEW i \in 1..Len(args), i \in O PROVE Takes(c, args[i]) /\ ~Wants(c, args, O, i - 1)
  BY <1>1, <1>2, <1>3 DEF Takes
<1>4. ASSUME NEW i \in 1..Len(args), i \notin O, ~Wants(c, args, O, i - 1)
      PROVE  ~Takes(c, args[i])
  <2>1. i \in r.rest
    BY <1>1, <1>4 DEF Rest
  <2>2. CASE c.skips
    <3>1. args[i] \notin c.valued /\ c.flags = {} /\ "--agents" \notin c.valued
      BY <1>2, <2>1, <2>2 DEF Sound
    <3> QED BY <3>1, JoinedIs DEF Takes, Named
  <2>3. CASE ~c.skips
    BY <1>2, <2>1, <2>3, WordKinds
  <2> QED BY <2>2, <2>3
<1> QED BY <1>3, <1>4 DEF Parses

(* When the line is over, what the scanner has is that reading, and it is ok if it is right. *)
LEMMA FinishReads ==
    ASSUME NEW c, Sound(c), NEW args \in Seq(Alphabet), NEW O, Parses(c, args, O),
           NEW r, r = Reading(c, args, O), NEW t, t = Scan(c, args)
    PROVE  /\ t.ok <=> RightReading(c, args, r)
           /\ t.ok => t.flags = r.flags /\ t.values = r.value
                      /\ t.places = IF c.skips THEN <<>> ELSE PlacesOf(args, r.rest)
<1>0. PICK n : n = Len(args)
  OBVIOUS
<1> DEFINE D == Done(c, args, O, n)
           R == Rest(c, args, O, n)
<1>1. n \in Nat /\ O \subseteq 1..n /\ \A i \in 1..n : args[i] \in Alphabet /\ args[i] # Absent
  BY <1>0, CommandLineAssumption DEF Parses
<1>2. /\ r.options = O /\ r.flags = {args[i] : i \in O} \cap c.flags
      /\ \A i \in 1..n : i \in r.values <=> Wants(c, args, O, i - 1)
      /\ r.rest = R
      /\ r.value = [o \in c.valued |-> r.value[o]]
      /\ \A o \in c.valued : r.value[o] = IF NamedAt(args, O, o) = {} THEN Absent
                                         ELSE ValueAt(c, args, Max(NamedAt(args, O, o)))
  <2>1. O \in SUBSET (1..Len(args))
    BY <1>0, <1>1
  <2>2. Parts(c, args, O, r)
    BY <2>1, ReadingIs
  <2> QED BY <1>0, <2>2 DEF Parts
<1>3. PICK s : s = AfterWord(c, args)[n]
  OBVIOUS
<1>4. /\ s \in State(c) /\ t = Finish(c, s)
      /\ s.ok <=> Legal(c, args, O, n)
      /\ s.ok => Knows(c, args, O, n, s)
  BY <1>0, <1>3, ScanKnows DEF Scan
<1>11. \A i \in O : i \in Nat /\ i =< n
  BY <1>1
<1>5. D \subseteq O /\ \A i \in O : i \in D \/ (i = n /\ Wants(c, args, O, n))
  <2> SUFFICES ASSUME NEW i \in O PROVE i \in D \/ (i = n /\ Wants(c, args, O, n))
    BY DEF Done
  <2>1. i = n \/ i < n
    BY <1>1, <1>11
  <2> QED BY <1>11, <2>1 DEF Done, Wants
<1>6. Wants(c, args, O, n) => /\ n \in O /\ n \in 1..n /\ args[n] \in c.valued /\ Named(args[n]) = args[n]
                              /\ ValueAt(c, args, n) = Absent
  <2>1. Wants(c, args, O, n) => n \in O /\ n \in 1..n /\ args[n] \in c.valued
    BY <1>1 DEF Wants
  <2> QED BY <1>0, <2>1, ValueTyped, WordKinds
<1>7. {j \in O : j =< n} = O
  BY <1>11
<1>8. s.ok => /\ s.wants = IF Wants(c, args, O, n) THEN args[n] ELSE Absent
              /\ s.flags = {args[i] : i \in {j \in O : j =< n}} \cap c.flags
              /\ Values(c, args, D, s.values)
              /\ s.places = IF c.skips THEN <<>> ELSE PlacesOf(args, R)
  BY <1>4 DEF Knows
<1> HIDE DEF D, R
<1>9. s.ok => s.flags = r.flags
  BY <1>2, <1>7, <1>8
<1> DEFINE last(o) == IF o = s.wants THEN Absent ELSE s.values[o]
<1>10. ASSUME s.ok, NEW o \in c.valued PROVE last(o) = r.value[o]
  <2> DEFINE S == NamedAt(args, O, o)
  <2>1. S \in SUBSET (1..n) /\ S \in SUBSET O /\ \A i \in O : i \in S <=> Named(args[i]) = o
    BY <1>1 DEF NamedAt
  <2>2. S # {} => Max(S) \in S /\ \A i \in S : i =< Max(S)
    BY <1>1, <2>1, MaxIsIn
  <2>3. r.value[o] = IF S = {} THEN Absent ELSE ValueAt(c, args, Max(S))
    BY <1>2
  <2>4. o # Absent
    BY CommandLineAssumption DEF Sound, Alphabet
  <2> HIDE DEF S
  <2>5. CASE Wants(c, args, O, n) /\ o = args[n]
    <3>1. n \in S /\ s.wants = o
      BY <1>6, <1>8, <1>10, <2>1, <2>5
    <3>2. Max(S) = n
      <4>1. PICK m : m = Max(S)
        OBVIOUS
      <4>2. m \in 1..n /\ n =< m
        BY <2>1, <2>2, <3>1, <4>1
      <4> QED BY <1>1, <4>1, <4>2
    <3> QED BY <1>6, <2>3, <2>5, <3>1, <3>2
  <2>6. CASE ~(Wants(c, args, O, n) /\ o = args[n])
    <3>1. s.wants # o
      BY <1>8, <1>10, <2>4, <2>6
    <3>2. \A i \in O : i \in S <=> i \in D /\ Named(args[i]) = o
      BY <1>5, <1>6, <2>1, <2>6
    <3>3. CASE s.values[o] = Absent /\ \A i \in D : Named(args[i]) # o
      BY <2>1, <2>3, <3>1, <3>2, <3>3
    <3>4. CASE \E i \in D : LastOf(args, D, o, i) /\ s.values[o] = ValueAt(c, args, i)
      <4>1. PICK i \in D : LastOf(args, D, o, i) /\ s.values[o] = ValueAt(c, args, i)
        BY <3>4
      <4>2. i \in S /\ \A j \in S : j =< i
        BY <1>5, <2>1, <3>2, <4>1 DEF LastOf
      <4>3. Max(S) = i
        <5>1. PICK m : m = Max(S)
          OBVIOUS
        <5>2. m \in 1..n /\ i \in 1..n /\ i =< m /\ m =< i
          BY <2>1, <2>2, <4>2, <5>1
        <5> QED BY <1>1, <5>1, <5>2
      <4> QED BY <2>3, <3>1, <4>1, <4>2, <4>3
    <3> QED BY <1>8, <1>10, <3>3, <3>4 DEF Values
  <2> QED BY <2>5, <2>6
<1>12. RightReading(c, args, r) <=>
          /\ Wants(c, args, O, n) => args[n] \in c.bare
          /\ Allowed(c, args, O)
          /\ \A o \in c.needed : r.value[o] # Absent
          /\ ~c.skips => Cardinality(R) \in c.places /\ \A i \in R : ~IsOption(args[i])
  <2>1. \A i \in O : Named(args[i]) \in c.flags \cup c.valued
    BY <1>1 DEF Parses, Takes
  <2>2. r.values \cap r.options = {}
    BY <1>0, <1>1, <1>2 DEF Parses
  <2>3. \A i \in R : args[i] \notin c.valued
    BY <1>0, <1>1, WordKinds DEF Rest, Parses, Takes, R
  <2> QED BY <1>0, <1>1, <1>2, <2>1, <2>2, <2>3 DEF RightReading, Allowed, Wants
<1>13. ASSUME Wants(c, args, O, n) => args[n] \in c.bare
       PROVE  Allowed(c, args, O) <=> Allowed(c, args, D)
  BY <1>5, <1>6, <1>13, CommandLineAssumption DEF Allowed, Sound
<1>14. s.ok => (s.wants \in c.bare \cup {Absent} <=> (Wants(c, args, O, n) => args[n] \in c.bare))
  BY <1>1, <1>6, <1>8
<1>15. s.ok => (Len(s.places) \in c.places
                <=> (~c.skips => Cardinality(R) \in c.places))
  <2>1. Cardinality(R) \in Nat
    <3>1. R \subseteq 1..n /\ IsFiniteSet(1..n)
      BY <1>1, FS_Interval DEF R, Rest
    <3> QED BY <3>1, FS_Subset, FS_CardinalityType
  <2>2. Len(PlacesOf(args, R)) = Cardinality(R)
    BY <2>1 DEF PlacesOf
  <2>3. c.skips => 0 \in c.places
    BY DEF Sound
  <2> QED BY <1>8, <2>2, <2>3
<1>16. s.ok <=> /\ Allowed(c, args, D)
                /\ ~c.skips => \A i \in R : ~IsOption(args[i])
  BY <1>4 DEF Legal, D, R
<1> DEFINE fine == s.ok /\ s.wants \in c.bare \cup {Absent} /\ Len(s.places) \in c.places
           values == [o \in c.valued |-> last(o)]
<1>17. fine => values = r.value
  BY <1>2, <1>10
<1>18. /\ fine => /\ t.flags = s.flags /\ t.places = s.places /\ t.values = values
                  /\ t.ok <=> \A o \in c.needed : values[o] # Absent
       /\ t.ok => fine
  BY <1>4 DEF Finish, Refuse, State
<1>19. fine <=> /\ Wants(c, args, O, n) => args[n] \in c.bare
                /\ Allowed(c, args, O)
                /\ ~c.skips => Cardinality(R) \in c.places /\ \A i \in R : ~IsOption(args[i])
  BY <1>13, <1>14, <1>15, <1>16
<1>20. CASE ~fine
  BY <1>12, <1>18, <1>19, <1>20
<1>21. CASE fine
  <2>1. t.values = r.value /\ (t.ok <=> \A o \in c.needed : values[o] # Absent)
    BY <1>17, <1>18, <1>21
  <2>2. \A o \in c.needed : values[o] = r.value[o]
    BY <1>17, <1>21
  <2>3. t.flags = r.flags /\ t.places = IF c.skips THEN <<>> ELSE PlacesOf(args, R)
    BY <1>8, <1>9, <1>18, <1>21
  <2>4. RightReading(c, args, r) <=> \A o \in c.needed : r.value[o] # Absent
    BY <1>12, <1>19, <1>21
  <2> HIDE DEF values, fine
  <2>5. t.ok <=> RightReading(c, args, r)
    BY <2>1, <2>2, <2>4
  <2> QED BY <1>2, <2>1, <2>3, <2>5
<1> QED BY <1>20, <1>21

(* A command takes the lines that have a right reading, for that reading. *)
LEMMA LinesRead ==
    ASSUME NEW c, Sound(c), NEW args \in Seq(Alphabet)
    PROVE  ReadsAsWritten(c, args)
<1> DEFINE all == {Reading(c, args, O) : O \in SUBSET DOMAIN args}
           readings == {r \in all : RightReading(c, args, r)}
<1>1. PICK t : t = Scan(c, args)
  OBVIOUS
<1>2. DOMAIN args = 1..Len(args) /\ Len(args) \in Nat
  OBVIOUS
<1>3. PICK P : Parses(c, args, P)
  BY <1>2, SomeParse
<1>4. ASSUME NEW r \in readings PROVE r = Reading(c, args, P)
  <2>1. PICK O \in SUBSET (1..Len(args)) : r = Reading(c, args, O)
    BY <1>2
  <2>2. Parses(c, args, O)
    BY <2>1, RightParses
  <2> QED BY <1>2, <1>3, <2>1, <2>2, OneParse
<1>5. PICK r : r = Reading(c, args, P)
  OBVIOUS
<1>6. /\ t.ok <=> RightReading(c, args, r)
      /\ t.ok => t.flags = r.flags /\ t.values = r.value
                 /\ t.places = IF c.skips THEN <<>> ELSE PlacesOf(args, r.rest)
  BY <1>1, <1>3, <1>5, FinishReads
<1>7. r \in all
  BY <1>2, <1>3, <1>5 DEF Parses
<1>8. t.ok <=> readings # {}
  BY <1>4, <1>5, <1>6, <1>7
<1>9. ASSUME NEW q \in readings
      PROVE  /\ t.flags = q.flags /\ t.values = q.value
             /\ ~c.skips => t.places = [k \in 1..Cardinality(q.rest) |-> args[Ascending(q.rest)[k]]]
  <2>1. q = r /\ t.ok
    BY <1>4, <1>5, <1>6
  <2> QED BY <1>6, <2>1 DEF PlacesOf
<1> QED BY <1>1, <1>8, <1>9 DEF ReadsAsWritten

-----------------------------------------------------------------------------
(* No slip in a line widens what it does. *)

(* An option with a value is in the line if it has one. *)
LEMMA ValueGiven ==
    ASSUME NEW c, Sound(c), c.bare = {}, NEW args \in Seq(Alphabet), NEW t, t = Scan(c, args), t.ok,
           NEW o \in c.valued, o # "--agents", t.values[o] = Absent, NEW i \in 1..Len(args), args[i] = o
    PROVE  i - 1 \in 1..Len(args) /\ args[i - 1] \in c.valued \ {o}
<1>1. Len(args) \in Nat
  OBVIOUS
<1>2. PICK O : Parses(c, args, O)
  BY <1>1, SomeParse
<1>3. PICK r : r = Reading(c, args, O)
  OBVIOUS
<1>4. RightReading(c, args, r) /\ t.values = r.value
  BY <1>2, <1>3, FinishReads
<1>5. O \in SUBSET (1..Len(args))
  BY <1>2 DEF Parses
<1>6. Parts(c, args, O, r)
  BY <1>3, <1>5, ReadingIs
<1> DEFINE S == NamedAt(args, O, o)
<1>7. S \in SUBSET (1..Len(args)) /\ S \in SUBSET O /\ \A j \in O : j \in S <=> Named(args[j]) = o
  BY <1>5 DEF NamedAt
<1>8. S = {}
  <2> SUFFICES ASSUME S # {} PROVE FALSE
    OBVIOUS
  <2>1. Max(S) \in S
    BY <1>1, <1>7, MaxIsIn
  <2>2. PICK m : m = Max(S)
    OBVIOUS
  <2>3. m \in 1..Len(args) /\ m \in O /\ Named(args[m]) = o
    BY <1>7, <2>1, <2>2
  <2>4. args[m] = o
    BY <2>3, JoinedIs DEF Named
  <2>5. m # Len(args)
    BY <1>4, <1>6, <2>3, <2>4 DEF RightReading, Parts
  <2>6. ValueAt(c, args, m) # Absent
    BY <2>3, <2>4, <2>5, ValueTyped
  <2>7. t.values[o] = ValueAt(c, args, m)
    BY <1>4, <1>6, <2>2 DEF Parts
  <2> QED BY <2>6, <2>7
<1>9. Named(o) = o /\ Takes(c, o)
  BY WordKinds DEF Takes
<1>10. i \notin O
  BY <1>7, <1>8, <1>9
<1>11. i - 1 \in O /\ args[i - 1] \in c.valued
  BY <1>2, <1>9, <1>10 DEF Parses, Wants
<1>12. args[i - 1] # o
  BY <1>7, <1>8, <1>9, <1>11
<1> QED BY <1>5, <1>11, <1>12

(* What a command can tell apart is in the alphabet. *)
LEMMA TokensAre ==
    ASSUME NEW n \in DOMAIN Commands
    PROVE  Tokens(Commands[n]) \subseteq Alphabet
<1>1. Sound(Commands[n])
  BY AllSound
<1>2. {Dash, "x", "7", "report:w"} \subseteq Alphabet /\ DOMAIN Joined \subseteq Alphabet /\ UnsafeNames \subseteq Alphabet
  BY DEF Alphabet, Anything, Words, Numbers, Conditions
<1>3. Options \subseteq Alphabet
  BY DEF Alphabet
<1> QED BY <1>1, <1>2, <1>3 DEF Tokens, Sound

(* This is so for lines of every length. *)
LEMMA NothingWidens == NeverWidens(Seq)
<1>1. ASSUME NEW args \in Seq(Tokens(KillOptions)), "--worker" \in Range(args)
      PROVE  KillCommand(args).does # "kill run"
  <2>1. args \in Seq(Alphabet)
    <3>1. Tokens(KillOptions) \subseteq Alphabet
      BY TokensAre, CommandsAre DEF Names
    <3> QED BY <3>1
  <2>2. PICK i \in 1..Len(args) : args[i] = "--worker"
    BY <1>1, <2>1 DEF Range
  <2>3. PICK t : t = Scan(KillOptions, args)
    OBVIOUS
  <2>4. t = Parse("kill", args)
    BY <2>3, CommandsAre DEF Parse
  <2>5. /\ Sound(KillOptions) /\ KillOptions.bare = {} /\ KillOptions.valued = {"--worker"}
    <3>1. Sound(KillOptions)
      BY AllSound, CommandsAre DEF Names
    <3> QED BY <3>1 DEF KillOptions, Strictly, Command
  <2>6. ~(t.ok /\ t.values["--worker"] = Absent)
    BY <2>1, <2>2, <2>3, <2>5, ValueGiven
  <2> QED BY <2>4, <2>6 DEF KillCommand, Does, Usage
<1>2. ASSUME NEW args \in Seq(Tokens(SpawnOptions) \cup {"--dry-run"})
      PROVE  /\ "--dry-run" \in Range(args) => SpawnCommand(args).does \notin {"start", "resume"}
             /\ \A i \in DOMAIN args :
                   args[i] = "--resume" /\ SpawnCommand(args).does = "start"
                   => i > 1 /\ args[i - 1] = "--agents"
  <2>1. args \in Seq(Alphabet)
    <3>1. Tokens(SpawnOptions) \subseteq Alphabet
      BY TokensAre, CommandsAre DEF Names
    <3>2. "--dry-run" \in Options
      <4>1. "--dry-run" \in DryRunOptions.flags
        BY DEF DryRunOptions, Strictly, Command
      <4>2. "spawn --dry-run" \in DOMAIN Commands /\ Commands["spawn --dry-run"] = DryRunOptions
        BY CommandsAre DEF Names
      <4>3. "--dry-run" \in Commands["spawn --dry-run"].flags \cup Commands["spawn --dry-run"].valued
        BY <4>1, <4>2
      <4> QED BY <4>2, <4>3 DEF Options
    <3> QED BY <3>1, <3>2 DEF Alphabet
  <2>2. "--dry-run" \in Range(args) => SpawnCommand(args).does \notin {"start", "resume"}
    BY DEF SpawnCommand, Does, Usage
  <2>3. ASSUME NEW i \in DOMAIN args, args[i] = "--resume", SpawnCommand(args).does = "start"
        PROVE  i > 1 /\ args[i - 1] = "--agents"
    <3>1. PICK t : t = Scan(SpawnOptions, args)
      OBVIOUS
    <3>2. t = Parse("spawn", args)
      BY <3>1, CommandsAre DEF Parse
    <3>3. t.ok /\ t.values["--resume"] = Absent
      BY <2>3, <3>2 DEF SpawnCommand, Does, Usage
    <3>4. /\ Sound(SpawnOptions) /\ SpawnOptions.bare = {}
          /\ SpawnOptions.valued = {"--resume", "--agents"}
      <4>1. Sound(SpawnOptions)
        BY AllSound, CommandsAre DEF Names
      <4> QED BY <4>1 DEF SpawnOptions, Strictly, Command
    <3>5. i \in 1..Len(args)
      BY <2>1, <2>3
    <3>6. i - 1 \in 1..Len(args) /\ args[i - 1] \in SpawnOptions.valued \ {"--resume"}
      BY <2>1, <2>3, <3>1, <3>3, <3>4, <3>5, ValueGiven
    <3> QED BY <3>4, <3>5, <3>6
  <2> QED BY <2>2, <2>3
<1>3. ASSUME NEW args \in Seq(Tokens(MsgOptions) \cup {"god", "all"}), MsgCommand(args).does = "clear"
      PROVE  MsgCommand(args).whom \notin {"god", "all"}
  BY <1>3 DEF MsgCommand, Does, Usage, MultiTarget
<1> QED BY <1>1, <1>2, <1>3 DEF NeverWidens

-----------------------------------------------------------------------------
(* The lines the board composes. *)

(* What is known after each word of a short line, one word at a time. *)
LEMMA LineOfThree ==
    ASSUME NEW c, NEW args, Len(args) = 3, NEW s, s = AfterWord(c, args)
    PROVE  /\ Scan(c, args) = Finish(c, s[3]) /\ s[0] = NoWord(c)
           /\ s[1] = ScanWord(c, s[0], args[1])
           /\ s[2] = ScanWord(c, s[1], args[2])
           /\ s[3] = ScanWord(c, s[2], args[3])
<1>1. Len(args) \in Nat
  OBVIOUS
<1>2. /\ s[0] = NoWord(c)
      /\ \A k \in Nat : k < Len(args) => s[k + 1] = ScanWord(c, s[k], args[k + 1])
  BY <1>1, AfterEach
<1>3. /\ s[0 + 1] = ScanWord(c, s[0], args[0 + 1])
      /\ s[1 + 1] = ScanWord(c, s[1], args[1 + 1])
      /\ s[2 + 1] = ScanWord(c, s[2], args[2 + 1])
  BY <1>2
<1>4. Scan(c, args) = Finish(c, s[3])
  BY DEF Scan
<1> QED BY <1>2, <1>3, <1>4

(* The same for four words. *)
LEMMA LineOfFour ==
    ASSUME NEW c, NEW args, Len(args) = 4, NEW s, s = AfterWord(c, args)
    PROVE  /\ Scan(c, args) = Finish(c, s[4]) /\ s[0] = NoWord(c)
           /\ s[1] = ScanWord(c, s[0], args[1])
           /\ s[2] = ScanWord(c, s[1], args[2])
           /\ s[3] = ScanWord(c, s[2], args[3])
           /\ s[4] = ScanWord(c, s[3], args[4])
<1>1. Len(args) \in Nat
  OBVIOUS
<1>2. /\ s[0] = NoWord(c)
      /\ \A k \in Nat : k < Len(args) => s[k + 1] = ScanWord(c, s[k], args[k + 1])
  BY <1>1, AfterEach
<1>3. /\ s[0 + 1] = ScanWord(c, s[0], args[0 + 1])
      /\ s[1 + 1] = ScanWord(c, s[1], args[1 + 1])
      /\ s[2 + 1] = ScanWord(c, s[2], args[2 + 1])
      /\ s[3 + 1] = ScanWord(c, s[3], args[3 + 1])
  BY <1>2
<1>4. Scan(c, args) = Finish(c, s[4])
  BY DEF Scan
<1> QED BY <1>2, <1>3, <1>4

(* The same for five words. *)
LEMMA LineOfFive ==
    ASSUME NEW c, NEW args, Len(args) = 5, NEW s, s = AfterWord(c, args)
    PROVE  /\ Scan(c, args) = Finish(c, s[5]) /\ s[0] = NoWord(c)
           /\ s[1] = ScanWord(c, s[0], args[1])
           /\ s[2] = ScanWord(c, s[1], args[2])
           /\ s[3] = ScanWord(c, s[2], args[3])
           /\ s[4] = ScanWord(c, s[3], args[4])
           /\ s[5] = ScanWord(c, s[4], args[5])
<1>1. Len(args) \in Nat
  OBVIOUS
<1>2. /\ s[0] = NoWord(c)
      /\ \A k \in Nat : k < Len(args) => s[k + 1] = ScanWord(c, s[k], args[k + 1])
  BY <1>1, AfterEach
<1>3. /\ s[0 + 1] = ScanWord(c, s[0], args[0 + 1])
      /\ s[1 + 1] = ScanWord(c, s[1], args[1 + 1])
      /\ s[2 + 1] = ScanWord(c, s[2], args[2 + 1])
      /\ s[3 + 1] = ScanWord(c, s[3], args[3 + 1])
      /\ s[4 + 1] = ScanWord(c, s[4], args[4 + 1])
  BY <1>2
<1>4. Scan(c, args) = Finish(c, s[5])
  BY DEF Scan
<1> QED BY <1>2, <1>3, <1>4

(* What the board writes itself and the names of workers are no options. *)
LEMMA PlainWords == \A w \in {"run", "acknowledged", "x", "god", "all"} : ~IsOption(w)
<1> DEFINE Known ==
      {"--resume", "--agents", "--dry-run", "--name", "--role", "--brief", "--run", "--team",
       "--remove-worktrees", "--worker", "--json", "--attention", "--ack", "--unread", "--head",
       "--until", "--timeout", "--interval-secs", "--log-path"}
<1>1. ASSUME NEW n \in Names PROVE Commands[n].flags \cup Commands[n].valued \subseteq Known
  <2> USE DEF Command, Strictly
  <2>1. SpawnOptions.flags \cup SpawnOptions.valued \subseteq Known
    BY DEF SpawnOptions
  <2>2. DryRunOptions.flags \cup DryRunOptions.valued \subseteq Known
    BY DEF DryRunOptions
  <2>3. AdoptOptions.flags \cup AdoptOptions.valued \subseteq Known
    BY DEF AdoptOptions
  <2>4. KillOptions.flags \cup KillOptions.valued \subseteq Known
    BY DEF KillOptions
  <2>5. StatusOptions.flags \cup StatusOptions.valued \subseteq Known
    BY DEF StatusOptions
  <2>6. MsgOptions.flags \cup MsgOptions.valued \subseteq Known
    BY DEF MsgOptions
  <2>7. BoardOptions.flags \cup BoardOptions.valued \subseteq Known
    BY DEF BoardOptions
  <2>8. InboxOptions.flags \cup InboxOptions.valued \subseteq Known
    BY DEF InboxOptions
  <2>9. ReportOptions.flags \cup ReportOptions.valued \subseteq Known
    BY DEF ReportOptions
  <2>10. WaitOptions.flags \cup WaitOptions.valued \subseteq Known
    BY DEF WaitOptions
  <2>11. RecordOptions.flags \cup RecordOptions.valued \subseteq Known
    BY DEF RecordOptions
  <2>12. PaneBoardOptions.flags \cup PaneBoardOptions.valued \subseteq Known
    BY DEF PaneBoardOptions
  <2> HIDE DEF Known
  <2> QED BY <2>1, <2>2, <2>3, <2>4, <2>5, <2>6, <2>7, <2>8, <2>9, <2>10, <2>11, <2>12, CommandsAre
     DEF Names
<1>2. Options \subseteq Known
  <2> HIDE DEF Known
  <2> QED BY <1>1, CommandsAre DEF Options
<1> QED BY <1>2, JoinedIs DEF IsOption, Dash

(* The keys up and down stay on the board's rows and undo each other. *)
LEMMA RowsTurn == Rows
<1> SUFFICES ASSUME NEW count \in 1..4, NEW row \in 1..count
             PROVE  /\ Selected("up", row, count) \in 1..count
                    /\ Selected("down", Selected("up", row, count), count) = row
  BY DEF Rows
<1>1. count \in {1, 2, 3, 4} /\ row \in {1, 2, 3, 4} /\ row =< count
  OBVIOUS
<1> QED BY <1>1 DEF Selected

(* A word, and what is known after it. *)
LEMMA PlaceWord ==
    ASSUME NEW c, Sound(c), ~c.skips, NEW s \in State(c), s.wants = Absent,
           NEW w, ~Takes(c, w), NEW t, t = ScanWord(c, s, w)
    PROVE  /\ t.wants = Absent /\ t.flags = s.flags /\ t.values = s.values
           /\ t.ok <=> s.ok /\ ~IsOption(w)
           /\ ~IsOption(w) => t.places = Append(s.places, w)
<1>1. t = IF IsOption(w) THEN Refuse(s) ELSE [s EXCEPT !.places = Append(@, w)]
  <2>1. ScanWord(c, s, w) = IF c.skips THEN s ELSE IF IsOption(w) THEN Refuse(s)
                            ELSE [s EXCEPT !.places = Append(@, w)]
    BY ScanIs
  <2> QED BY <2>1
<1> QED BY <1>1 DEF State, Refuse

(* An option without a value. *)
LEMMA FlagWord ==
    ASSUME NEW c, Sound(c), NEW s \in State(c), s.wants = Absent,
           NEW w \in c.flags, NEW t, t = ScanWord(c, s, w)
    PROVE  /\ t.wants = Absent /\ t.values = s.values /\ t.places = s.places
           /\ t.ok <=> s.ok /\ w \notin c.once \cap s.flags
           /\ t.ok => t.flags = s.flags \cup {w}
<1>1. t = IF w \in c.once \cap s.flags THEN Refuse(s) ELSE [s EXCEPT !.flags = @ \cup {w}]
  BY ScanIs
<1> QED BY <1>1 DEF State, Refuse

(* An option with a value, whose value is next. *)
LEMMA OptionWord ==
    ASSUME NEW c, Sound(c), NEW s \in State(c), s.wants = Absent,
           NEW o \in c.valued, NEW t, t = ScanWord(c, s, o)
    PROVE  /\ t.wants = o /\ t.flags = s.flags /\ t.values = s.values /\ t.places = s.places
           /\ t.ok <=> s.ok
<1>1. t = [s EXCEPT !.wants = o]
  BY ScanIs
<1> QED BY <1>1 DEF State

(* The value of the option that waits for it. *)
LEMMA ValueWord ==
    ASSUME NEW c, Sound(c), NEW s \in State(c), NEW o \in c.valued, s.wants = o, o # Absent,
           NEW w, NEW t, t = ScanWord(c, s, w)
    PROVE  /\ t.flags = s.flags /\ t.places = s.places
           /\ t.ok <=> s.ok /\ ~(o \in c.once /\ s.values[o] # Absent) /\ <<o, w>> \notin c.refused
           /\ t.ok => /\ t.wants = Absent /\ t.values[o] = w
                      /\ \A p \in c.valued : p # o => t.values[p] = s.values[p]
<1> DEFINE wrong == (o \in c.once /\ s.values[o] # Absent) \/ <<o, w>> \in c.refused
<1>1. t = IF wrong THEN Refuse(s) ELSE [s EXCEPT !.wants = Absent, !.values[o] = w]
  <2>1. ScanWord(c, s, w) = SetOption(c, s, s.wants, w)
    BY ScanIs
  <2>2. t = SetOption(c, s, o, w)
    BY <2>1
  <2> QED BY <2>2 DEF SetOption
<1>2. s.values \in [c.valued -> Alphabet \cup {Absent}]
  BY DEF State
<1>3. CASE wrong
  <2>1. t = Refuse(s)
    BY <1>1, <1>3
  <2>2. t.flags = s.flags /\ t.places = s.places /\ t.ok = FALSE
    BY <2>1 DEF State, Refuse
  <2> QED BY <1>3, <2>2
<1>4. CASE ~wrong
  <2>1. t = [s EXCEPT !.wants = Absent, !.values[o] = w]
    BY <1>1, <1>4
  <2>2. /\ t.flags = s.flags /\ t.places = s.places /\ t.ok = s.ok /\ t.wants = Absent
        /\ t.values = [s.values EXCEPT ![o] = w]
    BY <2>1 DEF State
  <2>3. t.values[o] = w /\ \A p \in c.valued : p # o => t.values[p] = s.values[p]
    BY <1>2, <2>2
  <2>4. s.ok \in BOOLEAN
    BY DEF State
  <2> QED BY <1>4, <2>2, <2>3, <2>4
<1> QED BY <1>3, <1>4

(* A value changes no flag and no place, and a line that was refused stays so. *)
LEMMA ValueKeeps ==
    ASSUME NEW c, Sound(c), NEW s \in State(c), s.wants # Absent, NEW w, NEW t, t = ScanWord(c, s, w)
    PROVE  /\ t.flags = s.flags /\ t.places = s.places
           /\ t.ok => s.ok /\ t.wants = Absent
<1>1. PICK o \in c.valued : s.wants = o /\ o # Absent
  BY DEF State
<1>2. /\ t.flags = s.flags /\ t.places = s.places
      /\ t.ok <=> s.ok /\ ~(o \in c.once /\ s.values[o] # Absent) /\ <<o, w>> \notin c.refused
      /\ t.ok => /\ t.wants = Absent /\ t.values[o] = w
                 /\ \A p \in c.valued : p # o => t.values[p] = s.values[p]
  BY <1>1, ValueWord
<1> QED BY <1>2

(* A value that is taken is the value of that option and of no other. *)
LEMMA ValueSet ==
    ASSUME NEW c, Sound(c), NEW s \in State(c), s.wants # Absent, NEW w, NEW t, t = ScanWord(c, s, w), t.ok
    PROVE  /\ t.wants = Absent /\ t.values[s.wants] = w
           /\ \A p \in c.valued : p # s.wants => t.values[p] = s.values[p]
<1>1. PICK o \in c.valued : s.wants = o /\ o # Absent
  BY DEF State
<1>2. /\ t.flags = s.flags /\ t.places = s.places
      /\ t.ok <=> s.ok /\ ~(o \in c.once /\ s.values[o] # Absent) /\ <<o, w>> \notin c.refused
      /\ t.ok => /\ t.wants = Absent /\ t.values[o] = w
                 /\ \A p \in c.valued : p # o => t.values[p] = s.values[p]
  BY <1>1, ValueWord
<1> QED BY <1>1, <1>2

(* The key that kills takes the worker it was pressed for, even one named like an option. *)
LEMMA KillReaches ==
    ASSUME NEW worker \in Alphabet, NEW typed
    PROVE  BoardDoes("kill", worker, typed) = Does("kill worker", worker)
<1>1. PICK args : args = <<"run", "--worker", worker>>
  OBVIOUS
<1>2. PICK c : c = KillOptions
  OBVIOUS
<1>3. PICK s : s = AfterWord(c, args)
  OBVIOUS
<1>4. /\ Scan(c, args) = Finish(c, s[3]) /\ s[0] = NoWord(c)
      /\ s[1] = ScanWord(c, s[0], "run")
      /\ s[2] = ScanWord(c, s[1], "--worker")
      /\ s[3] = ScanWord(c, s[2], worker)
  <2>1. Len(args) = 3 /\ args[1] = "run" /\ args[2] = "--worker" /\ args[3] = worker
    BY <1>1
  <2> QED BY <1>3, <2>1, LineOfThree
<1>5. /\ Sound(c) /\ c.flags = {"--remove-worktrees"} /\ c.valued = {"--worker"} /\ c.bare = {}
      /\ c.needed = {} /\ c.refused = {} /\ c.places = {1} /\ ~c.skips
  <2>1. Sound(c)
    BY <1>2, AllSound, CommandsAre DEF Names
  <2> QED BY <1>2, <2>1 DEF KillOptions, Strictly, Command
<1>6. ~IsOption("run") /\ worker # Absent /\ "--worker" # Absent
  BY <1>5, PlainWords, CommandLineAssumption, WordKinds
<1>7. ~Takes(c, "run")
  BY <1>5, <1>6, WordKinds
<1>8. s[0] \in State(c) /\ s[1] \in State(c) /\ s[2] \in State(c) /\ s[3] \in State(c)
  <2>1. args \in Seq(Alphabet) /\ Len(args) = 3
    BY <1>1, <1>5, WordKinds DEF Alphabet
  <2>2. \A k \in 0..3 : s[k] \in State(c)
    BY <1>3, <1>5, <2>1, AfterTyped
  <2> QED BY <2>2
<1>9. /\ s[0].ok /\ s[0].wants = Absent /\ s[0].values["--worker"] = Absent
      /\ s[0].flags = {} /\ s[0].places = <<>>
  BY <1>4, <1>5 DEF NoWord
<1>10. /\ s[1].ok /\ s[1].wants = Absent /\ s[1].values["--worker"] = Absent
       /\ s[1].places = <<"run">>
  <2>1. /\ s[1].wants = Absent /\ s[1].values = s[0].values
        /\ s[1].ok <=> s[0].ok /\ ~IsOption("run")
        /\ s[1].places = Append(s[0].places, "run")
    <3>1. /\ Sound(c) /\ ~c.skips /\ s[0] \in State(c) /\ s[0].wants = Absent
          /\ s[1] = ScanWord(c, s[0], "run")
      BY <1>4, <1>5, <1>8, <1>9
    <3> QED BY <1>6, <1>7, <3>1, PlaceWord
  <2> QED BY <1>6, <1>9, <2>1
<1>11. /\ s[2].ok /\ s[2].wants = "--worker" /\ s[2].values["--worker"] = Absent
       /\ s[2].places = <<"run">>
  BY <1>4, <1>5, <1>8, <1>10, OptionWord
<1>12. /\ s[3].ok /\ s[3].wants = Absent /\ s[3].values["--worker"] = worker
       /\ s[3].places = <<"run">>
  <2>1. PICK o \in c.valued : o = "--worker"
    BY <1>5
  <2>2. /\ s[3].places = s[2].places
        /\ s[3].ok <=> s[2].ok /\ ~(o \in c.once /\ s[2].values[o] # Absent) /\ <<o, worker>> \notin c.refused
        /\ s[3].ok => s[3].wants = Absent /\ s[3].values[o] = worker
    <3>1. /\ Sound(c) /\ s[2] \in State(c) /\ o \in c.valued /\ s[2].wants = o /\ o # Absent
          /\ s[3] = ScanWord(c, s[2], worker)
      BY <1>4, <1>5, <1>6, <1>8, <1>11, <2>1
    <3> QED BY <3>1, ValueWord
  <2> QED BY <1>5, <1>11, <2>1, <2>2
<1>13. Finish(c, s[3]).ok /\ Finish(c, s[3]).values["--worker"] = worker
  BY <1>5, <1>6, <1>8, <1>12 DEF Finish, State
<1>14. Parse("kill", args) = Scan(c, args)
  BY <1>2, CommandsAre DEF Parse
<1>15. BoardDoes("kill", worker, typed) = KillCommand(args)
  BY <1>1 DEF BoardDoes, BoardLine
<1> QED BY <1>4, <1>6, <1>13, <1>14, <1>15 DEF KillCommand

(* The end of a line changes nothing but what an option that waits for its value has. *)
LEMMA FinishKeeps ==
    ASSUME NEW c, NEW s \in State(c), NEW t, t = Finish(c, s)
    PROVE  /\ t.ok => s.ok /\ Len(s.places) \in c.places /\ t.flags = s.flags /\ t.places = s.places
           /\ t.ok /\ s.wants = Absent /\ Absent \notin c.valued =>
                 \A o \in c.valued : t.values[o] = s.values[o]
           /\ s.ok /\ s.wants = Absent /\ Len(s.places) \in c.places /\ c.needed = {} => t.ok
<1> DEFINE fine == s.ok /\ s.wants \in c.bare \cup {Absent} /\ Len(s.places) \in c.places
           values == [o \in c.valued |-> IF o = s.wants THEN Absent ELSE s.values[o]]
<1>1. CASE ~fine
  BY <1>1 DEF Finish, Refuse, State
<1>2. CASE fine
  <2>1. t = [s EXCEPT !.wants = Absent, !.values = values,
                      !.ok = \A o \in c.needed : values[o] # Absent]
    BY <1>2 DEF Finish
  <2>2. t.flags = s.flags /\ t.places = s.places /\ t.values = values
    BY <2>1 DEF State
  <2>3. t.ok <=> \A o \in c.needed : values[o] # Absent
    BY <2>1 DEF State
  <2>4. s.wants = Absent /\ Absent \notin c.valued => \A o \in c.valued : values[o] = s.values[o]
    OBVIOUS
  <2> HIDE DEF values
  <2> QED BY <1>2, <2>2, <2>3, <2>4
<1> QED BY <1>1, <1>2

(* The options of msg, one by one. *)
LEMMA MsgIs ==
    LET c == MsgOptions IN
    /\ Sound(c) /\ c.flags = {"--attention", "--ack"} /\ c.valued = {"--run"}
    /\ c.once = {"--attention", "--ack", "--run"} /\ c.bare = {} /\ c.needed = {} /\ c.refused = {}
    /\ c.places = {2} /\ ~c.skips
<1>1. Sound(MsgOptions)
  BY AllSound, CommandsAre DEF Names
<1> QED BY <1>1 DEF MsgOptions, Strictly, Command

(* The options of adopt, one by one. *)
LEMMA AdoptIs ==
    LET c == AdoptOptions IN
    /\ Sound(c) /\ c.flags = {} /\ c.valued = {"--name", "--role", "--brief", "--run", "--team"}
    /\ c.bare = {} /\ c.needed = {"--name"} /\ c.places = {1} /\ ~c.skips
<1>1. Sound(AdoptOptions)
  BY AllSound, CommandsAre DEF Names
<1> QED BY <1>1 DEF AdoptOptions, Strictly, Command

(* The words of the lines. *)
LEMMA BoardWords ==
    /\ Words \cup {Dash, "run", "acknowledged"} \subseteq Alphabet
    /\ Anything \cup Tokens(MsgOptions) \cup Tokens(AdoptOptions) \subseteq Alphabet
    /\ \A c : Sound(c) => \A w \in Words \cup {Dash, "run", "acknowledged"} : ~Takes(c, w)
    /\ \A w \in Words \cup {"run", "acknowledged"} : ~IsOption(w)
<1>1. Tokens(MsgOptions) \subseteq Alphabet /\ Tokens(AdoptOptions) \subseteq Alphabet
  BY TokensAre, CommandsAre DEF Names
<1>2. \A w \in Words \cup {"run", "acknowledged"} : ~IsOption(w)
  BY PlainWords DEF Words
<1>3. ASSUME NEW c, Sound(c) PROVE ~Takes(c, Dash)
  BY <1>3, JoinedIs DEF Takes, Named, Dash, Sound
<1>4. ASSUME NEW c, Sound(c), NEW w \in Words \cup {"run", "acknowledged"} PROVE ~Takes(c, w)
  BY <1>2, <1>4, WordKinds
<1> QED BY <1>1, <1>2, <1>3, <1>4 DEF Alphabet, Anything

(* A line of the board that starts with a place. *)
LEMMA FirstPlace ==
    ASSUME NEW c, Sound(c), ~c.skips, NEW w \in Alphabet, ~Takes(c, w),
           NEW t, t = ScanWord(c, NoWord(c), w)
    PROVE  /\ t \in State(c) /\ t.wants = Absent /\ t.flags = {}
           /\ \A o \in c.valued : t.values[o] = Absent
           /\ t.ok <=> ~IsOption(w)
           /\ ~IsOption(w) => t.places = <<w>>
<1>1. PICK s : s = NoWord(c)
  OBVIOUS
<1>2. s \in State(c) /\ s.ok /\ s.wants = Absent /\ s.flags = {} /\ s.places = <<>>
  BY <1>1 DEF NoWord, State
<1>3. \A o \in c.valued : s.values[o] = Absent
  BY <1>1 DEF NoWord
<1>4. t = ScanWord(c, s, w) /\ t \in State(c)
  BY <1>1, <1>2, ScanTyped
<1>5. /\ t.wants = Absent /\ t.flags = s.flags /\ t.values = s.values
      /\ t.ok <=> s.ok /\ ~IsOption(w)
      /\ ~IsOption(w) => t.places = Append(s.places, w)
  BY <1>2, <1>4, PlaceWord
<1> QED BY <1>2, <1>3, <1>4, <1>5

(* Two places, the second added to the first. *)
LEMMA TwoPlaces ==
    ASSUME NEW A, NEW a \in A, NEW b \in A
    PROVE  Append(<<a>>, b) = <<a, b>> /\ <<a, b>>[1] = a
<1>1. <<a>> \in Seq(A) /\ <<a, b>> \in Seq(A)
  OBVIOUS
<1>2. Append(<<a>>, b) \in Seq(A) /\ Len(Append(<<a>>, b)) = Len(<<a, b>>)
  BY <1>1
<1>3. \A i \in 1..Len(<<a, b>>) : Append(<<a>>, b)[i] = <<a, b>>[i]
  BY <1>1
<1>4. Append(<<a>>, b) = <<a, b>>
  BY <1>1, <1>2, <1>3, SeqEqual
<1> QED BY <1>4

(* The key that acknowledges clears the worker it was pressed for, or does nothing. *)
LEMMA AcknowledgeReaches ==
    ASSUME NEW worker \in Words \cup {Dash}, NEW typed
    PROVE  BoardDoes("acknowledge", worker, typed) \in {Usage, Does("clear", worker)}
<1>1. PICK args : args = <<worker, "acknowledged", "--ack", "--run", "run">>
  OBVIOUS
<1>2. PICK c : c = MsgOptions
  OBVIOUS
<1>3. PICK s : s = AfterWord(c, args)
  OBVIOUS
<1>4. /\ Scan(c, args) = Finish(c, s[5]) /\ s[1] = ScanWord(c, NoWord(c), worker)
      /\ s[2] = ScanWord(c, s[1], "acknowledged")
      /\ s[3] = ScanWord(c, s[2], "--ack")
      /\ s[4] = ScanWord(c, s[3], "--run")
      /\ s[5] = ScanWord(c, s[4], "run")
  <2>1. /\ Len(args) = 5 /\ args[1] = worker /\ args[2] = "acknowledged" /\ args[3] = "--ack"
        /\ args[4] = "--run" /\ args[5] = "run"
    BY <1>1
  <2>2. /\ Scan(c, args) = Finish(c, s[5]) /\ s[0] = NoWord(c)
        /\ s[1] = ScanWord(c, s[0], args[1])
        /\ s[2] = ScanWord(c, s[1], args[2])
        /\ s[3] = ScanWord(c, s[2], args[3])
        /\ s[4] = ScanWord(c, s[3], args[4])
        /\ s[5] = ScanWord(c, s[4], args[5])
    BY <1>3, <2>1, LineOfFive
  <2> QED BY <2>1, <2>2
<1>5. /\ Sound(c) /\ ~c.skips /\ "--ack" \in c.flags /\ "--run" \in c.valued /\ Absent \notin c.valued
      /\ "--run" \in Alphabet /\ "--ack" \in Alphabet
  BY <1>2, MsgIs, WordKinds, CommandLineAssumption
<1>6. /\ worker \in Alphabet /\ "acknowledged" \in Alphabet /\ "run" \in Alphabet
      /\ ~Takes(c, worker) /\ ~Takes(c, "acknowledged") /\ "--run" # Absent
  BY <1>5, BoardWords
<1>7. /\ s[1] \in State(c) /\ s[1].wants = Absent /\ s[1].flags = {}
      /\ s[1].ok => s[1].places = <<worker>>
  BY <1>4, <1>5, <1>6, FirstPlace
<1>8. /\ s[2] \in State(c) /\ s[2].wants = Absent /\ s[2].flags = {}
      /\ s[2].ok => s[1].ok /\ s[2].places = Append(s[1].places, "acknowledged")
  <2>1. s[2] \in State(c)
    BY <1>4, <1>5, <1>6, <1>7, ScanTyped
  <2> QED BY <1>4, <1>5, <1>6, <1>7, <2>1, PlaceWord
<1>9. /\ s[3] \in State(c) /\ s[3].wants = Absent
      /\ s[3].ok => s[2].ok /\ s[3].places = s[2].places /\ s[3].flags = {"--ack"}
  <2>1. s[3] \in State(c)
    BY <1>4, <1>5, <1>8, ScanTyped
  <2>2. /\ s[3].wants = Absent /\ s[3].places = s[2].places
        /\ s[3].ok => s[2].ok /\ s[3].flags = s[2].flags \cup {"--ack"}
    BY <1>4, <1>5, <1>8, FlagWord
  <2> QED BY <1>8, <2>1, <2>2
<1>10. /\ s[4] \in State(c) /\ s[4].wants = "--run" /\ s[4].places = s[3].places
       /\ s[4].flags = s[3].flags /\ (s[4].ok => s[3].ok)
  <2>1. s[4] \in State(c)
    BY <1>4, <1>5, <1>9, ScanTyped
  <2> QED BY <1>4, <1>5, <1>9, <2>1, OptionWord
<1>11. /\ s[5] \in State(c) /\ s[5].places = s[4].places
       /\ s[5].flags = s[4].flags /\ (s[5].ok => s[4].ok)
  <2>1. s[5] \in State(c)
    BY <1>4, <1>5, <1>6, <1>10, ScanTyped
  <2>2. PICK o \in c.valued : o = "--run"
    BY <1>5
  <2>3. /\ Sound(c) /\ s[4] \in State(c) /\ o \in c.valued /\ s[4].wants = o /\ o # Absent
        /\ s[5] = ScanWord(c, s[4], "run")
    BY <1>4, <1>5, <1>6, <1>10, <2>2
  <2>4. s[5].places = s[4].places /\ s[5].flags = s[4].flags /\ (s[5].ok => s[4].ok)
    BY <2>3, ValueKeeps
  <2> QED BY <2>1, <2>4
<1>12. s[5].ok => s[5].flags = {"--ack"} /\ s[5].places[1] = worker
  <2> SUFFICES ASSUME s[5].ok PROVE s[5].flags = {"--ack"} /\ s[5].places[1] = worker
    OBVIOUS
  <2>1. s[5].flags = {"--ack"} /\ s[5].places = Append(<<worker>>, "acknowledged")
    BY <1>7, <1>8, <1>9, <1>10, <1>11
  <2> QED BY <2>1
<1>13. PICK t : t = Scan(c, args)
  OBVIOUS
<1>14. t.ok => t.flags = {"--ack"} /\ t.places[1] = worker
  BY <1>4, <1>11, <1>12, <1>13, FinishKeeps
<1>15. Parse("msg", args) = t
  BY <1>2, <1>13, CommandsAre DEF Parse
<1>16. BoardDoes("acknowledge", worker, typed) = MsgCommand(args)
  BY <1>1 DEF BoardDoes, BoardLine
<1>17. MsgCommand(args) \in {Usage, Does("clear", worker)}
  BY <1>14, <1>15 DEF MsgCommand
<1> QED BY <1>16, <1>17

(* The key that writes a message sends to the worker it was pressed for, or does nothing; it *)
(* sends what was typed when that looks like no option.                                     *)
LEMMA MessageReaches ==
    ASSUME NEW worker \in Words \cup {Dash}, NEW typed, typed[1] \in Alphabet
    PROVE  /\ BoardDoes("message", worker, typed) \in {Usage, Does("send", worker)}
           /\ ~IsOption(worker) /\ ~IsOption(typed[1]) =>
                 /\ BoardDoes("message", worker, typed).does = "send"
                 /\ Parse("msg", BoardLine("message", worker, typed)).places = <<worker, typed[1]>>
<1>0. PICK w \in Alphabet : w = typed[1]
  OBVIOUS
<1>1. PICK args : args = <<worker, w, "--run", "run">>
  OBVIOUS
<1>2. PICK c : c = MsgOptions
  OBVIOUS
<1>3. PICK s : s = AfterWord(c, args)
  OBVIOUS
<1>4. /\ Scan(c, args) = Finish(c, s[4]) /\ s[1] = ScanWord(c, NoWord(c), worker)
      /\ s[2] = ScanWord(c, s[1], w)
      /\ s[3] = ScanWord(c, s[2], "--run")
      /\ s[4] = ScanWord(c, s[3], "run")
  <2>1. Len(args) = 4 /\ args[1] = worker /\ args[2] = w /\ args[3] = "--run" /\ args[4] = "run"
    BY <1>1
  <2>2. /\ Scan(c, args) = Finish(c, s[4]) /\ s[0] = NoWord(c)
        /\ s[1] = ScanWord(c, s[0], args[1])
        /\ s[2] = ScanWord(c, s[1], args[2])
        /\ s[3] = ScanWord(c, s[2], args[3])
        /\ s[4] = ScanWord(c, s[3], args[4])
    BY <1>3, <2>1, LineOfFour
  <2> QED BY <2>1, <2>2
<1>5. /\ Sound(c) /\ ~c.skips /\ c.flags \cap c.valued = {} /\ c.valued = {"--run"} /\ Absent \notin c.valued
      /\ "--run" \in Alphabet /\ c.refused = {} /\ c.places = {2} /\ c.needed = {}
  BY <1>2, MsgIs, WordKinds, CommandLineAssumption DEF Sound
<1>6. /\ worker \in Alphabet /\ "run" \in Alphabet /\ ~Takes(c, worker) /\ ~Takes(c, "run")
      /\ ~IsOption("run") /\ "--run" # Absent /\ w # Absent
  BY <1>5, BoardWords, CommandLineAssumption
<1>7. PICK o \in c.valued : o = "--run"
  BY <1>5
<1>8. /\ s[1] \in State(c) /\ s[1].wants = Absent /\ s[1].flags = {}
      /\ \A p \in c.valued : s[1].values[p] = Absent
      /\ s[1].ok <=> ~IsOption(worker)
      /\ s[1].ok => s[1].places = <<worker>>
  BY <1>4, <1>5, <1>6, FirstPlace
<1>9. s[2] \in State(c) /\ s[3] \in State(c) /\ s[4] \in State(c)
      /\ (s[2].ok => s[1].ok) /\ (s[3].ok => s[2].ok) /\ (s[4].ok => s[3].ok)
  <2>1. s[2] \in State(c) /\ (s[2].ok => s[1].ok)
    BY <1>4, <1>5, <1>8, ScanTyped
  <2>2. s[3] \in State(c) /\ (s[3].ok => s[2].ok)
    BY <1>4, <1>5, <2>1, ScanTyped
  <2>3. s[4] \in State(c) /\ (s[4].ok => s[3].ok)
    <3>1. Sound(c) /\ s[3] \in State(c) /\ "run" \in Alphabet /\ s[4] = ScanWord(c, s[3], "run")
      BY <1>4, <1>5, <1>6, <2>2
    <3> QED BY <3>1, ScanTyped
  <2> QED BY <2>1, <2>2, <2>3
(* What is typed is the option: the name of the run is then a place. *)
<1>10. CASE w \in c.valued
  <2>1. w = o /\ s[2].wants = o /\ s[2].flags = s[1].flags /\ s[2].places = s[1].places
    BY <1>4, <1>5, <1>7, <1>8, <1>10, OptionWord
  <2>2. s[3].flags = s[2].flags /\ s[3].places = s[2].places /\ (s[3].ok => s[3].wants = Absent)
    <3>1. /\ Sound(c) /\ s[2] \in State(c) /\ o \in c.valued /\ s[2].wants = o /\ o # Absent
          /\ s[3] = ScanWord(c, s[2], "--run")
      BY <1>4, <1>5, <1>6, <1>7, <1>9, <2>1
    <3> QED BY <3>1, ValueKeeps
  <2>3. ASSUME s[3].ok PROVE s[4].flags = s[3].flags /\ s[4].places = Append(s[3].places, "run")
    BY <1>4, <1>5, <1>6, <1>9, <2>2, <2>3, PlaceWord
  <2>4. ASSUME s[4].ok PROVE s[4].flags = {} /\ s[4].places[1] = worker
    <3>1. s[4].flags = {} /\ s[4].places = Append(<<worker>>, "run")
      BY <1>8, <1>9, <2>1, <2>2, <2>3, <2>4
    <3> QED BY <3>1
  <2>5. IsOption(w)
    BY <1>5, <1>10, WordKinds
  <2>6. PICK t : t = Scan(c, args)
    OBVIOUS
  <2>7. t.ok => t.flags = {} /\ t.places[1] = worker
    BY <1>4, <1>9, <2>4, <2>6, FinishKeeps
  <2>8. Parse("msg", args) = t
    BY <1>2, <2>6, CommandsAre DEF Parse
  <2>9. BoardDoes("message", worker, typed) = MsgCommand(args)
    BY <1>0, <1>1 DEF BoardDoes, BoardLine
  <2>10. MsgCommand(args) \in {Usage, Does("send", worker)}
    BY <2>7, <2>8 DEF MsgCommand
  <2> QED BY <1>0, <2>5, <2>9, <2>10
(* It is another: there is no text. *)
<1>11. CASE w \in c.flags
  <2>1. s[2].wants = Absent /\ s[2].places = s[1].places
    BY <1>4, <1>5, <1>8, <1>11, FlagWord
  <2>2. s[3].wants = o /\ s[3].places = s[2].places
    BY <1>4, <1>5, <1>7, <1>9, <2>1, OptionWord
  <2>3. s[4].places = s[3].places
    <3>1. /\ Sound(c) /\ s[3] \in State(c) /\ o \in c.valued /\ s[3].wants = o /\ o # Absent
          /\ s[4] = ScanWord(c, s[3], "run")
      BY <1>4, <1>5, <1>6, <1>7, <1>9, <2>2
    <3> QED BY <3>1, ValueKeeps
  <2>4. PICK t : t = Scan(c, args)
    OBVIOUS
  <2>5. ~t.ok
    <3> SUFFICES ASSUME t.ok PROVE FALSE
      OBVIOUS
    <3>1. s[4].ok /\ Len(s[4].places) \in c.places
      BY <1>4, <1>9, <2>4, FinishKeeps
    <3>2. s[4].places = <<worker>>
      BY <1>8, <1>9, <2>1, <2>2, <2>3, <3>1
    <3> QED BY <1>5, <3>1, <3>2
  <2>6. IsOption(w)
    BY <1>5, <1>11, WordKinds
  <2>7. Parse("msg", args) = t
    BY <1>2, <2>4, CommandsAre DEF Parse
  <2>8. BoardDoes("message", worker, typed) = MsgCommand(args)
    BY <1>0, <1>1 DEF BoardDoes, BoardLine
  <2>9. MsgCommand(args) = Usage
    BY <2>5, <2>7 DEF MsgCommand
  <2> QED BY <1>0, <2>6, <2>8, <2>9
(* It is the text, unless it looks like an option. *)
<1>12. CASE ~Takes(c, w)
  <2>1. /\ s[2].wants = Absent /\ s[2].flags = s[1].flags /\ s[2].values = s[1].values
        /\ s[2].ok <=> s[1].ok /\ ~IsOption(w)
        /\ ~IsOption(w) => s[2].places = Append(s[1].places, w)
    BY <1>4, <1>5, <1>8, <1>12, PlaceWord
  <2>2. /\ s[3].wants = o /\ s[3].flags = s[2].flags /\ s[3].values = s[2].values
        /\ s[3].places = s[2].places /\ (s[3].ok <=> s[2].ok)
    BY <1>4, <1>5, <1>7, <1>9, <2>1, OptionWord
  <2>3. /\ s[4].flags = s[3].flags /\ s[4].places = s[3].places
        /\ s[4].ok <=> s[3].ok /\ ~(o \in c.once /\ s[3].values[o] # Absent) /\ <<o, "run">> \notin c.refused
        /\ s[4].ok => s[4].wants = Absent
    <3>1. /\ Sound(c) /\ s[3] \in State(c) /\ o \in c.valued /\ s[3].wants = o /\ o # Absent
          /\ s[4] = ScanWord(c, s[3], "run")
      BY <1>4, <1>5, <1>6, <1>7, <1>9, <2>2
    <3> QED BY <3>1, ValueWord
  <2>4. s[4].ok <=> s[1].ok /\ ~IsOption(w)
    BY <1>5, <1>8, <2>1, <2>2, <2>3
  <2>5. ASSUME s[4].ok PROVE s[4].flags = {} /\ s[4].places = <<worker, w>> /\ s[4].places[1] = worker
    <3>1. s[4].flags = {} /\ s[4].places = Append(<<worker>>, w)
      BY <1>8, <2>1, <2>2, <2>3, <2>4, <2>5
    <3>2. Append(<<worker>>, w) = <<worker, w>> /\ <<worker, w>>[1] = worker
      BY <1>6, TwoPlaces
    <3> QED BY <3>1, <3>2
  <2>6. PICK t : t = Scan(c, args)
    OBVIOUS
  <2>7. t.ok => s[4].ok /\ t.flags = s[4].flags /\ t.places = s[4].places
    BY <1>4, <1>9, <2>6, FinishKeeps
  <2>8. s[4].ok => t.ok
    <3> SUFFICES ASSUME s[4].ok PROVE t.ok
      OBVIOUS
    <3>1. Len(s[4].places) \in c.places
      BY <1>5, <2>5
    <3>2. s[4] \in State(c) /\ t = Finish(c, s[4]) /\ s[4].wants = Absent /\ c.needed = {}
      BY <1>4, <1>5, <1>9, <2>3, <2>6
    <3> QED BY <3>1, <3>2, FinishKeeps
  <2>9. Parse("msg", args) = t
    BY <1>2, <2>6, CommandsAre DEF Parse
  <2>10. BoardLine("message", worker, typed) = args
    BY <1>0, <1>1 DEF BoardLine
  <2>11. BoardDoes("message", worker, typed) = MsgCommand(args)
    BY <2>10 DEF BoardDoes
  <2>12. MsgCommand(args) = IF t.ok THEN Does("send", worker) ELSE Usage
    BY <2>5, <2>7, <2>9 DEF MsgCommand
  <2>13. ~IsOption(worker) /\ ~IsOption(w) => t.ok /\ t.places = <<worker, w>>
    BY <1>8, <2>4, <2>5, <2>7, <2>8
  <2>14. Does("send", worker).does = "send"
    BY DEF Does
  <2> QED BY <1>0, <2>9, <2>10, <2>11, <2>12, <2>13, <2>14
<1>13. Takes(c, w) => w \in c.valued \/ w \in c.flags
  <2>1. "--agents" \notin c.flags \cup c.valued
    BY <1>2, MsgIs
  <2> QED BY <2>1, JoinedIs DEF Takes, Named
<1> QED BY <1>10, <1>11, <1>12, <1>13

(* The key that adopts names the worker as was typed, or does nothing. *)
LEMMA AdoptReaches ==
    ASSUME NEW worker, NEW typed, typed[1] \in Alphabet, typed[2] \in Alphabet, ~IsOption(typed[1])
    PROVE  BoardDoes("adopt", worker, typed) \in {Usage, Does("adopt", typed[2])}
<1>0. PICK w \in Alphabet : w = typed[1]
  OBVIOUS
<1>1. PICK v \in Alphabet : v = typed[2]
  OBVIOUS
<1>2. PICK args : args = <<w, "--name", v, "--run", "run">>
  OBVIOUS
<1>3. PICK c : c = AdoptOptions
  OBVIOUS
<1>4. PICK s : s = AfterWord(c, args)
  OBVIOUS
<1>5. /\ Scan(c, args) = Finish(c, s[5]) /\ s[1] = ScanWord(c, NoWord(c), w)
      /\ s[2] = ScanWord(c, s[1], "--name")
      /\ s[3] = ScanWord(c, s[2], v)
      /\ s[4] = ScanWord(c, s[3], "--run")
      /\ s[5] = ScanWord(c, s[4], "run")
  <2>1. /\ Len(args) = 5 /\ args[1] = w /\ args[2] = "--name" /\ args[3] = v
        /\ args[4] = "--run" /\ args[5] = "run"
    BY <1>2
  <2>2. /\ Scan(c, args) = Finish(c, s[5]) /\ s[0] = NoWord(c)
        /\ s[1] = ScanWord(c, s[0], args[1])
        /\ s[2] = ScanWord(c, s[1], args[2])
        /\ s[3] = ScanWord(c, s[2], args[3])
        /\ s[4] = ScanWord(c, s[3], args[4])
        /\ s[5] = ScanWord(c, s[4], args[5])
    BY <1>4, <2>1, LineOfFive
  <2> QED BY <2>1, <2>2
<1>6. /\ Sound(c) /\ ~c.skips /\ "--name" \in c.valued /\ "--run" \in c.valued /\ Absent \notin c.valued
      /\ "--run" \in Alphabet /\ "--name" \in Alphabet
  BY <1>3, AdoptIs, WordKinds, CommandLineAssumption
<1>7. PICK name \in c.valued : name = "--name"
  BY <1>6
<1>8. PICK run \in c.valued : run = "--run"
  BY <1>6
<1>9. name # run /\ name # Absent /\ run # Absent /\ "run" \in Alphabet /\ ~Takes(c, w)
  BY <1>0, <1>6, <1>7, <1>8, BoardWords, WordKinds
<1>10. s[1] \in State(c) /\ s[1].wants = Absent
  BY <1>5, <1>6, <1>9, FirstPlace
<1>11. s[2] \in State(c) /\ s[3] \in State(c) /\ s[4] \in State(c) /\ s[5] \in State(c)
       /\ (s[4].ok => s[3].ok) /\ (s[5].ok => s[4].ok)
  <2>1. s[2] \in State(c)
    BY <1>5, <1>6, <1>10, ScanTyped
  <2>2. s[3] \in State(c)
    BY <1>5, <1>6, <2>1, ScanTyped
  <2>3. s[4] \in State(c) /\ (s[4].ok => s[3].ok)
    BY <1>5, <1>6, <2>2, ScanTyped
  <2>4. s[5] \in State(c) /\ (s[5].ok => s[4].ok)
    BY <1>5, <1>6, <1>9, <2>3, ScanTyped
  <2> QED BY <2>1, <2>2, <2>3, <2>4
<1>12. s[2].wants = name
  BY <1>5, <1>6, <1>7, <1>10, OptionWord
<1>13. s[3].ok => s[3].wants = Absent /\ s[3].values[name] = v
  <2> SUFFICES ASSUME s[3].ok PROVE s[3].wants = Absent /\ s[3].values[name] = v
    OBVIOUS
  <2>1. /\ Sound(c) /\ s[2] \in State(c) /\ name \in c.valued /\ s[2].wants = name /\ name # Absent
        /\ s[3] = ScanWord(c, s[2], v)
    BY <1>5, <1>6, <1>9, <1>11, <1>12
  <2> QED BY <2>1, ValueSet
<1>14. s[3].ok => s[4].wants = run /\ s[4].values = s[3].values
  BY <1>5, <1>6, <1>8, <1>11, <1>13, OptionWord
<1>15. s[5].ok => s[5].wants = Absent /\ s[5].values[name] = v
  <2> SUFFICES ASSUME s[5].ok PROVE s[5].wants = Absent /\ s[5].values[name] = v
    OBVIOUS
  <2>1. s[4].wants = run /\ s[4].values[name] = v
    BY <1>11, <1>13, <1>14
  <2>2. s[5].wants = Absent /\ \A p \in c.valued : p # run => s[5].values[p] = s[4].values[p]
    <3>1. /\ Sound(c) /\ s[4] \in State(c) /\ run \in c.valued /\ s[4].wants = run /\ run # Absent
          /\ s[5] = ScanWord(c, s[4], "run")
      BY <1>5, <1>6, <1>9, <1>11, <2>1
    <3> QED BY <3>1, ValueSet
  <2> QED BY <1>9, <2>1, <2>2
<1>16. PICK t : t = Scan(c, args)
  OBVIOUS
<1>17. t.ok => t.values["--name"] = v
  <2> SUFFICES ASSUME t.ok PROVE t.values[name] = v
    BY <1>7
  <2>1. s[5].ok
    BY <1>5, <1>11, <1>16, FinishKeeps
  <2>2. t.values[name] = s[5].values[name]
    BY <1>5, <1>6, <1>11, <1>15, <1>16, <2>1, FinishKeeps
  <2> QED BY <1>15, <2>1, <2>2
<1>18. Parse("adopt", args) = t
  BY <1>3, <1>16, CommandsAre DEF Parse
<1>19. BoardDoes("adopt", worker, typed) = AdoptCommand(args)
  BY <1>0, <1>1, <1>2 DEF BoardDoes, BoardLine
<1> QED BY <1>1, <1>17, <1>18, <1>19 DEF AdoptCommand

(* Whatever is typed after a key of the board, it reaches that worker or nobody. *)
LEMMA BoardKeysReach == BoardReaches
<1> SUFFICES ASSUME NEW worker \in Words \cup {Dash},
                    NEW typed \in [1..2 -> Anything \cup Tokens(MsgOptions) \cup Tokens(AdoptOptions)]
             PROVE  /\ BoardDoes("kill", worker, typed) = Does("kill worker", worker)
                    /\ BoardDoes("acknowledge", worker, typed) \in {Usage, Does("clear", worker)}
                    /\ BoardDoes("message", worker, typed) \in {Usage, Does("send", worker)}
                    /\ ~IsOption(worker) /\ ~IsOption(typed[1]) =>
                          /\ BoardDoes("message", worker, typed).does = "send"
                          /\ Parse("msg", BoardLine("message", worker, typed)).places = <<worker, typed[1]>>
                    /\ ~IsOption(typed[1]) =>
                          BoardDoes("adopt", worker, typed) \in {Usage, Does("adopt", typed[2])}
  BY DEF BoardReaches
<1>1. worker \in Alphabet /\ typed[1] \in Alphabet /\ typed[2] \in Alphabet
  BY BoardWords
<1> QED BY <1>1, KillReaches, AcknowledgeReaches, MessageReaches, AdoptReaches

(***************************************************************************)
(* Every command of the program takes exactly the lines, of any length,    *)
(* that can be read with each word an option, the value of one, or a       *)
(* place, and takes them for that reading; a line that names a worker      *)
(* never kills the run, one that asks for a dry run starts nothing, one    *)
(* that asks for a resume starts no second team, and the keys of the board *)
(* act on the worker they were pressed for.                                *)
(***************************************************************************)
THEOREM EveryLineIsReadAsWritten == CommandsRead(Seq)
<1>1. ASSUME NEW n \in DOMAIN Commands, NEW args \in Seq(Tokens(Commands[n]))
      PROVE  ReadsAsWritten(Commands[n], args)
  <2>1. Sound(Commands[n])
    BY AllSound
  <2>2. Tokens(Commands[n]) \subseteq Alphabet
    BY TokensAre
  <2>3. args \in Seq(Alphabet)
    BY <2>2
  <2> QED BY <2>1, <2>3, LinesRead
<1> QED BY <1>1, BoardKeysReach, RowsTurn, NothingWidens DEF CommandsRead

(* In particular the lines of up to four words. *)
LEMMA ShortLines == CommandsReadAsWritten
<1>1. \A words : Short(words) \subseteq Seq(words)
  <2> SUFFICES ASSUME NEW words, NEW line \in Short(words) PROVE line \in Seq(words)
    OBVIOUS
  <2>1. PICK m \in 0..4 : line \in [1..m -> words]
    BY DEF Short, SeqOf
  <2> QED BY <2>1
<1>2. NeverWidens(Seq) /\ \A n \in DOMAIN Commands : \A args \in Seq(Tokens(Commands[n])) :
          ReadsAsWritten(Commands[n], args)
  BY EveryLineIsReadAsWritten DEF CommandsRead
<1>3. NeverWidens(Short)
  BY <1>1, <1>2 DEF NeverWidens
<1> QED BY <1>1, <1>2, <1>3, BoardKeysReach, RowsTurn DEF CommandsReadAsWritten, CommandsRead

(***************************************************************************)
(* The command lines are read as they are written before any wait or       *)
(* report starts, and nothing that runs changes that.                      *)
(***************************************************************************)
THEOREM LinesAreRead == Spec => []ReadsCommandLines
<1>1. ReadsCommandLines
  BY ShortLines DEF ReadsCommandLines
<1> QED BY <1>1, PTL
=============================================================================
