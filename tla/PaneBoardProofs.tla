-------------------------- MODULE PaneBoardProofs --------------------------
(***************************************************************************)
(* What holds of PaneBoard for any number of teammates, boards, nudges and *)
(* messages, whatever fails and wherever a board dies: no entry of an      *)
(* inbox is lost to a writer that had not read it, except between a board  *)
(* and a client, a nudge that is not written is reported, and a nudge goes *)
(* where it was asked to unless the rows moved.                            *)
(***************************************************************************)
EXTENDS PaneBoard, SequenceTheorems, TLAPS

Files == SUBSET Entries

Holding(b) == pc[b] \in {"read", "write", "rename"}

-----------------------------------------------------------------------------
(* The inductive invariant behind NothingLost. *)

Steps == {"idle", "look", "lock", "read", "write", "rename", "quit", "dead"}

(* A nudge under way has a number and somebody to go to. *)
Addressed == \A b \in Boards : Busy(b) => nudge[b].to \in Agents /\ nudge[b].n \in 1..MaxNudges

Sending ==
    /\ pc \in [Boards -> Steps]
    /\ nudge \in [Boards -> [n : 0..MaxNudges, to : Agents \cup {None},
         asked : Agents \cup {None}]]

Shape ==
    /\ inbox \in [Agents -> {Absent, Malformed} \cup Files]
    /\ lock \in [Agents -> {None} \cup Boards]
    /\ copy \in [Boards -> Files]
    /\ client \in [Agents -> {Absent} \cup Files]
    /\ written \in [Agents -> Files] /\ pruned \in [Agents -> Files]
    /\ clashed \in [Agents -> Files]
    /\ said \in 0..MaxMessages

(* A board has the lock of its nudge's inbox exactly while it rewrites it. *)
Locks == \A a \in Agents, b \in Boards : lock[a] = b <=> nudge[b].to = a /\ Holding(b)

(* Two files that agree on all that has not clashed. *)
Agree(a, s, t) == s \ clashed[a] = t \ clashed[a]

(* A board that is to replace an inbox has it as it is, *)
BoardIsFresh ==
    \A b \in Boards :
        /\ pc[b] = "write" => /\ inbox[nudge[b].to] \in Files
                              /\ Agree(nudge[b].to, copy[b], inbox[nudge[b].to])
        /\ pc[b] = "rename" => /\ inbox[nudge[b].to] \in Files /\ Entry(b) \in copy[b]
                               /\ Agree(nudge[b].to, copy[b], inbox[nudge[b].to] \cup {Entry(b)})

(* and so has a client, but for what has clashed. *)
ClientIsFresh ==
    \A a \in Agents : client[a] # Absent =>
        inbox[a] \in Files /\ client[a] \in Files /\ Agree(a, client[a], inbox[a])

(* Nothing is written where there is nothing to extend. *)
NothingElsewhere == \A a \in Agents : inbox[a] \in {Absent, Malformed} => written[a] = {}

(* Where the rows and the overlay come from. *)
Panels == {NoOverlay, Error} \cup [kind : {"confirm"}, index : Nat \ {0}, asked : Agents]

Drawn ==
    /\ team \in Seq(Agents) /\ rows \in [Boards -> Seq(Agents)]
    /\ selected \in [Boards -> Nat \ {0}]
    /\ overlay \in [Boards -> Panels]
    /\ shifted \in [Boards -> BOOLEAN]

(* An overlay names its row, as long as the rows have not moved. *)
OverlayNamesRow ==
    \A b \in Boards : overlay[b].kind = "confirm" /\ ~shifted[b] =>
        overlay[b].index <= Len(rows[b]) /\ rows[b][overlay[b].index] = overlay[b].asked

(* The overlay is gone when the nudge is sent. *)
Uncovered == \A b \in Boards : Busy(b) => overlay[b].kind # "confirm"

Fresh == BoardIsFresh /\ ClientIsFresh
Kept == NothingElsewhere /\ NothingLost
Chosen == OverlayNamesRow /\ Uncovered /\ ChosenUnlessShifted

IInv == Sending /\ Addressed /\ Shape /\ Drawn /\ Locks /\ Fresh /\ Kept /\ Chosen

-----------------------------------------------------------------------------
(* Rows and their numbers. *)

LEMMA MaxOfTwo == ASSUME NEW n \in Nat PROVE Max({1, n}) \in Nat \ {0}
<1>1. \E x \in {1, n} : \A y \in {1, n} : x >= y
  BY SMT
<1>2. Max({1, n}) \in {1, n} /\ \A y \in {1, n} : Max({1, n}) >= y
  BY <1>1, Zenon DEF Max
<1> QED BY <1>2, SMT

LEMMA MinOfTwo == ASSUME NEW m \in Nat \ {0}, NEW n \in Nat \ {0} PROVE Min({m,
     n}) \in Nat \ {0}
<1>1. \E x \in {m, n} : \A y \in {m, n} : x =< y
  BY SMT
<1>2. Min({m, n}) \in {m, n}
  BY <1>1, Zenon DEF Min
<1> QED BY <1>2, SMT

LEMMA EntryIsOne == Sending /\ Addressed => \A b \in Boards : Busy(b) => {Entry(b)} \in Files
BY SMT DEF Sending, Addressed, Files, Entries, Entry, Steps, Busy

(* What a board does to its nudge when the append is over. *)
Forgets(b) == nudge' = [nudge EXCEPT ![b] = [n |-> @.n, to |-> None, asked |-> None]]

LEMMA ForgetsKeeps ==
    ASSUME Sending, Addressed, NEW b \in Boards, pc' = [pc EXCEPT ![b] = "idle"], Forgets(b)
    PROVE  Sending' /\ Addressed'
BY DEF Sending, Addressed, Busy, Forgets, Steps

LEMMA ForwardKeeps ==
    ASSUME Sending, Addressed, NEW b \in Boards, Busy(b), UNCHANGED nudge,
           NEW p \in Steps, pc' = [pc EXCEPT ![b] = p]
    PROVE  Sending' /\ Addressed'
BY DEF Sending, Addressed, Busy, Steps

LEMMA NextMessage ==
    ASSUME said \in 0..MaxMessages, said < MaxMessages
    PROVE  {<<"teammate", said + 1>>} \in Files
BY PaneBoardAssumption DEF Files, Entries

LEMMA RowsOfTeam ==
    ASSUME NEW s \in Seq(Agents)
    PROVE  /\ \A a \in Agents : Append(s, a) \in Seq(Agents)
           /\ \A i \in DOMAIN s : RemoveAt(s, i) \in Seq(Agents)
<1>1. ASSUME NEW i \in DOMAIN s PROVE RemoveAt(s, i) \in Seq(Agents)
  <2>1. SubSeq(s, 1, i - 1) \in Seq(Agents)
    BY SubSeqProperties, SMT
  <2>2. SubSeq(s, i + 1, Len(s)) \in Seq(Agents)
    BY SubSeqProperties, SMT
  <2> QED BY <2>1, <2>2, ConcatProperties DEF RemoveAt
<1> QED BY <1>1, AppendProperties

LEMMA TeamStaysAList == ASSUME team \in Seq(Agents), TeamChanges PROVE team' \in Seq(Agents)
<1>1. CASE \E a \in Agents : team' = Append(team, a)
  BY <1>1, RowsOfTeam
<1>2. CASE \E i \in DOMAIN team : team' = RemoveAt(team, i)
  BY <1>2, RowsOfTeam
<1> QED BY <1>1, <1>2 DEF TeamChanges

-----------------------------------------------------------------------------
(* What a step keeps, one lemma for each part of the invariant. *)

(* A step leaves every board somewhere, its nudge with a number and a teammate. *)
LEMMA StepKeepsSending ==
    ASSUME Sending, Addressed, Drawn, [Next]_vars
    PROVE  Sending' /\ Addressed'
<1> USE PaneBoardAssumption DEF Sending, Addressed, Steps, Busy, NoOverlay, Error, vars,
     board, others
<1>0. /\ rows \in [Boards -> Seq(Agents)]
      /\ \A b \in Boards : overlay[b].kind = "confirm" => overlay[b]
            \in [kind : {"confirm"}, index : Nat \ {0}, asked : Agents]
  BY DEF Drawn, Panels, NoOverlay, Error
<1>1. ASSUME NEW b \in Boards, Refresh(b) PROVE Sending' /\ Addressed'
  BY <1>1, <1>0 DEF Refresh, Idle, ClampSelection
<1>2. ASSUME NEW b \in Boards, Up(b) PROVE Sending' /\ Addressed'
  BY <1>2, <1>0 DEF Up, Idle
<1>3. ASSUME NEW b \in Boards, Down(b) PROVE Sending' /\ Addressed'
  BY <1>3, <1>0 DEF Down, Idle
<1>4. ASSUME NEW b \in Boards, AskNudge(b) PROVE Sending' /\ Addressed'
  BY <1>4, <1>0 DEF AskNudge, Idle
<1>5. ASSUME NEW b \in Boards, Dismiss(b) PROVE Sending' /\ Addressed'
  BY <1>5, <1>0 DEF Dismiss, Idle
<1>6. ASSUME NEW b \in Boards, Confirm(b) PROVE Sending' /\ Addressed'
  <2>1. CASE overlay[b].index <= Len(rows[b])
    <3> DEFINE row == rows[b][overlay[b].index]
    <3>1. row \in Agents /\ overlay[b].asked \in Agents
      BY <2>1, <1>0, <1>6 DEF Confirm
    <3>2. nudge[b].n + 1 \in 1..MaxNudges
      BY <1>6 DEF Confirm
    <3>3. /\ pc' = [pc EXCEPT ![b] = "look"]
          /\ nudge' = [nudge EXCEPT ![b] = [n |-> @.n + 1, to |-> row,
               asked |-> overlay[b].asked]]
      BY <2>1, <1>6 DEF Confirm
    <3> HIDE DEF row
    <3> QED BY <3>1, <3>2, <3>3
  <2> QED BY <2>1, <1>6 DEF Confirm
<1>7. ASSUME NEW b \in Boards, Quit(b) PROVE Sending' /\ Addressed'
  BY <1>7, <1>0 DEF Quit, Idle
<1>8. ASSUME NEW b \in Boards, LookForInbox(b) PROVE Sending' /\ Addressed'
  <2>1. CASE Leaves(b, "look", "idle")
    BY <2>1, ForgetsKeeps DEF Leaves, Forgets
  <2>2. CASE At(b, "look", "lock")
    BY <2>2, ForwardKeeps DEF At
  <2> QED BY <2>1, <2>2, <1>8 DEF LookForInbox, Fails
<1>9. ASSUME NEW b \in Boards, AcquireLock(b) PROVE Sending' /\ Addressed'
  <2>1. CASE Leaves(b, "lock", "idle")
    BY <2>1, ForgetsKeeps DEF Leaves, Forgets
  <2>2. CASE At(b, "lock", "read")
    BY <2>2, ForwardKeeps DEF At
  <2>3. CASE At(b, "lock", "lock")
    BY <2>3, ForwardKeeps DEF At
  <2> QED BY <2>1, <2>2, <2>3, <1>9 DEF AcquireLock, Fails, LockContention
<1>10. ASSUME NEW b \in Boards, ReadInbox(b) PROVE Sending' /\ Addressed'
  <2>1. CASE Leaves(b, "read", "idle")
    BY <2>1, ForgetsKeeps DEF Leaves, Forgets
  <2>2. CASE At(b, "read", "write")
    BY <2>2, ForwardKeeps DEF At
  <2> QED BY <2>1, <2>2, <1>10 DEF ReadInbox, Fails
<1>11. ASSUME NEW b \in Boards, WriteCopy(b) PROVE Sending' /\ Addressed'
  <2>1. CASE Leaves(b, "write", "idle")
    BY <2>1, ForgetsKeeps DEF Leaves, Forgets
  <2>2. CASE At(b, "write", "rename")
    BY <2>2, ForwardKeeps DEF At
  <2> QED BY <2>1, <2>2, <1>11 DEF WriteCopy, Fails
<1>12. ASSUME NEW b \in Boards, Rename(b) PROVE Sending' /\ Addressed'
  <2>1. CASE Leaves(b, "rename", "idle")
    BY <2>1, ForgetsKeeps DEF Leaves, Forgets
  <2> QED BY <2>1, <1>12 DEF Rename, Fails
<1>13. ASSUME NEW b \in Boards, Die(b) PROVE Sending' /\ Addressed'
  BY <1>13, <1>0 DEF Die, Leaves, Busy
<1>14. CASE TeamChanges
  BY <1>14, <1>0 DEF TeamChanges
<1>15. ASSUME NEW a \in Agents, ClientCreates(a) PROVE Sending' /\ Addressed'
  BY <1>15, <1>0 DEF ClientCreates
<1>16. ASSUME NEW a \in Agents, ClientReads(a) PROVE Sending' /\ Addressed'
  BY <1>16, <1>0 DEF ClientReads
<1>17. ASSUME NEW a \in Agents, ClientWrites(a) PROVE Sending' /\ Addressed'
  BY <1>17, <1>0 DEF ClientWrites
<1>18. CASE UNCHANGED vars
  BY <1>18
<1> QED BY <1>1, <1>2, <1>3, <1>4, <1>5, <1>6, <1>7, <1>8, <1>9, <1>10, <1>11, <1>12,
     <1>13, <1>14, <1>15, <1>16, <1>17, <1>18 DEF Next

(* A step leaves every file, copy and lock among its values. *)
LEMMA StepKeepsShape ==
    ASSUME Sending, Addressed, Shape, Fresh, [Next]_vars
    PROVE  Shape'
<1> USE PaneBoardAssumption DEF Sending, Addressed, Shape, Files, Busy, NoOverlay, Error,
     vars, board, others
<1>1. ASSUME NEW b \in Boards, Refresh(b) PROVE Shape'
  BY <1>1 DEF Refresh, Idle, ClampSelection
<1>2. ASSUME NEW b \in Boards, Up(b) PROVE Shape'
  BY <1>2 DEF Up, Idle
<1>3. ASSUME NEW b \in Boards, Down(b) PROVE Shape'
  BY <1>3 DEF Down, Idle
<1>4. ASSUME NEW b \in Boards, AskNudge(b) PROVE Shape'
  BY <1>4 DEF AskNudge, Idle
<1>5. ASSUME NEW b \in Boards, Dismiss(b) PROVE Shape'
  BY <1>5 DEF Dismiss, Idle
<1>6. ASSUME NEW b \in Boards, Confirm(b) PROVE Shape'
  BY <1>6 DEF Confirm, Idle
<1>7. ASSUME NEW b \in Boards, Quit(b) PROVE Shape'
  BY <1>7 DEF Quit, Idle
<1>8. ASSUME NEW b \in Boards, LookForInbox(b) PROVE Shape'
  BY <1>8 DEF LookForInbox, At, Leaves, Fails
<1>9. ASSUME NEW b \in Boards, AcquireLock(b) PROVE Shape'
  <2>1. nudge[b].to \in Agents
    BY <1>9 DEF AcquireLock, At, Leaves, Fails, LockContention
  <2>2. lock' \in [Agents -> {None} \cup Boards]
    BY <2>1, <1>9 DEF AcquireLock, At, Leaves, Fails, LockContention
  <2> QED BY <2>2, <1>9 DEF AcquireLock, At, Leaves, Fails, LockContention
<1>10. ASSUME NEW b \in Boards, ReadInbox(b) PROVE Shape'
  BY <1>10, SMTT(20) DEF ReadInbox, At, Leaves, Fails
<1>11. ASSUME NEW b \in Boards, WriteCopy(b) PROVE Shape'
  <2>1. {Entry(b)} \in Files
    BY <1>11, EntryIsOne DEF WriteCopy, At, Leaves, Fails
  <2> HIDE DEF Entry
  <2>2. copy' \in [Boards -> Files]
    BY <2>1, <1>11 DEF WriteCopy, At, Leaves, Fails
  <2> QED BY <2>2, <1>11 DEF WriteCopy, At, Leaves, Fails
<1>12. ASSUME NEW b \in Boards, Rename(b) PROVE Shape'
  <2>1. {Entry(b)} \in Files /\ nudge[b].to \in Agents
    BY <1>12, EntryIsOne DEF Rename, At, Leaves, Fails
  <2>2. inbox' \in [Agents -> {Absent, Malformed} \cup Files]
    BY <2>1, <1>12 DEF Rename, At, Leaves, Fails
  <2>3. written[nudge[b].to] \cup {Entry(b)} \in Files
    BY <2>1
  <2> HIDE DEF Files
  <2>4. written' \in [Agents -> Files]
    BY <2>1, <2>3, <1>12, ZenonT(40) DEF Rename, At, Leaves, Fails
  <2> USE DEF Files
  <2>5. clashed[nudge[b].to] \cup {Entry(b)} \in Files
    BY <2>1
  <2> HIDE DEF Files, Entry
  <2>6. clashed' \in [Agents -> Files]
    BY <2>1, <2>5, <1>12 DEF Rename, At, Leaves, Fails
  <2> USE DEF Files
  <2> QED BY <2>2, <2>4, <2>6, <1>12 DEF Rename, At, Leaves, Fails
<1>13. ASSUME NEW b \in Boards, Die(b) PROVE Shape'
  BY <1>13 DEF Die, Leaves, Busy
<1>14. CASE TeamChanges
  BY <1>14 DEF TeamChanges
<1>15. ASSUME NEW a \in Agents, ClientCreates(a) PROVE Shape'
  BY <1>15 DEF ClientCreates
<1>16. ASSUME NEW a \in Agents, ClientReads(a) PROVE Shape'
  BY <1>16 DEF ClientReads
<1>17. ASSUME NEW a \in Agents, ClientWrites(a) PROVE Shape'
  <2>1. said < MaxMessages => {<<"teammate", said + 1>>} \in Files
    BY NextMessage
  <2>2. client[a] \in Files
    BY <1>17 DEF ClientWrites
  <2>3. ASSUME NEW s \in Files, Clash(a, s) PROVE clashed' \in [Agents -> Files]
    <3>1. clashed[a] \cup s \in Files
      BY <2>3
    <3> HIDE DEF Files
    <3> QED BY <3>1, <2>3 DEF Clash
  <2>4. CASE /\ said < MaxMessages /\ said' = said + 1 /\ UNCHANGED pruned
             /\ inbox' = [inbox EXCEPT ![a] = client[a] \cup {<<"teammate", said'>>}]
             /\ written' = [written EXCEPT ![a] = @ \cup {<<"teammate", said'>>}]
             /\ Clash(a, {<<"teammate", said'>>})
    <3>1. /\ {<<"teammate", said'>>} \in Files
          /\ client[a] \cup {<<"teammate", said'>>} \in Files
          /\ written[a] \cup {<<"teammate", said'>>} \in Files
      BY <2>1, <2>2, <2>4
    <3>2. said' \in 0..MaxMessages
      BY <2>4
    <3>3. clashed' \in [Agents -> Files]
      BY <3>1, <2>3, <2>4
    <3> HIDE DEF Files
    <3> QED BY <3>1, <3>2, <3>3, <2>4, <1>17 DEF ClientWrites
  <2>5. CASE /\ UNCHANGED <<said, written>>
             /\ inbox' = [inbox EXCEPT ![a] = {}]
             /\ pruned' = [pruned EXCEPT ![a] = @ \cup client[a]]
             /\ Clash(a, client[a])
    <3>1. {} \in Files /\ pruned[a] \cup client[a] \in Files
      BY <2>2
    <3>2. clashed' \in [Agents -> Files]
      BY <2>2, <2>3, <2>5
    <3> HIDE DEF Files
    <3> QED BY <3>1, <3>2, <2>5, <1>17 DEF ClientWrites
  <2> QED BY <2>4, <2>5, <1>17 DEF ClientWrites
<1>18. CASE UNCHANGED vars
  BY <1>18
<1> QED BY <1>1, <1>2, <1>3, <1>4, <1>5, <1>6, <1>7, <1>8, <1>9, <1>10, <1>11, <1>12,
     <1>13, <1>14, <1>15, <1>16, <1>17, <1>18 DEF Next

(* A step leaves rows, selection and overlay among theirs. *)
LEMMA StepKeepsDrawn ==
    ASSUME Drawn, [Next]_vars
    PROVE  Drawn'
<1> USE PaneBoardAssumption DEF Drawn, Panels, NoOverlay, Error, vars, board, others
<1>1. ASSUME NEW b \in Boards, Refresh(b) PROVE Drawn'
  <2>1. rows' \in [Boards -> Seq(Agents)] /\ Len(rows'[b]) \in Nat
    BY <1>1 DEF Refresh, Idle
  <2>2. selected' \in [Boards -> Nat \ {0}]
    BY <2>1, <1>1, MaxOfTwo DEF Refresh, ClampSelection
  <2> QED BY <2>1, <2>2, <1>1 DEF Refresh, Idle
<1>2. ASSUME NEW b \in Boards, Up(b) PROVE Drawn'
  <2>1. selected[b] - 1 \in Nat
    OBVIOUS
  <2>2. selected' \in [Boards -> Nat \ {0}]
    BY <2>1, <1>2, MaxOfTwo DEF Up
  <2> QED BY <2>2, <1>2 DEF Up, Idle
<1>3. ASSUME NEW b \in Boards, Down(b) PROVE Drawn'
  <2>1. Len(rows[b]) \in Nat \ {0} /\ selected[b] + 1 \in Nat \ {0}
    BY <1>3 DEF Down
  <2>2. selected' \in [Boards -> Nat \ {0}]
    BY <2>1, <1>3, MinOfTwo DEF Down
  <2> QED BY <2>2, <1>3 DEF Down, Idle
<1>4. ASSUME NEW b \in Boards, AskNudge(b) PROVE Drawn'
  BY <1>4 DEF AskNudge, Idle
<1>5. ASSUME NEW b \in Boards, Dismiss(b) PROVE Drawn'
  BY <1>5 DEF Dismiss, Idle
<1>6. ASSUME NEW b \in Boards, Confirm(b) PROVE Drawn'
  BY <1>6 DEF Confirm, Idle
<1>7. ASSUME NEW b \in Boards, Quit(b) PROVE Drawn'
  BY <1>7 DEF Quit, Idle
<1>8. ASSUME NEW b \in Boards, LookForInbox(b) PROVE Drawn'
  BY <1>8 DEF LookForInbox, At, Leaves, Fails
<1>9. ASSUME NEW b \in Boards, AcquireLock(b) PROVE Drawn'
  BY <1>9 DEF AcquireLock, At, Leaves, Fails, LockContention
<1>10. ASSUME NEW b \in Boards, ReadInbox(b) PROVE Drawn'
  BY <1>10 DEF ReadInbox, At, Leaves, Fails
<1>11. ASSUME NEW b \in Boards, WriteCopy(b) PROVE Drawn'
  BY <1>11 DEF WriteCopy, At, Leaves, Fails
<1>12. ASSUME NEW b \in Boards, Rename(b) PROVE Drawn'
  BY <1>12 DEF Rename, At, Leaves, Fails
<1>13. ASSUME NEW b \in Boards, Die(b) PROVE Drawn'
  BY <1>13 DEF Die, Leaves, Busy
<1>14. CASE TeamChanges
  <2>1. team' \in Seq(Agents)
    BY <1>14, TeamStaysAList
  <2> QED BY <2>1, <1>14 DEF TeamChanges
<1>15. ASSUME NEW a \in Agents, ClientCreates(a) PROVE Drawn'
  BY <1>15 DEF ClientCreates
<1>16. ASSUME NEW a \in Agents, ClientReads(a) PROVE Drawn'
  BY <1>16 DEF ClientReads
<1>17. ASSUME NEW a \in Agents, ClientWrites(a) PROVE Drawn'
  BY <1>17 DEF ClientWrites
<1>18. CASE UNCHANGED vars
  BY <1>18
<1> QED BY <1>1, <1>2, <1>3, <1>4, <1>5, <1>6, <1>7, <1>8, <1>9, <1>10, <1>11, <1>12,
     <1>13, <1>14, <1>15, <1>16, <1>17, <1>18 DEF Next

(* A lock changes hands only through its holder. *)
LEMMA StepKeepsLocks ==
    ASSUME Sending, Addressed, Shape, Locks, [Next]_vars
    PROVE  Locks'
<1> USE PaneBoardAssumption DEF Sending, Addressed, Locks, Holding, Busy, Steps, vars,
     board, others
<1>0. lock \in [Agents -> {None} \cup Boards]
  BY DEF Shape
<1>1. ASSUME NEW b \in Boards, Refresh(b) PROVE Locks'
  BY <1>1, <1>0 DEF Refresh, Idle, ClampSelection
<1>2. ASSUME NEW b \in Boards, Up(b) PROVE Locks'
  BY <1>2, <1>0 DEF Up, Idle
<1>3. ASSUME NEW b \in Boards, Down(b) PROVE Locks'
  BY <1>3, <1>0 DEF Down, Idle
<1>4. ASSUME NEW b \in Boards, AskNudge(b) PROVE Locks'
  BY <1>4, <1>0 DEF AskNudge, Idle
<1>5. ASSUME NEW b \in Boards, Dismiss(b) PROVE Locks'
  BY <1>5, <1>0 DEF Dismiss, Idle
<1>6. ASSUME NEW b \in Boards, Confirm(b) PROVE Locks'
  BY <1>6, <1>0 DEF Confirm, Idle
<1>7. ASSUME NEW b \in Boards, Quit(b) PROVE Locks'
  BY <1>7, <1>0 DEF Quit, Idle
<1>8. ASSUME NEW b \in Boards, LookForInbox(b) PROVE Locks'
  BY <1>8, <1>0 DEF LookForInbox, At, Leaves, Fails
<1>9. ASSUME NEW b \in Boards, AcquireLock(b) PROVE Locks'
  BY <1>9, <1>0 DEF AcquireLock, At, Leaves, Fails, LockContention
<1>10. ASSUME NEW b \in Boards, ReadInbox(b) PROVE Locks'
  BY <1>10, <1>0 DEF ReadInbox, At, Leaves, Fails
<1>11. ASSUME NEW b \in Boards, WriteCopy(b) PROVE Locks'
  BY <1>11, <1>0 DEF WriteCopy, At, Leaves, Fails
<1>12. ASSUME NEW b \in Boards, Rename(b) PROVE Locks'
  BY <1>12, <1>0 DEF Rename, At, Leaves, Fails
<1>13. ASSUME NEW b \in Boards, Die(b) PROVE Locks'
  BY <1>13, <1>0 DEF Die, Leaves, Busy
<1>14. CASE TeamChanges
  BY <1>14, <1>0 DEF TeamChanges
<1>15. ASSUME NEW a \in Agents, ClientCreates(a) PROVE Locks'
  BY <1>15, <1>0 DEF ClientCreates
<1>16. ASSUME NEW a \in Agents, ClientReads(a) PROVE Locks'
  BY <1>16, <1>0 DEF ClientReads
<1>17. ASSUME NEW a \in Agents, ClientWrites(a) PROVE Locks'
  BY <1>17, <1>0 DEF ClientWrites
<1>18. CASE UNCHANGED vars
  BY <1>18
<1> QED BY <1>1, <1>2, <1>3, <1>4, <1>5, <1>6, <1>7, <1>8, <1>9, <1>10, <1>11, <1>12,
     <1>13, <1>14, <1>15, <1>16, <1>17, <1>18 DEF Next

(* What a client's write does to the file, and to what has clashed. *)
LEMMA ClientWritesWhatAgrees ==
    ASSUME Shape, ClientIsFresh, NEW a \in Agents, ClientWrites(a)
    PROVE  /\ UNCHANGED board /\ UNCHANGED lock
           /\ inbox[a] \in Files /\ client[a] \in Files /\ Agree(a, client[a], inbox[a])
           /\ client' = [client EXCEPT ![a] = Absent]
           /\ \A o \in Agents : o # a => /\ inbox'[o] = inbox[o] /\ clashed'[o] = clashed[o]
                                         /\ written'[o] = written[o] /\ pruned'[o] = pruned[o]
           /\ \E s \in Files :
                 /\ clashed'[a] = IF BoardHasRead(a) THEN clashed[a] \cup s ELSE clashed[a]
                 /\ \/ /\ said < MaxMessages /\ said' = said + 1 /\ s = {<<"teammate", said'>>}
                       /\ inbox'[a] = client[a] \cup s
                       /\ written'[a] = written[a] \cup s /\ pruned'[a] = pruned[a]
                    \/ /\ s = client[a] /\ inbox'[a] = {} /\ UNCHANGED said
                       /\ written'[a] = written[a] /\ pruned'[a] = pruned[a] \cup s
<1>1. /\ inbox \in [Agents -> {Absent, Malformed} \cup Files]
      /\ client \in [Agents -> {Absent} \cup Files]
      /\ written \in [Agents -> Files] /\ pruned \in [Agents -> Files]
      /\ clashed \in [Agents -> Files] /\ said \in 0..MaxMessages
  BY DEF Shape
<1>2. inbox[a] \in Files /\ client[a] \in Files /\ Agree(a, client[a], inbox[a])
  BY DEF ClientWrites, ClientIsFresh
<1>3. /\ UNCHANGED board /\ UNCHANGED lock
      /\ client' = [client EXCEPT ![a] = Absent]
  BY DEF ClientWrites
<1>4. \A o \in Agents : o # a => /\ inbox'[o] = inbox[o] /\ clashed'[o] = clashed[o]
                                /\ written'[o] = written[o] /\ pruned'[o] = pruned[o]
  BY <1>1 DEF ClientWrites, Clash
<1>5. said < MaxMessages => {<<"teammate", said + 1>>} \in Files
  BY <1>1, NextMessage, Zenon
<1>6. CASE /\ said < MaxMessages /\ said' = said + 1
           /\ inbox' = [inbox EXCEPT ![a] = client[a] \cup {<<"teammate", said'>>}]
           /\ written' = [written EXCEPT ![a] = @ \cup {<<"teammate", said'>>}]
           /\ Clash(a, {<<"teammate", said'>>})
           /\ UNCHANGED pruned
  <2> DEFINE s == {<<"teammate", said'>>}
  <2>1. s \in Files
    BY <1>5, <1>6
  <2>2. clashed'[a] = IF BoardHasRead(a) THEN clashed[a] \cup s ELSE clashed[a]
    BY <1>1, <1>6 DEF Clash
  <2>3. /\ inbox'[a] = client[a] \cup s /\ written'[a] = written[a] \cup s
        /\ pruned'[a] = pruned[a]
    BY <1>1, <1>6
  <2> QED BY <2>1, <2>2, <2>3, <1>2, <1>3, <1>4, <1>6
<1>7. CASE /\ inbox' = [inbox EXCEPT ![a] = {}]
           /\ pruned' = [pruned EXCEPT ![a] = @ \cup client[a]]
           /\ Clash(a, client[a])
           /\ UNCHANGED <<said, written>>
  <2>1. clashed'[a] = IF BoardHasRead(a) THEN clashed[a] \cup client[a] ELSE clashed[a]
    BY <1>1, <1>7 DEF Clash
  <2>2. inbox'[a] = {} /\ pruned'[a] = pruned[a] \cup client[a]
    BY <1>1, <1>7
  <2> QED BY <2>1, <2>2, <1>2, <1>3, <1>4, <1>7
<1> QED BY <1>6, <1>7 DEF ClientWrites

(* Only the holder of its lock, or a client, changes an inbox; and what a  *)
(* client changes meanwhile has clashed.                                   *)
LEMMA StepKeepsBoardFresh ==
    ASSUME Sending, Addressed, Shape, Locks, BoardIsFresh, ClientIsFresh, [Next]_vars
    PROVE  BoardIsFresh'
<1> USE PaneBoardAssumption DEF Sending, Addressed, Locks, BoardIsFresh, Holding, Busy,
     Steps, Agree, Entry, vars, board, others
<1>0. /\ inbox \in [Agents -> {Absent, Malformed} \cup Files]
      /\ lock \in [Agents -> {None} \cup Boards]
      /\ copy \in [Boards -> Files]
      /\ clashed \in [Agents -> Files]
  BY DEF Shape
<1>1. ASSUME NEW b \in Boards, Refresh(b) PROVE BoardIsFresh'
  BY <1>1, <1>0 DEF Refresh, Idle, ClampSelection
<1>2. ASSUME NEW b \in Boards, Up(b) PROVE BoardIsFresh'
  BY <1>2, <1>0 DEF Up, Idle
<1>3. ASSUME NEW b \in Boards, Down(b) PROVE BoardIsFresh'
  BY <1>3, <1>0 DEF Down, Idle
<1>4. ASSUME NEW b \in Boards, AskNudge(b) PROVE BoardIsFresh'
  BY <1>4, <1>0 DEF AskNudge, Idle
<1>5. ASSUME NEW b \in Boards, Dismiss(b) PROVE BoardIsFresh'
  BY <1>5, <1>0 DEF Dismiss, Idle
<1>6. ASSUME NEW b \in Boards, Confirm(b) PROVE BoardIsFresh'
  BY <1>6, <1>0 DEF Confirm, Idle
<1>7. ASSUME NEW b \in Boards, Quit(b) PROVE BoardIsFresh'
  BY <1>7, <1>0 DEF Quit, Idle
<1>8. ASSUME NEW b \in Boards, LookForInbox(b) PROVE BoardIsFresh'
  BY <1>8, <1>0 DEF LookForInbox, At, Leaves, Fails
<1>9. ASSUME NEW b \in Boards, AcquireLock(b) PROVE BoardIsFresh'
  BY <1>9, <1>0 DEF AcquireLock, At, Leaves, Fails, LockContention
<1>10. ASSUME NEW b \in Boards, ReadInbox(b) PROVE BoardIsFresh'
  <2>1. CASE Fails(b, "read")
    BY <2>1, <1>0 DEF At, Leaves, Fails
  <2>2. CASE At(b, "read", "write")
    <3>1. /\ inbox[nudge[b].to] \notin {Absent, Malformed}
          /\ copy' = [copy EXCEPT ![b] = inbox[nudge[b].to]]
          /\ UNCHANGED <<inbox, clashed, nudge>>
      BY <2>2, <1>10 DEF ReadInbox, At, Leaves, Fails
    <3>2. pc' = [pc EXCEPT ![b] = "write"] /\ nudge[b].to \in Agents
      BY <2>2 DEF At
    <3>3. inbox[nudge[b].to] \in Files /\ copy'[b] = inbox[nudge[b].to]
      BY <3>1, <3>2, <1>0
    <3>4. \A c \in Boards : c # b => pc'[c] = pc[c] /\ copy'[c] = copy[c]
      BY <3>1, <3>2, <1>0
    <3> QED BY <3>1, <3>2, <3>3, <3>4
  <2> QED BY <2>1, <2>2, <1>10 DEF ReadInbox
<1>11. ASSUME NEW b \in Boards, WriteCopy(b) PROVE BoardIsFresh'
  <2>1. CASE Fails(b, "write")
    BY <2>1, <1>0 DEF At, Leaves, Fails
  <2>2. CASE At(b, "write", "rename")
    <3>1. /\ copy' = [copy EXCEPT ![b] = @ \cup {Entry(b)}]
          /\ UNCHANGED <<inbox, clashed, nudge>>
      BY <2>2, <1>11 DEF WriteCopy, At, Leaves, Fails
    <3>2. pc' = [pc EXCEPT ![b] = "rename"] /\ nudge[b].to \in Agents /\ pc[b] = "write"
      BY <2>2 DEF At
    <3>3. copy'[b] = copy[b] \cup {Entry(b)}
      BY <3>1, <1>0
    <3>4. \A c \in Boards : c # b => pc'[c] = pc[c] /\ copy'[c] = copy[c]
      BY <3>1, <3>2, <1>0
    <3>5. /\ inbox[nudge[b].to] \in Files
          /\ copy[b] \ clashed[nudge[b].to] = inbox[nudge[b].to] \ clashed[nudge[b].to]
      BY <3>2
    <3>6. /\ Entry(b) \in copy'[b]
          /\ copy'[b] \ clashed[nudge[b].to]
                = (inbox[nudge[b].to] \cup {Entry(b)}) \ clashed[nudge[b].to]
      <4> HIDE DEF Entry
      <4> QED BY <3>3, <3>5
    <3>7. pc'[b] = "rename" /\ \A c \in Boards : Entry(c)' = Entry(c)
      BY <3>1, <3>2
    <3> HIDE DEF Entry
    <3>8. ASSUME NEW c \in Boards, pc'[c] = "write"
          PROVE  /\ inbox[nudge[c].to] \in Files
                 /\ copy'[c] \ clashed[nudge[c].to] = inbox[nudge[c].to] \ clashed[nudge[c].to]
      BY <3>4, <3>7, <3>8
    <3>9. ASSUME NEW c \in Boards, pc'[c] = "rename"
          PROVE  /\ inbox[nudge[c].to] \in Files /\ Entry(c) \in copy'[c]
                 /\ copy'[c] \ clashed[nudge[c].to]
                       = (inbox[nudge[c].to] \cup {Entry(c)}) \ clashed[nudge[c].to]
      <4>1. CASE c = b
        BY <3>5, <3>6, <4>1
      <4>2. CASE c # b
        BY <3>4, <3>9, <4>2
      <4> QED BY <4>1, <4>2
    <3> QED BY <3>1, <3>7, <3>8, <3>9
  <2> QED BY <2>1, <2>2, <1>11 DEF WriteCopy
<1>12. ASSUME NEW b \in Boards, Rename(b) PROVE BoardIsFresh'
  BY <1>12, <1>0 DEF Rename, At, Leaves, Fails
<1>13. ASSUME NEW b \in Boards, Die(b) PROVE BoardIsFresh'
  BY <1>13, <1>0 DEF Die, Leaves, Busy
<1>14. CASE TeamChanges
  BY <1>14, <1>0 DEF TeamChanges
<1>15. ASSUME NEW a \in Agents, ClientCreates(a) PROVE BoardIsFresh'
  <2>1. \A c \in Boards : pc[c] \in {"write", "rename"} => nudge[c].to # a
    BY <1>15, PaneBoardAssumption DEF ClientCreates, Files
  <2> QED BY <2>1, <1>15, <1>0 DEF ClientCreates
<1>16. ASSUME NEW a \in Agents, ClientReads(a) PROVE BoardIsFresh'
  BY <1>16, <1>0 DEF ClientReads
<1>17. ASSUME NEW a \in Agents, ClientWrites(a) PROVE BoardIsFresh'
  <2>1. UNCHANGED board /\ inbox[a] \in Files /\ client[a] \in Files /\ Agree(a, client[a], inbox[a])
    BY <1>17, ClientWritesWhatAgrees
  <2>2. \A o \in Agents : o # a => inbox'[o] = inbox[o] /\ clashed'[o] = clashed[o]
    BY <1>17, ClientWritesWhatAgrees
  <2>3. ASSUME BoardHasRead(a)
        PROVE  /\ inbox'[a] \in Files /\ clashed[a] \subseteq clashed'[a]
               /\ inbox'[a] \ clashed'[a] = inbox[a] \ clashed'[a]
    <3>1. PICK s \in Files :
             /\ clashed'[a] = IF BoardHasRead(a) THEN clashed[a] \cup s ELSE clashed[a]
             /\ \/ /\ said < MaxMessages /\ said' = said + 1 /\ s = {<<"teammate", said'>>}
                   /\ inbox'[a] = client[a] \cup s
                   /\ written'[a] = written[a] \cup s /\ pruned'[a] = pruned[a]
                \/ /\ s = client[a] /\ inbox'[a] = {} /\ UNCHANGED said
                   /\ written'[a] = written[a] /\ pruned'[a] = pruned[a] \cup s
      BY <1>17, ClientWritesWhatAgrees, Zenon
    <3>2. clashed'[a] = clashed[a] \cup s
      BY <2>3, <3>1
    <3>3. inbox'[a] = client[a] \cup s \/ (s = client[a] /\ inbox'[a] = {})
      BY <3>1
    <3> QED BY <2>1, <3>2, <3>3 DEF Files
  <2>4. ASSUME NEW c \in Boards, pc[c] \in {"write", "rename"}, nudge[c].to = a
        PROVE  BoardHasRead(a)
    BY <2>4 DEF BoardHasRead
  <2>5. ASSUME NEW c \in Boards, pc[c] = "write"
        PROVE  /\ inbox'[nudge[c].to] \in Files
               /\ copy[c] \ clashed'[nudge[c].to] = inbox'[nudge[c].to] \ clashed'[nudge[c].to]
    <3>1. CASE nudge[c].to = a
      <4>1. copy[c] \ clashed[a] = inbox[a] \ clashed[a]
        BY <2>5, <3>1
      <4> QED BY <2>3, <2>4, <2>5, <3>1, <4>1
    <3>2. CASE nudge[c].to # a
      BY <2>2, <2>5, <3>2
    <3> QED BY <3>1, <3>2
  <2>6. ASSUME NEW c \in Boards, pc[c] = "rename"
        PROVE  /\ inbox'[nudge[c].to] \in Files /\ Entry(c) \in copy[c]
               /\ copy[c] \ clashed'[nudge[c].to]
                     = (inbox'[nudge[c].to] \cup {Entry(c)}) \ clashed'[nudge[c].to]
    <3> HIDE DEF Entry
    <3>1. CASE nudge[c].to = a
      <4>1. /\ Entry(c) \in copy[c]
            /\ copy[c] \ clashed[a] = (inbox[a] \cup {Entry(c)}) \ clashed[a]
        BY <2>6, <3>1
      <4> QED BY <2>3, <2>4, <2>6, <3>1, <4>1
    <3>2. CASE nudge[c].to # a
      BY <2>2, <2>6, <3>2
    <3> QED BY <3>1, <3>2
  <2> QED BY <2>1, <2>5, <2>6
<1>18. CASE UNCHANGED vars
  BY <1>18
<1> QED BY <1>1, <1>2, <1>3, <1>4, <1>5, <1>6, <1>7, <1>8, <1>9, <1>10, <1>11, <1>12,
     <1>13, <1>14, <1>15, <1>16, <1>17, <1>18 DEF Next

(* The same of what a client has read. *)
LEMMA StepKeepsClientFresh ==
    ASSUME Sending, Addressed, Shape, Locks, Fresh, [Next]_vars
    PROVE  ClientIsFresh'
<1> USE PaneBoardAssumption DEF Sending, Addressed, ClientIsFresh, Busy, Steps, Fresh,
     Agree, vars, board, others
<1>0. /\ inbox \in [Agents -> {Absent, Malformed} \cup Files]
      /\ client \in [Agents -> {Absent} \cup Files]
      /\ clashed \in [Agents -> Files]
  BY DEF Shape
<1>1. ASSUME UNCHANGED <<inbox, client, clashed>> PROVE ClientIsFresh'
  BY <1>1
<1>2. ASSUME NEW b \in Boards, Refresh(b) \/ Up(b) \/ Down(b) \/ AskNudge(b) \/ Dismiss(b)
                               \/ Confirm(b) \/ Quit(b)
      PROVE  ClientIsFresh'
  BY <1>1, <1>2 DEF Refresh, Up, Down, AskNudge, Dismiss, Confirm, Quit, Idle
<1>3. ASSUME NEW b \in Boards, LookForInbox(b) \/ AcquireLock(b) \/ ReadInbox(b)
                               \/ WriteCopy(b) \/ Die(b)
      PROVE  ClientIsFresh'
  BY <1>1, <1>3 DEF LookForInbox, AcquireLock, ReadInbox, WriteCopy, Die, At, Leaves, Fails,
     LockContention
<1>4. ASSUME NEW b \in Boards, Rename(b) PROVE ClientIsFresh'
  <2>1. CASE Fails(b, "rename")
    BY <2>1, <1>1 DEF Fails, Leaves
  <2>2. CASE ~Fails(b, "rename")
    <3> DEFINE a == nudge[b].to
    <3>1. /\ a \in Agents /\ inbox[a] \in Files /\ copy[b] \in Files
          /\ copy[b] \ clashed[a] = (inbox[a] \cup {Entry(b)}) \ clashed[a]
      BY <2>2, <1>4 DEF Rename, Leaves, BoardIsFresh, Shape
    <3>2. /\ inbox' = [inbox EXCEPT ![a] = copy[b]]
          /\ clashed' = [clashed EXCEPT ![a] = IF client[a] = Absent THEN @ ELSE @ \cup {Entry(b)}]
          /\ client' = client
      BY <2>2, <1>4 DEF Rename, Leaves
    <3> HIDE DEF Entry
    <3>3. ASSUME client[a] # Absent
          PROVE  /\ inbox'[a] \in Files /\ client[a] \in Files
                 /\ client[a] \ clashed'[a] = inbox'[a] \ clashed'[a]
      <4>1. inbox'[a] = copy[b] /\ clashed'[a] = clashed[a] \cup {Entry(b)}
        BY <3>1, <3>2, <3>3, <1>0
      <4>2. client[a] \in Files /\ client[a] \ clashed[a] = inbox[a] \ clashed[a]
        BY <3>1, <3>3
      <4> QED BY <3>1, <4>1, <4>2
    <3>4. \A o \in Agents : o # a => inbox'[o] = inbox[o] /\ clashed'[o] = clashed[o]
      BY <3>2, <1>0
    <3> QED BY <3>2, <3>3, <3>4
  <2> QED BY <2>1, <2>2
<1>5. CASE TeamChanges
  BY <1>1, <1>5 DEF TeamChanges
<1>6. ASSUME NEW a \in Agents, ClientCreates(a) PROVE ClientIsFresh'
  <2>1. client[a] = Absent
    BY <1>6, PaneBoardAssumption DEF ClientCreates, Files
  <2> QED BY <2>1, <1>6, <1>0 DEF ClientCreates
<1>7. ASSUME NEW a \in Agents, ClientReads(a) PROVE ClientIsFresh'
  BY <1>7, <1>0 DEF ClientReads
<1>8. ASSUME NEW a \in Agents, ClientWrites(a) PROVE ClientIsFresh'
  <2>1. /\ client' = [client EXCEPT ![a] = Absent]
        /\ \A o \in Agents : o # a => inbox'[o] = inbox[o] /\ clashed'[o] = clashed[o]
    BY <1>8, ClientWritesWhatAgrees
  <2> QED BY <2>1, <1>0
<1>9. CASE UNCHANGED vars
  BY <1>1, <1>9
<1> QED BY <1>2, <1>3, <1>4, <1>5, <1>6, <1>7, <1>8, <1>9 DEF Next

(* A rewrite of an inbox extends what was in it, or its client drops it. *)
LEMMA StepKeepsKept ==
    ASSUME Sending, Addressed, Shape, Locks, Fresh, Kept, [Next]_vars
    PROVE  Kept'
<1> USE PaneBoardAssumption DEF Sending, Addressed, Kept, NothingElsewhere, NothingLost,
     Busy, Files, vars, board, others
<1>0. /\ inbox \in [Agents -> {Absent, Malformed} \cup Files]
      /\ lock \in [Agents -> {None} \cup Boards]
      /\ written \in [Agents -> Files]
      /\ pruned \in [Agents -> Files]
      /\ clashed \in [Agents -> Files]
      /\ said \in 0..MaxMessages
  BY DEF Shape
<1>1. ASSUME NEW b \in Boards, Refresh(b) PROVE Kept'
  BY <1>1, <1>0 DEF Refresh, Idle, ClampSelection
<1>2. ASSUME NEW b \in Boards, Up(b) PROVE Kept'
  BY <1>2, <1>0 DEF Up, Idle
<1>3. ASSUME NEW b \in Boards, Down(b) PROVE Kept'
  BY <1>3, <1>0 DEF Down, Idle
<1>4. ASSUME NEW b \in Boards, AskNudge(b) PROVE Kept'
  BY <1>4, <1>0 DEF AskNudge, Idle
<1>5. ASSUME NEW b \in Boards, Dismiss(b) PROVE Kept'
  BY <1>5, <1>0 DEF Dismiss, Idle
<1>6. ASSUME NEW b \in Boards, Confirm(b) PROVE Kept'
  BY <1>6, <1>0 DEF Confirm, Idle
<1>7. ASSUME NEW b \in Boards, Quit(b) PROVE Kept'
  BY <1>7, <1>0 DEF Quit, Idle
<1>8. ASSUME NEW b \in Boards, LookForInbox(b) PROVE Kept'
  BY <1>8, <1>0 DEF LookForInbox, At, Leaves, Fails
<1>9. ASSUME NEW b \in Boards, AcquireLock(b) PROVE Kept'
  BY <1>9, <1>0 DEF AcquireLock, At, Leaves, Fails, LockContention
<1>10. ASSUME NEW b \in Boards, ReadInbox(b) PROVE Kept'
  BY <1>10, <1>0 DEF ReadInbox, At, Leaves, Fails
<1>11. ASSUME NEW b \in Boards, WriteCopy(b) PROVE Kept'
  BY <1>11, <1>0 DEF WriteCopy, At, Leaves, Fails
<1>12. ASSUME NEW b \in Boards, Rename(b) PROVE Kept'
  <2>1. CASE Fails(b, "rename")
    BY <2>1, <1>0 DEF Fails, Leaves
  <2>2. CASE ~Fails(b, "rename")
    <3> DEFINE a == nudge[b].to
    <3>1. /\ a \in Agents /\ inbox[a] \in Files /\ copy[b] \in Files /\ Entry(b) \in copy[b]
          /\ copy[b] \ clashed[a] = (inbox[a] \cup {Entry(b)}) \ clashed[a]
      BY <2>2, <1>12 DEF Rename, Leaves, Fresh, BoardIsFresh, Agree, Shape
    <3>2. /\ inbox' = [inbox EXCEPT ![a] = copy[b]]
          /\ written' = [written EXCEPT ![a] = @ \cup {Entry(b)}]
          /\ clashed' = [clashed EXCEPT ![a] = IF client[a] = Absent THEN @ ELSE @ \cup {Entry(b)}]
          /\ pruned' = pruned
      BY <2>2, <1>12 DEF Rename, Leaves
    <3> HIDE DEF Entry
    <3>3. written[a] \ (pruned[a] \cup clashed[a]) \subseteq inbox[a]
      BY <3>1
    <3>4. \A s \in Files : s \notin {Absent, Malformed}
      BY PaneBoardAssumption
    <3>5. /\ inbox'[a] = copy[b] /\ written'[a] = written[a] \cup {Entry(b)}
          /\ clashed[a] \subseteq clashed'[a]
          /\ \A o \in Agents : o # a => /\ inbox'[o] = inbox[o] /\ clashed'[o] = clashed[o]
                                        /\ written'[o] = written[o]
      BY <3>1, <3>2, <1>0
    <3>6. written'[a] \ (pruned[a] \cup clashed'[a]) \subseteq inbox'[a]
      BY <3>1, <3>3, <3>5
    <3> QED BY <3>1, <3>2, <3>4, <3>5, <3>6
  <2> QED BY <2>1, <2>2
<1>13. ASSUME NEW b \in Boards, Die(b) PROVE Kept'
  BY <1>13, <1>0 DEF Die, Leaves, Busy
<1>14. CASE TeamChanges
  BY <1>14, <1>0 DEF TeamChanges
<1>15. ASSUME NEW a \in Agents, ClientCreates(a) PROVE Kept'
  BY <1>15, <1>0 DEF ClientCreates
<1>16. ASSUME NEW a \in Agents, ClientReads(a) PROVE Kept'
  BY <1>16, <1>0 DEF ClientReads
<1>17. ASSUME NEW a \in Agents, ClientWrites(a) PROVE Kept'
  <2>0. \A s \in Files : s \notin {Absent, Malformed}
    BY PaneBoardAssumption
  <2>1. /\ inbox[a] \in Files /\ client[a] \in Files /\ Agree(a, client[a], inbox[a])
        /\ \A o \in Agents : o # a => /\ inbox'[o] = inbox[o] /\ clashed'[o] = clashed[o]
                                      /\ written'[o] = written[o] /\ pruned'[o] = pruned[o]
    BY <1>17, ClientWritesWhatAgrees DEF Fresh
  <2>2. PICK s \in Files :
           /\ clashed'[a] = IF BoardHasRead(a) THEN clashed[a] \cup s ELSE clashed[a]
           /\ \/ /\ inbox'[a] = client[a] \cup s
                 /\ written'[a] = written[a] \cup s /\ pruned'[a] = pruned[a]
              \/ /\ s = client[a] /\ inbox'[a] = {}
                 /\ written'[a] = written[a] /\ pruned'[a] = pruned[a] \cup s
    BY <1>17, ClientWritesWhatAgrees DEF Fresh
  <2>3. clashed[a] \subseteq clashed'[a]
    BY <2>2
  <2>4. written[a] \ (pruned[a] \cup clashed[a]) \subseteq inbox[a]
    BY <2>0, <2>1
  <2>5. inbox'[a] \in Files
    BY <2>1, <2>2
  <2>6. written'[a] \ (pruned'[a] \cup clashed'[a]) \subseteq inbox'[a]
    BY <2>1, <2>2, <2>3, <2>4 DEF Agree
  <2> QED BY <2>0, <2>1, <2>5, <2>6
<1>18. CASE UNCHANGED vars
  BY <1>18
<1> QED BY <1>1, <1>2, <1>3, <1>4, <1>5, <1>6, <1>7, <1>8, <1>9, <1>10, <1>11, <1>12,
     <1>13, <1>14, <1>15, <1>16, <1>17, <1>18 DEF Next

(* An overlay names its row until a refresh moves it. *)
LEMMA StepKeepsOverlay ==
    ASSUME Sending, Drawn, OverlayNamesRow, Uncovered, [Next]_vars
    PROVE  OverlayNamesRow' /\ Uncovered'
<1> USE PaneBoardAssumption DEF OverlayNamesRow, Uncovered, vars, board, others
<1>0. /\ pc \in [Boards -> Steps]
      /\ overlay \in [Boards -> Panels]
      /\ shifted \in [Boards -> BOOLEAN]
      /\ rows \in [Boards -> Seq(Agents)]
      /\ selected \in [Boards -> Nat \ {0}]
  BY DEF Sending, Drawn
<1>1. ASSUME NEW b \in Boards, Refresh(b) PROVE OverlayNamesRow' /\ Uncovered'
  BY <1>1, <1>0 DEF Refresh, Idle, ClampSelection, Busy, Steps, Panels, NoOverlay, Error
<1>2. ASSUME NEW b \in Boards, Up(b) PROVE OverlayNamesRow' /\ Uncovered'
  BY <1>2, <1>0 DEF Up, Idle, Busy, Steps, Panels, NoOverlay, Error
<1>3. ASSUME NEW b \in Boards, Down(b) PROVE OverlayNamesRow' /\ Uncovered'
  BY <1>3, <1>0 DEF Down, Idle, Busy, Steps, Panels, NoOverlay, Error
<1>4. ASSUME NEW b \in Boards, AskNudge(b) PROVE OverlayNamesRow' /\ Uncovered'
  BY <1>4, <1>0 DEF AskNudge, Idle, Busy, Steps, Panels, NoOverlay, Error
<1>5. ASSUME NEW b \in Boards, Dismiss(b) PROVE OverlayNamesRow' /\ Uncovered'
  BY <1>5, <1>0 DEF Dismiss, Idle, Busy, Steps, Panels, NoOverlay, Error
<1>6. ASSUME NEW b \in Boards, Confirm(b) PROVE OverlayNamesRow' /\ Uncovered'
  BY <1>6, <1>0 DEF Confirm, Idle, Busy, Steps, Panels, NoOverlay, Error
<1>7. ASSUME NEW b \in Boards, Quit(b) PROVE OverlayNamesRow' /\ Uncovered'
  BY <1>7, <1>0 DEF Quit, Idle, Busy, Steps, Panels, NoOverlay, Error
<1>8. ASSUME NEW b \in Boards, LookForInbox(b) PROVE OverlayNamesRow' /\ Uncovered'
  <2>1. \A c \in Boards :
           /\ rows'[c] = rows[c] /\ (overlay'[c] = overlay[c] \/ overlay'[c] = Error)
           /\ (shifted'[c] = shifted[c] \/ Busy(c)) /\ (Busy(c)' => Busy(c))
    BY <1>8, <1>0 DEF LookForInbox, At, Leaves, Fails, Busy, Steps
  <2> QED BY <2>1 DEF Error
<1>9. ASSUME NEW b \in Boards, AcquireLock(b) PROVE OverlayNamesRow' /\ Uncovered'
  <2>1. \A c \in Boards :
           /\ rows'[c] = rows[c] /\ (overlay'[c] = overlay[c] \/ overlay'[c] = Error)
           /\ (shifted'[c] = shifted[c] \/ Busy(c)) /\ (Busy(c)' => Busy(c))
    BY <1>9, <1>0 DEF AcquireLock, At, Leaves, Fails, LockContention, Busy, Steps
  <2> QED BY <2>1 DEF Error
<1>10. ASSUME NEW b \in Boards, ReadInbox(b) PROVE OverlayNamesRow' /\ Uncovered'
  <2>1. \A c \in Boards :
           /\ rows'[c] = rows[c] /\ (overlay'[c] = overlay[c] \/ overlay'[c] = Error)
           /\ (shifted'[c] = shifted[c] \/ Busy(c)) /\ (Busy(c)' => Busy(c))
    BY <1>10, <1>0 DEF ReadInbox, At, Leaves, Fails, Busy, Steps
  <2> QED BY <2>1 DEF Error
<1>11. ASSUME NEW b \in Boards, WriteCopy(b) PROVE OverlayNamesRow' /\ Uncovered'
  <2>1. \A c \in Boards :
           /\ rows'[c] = rows[c] /\ (overlay'[c] = overlay[c] \/ overlay'[c] = Error)
           /\ (shifted'[c] = shifted[c] \/ Busy(c)) /\ (Busy(c)' => Busy(c))
    BY <1>11, <1>0 DEF WriteCopy, At, Leaves, Fails, Busy, Steps
  <2> QED BY <2>1 DEF Error
<1>12. ASSUME NEW b \in Boards, Rename(b) PROVE OverlayNamesRow' /\ Uncovered'
  <2>1. \A c \in Boards :
           /\ rows'[c] = rows[c] /\ (overlay'[c] = overlay[c] \/ overlay'[c] = Error)
           /\ (shifted'[c] = shifted[c] \/ Busy(c)) /\ (Busy(c)' => Busy(c))
    BY <1>12, <1>0 DEF Rename, At, Leaves, Fails, Busy, Steps
  <2> QED BY <2>1 DEF Error
<1>13. ASSUME NEW b \in Boards, Die(b) PROVE OverlayNamesRow' /\ Uncovered'
  <2>1. \A c \in Boards :
           /\ rows'[c] = rows[c] /\ (overlay'[c] = overlay[c] \/ overlay'[c] = Error)
           /\ (shifted'[c] = shifted[c] \/ Busy(c)) /\ (Busy(c)' => Busy(c))
    BY <1>13, <1>0 DEF Die, Leaves, Busy, Busy, Steps
  <2> QED BY <2>1 DEF Error
<1>14. CASE TeamChanges
  BY <1>14, <1>0 DEF TeamChanges, Busy, Steps, Panels, NoOverlay, Error
<1>15. ASSUME NEW a \in Agents, ClientCreates(a) PROVE OverlayNamesRow' /\ Uncovered'
  BY <1>15, <1>0 DEF ClientCreates, Busy, Steps, Panels, NoOverlay, Error
<1>16. ASSUME NEW a \in Agents, ClientReads(a) PROVE OverlayNamesRow' /\ Uncovered'
  BY <1>16, <1>0 DEF ClientReads, Busy, Steps, Panels, NoOverlay, Error
<1>17. ASSUME NEW a \in Agents, ClientWrites(a) PROVE OverlayNamesRow' /\ Uncovered'
  BY <1>17, <1>0 DEF ClientWrites, Busy, Steps, Panels, NoOverlay, Error
<1>18. CASE UNCHANGED vars
  BY <1>18 DEF Busy
<1> QED BY <1>1, <1>2, <1>3, <1>4, <1>5, <1>6, <1>7, <1>8, <1>9, <1>10, <1>11, <1>12,
     <1>13, <1>14, <1>15, <1>16, <1>17, <1>18 DEF Next

(* A nudge goes to the row of its overlay. *)
LEMMA StepKeepsChosen ==
    ASSUME Sending, Drawn, OverlayNamesRow, ChosenUnlessShifted, [Next]_vars
    PROVE  ChosenUnlessShifted'
<1> USE PaneBoardAssumption DEF Sending, OverlayNamesRow, ChosenUnlessShifted, Busy, Steps,
     vars, board, others
<1>0. shifted \in [Boards -> BOOLEAN]
  BY DEF Drawn
<1>1. ASSUME NEW b \in Boards, Refresh(b) PROVE ChosenUnlessShifted'
  BY <1>1, <1>0 DEF Refresh, Idle, ClampSelection
<1>2. ASSUME NEW b \in Boards, Up(b) PROVE ChosenUnlessShifted'
  BY <1>2, <1>0 DEF Up, Idle
<1>3. ASSUME NEW b \in Boards, Down(b) PROVE ChosenUnlessShifted'
  BY <1>3, <1>0 DEF Down, Idle
<1>4. ASSUME NEW b \in Boards, AskNudge(b) PROVE ChosenUnlessShifted'
  BY <1>4, <1>0 DEF AskNudge, Idle
<1>5. ASSUME NEW b \in Boards, Dismiss(b) PROVE ChosenUnlessShifted'
  BY <1>5, <1>0 DEF Dismiss, Idle
<1>6. ASSUME NEW b \in Boards, Confirm(b) PROVE ChosenUnlessShifted'
  BY <1>6, <1>0 DEF Confirm, Idle
<1>7. ASSUME NEW b \in Boards, Quit(b) PROVE ChosenUnlessShifted'
  BY <1>7, <1>0 DEF Quit, Idle
<1>8. ASSUME NEW b \in Boards, LookForInbox(b) PROVE ChosenUnlessShifted'
  BY <1>8, <1>0 DEF LookForInbox, At, Leaves, Fails
<1>9. ASSUME NEW b \in Boards, AcquireLock(b) PROVE ChosenUnlessShifted'
  BY <1>9, <1>0 DEF AcquireLock, At, Leaves, Fails, LockContention
<1>10. ASSUME NEW b \in Boards, ReadInbox(b) PROVE ChosenUnlessShifted'
  BY <1>10, <1>0 DEF ReadInbox, At, Leaves, Fails
<1>11. ASSUME NEW b \in Boards, WriteCopy(b) PROVE ChosenUnlessShifted'
  BY <1>11, <1>0 DEF WriteCopy, At, Leaves, Fails
<1>12. ASSUME NEW b \in Boards, Rename(b) PROVE ChosenUnlessShifted'
  BY <1>12, <1>0 DEF Rename, At, Leaves, Fails
<1>13. ASSUME NEW b \in Boards, Die(b) PROVE ChosenUnlessShifted'
  BY <1>13, <1>0 DEF Die, Leaves, Busy
<1>14. CASE TeamChanges
  BY <1>14, <1>0 DEF TeamChanges
<1>15. ASSUME NEW a \in Agents, ClientCreates(a) PROVE ChosenUnlessShifted'
  BY <1>15, <1>0 DEF ClientCreates
<1>16. ASSUME NEW a \in Agents, ClientReads(a) PROVE ChosenUnlessShifted'
  BY <1>16, <1>0 DEF ClientReads
<1>17. ASSUME NEW a \in Agents, ClientWrites(a) PROVE ChosenUnlessShifted'
  BY <1>17, <1>0 DEF ClientWrites
<1>18. CASE UNCHANGED vars
  BY <1>18
<1> QED BY <1>1, <1>2, <1>3, <1>4, <1>5, <1>6, <1>7, <1>8, <1>9, <1>10, <1>11, <1>12,
     <1>13, <1>14, <1>15, <1>16, <1>17, <1>18 DEF Next

-----------------------------------------------------------------------------
(* The results. *)

LEMMA Start == Init => IInv
<1> SUFFICES ASSUME Init PROVE IInv
  OBVIOUS
<1> USE PaneBoardAssumption DEF Init
<1>1. Sending /\ Addressed /\ Locks /\ Fresh
  BY DEF Sending, Steps, Addressed, Busy, Locks, Holding, Fresh, BoardIsFresh, ClientIsFresh
<1>2. Shape
  BY DEF Shape, Files
<1>3. team \in Seq(Agents)
  BY DEF Teams
<1>4. Drawn
  BY <1>3 DEF Drawn, Panels, NoOverlay
<1>5. Kept
  BY DEF Kept, NothingElsewhere, NothingLost
<1>6. Chosen
  BY DEF Chosen, OverlayNamesRow, Uncovered, ChosenUnlessShifted, Busy, NoOverlay
<1> QED BY <1>1, <1>2, <1>4, <1>5, <1>6 DEF IInv

(* The invariant holds of every step's two states. *)
THEOREM Invariance == Spec => []IInv
<1>1. IInv /\ [Next]_vars => IInv'
  BY StepKeepsSending, StepKeepsShape, StepKeepsDrawn, StepKeepsLocks, StepKeepsBoardFresh,
     StepKeepsClientFresh, StepKeepsKept, StepKeepsOverlay, StepKeepsChosen
     DEF IInv, Fresh, Chosen
<1> QED BY Start, <1>1, PTL DEF Spec

(* No rewrite of an inbox loses what was put into it, but for what clashed: *)
(* what a client put in after a board had read the file, or a board after  *)
(* the client had.  For any number of boards, teammates, nudges, messages. *)
THEOREM InboxesKept == Spec => []NothingLost
<1>1. IInv => NothingLost
  BY DEF IInv, Kept
<1> QED BY Invariance, <1>1, PTL

-----------------------------------------------------------------------------
(* Each entry is put into an inbox once. *)

(* What was written has a number that its writer has had, and is through with. *)
Unsent ==
    /\ \A a \in Agents, i \in Nat : <<"teammate", i>> \in written[a] => i =< said
    /\ \A a \in Agents, b \in Boards, i \in Nat : <<b, i>> \in written[a] =>
          i =< nudge[b].n /\ (Busy(b) => i < nudge[b].n)

(* All but three actions write nothing and begin no nudge. *)
LEMMA OthersSendNothing ==
    ASSUME Sending, [Next]_vars,
           \A b \in Boards : ~Confirm(b) /\ ~Rename(b), \A a \in Agents : ~ClientWrites(a)
    PROVE  /\ UNCHANGED <<written, pruned, said, clashed>>
           /\ UNCHANGED inbox \/ \E a \in Agents : ClientCreates(a)
           /\ \A b \in Boards : nudge'[b].n = nudge[b].n /\ (Busy(b)' => Busy(b))
<1> DEFINE Quiet == /\ UNCHANGED <<written, pruned, said, clashed>>
                    /\ UNCHANGED inbox \/ \E a \in Agents : ClientCreates(a)
                    /\ \A b \in Boards : nudge'[b].n = nudge[b].n /\ (Busy(b)' => Busy(b))
<1> USE DEF Busy, vars, board, others
<1>0. /\ pc \in [Boards -> Steps]
      /\ nudge \in [Boards -> [n : 0..MaxNudges, to : Agents \cup {None},
            asked : Agents \cup {None}]]
  BY DEF Sending
<1>1. ASSUME NEW b \in Boards, Refresh(b) \/ Up(b) \/ Down(b) \/ AskNudge(b) \/ Dismiss(b) \/ Quit(b)
      PROVE  Quiet
  BY <1>1, <1>0 DEF Refresh, Up, Down, AskNudge, Dismiss, Quit, Idle
<1>2. ASSUME NEW b \in Boards, LookForInbox(b) PROVE Quiet
  BY <1>2, <1>0 DEF LookForInbox, At, Leaves, Fails
<1>3. ASSUME NEW b \in Boards, AcquireLock(b) PROVE Quiet
  BY <1>3, <1>0 DEF AcquireLock, At, Leaves, Fails, LockContention
<1>4. ASSUME NEW b \in Boards, ReadInbox(b) PROVE Quiet
  BY <1>4, <1>0 DEF ReadInbox, At, Leaves, Fails
<1>5. ASSUME NEW b \in Boards, WriteCopy(b) PROVE Quiet
  BY <1>5, <1>0 DEF WriteCopy, At, Leaves, Fails
<1>6. ASSUME NEW b \in Boards, Die(b) PROVE Quiet
  BY <1>6, <1>0 DEF Die, Leaves
<1>7. CASE TeamChanges
  BY <1>7 DEF TeamChanges
<1>8. ASSUME NEW a \in Agents, ClientCreates(a) PROVE Quiet
  BY <1>8 DEF ClientCreates
<1>9. ASSUME NEW a \in Agents, ClientReads(a) PROVE Quiet
  BY <1>9 DEF ClientReads
<1>10. CASE UNCHANGED vars
  BY <1>10
<1> QED BY <1>1, <1>2, <1>3, <1>4, <1>5, <1>6, <1>7, <1>8, <1>9, <1>10 DEF Next

(* The three that do. *)
LEMMA RenameSends ==
    ASSUME IInv, NEW b \in Boards, Rename(b)
    PROVE  /\ UNCHANGED <<pruned, said>>
           /\ \A c \in Boards : nudge'[c].n = nudge[c].n /\ (Busy(c)' => Busy(c) /\ c # b)
           /\ \/ UNCHANGED <<inbox, written, clashed>>
              \/ /\ inbox[nudge[b].to] \in Files /\ nudge[b].to \in Agents
                 /\ copy[b] \in Files
                 /\ Agree(nudge[b].to, copy[b], inbox[nudge[b].to] \cup {Entry(b)})
                 /\ inbox' = [inbox EXCEPT ![nudge[b].to] = copy[b]]
                 /\ written' = [written EXCEPT ![nudge[b].to] = @ \cup {Entry(b)}]
                 /\ \/ UNCHANGED clashed
                    \/ clashed' = [clashed EXCEPT ![nudge[b].to] = @ \cup {Entry(b)}]
<1>1. /\ pc \in [Boards -> Steps]
      /\ nudge \in [Boards -> [n : 0..MaxNudges, to : Agents \cup {None},
            asked : Agents \cup {None}]]
      /\ clashed \in [Agents -> Files]
  BY DEF IInv, Sending, Shape
<1>2. UNCHANGED <<pruned, said>>
  BY DEF Rename, Fails, Leaves, others
<1>3. \A c \in Boards : nudge'[c].n = nudge[c].n /\ (Busy(c)' => Busy(c) /\ c # b)
  BY <1>1 DEF Rename, Fails, Leaves, Busy
<1>4. CASE /\ inbox' = [inbox EXCEPT ![nudge[b].to] = copy[b]] /\ pc[b] = "rename"
           /\ written' = [written EXCEPT ![nudge[b].to] = @ \cup {Entry(b)}]
           /\ clashed' = [clashed EXCEPT ![nudge[b].to] =
                              IF client[nudge[b].to] = Absent THEN @ ELSE @ \cup {Entry(b)}]
  <2>1. /\ inbox[nudge[b].to] \in Files /\ copy[b] \in Files /\ nudge[b].to \in Agents
        /\ Agree(nudge[b].to, copy[b], inbox[nudge[b].to] \cup {Entry(b)})
    BY <1>4 DEF IInv, Fresh, BoardIsFresh, Addressed, Busy, Shape
  <2> HIDE DEF Entry
  <2>2. \/ UNCHANGED clashed
        \/ clashed' = [clashed EXCEPT ![nudge[b].to] = @ \cup {Entry(b)}]
    BY <1>1, <1>4, <2>1
  <2> QED BY <2>1, <2>2, <1>2, <1>3, <1>4
<1>5. CASE UNCHANGED <<inbox, written, clashed>>
  BY <1>5, <1>2, <1>3
<1> QED BY <1>4, <1>5 DEF Rename, Fails, Leaves

LEMMA ClientSends ==
    ASSUME IInv, NEW a \in Agents, ClientWrites(a)
    PROVE  /\ inbox[a] \in Files /\ client[a] \in Files /\ UNCHANGED board
           /\ Agree(a, client[a], inbox[a])
           /\ \/ /\ said' = said + 1 /\ UNCHANGED pruned
                 /\ {<<"teammate", said'>>} \in Files
                 /\ inbox' = [inbox EXCEPT ![a] = client[a] \cup {<<"teammate", said'>>}]
                 /\ written' = [written EXCEPT ![a] = @ \cup {<<"teammate", said'>>}]
                 /\ \/ UNCHANGED clashed
                    \/ clashed' = [clashed EXCEPT ![a] = @ \cup {<<"teammate", said'>>}]
              \/ /\ inbox' = [inbox EXCEPT ![a] = {}]
                 /\ pruned' = [pruned EXCEPT ![a] = @ \cup client[a]]
                 /\ UNCHANGED <<said, written>>
                 /\ \/ UNCHANGED clashed
                    \/ clashed' = [clashed EXCEPT ![a] = @ \cup client[a]]
<1>1. /\ inbox[a] \in Files /\ client[a] \in Files /\ said \in 0..MaxMessages
      /\ Agree(a, client[a], inbox[a]) /\ clashed \in [Agents -> Files]
  BY DEF IInv, Fresh, ClientIsFresh, Shape, ClientWrites
<1>2. said < MaxMessages => {<<"teammate", said + 1>>} \in Files
  BY <1>1, NextMessage
<1>3. ASSUME NEW s, Clash(a, s)
      PROVE  UNCHANGED clashed \/ clashed' = [clashed EXCEPT ![a] = @ \cup s]
  BY <1>1, <1>3 DEF Clash
<1> QED BY <1>1, <1>2, <1>3 DEF ClientWrites

LEMMA StepKeepsUnsent ==
    ASSUME IInv, IInv', Unsent, [Next]_vars
    PROVE  Unsent'
<1>0. /\ nudge \in [Boards -> [n : 0..MaxNudges, to : Agents \cup {None},
            asked : Agents \cup {None}]]
      /\ pc \in [Boards -> Steps] /\ written \in [Agents -> Files] /\ said \in Nat
      /\ MaxNudges \in Nat
  BY PaneBoardAssumption DEF IInv, Sending, Shape
<1>1. CASE /\ \A b \in Boards : ~Confirm(b) /\ ~Rename(b)
           /\ \A a \in Agents : ~ClientWrites(a)
  <2>1. /\ UNCHANGED <<written, said>>
        /\ \A b \in Boards : nudge'[b].n = nudge[b].n /\ (Busy(b)' => Busy(b))
    BY <1>1, OthersSendNothing, Zenon DEF IInv
  <2> QED BY <2>1 DEF Unsent
<1>2. ASSUME NEW b \in Boards, Confirm(b) PROVE Unsent'
  <2>1. UNCHANGED <<written, said>>
    BY <1>2 DEF Confirm, Idle, others
  <2>2. \A c \in Boards : \/ nudge'[c].n = nudge[c].n /\ (Busy(c)' => Busy(c))
                          \/ nudge'[c].n = nudge[c].n + 1
    BY <1>2, <1>0 DEF Confirm, Busy
  <2>3. \A c \in Boards : nudge[c].n \in Nat
    BY <1>0
  <2>4. ASSUME NEW a \in Agents, NEW c \in Boards, NEW i \in Nat, <<c, i>> \in written[a]
        PROVE  i =< nudge'[c].n /\ (Busy(c)' => i < nudge'[c].n)
    BY <2>2, <2>3, <2>4 DEF Unsent
  <2> QED BY <2>1, <2>4 DEF Unsent
<1>3. ASSUME NEW b \in Boards, Rename(b) PROVE Unsent'
  <2>1. /\ UNCHANGED said
        /\ \A c \in Boards : nudge'[c].n = nudge[c].n /\ (Busy(c)' => Busy(c) /\ c # b)
    BY <1>3, RenameSends
  <2>2. \A a \in Agents : written'[a] \subseteq written[a] \cup {Entry(b)}
    <3>1. \/ UNCHANGED written
          \/ written' = [written EXCEPT ![nudge[b].to] = @ \cup {Entry(b)}]
      BY <1>3, RenameSends
    <3> HIDE DEF Entry
    <3> QED BY <3>1, <1>0
  <2>3. "teammate" # b
    BY PaneBoardAssumption
  <2>4. \A a \in Agents, i \in Nat : <<"teammate", i>> \in written'[a] => i =< said'
    BY <2>1, <2>2, <2>3 DEF Unsent, Entry
  <2>5. \A a \in Agents, c \in Boards, i \in Nat : <<c, i>> \in written'[a] =>
            <<c, i>> \in written[a] \/ (c = b /\ i = nudge[b].n)
    BY <2>2 DEF Entry
  <2>6. ASSUME NEW a \in Agents, NEW c \in Boards, NEW i \in Nat, <<c, i>> \in written'[a]
        PROVE  i =< nudge'[c].n /\ (Busy(c)' => i < nudge'[c].n)
    BY <2>1, <2>5, <2>6, <1>0 DEF Unsent
  <2> QED BY <2>4, <2>6 DEF Unsent
<1>4. ASSUME NEW o \in Agents, ClientWrites(o) PROVE Unsent'
  <2>1. UNCHANGED <<nudge, pc>> /\ said =< said'
    BY <1>4, <1>0, ClientSends DEF board
  <2>2. \A a \in Agents : written'[a] = written[a]
                          \/ (written'[a] = written[a] \cup {<<"teammate", said'>>})
    <3>1. UNCHANGED written \/ written' = [written EXCEPT ![o] = @ \cup {<<"teammate", said'>>}]
      BY <1>4, ClientSends
    <3> QED BY <3>1, <1>0
  <2>3. "teammate" \notin Boards /\ said' \in Nat
    BY PaneBoardAssumption DEF IInv, Shape
  <2>4. \A a \in Agents, i \in Nat : <<"teammate", i>> \in written'[a] => i =< said'
    BY <2>1, <2>2, <2>3, <1>0 DEF Unsent
  <2>5. \A a \in Agents, c \in Boards, i \in Nat :
            <<c, i>> \in written'[a] => <<c, i>> \in written[a]
    BY <2>2, <2>3
  <2>6. \A c \in Boards : Busy(c)' => Busy(c)
    BY <2>1 DEF Busy
  <2> QED BY <2>1, <2>4, <2>5, <2>6 DEF Unsent
<1> QED BY <1>1, <1>2, <1>3, <1>4

LEMMA UnsentAlways == Spec => []Unsent
<1>1. Init => Unsent
  BY DEF Init, Unsent
<1>2. IInv /\ IInv' /\ Unsent /\ [Next]_vars => Unsent'
  BY StepKeepsUnsent
<1> QED BY Invariance, <1>1, <1>2, PTL DEF Spec

(* The inboxes are those of Mailboxes: what looks like one append to those *)
(* who read an inbox is a read, a copy and a rename, in any number of      *)
(* boards and clients, each of which may die between any two of its steps. *)
(* Only what a board and a client did to one file between the read and the *)
(* write of the other is adrift.                                           *)
THEOREM ImplementsMailboxes == Spec => KeepsMailboxes
<1> DEFINE Sent == UNION {written[a] : a \in Agents}
<1>1. Init => Promised!Init
  <2> SUFFICES ASSUME Init PROVE Promised!Init
    OBVIOUS
  <2>1. Sent = {}
    BY DEF Init
  <2> QED BY <2>1 DEF Init, Promised!Init
<1>2. ASSUME IInv, Unsent, [Next]_vars PROVE [Promised!Next]_<<inbox, Sent, pruned, clashed>>
  <2>0. /\ written \in [Agents -> Files] /\ said \in Nat /\ MaxNudges \in Nat
        /\ pruned \in [Agents -> Files] /\ clashed \in [Agents -> Files]
        /\ \A s \in Files : s \notin {Absent, Malformed}
    <3>1. \A s \in Files : s \notin {Absent, Malformed}
      BY PaneBoardAssumption, Zenon DEF Files
    <3>2. /\ written \in [Agents -> Files] /\ said \in Nat /\ MaxNudges \in Nat
          /\ pruned \in [Agents -> Files] /\ clashed \in [Agents -> Files]
      BY PaneBoardAssumption, <1>2 DEF IInv, Shape
    <3> QED BY <3>1, <3>2
  <2>1. ASSUME NEW o \in Agents, NEW e, {e} \in Files, inbox[o] \in Files, NEW s \in Files,
               \A a \in Agents : e \notin written[a], Agree(o, s, inbox[o] \cup {e}),
               inbox' = [inbox EXCEPT ![o] = s \cup {e}],
               written' = [written EXCEPT ![o] = @ \cup {e}], UNCHANGED pruned,
               UNCHANGED clashed \/ clashed' = [clashed EXCEPT ![o] = @ \cup {e}]
        PROVE  Promised!Next
    <3>1. e \notin Sent /\ Sent' = Sent \cup {e}
      BY <2>0, <2>1
    <3>2. e \in Entries /\ s \cup {e} \in SUBSET Entries
      BY <2>1 DEF Files
    <3>3. (s \cup {e}) \ clashed'[o] = (inbox[o] \cup {e}) \ clashed'[o]
      <4>1. clashed[o] \subseteq clashed'[o]
        BY <2>0, <2>1
      <4>2. s \ clashed[o] = (inbox[o] \cup {e}) \ clashed[o]
        BY <2>1 DEF Agree
      <4> QED BY <4>1, <4>2
    <3>4. Promised!Same(o, s \cup {e}, inbox[o] \cup {e})
      BY <3>3 DEF Promised!Same
    <3>5. Promised!MaySet(o, {e})
      BY <2>1 DEF Promised!MaySet
    <3>6. inbox[o] \notin {Absent, Malformed}
      BY <2>0, <2>1
    <3>7. inbox' = [inbox EXCEPT ![o] = s \cup {e}] /\ UNCHANGED pruned
      BY <2>1
    <3> HIDE DEF Sent
    <3>8. Promised!Puts(o, e)
      BY <3>1, <3>2, <3>4, <3>5, <3>6, <3>7 DEF Promised!Puts, Sent
    <3> QED BY <3>2, <3>8 DEF Promised!Next
  <2>2. CASE /\ \A b \in Boards : ~Confirm(b) /\ ~Rename(b)
             /\ \A a \in Agents : ~ClientWrites(a)
    <3>0. /\ UNCHANGED <<written, pruned, clashed>>
          /\ UNCHANGED inbox \/ \E a \in Agents : ClientCreates(a)
      BY <1>2, <2>2, OthersSendNothing, Zenon DEF IInv
    <3>1. /\ UNCHANGED <<Sent, pruned, clashed>>
          /\ UNCHANGED inbox \/ \E a \in Agents : ClientCreates(a)
      BY <3>0
    <3>2. ASSUME NEW a \in Agents, ClientCreates(a) PROVE Promised!Opens(a)
      BY <3>1, <3>2 DEF ClientCreates, Promised!Opens
    <3> QED BY <3>1, <3>2 DEF Promised!Next
  <2>3. ASSUME NEW b \in Boards, Confirm(b) PROVE UNCHANGED <<inbox, Sent, pruned, clashed>>
    BY <2>3 DEF Confirm, Idle, others
  <2>4. ASSUME NEW b \in Boards, Rename(b) PROVE [Promised!Next]_<<inbox, Sent, pruned, clashed>>
    <3>1. UNCHANGED pruned
      BY <2>4, <1>2, RenameSends
    <3>5. CASE UNCHANGED <<inbox, written, clashed>>
      BY <3>1, <3>5
    <3>6. CASE /\ inbox[nudge[b].to] \in Files /\ nudge[b].to \in Agents
               /\ copy[b] \in Files
               /\ Agree(nudge[b].to, copy[b], inbox[nudge[b].to] \cup {Entry(b)})
               /\ inbox' = [inbox EXCEPT ![nudge[b].to] = copy[b]]
               /\ written' = [written EXCEPT ![nudge[b].to] = @ \cup {Entry(b)}]
               /\ \/ UNCHANGED clashed
                  \/ clashed' = [clashed EXCEPT ![nudge[b].to] = @ \cup {Entry(b)}]
               /\ pc[b] = "rename"
      <4>1. Busy(b)
        BY <3>6 DEF Busy
      <4>2. {Entry(b)} \in Files /\ nudge[b].n \in Nat /\ ~(nudge[b].n < nudge[b].n)
        BY <4>1, <2>0, <1>2, EntryIsOne DEF IInv, Sending
      <4>3. \A a \in Agents : Entry(b) \notin written[a]
        BY <4>1, <4>2, <1>2 DEF Unsent, Entry
      <4>4. Entry(b) \in copy[b]
        BY <3>6, <1>2 DEF IInv, Fresh, BoardIsFresh
      <4> HIDE DEF Entry
      <4>5. copy[b] \cup {Entry(b)} = copy[b]
        BY <4>4
      <4> QED BY <3>1, <3>6, <4>2, <4>3, <4>5, <2>1
    <3>7. UNCHANGED <<inbox, written, clashed>> \/ pc[b] = "rename"
      BY <2>4 DEF Rename, Fails, Leaves
    <3> QED BY <3>5, <3>6, <3>7, <2>4, <1>2, RenameSends
  <2>5. ASSUME NEW o \in Agents, ClientWrites(o) PROVE Promised!Next
    <3>0. inbox[o] \in Files /\ client[o] \in Files /\ Agree(o, client[o], inbox[o])
      BY <2>5, <1>2, ClientSends
    <3>1. CASE /\ said' = said + 1 /\ UNCHANGED pruned
               /\ {<<"teammate", said'>>} \in Files
               /\ inbox' = [inbox EXCEPT ![o] = client[o] \cup {<<"teammate", said'>>}]
               /\ written' = [written EXCEPT ![o] = @ \cup {<<"teammate", said'>>}]
               /\ \/ UNCHANGED clashed
                  \/ clashed' = [clashed EXCEPT ![o] = @ \cup {<<"teammate", said'>>}]
      <4> DEFINE e == <<"teammate", said'>>
      <4>1. said' \in Nat /\ ~(said' =< said)
        BY <3>1, <2>0
      <4>2. \A a \in Agents : e \notin written[a]
        BY <4>1, <1>2 DEF Unsent
      <4>3. client[o] \cup {e} \in Files
        BY <3>0, <3>1 DEF Files
      <4>4. Agree(o, client[o] \cup {e}, inbox[o] \cup {e})
        BY <3>0 DEF Agree
      <4>5. {e} \in Files /\ UNCHANGED pruned
            /\ inbox' = [inbox EXCEPT ![o] = (client[o] \cup {e}) \cup {e}]
            /\ written' = [written EXCEPT ![o] = @ \cup {e}]
            /\ (UNCHANGED clashed \/ clashed' = [clashed EXCEPT ![o] = @ \cup {e}])
        <5>1. (client[o] \cup {e}) \cup {e} = client[o] \cup {e}
          OBVIOUS
        <5> QED BY <3>1, <5>1
      <4> HIDE DEF e
      <4> QED BY <3>0, <4>2, <4>3, <4>4, <4>5, <2>1
    <3>2. CASE /\ inbox' = [inbox EXCEPT ![o] = {}]
               /\ pruned' = [pruned EXCEPT ![o] = @ \cup client[o]]
               /\ UNCHANGED <<said, written>>
               /\ \/ UNCHANGED clashed
                  \/ clashed' = [clashed EXCEPT ![o] = @ \cup client[o]]
      <4>1. inbox[o] \notin {Absent, Malformed} /\ UNCHANGED Sent
        BY <2>0, <3>0, <3>2
      <4>2. client[o] \ clashed[o] = inbox[o] \ clashed[o]
        BY <3>0 DEF Agree
      <4>3. clashed[o] \cup client[o] = clashed[o] \cup inbox[o]
        BY <4>2
      <4>4. Promised!MaySet(o, inbox[o])
        BY <4>3, <3>2, <2>0 DEF Promised!MaySet
      <4>5. client[o] \ clashed'[o] = inbox[o] \ clashed'[o]
        <5>1. clashed[o] \subseteq clashed'[o]
          BY <3>2, <2>0
        <5> QED BY <4>2, <5>1
      <4>6. client[o] \in SUBSET Entries /\ Promised!Same(o, client[o], inbox[o])
        BY <3>0, <4>5 DEF Promised!Same, Files
      <4>7. pruned' = [pruned EXCEPT ![o] = @ \cup client[o]] /\ inbox' = [inbox EXCEPT ![o] = {}]
        BY <3>2
      <4> HIDE DEF Sent
      <4>8. Promised!Empties(o)
        BY <4>1, <4>4, <4>6, <4>7 DEF Promised!Empties, Sent
      <4> QED BY <4>8 DEF Promised!Next
    <3> QED BY <3>1, <3>2, <2>5, <1>2, ClientSends
  <2> QED BY <2>2, <2>3, <2>4, <2>5
<1> HIDE DEF Sent
<1>3. Init /\ []IInv /\ []Unsent /\ [][Next]_vars
         => Promised!Init /\ [][Promised!Next]_<<inbox, Sent, pruned, clashed>>
  BY <1>1, <1>2, PTL
<1> QED BY <1>3, Invariance, UnsentAlways, PTL DEF Spec, KeepsMailboxes, Promised!Spec, Sent

(* A nudge goes to the teammate it was asked for, unless the rows moved    *)
(* under its overlay.                                                      *)
THEOREM NudgesAreChosen == Spec => []ChosenUnlessShifted
<1>1. IInv => ChosenUnlessShifted
  BY DEF IInv, Chosen
<1> QED BY Invariance, <1>1, PTL

(* A board that comes back to its keys has written its nudge or shows an   *)
(* error.                                                                  *)
THEOREM NudgesAreAccounted == Spec => SentOrSaid
<1> DEFINE Accounted(b) == Entry(b) \in written'[nudge[b].to] \/ overlay'[b] = Error
<1>1. ASSUME IInv, Next, NEW b \in Boards, Busy(b), pc'[b] = "idle" PROVE Accounted(b)
  <2>1. /\ overlay \in [Boards -> Panels] /\ written \in [Agents -> Files]
        /\ pc \in [Boards -> Steps] /\ nudge[b].to \in Agents
    BY <1>1 DEF IInv, Drawn, Shape, Sending, Addressed
  <2>2. pc[b] # "idle" /\ pc'[b] = "idle"
    BY <1>1 DEF Busy
  <2>3. ASSUME NEW c \in Boards, LookForInbox(c) PROVE Accounted(b)
    BY <2>1, <2>2, <2>3 DEF LookForInbox, At, Leaves, Fails
  <2>4. ASSUME NEW c \in Boards, AcquireLock(c) PROVE Accounted(b)
    BY <2>1, <2>2, <2>4 DEF AcquireLock, At, Leaves, Fails, LockContention
  <2>5. ASSUME NEW c \in Boards, ReadInbox(c) PROVE Accounted(b)
    BY <2>1, <2>2, <2>5 DEF ReadInbox, At, Leaves, Fails
  <2>6. ASSUME NEW c \in Boards, WriteCopy(c) PROVE Accounted(b)
    BY <2>1, <2>2, <2>6 DEF WriteCopy, At, Leaves, Fails
  <2>7. ASSUME NEW c \in Boards, Rename(c) PROVE Accounted(b)
    BY <2>1, <2>2, <2>7 DEF Rename, At, Leaves, Fails
  <2>8. ASSUME NEW c \in Boards, Die(c) PROVE Accounted(b)
    BY <2>1, <2>2, <2>8 DEF Die, Leaves
  <2>9. ASSUME NEW c \in Boards,
               Refresh(c) \/ Up(c) \/ Down(c) \/ AskNudge(c) \/ Dismiss(c) \/ Confirm(c) \/ Quit(c)
        PROVE  Accounted(b)
    BY <2>1, <2>2, <2>9 DEF Refresh, Up, Down, AskNudge, Dismiss, Confirm, Quit, Idle
  <2>10. CASE TeamChanges \/ \E a \in Agents : ClientCreates(a) \/ ClientReads(a) \/ ClientWrites(a)
    BY <2>2, <2>10 DEF TeamChanges, ClientCreates, ClientReads, ClientWrites, board
  <2> QED BY <2>3, <2>4, <2>5, <2>6, <2>7, <2>8, <2>9, <2>10, <1>1 DEF Next
<1>2. IInv /\ [Next]_vars => [\A b \in Boards : Busy(b) /\ pc'[b] = "idle" => Accounted(b)]_vars
  BY <1>1
<1> QED BY <1>2, Invariance, PTL DEF Spec, SentOrSaid
=============================================================================
