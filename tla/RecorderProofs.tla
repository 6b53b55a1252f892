--------------------------- MODULE RecorderProofs ---------------------------
(***************************************************************************)
(* What Recorder says of the log, for any number of agents, tasks and      *)
(* hooks: it follows what the recorder knows, and no event of a hook is    *)
(* recorded twice or passed over.                                          *)
(***************************************************************************)
EXTENDS Recorder, FiniteSetTheorems, SequenceTheorems, WellFoundedInduction, TLAPS

-----------------------------------------------------------------------------
(* The invariant of the records of a tick. *)

AgentRecords == {AgentRecord(m, r) : m \in Members, r \in Reasons}
TaskDeltas == {TaskDelta(t, f, g) : t \in Tasks, f \in TaskFiles, g \in TaskFiles}
HookSignals == {HookSignal(e) : e \in Signals}
AllRecords == AgentRecords \cup TaskDeltas \cup HookSignals

(* The records appear in the order of the tick's readings, and are appended at its end. *)
Phased ==
    /\ rpc = "sleep" => records = <<>>
    /\ rpc = "tasks" => \A i \in DOMAIN records : records[i] \in AgentRecords
    /\ rpc = "spool" => \A i \in DOMAIN records : records[i] \in AgentRecords \cup TaskDeltas

(* A tick has one record of an agent, a task or an event. *)
OneEach ==
    \A i, j \in DOMAIN records :
        records[i].type = records[j].type /\ records[i].of = records[j].of => i = j

Typed == TypeOK /\ records \in Seq(AllRecords) /\ Phased

(* This record is of that agent or task. *)
IsOf(i, type, x) == records[i].type = type /\ records[i].of = x

(* What is known of an agent is in the log, or will be. *)
AgentsFollow ==
    \A m \in Members :
        \/ known[m] = None
        \/ known[m] = last[m] /\ \A i \in DOMAIN records : ~IsOf(i, "agent", m)
        \/ \E i \in DOMAIN records : IsOf(i, "agent", m) /\ records[i].now = known[m]

(* What is known of a task is where its deltas lead, or will. *)
TasksFollow ==
    \A t \in Tasks :
        \/ knownTask[t] = Absent /\ \A i \in DOMAIN records : ~IsOf(i, "task", t)
        \/ knownTask[t] = lastTask[t] /\ \A i \in DOMAIN records : ~IsOf(i, "task", t)
        \/ \E i \in DOMAIN records :
              /\ IsOf(i, "task", t)
              /\ records[i].was = lastTask[t] /\ records[i].now = knownTask[t]

Follows == "records" \notin lost => AgentsFollow /\ TasksFollow

-----------------------------------------------------------------------------
(* The invariant of the spool. *)

(* Each hook writes its line once, to a file that is then there. *)
WrittenOnce ==
    /\ ~exists => spool = <<>> /\ \A e \in Signals : hpc[e] # "newline"
    /\ \A i \in DOMAIN spool : spool[i] # Newline => hpc[spool[i]] \in {"newline", "done"}
    /\ \A i, j \in DOMAIN spool : spool[i] = spool[j] /\ spool[i] # Newline => i = j

(* The event is in the log, or in a record on its way there. *)
Taken(e) == logged[e] > 0 \/ \E i \in DOMAIN records : records[i] = HookSignal(e)

(* What has been taken from the spool is behind the offset, and is taken once. *)
TakenBehind ==
    \A e \in Signals :
        /\ Taken(e) => hpc[e] \in {"newline", "done"}
        /\ Taken(e) /\ offset # None =>
              \A i \in DOMAIN spool : spool[i] = e => i =< offset
        /\ logged[e] =< 1
        /\ logged[e] = 1 => \A i \in DOMAIN records : records[i] # HookSignal(e)

Spooled == Typed /\ WrittenOnce /\ OneEach /\ TakenBehind

(* As long as nothing is lost, the offset is behind a newline or where it began. *)
OffsetAtLine ==
    lost = {} /\ offset # None =>
        /\ base \in Nat
        /\ base =< offset /\ offset =< Len(spool)
        /\ offset = base \/ spool[offset] = Newline

-----------------------------------------------------------------------------
(* Facts about the operators. *)

(* SetToSeq lists every element of a finite set, each once. *)
LEMMA SetToSeqLists ==
    ASSUME NEW S, IsFiniteSet(S)
    PROVE  /\ SetToSeq(S) \in Seq(S)
           /\ \A i, j \in DOMAIN SetToSeq(S) : SetToSeq(S)[i] = SetToSeq(S)[j] => i = j
           /\ \A x \in S : \E i \in DOMAIN SetToSeq(S) : SetToSeq(S)[i] = x
<1> DEFINE n == Cardinality(S)
           Lists == {f \in [1..n -> S] : IsInjective(f)}
           s == SetToSeq(S)
<1>1. n \in Nat /\ ExistsBijection(1..n, S)
  BY FS_CardinalityType
<1>2. Lists # {}
  BY <1>1 DEF ExistsBijection, Bijection, Injection
<1>3. s = CHOOSE f \in [1..n -> S] : IsInjective(f)
  BY DEF SetToSeq
<1>4. s \in [1..n -> S] /\ IsInjective(s)
  BY <1>2, <1>3
<1>5. s \in Seq(S)
  BY <1>1, <1>4, SeqDef
<1>6. IsFiniteSet(1..n) /\ Cardinality(1..n) = n
  BY <1>1, FS_Interval
<1>7. s \in Injection(1..n, S)
  BY <1>4 DEF Injection
<1>8. s \in Surjection(1..n, S)
  BY <1>6, <1>7, FS_Injection
<1> QED BY <1>4, <1>5, <1>8 DEF IsInjective, Surjection

(***************************************************************************)
(* Ascending lists every element of a finite set of numbers, each once:    *)
(* how many elements are no larger than it tells each from the others.     *)
(***************************************************************************)
LEMMA AscendingLists ==
    ASSUME NEW S \in SUBSET Nat, IsFiniteSet(S)
    PROVE  /\ Ascending(S) \in Seq(S)
           /\ \A k, l \in DOMAIN Ascending(S) : Ascending(S)[k] = Ascending(S)[l] => k = l
           /\ \A x \in S : \E k \in DOMAIN Ascending(S) : Ascending(S)[k] = x
<1> DEFINE n == Cardinality(S)
           Below(i) == {j \in S : j =< i}
           rank == [i \in S |-> Cardinality(Below(i))]
<1>1. n \in Nat
  BY FS_CardinalityType
<1>2. ASSUME NEW i \in S
      PROVE  IsFiniteSet(Below(i)) /\ Cardinality(Below(i)) \in 1..n
  <2>1. Below(i) \in SUBSET S
    OBVIOUS
  <2>2. IsFiniteSet(Below(i)) /\ Cardinality(Below(i)) =< n
    BY <2>1, FS_Subset
  <2>3. Cardinality(Below(i)) \in Nat
    BY <2>2, FS_CardinalityType
  <2>4. i \in Below(i)
    OBVIOUS
  <2>5. Cardinality(Below(i)) # 0
    BY <2>2, <2>4, FS_EmptySet
  <2> HIDE DEF n, Below
  <2> QED BY <1>1, <2>2, <2>3, <2>5
<1>3. ASSUME NEW i \in S, NEW j \in S, i < j
      PROVE  Cardinality(Below(i)) # Cardinality(Below(j))
  <2>1. Below(i) \in SUBSET Below(j)
    <3> SUFFICES ASSUME NEW l \in S, l =< i PROVE l =< j
      OBVIOUS
    <3>1. l \in Nat /\ i \in Nat /\ j \in Nat
      OBVIOUS
    <3> QED BY <1>3, <3>1
  <2>2. j \in Below(j) /\ j \notin Below(i)
    BY <1>3
  <2>3. IsFiniteSet(Below(j))
    BY <1>2
  <2> QED BY <2>1, <2>2, <2>3, FS_Subset
<1>4. rank \in Injection(S, 1..n)
  <2>1. rank \in [S -> 1..n]
    BY <1>2
  <2>2. \A i, j \in S : rank[i] = rank[j] => i = j
    <3> SUFFICES ASSUME NEW i \in S, NEW j \in S, i # j PROVE rank[i] # rank[j]
      OBVIOUS
    <3>1. i \in Nat /\ j \in Nat
      OBVIOUS
    <3>2. i < j \/ j < i
      BY <3>1
    <3> QED BY <1>3, <3>2
  <2> HIDE DEF rank, n
  <2> QED BY <2>1, <2>2 DEF Injection, IsInjective
<1>5. rank \in Surjection(S, 1..n)
  <2>1. IsFiniteSet(1..n) /\ Cardinality(1..n) = n
    BY <1>1, FS_Interval
  <2> HIDE DEF rank
  <2> QED BY <1>4, <2>1, FS_Injection
<1>6. \A k \in 1..n : \E i \in S : rank[i] = k
  BY <1>5 DEF Surjection
<1>7. \A k \in 1..n : Ascending(S)[k] \in S /\ rank[Ascending(S)[k]] = k
  <2> SUFFICES ASSUME NEW k \in 1..n
               PROVE  Ascending(S)[k] \in S /\ rank[Ascending(S)[k]] = k
    OBVIOUS
  <2>1. Ascending(S)[k] = CHOOSE i \in S : Cardinality(Below(i)) = k
    BY DEF Ascending
  <2>2. \E i \in S : Cardinality(Below(i)) = k
    BY <1>6
  <2>3. Ascending(S)[k] \in S /\ Cardinality(Below(Ascending(S)[k])) = k
    BY <2>1, <2>2
  <2> QED BY <2>3
<1>8. DOMAIN Ascending(S) = 1..n /\ Ascending(S) \in [1..n -> S]
  <2> DEFINE nth(k) == CHOOSE i \in S : Cardinality({j \in S : j =< i}) = k
  <2>1. Ascending(S) = [k \in 1..n |-> nth(k)]
    BY DEF Ascending
  <2> HIDE DEF nth
  <2>2. \A k \in 1..n : Ascending(S)[k] = nth(k)
    BY <2>1
  <2> HIDE DEF n, rank
  <2> QED BY <1>7, <2>1, <2>2
<1>9. Ascending(S) \in Seq(S)
  <2> HIDE DEF n, rank
  <2> QED BY <1>1, <1>8, SeqDef
<1>10. \A x \in S : Ascending(S)[rank[x]] = x /\ rank[x] \in 1..n
  <2> SUFFICES ASSUME NEW x \in S PROVE Ascending(S)[rank[x]] = x /\ rank[x] \in 1..n
    OBVIOUS
  <2>1. rank[x] \in 1..n
    BY <1>4 DEF Injection
  <2>2. Ascending(S)[rank[x]] \in S /\ rank[Ascending(S)[rank[x]]] = rank[x]
    BY <1>7, <2>1
  <2> HIDE DEF rank, n
  <2> QED BY <1>4, <2>1, <2>2 DEF Injection, IsInjective
<1> HIDE DEF n, rank
<1> QED BY <1>7, <1>8, <1>9, <1>10

(* The last newline beyond the offset, where there is one. *)
LEMMA ConsumedToIsLast ==
    ASSUME TypeOK
    PROVE  /\ Start \in Nat /\ ConsumedTo \in Nat
           /\ Ends = {} => ConsumedTo = Start
           /\ Ends # {} => ConsumedTo \in Ends
           /\ \A j \in Ends : j =< ConsumedTo
<1>1. spool \in Seq(Signals \cup {Newline}) /\ offset \in Nat \cup {None}
  BY DEF TypeOK
<1>2. Len(spool) \in Nat /\ Start \in Nat
  BY <1>1 DEF Start
<1>3. \A j \in Ends : j \in Nat /\ j =< Len(spool)
  BY <1>2 DEF Ends
<1>4. CASE Ends = {}
  BY <1>2, <1>4 DEF ConsumedTo
<1>5. CASE Ends # {}
  <2> DEFINE Room == {Len(spool) - x : x \in Ends}
             Less == OpToRel(<, Nat)
  <2>1. Room \subseteq Nat /\ Room # {}
    BY <1>2, <1>3, <1>5
  <2>2. PICK r \in Room : \A q \in Room : r =< q
    <3>1. IsWellFoundedOn(Less, Nat)
      BY NatLessThanWellFounded, Zenon
    <3> HIDE DEF Room, Less
    <3>2. PICK r \in Room : \A q \in Room : <<q, r>> \notin Less
      BY <2>1, <3>1, WFMin
    <3>3. \A q \in Room : ~(q < r)
      BY <2>1, <3>2 DEF Less, OpToRel
    <3> QED BY <2>1, <3>2, <3>3
  <2>3. PICK x \in Ends : r = Len(spool) - x
    BY <2>2
  <2>4. \A j \in Ends : j =< x
    <3> SUFFICES ASSUME NEW j \in Ends PROVE j =< x
      OBVIOUS
    <3>1. r =< Len(spool) - j
      BY <2>2
    <3> QED BY <1>2, <1>3, <2>3, <3>1
  <2>5. ConsumedTo = CHOOSE i \in Ends : \A j \in Ends : j =< i
    BY <1>5 DEF ConsumedTo
  <2>6. ConsumedTo \in Ends /\ \A j \in Ends : j =< ConsumedTo
    BY <2>4, <2>5, Zenon
  <2> QED BY <1>2, <1>3, <1>5, <2>6
<1> QED BY <1>4, <1>5

(* Every agent that is gathered has one of the reasons. *)
LEMMA ReasonTyped == ASSUME FactsTypeOK, NEW m \in Members PROVE ReasonOf(m) \in Reasons
<1> DEFINE f == Gather(m)
<1>1. /\ f.status \in Statuses \cup {"unknown"} /\ f.blocked \in BOOLEAN
      /\ f.quiet \in Ages \cup {None} /\ f.unread \in Ages \cup {None}
  BY DEF FactsTypeOK, Gather, OwnedTaskBlocked
<1> HIDE DEF f
<1>2. <<"permission">> \in Reasons /\ <<"dependency">> \in Reasons
      /\ <<"complete">> \in Reasons /\ <<"waiting">> \in Reasons
  BY DEF Reasons
<1>3. \A a \in Ages : /\ <<"stalled", "stalled", a>> \in Reasons
                      /\ <<"stalled", "quiet", a>> \in Reasons
  BY DEF Reasons
<1>4. IsStalled(f) => f.quiet \in Ages
  BY <1>1 DEF IsStalled, AtLeast
<1>5. IsQuiet(f) => SecsOf(f) \in Ages
  BY <1>1 DEF IsQuiet, AtLeast, SecsOf
<1>6. Classify(f) \in Reasons
  <2>1. CASE f.status = "blocked" BY <1>2, <2>1 DEF Classify, Quiescent
  <2>2. CASE f.status # "blocked" /\ f.blocked BY <1>2, <2>2 DEF Classify, Quiescent
  <2>3. CASE f.status = "idle" /\ ~f.blocked
    <3>1. CASE IsStalled(f) BY <1>3, <1>4, <2>3, <3>1 DEF Classify, Quiescent
    <3>2. CASE ~IsStalled(f) /\ IsQuiet(f) BY <1>3, <1>5, <2>3, <3>2 DEF Classify, Quiescent
    <3>3. CASE ~IsStalled(f) /\ ~IsQuiet(f) BY <1>2, <2>3, <3>3 DEF Classify, Quiescent
    <3> QED BY <3>1, <3>2, <3>3
  <2>4. CASE f.status = "working" /\ ~f.blocked BY <1>2, <2>4 DEF Classify, Quiescent
  <2>5. CASE f.status = "unknown" /\ ~f.blocked BY <1>2, <2>5 DEF Classify, Quiescent
  <2> QED BY <1>1, <2>1, <2>2, <2>3, <2>4, <2>5 DEF Statuses
<1> QED BY <1>6 DEF ReasonOf, f

(* The world keeps the facts in their ranges. *)
LEMMA WorldTyped == ASSUME FactsTypeOK, World PROVE FactsTypeOK'
<1>1. /\ config \in BOOLEAN /\ pane \in Statuses \cup {None} /\ quiet \in Ages \cup {None}
      /\ unread \in [Members -> Ages \cup {None}]
      /\ tasks \in [Tasks -> TaskFiles \cup {Absent}] /\ changes \in 0..MaxChanges
      /\ MaxChanges \in Nat /\ MaxAge \in Nat /\ 0 \in Ages
  BY FactsAssumption DEF FactsTypeOK, Ages
<1>2. \A a \in Ages \cup {None} : Older(a) \in Ages \cup {None}
  BY <1>1 DEF Older, Ages
<1>3. ASSUME ConfigChanges PROVE FactsTypeOK'
  BY <1>1, <1>3 DEF ConfigChanges, WorldChanges, FactsTypeOK
<1>4. ASSUME LeadChanges PROVE FactsTypeOK'
  BY <1>1, <1>4 DEF LeadChanges, WorldChanges, FactsTypeOK
<1>5. ASSUME TimePasses PROVE FactsTypeOK'
  <2>1. quiet' \in Ages \cup {None} /\ unread' \in [Members -> Ages \cup {None}]
    BY <1>1, <1>2, <1>5 DEF TimePasses
  <2> QED BY <1>1, <1>5, <2>1 DEF TimePasses, WorldChanges, FactsTypeOK
<1>6. ASSUME NEW m \in Members, MessageArrives(m) \/ InboxRead(m) PROVE FactsTypeOK'
  BY <1>1, <1>6 DEF MessageArrives, InboxRead, WorldChanges, FactsTypeOK
<1>7. ASSUME NEW t \in Tasks, TaskWritten(t) PROVE FactsTypeOK'
  BY <1>1, <1>7 DEF TaskWritten, WorldChanges, FactsTypeOK
<1> QED BY <1>3, <1>4, <1>5, <1>6, <1>7 DEF World

-----------------------------------------------------------------------------
(* The records a tick makes, and what appending them does. *)

(* The three types of record have nothing in common. *)
LEMMA RecordTypes ==
    /\ \A r \in AgentRecords : /\ r.type = "agent" /\ r.of \in Members /\ r.now \in Reasons
                               /\ \A e : r # HookSignal(e)
    /\ \A r \in TaskDeltas : /\ r.type = "task" /\ r.of \in Tasks
                             /\ r.was \in TaskFiles /\ r.now \in TaskFiles
                             /\ \A e : r # HookSignal(e)
    /\ \A r \in HookSignals : r.type = "signal" /\ r.of \in Signals /\ r = HookSignal(r.of)
    /\ \A e : HookSignal(e).type = "signal" /\ HookSignal(e).of = e
    /\ \A t, f, g : /\ TaskDelta(t, f, g).type = "task" /\ TaskDelta(t, f, g).of = t
                    /\ TaskDelta(t, f, g).was = f /\ TaskDelta(t, f, g).now = g
BY DEF AgentRecords, TaskDeltas, HookSignals, AgentRecord, TaskDelta, HookSignal

(* The elements of a concatenation. *)
LEMMA ConcatElements ==
    ASSUME NEW S, NEW s \in Seq(S), NEW t \in Seq(S)
    PROVE  /\ s \o t \in Seq(S) /\ DOMAIN (s \o t) = 1..Len(s) + Len(t)
           /\ \A i \in 1..Len(s) + Len(t) :
                 (s \o t)[i] = IF i =< Len(s) THEN s[i] ELSE t[i - Len(s)]
OBVIOUS

(* The types of the variables that hold records and what is known. *)
LEMMA TypedParts ==
    ASSUME Typed
    PROVE  /\ spool \in Seq(Signals \cup {Newline}) /\ offset \in Nat \cup {None}
           /\ hpc \in [Signals -> {"start", "line", "newline", "done", "astray"}]
           /\ known \in [Members -> Reasons \cup {None}]
           /\ knownTask \in [Tasks -> TaskFiles \cup {Absent}]
           /\ tasks \in [Tasks -> TaskFiles \cup {Absent}]
           /\ last \in [Members -> Reasons \cup {None}]
           /\ lastTask \in [Tasks -> TaskFiles \cup {Absent}]
           /\ logged \in [Signals -> Nat] /\ base \in Nat \cup {None}
           /\ records \in Seq(AllRecords) /\ Len(records) \in Nat
           /\ DOMAIN records = 1..Len(records)
           /\ \A i \in DOMAIN records : records[i] \in AllRecords
<1>1. records \in Seq(AllRecords)
  BY DEF Typed
<1>2. Len(records) \in Nat /\ DOMAIN records = 1..Len(records)
      /\ \A i \in DOMAIN records : records[i] \in AllRecords
  BY <1>1
<1> QED BY <1>1, <1>2 DEF Typed, TypeOK, FactsTypeOK

(* There are finitely many agents and tasks to be listed. *)
LEMMA AgentsFinite == IsFiniteSet(Members) /\ IsFiniteSet(Tasks)
BY FactsAssumption, FS_AddElement DEF Members

(* The first reading makes one record of each agent that has changed. *)
LEMMA NewAgents ==
    ASSUME Typed, TickAgents
    PROVE  /\ records' \in Seq(AllRecords)
           /\ \A i \in DOMAIN records' : records'[i] \in AgentRecords /\ records'[i].of \in Changed
           /\ \A m \in Changed : \E i \in DOMAIN records' :
                 IsOf(i, "agent", m)' /\ records'[i].now = ReasonOf(m)
           /\ OneEach'
<1> DEFINE new == SetToSeq(Changed)
<1>1. Changed \in SUBSET Members
  BY DEF Changed, Gathered
<1>2. IsFiniteSet(Changed)
  BY <1>1, AgentsFinite, FS_Subset
<1>3. /\ new \in Seq(Changed)
      /\ \A i, j \in DOMAIN new : new[i] = new[j] => i = j
      /\ \A x \in Changed : \E i \in DOMAIN new : new[i] = x
  BY <1>2, SetToSeqLists
<1>4. records' = [i \in DOMAIN new |-> AgentRecord(new[i], ReasonOf(new[i]))]
  BY DEF TickAgents
<1>5. \A m \in Changed : AgentRecord(m, ReasonOf(m)) \in AgentRecords
  BY <1>1, ReasonTyped DEF AgentRecords, Typed, TypeOK
<1> HIDE DEF new
<1>6. DOMAIN new = 1..Len(new) /\ Len(new) \in Nat /\ \A i \in DOMAIN new : new[i] \in Changed
  BY <1>3
<1>7. DOMAIN records' = DOMAIN new /\ \A i \in DOMAIN new :
         /\ records'[i] \in AgentRecords /\ records'[i].of = new[i]
         /\ records'[i].type = "agent" /\ records'[i].now = ReasonOf(new[i])
  BY <1>4, <1>5, <1>6 DEF AgentRecord
<1>8. records' \in Seq(AllRecords)
  BY <1>4, <1>5, <1>6, <1>7, SeqDef DEF AllRecords
<1>9. \A m \in Changed : \E i \in DOMAIN records' :
         IsOf(i, "agent", m)' /\ records'[i].now = ReasonOf(m)
  <2> SUFFICES ASSUME NEW m \in Changed
               PROVE  \E i \in DOMAIN records' :
                         IsOf(i, "agent", m)' /\ records'[i].now = ReasonOf(m)
    OBVIOUS
  <2>1. PICK i \in DOMAIN new : new[i] = m BY <1>3
  <2>2. i \in DOMAIN records' /\ IsOf(i, "agent", m)' /\ records'[i].now = ReasonOf(m)
    BY <1>7, <2>1 DEF IsOf
  <2> QED BY <2>2
<1>10. OneEach'
  BY <1>3, <1>7 DEF OneEach
<1> QED BY <1>6, <1>7, <1>8, <1>9, <1>10

(* A task makes a delta when it was known and is not as it was known. *)
Moved == {t \in Present : knownTask[t] \notin {Absent, tasks[t]}}

(* The second reading adds one delta for each task that has moved. *)
LEMMA NewDeltas ==
    ASSUME Typed, OneEach, TickTasks
    PROVE  /\ records' \in Seq(AllRecords)
           /\ \A i \in DOMAIN records' :
                 \/ /\ i \in DOMAIN records /\ records[i] \in AgentRecords
                    /\ records'[i] = records[i]
                 \/ \E t \in Moved : records'[i] = TaskDelta(t, knownTask[t], tasks[t])
           /\ \A i \in DOMAIN records : i \in DOMAIN records' /\ records'[i] = records[i]
           /\ \A t \in Moved : \E i \in DOMAIN records' :
                 records'[i] = TaskDelta(t, knownTask[t], tasks[t])
           /\ \A t \in Moved : TaskDelta(t, knownTask[t], tasks[t]) \in TaskDeltas
           /\ OneEach'
<1> DEFINE new == SetToSeq(Moved)
           add == [i \in DOMAIN new |-> TaskDelta(new[i], knownTask[new[i]], tasks[new[i]])]
<1>0. /\ records \in Seq(AllRecords) /\ Len(records) \in Nat /\ DOMAIN records = 1..Len(records)
      /\ knownTask \in [Tasks -> TaskFiles \cup {Absent}]
      /\ tasks \in [Tasks -> TaskFiles \cup {Absent}]
  BY TypedParts
<1>1. Moved \in SUBSET Tasks
  BY DEF Moved, Present
<1>2. IsFiniteSet(Moved)
  BY <1>1, AgentsFinite, FS_Subset
<1>3. /\ new \in Seq(Moved)
      /\ \A i, j \in DOMAIN new : new[i] = new[j] => i = j
      /\ \A x \in Moved : \E i \in DOMAIN new : new[i] = x
  BY <1>2, SetToSeqLists
<1>4. records' = records \o add
  BY DEF TickTasks, Moved
<1>5. \A t \in Moved : TaskDelta(t, knownTask[t], tasks[t]) \in TaskDeltas
  BY <1>0, <1>1 DEF TaskDeltas, Moved, Present
<1> HIDE DEF new
<1>6. DOMAIN new = 1..Len(new) /\ Len(new) \in Nat /\ \A i \in DOMAIN new : new[i] \in Moved
  BY <1>3
<1>7. \A i \in DOMAIN records : records[i] \in AgentRecords
  BY DEF TickTasks, TickGoes, Typed, Phased
<1>8. /\ add \in Seq(AllRecords) /\ Len(add) = Len(new) /\ DOMAIN add = DOMAIN new
      /\ \A i \in DOMAIN add : add[i] = TaskDelta(new[i], knownTask[new[i]], tasks[new[i]])
  <2>1. \A i \in 1..Len(new) : TaskDelta(new[i], knownTask[new[i]], tasks[new[i]]) \in AllRecords
    BY <1>5, <1>6 DEF AllRecords
  <2>2. add \in [1..Len(new) -> AllRecords]
    BY <1>6, <2>1
  <2>3. add \in Seq(AllRecords)
    BY <1>6, <2>2, SeqDef
  <2>4. DOMAIN add = 1..Len(new)
    BY <1>6
  <2>5. Len(add) = Len(new)
    BY <1>6, <2>3, <2>4
  <2> QED BY <1>6, <2>3, <2>4, <2>5
<1> HIDE DEF add
<1>9. /\ records' \in Seq(AllRecords) /\ DOMAIN records' = 1..Len(records) + Len(add)
      /\ \A i \in 1..Len(records) + Len(add) :
            records'[i] = IF i =< Len(records) THEN records[i] ELSE add[i - Len(records)]
  BY <1>0, <1>4, <1>8, ConcatElements
<1>10. \A i \in DOMAIN records : i \in DOMAIN records' /\ records'[i] = records[i]
  BY <1>0, <1>6, <1>8, <1>9
<1>11. \A j \in DOMAIN new : Len(records) + j \in DOMAIN records'
          /\ records'[Len(records) + j] = TaskDelta(new[j], knownTask[new[j]], tasks[new[j]])
  <2> SUFFICES ASSUME NEW j \in DOMAIN new
               PROVE  /\ Len(records) + j \in DOMAIN records'
                      /\ records'[Len(records) + j] = add[j]
    BY <1>8
  <2> QED BY <1>0, <1>6, <1>8, <1>9
<1>12. ASSUME NEW i \in DOMAIN records', i \notin DOMAIN records
       PROVE  \E j \in DOMAIN new : i = Len(records) + j
  <2>1. i - Len(records) \in 1..Len(new) /\ i = Len(records) + (i - Len(records))
    BY <1>0, <1>6, <1>8, <1>9, <1>12
  <2> QED BY <1>6, <2>1
<1>13. \A i \in DOMAIN records' :
          \/ i \in DOMAIN records /\ records[i] \in AgentRecords /\ records'[i] = records[i]
          \/ \E t \in Moved : records'[i] = TaskDelta(t, knownTask[t], tasks[t])
  <2> SUFFICES ASSUME NEW i \in DOMAIN records', i \notin DOMAIN records
               PROVE  \E t \in Moved : records'[i] = TaskDelta(t, knownTask[t], tasks[t])
    BY <1>7, <1>10
  <2>1. PICK j \in DOMAIN new : i = Len(records) + j BY <1>12
  <2> QED BY <1>6, <1>11, <2>1
<1>14. \A t \in Moved : \E i \in DOMAIN records' :
          records'[i] = TaskDelta(t, knownTask[t], tasks[t])
  <2> SUFFICES ASSUME NEW t \in Moved
               PROVE  \E i \in DOMAIN records' :
                         records'[i] = TaskDelta(t, knownTask[t], tasks[t])
    OBVIOUS
  <2>1. PICK j \in DOMAIN new : new[j] = t BY <1>3
  <2> QED BY <1>11, <2>1
<1>15. OneEach'
  <2> SUFFICES ASSUME NEW i \in DOMAIN records', NEW j \in DOMAIN records',
                      records'[i].type = records'[j].type, records'[i].of = records'[j].of
               PROVE  i = j
    BY DEF OneEach
  <2>1. \A k \in DOMAIN records : records'[k] = records[k] /\ records'[k].type = "agent"
    BY <1>7, <1>10, RecordTypes
  <2>2. \A k \in DOMAIN new : /\ records'[Len(records) + k].type = "task"
                              /\ records'[Len(records) + k].of = new[k]
    BY <1>11, RecordTypes
  <2>3. CASE i \in DOMAIN records /\ j \in DOMAIN records
    BY <2>1, <2>3 DEF OneEach
  <2>4. CASE i \notin DOMAIN records /\ j \notin DOMAIN records
    <3>1. PICK k \in DOMAIN new : i = Len(records) + k BY <1>12, <2>4
    <3>2. PICK l \in DOMAIN new : j = Len(records) + l BY <1>12, <2>4
    <3> QED BY <1>3, <2>2, <3>1, <3>2
  <2>5. CASE i \in DOMAIN records /\ j \notin DOMAIN records
    <3>1. PICK l \in DOMAIN new : j = Len(records) + l BY <1>12, <2>5
    <3> QED BY <2>1, <2>2, <2>5, <3>1
  <2>6. CASE i \notin DOMAIN records /\ j \in DOMAIN records
    <3>1. PICK k \in DOMAIN new : i = Len(records) + k BY <1>12, <2>6
    <3> QED BY <2>1, <2>2, <2>6, <3>1
  <2> QED BY <2>3, <2>4, <2>5, <2>6
<1> QED BY <1>5, <1>9, <1>10, <1>13, <1>14, <1>15

(* The places of the spool that TickSpool takes for events. *)
Found == {i \in 1..Len(spool) : IsEvent(i)}

(* The third reading adds one record for each event in the spool. *)
LEMMA NewSignals ==
    ASSUME Typed, WrittenOnce, OneEach, TickSpool
    PROVE  /\ records' \in Seq(AllRecords)
           /\ \A i \in DOMAIN records' :
                 \/ /\ i \in DOMAIN records /\ records[i] \in AgentRecords \cup TaskDeltas
                    /\ records'[i] = records[i]
                 \/ \E k \in Found : records'[i] = HookSignal(spool[k])
           /\ \A i \in DOMAIN records : i \in DOMAIN records' /\ records'[i] = records[i]
           /\ \A k \in Found : \E i \in DOMAIN records' : records'[i] = HookSignal(spool[k])
           /\ \A k \in Found : spool[k] \in Signals
           /\ OneEach'
<1> DEFINE new == Ascending(Found)
           add == [i \in DOMAIN new |-> HookSignal(spool[new[i]])]
<1>0. /\ records \in Seq(AllRecords) /\ Len(records) \in Nat /\ DOMAIN records = 1..Len(records)
      /\ spool \in Seq(Signals \cup {Newline})
  BY TypedParts
<1>1. /\ Len(spool) \in Nat /\ DOMAIN spool = 1..Len(spool)
      /\ \A i \in DOMAIN spool : spool[i] \in Signals \cup {Newline}
  BY <1>0
<1>2. Found \in SUBSET Nat /\ IsFiniteSet(Found)
  <2>1. Found \in SUBSET (1..Len(spool)) /\ IsFiniteSet(1..Len(spool))
    BY <1>1, FS_Interval DEF Found
  <2>2. IsFiniteSet(Found)
    BY <2>1, FS_Subset
  <2> QED BY <2>1, <2>2
<1>3. /\ new \in Seq(Found)
      /\ \A i, j \in DOMAIN new : new[i] = new[j] => i = j
      /\ \A x \in Found : \E i \in DOMAIN new : new[i] = x
  BY <1>2, AscendingLists
<1>4. records' = records \o add
  BY DEF TickSpool, Found
<1>5. \A k \in Found : spool[k] \in Signals /\ k \in DOMAIN spool
  BY <1>1 DEF Found, IsEvent
<1> HIDE DEF new
<1>6. DOMAIN new = 1..Len(new) /\ Len(new) \in Nat /\ \A i \in DOMAIN new : new[i] \in Found
  BY <1>3
<1>7. \A i \in DOMAIN records : records[i] \in AgentRecords \cup TaskDeltas
  BY DEF TickSpool, TickGoes, Typed, Phased
<1>8. /\ add \in Seq(AllRecords) /\ Len(add) = Len(new) /\ DOMAIN add = DOMAIN new
      /\ \A i \in DOMAIN add : add[i] = HookSignal(spool[new[i]])
  <2>1. \A i \in 1..Len(new) : HookSignal(spool[new[i]]) \in AllRecords
    BY <1>5, <1>6 DEF AllRecords, HookSignals
  <2>2. add \in [1..Len(new) -> AllRecords]
    BY <1>6, <2>1
  <2>3. add \in Seq(AllRecords)
    BY <1>6, <2>2, SeqDef
  <2>4. DOMAIN add = 1..Len(new)
    BY <1>6
  <2>5. Len(add) = Len(new)
    BY <1>6, <2>3, <2>4
  <2> QED BY <1>6, <2>3, <2>4, <2>5
<1> HIDE DEF add
<1>9. /\ records' \in Seq(AllRecords) /\ DOMAIN records' = 1..Len(records) + Len(add)
      /\ \A i \in 1..Len(records) + Len(add) :
            records'[i] = IF i =< Len(records) THEN records[i] ELSE add[i - Len(records)]
  BY <1>0, <1>4, <1>8, ConcatElements
<1>10. \A i \in DOMAIN records : i \in DOMAIN records' /\ records'[i] = records[i]
  BY <1>0, <1>6, <1>8, <1>9
<1>11. \A j \in DOMAIN new : Len(records) + j \in DOMAIN records'
          /\ records'[Len(records) + j] = HookSignal(spool[new[j]])
  <2> SUFFICES ASSUME NEW j \in DOMAIN new
               PROVE  /\ Len(records) + j \in DOMAIN records'
                      /\ records'[Len(records) + j] = add[j]
    BY <1>8
  <2> QED BY <1>0, <1>6, <1>8, <1>9
<1>12. ASSUME NEW i \in DOMAIN records', i \notin DOMAIN records
       PROVE  \E j \in DOMAIN new : i = Len(records) + j
  <2>1. i - Len(records) \in 1..Len(new) /\ i = Len(records) + (i - Len(records))
    BY <1>0, <1>6, <1>8, <1>9, <1>12
  <2> QED BY <1>6, <2>1
<1>13. \A i \in DOMAIN records' :
          \/ /\ i \in DOMAIN records /\ records[i] \in AgentRecords \cup TaskDeltas
             /\ records'[i] = records[i]
          \/ \E k \in Found : records'[i] = HookSignal(spool[k])
  <2> SUFFICES ASSUME NEW i \in DOMAIN records', i \notin DOMAIN records
               PROVE  \E k \in Found : records'[i] = HookSignal(spool[k])
    BY <1>7, <1>10
  <2>1. PICK j \in DOMAIN new : i = Len(records) + j BY <1>12
  <2> QED BY <1>6, <1>11, <2>1
<1>14. \A k \in Found : \E i \in DOMAIN records' : records'[i] = HookSignal(spool[k])
  <2> SUFFICES ASSUME NEW k \in Found
               PROVE  \E i \in DOMAIN records' : records'[i] = HookSignal(spool[k])
    OBVIOUS
  <2>1. PICK j \in DOMAIN new : new[j] = k BY <1>3
  <2> QED BY <1>11, <2>1
<1>15. OneEach'
  <2> SUFFICES ASSUME NEW i \in DOMAIN records', NEW j \in DOMAIN records',
                      records'[i].type = records'[j].type, records'[i].of = records'[j].of
               PROVE  i = j
    BY DEF OneEach
  <2>1. \A k \in DOMAIN records : records'[k] = records[k] /\ records'[k].type # "signal"
    BY <1>7, <1>10, RecordTypes
  <2>2. \A k \in DOMAIN new : /\ records'[Len(records) + k].type = "signal"
                              /\ records'[Len(records) + k].of = spool[new[k]]
    BY <1>11, RecordTypes
  <2>3. CASE i \in DOMAIN records /\ j \in DOMAIN records
    BY <2>1, <2>3 DEF OneEach
  <2>4. CASE i \notin DOMAIN records /\ j \notin DOMAIN records
    <3>1. PICK k \in DOMAIN new : i = Len(records) + k BY <1>12, <2>4
    <3>2. PICK l \in DOMAIN new : j = Len(records) + l BY <1>12, <2>4
    <3>3. spool[new[k]] = spool[new[l]] /\ spool[new[k]] # Newline
      BY <1>5, <1>6, <2>2, <3>1, <3>2, RecorderAssumption
    <3>4. new[k] = new[l]
      BY <1>5, <1>6, <3>3 DEF WrittenOnce
    <3> QED BY <1>3, <3>1, <3>2, <3>4
  <2>5. CASE i \in DOMAIN records /\ j \notin DOMAIN records
    <3>1. PICK l \in DOMAIN new : j = Len(records) + l BY <1>12, <2>5
    <3> QED BY <2>1, <2>2, <2>5, <3>1
  <2>6. CASE i \notin DOMAIN records /\ j \in DOMAIN records
    <3>1. PICK k \in DOMAIN new : i = Len(records) + k BY <1>12, <2>6
    <3> QED BY <2>1, <2>2, <2>6, <3>1
  <2> QED BY <2>3, <2>4, <2>5, <2>6
<1> QED BY <1>5, <1>9, <1>10, <1>13, <1>14, <1>15

(* Appending leaves alone what no record is of, and follows the one there is. *)
LEMMA WriteFollows ==
    ASSUME Typed, OneEach, NEW n \in 0..Len(records), Write(n)
    PROVE  /\ last' \in [Members -> Reasons \cup {None}]
           /\ lastTask' \in [Tasks -> TaskFiles \cup {Absent}]
           /\ logged' \in [Signals -> Nat]
           /\ \A m \in Members : (\A i \in 1..n : ~IsOf(i, "agent", m)) => last'[m] = last[m]
           /\ \A m \in Members, i \in 1..n : IsOf(i, "agent", m) => last'[m] = records[i].now
           /\ \A t \in Tasks : (\A i \in 1..n : ~IsOf(i, "task", t)) => lastTask'[t] = lastTask[t]
           /\ \A t \in Tasks, i \in 1..n : IsOf(i, "task", t) => lastTask'[t] = records[i].now
           /\ \A e \in Signals : (\A i \in 1..n : records[i] # HookSignal(e))
                 => logged'[e] = logged[e]
           /\ \A e \in Signals, i \in 1..n : records[i] = HookSignal(e)
                 => logged'[e] = logged[e] + 1
<1> DEFINE of(type, x) == {i \in 1..n : records[i].type = type /\ records[i].of = x}
           now(type, x, old) ==
               IF of(type, x) = {} THEN old ELSE records[CHOOSE i \in of(type, x) : TRUE].now
<1>1. /\ last' = [m \in Members |-> now("agent", m, last[m])]
      /\ lastTask' = [t \in Tasks |-> now("task", t, lastTask[t])]
      /\ logged' = [e \in Signals |-> logged[e] + Cardinality(of("signal", e))]
  BY DEF Write
<1>2. /\ Len(records) \in Nat /\ DOMAIN records = 1..Len(records)
      /\ \A i \in DOMAIN records : records[i] \in AllRecords
      /\ last \in [Members -> Reasons \cup {None}]
      /\ lastTask \in [Tasks -> TaskFiles \cup {Absent}]
      /\ logged \in [Signals -> Nat]
  BY TypedParts
<1>3. n \in Nat /\ \A i \in 1..n : i \in DOMAIN records /\ records[i] \in AllRecords
  BY <1>2
<1>4. \A i \in 1..n : /\ records[i].type = "agent" => records[i] \in AgentRecords
                      /\ records[i].type = "task" => records[i] \in TaskDeltas
                      /\ records[i].type = "signal" => records[i] \in HookSignals
  BY <1>3, RecordTypes DEF AllRecords
<1>5. \A type, x, old : of(type, x) = {} => now(type, x, old) = old
  OBVIOUS
<1>6. \A type, x, old : \A i \in of(type, x) : now(type, x, old) = records[i].now
  <2> SUFFICES ASSUME NEW type, NEW x, NEW old, NEW i \in of(type, x)
               PROVE  now(type, x, old) = records[i].now
    OBVIOUS
  <2> DEFINE c == CHOOSE j \in of(type, x) : TRUE
  <2>1. c \in of(type, x) /\ of(type, x) # {}
    OBVIOUS
  <2>2. now(type, x, old) = records[c].now
    BY <2>1
  <2> HIDE DEF now, c
  <2>3. c = i
    BY <1>3, <2>1 DEF OneEach
  <2> QED BY <2>2, <2>3
<1>7. \A e \in Signals : of("signal", e) = {i \in 1..n : records[i] = HookSignal(e)}
  BY <1>4, RecordTypes
<1> HIDE DEF now
<1>8. \A m \in Members : now("agent", m, last[m]) \in Reasons \cup {None}
  <2> SUFFICES ASSUME NEW m \in Members PROVE now("agent", m, last[m]) \in Reasons \cup {None}
    OBVIOUS
  <2>1. CASE of("agent", m) = {} BY <1>2, <1>5, <2>1
  <2>2. CASE of("agent", m) # {}
    <3>1. PICK i \in of("agent", m) : TRUE BY <2>2
    <3> QED BY <1>4, <1>6, <3>1, RecordTypes
  <2> QED BY <2>1, <2>2
<1>9. \A t \in Tasks : now("task", t, lastTask[t]) \in TaskFiles \cup {Absent}
  <2> SUFFICES ASSUME NEW t \in Tasks
               PROVE  now("task", t, lastTask[t]) \in TaskFiles \cup {Absent}
    OBVIOUS
  <2>1. CASE of("task", t) = {} BY <1>2, <1>5, <2>1
  <2>2. CASE of("task", t) # {}
    <3>1. PICK i \in of("task", t) : TRUE BY <2>2
    <3> QED BY <1>4, <1>6, <3>1, RecordTypes
  <2> QED BY <2>1, <2>2
<1>10. \A e \in Signals : Cardinality(of("signal", e)) \in Nat
  <2> SUFFICES ASSUME NEW e \in Signals PROVE Cardinality(of("signal", e)) \in Nat
    OBVIOUS
  <2>1. of("signal", e) \in SUBSET (1..n) /\ IsFiniteSet(1..n)
    BY <1>3, FS_Interval
  <2> HIDE DEF of
  <2> QED BY <2>1, FS_Subset, FS_CardinalityType
<1>11. \A e \in Signals : (\A i \in 1..n : records[i] # HookSignal(e))
          => Cardinality(of("signal", e)) = 0
  <2> SUFFICES ASSUME NEW e \in Signals, \A i \in 1..n : records[i] # HookSignal(e)
               PROVE  Cardinality(of("signal", e)) = 0
    OBVIOUS
  <2>1. of("signal", e) = {} BY <1>7
  <2> QED BY <2>1, FS_EmptySet
<1>12. \A e \in Signals, i \in 1..n : records[i] = HookSignal(e)
          => Cardinality(of("signal", e)) = 1
  <2> SUFFICES ASSUME NEW e \in Signals, NEW i \in 1..n, records[i] = HookSignal(e)
               PROVE  Cardinality(of("signal", e)) = 1
    OBVIOUS
  <2>1. i \in of("signal", e) BY RecordTypes
  <2>2. \A j \in of("signal", e) : j = i
    BY <1>3, <2>1 DEF OneEach
  <2>3. of("signal", e) = {i} BY <2>1, <2>2
  <2> QED BY <2>3, FS_Singleton
<1>13. last' \in [Members -> Reasons \cup {None}] BY <1>1, <1>8
<1>14. lastTask' \in [Tasks -> TaskFiles \cup {Absent}] BY <1>1, <1>9
<1>15. logged' \in [Signals -> Nat]
  <2> HIDE DEF of
  <2> QED BY <1>1, <1>2, <1>10
<1>16. \A m \in Members : (\A i \in 1..n : ~IsOf(i, "agent", m)) => last'[m] = last[m]
  BY <1>1, <1>5 DEF IsOf
<1>17. \A m \in Members, i \in 1..n : IsOf(i, "agent", m) => last'[m] = records[i].now
  BY <1>1, <1>6 DEF IsOf
<1>18. \A t \in Tasks : (\A i \in 1..n : ~IsOf(i, "task", t)) => lastTask'[t] = lastTask[t]
  BY <1>1, <1>5 DEF IsOf
<1>19. \A t \in Tasks, i \in 1..n : IsOf(i, "task", t) => lastTask'[t] = records[i].now
  BY <1>1, <1>6 DEF IsOf
<1>20. \A e \in Signals : (\A i \in 1..n : records[i] # HookSignal(e)) => logged'[e] = logged[e]
  <2> HIDE DEF of
  <2> QED BY <1>1, <1>2, <1>11
<1>21. \A e \in Signals, i \in 1..n : records[i] = HookSignal(e) => logged'[e] = logged[e] + 1
  <2> HIDE DEF of
  <2> QED BY <1>1, <1>2, <1>12
<1> QED BY <1>13, <1>14, <1>15, <1>16, <1>17, <1>18, <1>19, <1>20, <1>21

-----------------------------------------------------------------------------
(* The invariant holds. *)

(* What the proofs about a step may assume. *)
IInv == Spooled /\ Follows /\ OffsetAtLine /\ SignalsKept

(* No record is left when there are none, whatever its type. *)
LEMMA NoRecords == \A i : i \notin DOMAIN <<>>
OBVIOUS

(* Initially nothing is recorded and nothing is known. *)
LEMMA StartsSound == Init => IInv
<1> SUFFICES ASSUME Init PROVE IInv
  OBVIOUS
<1> USE DEF Init, Fresh
<1>1. FactsTypeOK
  <2>1. 0 \in Ages /\ 0 \in 0..MaxChanges
    BY FactsAssumption DEF Ages
  <2> QED BY <2>1 DEF FactsInit, FactsTypeOK, Statuses
<1>2. spool \in Seq(Signals \cup {Newline}) /\ records \in Seq(AllRecords)
  OBVIOUS
<1>3. \A i \in DOMAIN records : FALSE
  BY NoRecords
<1>4. TypeOK
  BY <1>1, <1>2, <1>3 DEF TypeOK
<1>5. Typed
  BY <1>2, <1>3, <1>4 DEF Typed, Phased
<1>6. OneEach
  BY <1>3 DEF OneEach
<1>7. WrittenOnce
  BY NoRecords DEF WrittenOnce
<1>8. \A e \in Signals : ~Taken(e)
  BY <1>3 DEF Taken
<1>9. TakenBehind
  BY <1>8, <1>3 DEF TakenBehind
<1>10. Follows
  BY <1>3 DEF Follows, AgentsFollow, TasksFollow
<1>11. OffsetAtLine /\ SignalsKept
  BY DEF OffsetAtLine, SignalsKept
<1> QED BY <1>5, <1>6, <1>7, <1>9, <1>10, <1>11 DEF IInv, Spooled

(* What a step that leaves the records alone need not show of them. *)
LEMMA SameRecords ==
    ASSUME Typed, OneEach, UNCHANGED records
    PROVE  /\ records' \in Seq(AllRecords) /\ OneEach'
           /\ \A i \in DOMAIN records' : records'[i].type \in {"agent", "task", "signal"}
BY DEF Typed, TypeOK, OneEach

(* A list of records has none of another type. *)
LEMMA ListTyped ==
    ASSUME records' \in Seq(AllRecords)
    PROVE  \A i \in DOMAIN records' : records'[i].type \in {"agent", "task", "signal"}
<1>1. \A i \in DOMAIN records' : records'[i] \in AllRecords
  OBVIOUS
<1> QED BY <1>1, RecordTypes DEF AllRecords

(* An emptied list of records has its type, and none of it twice. *)
LEMMA EmptiedTyped ==
    ASSUME records' = <<>>
    PROVE  records' \in Seq(AllRecords) /\ OneEach'
<1>1. \A i \in DOMAIN records' : FALSE
  BY NoRecords
<1> QED BY <1>1 DEF OneEach

(* The variables keep their types, and the records their order. *)
LEMMA TypedStep ==
    ASSUME Spooled, [Next]_vars
    PROVE  Typed' /\ OneEach'
<1>0. Typed /\ OneEach /\ WrittenOnce
  BY DEF Spooled
<1>1. /\ spool \in Seq(Signals \cup {Newline}) /\ offset \in Nat \cup {None}
      /\ hpc \in [Signals -> {"start", "line", "newline", "done", "astray"}]
      /\ known \in [Members -> Reasons \cup {None}]
      /\ knownTask \in [Tasks -> TaskFiles \cup {Absent}]
      /\ tasks \in [Tasks -> TaskFiles \cup {Absent}]
      /\ last \in [Members -> Reasons \cup {None}]
      /\ lastTask \in [Tasks -> TaskFiles \cup {Absent}]
      /\ logged \in [Signals -> Nat] /\ base \in Nat \cup {None}
      /\ Len(records) \in Nat /\ DOMAIN records = 1..Len(records)
  BY <1>0, TypedParts
<1>2. /\ FactsTypeOK /\ TypeOK /\ Phased /\ Len(spool) \in Nat
      /\ exists \in BOOLEAN /\ lost \subseteq {"spool", "records"}
      /\ rpc \in {"sleep", "tasks", "spool", "append"}
  BY <1>0, <1>1 DEF Typed, TypeOK
<1>3. UNCHANGED facts => FactsTypeOK'
  BY <1>2 DEF facts, FactsTypeOK
<1>4. Start \in Nat /\ ConsumedTo \in Nat
  BY <1>2, ConsumedToIsLast
<1>5. ASSUME UNCHANGED vars PROVE Typed' /\ OneEach'
  BY <1>0, <1>1, <1>2, <1>3, <1>5, SameRecords
     DEF vars, hooks, state, log, Typed, TypeOK, Phased
<1>6. ASSUME World, UNCHANGED <<hooks, state, log, lost>> PROVE Typed' /\ OneEach'
  BY <1>0, <1>1, <1>2, <1>6, WorldTyped, SameRecords
     DEF hooks, state, log, Typed, TypeOK, Phased
<1>7. ASSUME NEW e \in Signals, StartHook(e) PROVE Typed' /\ OneEach'
  BY <1>0, <1>1, <1>2, <1>3, <1>7, SameRecords
     DEF StartHook, HookGoes, state, log, Typed, TypeOK, Phased
<1>8. ASSUME NEW e \in Signals, WriteLine(e) PROVE Typed' /\ OneEach'
  <2>1. spool' \in Seq(Signals \cup {Newline})
    BY <1>1, <1>8 DEF WriteLine
  <2> QED BY <1>0, <1>1, <1>2, <1>3, <1>8, <2>1, SameRecords
          DEF WriteLine, HookGoes, state, log, Typed, TypeOK, Phased
<1>9. ASSUME NEW e \in Signals, WriteNewline(e) PROVE Typed' /\ OneEach'
  <2>1. spool' \in Seq(Signals \cup {Newline})
    BY <1>1, <1>9 DEF WriteNewline
  <2> QED BY <1>0, <1>1, <1>2, <1>3, <1>9, <2>1, SameRecords
          DEF WriteNewline, HookGoes, state, log, Typed, TypeOK, Phased
<1>10. ASSUME Truncate PROVE Typed' /\ OneEach'
  <2>1. spool' \in Seq(Signals \cup {Newline}) /\ lost' \subseteq {"spool", "records"}
    BY <1>2, <1>10 DEF Truncate
  <2> QED BY <1>0, <1>1, <1>2, <1>3, <1>10, <2>1, SameRecords
          DEF Truncate, state, log, Typed, TypeOK, Phased
<1>11. ASSUME Restart PROVE Typed' /\ OneEach'
  <2>1. records' \in Seq(AllRecords) /\ OneEach' /\ records' = <<>> /\ rpc' = "sleep"
    BY <1>11, EmptiedTyped DEF Restart
  <2> QED BY <1>0, <1>1, <1>2, <1>3, <1>11, <2>1, ListTyped
          DEF Restart, hooks, log, Typed, TypeOK, Phased
<1>12. ASSUME TickAgents PROVE Typed' /\ OneEach'
  <2>1. known' \in [Members -> Reasons \cup {None}]
    BY <1>1, <1>2, <1>12, ReasonTyped DEF TickAgents, Gathered
  <2>2. /\ records' \in Seq(AllRecords) /\ OneEach'
        /\ \A i \in DOMAIN records' : records'[i] \in AgentRecords
    BY <1>0, <1>12, NewAgents
  <2>3. rpc' = "tasks" /\ UNCHANGED <<facts, hooks, lost, knownTask, offset, base, log>>
    BY <1>12 DEF TickAgents, TickGoes
  <2> QED BY <1>1, <1>2, <1>3, <2>1, <2>2, <2>3, ListTyped
          DEF hooks, log, Typed, TypeOK, Phased
<1>13. ASSUME TickTasks PROVE Typed' /\ OneEach'
  <2>1. knownTask' \in [Tasks -> TaskFiles \cup {Absent}]
    BY <1>1, <1>13 DEF TickTasks
  <2>2. lastTask' \in [Tasks -> TaskFiles \cup {Absent}]
    BY <1>1, <1>13, <2>1 DEF TickTasks
  <2>3. /\ records' \in Seq(AllRecords) /\ OneEach'
        /\ \A i \in DOMAIN records' : records'[i] \in AgentRecords \cup TaskDeltas
    BY <1>0, <1>13, NewDeltas
  <2>4. rpc' = "spool" /\ UNCHANGED <<facts, hooks, lost, known, offset, base, last, logged>>
    BY <1>13 DEF TickTasks, TickGoes
  <2> QED BY <1>1, <1>2, <1>3, <2>1, <2>2, <2>3, <2>4, ListTyped
          DEF hooks, Typed, TypeOK, Phased
<1>14. ASSUME TickNoSpool PROVE Typed' /\ OneEach'
  BY <1>0, <1>1, <1>2, <1>3, <1>14, SameRecords
     DEF TickNoSpool, TickGoes, Baseline, hooks, log, Typed, TypeOK, Phased
<1>15. ASSUME TickTruncated PROVE Typed' /\ OneEach'
  BY <1>0, <1>1, <1>2, <1>3, <1>15, SameRecords
     DEF TickTruncated, TickGoes, hooks, log, Typed, TypeOK, Phased
<1>16. ASSUME TickSpool PROVE Typed' /\ OneEach'
  <2>1. records' \in Seq(AllRecords) /\ OneEach'
    BY <1>0, <1>16, NewSignals
  <2>2. /\ rpc' = "append" /\ UNCHANGED <<facts, hooks, lost, known, knownTask, log>>
        /\ offset' = ConsumedTo /\ base' \in {Start, base}
    BY <1>16 DEF TickSpool, TickGoes, Baseline
  <2> QED BY <1>1, <1>2, <1>3, <1>4, <2>1, <2>2, ListTyped
          DEF hooks, log, Typed, TypeOK, Phased
<1>17. ASSUME NEW n \in 0..Len(records), Write(n), rpc' = "sleep", records' = <<>>,
              UNCHANGED <<facts, hooks, known, knownTask, offset, base>>,
              lost' \in {lost, lost \cup {"records"}}
       PROVE  Typed' /\ OneEach'
  <2>1. /\ last' \in [Members -> Reasons \cup {None}]
        /\ lastTask' \in [Tasks -> TaskFiles \cup {Absent}] /\ logged' \in [Signals -> Nat]
    BY <1>0, <1>17, WriteFollows
  <2>2. records' \in Seq(AllRecords) /\ OneEach'
    BY <1>17, EmptiedTyped
  <2> QED BY <1>1, <1>2, <1>3, <1>17, <2>1, <2>2, ListTyped DEF hooks, Typed, TypeOK, Phased
<1>18. ASSUME AppendRecords PROVE Typed' /\ OneEach'
  <2>1. Len(records) \in 0..Len(records)
    BY <1>1
  <2>2. /\ Write(Len(records)) /\ rpc' = "sleep" /\ records' = <<>> /\ lost' = lost
        /\ UNCHANGED <<facts, hooks, known, knownTask, offset, base>>
    BY <1>18 DEF AppendRecords, TickGoes
  <2> QED BY <1>17, <2>1, <2>2
<1>19. ASSUME AppendFails PROVE Typed' /\ OneEach'
  <2>1. PICK n \in 0..Len(records) - 1 : Write(n)
    BY <1>19 DEF AppendFails
  <2>2. n \in 0..Len(records)
    BY <1>1, <2>1
  <2>3. /\ rpc' = "sleep" /\ records' = <<>> /\ lost' = lost \cup {"records"}
        /\ UNCHANGED <<facts, hooks, known, knownTask, offset, base>>
    BY <1>19 DEF AppendFails
  <2> QED BY <1>17, <2>1, <2>2, <2>3
<1> QED BY <1>5, <1>6, <1>7, <1>8, <1>9, <1>10, <1>11, <1>12, <1>13, <1>14, <1>15, <1>16,
           <1>18, <1>19
        DEF Next, Hook, Tick

(* The tick reads the spool and the hooks' places, and the world has no part in them. *)
LEMMA TicksLeaveSpool ==
    ASSUME (World /\ UNCHANGED <<hooks, state, log, lost>>) \/ Tick \/ Restart \/ UNCHANGED vars
    PROVE  UNCHANGED <<spool, exists, hpc>>
BY DEF Tick, TickAgents, TickTasks, TickNoSpool, TickTruncated, TickSpool, AppendRecords,
       AppendFails, TickGoes, Restart, hooks, vars

(* What a hook writes is at the end of the spool, and nothing else has changed. *)
LEMMA Appended ==
    ASSUME Typed, NEW x \in Signals \cup {Newline}, spool' = Append(spool, x)
    PROVE  /\ DOMAIN spool = 1..Len(spool) /\ Len(spool) \in Nat
           /\ Len(spool') = Len(spool) + 1 /\ DOMAIN spool' = 1..Len(spool) + 1
           /\ spool'[Len(spool) + 1] = x
           /\ \A i \in DOMAIN spool : i \in DOMAIN spool' /\ spool'[i] = spool[i]
           /\ \A i \in DOMAIN spool' : i \in DOMAIN spool \/ i = Len(spool) + 1
<1>1. spool \in Seq(Signals \cup {Newline})
  BY TypedParts
<1> QED BY <1>1

(* A hook writes its line once. *)
LEMMA WrittenStep ==
    ASSUME Spooled, [Next]_vars
    PROVE  WrittenOnce'
<1>0. Typed /\ WrittenOnce /\ hpc \in [Signals -> {"start", "line", "newline", "done", "astray"}]
      /\ spool \in Seq(Signals \cup {Newline})
  BY TypedParts DEF Spooled
<1>1. ASSUME UNCHANGED <<spool, exists, hpc>> PROVE WrittenOnce'
  BY <1>0, <1>1 DEF WrittenOnce
<1>2. ASSUME NEW e \in Signals, StartHook(e) PROVE WrittenOnce'
  <2>1. /\ UNCHANGED <<spool, exists>> /\ hpc[e] = "start" /\ hpc'[e] # "newline"
        /\ \A o \in Signals : o # e => hpc'[o] = hpc[o]
    BY <1>0, <1>2 DEF StartHook, HookGoes
  <2>2. \A i \in DOMAIN spool : spool[i] \in Signals \cup {Newline}
    BY <1>0
  <2> QED BY <1>0, <2>1, <2>2 DEF WrittenOnce
<1>3. ASSUME NEW e \in Signals, WriteLine(e) PROVE WrittenOnce'
  <2>1. /\ spool' = Append(spool, e) /\ exists' = TRUE /\ hpc[e] = "line" /\ hpc'[e] = "newline"
        /\ \A o \in Signals : o # e => hpc'[o] = hpc[o]
    BY <1>0, <1>3 DEF WriteLine, HookGoes
  <2>2. \A i \in DOMAIN spool : spool[i] \in Signals \cup {Newline} /\ spool[i] # e
    BY <1>0, <2>1, RecorderAssumption DEF WrittenOnce
  <2>3. /\ spool'[Len(spool) + 1] = e
        /\ \A i \in DOMAIN spool : i \in DOMAIN spool' /\ spool'[i] = spool[i]
        /\ \A i \in DOMAIN spool' : i \in DOMAIN spool \/ i = Len(spool) + 1
    BY <1>0, <2>1, Appended
  <2>4. \A i \in DOMAIN spool' : spool'[i] # Newline => hpc'[spool'[i]] \in {"newline", "done"}
    <3> SUFFICES ASSUME NEW i \in DOMAIN spool', spool'[i] # Newline
                 PROVE  hpc'[spool'[i]] \in {"newline", "done"}
      OBVIOUS
    <3>1. CASE i \in DOMAIN spool
      BY <1>0, <2>1, <2>2, <2>3, <3>1 DEF WrittenOnce
    <3>2. CASE i = Len(spool) + 1
      BY <2>1, <2>3, <3>2
    <3> QED BY <2>3, <3>1, <3>2
  <2>5. \A i, j \in DOMAIN spool' : spool'[i] = spool'[j] /\ spool'[i] # Newline => i = j
    BY <1>0, <2>2, <2>3 DEF WrittenOnce
  <2> QED BY <2>1, <2>4, <2>5 DEF WrittenOnce
<1>4. ASSUME NEW e \in Signals, WriteNewline(e) PROVE WrittenOnce'
  <2>1. /\ spool' = Append(spool, Newline) /\ exists' = exists
        /\ hpc[e] = "newline" /\ hpc'[e] = "done"
        /\ \A o \in Signals : o # e => hpc'[o] = hpc[o]
    BY <1>0, <1>4 DEF WriteNewline, HookGoes
  <2>2. \A i \in DOMAIN spool : spool[i] \in Signals \cup {Newline}
    BY <1>0
  <2>3. /\ spool'[Len(spool) + 1] = Newline
        /\ \A i \in DOMAIN spool : i \in DOMAIN spool' /\ spool'[i] = spool[i]
        /\ \A i \in DOMAIN spool' : i \in DOMAIN spool \/ i = Len(spool) + 1
    BY <1>0, <2>1, Appended
  <2>4. \A i \in DOMAIN spool' : spool'[i] # Newline =>
           i \in DOMAIN spool /\ spool'[i] = spool[i] /\ spool[i] \in Signals
    BY <2>2, <2>3
  <2>5. \A i \in DOMAIN spool' : spool'[i] # Newline => hpc'[spool'[i]] \in {"newline", "done"}
    BY <1>0, <2>1, <2>4 DEF WrittenOnce
  <2>6. \A i, j \in DOMAIN spool' : spool'[i] = spool'[j] /\ spool'[i] # Newline => i = j
    BY <1>0, <2>4 DEF WrittenOnce
  <2>7. exists'
    BY <1>0, <2>1 DEF WrittenOnce
  <2> QED BY <2>5, <2>6, <2>7 DEF WrittenOnce
<1>5. ASSUME Truncate PROVE WrittenOnce'
  <2>1. spool' = <<>> /\ UNCHANGED <<exists, hpc>>
    BY <1>5 DEF Truncate
  <2>2. \A i \in DOMAIN spool' : FALSE
    BY <2>1, NoRecords
  <2> QED BY <1>0, <2>1, <2>2 DEF WrittenOnce
<1> QED BY <1>1, <1>2, <1>3, <1>4, <1>5, TicksLeaveSpool DEF Next, Hook

(* What TickSpool finds stands beyond the offset and before where it gets to. *)
LEMMA FoundAhead ==
    ASSUME Typed, NEW k \in Found
    PROVE  /\ offset # None /\ offset \in Nat /\ k > offset /\ k < ConsumedTo
           /\ k \in DOMAIN spool /\ spool[k] \in Signals
<1>1. TypeOK /\ spool \in Seq(Signals \cup {Newline}) /\ offset \in Nat \cup {None}
  BY TypedParts DEF Typed
<1>2. Len(spool) \in Nat /\ DOMAIN spool = 1..Len(spool) /\ k \in 1..Len(spool)
  BY <1>1 DEF Found
<1>3. IsEvent(k)
  BY DEF Found
<1>4. k + 1 \in Ends /\ k > Start /\ spool[k] # Newline
  BY <1>3 DEF IsEvent
<1>5. Start \in Nat /\ ConsumedTo \in Nat /\ k + 1 =< ConsumedTo
  BY <1>1, <1>4, ConsumedToIsLast
<1>6. offset # None /\ offset = Start
  BY <1>2, <1>4 DEF Start
<1>7. spool[k] \in Signals
  BY <1>1, <1>2, <1>4
<1> QED BY <1>2, <1>4, <1>5, <1>6, <1>7

(* The offset does not move back. *)
LEMMA ConsumedAhead ==
    ASSUME Typed
    PROVE  /\ Start \in Nat /\ ConsumedTo \in Nat /\ Start =< ConsumedTo
           /\ Start =< Len(spool) => ConsumedTo =< Len(spool)
<1>1. TypeOK /\ Start \in Nat /\ ConsumedTo \in Nat /\ Len(spool) \in Nat
  BY ConsumedToIsLast, TypedParts DEF Typed
<1>2. CASE Ends = {}
  BY <1>1, <1>2, ConsumedToIsLast
<1>3. CASE Ends # {}
  <2>1. ConsumedTo \in Start + 1..Len(spool)
    BY <1>1, <1>3, ConsumedToIsLast DEF Ends
  <2> QED BY <1>1, <2>1
<1> QED BY <1>2, <1>3

(* What has been taken stays behind the offset, and is taken once. *)
LEMMA TakenStep ==
    ASSUME Spooled, [Next]_vars
    PROVE  TakenBehind'
<1>0. /\ Typed /\ OneEach /\ WrittenOnce /\ TakenBehind
      /\ spool \in Seq(Signals \cup {Newline}) /\ offset \in Nat \cup {None}
      /\ hpc \in [Signals -> {"start", "line", "newline", "done", "astray"}]
      /\ logged \in [Signals -> Nat]
      /\ Len(records) \in Nat /\ DOMAIN records = 1..Len(records)
  BY TypedParts DEF Spooled
<1>a. /\ Len(spool) \in Nat /\ DOMAIN spool = 1..Len(spool)
      /\ \A i \in DOMAIN spool : spool[i] \in Signals \cup {Newline}
  BY <1>0
<1>1. ASSUME UNCHANGED <<records, logged, spool, hpc, offset>> PROVE TakenBehind'
  BY <1>0, <1>1 DEF TakenBehind, Taken
<1>2. ASSUME NEW e \in Signals, StartHook(e) PROVE TakenBehind'
  <2>1. /\ UNCHANGED <<records, logged, spool, offset>> /\ hpc[e] = "start"
        /\ \A o \in Signals : o # e => hpc'[o] = hpc[o]
    BY <1>0, <1>2 DEF StartHook, HookGoes, state, log
  <2> QED BY <1>0, <2>1 DEF TakenBehind, Taken
<1>3. ASSUME NEW e \in Signals, WriteLine(e) PROVE TakenBehind'
  <2>1. /\ UNCHANGED <<records, logged, offset>> /\ spool' = Append(spool, e) /\ hpc[e] = "line"
        /\ \A o \in Signals : o # e => hpc'[o] = hpc[o]
    BY <1>0, <1>3 DEF WriteLine, HookGoes, state, log
  <2>2. /\ spool'[Len(spool) + 1] = e
        /\ \A i \in DOMAIN spool : i \in DOMAIN spool' /\ spool'[i] = spool[i]
        /\ \A i \in DOMAIN spool' : i \in DOMAIN spool \/ i = Len(spool) + 1
    BY <1>0, <2>1, Appended
  <2>3. ~Taken(e) /\ \A o \in Signals : Taken(o)' <=> Taken(o)
    BY <1>0, <2>1 DEF TakenBehind, Taken
  <2>4. \A o \in Signals : o # e => \A i \in DOMAIN spool' : spool'[i] = o =>
           i \in DOMAIN spool /\ spool[i] = o
    BY <2>2
  <2> QED BY <1>0, <2>1, <2>3, <2>4 DEF TakenBehind
<1>4. ASSUME NEW e \in Signals, WriteNewline(e) PROVE TakenBehind'
  <2>1. /\ UNCHANGED <<records, logged, offset>> /\ spool' = Append(spool, Newline)
        /\ hpc'[e] = "done" /\ \A o \in Signals : o # e => hpc'[o] = hpc[o]
    BY <1>0, <1>4 DEF WriteNewline, HookGoes, state, log
  <2>2. /\ spool'[Len(spool) + 1] = Newline
        /\ \A i \in DOMAIN spool : i \in DOMAIN spool' /\ spool'[i] = spool[i]
        /\ \A i \in DOMAIN spool' : i \in DOMAIN spool \/ i = Len(spool) + 1
    BY <1>0, <2>1, Appended
  <2>3. \A o \in Signals : Taken(o)' <=> Taken(o)
    BY <1>0, <2>1 DEF Taken
  <2>4. \A o \in Signals : \A i \in DOMAIN spool' : spool'[i] = o =>
           i \in DOMAIN spool /\ spool[i] = o
    BY <2>2, RecorderAssumption
  <2> QED BY <1>0, <2>1, <2>3, <2>4 DEF TakenBehind
<1>5. ASSUME UNCHANGED <<records, logged, hpc>>,
             \A i \in DOMAIN spool' : offset' # None => i =< offset'
      PROVE  TakenBehind'
  <2>1. \A o \in Signals : Taken(o)' <=> Taken(o)
    BY <1>5 DEF Taken
  <2> QED BY <1>0, <1>5, <2>1 DEF TakenBehind
<1>6. ASSUME Truncate PROVE TakenBehind'
  <2>1. UNCHANGED <<records, logged, hpc>> /\ spool' = <<>>
    BY <1>6 DEF Truncate, state, log
  <2> QED BY <1>5, <2>1, NoRecords
<1>7. ASSUME TickNoSpool PROVE TakenBehind'
  <2>1. UNCHANGED <<records, logged, hpc>> /\ spool' = <<>>
    BY <1>0, <1>7 DEF TickNoSpool, TickGoes, hooks, log, WrittenOnce
  <2> QED BY <1>5, <2>1, NoRecords
<1>8. ASSUME TickTruncated PROVE TakenBehind'
  <2>1. UNCHANGED <<records, logged, hpc, spool>> /\ offset' = Len(spool)
    BY <1>8 DEF TickTruncated, TickGoes, hooks, log
  <2>2. \A i \in DOMAIN spool' : i =< offset'
    BY <1>a, <2>1
  <2> QED BY <1>5, <2>1, <2>2
<1>9. ASSUME UNCHANGED <<spool, hpc>>,
             logged' \in [Signals -> Nat], offset' = offset \/ offset' = None,
             \A e \in Signals : \A i \in DOMAIN records' : records'[i] # HookSignal(e),
             \A e \in Signals : logged'[e] > 0 => Taken(e) /\ logged'[e] =< 1
      PROVE  TakenBehind'
  <2>1. \A e \in Signals : Taken(e)' => Taken(e)
    BY <1>9 DEF Taken
  <2>2. \A e \in Signals : logged'[e] =< 1
    BY <1>9
  <2> QED BY <1>0, <1>9, <2>1, <2>2 DEF TakenBehind
<1>10. ASSUME Restart PROVE TakenBehind'
  <2>1. UNCHANGED <<spool, hpc, logged>> /\ offset' = None /\ records' = <<>>
    BY <1>10 DEF Restart, hooks, log
  <2> QED BY <1>0, <1>9, <2>1, NoRecords DEF TakenBehind, Taken
<1>11. ASSUME TickAgents PROVE TakenBehind'
  <2>1. UNCHANGED <<spool, hpc, logged, offset>>
    BY <1>11 DEF TickAgents, TickGoes, hooks, log
  <2>2. \A e \in Signals : \A i \in DOMAIN records' : records'[i] # HookSignal(e)
    BY <1>0, <1>11, NewAgents, RecordTypes
  <2> QED BY <1>0, <1>9, <2>1, <2>2 DEF TakenBehind, Taken
<1>12. ASSUME TickTasks PROVE TakenBehind'
  <2>1. UNCHANGED <<spool, hpc, logged, offset>>
    BY <1>12 DEF TickTasks, TickGoes, hooks
  <2>2. \A i \in DOMAIN records' : records'[i] \in AgentRecords \cup TaskDeltas
    BY <1>0, <1>12, NewDeltas
  <2>3. \A e \in Signals : \A i \in DOMAIN records' : records'[i] # HookSignal(e)
    BY <2>2, RecordTypes
  <2> QED BY <1>0, <1>9, <2>1, <2>3 DEF TakenBehind, Taken
<1>13. ASSUME NEW n \in 0..Len(records), Write(n), records' = <<>>, UNCHANGED <<hooks, offset>>
       PROVE  TakenBehind'
  <2>1. /\ logged' \in [Signals -> Nat]
        /\ \A e \in Signals : (\A i \in 1..n : records[i] # HookSignal(e)) => logged'[e] = logged[e]
        /\ \A e \in Signals, i \in 1..n : records[i] = HookSignal(e) => logged'[e] = logged[e] + 1
    BY <1>0, <1>13, WriteFollows
  <2>2. ASSUME NEW e \in Signals, logged'[e] > 0 PROVE Taken(e) /\ logged'[e] =< 1
    <3>1. CASE \A i \in 1..n : records[i] # HookSignal(e)
      BY <1>0, <2>1, <2>2, <3>1 DEF TakenBehind, Taken
    <3>2. CASE \E i \in 1..n : records[i] = HookSignal(e)
      <4>1. PICK i \in 1..n : records[i] = HookSignal(e) BY <3>2
      <4>2. i \in DOMAIN records BY <1>0
      <4>3. logged[e] \in Nat /\ logged[e] =< 1 /\ logged[e] # 1
        BY <1>0, <4>1, <4>2 DEF TakenBehind
      <4>4. Taken(e) BY <4>1, <4>2 DEF Taken
      <4> QED BY <2>1, <4>1, <4>3, <4>4
    <3> QED BY <3>1, <3>2
  <2>3. \A i \in DOMAIN records' : FALSE
    BY <1>13, NoRecords
  <2> QED BY <1>9, <1>13, <2>1, <2>2, <2>3 DEF hooks
<1>14. ASSUME AppendRecords PROVE TakenBehind'
  <2>1. Len(records) \in 0..Len(records)
    BY <1>0
  <2>2. Write(Len(records)) /\ records' = <<>> /\ UNCHANGED <<hooks, offset>>
    BY <1>14 DEF AppendRecords, TickGoes
  <2> QED BY <1>13, <2>1, <2>2
<1>15. ASSUME AppendFails PROVE TakenBehind'
  <2>1. PICK n \in 0..Len(records) - 1 : Write(n)
    BY <1>15 DEF AppendFails
  <2>2. n \in 0..Len(records)
    BY <1>0, <2>1
  <2>3. records' = <<>> /\ UNCHANGED <<hooks, offset>>
    BY <1>15 DEF AppendFails
  <2> QED BY <1>13, <2>1, <2>2, <2>3
<1>16. ASSUME TickSpool PROVE TakenBehind'
  <2>1. UNCHANGED <<spool, hpc, logged>> /\ offset' = ConsumedTo
    BY <1>16 DEF TickSpool, TickGoes, hooks, log
  <2>2. /\ \A i \in DOMAIN records' :
              \/ /\ i \in DOMAIN records /\ records[i] \in AgentRecords \cup TaskDeltas
                 /\ records'[i] = records[i]
              \/ \E k \in Found : records'[i] = HookSignal(spool[k])
        /\ \A k \in Found : spool[k] \in Signals
    BY <1>0, <1>16, NewSignals
  <2>3. ASSUME NEW e \in Signals, NEW i \in DOMAIN records', records'[i] = HookSignal(e)
        PROVE  \E k \in Found : spool[k] = e
    <3>1. records'[i] \notin AgentRecords \cup TaskDeltas
      BY <2>3, RecordTypes
    <3>2. PICK k \in Found : records'[i] = HookSignal(spool[k])
      BY <2>2, <3>1
    <3>3. HookSignal(e) = HookSignal(spool[k])
      BY <2>3, <3>2
    <3>4. HookSignal(e).of = e /\ HookSignal(spool[k]).of = spool[k]
      BY RecordTypes
    <3> QED BY <3>3, <3>4
  <2>4. ASSUME NEW k \in Found PROVE ~Taken(spool[k])
    <3>1. /\ offset # None /\ offset \in Nat /\ k > offset
          /\ k \in DOMAIN spool /\ spool[k] \in Signals
      BY <1>0, FoundAhead
    <3>2. k \in Nat BY <1>a, <3>1
    <3> QED BY <1>0, <3>1, <3>2 DEF TakenBehind
  <2>5. ASSUME NEW e \in Signals, Taken(e)'
        PROVE  Taken(e) \/ \E k \in Found : spool[k] = e
    <3>1. CASE logged'[e] > 0 BY <2>1, <3>1 DEF Taken
    <3>2. CASE \E i \in DOMAIN records' : records'[i] = HookSignal(e)
      <4>1. PICK i \in DOMAIN records' : records'[i] = HookSignal(e) BY <3>2
      <4> QED BY <2>3, <4>1
    <3> QED BY <2>5, <3>1, <3>2 DEF Taken
  <2>6. ASSUME NEW e \in Signals, Taken(e)'
        PROVE  hpc'[e] \in {"newline", "done"}
    <3>1. CASE Taken(e) BY <1>0, <2>1, <3>1 DEF TakenBehind
    <3>2. CASE \E k \in Found : spool[k] = e
      <4>1. PICK k \in Found : spool[k] = e BY <3>2
      <4>2. k \in DOMAIN spool /\ spool[k] # Newline
        BY <1>0, <4>1, FoundAhead, RecorderAssumption
      <4> QED BY <1>0, <2>1, <4>1, <4>2 DEF WrittenOnce
    <3> QED BY <2>5, <2>6, <3>1, <3>2
  <2>7. ASSUME NEW e \in Signals, Taken(e)', NEW i \in DOMAIN spool', spool'[i] = e
        PROVE  i =< offset'
    <3>1. i \in Nat /\ i =< Len(spool) /\ i \in DOMAIN spool /\ spool[i] = e
      BY <1>a, <2>1, <2>7
    <3>2. Start \in Nat /\ ConsumedTo \in Nat /\ Start =< ConsumedTo
      BY <1>0, ConsumedAhead
    <3>3. CASE Taken(e) /\ offset # None
      <4>1. i =< offset /\ Start = offset
        BY <1>0, <3>1, <3>3 DEF TakenBehind, Start
      <4> QED BY <1>0, <2>1, <3>1, <3>2, <3>3, <4>1
    <3>4. CASE offset = None
      <4>1. Start = Len(spool) BY <3>4 DEF Start
      <4> QED BY <1>a, <2>1, <3>1, <3>2, <4>1
    <3>5. CASE \E k \in Found : spool[k] = e
      <4>1. PICK k \in Found : spool[k] = e BY <3>5
      <4>2. k \in DOMAIN spool /\ spool[k] # Newline /\ k < ConsumedTo
        BY <1>0, <4>1, FoundAhead, RecorderAssumption
      <4>3. k = i BY <1>0, <3>1, <4>1, <4>2 DEF WrittenOnce
      <4> QED BY <2>1, <3>1, <3>2, <4>2, <4>3
    <3> QED BY <2>5, <2>7, <3>3, <3>4, <3>5
  <2>8. ASSUME NEW e \in Signals, logged'[e] = 1, NEW i \in DOMAIN records'
        PROVE  records'[i] # HookSignal(e)
    <3>1. Taken(e) BY <2>1, <2>8 DEF Taken
    <3> QED BY <2>3, <2>4, <3>1
  <2> QED BY <1>0, <2>1, <2>6, <2>7, <2>8 DEF TakenBehind
<1>17. (World /\ UNCHANGED <<hooks, state, log, lost>>) \/ UNCHANGED vars => TakenBehind'
  BY <1>1 DEF hooks, state, log, vars
<1> QED BY <1>2, <1>3, <1>4, <1>6, <1>7, <1>8, <1>10, <1>11, <1>12, <1>14, <1>15, <1>16, <1>17
        DEF Next, Hook, Tick

(* The invariant of the spool and the records is kept. *)
LEMMA SpooledStep ==
    ASSUME Spooled, [Next]_vars
    PROVE  Spooled'
BY TypedStep, WrittenStep, TakenStep DEF Spooled

-----------------------------------------------------------------------------
(* The log follows what is known. *)

(* Follows speaks of these variables only. *)
FollowsVars == <<known, knownTask, last, lastTask, records, lost>>

(* What is known is in the log, or a record on its way there. *)
LEMMA FollowsStep ==
    ASSUME Spooled, Follows, [Next]_vars
    PROVE  Follows'
<1>0. /\ Typed /\ OneEach /\ WrittenOnce
      /\ known \in [Members -> Reasons \cup {None}]
      /\ knownTask \in [Tasks -> TaskFiles \cup {Absent}]
      /\ tasks \in [Tasks -> TaskFiles \cup {Absent}]
      /\ lastTask \in [Tasks -> TaskFiles \cup {Absent}]
      /\ Len(records) \in Nat /\ DOMAIN records = 1..Len(records)
  BY TypedParts DEF Spooled
<1>1. ASSUME UNCHANGED FollowsVars PROVE Follows'
  BY <1>1 DEF FollowsVars, Follows, AgentsFollow, TasksFollow, IsOf
<1>2. ASSUME UNCHANGED <<state, log>> \/ TickNoSpool \/ TickTruncated,
             lost' = lost
      PROVE  Follows'
  BY <1>1, <1>2 DEF FollowsVars, state, log, TickNoSpool, TickTruncated
<1>3. (World /\ UNCHANGED <<hooks, state, log, lost>>) \/ UNCHANGED vars => Follows'
  BY <1>2 DEF vars
<1>4. ASSUME NEW e \in Signals, Hook(e) PROVE Follows'
  BY <1>2, <1>4 DEF Hook, StartHook, WriteLine, WriteNewline, HookGoes
<1>5. ASSUME Truncate PROVE Follows'
  <2>1. UNCHANGED <<known, knownTask, last, lastTask, records>>
        /\ ("records" \notin lost' => "records" \notin lost)
    BY <1>5 DEF Truncate, state, log
  <2> QED BY <2>1 DEF Follows, AgentsFollow, TasksFollow, IsOf
<1>6. ASSUME Restart PROVE Follows'
  <2>1. /\ known' = [m \in Members |-> None] /\ knownTask' = [t \in Tasks |-> Absent]
        /\ \A i \in DOMAIN records' : FALSE
    BY <1>6, NoRecords DEF Restart
  <2> QED BY <2>1 DEF Follows, AgentsFollow, TasksFollow
<1>7. ASSUME TickNoSpool \/ TickTruncated PROVE Follows'
  BY <1>2, <1>7 DEF TickNoSpool, TickTruncated, TickGoes
<1>8. ASSUME TickAgents PROVE Follows'
  <2> SUFFICES ASSUME "records" \notin lost PROVE AgentsFollow' /\ TasksFollow'
    BY <1>8 DEF Follows, TickAgents, TickGoes
  <2>1. AgentsFollow /\ TasksFollow
    BY DEF Follows
  <2>2. /\ \A i \in DOMAIN records' : records'[i] \in AgentRecords /\ records'[i].of \in Changed
        /\ \A m \in Changed : \E i \in DOMAIN records' :
              IsOf(i, "agent", m)' /\ records'[i].now = ReasonOf(m)
    BY <1>0, <1>8, NewAgents
  <2>3. /\ known' = [m \in Members |-> IF m \in Gathered THEN ReasonOf(m) ELSE known[m]]
        /\ UNCHANGED <<knownTask, last, lastTask>> /\ rpc = "sleep"
    BY <1>8 DEF TickAgents, TickGoes, log
  <2>4. \A i \in DOMAIN records : FALSE
    BY <1>0, <2>3, NoRecords DEF Typed, Phased
  <2>5. ASSUME NEW m \in Members
        PROVE  \/ known'[m] = None
               \/ known'[m] = last'[m] /\ \A i \in DOMAIN records' : ~IsOf(i, "agent", m)'
               \/ \E i \in DOMAIN records' : IsOf(i, "agent", m)' /\ records'[i].now = known'[m]
    <3>1. CASE m \in Changed
      <4>1. known'[m] = ReasonOf(m)
        BY <2>3, <3>1 DEF Changed
      <4> QED BY <2>2, <3>1, <4>1
    <3>2. CASE m \notin Changed
      <4>1. known'[m] = known[m]
        BY <2>3, <3>2 DEF Changed
      <4>2. known[m] = None \/ known[m] = last[m]
        BY <2>1, <2>4 DEF AgentsFollow
      <4>3. \A i \in DOMAIN records' : ~IsOf(i, "agent", m)'
        BY <2>2, <3>2 DEF IsOf
      <4> QED BY <2>3, <4>1, <4>2, <4>3
    <3> QED BY <3>1, <3>2
  <2>6. AgentsFollow'
    BY <2>5 DEF AgentsFollow
  <2>7. \A t : \A i \in DOMAIN records' : ~IsOf(i, "task", t)'
    BY <2>2, RecordTypes DEF IsOf
  <2>8. TasksFollow'
    BY <2>1, <2>3, <2>4, <2>7 DEF TasksFollow
  <2> QED BY <2>6, <2>8
<1>9. ASSUME TickTasks PROVE Follows'
  <2> SUFFICES ASSUME "records" \notin lost PROVE AgentsFollow' /\ TasksFollow'
    BY <1>9 DEF Follows, TickTasks, TickGoes
  <2>1. AgentsFollow /\ TasksFollow
    BY DEF Follows
  <2>2. /\ \A i \in DOMAIN records' :
              \/ /\ i \in DOMAIN records /\ records[i] \in AgentRecords
                 /\ records'[i] = records[i]
              \/ \E t \in Moved : records'[i] = TaskDelta(t, knownTask[t], tasks[t])
        /\ \A i \in DOMAIN records : i \in DOMAIN records' /\ records'[i] = records[i]
        /\ \A t \in Moved : \E i \in DOMAIN records' :
              records'[i] = TaskDelta(t, knownTask[t], tasks[t])
        /\ \A t \in Moved : TaskDelta(t, knownTask[t], tasks[t]) \in TaskDeltas
    BY <1>0, <1>9, NewDeltas
  <2>3. /\ knownTask' = [t \in Tasks |-> IF t \in Present THEN tasks[t] ELSE knownTask[t]]
        /\ lastTask' = [t \in Tasks |->
              IF knownTask[t] = Absent THEN knownTask'[t] ELSE lastTask[t]]
        /\ UNCHANGED <<known, last>> /\ rpc = "tasks"
    BY <1>9 DEF TickTasks, TickGoes
  <2>4. \A i \in DOMAIN records : records[i] \in AgentRecords
    BY <1>0, <2>3 DEF Typed, Phased
  <2>5. \A m, i : i \in DOMAIN records' /\ IsOf(i, "agent", m)' =>
                     i \in DOMAIN records /\ IsOf(i, "agent", m)
    BY <2>2, RecordTypes DEF IsOf
  <2>6. \A m, i : i \in DOMAIN records /\ IsOf(i, "agent", m) =>
                     /\ i \in DOMAIN records' /\ IsOf(i, "agent", m)'
                     /\ records'[i].now = records[i].now
    BY <2>2 DEF IsOf
  <2>7. AgentsFollow'
    BY <2>1, <2>3, <2>5, <2>6 DEF AgentsFollow
  <2>8. \A t \in Tasks : /\ \A i \in DOMAIN records : ~IsOf(i, "task", t)
                         /\ knownTask[t] \in {Absent, lastTask[t]}
    BY <2>1, <2>4, RecordTypes DEF TasksFollow, IsOf
  <2>9. \A t, i : i \in DOMAIN records' /\ IsOf(i, "task", t)' => t \in Moved
    <3> SUFFICES ASSUME NEW t, NEW i \in DOMAIN records', IsOf(i, "task", t)' PROVE t \in Moved
      OBVIOUS
    <3>1. records'[i].type = "task" /\ records'[i].of = t
      BY DEF IsOf
    <3>2. PICK u \in Moved : records'[i] = TaskDelta(u, knownTask[u], tasks[u])
      BY <2>2, <3>1, RecordTypes
    <3>3. records'[i].of = u
      BY <3>2, RecordTypes
    <3> QED BY <3>1, <3>3
  <2>10. ASSUME NEW t \in Tasks
         PROVE  \/ knownTask'[t] = Absent /\ \A i \in DOMAIN records' : ~IsOf(i, "task", t)'
                \/ /\ knownTask'[t] = lastTask'[t]
                   /\ \A i \in DOMAIN records' : ~IsOf(i, "task", t)'
                \/ \E i \in DOMAIN records' :
                      /\ IsOf(i, "task", t)'
                      /\ records'[i].was = lastTask'[t] /\ records'[i].now = knownTask'[t]
    <3>1. CASE t \in Moved
      <4>1. PICK i \in DOMAIN records' : records'[i] = TaskDelta(t, knownTask[t], tasks[t])
        BY <2>2, <3>1
      <4>2. /\ IsOf(i, "task", t)'
            /\ records'[i].was = knownTask[t] /\ records'[i].now = tasks[t]
        BY <4>1, RecordTypes DEF IsOf
      <4>3. knownTask[t] # Absent /\ t \in Present
        BY <3>1 DEF Moved
      <4>4. knownTask'[t] = tasks[t] /\ lastTask'[t] = lastTask[t]
        BY <2>3, <4>3
      <4>5. knownTask[t] = lastTask[t]
        BY <2>8, <4>3
      <4> QED BY <4>2, <4>4, <4>5
    <3>2. CASE t \notin Moved
      <4>1. \A i \in DOMAIN records' : ~IsOf(i, "task", t)'
        BY <2>9, <3>2
      <4>2. CASE knownTask[t] = Absent
        <5>1. lastTask'[t] = knownTask'[t]
          BY <2>3, <4>2
        <5> QED BY <4>1, <5>1
      <4>3. CASE knownTask[t] # Absent
        <5>1. t \in Present => knownTask[t] = tasks[t]
          BY <3>2, <4>3 DEF Moved
        <5>2. knownTask'[t] = knownTask[t] /\ lastTask'[t] = lastTask[t]
          BY <2>3, <4>3, <5>1
        <5>3. knownTask[t] = lastTask[t]
          BY <2>8, <4>3
        <5> QED BY <4>1, <5>2, <5>3
      <4> QED BY <4>2, <4>3
    <3> QED BY <3>1, <3>2
  <2>11. TasksFollow'
    BY <2>10 DEF TasksFollow
  <2> QED BY <2>7, <2>11
<1>10. ASSUME TickSpool PROVE Follows'
  <2> SUFFICES ASSUME "records" \notin lost PROVE AgentsFollow' /\ TasksFollow'
    BY <1>10 DEF Follows, TickSpool, TickGoes
  <2>1. AgentsFollow /\ TasksFollow
    BY DEF Follows
  <2>2. /\ \A i \in DOMAIN records' :
              \/ /\ i \in DOMAIN records /\ records[i] \in AgentRecords \cup TaskDeltas
                 /\ records'[i] = records[i]
              \/ \E k \in Found : records'[i] = HookSignal(spool[k])
        /\ \A i \in DOMAIN records : i \in DOMAIN records' /\ records'[i] = records[i]
    BY <1>0, <1>10, NewSignals
  <2>3. UNCHANGED <<known, knownTask, last, lastTask>>
    BY <1>10 DEF TickSpool, log
  <2>4. \A type \in {"agent", "task"} : \A x, i :
           i \in DOMAIN records' /\ IsOf(i, type, x)' => i \in DOMAIN records /\ IsOf(i, type, x)
    BY <2>2, RecordTypes DEF IsOf
  <2>5. \A type, x, i : i \in DOMAIN records /\ IsOf(i, type, x) =>
           i \in DOMAIN records' /\ IsOf(i, type, x)' /\ records'[i] = records[i]
    BY <2>2 DEF IsOf
  <2>6. AgentsFollow'
    BY <2>1, <2>3, <2>4, <2>5 DEF AgentsFollow
  <2>7. TasksFollow'
    BY <2>1, <2>3, <2>4, <2>5 DEF TasksFollow
  <2> QED BY <2>6, <2>7
<1>11. ASSUME AppendRecords PROVE Follows'
  <2> SUFFICES ASSUME "records" \notin lost PROVE AgentsFollow' /\ TasksFollow'
    BY <1>11 DEF Follows, AppendRecords, TickGoes
  <2>1. AgentsFollow /\ TasksFollow
    BY DEF Follows
  <2>2. Len(records) \in 0..Len(records) /\ Write(Len(records))
    BY <1>0, <1>11 DEF AppendRecords
  <2>3. /\ \A m \in Members : (\A i \in DOMAIN records : ~IsOf(i, "agent", m)) => last'[m] = last[m]
        /\ \A m \in Members, i \in DOMAIN records :
              IsOf(i, "agent", m) => last'[m] = records[i].now
        /\ \A t \in Tasks :
              (\A i \in DOMAIN records : ~IsOf(i, "task", t)) => lastTask'[t] = lastTask[t]
        /\ \A t \in Tasks, i \in DOMAIN records :
              IsOf(i, "task", t) => lastTask'[t] = records[i].now
    <3>1. /\ \A m \in Members :
                (\A i \in 1..Len(records) : ~IsOf(i, "agent", m)) => last'[m] = last[m]
          /\ \A m \in Members, i \in 1..Len(records) :
                IsOf(i, "agent", m) => last'[m] = records[i].now
          /\ \A t \in Tasks :
                (\A i \in 1..Len(records) : ~IsOf(i, "task", t)) => lastTask'[t] = lastTask[t]
          /\ \A t \in Tasks, i \in 1..Len(records) :
                IsOf(i, "task", t) => lastTask'[t] = records[i].now
      BY <1>0, <2>2, WriteFollows, Zenon
    <3>2. DOMAIN records = 1..Len(records)
      BY <1>0
    <3> QED BY <3>1, <3>2, Zenon
  <2>4. UNCHANGED <<known, knownTask>> /\ \A i \in DOMAIN records' : FALSE
    BY <1>11, NoRecords DEF AppendRecords
  <2>5. \A m \in Members : known[m] = None \/ last'[m] = known[m]
    BY <2>1, <2>3 DEF AgentsFollow
  <2>6. \A t \in Tasks : knownTask[t] = Absent \/ lastTask'[t] = knownTask[t]
    BY <2>1, <2>3 DEF TasksFollow
  <2> QED BY <2>4, <2>5, <2>6 DEF AgentsFollow, TasksFollow
<1>12. ASSUME AppendFails PROVE Follows'
  BY <1>12 DEF AppendFails, Follows
<1> QED BY <1>3, <1>4, <1>5, <1>6, <1>7, <1>8, <1>9, <1>10, <1>11, <1>12
        DEF Next, Tick

-----------------------------------------------------------------------------
(* Nothing that stood alone on a line is passed over. *)

(* Nothing is lost later that has been lost before. *)
LEMMA LostStays == ASSUME [Next]_vars PROVE lost \subseteq lost'
BY DEF Next, Hook, StartHook, WriteLine, WriteNewline, HookGoes, Truncate, Restart, Tick,
       TickAgents, TickTasks, TickNoSpool, TickTruncated, TickSpool, AppendRecords, AppendFails,
       TickGoes, vars

(* The offset is behind a newline or where the recorder began. *)
LEMMA OffsetStep ==
    ASSUME Spooled, OffsetAtLine, [Next]_vars
    PROVE  OffsetAtLine'
<1> SUFFICES ASSUME lost' = {}, offset' # None PROVE OffsetAtLine'
  BY DEF OffsetAtLine
<1>0. /\ Typed /\ WrittenOnce /\ TypeOK /\ lost = {}
      /\ spool \in Seq(Signals \cup {Newline}) /\ Len(spool) \in Nat
      /\ offset \in Nat \cup {None} /\ base \in Nat \cup {None}
  BY TypedParts, LostStays DEF Spooled, Typed
<1>1. ASSUME UNCHANGED <<spool, offset, base>> PROVE OffsetAtLine'
  BY <1>0, <1>1 DEF OffsetAtLine
<1>2. ASSUME NEW x \in Signals \cup {Newline}, spool' = Append(spool, x), UNCHANGED <<offset, base>>
      PROVE  OffsetAtLine'
  <2>1. offset # None /\ base \in Nat /\ base =< offset /\ offset =< Len(spool) /\ offset \in Nat
        /\ (offset = base \/ spool[offset] = Newline)
    BY <1>0, <1>2 DEF OffsetAtLine
  <2>2. /\ Len(spool') = Len(spool) + 1
        /\ \A i \in 1..Len(spool) : spool'[i] = spool[i]
    BY <1>0, <1>2, Appended
  <2>3. offset # base => offset \in 1..Len(spool)
    BY <1>0, <2>1
  <2> QED BY <1>0, <1>2, <2>1, <2>2, <2>3 DEF OffsetAtLine
<1>3. ASSUME NEW e \in Signals, Hook(e) PROVE OffsetAtLine'
  <2>1. UNCHANGED <<offset, base>>
    BY <1>3 DEF Hook, StartHook, WriteLine, WriteNewline, HookGoes, state
  <2>2. \/ UNCHANGED spool
        \/ \E x \in Signals \cup {Newline} : spool' = Append(spool, x)
    BY <1>3 DEF Hook, StartHook, WriteLine, WriteNewline
  <2> QED BY <1>1, <1>2, <2>1, <2>2
<1>4. ASSUME Truncate \/ Restart \/ AppendFails PROVE OffsetAtLine'
  BY <1>4 DEF Truncate, Restart, AppendFails
<1>5. ASSUME TickAgents \/ TickTasks \/ AppendRecords PROVE OffsetAtLine'
  BY <1>1, <1>5 DEF TickAgents, TickTasks, AppendRecords, TickGoes, hooks
<1>6. ASSUME TickNoSpool PROVE OffsetAtLine'
  <2>1. UNCHANGED spool /\ (offset # None => UNCHANGED <<offset, base>>)
        /\ (offset = None => offset' = 0 /\ base' = 0)
    BY <1>6 DEF TickNoSpool, TickGoes, hooks, Baseline
  <2>2. CASE offset # None BY <1>1, <2>1, <2>2
  <2>3. CASE offset = None BY <1>0, <2>1, <2>3 DEF OffsetAtLine
  <2> QED BY <2>2, <2>3
<1>7. ASSUME TickTruncated PROVE OffsetAtLine'
  BY <1>0, <1>7 DEF TickTruncated, Start, OffsetAtLine
<1>8. ASSUME TickSpool PROVE OffsetAtLine'
  <2>1. UNCHANGED spool /\ offset' = ConsumedTo /\ Start =< Len(spool)
        /\ (offset # None => base' = base) /\ (offset = None => base' = Start)
    BY <1>8 DEF TickSpool, TickGoes, hooks, Baseline
  <2>2. /\ Start \in Nat /\ ConsumedTo \in Nat /\ Start =< ConsumedTo
        /\ Start =< Len(spool) => ConsumedTo =< Len(spool)
    BY <1>0, ConsumedAhead
  <2>3. ConsumedTo = Start \/ spool[ConsumedTo] = Newline
    BY <1>0, ConsumedToIsLast DEF Ends
  <2>4. CASE offset # None
    <3>1. /\ Start = offset /\ base \in Nat /\ base =< Start
          /\ Start = base \/ spool[Start] = Newline
      BY <1>0, <2>4 DEF OffsetAtLine, Start
    <3> QED BY <1>0, <2>1, <2>2, <2>3, <2>4, <3>1 DEF OffsetAtLine
  <2>5. CASE offset = None
    BY <1>0, <2>1, <2>2, <2>3, <2>5 DEF OffsetAtLine
  <2> QED BY <2>4, <2>5
<1>9. (World /\ UNCHANGED <<hooks, state, log, lost>>) \/ UNCHANGED vars => OffsetAtLine'
  BY <1>1 DEF hooks, state, vars
<1> QED BY <1>3, <1>4, <1>5, <1>6, <1>7, <1>8, <1>9 DEF Next, Tick

(* A line that stands alone between where the recorder began and the offset. *)
Passed(i) ==
    /\ i \in base + 1..offset - 1
    /\ spool[i] # Newline /\ spool[i + 1] = Newline
    /\ i = base + 1 \/ spool[i - 1] = Newline

(* Such a line is in the log, or in a record on its way there. *)
Recorded(e) == logged[e] = 1 \/ \E j \in DOMAIN records : records[j] = HookSignal(e)

(* Every line that is passed is recorded. *)
LEMMA KeptStep ==
    ASSUME Spooled, OffsetAtLine, SignalsKept, [Next]_vars
    PROVE  SignalsKept'
<1> SUFFICES ASSUME lost' = {}, offset' # None, NEW i, Passed(i)' PROVE Recorded(spool[i])'
  BY DEF SignalsKept, Passed, Recorded
<1>0. /\ Typed /\ WrittenOnce /\ OneEach /\ TakenBehind /\ TypeOK /\ lost = {}
      /\ spool \in Seq(Signals \cup {Newline}) /\ Len(spool) \in Nat
      /\ DOMAIN spool = 1..Len(spool)
      /\ \A j \in DOMAIN spool : spool[j] \in Signals \cup {Newline}
      /\ offset \in Nat \cup {None} /\ base \in Nat \cup {None}
      /\ logged \in [Signals -> Nat] /\ Len(records) \in Nat /\ DOMAIN records = 1..Len(records)
  BY TypedParts, LostStays DEF Spooled, Typed
<1>1. offset # None => \A j : Passed(j) =>
         j \in DOMAIN spool /\ spool[j] \in Signals /\ Recorded(spool[j])
  <2> SUFFICES ASSUME offset # None, NEW j, Passed(j)
               PROVE  j \in DOMAIN spool /\ spool[j] \in Signals /\ Recorded(spool[j])
    OBVIOUS
  <2>1. base \in Nat /\ offset \in Nat /\ offset =< Len(spool)
    BY <1>0 DEF OffsetAtLine
  <2>2. j \in 1..Len(spool)
    BY <1>0, <2>1 DEF Passed
  <2>3. Recorded(spool[j])
    BY <1>0 DEF SignalsKept, Passed, Recorded
  <2> QED BY <1>0, <2>2, <2>3 DEF Passed
<1>2. ASSUME UNCHANGED <<spool, offset, base>>,
             \A e \in Signals : Recorded(e) => Recorded(e)'
      PROVE  Recorded(spool[i])'
  <2>1. Passed(i) BY <1>2 DEF Passed
  <2>2. spool[i] \in Signals /\ Recorded(spool[i]) BY <1>1, <1>2, <2>1
  <2>3. PICK e \in Signals : e = spool[i] /\ e = spool'[i] /\ Recorded(e) BY <1>2, <2>2
  <2> QED BY <1>2, <2>3 DEF Recorded
<1>3. ASSUME UNCHANGED <<logged, records>> PROVE \A e \in Signals : Recorded(e) => Recorded(e)'
  BY <1>3 DEF Recorded
<1>4. ASSUME NEW x \in Signals \cup {Newline}, spool' = Append(spool, x),
             UNCHANGED <<offset, base, logged, records>>
      PROVE  Recorded(spool[i])'
  <2>1. base \in Nat /\ offset \in Nat /\ offset =< Len(spool) /\ offset # None
    BY <1>0, <1>4 DEF OffsetAtLine
  <2>2. \A j \in 1..Len(spool) : spool'[j] = spool[j]
    BY <1>0, <1>4, Appended
  <2>3. /\ i \in base + 1..offset - 1 /\ spool'[i] # Newline /\ spool'[i + 1] = Newline
        /\ i = base + 1 \/ spool'[i - 1] = Newline
    BY <1>4 DEF Passed
  <2>4. i \in 1..Len(spool) /\ i + 1 \in 1..Len(spool)
        /\ (i # base + 1 => i - 1 \in 1..Len(spool))
    BY <1>0, <2>1, <2>3
  <2>5. Passed(i)
    BY <2>2, <2>3, <2>4 DEF Passed
  <2>6. PICK e \in Signals : e = spool[i] /\ e = spool'[i] /\ Recorded(e)
    BY <1>1, <2>1, <2>2, <2>4, <2>5
  <2> QED BY <1>4, <2>6 DEF Recorded
<1>5. ASSUME NEW e \in Signals, Hook(e) PROVE Recorded(spool[i])'
  <2>1. UNCHANGED <<offset, base, logged, records>>
    BY <1>5 DEF Hook, StartHook, WriteLine, WriteNewline, HookGoes, state, log
  <2>2. \/ UNCHANGED spool
        \/ \E x \in Signals \cup {Newline} : spool' = Append(spool, x)
    BY <1>5 DEF Hook, StartHook, WriteLine, WriteNewline
  <2> QED BY <1>2, <1>3, <1>4, <2>1, <2>2
<1>6. ASSUME Truncate \/ Restart \/ AppendFails PROVE FALSE
  BY <1>6 DEF Truncate, Restart, AppendFails
<1>7. ASSUME TickAgents PROVE Recorded(spool[i])'
  <2>1. UNCHANGED <<spool, offset, base, logged>> /\ records = <<>>
    BY <1>0, <1>7 DEF TickAgents, TickGoes, hooks, log, Typed, Phased
  <2>2. \A j \in DOMAIN records : FALSE
    BY <2>1, NoRecords
  <2> QED BY <1>2, <2>1, <2>2 DEF Recorded
<1>8. ASSUME TickTasks PROVE Recorded(spool[i])'
  <2>1. UNCHANGED <<spool, offset, base, logged>>
    BY <1>8 DEF TickTasks, TickGoes, hooks
  <2>2. \A j \in DOMAIN records : j \in DOMAIN records' /\ records'[j] = records[j]
    BY <1>0, <1>8, NewDeltas
  <2> QED BY <1>2, <2>1, <2>2 DEF Recorded
<1>9. ASSUME TickNoSpool PROVE Recorded(spool[i])'
  <2>1. UNCHANGED <<spool, logged, records>> /\ (offset # None => UNCHANGED <<offset, base>>)
        /\ (offset = None => offset' = 0 /\ base' = 0)
    BY <1>9 DEF TickNoSpool, TickGoes, hooks, Baseline, log
  <2>2. CASE offset # None BY <1>2, <1>3, <2>1, <2>2
  <2>3. CASE offset = None
    <3>1. i \in 0 + 1..0 - 1
      BY <2>1, <2>3 DEF Passed
    <3> QED BY <3>1
  <2> QED BY <2>2, <2>3
<1>10. ASSUME TickTruncated PROVE FALSE
  BY <1>0, <1>10 DEF TickTruncated, Start, OffsetAtLine
<1>11. ASSUME TickSpool PROVE Recorded(spool[i])'
  <2>1. UNCHANGED <<spool, logged>> /\ offset' = ConsumedTo /\ Start =< Len(spool)
        /\ (offset # None => base' = base) /\ (offset = None => base' = Start)
    BY <1>11 DEF TickSpool, TickGoes, hooks, Baseline, log
  <2>2. /\ \A j \in DOMAIN records : j \in DOMAIN records' /\ records'[j] = records[j]
        /\ \A k \in Found : \E j \in DOMAIN records' : records'[j] = HookSignal(spool[k])
    BY <1>0, <1>11, NewSignals
  <2>3. /\ Start \in Nat /\ ConsumedTo \in Nat /\ ConsumedTo =< Len(spool)
        /\ ConsumedTo # Start => ConsumedTo \in Ends
    BY <1>0, <2>1, ConsumedAhead, ConsumedToIsLast
  <2>4. /\ i \in base' + 1..ConsumedTo - 1 /\ spool[i] # Newline /\ spool[i + 1] = Newline
        /\ i = base' + 1 \/ spool[i - 1] = Newline
    BY <2>1 DEF Passed
  <2>5. base' \in Nat /\ base' =< Start
    BY <1>0, <2>1, <2>3 DEF OffsetAtLine, Start
  <2>a. PICK b \in Nat : b = base' /\ b =< Start
    BY <2>5
  <2>b. i \in b + 1..ConsumedTo - 1 /\ (i = b + 1 \/ spool[i - 1] = Newline)
    BY <2>4, <2>a
  <2>6. i \in Nat /\ i + 1 =< ConsumedTo /\ i > b
    <3>1. i \in b + 1..ConsumedTo - 1 /\ ConsumedTo \in Nat
      BY <2>3, <2>b
    <3> HIDE DEF Passed
    <3>2. PICK c \in Nat : c = ConsumedTo
      BY <3>1
    <3>3. i \in b + 1..c - 1
      BY <3>1, <3>2
    <3>0. b \in Nat
      BY <2>a
    <3>4. i \in Nat /\ i + 1 =< c /\ i > b
      BY <3>0, <3>2, <3>3
    <3> QED BY <3>2, <3>4
  <2>7. CASE i > Start
    <3>1. i + 1 \in Ends
      BY <1>0, <2>3, <2>4, <2>6, <2>7 DEF Ends
    <3>2. i = b + 1 => i = Start + 1
      <4>1. PICK s \in Nat : s = Start
        BY <2>3
      <4>2. b \in Nat /\ b =< s /\ i \in Nat /\ i > s
        BY <2>a, <2>6, <2>7, <4>1
      <4>3. i = b + 1 => i = s + 1
        BY <4>1, <4>2
      <4> QED BY <4>1, <4>3
    <3>3. i \in 1..Len(spool) /\ IsEvent(i)
      BY <1>0, <2>3, <2>4, <2>b, <2>6, <2>7, <3>1, <3>2 DEF IsEvent
    <3>4. i \in Found
      BY <3>3 DEF Found
    <3> QED BY <2>1, <2>2, <3>4 DEF Recorded
  <2>8. CASE i =< Start
    <3>1. offset # None
      BY <2>1, <2>3, <2>a, <2>6, <2>8
    <3>2. Start = offset /\ base' = base /\ offset \in Nat
          /\ (offset = base \/ spool[offset] = Newline)
      BY <1>0, <2>1, <3>1 DEF OffsetAtLine, Start
    <3>3. i # offset
      BY <2>4, <2>a, <2>6, <3>2
    <3>4. i \in base + 1..offset - 1
      BY <2>a, <2>b, <2>6, <2>8, <3>2, <3>3
    <3>5. Passed(i)
      BY <2>4, <2>a, <2>b, <3>2, <3>4 DEF Passed
    <3>6. Recorded(spool[i])
      BY <1>1, <3>1, <3>5
    <3> QED BY <2>1, <2>2, <3>6 DEF Recorded
  <2> QED BY <2>3, <2>6, <2>7, <2>8
<1>12. ASSUME AppendRecords PROVE Recorded(spool[i])'
  <2>1. Len(records) \in 0..Len(records) /\ Write(Len(records))
        /\ UNCHANGED <<spool, offset, base>>
    BY <1>0, <1>12 DEF AppendRecords, TickGoes, hooks
  <2>2. /\ \A e \in Signals : (\A j \in DOMAIN records : records[j] # HookSignal(e))
              => logged'[e] = logged[e]
        /\ \A e \in Signals, j \in DOMAIN records : records[j] = HookSignal(e)
              => logged'[e] = logged[e] + 1
    <3>1. /\ \A e \in Signals : (\A j \in 1..Len(records) : records[j] # HookSignal(e))
                => logged'[e] = logged[e]
          /\ \A e \in Signals, j \in 1..Len(records) : records[j] = HookSignal(e)
                => logged'[e] = logged[e] + 1
      BY <1>0, <2>1, WriteFollows, Zenon
    <3>2. DOMAIN records = 1..Len(records)
      BY <1>0
    <3> QED BY <3>1, <3>2, Zenon
  <2>3. ASSUME NEW e \in Signals, Recorded(e) PROVE logged'[e] = 1
    <3>1. CASE \E j \in DOMAIN records : records[j] = HookSignal(e)
      <4>1. logged[e] =< 1 /\ logged[e] # 1 /\ logged[e] \in Nat
        BY <1>0, <3>1 DEF TakenBehind
      <4> QED BY <2>2, <3>1, <4>1
    <3>2. CASE \A j \in DOMAIN records : records[j] # HookSignal(e)
      BY <2>2, <2>3, <3>2 DEF Recorded
    <3> QED BY <3>1, <3>2
  <2>4. \A e \in Signals : Recorded(e) => Recorded(e)'
    BY <2>3 DEF Recorded
  <2> QED BY <1>2, <2>1, <2>4
<1>13. ASSUME (World /\ UNCHANGED <<hooks, state, log, lost>>) \/ UNCHANGED vars
       PROVE  Recorded(spool[i])'
  BY <1>2, <1>3, <1>13 DEF hooks, state, log, vars
<1> QED BY <1>5, <1>6, <1>7, <1>8, <1>9, <1>10, <1>11, <1>12, <1>13 DEF Next, Tick

(* The invariant holds of every step, and so always. *)
LEMMA AlwaysSound == Spec => []IInv
<1>1. Init => IInv
  BY StartsSound
<1>2. IInv /\ [Next]_vars => IInv'
  BY SpooledStep, FollowsStep, OffsetStep, KeptStep DEF IInv
<1> QED BY <1>1, <1>2, PTL DEF Spec

-----------------------------------------------------------------------------
(* What follows from it. *)

(***************************************************************************)
(* The variables keep their types, and every agent that is gathered has a  *)
(* reason (tick of recorder.rs, classify of signal_engine.rs).             *)
(***************************************************************************)
THEOREM RecorderTypes == Spec => []TypeOK
<1>1. IInv => TypeOK
  BY DEF IInv, Spooled, Typed
<1> QED BY <1>1, AlwaysSound, PTL

(***************************************************************************)
(* Between two ticks the log says what the recorder knows, as long as      *)
(* every append succeeded (tick and append_records of recorder.rs).        *)
(***************************************************************************)
THEOREM TheLogIsCurrent == Spec => []LogIsCurrent
<1>1. IInv => LogIsCurrent
  <2> SUFFICES ASSUME IInv, rpc = "sleep", "records" \notin lost
               PROVE  /\ \A m \in Members : known[m] \in {None, last[m]}
                      /\ \A t \in Tasks : knownTask[t] \in {Absent, lastTask[t]}
    BY DEF LogIsCurrent
  <2>1. AgentsFollow /\ TasksFollow /\ records = <<>>
    BY DEF IInv, Follows, Spooled, Typed, Phased
  <2>2. \A i \in DOMAIN records : FALSE
    BY <2>1, NoRecords
  <2> QED BY <2>1, <2>2 DEF AgentsFollow, TasksFollow
<1> QED BY <1>1, AlwaysSound, PTL

(* A delta starts where the previous one of its task ended (tick of recorder.rs). *)
THEOREM TheDeltasChain == Spec => []DeltasChain
<1>1. IInv => DeltasChain
  <2> SUFFICES ASSUME IInv, "records" \notin lost, NEW i \in DOMAIN records,
                      records[i].type = "task"
               PROVE  records[i].was = lastTask[records[i].of]
    BY DEF DeltasChain
  <2>1. TasksFollow /\ Typed /\ OneEach
    BY DEF IInv, Follows, Spooled
  <2>2. records[i] \in AllRecords
    BY <2>1, TypedParts
  <2>3. records[i].of \in Tasks
    BY <2>2, RecordTypes DEF AllRecords
  <2>4. PICK j \in DOMAIN records : /\ IsOf(j, "task", records[i].of)
                                    /\ records[j].was = lastTask[records[i].of]
    BY <2>1, <2>3 DEF TasksFollow, IsOf
  <2>5. j = i
    BY <2>1, <2>4 DEF OneEach, IsOf
  <2> QED BY <2>4, <2>5
<1> QED BY <1>1, AlwaysSound, PTL

(***************************************************************************)
(* No event of a hook is recorded twice (consume_spool of recorder.rs),    *)
(* whatever becomes of the spool, the log and the recorder.                *)
(***************************************************************************)
THEOREM SignalsAreOnce == Spec => []SignalOnce
<1>1. IInv => SignalOnce
  <2> SUFFICES ASSUME IInv, NEW e \in Signals
               PROVE  logged[e] + Cardinality({i \in DOMAIN records : records[i] = HookSignal(e)})
                         =< 1
    BY DEF SignalOnce
  <2>1. Typed /\ OneEach /\ TakenBehind
    BY DEF IInv, Spooled
  <2>2. logged[e] \in Nat /\ logged[e] =< 1
    BY <2>1, TypedParts DEF TakenBehind
  <2> DEFINE S == {i \in DOMAIN records : records[i] = HookSignal(e)}
  <2>3. CASE S = {}
    <3>1. Cardinality(S) = 0 BY <2>3, FS_EmptySet
    <3> HIDE DEF S
    <3>2. logged[e] + Cardinality(S) =< 1 BY <2>2, <3>1
    <3> QED BY <3>2 DEF S
  <2>4. CASE S # {}
    <3>1. PICK i \in DOMAIN records : records[i] = HookSignal(e) BY <2>4
    <3>2. S = {i} BY <2>1, <3>1 DEF OneEach
    <3>3. Cardinality(S) = 1 BY <3>2, FS_Singleton
    <3>4. logged[e] = 0 BY <2>1, <2>2, <3>1 DEF TakenBehind
    <3> HIDE DEF S
    <3>5. logged[e] + Cardinality(S) =< 1 BY <3>3, <3>4
    <3> QED BY <3>5 DEF S
  <2> QED BY <2>3, <2>4
<1> QED BY <1>1, AlwaysSound, PTL

(***************************************************************************)
(* Every line that stands alone and has been passed is recorded, as long   *)
(* as nobody truncates the spool and every append succeeds (consume_spool  *)
(* of recorder.rs).                                                        *)
(***************************************************************************)
THEOREM SignalsAreKept == Spec => []SignalsKept
<1>1. IInv => SignalsKept
  BY DEF IInv
<1> QED BY <1>1, AlwaysSound, PTL

=============================================================================
