----------------------------- MODULE HookProofs -----------------------------
(***************************************************************************)
(* What Hook says of notifications, gates, metadata and pointers, for any  *)
(* number of workers, hooks and events.                                    *)
(***************************************************************************)
EXTENDS Hook, FiniteSetTheorems, SequenceTheorems, TLAPS

-----------------------------------------------------------------------------
(* The invariant of the hooks' work. *)

(* What Herdr puts in an event of each kind. *)
Sound(e) ==
    /\ e.kind = "status" => e.who \in Workers /\ e.to \in Statuses
    /\ e.kind = "move" => e.to = "moved"
SoundEvents == {e \in Events : Sound(e)}

(* A hook has an event until its update, and actions from then on. *)
Phased ==
    /\ \A h \in Hooks : hpc[h] = "update" => hev[h] \in SoundEvents
    /\ \A h \in Hooks : hpc[h] = "act" <=> hacts[h] # <<>>
    /\ \A i \in DOMAIN events : events[i] \in SoundEvents

Typed == HookTypeOK /\ Phased

(* The action at this place of a hook's list shows the notification of k. *)
At(h, i, k) == i \in DOMAIN hacts[h] /\ hacts[h][i].do = k[1] /\ hacts[h][i].of = k[2]

(***************************************************************************)
(* The notification of a condition is nowhere before its gate is set, and  *)
(* from then on it is shown or in one place only.                          *)
(***************************************************************************)
OneNotice ==
    \A k \in Keys : k[1] # "attention" =>
        /\ shows[k] =< 1
        /\ k \notin gates => shows[k] = 0 /\ \A h \in Hooks, i \in Nat : ~At(h, i, k)
        /\ \A h \in Hooks, i \in Nat : At(h, i, k) =>
              shows[k] = 0 /\ \A g \in Hooks, j \in Nat : At(g, j, k) => g = h /\ j = i

(* A request sets the gate before it notifies, and only an acknowledgement clears it. *)
AttentionCounted ==
    \A w \in Workers :
        shows[AttentionKey(w)] + raising[w]
            =< acks[w] + IF AttentionKey(w) \in gates THEN 1 ELSE 0

-----------------------------------------------------------------------------
(* The invariant of the metadata. *)

(* Herdr knows the sequence number of a report, and so orders the reports. *)
Sequenced == "noseq" \notin Faults

(* No publication is ahead of the board, and the last one has its status. *)
PublishesBoard ==
    \A h \in Hooks : \A i \in DOMAIN hacts[h] :
        LET p == hacts[h][i] IN
        p.do = "publish" =>
            /\ p.of \in Workers
            /\ p.seq =< sequence[p.of]
            /\ p.seq = sequence[p.of] => p.status = status[p.of]

(* Metadata behind the board has a publication under way that is not, or lost one. *)
MetadataFollows ==
    \A w \in Workers :
        /\ meta[w].seq =< sequence[w]
        /\ meta[w].seq = sequence[w] => meta[w].status = status[w]
        /\ meta[w].seq # sequence[w] =>
              \/ <<"publish", w>> \in lost
              \/ \E h \in Hooks : \E i \in DOMAIN hacts[h] :
                    /\ hacts[h][i].do = "publish" /\ hacts[h][i].of = w
                    /\ hacts[h][i].seq = sequence[w]

MetadataInv == PublishesBoard /\ MetadataFollows

-----------------------------------------------------------------------------
(* The invariant of the pointers. *)

(* A hook has made its update before the next one starts. *)
Ordered == "reorder" \notin Faults

(* The hooks that have an event, and the events from theirs on. *)
Underway == {h \in Hooks : hpc[h] = "update"}
Line == IF Underway = {} THEN events ELSE <<hev[CHOOSE h \in Underway : TRUE]>> \o events

(* The event at place i tells a status of w, or a move of it. *)
Tells(i, w) == i \in DOMAIN Line /\ Line[i].kind = "status" /\ Line[i].who = w
Moves(i, w) == i \in DOMAIN Line /\ Line[i].kind = "move" /\ Line[i].who = w

OneUpdate == \A g, h \in Underway : g = h

(* The first and the last that tell of w, two with none between them, and none at all. *)
Nearest(i, w) == Tells(i, w) /\ \A n \in Nat : Tells(n, w) => i =< n
Latest(i, w) == Tells(i, w) /\ \A n \in Nat : Tells(n, w) => n =< i
Follows(i, j, w) ==
    Tells(i, w) /\ Tells(j, w) /\ i < j /\ \A n \in Nat : Tells(n, w) => n =< i \/ j =< n
Silent(w) == \A n \in Nat : ~Tells(n, w)

(* Each change starts from the one before it, and the last one is what the agent is now. *)
Chained ==
    \A w \in Workers, i \in Nat :
        /\ Tells(i, w) /\ Line[i].to = "blocked" => Line[i].owed
        /\ Tells(i, w) /\ Line[i].owed => Line[i].to # "working"
        /\ \A j \in Nat : Follows(i, j, w) => (Line[j].owed <=> Line[i].to = "working")
        /\ Latest(i, w) => agent[w] \in {Line[i].to, "gone"}

(* Only a change of status owes a pointer. *)
OnlyStatusOwes == \A i \in DOMAIN Line : Line[i].owed => Line[i].kind = "status"

(* An event comes from the pane its agent is in after the moves before it. *)
MovesOnce ==
    \A w \in Workers :
        /\ \A i \in Nat : Moves(i, w) => place[w] = "moved"
        /\ \A i, j \in Nat : Moves(i, w) /\ j \in DOMAIN Line /\ Line[j].who = w /\ i < j
              => Line[j].from = "moved"

(* The pointers typed or in hand, and those of the events to come. *)
Carriers(w) == {h \in Hooks : Holds(h, "pointer", w)}
Owing(s, w) == {i \in DOMAIN s : s[i].owed /\ s[i].who = w}
Missing(w) == due[w] - pointers[w] - Cardinality(Carriers(w)) - Cardinality(Owing(Line, w))

OneCarried ==
    \A h \in Hooks : \A i, j \in DOMAIN hacts[h] :
        hacts[h][i].do = "pointer" /\ hacts[h][j].do = "pointer" => i = j

(***************************************************************************)
(* Where the board has an agent working that no longer is, a pointer is    *)
(* missing already: the one the board would now add is that one.           *)
(***************************************************************************)
Slack ==
    \A w \in Workers :
        /\ Missing(w) >= 0
        /\ status[w] = "working" /\ Missing(w) = 0 =>
              /\ \A i \in Nat : Nearest(i, w) => Line[i].owed
              /\ Silent(w) => agent[w] \in {"working", "gone"}

(* As long as no pointer of an agent is lost, the board keeps up with it. *)
Synced(w) ==
    /\ \A i \in DOMAIN Line : Line[i].who = w =>
          \/ Line[i].from = paneOf[w]
          \/ \E j \in Nat : j < i /\ Moves(j, w)
    /\ place[w] = paneOf[w] \/ \E j \in Nat : Moves(j, w)
    /\ \A i \in Nat : Nearest(i, w) /\ Line[i].owed /\ Line[i].to # "blocked" =>
          status[w] = "working"
    /\ Silent(w) /\ agent[w] = "working" => status[w] = "working"

KeepsUp ==
    \A w \in Workers : <<"pointer", w>> \notin lost =>
        /\ Missing(w) = 0
        /\ runLife = "active" => Synced(w)

(* No hook updates a run that has ended. *)
EndedRests == runLife = "ended" => Underway = {}

LineInv == OneUpdate /\ Chained /\ OnlyStatusOwes /\ MovesOnce /\ EndedRests
PointerInv == OneCarried /\ Slack /\ KeepsUp

-----------------------------------------------------------------------------
(* Lemmas about the operators of the updates. *)

(* The conditions an update may notify; attention is no business of a hook. *)
Conditions == {k \in Keys : k[1] # "attention"}

(* There are as many keys as agents allow. *)
LEMMA KeysFinite == IsFiniteSet(Keys)
<1> DEFINE C == {"exit", "blocked", "attention"}
           P == C \X Workers
<1>1. IsFiniteSet(C)
  <2>1. IsFiniteSet({}) BY FS_EmptySet
  <2>2. IsFiniteSet({"exit"}) BY FS_Singleton
  <2>3. IsFiniteSet({"exit"} \cup {"blocked"}) BY <2>2, FS_AddElement
  <2>4. IsFiniteSet(({"exit"} \cup {"blocked"}) \cup {"attention"}) BY <2>3, FS_AddElement
  <2>5. C = ({"exit"} \cup {"blocked"}) \cup {"attention"} OBVIOUS
  <2> QED BY <2>4, <2>5
<1>2. IsFiniteSet(P) BY <1>1, HookAssumption, FS_Product
<1>3. IsFiniteSet(P \cup {<<"complete", God>>}) BY <1>2, FS_AddElement
<1>4. Keys = P \cup {<<"complete", God>>} BY DEF Keys
<1> QED BY <1>3, <1>4

(* SetToSeq lists every element of a finite set, each once. *)
LEMMA SetToSeqLists ==
    ASSUME NEW S, IsFiniteSet(S)
    PROVE  /\ SetToSeq(S) \in Seq(S)
           /\ \A i, j \in DOMAIN SetToSeq(S) : SetToSeq(S)[i] = SetToSeq(S)[j] => i = j
           /\ \A x \in S : \E i \in DOMAIN SetToSeq(S) : SetToSeq(S)[i] = x
<1> DEFINE n == Cardinality(S)
           Lists == {f \in [1..n -> S] : IsInjective(f)}
           s == SetToSeq(S)
<1>1. n \in Nat /\ ExistsBijection(1..n, S)
  BY FS_CardinalityType
<1>2. Lists # {}
  BY <1>1 DEF ExistsBijection, Bijection, Injection
<1>3. s = CHOOSE f \in [1..n -> S] : IsInjective(f)
  BY DEF SetToSeq
<1>4. s \in [1..n -> S] /\ IsInjective(s)
  BY <1>2, <1>3
<1>5. s \in Seq(S)
  BY <1>1, <1>4, SeqDef
<1>6. IsFiniteSet(1..n) /\ Cardinality(1..n) = n
  BY <1>1, FS_Interval
<1>7. s \in Injection(1..n, S)
  BY <1>4 DEF Injection
<1>8. s \in Surjection(1..n, S)
  BY <1>6, <1>7, FS_Injection
<1> QED BY <1>4, <1>5, <1>8 DEF IsInjective, Surjection

(* NotifyOnce has one notification for each condition without a gate. *)
LEMMA NotifyOnceLists ==
    ASSUME NEW keys \in SUBSET Conditions
    PROVE  /\ NotifyOnce(keys) \in Seq(Actions)
           /\ \A i \in DOMAIN NotifyOnce(keys) :
                 /\ <<NotifyOnce(keys)[i].do, NotifyOnce(keys)[i].of>> \in keys \ gates
                 /\ NotifyOnce(keys)[i].do \in {"exit", "blocked", "complete"}
           /\ \A i, j \in DOMAIN NotifyOnce(keys) :
                 /\ NotifyOnce(keys)[i].do = NotifyOnce(keys)[j].do
                 /\ NotifyOnce(keys)[i].of = NotifyOnce(keys)[j].of
                 => i = j
           /\ \A k \in keys \ gates : \E i \in DOMAIN NotifyOnce(keys) :
                 NotifyOnce(keys)[i].do = k[1] /\ NotifyOnce(keys)[i].of = k[2]
<1> DEFINE S == keys \ gates
           new == SetToSeq(S)
           out == NotifyOnce(keys)
<1>1. S \in SUBSET Keys
  BY DEF Conditions
<1>2. IsFiniteSet(S)
  BY <1>1, KeysFinite, FS_Subset
<1>3. /\ new \in Seq(S)
      /\ \A i, j \in DOMAIN new : new[i] = new[j] => i = j
      /\ \A x \in S : \E i \in DOMAIN new : new[i] = x
  BY <1>2, SetToSeqLists
<1>4. out = [i \in DOMAIN new |-> Notify(new[i])]
  BY DEF NotifyOnce
<1>5. \A k \in S : /\ k = <<k[1], k[2]>> /\ Notify(k) \in Actions
                   /\ k[1] \in {"exit", "blocked", "complete"}
                   /\ Notify(k).do = k[1] /\ Notify(k).of = k[2]
  BY DEF Conditions, Keys, Notify, Act, Actions, Agents
<1> HIDE DEF S, new, out
<1>6. \A i \in DOMAIN new : new[i] \in S /\ DOMAIN new = 1..Len(new) /\ Len(new) \in Nat
  BY <1>3
<1>7. out \in Seq(Actions)
  BY <1>3, <1>4, <1>5, SeqDef
<1>8. DOMAIN out = DOMAIN new /\ \A i \in DOMAIN out :
         /\ new[i] \in S /\ new[i] = <<out[i].do, out[i].of>>
         /\ out[i].do \in {"exit", "blocked", "complete"}
  BY <1>4, <1>5, <1>6
<1>9. \A k \in S : \E i \in DOMAIN out : out[i].do = k[1] /\ out[i].of = k[2]
  <2> SUFFICES ASSUME NEW k \in S PROVE \E i \in DOMAIN out : out[i].do = k[1] /\ out[i].of = k[2]
    OBVIOUS
  <2>1. PICK i \in DOMAIN new : new[i] = k BY <1>3
  <2> QED BY <2>1, <1>4, <1>5, <1>8
<1>10. \A i, j \in DOMAIN out : out[i].do = out[j].do /\ out[i].of = out[j].of => i = j
  BY <1>3, <1>8
<1>11. \A i \in DOMAIN out :
          /\ <<out[i].do, out[i].of>> \in S
          /\ out[i].do \in {"exit", "blocked", "complete"}
  BY <1>8
<1> QED BY <1>7, <1>9, <1>10, <1>11 DEF S, out


(* The actions an update adds beside its notifications. *)
Calls == {a \in Actions : a.do \in {"publish", "drain", "pointer"}}

(***************************************************************************)
(* The list of an update begins with its calls, and then has one           *)
(* notification for each condition it found without a gate.                *)
(***************************************************************************)
LEMMA SweepLists ==
    ASSUME NEW acts \in Seq(Calls), NEW keys \in SUBSET Conditions
    PROVE  LET N == acts \o NotifyOnce(keys) \o NotifyOnce(Overdue \ keys)
               found == (keys \cup Overdue) \ gates IN
           /\ N \in Seq(Actions)
           /\ Len(acts) =< Len(N)
           /\ \A i \in 1..Len(acts) : N[i] = acts[i] /\ N[i] \in Calls
           /\ \A i \in DOMAIN N : i > Len(acts) =>
                 /\ N[i].do \in {"exit", "blocked", "complete"}
                 /\ <<N[i].do, N[i].of>> \in found
           /\ \A i, j \in DOMAIN N :
                 /\ i > Len(acts) /\ j > Len(acts)
                 /\ N[i].do = N[j].do /\ N[i].of = N[j].of
                 => i = j
           /\ \A k \in found : \E i \in DOMAIN N : N[i].do = k[1] /\ N[i].of = k[2]
<1> DEFINE late == Overdue \ keys
           A == NotifyOnce(keys)
           B == NotifyOnce(late)
           N == acts \o A \o B
           n == Len(acts)
           a == Len(A)
           b == Len(B)
           found == (keys \cup Overdue) \ gates
<1>1. Overdue \in SUBSET Conditions
  BY DEF Overdue, Conditions, Keys
<1>2. late \in SUBSET Conditions
  BY <1>1
<1>3. acts \in Seq(Actions) /\ \A i \in 1..n : acts[i] \in Calls
  BY SeqMonotonic, ElementOfSeq DEF Calls
<1>4. /\ A \in Seq(Actions)
      /\ \A i \in DOMAIN A : /\ <<A[i].do, A[i].of>> \in keys \ gates
                             /\ A[i].do \in {"exit", "blocked", "complete"}
      /\ \A i, j \in DOMAIN A : A[i].do = A[j].do /\ A[i].of = A[j].of => i = j
      /\ \A k \in keys \ gates : \E i \in DOMAIN A : A[i].do = k[1] /\ A[i].of = k[2]
  BY NotifyOnceLists
<1>5. /\ B \in Seq(Actions)
      /\ \A i \in DOMAIN B : /\ <<B[i].do, B[i].of>> \in late \ gates
                             /\ B[i].do \in {"exit", "blocked", "complete"}
      /\ \A i, j \in DOMAIN B : B[i].do = B[j].do /\ B[i].of = B[j].of => i = j
      /\ \A k \in late \ gates : \E i \in DOMAIN B : B[i].do = k[1] /\ B[i].of = k[2]
  BY <1>2, NotifyOnceLists
<1> HIDE DEF A, B, late
<1>6. /\ N \in Seq(Actions) /\ n \in Nat /\ a \in Nat /\ b \in Nat
      /\ DOMAIN N = 1..(n + a + b) /\ Len(N) = n + a + b
      /\ DOMAIN A = 1..a /\ DOMAIN B = 1..b
      /\ \A i \in 1..(n + a + b) :
            N[i] = IF i =< n THEN acts[i] ELSE IF i =< n + a THEN A[i - n] ELSE B[i - n - a]
  BY <1>3, <1>4, <1>5
<1> HIDE DEF N, n, a, b
<1>7. \A i \in DOMAIN N : i > n =>
         /\ N[i].do \in {"exit", "blocked", "complete"}
         /\ <<N[i].do, N[i].of>> \in found
         /\ i =< n + a => i - n \in DOMAIN A /\ N[i] = A[i - n] /\ <<N[i].do, N[i].of>> \in keys
         /\ i > n + a => /\ i - n - a \in DOMAIN B /\ N[i] = B[i - n - a]
                         /\ <<N[i].do, N[i].of>> \notin keys
  <2> SUFFICES ASSUME NEW i \in DOMAIN N, i > n
               PROVE  /\ N[i].do \in {"exit", "blocked", "complete"}
                      /\ <<N[i].do, N[i].of>> \in found
                      /\ i =< n + a => /\ i - n \in DOMAIN A /\ N[i] = A[i - n]
                                       /\ <<N[i].do, N[i].of>> \in keys
                      /\ i > n + a => /\ i - n - a \in DOMAIN B /\ N[i] = B[i - n - a]
                                      /\ <<N[i].do, N[i].of>> \notin keys
    OBVIOUS
  <2>1. CASE i =< n + a
    <3>1. i - n \in DOMAIN A /\ N[i] = A[i - n]
      BY <1>6, <2>1
    <3> QED BY <1>4, <1>6, <2>1, <3>1
  <2>2. CASE i > n + a
    <3>1. i - n - a \in DOMAIN B /\ N[i] = B[i - n - a]
      BY <1>6, <2>2
    <3> QED BY <1>5, <1>6, <2>2, <3>1 DEF late
  <2> QED BY <1>6, <2>1, <2>2
<1>8. \A i, j \in DOMAIN N :
         i > n /\ j > n /\ N[i].do = N[j].do /\ N[i].of = N[j].of => i = j
  <2> SUFFICES ASSUME NEW i \in DOMAIN N, NEW j \in DOMAIN N, i > n, j > n,
                      N[i].do = N[j].do, N[i].of = N[j].of
               PROVE  i = j
    OBVIOUS
  <2> DEFINE key == <<N[i].do, N[i].of>>
  <2>4. /\ i =< n + a => i - n \in DOMAIN A /\ N[i] = A[i - n] /\ key \in keys
        /\ i > n + a => i - n - a \in DOMAIN B /\ N[i] = B[i - n - a] /\ key \notin keys
    BY <1>7
  <2>5. key = <<N[j].do, N[j].of>>
    OBVIOUS
  <2>6. /\ j =< n + a => j - n \in DOMAIN A /\ N[j] = A[j - n] /\ key \in keys
        /\ j > n + a => j - n - a \in DOMAIN B /\ N[j] = B[j - n - a] /\ key \notin keys
    BY <1>7, <2>5
  <2> HIDE DEF key
  <2>1. CASE i =< n + a /\ j =< n + a
    <3>1. i - n = j - n
      BY <1>4, <2>4, <2>6, <2>1
    <3> QED BY <1>6, <3>1
  <2>2. CASE i > n + a /\ j > n + a
    <3>1. i - n - a = j - n - a
      BY <1>5, <2>4, <2>6, <2>2
    <3> QED BY <1>6, <3>1
  <2>3. (i =< n + a) <=> (j =< n + a)
    BY <1>6, <2>4, <2>6
  <2> QED BY <1>6, <2>1, <2>2, <2>3
<1>9. ASSUME NEW k \in found PROVE \E i \in DOMAIN N : N[i].do = k[1] /\ N[i].of = k[2]
  <2>1. CASE k \in keys
    <3>1. PICK i \in DOMAIN A : A[i].do = k[1] /\ A[i].of = k[2]
      BY <1>4, <2>1
    <3>2. n + i \in DOMAIN N /\ N[n + i] = A[i]
      BY <1>6
    <3> QED BY <3>1, <3>2
  <2>2. CASE k \notin keys
    <3>1. PICK i \in DOMAIN B : B[i].do = k[1] /\ B[i].of = k[2]
      BY <1>5, <2>2 DEF late
    <3>2. n + a + i \in DOMAIN N /\ N[n + a + i] = B[i]
      BY <1>6
    <3> QED BY <3>1, <3>2
  <2> QED BY <2>1, <2>2
<1>10. N \in Seq(Actions) /\ n =< Len(N) /\ \A i \in 1..n : N[i] = acts[i] /\ N[i] \in Calls
  BY <1>3, <1>6
<1>11. \A i \in DOMAIN N : i > n =>
         /\ N[i].do \in {"exit", "blocked", "complete"}
         /\ <<N[i].do, N[i].of>> \in found
  BY <1>7
<1>12. \A k \in found : \E i \in DOMAIN N : N[i].do = k[1] /\ N[i].of = k[2]
  BY <1>9
<1> QED BY <1>8, <1>10, <1>11, <1>12 DEF N, n, A, B, late

(* The calls of a status event: a publication, perhaps a drain, perhaps a pointer. *)
StatusCalls(w, s) ==
    <<Publish(w, s, sequence'[w], w \in pending)>>
        \o Only(Resting(s), Act("drain", w)) \o Only(OwesPointer(w, s), Act("pointer", w))

LEMMA StatusCallsLists ==
    ASSUME NEW w \in Workers, NEW s \in Statuses, sequence'[w] \in Nat
    PROVE  LET C == StatusCalls(w, s) IN
           /\ C \in Seq(Calls)
           /\ Len(C) >= 1
           /\ C[1] = Publish(w, s, sequence'[w], w \in pending)
           /\ \A i \in 2..Len(C) : C[i].do \in {"drain", "pointer"}
           /\ \A i \in DOMAIN C : C[i].of = w
           /\ \A i, j \in DOMAIN C : C[i].do = "pointer" /\ C[j].do = "pointer" => i = j
           /\ OwesPointer(w, s) <=> \E i \in DOMAIN C : C[i].do = "pointer"
<1> DEFINE p == Publish(w, s, sequence'[w], w \in pending)
           d == Act("drain", w)
           q == Act("pointer", w)
<1>1. /\ p \in Calls /\ d \in Calls /\ q \in Calls
      /\ p.do = "publish" /\ d.do = "drain" /\ q.do = "pointer"
      /\ p.of = w /\ d.of = w /\ q.of = w
  BY DEF Publish, Act, Calls, Actions, Agents
<1> HIDE DEF p, d, q
<1>2. /\ Only(Resting(s), d) \in Seq(Calls)
      /\ Len(Only(Resting(s), d)) = IF Resting(s) THEN 1 ELSE 0
      /\ Resting(s) => Only(Resting(s), d)[1] = d
  BY <1>1 DEF Only
<1>3. /\ Only(OwesPointer(w, s), q) \in Seq(Calls)
      /\ Len(Only(OwesPointer(w, s), q)) = IF OwesPointer(w, s) THEN 1 ELSE 0
      /\ OwesPointer(w, s) => Only(OwesPointer(w, s), q)[1] = q
  BY <1>1 DEF Only
<1> DEFINE D == Only(Resting(s), d)
           Q == Only(OwesPointer(w, s), q)
           C == StatusCalls(w, s)
           m == IF Resting(s) THEN 2 ELSE 1
           n == IF OwesPointer(w, s) THEN m + 1 ELSE m
<1>4. C = <<p>> \o D \o Q
  BY DEF StatusCalls, p, d, q
<1>5. <<p>> \in Seq(Calls) /\ Len(<<p>>) = 1 /\ <<p>>[1] = p
  BY <1>1
<1> HIDE DEF D, Q, C
<1>6. /\ C \in Seq(Calls) /\ Len(C) = n /\ DOMAIN C = 1..n
      /\ C[1] = p
      /\ Resting(s) => C[2] = d
      /\ OwesPointer(w, s) => C[n] = q
  BY <1>2, <1>3, <1>4, <1>5, ConcatProperties DEF D, Q
<1>7. \A i \in DOMAIN C :
         \/ C[i] = p /\ i = 1
         \/ C[i] = d
         \/ C[i] = q /\ i = n /\ OwesPointer(w, s)
  BY <1>6
<1> QED BY <1>1, <1>6, <1>7 DEF C, p

(* The updates that decide on actions. *)
Updates(h) == UpdateStatus(h) \/ UpdateWorkerExit(h) \/ UpdateGodExit(h) \/ UpdateMove(h)

(* Every one of them sweeps, with calls and with conditions. *)
LEMMA UpdatesSweep ==
    ASSUME Typed, NEW h \in Hooks, Updates(h)
    PROVE  /\ hpc[h] = "update" /\ Matches(hev[h]) /\ hev[h] \in SoundEvents
           /\ UNCHANGED pending
           /\ \E acts \in Seq(Calls), keys \in SUBSET Conditions : Sweeps(h, acts, keys)
<1>1. hpc[h] = "update" /\ Matches(hev[h]) /\ hev[h] \in SoundEvents /\ UNCHANGED pending
  BY DEF Updates, UpdateStatus, UpdateWorkerExit, UpdateGodExit, UpdateMove, Typed, Phased
<1>2. <<>> \in Seq(Calls) /\ {} \in SUBSET Conditions /\ <<"complete", God>> \in Conditions
  BY DEF Conditions, Keys
<1>3. hev[h].who \in Agents /\ hev[h] \in Events /\ Sound(hev[h])
  BY <1>1 DEF SoundEvents, Events
<1>4. CASE UpdateStatus(h)
  <2> DEFINE w == hev[h].who
             s == hev[h].to
             keys == IF TeamComplete THEN {<<"complete", God>>} ELSE {}
  <2>1. w \in Workers /\ s \in Statuses
    BY <1>3, <1>4 DEF UpdateStatus, Sound
  <2>2. sequence'[w] \in Nat
    BY <1>4, <2>1 DEF UpdateStatus, Typed, HookTypeOK, NextSequence
  <2>3. Sweeps(h, StatusCalls(w, s), keys)
    BY <1>4 DEF UpdateStatus, StatusCalls
  <2> QED BY <1>1, <1>2, <2>1, <2>2, <2>3, StatusCallsLists
<1>5. CASE UpdateWorkerExit(h)
  <2>1. {<<"exit", hev[h].who>>} \in SUBSET Conditions
    BY <1>3, <1>5 DEF UpdateWorkerExit, Conditions, Keys, Agents
  <2>2. Sweeps(h, <<>>, {<<"exit", hev[h].who>>})
    BY <1>5 DEF UpdateWorkerExit
  <2> QED BY <1>1, <1>2, <2>1, <2>2
<1>6. CASE UpdateGodExit(h)
  BY <1>1, <1>2, <1>6 DEF UpdateGodExit
<1>7. CASE UpdateMove(h)
  BY <1>1, <1>2, <1>7 DEF UpdateMove
<1> QED BY <1>4, <1>5, <1>6, <1>7 DEF Updates

-----------------------------------------------------------------------------
(* Types. *)

LEMMA KeysAre ==
    /\ \A w \in Workers, c \in {"exit", "blocked", "attention"} : <<c, w>> \in Keys
    /\ \A k \in Keys : /\ k = <<k[1], k[2]>>
                       /\ k[1] \in {"exit", "blocked", "attention", "complete"}
                       /\ k[2] \in Agents
                       /\ k[1] # "complete" => k[2] \in Workers
                       /\ k \in Losses
    /\ \A w \in Workers : AttentionKey(w) \in Keys /\ AttentionKey(w) \in Losses
BY DEF Keys, Losses, Agents, AttentionKey

(* Typing of an update's sweep. *)
LEMMA SweepTyped ==
    ASSUME Typed, NEW h \in Hooks, Updates(h)
    PROVE  /\ hpc' \in [Hooks -> {"off", "update", "act"}]
           /\ hev' \in [Hooks -> Events \cup {None}]
           /\ hacts' \in [Hooks -> Seq(Actions)]
           /\ gates' \subseteq Keys
           /\ \A g \in Hooks : g # h =>
                 hpc'[g] = hpc[g] /\ hev'[g] = hev[g] /\ hacts'[g] = hacts[g]
           /\ hpc'[h] # "update" /\ (hpc'[h] = "act" <=> hacts'[h] # <<>>)
           /\ paneOf' \in [Agents -> Spots] => hrun' \in [Hooks -> [Agents -> Spots]]
           /\ UNCHANGED <<herdr, raising, counts>>
<1>1. PICK acts \in Seq(Calls), keys \in SUBSET Conditions : Sweeps(h, acts, keys)
  BY UpdatesSweep
<1> DEFINE N == acts \o NotifyOnce(keys) \o NotifyOnce(Overdue \ keys)
<1>2. N \in Seq(Actions)
  BY SweepLists
<1>3. Decides(h, N) /\ gates' = gates \cup keys \cup Overdue
  BY <1>1 DEF Sweeps
<1>4. Overdue \subseteq Keys /\ keys \subseteq Keys
  BY DEF Overdue, Keys, Conditions
<1> HIDE DEF N
<1> QED BY <1>2, <1>3, <1>4 DEF Typed, HookTypeOK, Decides

LEMMA UpdateKeepsTyped ==
    ASSUME Typed, NEW h \in Hooks, Updates(h)
    PROVE  Typed'
<1> DEFINE e == hev[h]
<1>1. e \in SoundEvents /\ e \in Events /\ Sound(e) /\ e.who \in Agents
  BY UpdatesSweep DEF SoundEvents, Events
<1>2. /\ runLife' \in {"active", "ended"}
      /\ life' \in [Workers -> {"running"} \cup Terminal]
      /\ paneOf' \in [Agents -> Spots]
      /\ status' \in [Workers -> Statuses \cup {None}]
      /\ sequence' \in [Workers -> Nat]
      /\ blocked' \in [Workers -> {"no", "fresh", "over"}]
      /\ pending' \subseteq Workers
  <2>1. CASE UpdateStatus(h)
    BY <1>1, <2>1 DEF UpdateStatus, Typed, HookTypeOK, NextSequence, Sound
  <2>2. CASE UpdateWorkerExit(h)
    BY <1>1, <2>2 DEF UpdateWorkerExit, Typed, HookTypeOK, Terminal, Agents
  <2>3. CASE UpdateGodExit(h)
    BY <1>1, <2>3 DEF UpdateGodExit, Typed, HookTypeOK
  <2>4. CASE UpdateMove(h)
    BY <1>1, <2>4 DEF UpdateMove, Typed, HookTypeOK, Sound, Spots
  <2> QED BY <2>1, <2>2, <2>3, <2>4 DEF Updates
<1>3. HookTypeOK'
  <2>1. UNCHANGED <<herdr, raising, counts>>
    BY SweepTyped
  <2>2. UNCHANGED <<agent, place, events, meta, reports, raising, emitted, raises, acks, due,
                    pointers, shows, lost>>
    BY <2>1 DEF herdr, counts
  <2> QED BY <1>2, <2>2, SweepTyped DEF Typed, HookTypeOK
<1>4. Phased'
  BY SweepTyped DEF Typed, Phased, herdr
<1> QED BY <1>3, <1>4 DEF Typed

(* An event goes to the end of those no hook has taken. *)
LEMMA EmitsTyped ==
    ASSUME Typed, NEW e \in SoundEvents, Emits(e)
    PROVE  /\ events' \in Seq(Events) /\ emitted' \in Nat
           /\ \A i \in DOMAIN events' : events'[i] \in SoundEvents
           /\ events' = Append(events, e)
<1>1. e \in Events
  BY DEF SoundEvents
<1> QED BY <1>1, AppendProperties DEF Emits, Typed, HookTypeOK, Phased

LEMMA HerdrKeepsTyped ==
    ASSUME Typed,
           \/ \E w \in Workers :
                 (\E s \in Statuses : AgentChanges(w, s)) \/ WriteReport(w) \/ ThresholdPasses(w)
           \/ \E a \in Agents : AgentExits(a) \/ PaneMoves(a)
    PROVE  Typed'
<1>1. ASSUME NEW w \in Workers, NEW s \in Statuses, AgentChanges(w, s) PROVE Typed'
  <2> DEFINE owed == s = "blocked" \/ agent[w] = "working"
             e == Event("status", w, s, owed)
  <2>1. e \in SoundEvents /\ Emits(e)
    BY <1>1 DEF AgentChanges, Event, Events, SoundEvents, Sound, Agents, Typed, HookTypeOK, Spots
  <2>2. /\ events' \in Seq(Events) /\ emitted' \in Nat
        /\ \A i \in DOMAIN events' : events'[i] \in SoundEvents
    BY <2>1, EmitsTyped
  <2>3. agent' \in [Agents -> Statuses \cup {"gone"}] /\ due' \in [Workers -> Nat]
    <3>1. agent' = [agent EXCEPT ![w] = s] /\ w \in Agents
      BY <1>1 DEF AgentChanges, Agents
    <3>2. due' = due \/ due' = [due EXCEPT ![w] = @ + 1]
      BY <1>1 DEF AgentChanges
    <3>3. agent' \in [Agents -> Statuses \cup {"gone"}]
      BY <3>1 DEF Typed, HookTypeOK
    <3>4. due' \in [Workers -> Nat]
      <4>1. due \in [Workers -> Nat]
        BY DEF Typed, HookTypeOK
      <4> QED BY <3>2, <4>1
    <3> QED BY <3>3, <3>4
  <2>4. /\ UNCHANGED <<board, place, meta, reports, hooks, raising>>
        /\ UNCHANGED <<raises, acks, pointers, shows, lost>>
    BY <1>1 DEF AgentChanges
  <2> QED BY <2>2, <2>3, <2>4 DEF Typed, HookTypeOK, Phased, board, hooks
<1>2. ASSUME NEW a \in Agents, AgentExits(a) PROVE Typed'
  <2> DEFINE e == Event("exit", a, None, FALSE)
  <2>1. e \in SoundEvents /\ Emits(e)
    BY <1>2 DEF AgentExits, Event, Events, SoundEvents, Sound, Agents, Typed, HookTypeOK, Spots
  <2>2. /\ events' \in Seq(Events) /\ emitted' \in Nat
        /\ \A i \in DOMAIN events' : events'[i] \in SoundEvents
    BY <2>1, EmitsTyped
  <2> QED BY <1>2, <2>2 DEF AgentExits, Typed, HookTypeOK, Phased, board, hooks
<1>3. ASSUME NEW a \in Agents, PaneMoves(a) PROVE Typed'
  <2> DEFINE e == Event("move", a, "moved", FALSE)
  <2>1. e \in SoundEvents /\ Emits(e)
    BY <1>3 DEF PaneMoves, Event, Events, SoundEvents, Sound, Agents, Typed, HookTypeOK, Spots
  <2>2. /\ events' \in Seq(Events) /\ emitted' \in Nat
        /\ \A i \in DOMAIN events' : events'[i] \in SoundEvents
    BY <2>1, EmitsTyped
  <2> QED BY <1>3, <2>2 DEF PaneMoves, Typed, HookTypeOK, Phased, board, hooks, Spots
<1>4. ASSUME NEW w \in Workers, WriteReport(w) PROVE Typed'
  BY <1>4 DEF WriteReport, Typed, HookTypeOK, Phased, board, hooks, counts
<1>5. ASSUME NEW w \in Workers, ThresholdPasses(w) PROVE Typed'
  BY <1>5 DEF ThresholdPasses, Typed, HookTypeOK, Phased, herdr, hooks, counts
<1> QED BY <1>1, <1>2, <1>3, <1>4, <1>5

LEMMA AttentionKeepsTyped ==
    ASSUME Typed, NEW w \in Workers,
           RequestAttention(w) \/ ShowAttention(w) \/ AttentionFails(w) \/ ClearAttention(w)
    PROVE  Typed'
<1>0. AttentionKey(w) \in Keys /\ AttentionKey(w) \in Losses
  BY KeysAre
<1>1. CASE RequestAttention(w)
  <2>1. raising' \in [Workers -> Nat] /\ raises' \in Nat
    BY <1>1 DEF RequestAttention, Typed, HookTypeOK
  <2>2. pending' \subseteq Workers /\ gates' \subseteq Keys
    BY <1>0, <1>1 DEF RequestAttention, Typed, HookTypeOK
  <2>3. /\ UNCHANGED <<runLife, life, paneOf, status, sequence, blocked, herdr, hooks>>
        /\ UNCHANGED <<emitted, acks, due, pointers, shows, lost>>
    BY <1>1 DEF RequestAttention
  <2> QED BY <2>1, <2>2, <2>3 DEF Typed, HookTypeOK, Phased, herdr, hooks
<1>2. CASE ShowAttention(w)
  <2>1. raising' \in [Workers -> Nat] /\ UNCHANGED <<board, herdr, hooks, lost>>
    BY <1>2 DEF ShowAttention, Notifier, Typed, HookTypeOK
  <2>2. shows' \in [Keys -> Nat]
    BY <1>0, <1>2 DEF ShowAttention, Typed, HookTypeOK
  <2>3. UNCHANGED <<emitted, raises, acks, due, pointers>>
    BY <1>2 DEF ShowAttention, Notifier
  <2> QED BY <2>1, <2>2, <2>3 DEF Typed, HookTypeOK, Phased, board, herdr, hooks
<1>3. CASE AttentionFails(w)
  <2>1. raising' \in [Workers -> Nat] /\ lost' \subseteq Losses
    BY <1>0, <1>3 DEF AttentionFails, Notifier, Typed, HookTypeOK
  <2>2. UNCHANGED <<board, herdr, hooks, emitted, raises, acks, due, pointers, shows>>
    BY <1>3 DEF AttentionFails, Notifier
  <2> QED BY <2>1, <2>2 DEF Typed, HookTypeOK, Phased, board, herdr, hooks
<1>4. CASE ClearAttention(w)
  <2>1. pending' \subseteq Workers /\ gates' \subseteq Keys /\ acks' \in [Workers -> Nat]
    BY <1>0, <1>4 DEF ClearAttention, Typed, HookTypeOK
  <2>2. /\ UNCHANGED <<runLife, life, paneOf, status, sequence, blocked, herdr, hooks, raising>>
        /\ UNCHANGED <<emitted, raises, due, pointers, shows, lost>>
    BY <1>4 DEF ClearAttention
  <2> QED BY <2>1, <2>2 DEF Typed, HookTypeOK, Phased, herdr, hooks
<1> QED BY <1>1, <1>2, <1>3, <1>4

(* What is left of a hook's list is typed, and its head is an action. *)
LEMMA ListTyped ==
    ASSUME Typed, NEW h \in Hooks, hpc[h] = "act"
    PROVE  /\ hacts[h] \in Seq(Actions) /\ Len(hacts[h]) >= 1
           /\ Now(h) \in Actions /\ Now(h) = hacts[h][1]
           /\ Tail(hacts[h]) \in Seq(Actions)
           /\ Len(Tail(hacts[h])) = Len(hacts[h]) - 1
           /\ \A i \in 1..(Len(hacts[h]) - 1) : Tail(hacts[h])[i] = hacts[h][i + 1]
<1>1. hacts[h] \in Seq(Actions) /\ hacts[h] # <<>>
  BY DEF Typed, HookTypeOK, Phased
<1> QED BY <1>1, HeadTailProperties DEF Now

(* The calls of a hook that its actions are. *)
Calling(h) == DrainOutbox(h) \/ PublishMetadata(h) \/ InjectPointer(h) \/ ShowNotification(h)

LEMMA CallingKeepsTyped ==
    ASSUME Typed, NEW h \in Hooks, Calling(h)
    PROVE  Typed'
<1>1. HookGoesOn(h) /\ hpc[h] = "act"
  BY DEF Calling, DrainOutbox, PublishMetadata, InjectPointer, ShowNotification, HookGoesOn
<1>2. /\ hpc' \in [Hooks -> {"off", "update", "act"}]
      /\ hacts' \in [Hooks -> Seq(Actions)]
      /\ hrun' \in [Hooks -> [Agents -> Spots]]
      /\ Phased'
  <2>1. /\ hpc \in [Hooks -> {"off", "update", "act"}]
        /\ hacts \in [Hooks -> Seq(Actions)]
        /\ hrun \in [Hooks -> [Agents -> Spots]]
        /\ [a \in Agents |-> "first"] \in [Agents -> Spots]
    BY DEF Typed, HookTypeOK, Spots
  <2>2. Tail(hacts[h]) \in Seq(Actions)
    BY <1>1, ListTyped
  <2>3. /\ hpc' \in [Hooks -> {"off", "update", "act"}]
        /\ hacts' \in [Hooks -> Seq(Actions)]
        /\ hrun' \in [Hooks -> [Agents -> Spots]]
    BY <1>1, <2>1, <2>2 DEF HookGoesOn
  <2>4. Phased'
    BY <1>1, <2>1 DEF HookGoesOn, Typed, Phased
  <2> QED BY <2>3, <2>4
<1>3. /\ meta' \in [Workers -> [status : Statuses \cup {None}, seq : Nat, attention : BOOLEAN]]
      /\ pointers' \in [Workers -> Nat] /\ shows' \in [Keys -> Nat]
  <2>1. CASE DrainOutbox(h)
    BY <2>1 DEF DrainOutbox, Typed, HookTypeOK
  <2>2. CASE PublishMetadata(h)
    BY <1>1, <2>2, ListTyped DEF PublishMetadata, Typed, HookTypeOK, Actions
  <2>3. CASE InjectPointer(h)
    <3> DEFINE a == Now(h).of
    <3>1. pointers' = [pointers EXCEPT ![a] = @ + 1] /\ UNCHANGED <<meta, shows>>
      BY <2>3 DEF InjectPointer
    <3> HIDE DEF a
    <3>2. pointers \in [Workers -> Nat] /\ \A w \in Workers : pointers[w] + 1 \in Nat
      BY DEF Typed, HookTypeOK
    <3>3. \A w \in Workers : pointers'[w] = IF w = a THEN pointers[w] + 1 ELSE pointers[w]
      BY <3>1, <3>2
    <3>4. pointers' \in [Workers -> Nat]
      BY <3>1, <3>2, <3>3
    <3> QED BY <3>1, <3>4 DEF Typed, HookTypeOK
  <2>4. CASE ShowNotification(h)
    BY <1>1, <2>4, ListTyped DEF ShowNotification, Typed, HookTypeOK, Actions
  <2> QED BY <2>1, <2>2, <2>3, <2>4 DEF Calling
<1> QED BY <1>1, <1>2, <1>3 DEF HookGoesOn, Typed, HookTypeOK, board

LEMMA HookEndsTyped ==
    ASSUME Typed, NEW h \in Hooks,
           HookStarts(h) \/ UpdateUnmatched(h) \/ UpdateFails(h) \/ ActionFails(h)
    PROVE  Typed'
<1>1. CASE HookStarts(h)
  <2>1. events \in Seq(Events) /\ events # <<>> /\ Head(events) = events[1]
    BY <1>1 DEF HookStarts, Typed, HookTypeOK
  <2>2. /\ Head(events) \in SoundEvents /\ Head(events) \in Events /\ Tail(events) \in Seq(Events)
        /\ \A i \in DOMAIN Tail(events) : Tail(events)[i] \in SoundEvents
    BY <2>1, HeadTailProperties DEF Typed, Phased, SoundEvents
  <2>3. Owed(Head(events)) \subseteq Losses
    BY <2>2 DEF Owed, Losses, Events
  <2>4. /\ hpc' \in [Hooks -> {"off", "update", "act"}] /\ hev' \in [Hooks -> Events \cup {None}]
        /\ events' \in Seq(Events) /\ lost' \subseteq Losses
    BY <1>1, <2>2, <2>3 DEF HookStarts, Typed, HookTypeOK
  <2>5. Phased'
    <3>1. hpc \in [Hooks -> {"off", "update", "act"}] /\ hev \in [Hooks -> Events \cup {None}]
      BY DEF Typed, HookTypeOK
    <3> QED BY <1>1, <2>2, <3>1 DEF HookStarts, Typed, Phased
  <2>6. /\ UNCHANGED <<board, agent, place, reports, meta, hacts, hrun, raising>>
        /\ UNCHANGED <<emitted, raises, acks, due, pointers, shows>>
    BY <1>1 DEF HookStarts
  <2> QED BY <2>4, <2>5, <2>6 DEF Typed, HookTypeOK, board
<1>2. CASE UpdateUnmatched(h)
  <2>1. Owed(hev[h]) \subseteq Losses
    BY <1>2 DEF UpdateUnmatched, Owed, Losses, Events, Typed, Phased, SoundEvents
  <2> QED BY <1>2, <2>1 DEF UpdateUnmatched, Typed, HookTypeOK, Phased, board, herdr
<1>3. CASE UpdateFails(h)
  <2>1. <<"pointer", hev[h].who>> \in Losses
    BY <1>3 DEF UpdateFails, Losses, Events, Typed, Phased, SoundEvents
  <2> QED BY <1>3, <2>1 DEF UpdateFails, Typed, HookTypeOK, Phased, board, herdr
<1>4. CASE ActionFails(h)
  <2>1. \A a \in Actions : <<a.do, a.of>> \in Losses
    BY DEF Actions, Losses
  <2>2. {<<a.do, a.of>> : a \in ToSet(hacts[h])} \subseteq Losses
    BY <1>4, <2>1, ListTyped DEF ActionFails, ToSet
  <2> QED BY <1>4, <2>2 DEF ActionFails, Typed, HookTypeOK, Phased, board, herdr, Spots
<1> QED BY <1>1, <1>2, <1>3, <1>4

(* Each step keeps the types. *)
LEMMA StepKeepsTyped == Typed /\ [HookNext]_hookVars => Typed'
<1> SUFFICES ASSUME Typed, [HookNext]_hookVars PROVE Typed'
  OBVIOUS
<1>1. ASSUME NEW h \in Hooks, HookStep(h) PROVE Typed'
  BY <1>1, UpdateKeepsTyped, CallingKeepsTyped, HookEndsTyped DEF HookStep, Updates, Calling
<1>2. CASE UNCHANGED hookVars
  BY <1>2 DEF hookVars, board, herdr, hooks, counts, Typed, HookTypeOK, Phased
<1> QED BY <1>1, <1>2, HerdrKeepsTyped, AttentionKeepsTyped DEF HookNext

LEMMA InitTyped == HookInit => Typed
<1> SUFFICES ASSUME HookInit PROVE Typed
  OBVIOUS
<1>1. <<>> \in Seq(Events) /\ <<>> \in Seq(Actions)
  OBVIOUS
<1>2. HookTypeOK
  BY <1>1 DEF HookInit, HookTypeOK, Spots, Statuses
<1>3. Phased
  BY DEF HookInit, Phased
<1> QED BY <1>2, <1>3 DEF Typed

LEMMA TypedThroughout == HookSpec => []Typed
BY InitTyped, StepKeepsTyped, PTL DEF HookSpec

(* The state Hook keeps is of the types it says, for any number of workers, *)
(* hooks and events (HookMetadata, reconcile.rs).                           *)
THEOREM HookTypes == HookSpec => []HookTypeOK
<1>1. Typed => HookTypeOK
  BY DEF Typed
<1> QED BY <1>1, TypedThroughout, PTL

-----------------------------------------------------------------------------
(* The notifications and the gates. *)

(* What an update does to gates and notifications. *)
LEMMA UpdateNotices ==
    ASSUME Typed, NEW h \in Hooks, Updates(h)
    PROVE  /\ \E found \in SUBSET (Conditions \ gates) :
                 /\ gates' = gates \cup found
                 /\ \A k \in Conditions, i \in Nat : At(h, i, k)' => k \in found
                 /\ \A k \in found : \E i \in Nat : At(h, i, k)'
           /\ \A k \in Conditions, i, j \in Nat : At(h, i, k)' /\ At(h, j, k)' => i = j
           /\ \A g \in Hooks, k \in Keys, i \in Nat : g # h => (At(g, i, k)' <=> At(g, i, k))
           /\ \A k \in Keys, i \in Nat : ~At(h, i, k)
           /\ UNCHANGED <<shows, raising, acks, lost, pending>>
<1>1. PICK acts \in Seq(Calls), keys \in SUBSET Conditions : Sweeps(h, acts, keys)
  BY UpdatesSweep
<1> DEFINE N == acts \o NotifyOnce(keys) \o NotifyOnce(Overdue \ keys)
           found == (keys \cup Overdue) \ gates
<1>2. /\ N \in Seq(Actions)
      /\ Len(acts) =< Len(N)
      /\ \A i \in 1..Len(acts) : N[i] = acts[i] /\ N[i] \in Calls
      /\ \A i \in DOMAIN N : i > Len(acts) =>
            /\ N[i].do \in {"exit", "blocked", "complete"}
            /\ <<N[i].do, N[i].of>> \in found
      /\ \A i, j \in DOMAIN N :
            /\ i > Len(acts) /\ j > Len(acts)
            /\ N[i].do = N[j].do /\ N[i].of = N[j].of
            => i = j
      /\ \A k \in found : \E i \in DOMAIN N : N[i].do = k[1] /\ N[i].of = k[2]
  BY SweepLists
<1> HIDE DEF N
<1>3. Decides(h, N) /\ gates' = gates \cup keys \cup Overdue
  BY <1>1 DEF Sweeps, N
<1>4. hacts'[h] = N /\ \A g \in Hooks : g # h => hacts'[g] = hacts[g]
  BY <1>3 DEF Decides, Typed, HookTypeOK
<1>5. found \in SUBSET (Conditions \ gates) /\ gates' = gates \cup found
  BY <1>3 DEF Overdue, Conditions, Keys
<1>6. Len(acts) \in Nat /\ DOMAIN N = 1..Len(N)
  BY <1>2
<1>7. \A k \in Conditions, i \in Nat : At(h, i, k)' =>
         i \in DOMAIN N /\ i > Len(acts) /\ k \in found /\ N[i].do = k[1] /\ N[i].of = k[2]
  <2> SUFFICES ASSUME NEW k \in Conditions, NEW i \in Nat, At(h, i, k)'
               PROVE  /\ i \in DOMAIN N /\ i > Len(acts) /\ k \in found
                      /\ N[i].do = k[1] /\ N[i].of = k[2]
    OBVIOUS
  <2>1. i \in DOMAIN N /\ N[i].do = k[1] /\ N[i].of = k[2]
    BY <1>4 DEF At
  <2>2. k = <<k[1], k[2]>> /\ k[1] \in {"exit", "blocked", "complete"}
    BY KeysAre DEF Conditions
  <2>3. i > Len(acts)
    BY <1>2, <1>6, <2>1, <2>2 DEF Calls
  <2> QED BY <1>2, <2>1, <2>2, <2>3
<1>8. \A k \in found : \E i \in Nat : At(h, i, k)'
  BY <1>2, <1>4, <1>6 DEF At
<1>9. \A k \in Conditions, i, j \in Nat : At(h, i, k)' /\ At(h, j, k)' => i = j
  BY <1>2, <1>7
<1>10. \A g \in Hooks, k \in Keys, i \in Nat : g # h => (At(g, i, k)' <=> At(g, i, k))
  BY <1>4 DEF At
<1>11. \A k \in Keys, i \in Nat : ~At(h, i, k)
  BY UpdatesSweep DEF At, Typed, Phased
<1>12. UNCHANGED <<shows, raising, acks, lost, pending>>
  BY <1>3, UpdatesSweep DEF Decides, counts
<1> HIDE DEF found
<1> QED BY <1>5, <1>7, <1>8, <1>9, <1>10, <1>11, <1>12

(* A call takes the head off a list. *)
LEMMA CallingShifts ==
    ASSUME Typed, NEW h \in Hooks, Calling(h)
    PROVE  /\ hpc[h] = "act"
           /\ UNCHANGED <<gates, raising, acks, lost, due, agent, place, events, hev>>
           /\ UNCHANGED <<runLife, paneOf, status, sequence>>
           /\ hacts'[h] = Tail(hacts[h])
           /\ \A g \in Hooks : g # h => hacts'[g] = hacts[g]
           /\ DOMAIN hacts'[h] = 1..(Len(hacts[h]) - 1)
           /\ DOMAIN hacts[h] = 1..Len(hacts[h]) /\ Len(hacts[h]) \in Nat \ {0}
           /\ \A i \in DOMAIN hacts'[h] : hacts'[h][i] = hacts[h][i + 1]
           /\ \A k \in Keys, i \in Nat : At(h, i, k)' => At(h, i + 1, k)
           /\ \A k \in Keys, i \in Nat : At(h, i, k) /\ i # 1 => At(h, i - 1, k)'
           /\ \A g \in Hooks, k \in Keys, i \in Nat : g # h => (At(g, i, k)' <=> At(g, i, k))
           /\ Now(h) = hacts[h][1] /\ Now(h) \in Actions
           /\ \A g \in Hooks : hpc[g] = "update" <=> hpc'[g] = "update"
<1>1. HookGoesOn(h) /\ hpc[h] = "act"
  BY DEF Calling, DrainOutbox, PublishMetadata, InjectPointer, ShowNotification, HookGoesOn
<1>2. hacts'[h] = Tail(hacts[h]) /\ \A g \in Hooks : g # h => hacts'[g] = hacts[g]
  BY <1>1 DEF HookGoesOn, Typed, HookTypeOK
<1>3. /\ DOMAIN hacts'[h] = 1..(Len(hacts[h]) - 1)
      /\ DOMAIN hacts[h] = 1..Len(hacts[h]) /\ Len(hacts[h]) \in Nat \ {0}
      /\ \A i \in DOMAIN hacts'[h] : hacts'[h][i] = hacts[h][i + 1]
  BY <1>1, <1>2, ListTyped
<1>4. \A k \in Keys, i \in Nat : At(h, i, k)' => At(h, i + 1, k)
  BY <1>3 DEF At
<1>5. \A k \in Keys, i \in Nat : At(h, i, k) /\ i # 1 => At(h, i - 1, k)'
  BY <1>3 DEF At
<1>6. \A g \in Hooks, k \in Keys, i \in Nat : g # h => (At(g, i, k)' <=> At(g, i, k))
  BY <1>2 DEF At
<1>7. \A g \in Hooks : hpc[g] = "update" <=> hpc'[g] = "update"
  BY <1>1 DEF HookGoesOn, Typed, HookTypeOK
<1> QED BY <1>1, <1>2, <1>3, <1>4, <1>5, <1>6, <1>7, ListTyped DEF HookGoesOn, board

(* Herdr, the clock and a hook that takes an event have no part in notifications. *)
Aside ==
    /\ UNCHANGED <<gates, shows, raising, acks, hacts>>
    /\ lost \subseteq lost'

LEMMA StepsAside ==
    ASSUME \/ \E a \in Agents : AgentExits(a) \/ PaneMoves(a)
           \/ \E w \in Workers :
                 (\E s \in Statuses : AgentChanges(w, s)) \/ WriteReport(w) \/ ThresholdPasses(w)
           \/ \E h \in Hooks : HookStarts(h) \/ UpdateUnmatched(h) \/ UpdateFails(h)
           \/ UNCHANGED hookVars
    PROVE  Aside
BY DEF Aside, AgentExits, PaneMoves, AgentChanges, WriteReport, ThresholdPasses, HookStarts,
   UpdateUnmatched, UpdateFails, hookVars, board, herdr, hooks, counts

LEMMA InitNotices == HookInit => OneNotice /\ AttentionCounted /\ GatesAnswered
BY KeysAre DEF HookInit, OneNotice, AttentionCounted, GatesAnswered, At

NoticeInv == OneNotice /\ AttentionCounted /\ GatesAnswered

(* Whether some hook has a notification, in terms of its place. *)
LEMMA InHandAt ==
    ASSUME NEW k \in Keys
    PROVE  /\ Typed => (InHand(k[1], k[2]) <=> \E h \in Hooks, i \in Nat : At(h, i, k))
           /\ Typed' => (InHand(k[1], k[2])' <=> \E h \in Hooks, i \in Nat : At(h, i, k)')
<1>1. Typed => \A h \in Hooks : DOMAIN hacts[h] \subseteq Nat
  BY DEF Typed, HookTypeOK
<1>2. Typed' => \A h \in Hooks : DOMAIN hacts'[h] \subseteq Nat
  BY DEF Typed, HookTypeOK
<1>3. Typed => (InHand(k[1], k[2]) <=> \E h \in Hooks, i \in Nat : At(h, i, k))
  BY <1>1 DEF InHand, Holds, At
<1>4. Typed' => (InHand(k[1], k[2])' <=> \E h \in Hooks, i \in Nat : At(h, i, k)')
  BY <1>2 DEF InHand, Holds, At
<1> QED BY <1>3, <1>4

LEMMA UpdateKeepsNotices ==
    ASSUME Typed, Typed', NoticeInv, NEW h \in Hooks, Updates(h)
    PROVE  NoticeInv'
<1>1. PICK found \in SUBSET (Conditions \ gates) :
         /\ gates' = gates \cup found
         /\ \A k \in Conditions, i \in Nat : At(h, i, k)' => k \in found
         /\ \A k \in found : \E i \in Nat : At(h, i, k)'
  BY UpdateNotices
<1>2. /\ \A k \in Conditions, i, j \in Nat : At(h, i, k)' /\ At(h, j, k)' => i = j
      /\ \A g \in Hooks, k \in Keys, i \in Nat : g # h => (At(g, i, k)' <=> At(g, i, k))
      /\ \A k \in Keys, i \in Nat : ~At(h, i, k)
      /\ UNCHANGED <<shows, raising, acks, lost>>
  BY UpdateNotices
<1>3. OneNotice'
  <2> SUFFICES ASSUME NEW k \in Keys, k[1] # "attention"
               PROVE  /\ shows'[k] =< 1
                      /\ k \notin gates' =>
                            shows'[k] = 0 /\ \A g \in Hooks, i \in Nat : ~At(g, i, k)'
                      /\ \A g \in Hooks, i \in Nat : At(g, i, k)' =>
                            /\ shows'[k] = 0
                            /\ \A f \in Hooks, j \in Nat : At(f, j, k)' => f = g /\ j = i
    BY DEF OneNotice
  <2>1. k \in Conditions
    BY DEF Conditions
  <2>2. /\ shows[k] =< 1
        /\ k \notin gates => shows[k] = 0 /\ \A g \in Hooks, i \in Nat : ~At(g, i, k)
        /\ \A g \in Hooks, i \in Nat : At(g, i, k) =>
              /\ shows[k] = 0
              /\ \A f \in Hooks, j \in Nat : At(f, j, k) => f = g /\ j = i
    BY DEF NoticeInv, OneNotice
  <2> QED BY <1>1, <1>2, <2>1, <2>2
<1>4. AttentionCounted'
  <2>1. \A w \in Workers : AttentionKey(w) \in gates' <=> AttentionKey(w) \in gates
    BY <1>1 DEF Conditions, AttentionKey
  <2> QED BY <1>2, <2>1 DEF NoticeInv, AttentionCounted, AttentionKey
<1>5. GatesAnswered'
  <2> SUFFICES ASSUME NEW k \in gates'
               PROVE  \/ shows'[k] > 0 \/ k \in lost' \/ InHand(k[1], k[2])'
                      \/ k[1] = "attention" /\ raising'[k[2]] > 0
    BY DEF GatesAnswered
  <2>1. k \in Keys
    BY DEF Typed, HookTypeOK
  <2>2. CASE k \in found
    BY <1>1, <2>1, <2>2, InHandAt
  <2>3. CASE k \in gates
    <3>1. \/ shows[k] > 0 \/ k \in lost \/ \E g \in Hooks, i \in Nat : At(g, i, k)
          \/ k[1] = "attention" /\ raising[k[2]] > 0
      BY <2>1, <2>3, InHandAt DEF NoticeInv, GatesAnswered
    <3> QED BY <1>2, <2>1, <3>1, InHandAt
  <2> QED BY <1>1, <2>2, <2>3
<1> QED BY <1>3, <1>4, <1>5 DEF NoticeInv

LEMMA CallingKeepsNotices ==
    ASSUME Typed, Typed', NoticeInv, NEW h \in Hooks, Calling(h)
    PROVE  NoticeInv'
<1> DEFINE now == <<Now(h).do, Now(h).of>>
<1>1. /\ UNCHANGED <<gates, raising, acks, lost>>
      /\ \A k \in Keys, i \in Nat : At(h, i, k)' => At(h, i + 1, k)
      /\ \A k \in Keys, i \in Nat : At(h, i, k) /\ i # 1 => i - 1 \in Nat /\ At(h, i - 1, k)'
      /\ \A g \in Hooks, k \in Keys, i \in Nat : g # h => (At(g, i, k)' <=> At(g, i, k))
  <2>1. \A k \in Keys, i \in Nat : At(h, i, k) /\ i # 1 => i - 1 \in Nat
    <3>1. DOMAIN hacts[h] = 1..Len(hacts[h])
      BY CallingShifts
    <3> QED BY <3>1 DEF At
  <2> QED BY <2>1, CallingShifts
<1>2. \A k \in Keys : At(h, 1, k) <=> k = now
  BY CallingShifts, KeysAre DEF At
<1>3. \/ now \in Keys /\ shows' = [shows EXCEPT ![now] = @ + 1] /\ now[1] # "attention"
      \/ now \notin Keys /\ shows' = shows
  <2>1. Now(h).do # "attention"
    BY CallingShifts DEF Actions
  <2>2. CASE ShowNotification(h)
    BY <2>1, <2>2 DEF ShowNotification
  <2>3. CASE ~ShowNotification(h)
    <3>1. Now(h).do \in {"drain", "publish", "pointer"} /\ shows' = shows
      BY <2>3, CallingShifts
         DEF Calling, DrainOutbox, PublishMetadata, InjectPointer
    <3> QED BY <3>1, KeysAre
  <2> QED BY <2>2, <2>3
<1> HIDE DEF now
<1>4. \A k \in Keys : shows'[k] = IF k = now THEN shows[k] + 1 ELSE shows[k]
  BY <1>3 DEF Typed, HookTypeOK
<1>5. OneNotice'
  <2> SUFFICES ASSUME NEW k \in Keys, k[1] # "attention"
               PROVE  /\ shows'[k] =< 1
                      /\ k \notin gates' =>
                            shows'[k] = 0 /\ \A g \in Hooks, i \in Nat : ~At(g, i, k)'
                      /\ \A g \in Hooks, i \in Nat : At(g, i, k)' =>
                            /\ shows'[k] = 0
                            /\ \A f \in Hooks, j \in Nat : At(f, j, k)' => f = g /\ j = i
    BY DEF OneNotice
  <2>1. /\ shows[k] =< 1
        /\ k \notin gates => shows[k] = 0 /\ \A g \in Hooks, i \in Nat : ~At(g, i, k)
        /\ \A g \in Hooks, i \in Nat : At(g, i, k) =>
              /\ shows[k] = 0
              /\ \A f \in Hooks, j \in Nat : At(f, j, k) => f = g /\ j = i
    BY DEF NoticeInv, OneNotice
  <2>2. shows[k] \in Nat
    BY DEF Typed, HookTypeOK
  <2>3. CASE k = now
    <3>1. At(h, 1, k) /\ shows[k] = 0
      BY <1>2, <2>1, <2>3
    <3>2. ASSUME NEW g \in Hooks, NEW i \in Nat PROVE ~At(g, i, k)'
      <4>1. \A f \in Hooks, j \in Nat : At(f, j, k) => f = h /\ j = 1
        BY <2>1, <3>1
      <4>2. i + 1 \in Nat /\ (At(h, i, k)' => At(h, i + 1, k)) /\ ~At(h, 0, k)
        BY <1>1, <4>1
      <4>3. ~At(h, i + 1, k) \/ i = 0
        BY <4>1
      <4>4. ~At(h, 0, k)'
        BY CallingShifts DEF At
      <4> QED BY <1>1, <4>1, <4>2, <4>3, <4>4
    <3> QED BY <1>1, <1>4, <2>1, <2>3, <3>1, <3>2
  <2>4. CASE k # now
    <3>1. shows'[k] = shows[k]
      BY <1>4, <2>4
    <3>2. \A g \in Hooks, i \in Nat : At(g, i, k)' =>
             IF g = h THEN At(g, i + 1, k) ELSE At(g, i, k)
      BY <1>1
    <3> QED BY <1>1, <2>1, <3>1, <3>2
  <2> QED BY <2>3, <2>4
<1>6. AttentionCounted'
  <2>1. \A w \in Workers : shows'[AttentionKey(w)] = shows[AttentionKey(w)]
    BY <1>3, <1>4, KeysAre DEF AttentionKey
  <2> QED BY <1>1, <2>1 DEF NoticeInv, AttentionCounted
<1>7. GatesAnswered'
  <2> SUFFICES ASSUME NEW k \in gates'
               PROVE  \/ shows'[k] > 0 \/ k \in lost' \/ InHand(k[1], k[2])'
                      \/ k[1] = "attention" /\ raising'[k[2]] > 0
    BY DEF GatesAnswered
  <2>1. k \in Keys /\ k \in gates /\ shows[k] \in Nat
    BY <1>1 DEF Typed, HookTypeOK
  <2>2. \/ shows[k] > 0 \/ k \in lost \/ \E g \in Hooks, i \in Nat : At(g, i, k)
        \/ k[1] = "attention" /\ raising[k[2]] > 0
    BY <2>1, InHandAt DEF NoticeInv, GatesAnswered
  <2>3. CASE k = now
    BY <1>4, <2>1, <2>3
  <2>4. CASE k # now
    <3>1. ASSUME NEW g \in Hooks, NEW i \in Nat, At(g, i, k)
          PROVE  \E j \in Nat : At(g, j, k)'
      BY <1>1, <1>2, <2>1, <2>4, <3>1
    <3> QED BY <1>1, <1>4, <2>1, <2>2, <2>4, <3>1, InHandAt
  <2> QED BY <2>3, <2>4
<1> QED BY <1>5, <1>6, <1>7 DEF NoticeInv

(* What a failed call leaves undone is noted as lost. *)
LEMMA FailureDrops ==
    ASSUME Typed, NEW h \in Hooks, ActionFails(h)
    PROVE  /\ UNCHANGED <<gates, shows, raising, acks, due, pointers, hev, events, agent, place>>
           /\ UNCHANGED <<runLife, paneOf, status, sequence, meta>>
           /\ hacts'[h] = <<>>
           /\ \A g \in Hooks : g # h => hacts'[g] = hacts[g]
           /\ \A i \in DOMAIN hacts[h] : <<hacts[h][i].do, hacts[h][i].of>> \in lost'
           /\ lost \subseteq lost'
           /\ \A g \in Hooks : hpc[g] = "update" <=> hpc'[g] = "update"
<1>1. \A i \in DOMAIN hacts[h] : <<hacts[h][i].do, hacts[h][i].of>> \in lost'
  BY DEF ActionFails, ToSet
<1> QED BY <1>1 DEF ActionFails, Typed, HookTypeOK, board, herdr

LEMMA FailureKeepsNotices ==
    ASSUME Typed, Typed', NoticeInv, NEW h \in Hooks, ActionFails(h)
    PROVE  NoticeInv'
<1>1. \A k \in Keys, i \in Nat : At(h, i, k) => k \in lost'
  <2> SUFFICES ASSUME NEW k \in Keys, NEW i \in Nat, At(h, i, k) PROVE k \in lost'
    OBVIOUS
  <2>1. k = <<hacts[h][i].do, hacts[h][i].of>> /\ i \in DOMAIN hacts[h]
    BY KeysAre DEF At
  <2> QED BY <2>1, FailureDrops
<1>2. \A g \in Hooks, k \in Keys, i \in Nat : At(g, i, k)' <=> g # h /\ At(g, i, k)
  BY FailureDrops DEF At
<1>3. OneNotice'
  BY <1>2, FailureDrops DEF NoticeInv, OneNotice
<1>4. AttentionCounted'
  BY FailureDrops DEF NoticeInv, AttentionCounted, AttentionKey
<1>5. GatesAnswered'
  <2> SUFFICES ASSUME NEW k \in gates'
               PROVE  \/ shows'[k] > 0 \/ k \in lost' \/ InHand(k[1], k[2])'
                      \/ k[1] = "attention" /\ raising'[k[2]] > 0
    BY DEF GatesAnswered
  <2>1. k \in Keys /\ k \in gates
    BY FailureDrops DEF Typed, HookTypeOK
  <2>2. \/ shows[k] > 0 \/ k \in lost \/ \E g \in Hooks, i \in Nat : At(g, i, k)
        \/ k[1] = "attention" /\ raising[k[2]] > 0
    BY <2>1, InHandAt DEF NoticeInv, GatesAnswered
  <2> QED BY <1>1, <1>2, <2>1, <2>2, InHandAt, FailureDrops
<1> QED BY <1>3, <1>4, <1>5 DEF NoticeInv

LEMMA AttentionKeepsNotices ==
    ASSUME Typed, Typed', NoticeInv, NEW w \in Workers,
           RequestAttention(w) \/ ShowAttention(w) \/ AttentionFails(w) \/ ClearAttention(w)
    PROVE  NoticeInv'
<1> DEFINE key == AttentionKey(w)
<1>1. key \in Keys /\ key[1] = "attention" /\ key[2] = w
  BY KeysAre DEF AttentionKey
<1>2. \A v \in Workers : AttentionKey(v) \in Keys /\ (AttentionKey(v) = key => v = w)
  BY KeysAre DEF AttentionKey
<1>3. hacts' = hacts
  BY DEF RequestAttention, ShowAttention, AttentionFails, ClearAttention, Notifier, hooks
<1>4. /\ \A g \in Hooks, k \in Keys, i \in Nat : At(g, i, k)' <=> At(g, i, k)
      /\ \A k \in Keys : InHand(k[1], k[2])' <=> InHand(k[1], k[2])
  BY <1>3 DEF At, InHand, Holds
<1>0. /\ shows \in [Keys -> Nat] /\ raising \in [Workers -> Nat] /\ acks \in [Workers -> Nat]
      /\ \A h \in Hooks : \A i \in DOMAIN hacts[h] : hacts[h][i] \in Actions
  <2>1. hacts \in [Hooks -> Seq(Actions)]
    BY DEF Typed, HookTypeOK
  <2>2. \A h \in Hooks : \A i \in DOMAIN hacts[h] : hacts[h][i] \in Actions
    BY <2>1
  <2>3. shows \in [Keys -> Nat] /\ raising \in [Workers -> Nat] /\ acks \in [Workers -> Nat]
    BY DEF Typed, HookTypeOK
  <2> QED BY <2>2, <2>3
<1>5. \A k \in Keys : k # key =>
         (k \in gates' <=> k \in gates) /\ shows'[k] = shows[k] /\ (k \in lost => k \in lost')
  BY <1>0 DEF RequestAttention, ShowAttention, AttentionFails, ClearAttention, Notifier, board
<1>6. \A v \in Workers : v # w => raising'[v] = raising[v] /\ acks'[v] = acks[v]
  BY <1>0 DEF RequestAttention, ShowAttention, AttentionFails, ClearAttention, Notifier
<1>7. shows[key] \in Nat /\ raising[w] \in Nat /\ acks[w] \in Nat
  BY <1>1 DEF Typed, HookTypeOK
<1>8. OneNotice'
  BY <1>1, <1>4, <1>5 DEF NoticeInv, OneNotice
<1>9. /\ shows'[key] + raising'[w] =< acks'[w] + (IF key \in gates' THEN 1 ELSE 0)
      /\ key \in gates' => shows'[key] > 0 \/ key \in lost' \/ raising'[w] > 0
  <2>1. /\ shows[key] + raising[w] =< acks[w] + (IF key \in gates THEN 1 ELSE 0)
        /\ key \in gates => \/ shows[key] > 0 \/ key \in lost
                            \/ InHand("attention", w) \/ raising[w] > 0
    BY <1>1 DEF NoticeInv, AttentionCounted, GatesAnswered
  <2>2. ~InHand("attention", w)
    BY <1>0 DEF InHand, Holds, Actions
  <2>3. CASE RequestAttention(w)
    BY <1>0, <1>7, <2>1, <2>2, <2>3 DEF RequestAttention
  <2>4. CASE ShowAttention(w)
    BY <1>0, <1>1, <1>7, <2>1, <2>2, <2>4 DEF ShowAttention, Notifier, board
  <2>5. CASE AttentionFails(w)
    BY <1>0, <1>7, <2>1, <2>2, <2>5 DEF AttentionFails, Notifier, board
  <2>6. CASE ClearAttention(w)
    BY <1>0, <1>7, <2>1, <2>2, <2>6 DEF ClearAttention
  <2> QED BY <2>3, <2>4, <2>5, <2>6
<1> HIDE DEF key
<1>10. AttentionCounted'
  <2> SUFFICES ASSUME NEW v \in Workers
               PROVE  shows'[AttentionKey(v)] + raising'[v]
                         =< acks'[v] + IF AttentionKey(v) \in gates' THEN 1 ELSE 0
    BY DEF AttentionCounted, AttentionKey
  <2>1. CASE v = w
    BY <1>9, <2>1 DEF key
  <2>2. CASE v # w
    BY <1>2, <1>5, <1>6, <2>2 DEF NoticeInv, AttentionCounted
  <2> QED BY <2>1, <2>2
<1>11. GatesAnswered'
  <2> SUFFICES ASSUME NEW k \in gates'
               PROVE  \/ shows'[k] > 0 \/ k \in lost' \/ InHand(k[1], k[2])'
                      \/ k[1] = "attention" /\ raising'[k[2]] > 0
    BY DEF GatesAnswered
  <2>1. k \in Keys
    BY DEF Typed, HookTypeOK
  <2>2. CASE k = key
    BY <1>1, <1>9, <2>2
  <2>3. CASE k # key
    <3>1. \/ shows[k] > 0 \/ k \in lost \/ InHand(k[1], k[2])
          \/ k[1] = "attention" /\ raising[k[2]] > 0
      BY <1>5, <2>1, <2>3 DEF NoticeInv, GatesAnswered
    <3>2. k[1] = "attention" => k[2] # w /\ k[2] \in Workers
      BY <2>1, <2>3, KeysAre DEF key, AttentionKey
    <3> QED BY <1>4, <1>5, <1>6, <2>1, <2>3, <3>1, <3>2
  <2> QED BY <2>2, <2>3
<1> QED BY <1>8, <1>10, <1>11 DEF NoticeInv

LEMMA AsideKeepsNotices ==
    ASSUME NoticeInv, Aside
    PROVE  NoticeInv'
<1>1. \A k \in Keys : InHand(k[1], k[2])' <=> InHand(k[1], k[2])
  BY DEF Aside, InHand, Holds
<1>2. OneNotice'
  BY DEF NoticeInv, OneNotice, Aside, At
<1>3. AttentionCounted'
  BY DEF NoticeInv, AttentionCounted, Aside, AttentionKey
<1>4. GatesAnswered'
  BY DEF NoticeInv, GatesAnswered, Aside, InHand, Holds
<1> QED BY <1>2, <1>3, <1>4 DEF NoticeInv

LEMMA NoticesThroughout == HookSpec => [](Typed /\ NoticeInv)
<1>1. HookInit => NoticeInv
  BY InitNotices DEF NoticeInv
<1>2. Typed /\ Typed' /\ NoticeInv /\ [HookNext]_hookVars => NoticeInv'
  <2> SUFFICES ASSUME Typed, Typed', NoticeInv, [HookNext]_hookVars PROVE NoticeInv'
    OBVIOUS
  <2>1. ASSUME NEW h \in Hooks, HookStep(h) PROVE NoticeInv'
    <3>1. CASE Updates(h)
      BY <3>1, UpdateKeepsNotices
    <3>2. CASE Calling(h)
      BY <3>2, CallingKeepsNotices
    <3>3. CASE ActionFails(h)
      BY <3>3, FailureKeepsNotices
    <3>4. CASE HookStarts(h) \/ UpdateUnmatched(h) \/ UpdateFails(h)
      BY <3>4, StepsAside, AsideKeepsNotices
    <3> QED BY <2>1, <3>1, <3>2, <3>3, <3>4 DEF HookStep, Updates, Calling
  <2>2. CASE UNCHANGED hookVars
    BY <2>2, StepsAside, AsideKeepsNotices
  <2>3. ASSUME NEW a \in Agents, AgentExits(a) \/ PaneMoves(a) PROVE NoticeInv'
    BY <2>3, StepsAside, AsideKeepsNotices
  <2>4. ASSUME NEW w \in Workers,
               (\E s \in Statuses : AgentChanges(w, s)) \/ WriteReport(w) \/ ThresholdPasses(w)
        PROVE  NoticeInv'
    BY <2>4, StepsAside, AsideKeepsNotices
  <2> QED BY <2>1, <2>2, <2>3, <2>4, AttentionKeepsNotices DEF HookNext
<1> QED BY <1>1, <1>2, TypedThroughout, PTL DEF HookSpec

(***************************************************************************)
(* A condition is notified once however many hooks run and whichever       *)
(* fails, and attention once between two acknowledgements: the gate is set *)
(* in the update that decides on the notification (reconcile.rs,           *)
(* notify_once; msg.rs, request_attention_from_pane).                      *)
(***************************************************************************)
THEOREM NotifiedOnce == HookSpec => []OncePerCondition
<1>1. Typed /\ NoticeInv => OncePerCondition
  <2> SUFFICES ASSUME Typed, NoticeInv, NEW k \in Keys
               PROVE  shows[k] =< IF k[1] = "attention" THEN 1 + acks[k[2]] ELSE 1
    BY DEF OncePerCondition
  <2>1. CASE k[1] # "attention"
    BY <2>1 DEF NoticeInv, OneNotice
  <2>2. CASE k[1] = "attention"
    <3>1. k = AttentionKey(k[2]) /\ k[2] \in Workers
      BY <2>2, KeysAre DEF AttentionKey
    <3>2. shows[k] \in Nat /\ raising[k[2]] \in Nat /\ acks[k[2]] \in Nat
      BY <3>1 DEF Typed, HookTypeOK
    <3>3. shows[k] + raising[k[2]] =< acks[k[2]] + IF k \in gates THEN 1 ELSE 0
      BY <3>1 DEF NoticeInv, AttentionCounted
    <3> QED BY <2>2, <3>2, <3>3
  <2> QED BY <2>1, <2>2
<1> QED BY <1>1, NoticesThroughout, PTL

(***************************************************************************)
(* No gate is set for nothing, for any number of workers and hooks: its    *)
(* notification was shown, some process still has it, or one failed at it  *)
(* (reconcile.rs, notify_once and hook.rs, on_agent_status).               *)
(***************************************************************************)
THEOREM GatesAreAnswered == HookSpec => []GatesAnswered
<1>1. Typed /\ NoticeInv => GatesAnswered
  BY DEF NoticeInv
<1> QED BY <1>1, NoticesThroughout, PTL

-----------------------------------------------------------------------------
(* The notifications are those of Notices. *)

(* What Notices sees of the hooks. *)
Pledged == [k \in Keys |-> Outstanding(k)]
Cleared == [k \in Keys |-> IF k[1] = "attention" THEN acks[k[2]] ELSE 0]
Seen == <<gates, Pledged, shows, lost \cap Keys, Cleared>>

(* A request sets the gate with the worker's mark, and an acknowledgement clears both. *)
MarkIsGate == \A w \in Workers : w \in pending <=> AttentionKey(w) \in gates

(* A step that leaves a condition where it is in the hooks leaves it owed. *)
LEMMA SameOwed ==
    ASSUME Typed, Typed', NEW k \in Keys, k[1] = "attention" => raising'[k[2]] = raising[k[2]],
           (\E h \in Hooks, i \in Nat : At(h, i, k)') <=> (\E h \in Hooks, i \in Nat : At(h, i, k))
    PROVE  Pledged'[k] = Pledged[k]
BY InHandAt DEF Pledged, Outstanding

(* An update raises the conditions it found. *)
LEMMA UpdateRaises ==
    ASSUME Typed, Typed', NoticeInv, NEW h \in Hooks, Updates(h)
    PROVE  Promised!Next
<1>1. PICK found \in SUBSET (Conditions \ gates) :
         /\ gates' = gates \cup found
         /\ \A k \in Conditions, i \in Nat : At(h, i, k)' => k \in found
         /\ \A k \in found : \E i \in Nat : At(h, i, k)'
  BY UpdateNotices
<1>2. /\ \A g \in Hooks, k \in Keys, i \in Nat : g # h => (At(g, i, k)' <=> At(g, i, k))
      /\ \A k \in Keys, i \in Nat : ~At(h, i, k)
      /\ UNCHANGED <<shows, raising, acks, lost>>
  BY UpdateNotices
<1>3. found \in SUBSET (Keys \ gates) /\ \A k \in found : k \in Conditions
  BY <1>1 DEF Conditions
<1>4. \A k \in Keys : Pledged'[k] = IF k \in found THEN Pledged[k] + 1 ELSE Pledged[k]
  <2> SUFFICES ASSUME NEW k \in Keys
               PROVE  Pledged'[k] = IF k \in found THEN Pledged[k] + 1 ELSE Pledged[k]
    OBVIOUS
  <2>1. CASE k \in found
    <3>1. k[1] # "attention" /\ k \notin gates
      BY <1>3, <2>1 DEF Conditions
    <3>2. ~InHand(k[1], k[2]) /\ InHand(k[1], k[2])'
      BY <1>1, <2>1, <3>1, InHandAt DEF NoticeInv, OneNotice
    <3> QED BY <2>1, <3>1, <3>2 DEF Pledged, Outstanding
  <2>2. CASE k \notin found /\ k[1] # "attention"
    <3>1. k \in Conditions
      BY <2>2 DEF Conditions
    <3> QED BY <1>1, <1>2, <2>2, <3>1, SameOwed
  <2>3. CASE k[1] = "attention"
    BY <1>2, <1>3, <2>3 DEF Pledged, Outstanding, Conditions
  <2> QED BY <2>1, <2>2, <2>3
<1>5. Pledged' = [k \in Keys |-> IF k \in found THEN Pledged[k] + 1 ELSE Pledged[k]]
  BY <1>4 DEF Pledged
<1>6. Promised!Raise(found)
  BY <1>1, <1>2, <1>5 DEF Promised!Raise, Pledged
<1> QED BY <1>3, <1>6 DEF Promised!Next

(* A call of a hook shows the notification it is, if it is one. *)
LEMMA CallingShowsOne ==
    ASSUME Typed, Typed', NoticeInv, NEW h \in Hooks, Calling(h)
    PROVE  [Promised!Next]_Seen
<1> DEFINE now == <<Now(h).do, Now(h).of>>
<1>1. /\ UNCHANGED <<gates, raising, acks, lost>>
      /\ \A k \in Keys, i \in Nat : At(h, i, k)' => At(h, i + 1, k)
      /\ \A k \in Keys, i \in Nat : At(h, i, k) /\ i # 1 => i - 1 \in Nat /\ At(h, i - 1, k)'
      /\ \A g \in Hooks, k \in Keys, i \in Nat : g # h => (At(g, i, k)' <=> At(g, i, k))
      /\ \A k \in Keys : ~At(h, 0, k)'
  <2>1. DOMAIN hacts[h] = 1..Len(hacts[h]) /\ DOMAIN hacts'[h] = 1..(Len(hacts[h]) - 1)
    BY CallingShifts
  <2>2. \A k \in Keys, i \in Nat : At(h, i, k) /\ i # 1 => i - 1 \in Nat
    BY <2>1 DEF At
  <2>3. \A k \in Keys : ~At(h, 0, k)'
    BY <2>1 DEF At
  <2> QED BY <2>2, <2>3, CallingShifts
<1>2. \A k \in Keys : At(h, 1, k) <=> k = now
  BY CallingShifts, KeysAre DEF At
<1>3. Now(h).do # "attention"
  BY CallingShifts DEF Actions
<1>4. \A k \in Keys : k # now => Pledged'[k] = Pledged[k]
  <2> SUFFICES ASSUME NEW k \in Keys, k # now PROVE Pledged'[k] = Pledged[k]
    OBVIOUS
  <2>1. ASSUME NEW g \in Hooks, NEW i \in Nat, At(g, i, k)
        PROVE  \E j \in Nat : At(g, j, k)'
    BY <1>1, <1>2, <2>1
  <2>2. ASSUME NEW g \in Hooks, NEW i \in Nat, At(g, i, k)'
        PROVE  \E j \in Nat : At(g, j, k)
    BY <1>1, <2>2
  <2> QED BY <1>1, <2>1, <2>2, SameOwed
<1>5. CASE ShowNotification(h)
  <2>1. PICK n \in Keys : n = now
    BY <1>5 DEF ShowNotification
  <2>2. shows' = [shows EXCEPT ![n] = @ + 1] /\ n[1] # "attention"
    BY <1>3, <1>5, <2>1 DEF ShowNotification
  <2> HIDE DEF now
  <2>3. At(h, 1, n) /\ \A f \in Hooks, j \in Nat : At(f, j, n) => f = h /\ j = 1
    BY <1>2, <2>1, <2>2 DEF NoticeInv, OneNotice
  <2>4. ASSUME NEW g \in Hooks, NEW i \in Nat PROVE ~At(g, i, n)'
    <3>1. i + 1 \in Nat /\ (i + 1 = 1 => i = 0)
      OBVIOUS
    <3> QED BY <1>1, <2>3, <3>1
  <2>5. InHand(n[1], n[2]) /\ ~InHand(n[1], n[2])'
    BY <2>3, <2>4, InHandAt
  <2>6. Pledged[n] = 1 /\ Pledged'[n] = 0
    BY <2>2, <2>5 DEF Pledged, Outstanding
  <2>7. \A k \in Keys : Pledged'[k] = IF k = n THEN Pledged[n] - 1 ELSE Pledged[k]
    BY <1>4, <2>1, <2>6
  <2>8. Pledged' = [Pledged EXCEPT ![n] = @ - 1]
    BY <2>7 DEF Pledged
  <2>9. Promised!Show(n)
    BY <1>1, <2>2, <2>6, <2>8 DEF Promised!Show, Pledged
  <2> QED BY <2>9 DEF Promised!Next
<1>6. CASE ~ShowNotification(h)
  <2>1. Now(h).do \in {"drain", "publish", "pointer"} /\ shows' = shows
    BY <1>6, CallingShifts DEF Calling, DrainOutbox, PublishMetadata, InjectPointer
  <2>2. now \notin Keys
    BY <2>1, KeysAre
  <2>3. Pledged' = Pledged
    BY <1>4, <2>2 DEF Pledged
  <2> QED BY <1>1, <2>1, <2>3 DEF Seen, Cleared
<1> QED BY <1>5, <1>6

(* A hook that fails drops the notifications it had. *)
LEMMA FailureDropsThem ==
    ASSUME Typed, Typed', NoticeInv, NEW h \in Hooks, ActionFails(h)
    PROVE  Promised!Next
<1> DEFINE ks == {k \in Keys : \E i \in Nat : At(h, i, k)}
<1>1. /\ UNCHANGED <<gates, shows, raising, acks>> /\ hacts'[h] = <<>>
      /\ \A g \in Hooks : g # h => hacts'[g] = hacts[g]
  BY FailureDrops
<1>2. \A g \in Hooks, k \in Keys, i \in Nat : At(g, i, k)' <=> g # h /\ At(g, i, k)
  BY <1>1 DEF At
<1>3. \A k \in ks : k[1] # "attention" /\ \A g \in Hooks, i \in Nat : At(g, i, k) => g = h
  <2> SUFFICES ASSUME NEW k \in Keys, NEW j \in Nat, At(h, j, k)
               PROVE  k[1] # "attention" /\ \A g \in Hooks, i \in Nat : At(g, i, k) => g = h
    OBVIOUS
  <2>1. hacts[h] \in Seq(Actions) /\ j \in DOMAIN hacts[h]
    BY DEF At, Typed, HookTypeOK
  <2>2. hacts[h][j] \in Actions
    BY <2>1
  <2>3. k[1] # "attention"
    BY <2>2 DEF At, Actions
  <2> QED BY <2>3 DEF NoticeInv, OneNotice
<1>4. \A k \in ks : Pledged[k] = 1 /\ Pledged'[k] = 0
  BY <1>2, <1>3, InHandAt DEF Pledged, Outstanding
<1>5. \A k \in Keys \ ks : Pledged'[k] = Pledged[k]
  BY <1>1, <1>2, SameOwed
<1>6. lost' \cap Keys = (lost \cap Keys) \cup ks
  <2>1. lost' = lost \cup {<<a.do, a.of>> : a \in ToSet(hacts[h])}
    BY DEF ActionFails
  <2>2. DOMAIN hacts[h] \subseteq Nat
    BY DEF Typed, HookTypeOK
  <2>3. ASSUME NEW k \in Keys PROVE k \in lost' <=> k \in lost \/ \E i \in Nat : At(h, i, k)
    <3>1. k \in lost' <=> k \in lost \/ \E i \in DOMAIN hacts[h] : k = <<hacts[h][i].do, hacts[h][i].of>>
      BY <2>1 DEF ToSet
    <3>2. \A i \in DOMAIN hacts[h] : k = <<hacts[h][i].do, hacts[h][i].of>> <=> At(h, i, k)
      BY KeysAre DEF At
    <3> QED BY <2>2, <3>1, <3>2 DEF At
  <2> QED BY <2>3
<1> HIDE DEF ks
<1>7. Pledged' = [k \in Keys |-> IF k \in ks THEN Pledged[k] - 1 ELSE Pledged[k]]
  <2>1. \A k \in Keys : Pledged'[k] = IF k \in ks THEN Pledged[k] - 1 ELSE Pledged[k]
    BY <1>4, <1>5
  <2> QED BY <2>1 DEF Pledged
<1>8. Promised!Drop(ks)
  BY <1>1, <1>6, <1>7 DEF Promised!Drop, Pledged
<1>9. ks \in SUBSET {k \in Keys : Pledged[k] > 0}
  BY <1>4 DEF ks
<1> QED BY <1>8, <1>9 DEF Promised!Next, Pledged

(* A request raises its condition unless it is gated; the rest is shown, dropped or cleared. *)
LEMMA AttentionSteps ==
    ASSUME Typed, Typed', MarkIsGate, NEW w \in Workers,
           RequestAttention(w) \/ ShowAttention(w) \/ AttentionFails(w) \/ ClearAttention(w)
    PROVE  [Promised!Next]_Seen
<1> DEFINE key == AttentionKey(w)
<1>1. key \in Keys /\ key[1] = "attention" /\ key[2] = w
  BY KeysAre DEF AttentionKey
<1>2. \A k \in Keys : k # key /\ k[1] = "attention" => k[2] # w /\ k[2] \in Workers
  BY KeysAre DEF AttentionKey
<1>3. hacts' = hacts
  BY DEF RequestAttention, ShowAttention, AttentionFails, ClearAttention, Notifier, hooks
<1>4. \A k \in Keys : InHand(k[1], k[2])' <=> InHand(k[1], k[2])
  BY <1>3 DEF InHand, Holds
<1>5. /\ shows \in [Keys -> Nat] /\ raising \in [Workers -> Nat] /\ acks \in [Workers -> Nat]
  BY DEF Typed, HookTypeOK
<1> HIDE DEF key
<1>6. Pledged[key] = raising[w] /\ Pledged'[key] = raising'[w] /\ Cleared[key] = acks[w]
  BY <1>1 DEF Pledged, Outstanding, Cleared
<1>7. \A k \in Keys : (k[1] = "attention" => raising'[k[2]] = raising[k[2]])
         => Pledged'[k] = Pledged[k]
  BY <1>4 DEF Pledged, Outstanding
<1>8. CASE RequestAttention(w) /\ key \in gates
  <2>1. gates' = gates /\ UNCHANGED <<raising, shows, lost, acks>>
    BY <1>8 DEF RequestAttention, key
  <2>2. Pledged' = Pledged
    BY <1>4, <2>1 DEF Pledged, Outstanding
  <2> QED BY <2>1, <2>2 DEF Seen, Cleared
<1>9. CASE RequestAttention(w) /\ key \notin gates
  <2>1. /\ gates' = gates \cup {key} /\ UNCHANGED <<shows, lost, acks>>
        /\ raising' = [raising EXCEPT ![w] = @ + 1]
    BY <1>9 DEF RequestAttention, key
  <2>2. \A k \in Keys : Pledged'[k] = IF k \in {key} THEN Pledged[k] + 1 ELSE Pledged[k]
    BY <1>1, <1>2, <1>5, <1>6, <1>7, <2>1
  <2>3. Pledged' = [k \in Keys |-> IF k \in {key} THEN Pledged[k] + 1 ELSE Pledged[k]]
    BY <2>2 DEF Pledged
  <2>4. Promised!Raise({key})
    BY <2>1, <2>3 DEF Promised!Raise, Pledged
  <2>5. {key} \in SUBSET (Keys \ gates)
    BY <1>1, <1>9
  <2> QED BY <2>4, <2>5 DEF Promised!Next
<1>10. ASSUME Notifier(w)
       PROVE  /\ raising[w] > 0 /\ UNCHANGED <<gates, acks>>
              /\ \A k \in Keys : Pledged'[k] = IF k = key THEN Pledged[k] - 1 ELSE Pledged[k]
  <2>1. raising[w] > 0 /\ raising' = [raising EXCEPT ![w] = @ - 1] /\ UNCHANGED <<gates, acks>>
    BY <1>10 DEF Notifier, board
  <2> QED BY <1>1, <1>2, <1>5, <1>6, <1>7, <2>1
<1>11. CASE ShowAttention(w)
  <2>1. Notifier(w) /\ shows' = [shows EXCEPT ![key] = @ + 1] /\ UNCHANGED lost
    BY <1>11 DEF ShowAttention, key
  <2>2. Pledged' = [Pledged EXCEPT ![key] = @ - 1]
    BY <1>10, <2>1 DEF Pledged
  <2>3. Promised!Show(key)
    BY <1>6, <1>10, <2>1, <2>2 DEF Promised!Show, Pledged
  <2> QED BY <1>1, <2>3 DEF Promised!Next
<1>12. CASE AttentionFails(w)
  <2>1. Notifier(w) /\ lost' = lost \cup {key} /\ UNCHANGED shows
    BY <1>12 DEF AttentionFails, key
  <2>2. \A k \in Keys : Pledged'[k] = IF k \in {key} THEN Pledged[k] - 1 ELSE Pledged[k]
    BY <1>10, <2>1
  <2>3. Pledged' = [k \in Keys |-> IF k \in {key} THEN Pledged[k] - 1 ELSE Pledged[k]]
    BY <2>2 DEF Pledged
  <2>4. lost' \cap Keys = (lost \cap Keys) \cup {key}
    BY <1>1, <2>1
  <2>5. Promised!Drop({key})
    BY <1>10, <2>1, <2>3, <2>4 DEF Promised!Drop, Pledged
  <2>6. {key} \in SUBSET {k \in Keys : Pledged[k] > 0}
    BY <1>1, <1>6, <1>10, <2>1
  <2> QED BY <2>5, <2>6 DEF Promised!Next, Pledged
<1>13. CASE ClearAttention(w)
  <2>1. /\ w \in pending /\ gates' = gates \ {key} /\ acks' = [acks EXCEPT ![w] = @ + 1]
        /\ UNCHANGED <<raising, shows, lost>>
    BY <1>13 DEF ClearAttention, key
  <2>2. key \in gates
    BY <2>1 DEF MarkIsGate, key
  <2>3. Pledged' = Pledged
    BY <1>4, <2>1 DEF Pledged, Outstanding
  <2>4. \A k \in Keys : Cleared'[k] = IF k = key THEN Cleared[k] + 1 ELSE Cleared[k]
    BY <1>1, <1>2, <1>5, <2>1 DEF Cleared
  <2>5. Cleared' = [Cleared EXCEPT ![key] = @ + 1]
    BY <2>4 DEF Cleared
  <2>6. Promised!Acknowledge(key)
    BY <2>1, <2>2, <2>3, <2>5 DEF Promised!Acknowledge, Pledged, Cleared
  <2> QED BY <2>6 DEF Promised!Next, key
<1> QED BY <1>8, <1>9, <1>11, <1>12, <1>13

LEMMA StepKeepsMark ==
    ASSUME Typed, Typed', MarkIsGate, [HookNext]_hookVars
    PROVE  MarkIsGate'
<1>1. \A v, w \in Workers : AttentionKey(v) = AttentionKey(w) => v = w
  BY DEF AttentionKey
<1>2. ASSUME NEW h \in Hooks, HookStep(h) PROVE MarkIsGate'
  <2>1. CASE Updates(h)
    <3>1. \A w \in Workers : AttentionKey(w) \notin Conditions
      BY DEF Conditions, AttentionKey
    <3> QED BY <2>1, <3>1, UpdateNotices DEF MarkIsGate
  <2>2. CASE Calling(h)
    BY <2>2 DEF Calling, DrainOutbox, PublishMetadata, InjectPointer, ShowNotification,
                HookGoesOn, board, MarkIsGate
  <2>3. CASE ActionFails(h) \/ HookStarts(h) \/ UpdateUnmatched(h) \/ UpdateFails(h)
    BY <2>3 DEF ActionFails, HookStarts, UpdateUnmatched, UpdateFails, board, MarkIsGate
  <2> QED BY <1>2, <2>1, <2>2, <2>3 DEF HookStep, Updates, Calling
<1>3. ASSUME NEW w \in Workers, RequestAttention(w) \/ ClearAttention(w) PROVE MarkIsGate'
  BY <1>1, <1>3 DEF RequestAttention, ClearAttention, MarkIsGate
<1>4. ASSUME UNCHANGED board PROVE MarkIsGate'
  BY <1>4 DEF board, MarkIsGate
<1>5. ASSUME NEW w \in Workers, ThresholdPasses(w) PROVE MarkIsGate'
  BY <1>5 DEF ThresholdPasses, MarkIsGate
<1>6. ASSUME NEW w \in Workers, ShowAttention(w) \/ AttentionFails(w) PROVE MarkIsGate'
  BY <1>4, <1>6 DEF ShowAttention, AttentionFails, Notifier
<1>7. ASSUME NEW w \in Workers, NEW s \in Statuses, AgentChanges(w, s) PROVE MarkIsGate'
  BY <1>4, <1>7 DEF AgentChanges
<1>8. ASSUME NEW w \in Workers, WriteReport(w) PROVE MarkIsGate'
  BY <1>4, <1>8 DEF WriteReport
<1>9. ASSUME NEW a \in Agents, AgentExits(a) \/ PaneMoves(a) PROVE MarkIsGate'
  BY <1>4, <1>9 DEF AgentExits, PaneMoves
<1>10. CASE UNCHANGED hookVars
  BY <1>4, <1>10 DEF hookVars
<1> QED BY <1>2, <1>3, <1>5, <1>6, <1>7, <1>8, <1>9, <1>10 DEF HookNext

(* The rest of what happens changes nothing of it. *)
LEMMA AsideShowsNothing ==
    ASSUME \/ \E a \in Agents : AgentExits(a) \/ PaneMoves(a)
           \/ \E w \in Workers :
                 (\E s \in Statuses : AgentChanges(w, s)) \/ WriteReport(w) \/ ThresholdPasses(w)
           \/ \E h \in Hooks : HookStarts(h) \/ UpdateUnmatched(h) \/ UpdateFails(h)
           \/ UNCHANGED hookVars
    PROVE  UNCHANGED Seen
<1>1. UNCHANGED <<gates, shows, raising, acks, hacts>>
  BY StepsAside DEF Aside
<1>2. Pledged' = Pledged /\ Cleared' = Cleared
  BY <1>1 DEF Pledged, Outstanding, Cleared, InHand, Holds
<1>3. \A a : <<"pointer", a>> \notin Keys
  BY DEF Keys
<1>4. lost' \cap Keys = lost \cap Keys
  <2>1. CASE \E h \in Hooks : HookStarts(h) \/ UpdateUnmatched(h) \/ UpdateFails(h)
    BY <1>3, <2>1 DEF HookStarts, UpdateUnmatched, UpdateFails, Owed
  <2>2. CASE lost' = lost
    BY <2>2
  <2> QED BY <2>1, <2>2 DEF AgentExits, PaneMoves, AgentChanges, WriteReport, ThresholdPasses,
                            hookVars, counts
<1> QED BY <1>1, <1>2, <1>4 DEF Seen

(***************************************************************************)
(* Hook implements Notices, for any number of workers, hooks and events:   *)
(* what two or more processes make of a condition, one setting the gate    *)
(* under the lock (reconcile.rs, notify_once; msg.rs) and one notifying    *)
(* without it (hook.rs), is to who is notified one gate with one           *)
(* notification, which is shown or dropped.                                *)
(***************************************************************************)
THEOREM ImplementsNotices == HookSpec => KeepsNotices
<1>1. HookInit => Promised!Init
  <2> SUFFICES ASSUME HookInit PROVE Promised!Init
    OBVIOUS
  <2>1. \A k \in Keys : ~InHand(k[1], k[2]) /\ (k[1] = "attention" => raising[k[2]] = 0 /\ acks[k[2]] = 0)
    BY KeysAre DEF HookInit, InHand, Holds
  <2>2. \A k \in Keys : Pledged[k] = 0 /\ Cleared[k] = 0
    BY <2>1 DEF Pledged, Outstanding, Cleared
  <2>3. Pledged = [k \in Keys |-> 0] /\ Cleared = [k \in Keys |-> 0]
    BY <2>2 DEF Pledged, Cleared
  <2> QED BY <2>3 DEF HookInit, Promised!Init, Pledged, Cleared
<1>2. HookInit => MarkIsGate
  BY DEF HookInit, MarkIsGate
<1>3. Typed /\ Typed' /\ MarkIsGate /\ [HookNext]_hookVars => MarkIsGate'
  BY StepKeepsMark
<1>4. Typed /\ Typed' /\ NoticeInv /\ MarkIsGate /\ [HookNext]_hookVars => [Promised!Next]_Seen
  <2> SUFFICES ASSUME Typed, Typed', NoticeInv, MarkIsGate, [HookNext]_hookVars
               PROVE  [Promised!Next]_Seen
    OBVIOUS
  <2>1. ASSUME NEW h \in Hooks, HookStep(h) PROVE [Promised!Next]_Seen
    <3>1. CASE Updates(h)
      BY <3>1, UpdateRaises
    <3>2. CASE Calling(h)
      BY <3>2, CallingShowsOne
    <3>3. CASE ActionFails(h)
      BY <3>3, FailureDropsThem
    <3>4. CASE HookStarts(h) \/ UpdateUnmatched(h) \/ UpdateFails(h)
      BY <3>4, AsideShowsNothing
    <3> QED BY <2>1, <3>1, <3>2, <3>3, <3>4 DEF HookStep, Updates, Calling
  <2>2. CASE UNCHANGED hookVars
    BY <2>2, AsideShowsNothing
  <2>3. ASSUME NEW a \in Agents, AgentExits(a) \/ PaneMoves(a) PROVE UNCHANGED Seen
    BY <2>3, AsideShowsNothing
  <2>4. ASSUME NEW w \in Workers,
               (\E s \in Statuses : AgentChanges(w, s)) \/ WriteReport(w) \/ ThresholdPasses(w)
        PROVE  UNCHANGED Seen
    BY <2>4, AsideShowsNothing
  <2> QED BY <2>1, <2>2, <2>3, <2>4, AttentionSteps DEF HookNext
<1>5. HookSpec => []MarkIsGate
  BY <1>2, <1>3, TypedThroughout, PTL DEF HookSpec
<1>6. HookSpec => Promised!Init /\ [][Promised!Next]_Seen
  BY <1>1, <1>4, <1>5, NoticesThroughout, PTL DEF HookSpec
<1> QED BY <1>6, PTL DEF KeepsNotices, Promised!Spec, Seen, Pledged, Cleared

-----------------------------------------------------------------------------
(* The metadata. *)

(* The list of a status update: its publication first, and the pointer if one is owed. *)
LEMMA StatusList ==
    ASSUME Typed, NEW h \in Hooks, UpdateStatus(h)
    PROVE  LET w == hev[h].who
               s == hev[h].to
               N == hacts'[h] IN
           /\ w \in Workers /\ s \in Statuses /\ hacts[h] = <<>>
           /\ status' = [status EXCEPT ![w] = s]
           /\ sequence' = [sequence EXCEPT ![w] = sequence[w] + 1]
           /\ 1 \in DOMAIN N /\ N[1] = Publish(w, s, sequence[w] + 1, w \in pending)
           /\ \A i \in DOMAIN N : N[i].do = "publish" => i = 1
           /\ \A i \in DOMAIN N : N[i].do = "pointer" => N[i].of = w
           /\ \A i, j \in DOMAIN N : N[i].do = "pointer" /\ N[j].do = "pointer" => i = j
           /\ OwesPointer(w, s) <=> \E i \in DOMAIN N : N[i].do = "pointer"
           /\ \A g \in Hooks : g # h => hacts'[g] = hacts[g]
<1> DEFINE w == hev[h].who
           s == hev[h].to
           C == StatusCalls(w, s)
           keys == IF TeamComplete THEN {<<"complete", God>>} ELSE {}
           N == C \o NotifyOnce(keys) \o NotifyOnce(Overdue \ keys)
<1>1. Updates(h) /\ hpc[h] = "update"
  BY DEF Updates, UpdateStatus
<1>2. w \in Workers /\ s \in Statuses /\ hacts[h] = <<>>
  BY <1>1, UpdatesSweep DEF UpdateStatus, SoundEvents, Sound, Typed, Phased
<1>3. /\ status' = [status EXCEPT ![w] = s]
      /\ sequence' = [sequence EXCEPT ![w] = sequence[w] + 1]
      /\ sequence'[w] = sequence[w] + 1 /\ sequence'[w] \in Nat
  BY <1>2 DEF UpdateStatus, NextSequence, Typed, HookTypeOK
<1>4. /\ C \in Seq(Calls) /\ Len(C) \in Nat /\ DOMAIN C = 1..Len(C)
      /\ Len(C) >= 1
      /\ C[1] = Publish(w, s, sequence'[w], w \in pending)
      /\ \A i \in 2..Len(C) : C[i].do \in {"drain", "pointer"}
      /\ \A i \in DOMAIN C : C[i].of = w
      /\ \A i, j \in DOMAIN C : C[i].do = "pointer" /\ C[j].do = "pointer" => i = j
      /\ OwesPointer(w, s) <=> \E i \in DOMAIN C : C[i].do = "pointer"
  BY <1>2, <1>3, StatusCallsLists
<1>5. keys \in SUBSET Conditions
  BY DEF Conditions, Keys
<1> HIDE DEF C, keys
<1>6. /\ N \in Seq(Actions)
      /\ Len(C) =< Len(N)
      /\ \A i \in 1..Len(C) : N[i] = C[i] /\ N[i] \in Calls
      /\ \A i \in DOMAIN N : i > Len(C) =>
            /\ N[i].do \in {"exit", "blocked", "complete"}
            /\ <<N[i].do, N[i].of>> \in (keys \cup Overdue) \ gates
  <2>1. C \in Seq(Calls) /\ keys \in SUBSET Conditions
    BY <1>4, <1>5
  <2> QED BY <2>1, SweepLists
<1>7. Sweeps(h, C, keys)
  BY DEF UpdateStatus, StatusCalls, C, keys
<1>8. Decides(h, N)
  BY <1>7 DEF Sweeps
<1> HIDE DEF N
<1>9. hacts'[h] = N /\ \A g \in Hooks : g # h => hacts'[g] = hacts[g]
  BY <1>8 DEF Decides, Typed, HookTypeOK
<1>10. DOMAIN N = 1..Len(N) /\ Len(N) \in Nat
  BY <1>6
<1>11. \A i \in DOMAIN N : \/ i \in DOMAIN C /\ N[i] = C[i]
                           \/ N[i].do \in {"exit", "blocked", "complete"}
  <2> SUFFICES ASSUME NEW i \in DOMAIN N
               PROVE  \/ i \in DOMAIN C /\ N[i] = C[i]
                      \/ N[i].do \in {"exit", "blocked", "complete"}
    OBVIOUS
  <2>1. CASE i > Len(C)
    BY <1>6, <2>1
  <2>2. CASE ~(i > Len(C))
    <3>1. i \in 1..Len(C)
      BY <1>4, <1>10, <2>2
    <3> QED BY <1>4, <1>6, <3>1
  <2> QED BY <2>1, <2>2
<1>12. \A i \in DOMAIN C : i \in DOMAIN N /\ N[i] = C[i]
  BY <1>4, <1>6, <1>10
<1>13. 1 \in DOMAIN N /\ N[1] = Publish(w, s, sequence[w] + 1, w \in pending)
  BY <1>3, <1>4, <1>12
<1>14. \A i \in DOMAIN N : N[i].do = "publish" => i = 1
  BY <1>4, <1>11
<1>15. /\ \A i \in DOMAIN N : N[i].do = "pointer" => N[i].of = w
       /\ \A i, j \in DOMAIN N : N[i].do = "pointer" /\ N[j].do = "pointer" => i = j
       /\ OwesPointer(w, s) <=> \E i \in DOMAIN N : N[i].do = "pointer"
  BY <1>4, <1>11, <1>12
<1> QED BY <1>2, <1>3, <1>9, <1>13, <1>14, <1>15

(* The other updates only notify. *)
LEMMA OtherList ==
    ASSUME Typed, NEW h \in Hooks,
           UpdateWorkerExit(h) \/ UpdateGodExit(h) \/ UpdateMove(h)
    PROVE  /\ UNCHANGED <<status, sequence>> /\ hacts[h] = <<>>
           /\ \A i \in DOMAIN hacts'[h] : hacts'[h][i].do \in {"exit", "blocked", "complete"}
           /\ \A g \in Hooks : g # h => hacts'[g] = hacts[g]
<1>1. UNCHANGED <<status, sequence>> /\ hacts[h] = <<>>
  BY DEF UpdateWorkerExit, UpdateGodExit, UpdateMove, Typed, Phased
<1>2. PICK keys \in SUBSET Conditions : Sweeps(h, <<>>, keys)
  <2>1. CASE UpdateWorkerExit(h)
    <3>1. hev[h].who \in Workers
      BY <2>1 DEF UpdateWorkerExit, Typed, Phased, SoundEvents, Events, Agents
    <3> QED BY <2>1, <3>1 DEF UpdateWorkerExit, Conditions, Keys
  <2>2. CASE UpdateGodExit(h) \/ UpdateMove(h)
    BY <2>2 DEF UpdateGodExit, UpdateMove
  <2> QED BY <2>1, <2>2
<1> DEFINE N == <<>> \o NotifyOnce(keys) \o NotifyOnce(Overdue \ keys)
<1>3. <<>> \in Seq(Calls) /\ Len(<<>>) = 0
  OBVIOUS
<1>4. /\ N \in Seq(Actions)
      /\ \A i \in DOMAIN N : i > Len(<<>>) => N[i].do \in {"exit", "blocked", "complete"}
  BY <1>3, SweepLists
<1>5. Decides(h, N)
  BY <1>2 DEF Sweeps
<1> HIDE DEF N
<1>6. hacts'[h] = N /\ \A g \in Hooks : g # h => hacts'[g] = hacts[g]
  BY <1>5 DEF Decides, Typed, HookTypeOK
<1>7. \A i \in DOMAIN N : i > 0
  BY <1>4
<1> QED BY <1>1, <1>3, <1>4, <1>6, <1>7

LEMMA UpdateKeepsMetadata ==
    ASSUME Typed, Typed', MetadataInv, NEW h \in Hooks, Updates(h)
    PROVE  MetadataInv'
<1>1. meta' = meta /\ lost' = lost
  BY SweepTyped DEF herdr, counts
<1>2. CASE UpdateStatus(h)
  <2> DEFINE w == hev[h].who
             s == hev[h].to
             N == hacts'[h]
  <2>1. /\ w \in Workers /\ s \in Statuses
        /\ status' = [status EXCEPT ![w] = s]
        /\ sequence' = [sequence EXCEPT ![w] = sequence[w] + 1]
        /\ 1 \in DOMAIN N /\ N[1] = Publish(w, s, sequence[w] + 1, w \in pending)
        /\ \A i \in DOMAIN N : N[i].do = "publish" => i = 1
        /\ \A g \in Hooks : g # h => hacts'[g] = hacts[g]
    BY <1>2, StatusList
  <2> HIDE DEF w, s
  <2>2. /\ sequence[w] \in Nat /\ sequence'[w] = sequence[w] + 1 /\ status'[w] = s
        /\ \A v \in Workers : v # w => sequence'[v] = sequence[v] /\ status'[v] = status[v]
    BY <2>1 DEF Typed, HookTypeOK
  <2>3. N[1].do = "publish" /\ N[1].of = w /\ N[1].seq = sequence'[w] /\ N[1].status = s
    BY <2>1, <2>2 DEF Publish
  <2>4. \A g \in Hooks : \A i \in DOMAIN hacts[g] : hacts[g][i].seq \in Nat
    <3>1. \A g \in Hooks : \A i \in DOMAIN hacts[g] : hacts[g][i] \in Actions
      BY DEF Typed, HookTypeOK
    <3> QED BY <3>1 DEF Actions
  <2>5. \A v \in Workers : meta[v].seq \in Nat /\ sequence[v] \in Nat
    BY DEF Typed, HookTypeOK
  <2>6. PublishesBoard'
    <3> SUFFICES ASSUME NEW g \in Hooks, NEW i \in DOMAIN hacts'[g],
                        hacts'[g][i].do = "publish"
                 PROVE  /\ hacts'[g][i].of \in Workers
                        /\ hacts'[g][i].seq =< sequence'[hacts'[g][i].of]
                        /\ hacts'[g][i].seq = sequence'[hacts'[g][i].of] =>
                              hacts'[g][i].status = status'[hacts'[g][i].of]
      BY DEF PublishesBoard
    <3>1. CASE g = h
      BY <2>1, <2>2, <2>3, <3>1
    <3>2. CASE g # h
      <4>1. hacts'[g] = hacts[g]
        BY <2>1, <3>2
      <4>2. /\ hacts[g][i].of \in Workers
            /\ hacts[g][i].seq =< sequence[hacts[g][i].of]
            /\ hacts[g][i].seq = sequence[hacts[g][i].of] =>
                  hacts[g][i].status = status[hacts[g][i].of]
        BY <4>1 DEF MetadataInv, PublishesBoard
      <4> QED BY <2>2, <2>4, <2>5, <4>1, <4>2
    <3> QED BY <3>1, <3>2
  <2>7. MetadataFollows'
    <3> SUFFICES ASSUME NEW v \in Workers
                 PROVE  /\ meta'[v].seq =< sequence'[v]
                        /\ meta'[v].seq = sequence'[v] => meta'[v].status = status'[v]
                        /\ meta'[v].seq # sequence'[v] =>
                              \/ <<"publish", v>> \in lost'
                              \/ \E g \in Hooks : \E i \in DOMAIN hacts'[g] :
                                    /\ hacts'[g][i].do = "publish" /\ hacts'[g][i].of = v
                                    /\ hacts'[g][i].seq = sequence'[v]
      BY DEF MetadataFollows
    <3>1. /\ meta[v].seq =< sequence[v]
          /\ meta[v].seq = sequence[v] => meta[v].status = status[v]
          /\ meta[v].seq # sequence[v] =>
                \/ <<"publish", v>> \in lost
                \/ \E g \in Hooks : \E i \in DOMAIN hacts[g] :
                      /\ hacts[g][i].do = "publish" /\ hacts[g][i].of = v
                      /\ hacts[g][i].seq = sequence[v]
      BY DEF MetadataInv, MetadataFollows
    <3>2. CASE v = w
      BY <1>1, <2>1, <2>2, <2>3, <2>5, <3>1, <3>2
    <3>3. CASE v # w
      <4>1. hacts[h] = <<>>
        BY <1>2, StatusList
      <4> QED BY <1>1, <2>1, <2>2, <3>1, <3>3, <4>1
    <3> QED BY <3>2, <3>3
  <2> QED BY <2>6, <2>7 DEF MetadataInv
<1>3. CASE UpdateWorkerExit(h) \/ UpdateGodExit(h) \/ UpdateMove(h)
  <2>1. /\ UNCHANGED <<status, sequence>> /\ hacts[h] = <<>>
        /\ \A i \in DOMAIN hacts'[h] : hacts'[h][i].do \in {"exit", "blocked", "complete"}
        /\ \A g \in Hooks : g # h => hacts'[g] = hacts[g]
    BY <1>3, OtherList
  <2>2. PublishesBoard'
    BY <2>1 DEF MetadataInv, PublishesBoard
  <2>3. MetadataFollows'
    <3> SUFFICES ASSUME NEW v \in Workers
                 PROVE  /\ meta[v].seq =< sequence[v]
                        /\ meta[v].seq = sequence[v] => meta[v].status = status[v]
                        /\ meta[v].seq # sequence[v] =>
                              \/ <<"publish", v>> \in lost
                              \/ \E g \in Hooks : \E i \in DOMAIN hacts'[g] :
                                    /\ hacts'[g][i].do = "publish" /\ hacts'[g][i].of = v
                                    /\ hacts'[g][i].seq = sequence[v]
      <4>1. UNCHANGED <<status, sequence, meta, lost>>
        BY <1>1, <2>1
      <4> QED BY <4>1 DEF MetadataFollows
    <3>1. \A g \in Hooks : \A i \in DOMAIN hacts[g] : hacts'[g] = hacts[g]
      BY <2>1
    <3> QED BY <3>1 DEF MetadataInv, MetadataFollows
  <2> QED BY <2>2, <2>3 DEF MetadataInv
<1> QED BY <1>2, <1>3 DEF Updates

LEMMA CallingKeepsMetadata ==
    ASSUME Sequenced, Typed, Typed', MetadataInv, NEW h \in Hooks, Calling(h)
    PROVE  MetadataInv'
<1> DEFINE p == Now(h)
<1>1. /\ UNCHANGED <<lost, status, sequence>>
      /\ \A g \in Hooks : g # h => hacts'[g] = hacts[g]
      /\ DOMAIN hacts'[h] = 1..(Len(hacts[h]) - 1)
      /\ DOMAIN hacts[h] = 1..Len(hacts[h]) /\ Len(hacts[h]) \in Nat \ {0}
      /\ \A i \in DOMAIN hacts'[h] : hacts'[h][i] = hacts[h][i + 1]
      /\ p = hacts[h][1] /\ p \in Actions
  BY CallingShifts
<1> HIDE DEF p
<1>2. PublishesBoard'
  <2> SUFFICES ASSUME NEW g \in Hooks, NEW i \in DOMAIN hacts'[g],
                      hacts'[g][i].do = "publish"
               PROVE  /\ hacts'[g][i].of \in Workers
                      /\ hacts'[g][i].seq =< sequence[hacts'[g][i].of]
                      /\ hacts'[g][i].seq = sequence[hacts'[g][i].of] =>
                            hacts'[g][i].status = status[hacts'[g][i].of]
    BY <1>1 DEF PublishesBoard
  <2>1. PICK j \in DOMAIN hacts[g] : hacts'[g][i] = hacts[g][j]
    BY <1>1
  <2> QED BY <2>1 DEF MetadataInv, PublishesBoard
<1>3. \/ /\ p.do = "publish" /\ p.of \in Workers
         /\ meta' = IF p.seq > meta[p.of].seq
                    THEN [meta EXCEPT ![p.of] =
                             [status |-> p.status, seq |-> p.seq, attention |-> p.attention]]
                    ELSE meta
      \/ p.do # "publish" /\ meta' = meta
  <2>1. p.do = "publish" => p.of \in Workers
    BY <1>1 DEF MetadataInv, PublishesBoard
  <2>2. CASE PublishMetadata(h)
    BY <2>1, <2>2 DEF PublishMetadata, Accepted, Sequenced, p
  <2>3. CASE DrainOutbox(h)
    BY <2>3 DEF DrainOutbox, p
  <2>4. CASE InjectPointer(h)
    BY <2>4 DEF InjectPointer, p
  <2>5. CASE ShowNotification(h)
    <3>1. p.do # "publish"
      BY <2>5, KeysAre DEF ShowNotification, p
    <3> QED BY <2>5, <3>1 DEF ShowNotification
  <2> QED BY <2>2, <2>3, <2>4, <2>5 DEF Calling
<1>4. \A v \in Workers : meta[v].seq \in Nat /\ sequence[v] \in Nat
  BY DEF Typed, HookTypeOK
<1>5. p.seq \in Nat
  BY <1>1 DEF Actions
<1>6. p.do = "publish" =>
         p.seq =< sequence[p.of] /\ (p.seq = sequence[p.of] => p.status = status[p.of])
  BY <1>1 DEF MetadataInv, PublishesBoard
<1>7. MetadataFollows'
  <2> SUFFICES ASSUME NEW v \in Workers
               PROVE  /\ meta'[v].seq =< sequence[v]
                      /\ meta'[v].seq = sequence[v] => meta'[v].status = status[v]
                      /\ meta'[v].seq # sequence[v] =>
                            \/ <<"publish", v>> \in lost
                            \/ \E g \in Hooks : \E i \in DOMAIN hacts'[g] :
                                  /\ hacts'[g][i].do = "publish" /\ hacts'[g][i].of = v
                                  /\ hacts'[g][i].seq = sequence[v]
    BY <1>1 DEF MetadataFollows
  <2>1. /\ meta[v].seq =< sequence[v]
        /\ meta[v].seq = sequence[v] => meta[v].status = status[v]
        /\ meta[v].seq # sequence[v] =>
              \/ <<"publish", v>> \in lost
              \/ \E g \in Hooks : \E i \in DOMAIN hacts[g] :
                    /\ hacts[g][i].do = "publish" /\ hacts[g][i].of = v
                    /\ hacts[g][i].seq = sequence[v]
    BY DEF MetadataInv, MetadataFollows
  <2>2. CASE p.do = "publish" /\ p.of = v /\ p.seq > meta[v].seq
    <3>1. meta'[v].seq = p.seq /\ meta'[v].status = p.status
      BY <1>3, <2>2 DEF Typed, HookTypeOK
    <3>2. CASE p.seq = sequence[v]
      BY <1>4, <1>5, <1>6, <2>2, <3>1, <3>2
    <3>3. CASE p.seq # sequence[v]
      <4>1. meta[v].seq # sequence[v]
        BY <1>4, <1>5, <1>6, <2>2
      <4>2. ASSUME NEW g \in Hooks, NEW i \in DOMAIN hacts[g],
                   hacts[g][i].do = "publish", hacts[g][i].of = v,
                   hacts[g][i].seq = sequence[v]
            PROVE  \E j \in DOMAIN hacts'[g] :
                      /\ hacts'[g][j].do = "publish" /\ hacts'[g][j].of = v
                      /\ hacts'[g][j].seq = sequence[v]
        <5>1. CASE g = h
          <6>1. i # 1
            BY <1>1, <3>3, <4>2, <5>1
          <6>2. i - 1 \in DOMAIN hacts'[h] /\ hacts'[h][i - 1] = hacts[h][i]
            BY <1>1, <5>1, <6>1
          <6> QED BY <4>2, <5>1, <6>2
        <5>2. CASE g # h
          BY <1>1, <4>2, <5>2
        <5> QED BY <5>1, <5>2
      <4> QED BY <1>6, <2>1, <2>2, <3>1, <3>3, <4>1, <4>2
    <3> QED BY <3>2, <3>3
  <2>3. CASE ~(p.do = "publish" /\ p.of = v /\ p.seq > meta[v].seq)
    <3>1. meta'[v] = meta[v]
      BY <1>3, <2>3 DEF Typed, HookTypeOK
    <3>2. ASSUME meta[v].seq # sequence[v],
                 NEW g \in Hooks, NEW i \in DOMAIN hacts[g],
                 hacts[g][i].do = "publish", hacts[g][i].of = v,
                 hacts[g][i].seq = sequence[v]
          PROVE  \E j \in DOMAIN hacts'[g] :
                    /\ hacts'[g][j].do = "publish" /\ hacts'[g][j].of = v
                    /\ hacts'[g][j].seq = sequence[v]
      <4>1. CASE g = h
        <5>1. i # 1
          BY <1>1, <1>4, <2>1, <2>3, <3>2, <4>1
        <5>2. i - 1 \in DOMAIN hacts'[h] /\ hacts'[h][i - 1] = hacts[h][i]
          BY <1>1, <4>1, <5>1
        <5> QED BY <3>2, <4>1, <5>2
      <4>2. CASE g # h
        BY <1>1, <3>2, <4>2
      <4> QED BY <4>1, <4>2
    <3> QED BY <2>1, <3>1, <3>2
  <2> QED BY <2>2, <2>3
<1> QED BY <1>2, <1>7 DEF MetadataInv

LEMMA FailureKeepsMetadata ==
    ASSUME Typed, MetadataInv, NEW h \in Hooks, ActionFails(h)
    PROVE  MetadataInv'
<1>1. PublishesBoard'
  BY FailureDrops DEF MetadataInv, PublishesBoard
<1>2. MetadataFollows'
  <2> SUFFICES ASSUME NEW v \in Workers
               PROVE  /\ meta[v].seq =< sequence[v]
                      /\ meta[v].seq = sequence[v] => meta[v].status = status[v]
                      /\ meta[v].seq # sequence[v] =>
                            \/ <<"publish", v>> \in lost'
                            \/ \E g \in Hooks : \E i \in DOMAIN hacts'[g] :
                                  /\ hacts'[g][i].do = "publish" /\ hacts'[g][i].of = v
                                  /\ hacts'[g][i].seq = sequence[v]
    <3>1. UNCHANGED <<status, sequence, meta>>
      BY FailureDrops
    <3> QED BY <3>1 DEF MetadataFollows
  <2>1. /\ meta[v].seq =< sequence[v]
        /\ meta[v].seq = sequence[v] => meta[v].status = status[v]
        /\ meta[v].seq # sequence[v] =>
              \/ <<"publish", v>> \in lost
              \/ \E g \in Hooks : \E i \in DOMAIN hacts[g] :
                    /\ hacts[g][i].do = "publish" /\ hacts[g][i].of = v
                    /\ hacts[g][i].seq = sequence[v]
    BY DEF MetadataInv, MetadataFollows
  <2>2. \A i \in DOMAIN hacts[h] :
           hacts[h][i].do = "publish" /\ hacts[h][i].of = v => <<"publish", v>> \in lost'
    BY FailureDrops
  <2> QED BY <2>1, <2>2, FailureDrops
<1> QED BY <1>1, <1>2 DEF MetadataInv

(* No other step has a part in the metadata. *)
LEMMA OthersKeepMetadata ==
    ASSUME Typed, MetadataInv, UNCHANGED <<status, sequence, meta, hacts>>, lost \subseteq lost'
    PROVE  MetadataInv'
<1>1. PublishesBoard'
  BY DEF MetadataInv, PublishesBoard
<1>2. MetadataFollows'
  BY DEF MetadataInv, MetadataFollows
<1> QED BY <1>1, <1>2 DEF MetadataInv

(***************************************************************************)
(* Hooks publish in any order, and Herdr yet ends up at the status of the  *)
(* board, for any number of workers and hooks, where it knows sequence     *)
(* numbers (metadata.rs, map_facts).                                       *)
(***************************************************************************)
THEOREM MetadataIsTheBoards ==
    ASSUME Sequenced
    PROVE  HookSpec => []MetadataAgrees
<1>1. HookInit => MetadataInv
  <2> SUFFICES ASSUME HookInit PROVE MetadataInv
    OBVIOUS
  <2>1. PublishesBoard
    BY DEF HookInit, PublishesBoard
  <2>2. MetadataFollows
    BY DEF HookInit, MetadataFollows
  <2> QED BY <2>1, <2>2 DEF MetadataInv
<1>2. Typed /\ Typed' /\ MetadataInv /\ [HookNext]_hookVars => MetadataInv'
  <2> SUFFICES ASSUME Typed, Typed', MetadataInv, [HookNext]_hookVars PROVE MetadataInv'
    OBVIOUS
  <2>1. ASSUME NEW h \in Hooks, HookStep(h) PROVE MetadataInv'
    <3>1. CASE Updates(h)
      BY <3>1, UpdateKeepsMetadata
    <3>2. CASE Calling(h)
      BY <3>2, Sequenced, CallingKeepsMetadata
    <3>3. CASE ActionFails(h)
      BY <3>3, FailureKeepsMetadata
    <3>4. CASE HookStarts(h) \/ UpdateUnmatched(h) \/ UpdateFails(h)
      BY <3>4, OthersKeepMetadata DEF HookStarts, UpdateUnmatched, UpdateFails, board, herdr
    <3> QED BY <2>1, <3>1, <3>2, <3>3, <3>4 DEF HookStep, Updates, Calling
  <2>2. CASE UNCHANGED hookVars
    BY <2>2, OthersKeepMetadata DEF hookVars, board, herdr, hooks, counts
  <2>3. ASSUME NEW a \in Agents, AgentExits(a) \/ PaneMoves(a) PROVE MetadataInv'
    BY <2>3, OthersKeepMetadata DEF AgentExits, PaneMoves, board, hooks
  <2>4. ASSUME NEW w \in Workers,
               \/ \E s \in Statuses : AgentChanges(w, s)
               \/ WriteReport(w) \/ ThresholdPasses(w)
               \/ RequestAttention(w) \/ ShowAttention(w) \/ AttentionFails(w)
               \/ ClearAttention(w)
        PROVE  MetadataInv'
    BY <2>4, OthersKeepMetadata
       DEF AgentChanges, WriteReport, ThresholdPasses, RequestAttention, ShowAttention,
           AttentionFails, ClearAttention, Notifier, board, herdr, hooks, counts
  <2> QED BY <2>1, <2>2, <2>3, <2>4 DEF HookNext
<1>3. Typed /\ MetadataInv => MetadataAgrees
  BY DEF MetadataInv, MetadataFollows, MetadataAgrees, InHand, Holds
<1> QED BY <1>1, <1>2, <1>3, TypedThroughout, PTL DEF HookSpec

-----------------------------------------------------------------------------
(* The events from the one being handled on. *)

(* The line is the events, behind the one that a hook has. *)
LineShape ==
    /\ Line \in Seq(SoundEvents)
    /\ Underway = {} => Line = events
    /\ \A h \in Underway : Line = <<hev[h]>> \o events

LEMMA LineShaped == Typed /\ OneUpdate => LineShape
<1> SUFFICES ASSUME Typed, OneUpdate PROVE LineShape
  OBVIOUS
<1>1. events \in Seq(SoundEvents)
  <2>1. events \in Seq(Events) /\ \A i \in DOMAIN events : events[i] \in SoundEvents
    BY DEF Typed, HookTypeOK, Phased
  <2> QED BY <2>1, SeqDef
<1>2. CASE Underway = {}
  BY <1>1, <1>2 DEF Line, LineShape
<1>3. ASSUME NEW h \in Underway PROVE Line = <<hev[h]>> \o events /\ Line \in Seq(SoundEvents)
  <2>1. (CHOOSE g \in Underway : TRUE) = h
    BY <1>3 DEF OneUpdate
  <2>2. hev[h] \in SoundEvents
    BY <1>3 DEF Underway, Typed, Phased
  <2>3. <<hev[h]>> \in Seq(SoundEvents)
    BY <2>2
  <2> QED BY <1>1, <1>3, <2>1, <2>3, ConcatProperties DEF Line
<1>4. CASE Underway # {}
  BY <1>3, <1>4 DEF LineShape
<1> QED BY <1>2, <1>4

LEMMA LineShapedNext == Typed' /\ OneUpdate' => LineShape'
BY LineShaped, PTL

(* The line loses its first event, and what was behind it moves up. *)
Drops ==
    /\ Line # <<>> /\ Line' = Tail(Line)
    /\ DOMAIN Line = 1..Len(Line) /\ DOMAIN Line' = 1..(Len(Line) - 1) /\ Len(Line) \in Nat \ {0}
    /\ \A i \in DOMAIN Line' : Line'[i] = Line[i + 1]

(* The line gets an event at its end. *)
Grows(e) ==
    /\ Line' = Append(Line, e)
    /\ DOMAIN Line = 1..Len(Line) /\ DOMAIN Line' = 1..(Len(Line) + 1) /\ Len(Line) \in Nat
    /\ \A i \in DOMAIN Line : Line'[i] = Line[i]
    /\ Line'[Len(Line) + 1] = e

LEMMA TailDrops ==
    ASSUME Line \in Seq(SoundEvents), Line # <<>>, Line' = Tail(Line)
    PROVE  Drops
BY HeadTailProperties, LenProperties DEF Drops

LEMMA AppendGrows ==
    ASSUME Line \in Seq(SoundEvents), NEW e \in SoundEvents, Line' = Append(Line, e)
    PROVE  Grows(e)
BY AppendProperties, LenProperties DEF Grows

(* Herdr appends its event to the line. *)
LEMMA EmitsGrows ==
    ASSUME Typed, OneUpdate, NEW e \in SoundEvents, Emits(e), UNCHANGED <<hpc, hev>>
    PROVE  Grows(e) /\ Underway' = Underway /\ OneUpdate'
<1>1. Underway' = Underway /\ OneUpdate'
  BY DEF Underway, OneUpdate
<1>2. LineShape
  BY LineShaped
<1>3. events' = Append(events, e) /\ events \in Seq(SoundEvents)
  <2>1. events \in Seq(Events) /\ \A i \in DOMAIN events : events[i] \in SoundEvents
    BY DEF Typed, HookTypeOK, Phased
  <2> QED BY <2>1, SeqDef DEF Emits
<1>4. Line' = Append(Line, e)
  <2>1. CASE Underway = {}
    BY <1>1, <1>2, <1>3, <2>1 DEF LineShape, Line
  <2>2. CASE Underway # {}
    <3>1. PICK h \in Underway : TRUE
      BY <2>2
    <3>2. (CHOOSE g \in Underway : TRUE) = h
      BY <3>1 DEF OneUpdate
    <3>3. Line = <<hev[h]>> \o events /\ Line' = <<hev[h]>> \o events'
      BY <1>1, <2>2, <3>2 DEF Line
    <3>4. <<hev[h]>> \in Seq(SoundEvents) /\ <<e>> \in Seq(SoundEvents)
      BY <3>1 DEF Underway, Typed, Phased
    <3>5. Line' = <<hev[h]>> \o (events \o <<e>>)
      BY <1>3, <3>3, AppendIsConcat
    <3>6. Line' = Line \o <<e>>
      BY <1>3, <3>3, <3>4, <3>5, ConcatAssociative
    <3> QED BY <1>2, <3>6, AppendIsConcat DEF LineShape
  <2> QED BY <2>1, <2>2
<1> QED BY <1>1, <1>2, <1>4, AppendGrows DEF LineShape

(* A hook that has its event leaves the line as it is, unless the run has ended. *)
LEMMA StartsLine ==
    ASSUME Ordered, Typed, OneUpdate, NEW h \in Hooks, HookStarts(h)
    PROVE  /\ OneUpdate'
           /\ Underway = {}
           /\ runLife = "active" => Line' = Line
           /\ runLife # "active" =>
                 /\ Drops /\ Line[1] = Head(events) /\ Underway' = {}
                 /\ lost' = lost \cup Owed(Line[1])
           /\ runLife = "active" => lost' = lost
<1>1. Underway = {} /\ events # <<>> /\ events' = Tail(events)
  BY DEF Ordered, HookStarts, Underway
<1>2. LineShape
  BY LineShaped
<1>3. Line = events /\ events \in Seq(SoundEvents)
  BY <1>1, <1>2 DEF LineShape
<1>4. CASE runLife = "active"
  <2>1. hpc' = [hpc EXCEPT ![h] = "update"] /\ hev' = [hev EXCEPT ![h] = Head(events)]
    BY <1>4 DEF HookStarts
  <2>2. Underway' = {h}
    BY <1>1, <2>1 DEF Underway, Typed, HookTypeOK
  <2>3. (CHOOSE g \in Underway' : TRUE) = h
    BY <2>2
  <2>4. Line' = <<hev'[h]>> \o events'
    BY <2>2, <2>3 DEF Line
  <2>5. hev'[h] = Head(events)
    BY <2>1 DEF Typed, HookTypeOK
  <2>6. Line' = <<Head(events)>> \o Tail(events)
    BY <1>1, <2>4, <2>5
  <2>7. <<Head(events)>> \o Tail(events) = events
    <3>1. Head(events) = events[1] /\ Len(events) \in Nat \ {0} /\ Head(events) \in SoundEvents
      BY <1>1, <1>3
    <3>2. /\ Tail(events) \in Seq(SoundEvents) /\ Len(Tail(events)) = Len(events) - 1
          /\ \A i \in 1..Len(Tail(events)) : Tail(events)[i] = events[i + 1]
      BY <1>1, <1>3, HeadTailProperties
    <3>3. <<events[1]>> \in Seq(SoundEvents) /\ Len(<<events[1]>>) = 1
      BY <3>1
    <3>4. /\ <<events[1]>> \o Tail(events) \in Seq(SoundEvents)
          /\ Len(<<events[1]>> \o Tail(events)) = Len(events)
          /\ \A i \in 1..Len(events) :
                (<<events[1]>> \o Tail(events))[i] = events[i]
      BY <3>1, <3>2, <3>3, ConcatProperties
    <3> QED BY <1>3, <3>1, <3>4, SeqEqual
  <2>8. OneUpdate' /\ lost' = lost
    BY <1>4, <2>2 DEF OneUpdate, HookStarts
  <2> QED BY <1>1, <1>3, <1>4, <2>6, <2>7, <2>8
<1>5. CASE runLife # "active"
  <2>1. hpc' = hpc /\ hev' = hev /\ lost' = lost \cup Owed(Head(events))
    BY <1>5 DEF HookStarts
  <2>2. Underway' = {} /\ OneUpdate'
    BY <1>1, <2>1 DEF Underway, OneUpdate
  <2>3. Line' = Tail(Line)
    BY <1>1, <1>3, <2>2 DEF Line
  <2>4. Head(events) = Line[1]
    BY <1>1, <1>3
  <2> QED BY <1>1, <1>3, <1>5, <2>1, <2>2, <2>3, <2>4, TailDrops
<1> QED BY <1>4, <1>5

(* An update, or its failure, takes the event it handles off the line. *)
LEMMA UpdateDrops ==
    ASSUME Typed, Typed', OneUpdate, NEW h \in Hooks, hpc[h] = "update", events' = events,
           \A g \in Hooks : g # h => hpc'[g] = hpc[g], hpc'[h] # "update"
    PROVE  Drops /\ Line[1] = hev[h] /\ OneUpdate' /\ Underway' = {}
<1>1. h \in Underway /\ Underway = {h}
  BY DEF Underway, OneUpdate
<1>2. Underway' = {} /\ OneUpdate'
  BY <1>1 DEF Underway, OneUpdate
<1>3. Line = <<hev[h]>> \o events /\ Line \in Seq(SoundEvents)
  BY <1>1, LineShaped DEF LineShape
<1>4. Line' = events
  BY <1>2 DEF Line
<1>5. hev[h] \in SoundEvents /\ events \in Seq(SoundEvents)
  <2>1. events \in Seq(Events) /\ \A i \in DOMAIN events : events[i] \in SoundEvents
    BY DEF Typed, HookTypeOK, Phased
  <2> QED BY <2>1, SeqDef DEF Typed, Phased
<1>6. <<hev[h]>> \in Seq(SoundEvents) /\ Len(<<hev[h]>>) = 1 /\ <<hev[h]>>[1] = hev[h]
  BY <1>5
<1>7. /\ Len(Line) = 1 + Len(events)
      /\ \A i \in 1..(1 + Len(events)) :
            Line[i] = IF i =< 1 THEN hev[h] ELSE events[i - 1]
  BY <1>3, <1>5, <1>6, ConcatProperties
<1>8. Len(events) \in Nat
  BY <1>5
<1>9. Line # <<>> /\ Line[1] = hev[h]
  BY <1>3, <1>7, <1>8
<1>10. /\ Tail(Line) \in Seq(SoundEvents) /\ Len(Tail(Line)) = Len(events)
       /\ \A i \in 1..Len(events) : Tail(Line)[i] = events[i]
  <2>1. /\ Tail(Line) \in Seq(SoundEvents) /\ Len(Tail(Line)) = Len(Line) - 1
        /\ \A i \in 1..Len(Tail(Line)) : Tail(Line)[i] = Line[i + 1]
    BY <1>3, <1>9, HeadTailProperties
  <2> QED BY <1>7, <1>8, <2>1
<1>11. Line' = Tail(Line)
  BY <1>4, <1>5, <1>10, SeqEqual
<1> QED BY <1>2, <1>3, <1>9, <1>11, TailDrops

(* A step that hands no event on leaves the line. *)
LEMMA LineStays ==
    ASSUME OneUpdate, \A g \in Hooks : hpc[g] = "update" <=> hpc'[g] = "update",
           UNCHANGED <<hev, events>>
    PROVE  Line' = Line /\ Underway' = Underway /\ OneUpdate'
<1>1. Underway' = Underway
  BY DEF Underway
<1> QED BY <1>1 DEF Line, OneUpdate

(* What tells of an agent moves up with the line, *)
LEMMA DropsShift ==
    ASSUME Drops
    PROVE  /\ \A i \in Nat, w \in Workers : Tells(i, w)' <=> i >= 1 /\ Tells(i + 1, w)
           /\ \A i \in Nat, w \in Workers : Moves(i, w)' <=> i >= 1 /\ Moves(i + 1, w)
           /\ \A i, j \in Nat, w \in Workers :
                 Follows(i, j, w)' => i >= 1 /\ Follows(i + 1, j + 1, w)
           /\ \A i \in Nat, w \in Workers : Latest(i, w)' => i >= 1 /\ Latest(i + 1, w)
           /\ \A i \in Nat, w \in Workers : Nearest(i, w)' =>
                 IF Tells(1, w) THEN Follows(1, i + 1, w) ELSE Nearest(i + 1, w)
           /\ \A w \in Workers : Silent(w)' =>
                 IF Tells(1, w) THEN Latest(1, w) ELSE Silent(w)
<1>1. \A i \in Nat, w \in Workers : Tells(i, w)' <=> i >= 1 /\ Tells(i + 1, w)
  BY DEF Drops, Tells
<1>2. \A i \in Nat, w \in Workers : Moves(i, w)' <=> i >= 1 /\ Moves(i + 1, w)
  BY DEF Drops, Moves
<1>3. \A i \in Nat, w \in Workers : Tells(i, w) => i >= 1 /\ (i = 1 \/ Tells(i - 1, w)')
  BY DEF Drops, Tells
<1>4. \A i, j \in Nat, w \in Workers : Follows(i, j, w)' => i >= 1 /\ Follows(i + 1, j + 1, w)
  <2> SUFFICES ASSUME NEW i \in Nat, NEW j \in Nat, NEW w \in Workers, Follows(i, j, w)'
               PROVE  i >= 1 /\ Follows(i + 1, j + 1, w)
    OBVIOUS
  <2>1. /\ Tells(i, w)' /\ Tells(j, w)' /\ i < j
        /\ \A n \in Nat : Tells(n, w)' => n =< i \/ j =< n
    BY DEF Follows
  <2>2. i >= 1 /\ Tells(i + 1, w) /\ Tells(j + 1, w)
    BY <1>1, <2>1
  <2>3. ASSUME NEW n \in Nat, Tells(n, w) PROVE n =< i + 1 \/ j + 1 =< n
    <3>1. n = 1 \/ (n - 1 \in Nat /\ Tells(n - 1, w)')
      BY <1>3, <2>3
    <3> QED BY <2>1, <2>2, <3>1
  <2> QED BY <2>1, <2>2, <2>3 DEF Follows
<1>5. \A i \in Nat, w \in Workers : Latest(i, w)' => i >= 1 /\ Latest(i + 1, w)
  <2> SUFFICES ASSUME NEW i \in Nat, NEW w \in Workers, Latest(i, w)'
               PROVE  i >= 1 /\ Latest(i + 1, w)
    OBVIOUS
  <2>1. Tells(i, w)' /\ \A n \in Nat : Tells(n, w)' => n =< i
    BY DEF Latest
  <2>2. i >= 1 /\ Tells(i + 1, w)
    BY <1>1, <2>1
  <2>3. ASSUME NEW n \in Nat, Tells(n, w) PROVE n =< i + 1
    <3>1. n = 1 \/ (n - 1 \in Nat /\ Tells(n - 1, w)')
      BY <1>3, <2>3
    <3> QED BY <2>1, <2>2, <3>1
  <2> QED BY <2>2, <2>3 DEF Latest
<1>6. \A i \in Nat, w \in Workers : Nearest(i, w)' =>
         IF Tells(1, w) THEN Follows(1, i + 1, w) ELSE Nearest(i + 1, w)
  <2> SUFFICES ASSUME NEW i \in Nat, NEW w \in Workers, Nearest(i, w)'
               PROVE  IF Tells(1, w) THEN Follows(1, i + 1, w) ELSE Nearest(i + 1, w)
    OBVIOUS
  <2>1. Tells(i, w)' /\ \A n \in Nat : Tells(n, w)' => i =< n
    BY DEF Nearest
  <2>2. i >= 1 /\ Tells(i + 1, w)
    BY <1>1, <2>1
  <2>3. ASSUME NEW n \in Nat, Tells(n, w) PROVE n = 1 \/ i + 1 =< n
    <3>1. n = 1 \/ (n - 1 \in Nat /\ Tells(n - 1, w)')
      BY <1>3, <2>3
    <3> QED BY <2>1, <2>2, <3>1
  <2> QED BY <2>2, <2>3 DEF Follows, Nearest
<1>7. \A w \in Workers : Silent(w)' => IF Tells(1, w) THEN Latest(1, w) ELSE Silent(w)
  <2> SUFFICES ASSUME NEW w \in Workers, Silent(w)'
               PROVE  IF Tells(1, w) THEN Latest(1, w) ELSE Silent(w)
    OBVIOUS
  <2>1. \A n \in Nat : ~Tells(n, w)'
    BY DEF Silent
  <2>2. ASSUME NEW n \in Nat, Tells(n, w) PROVE n = 1
    <3>1. n = 1 \/ (n - 1 \in Nat /\ Tells(n - 1, w)')
      BY <1>3, <2>2
    <3> QED BY <2>1, <3>1
  <2> QED BY <2>2 DEF Latest, Silent
<1> QED BY <1>1, <1>2, <1>4, <1>5, <1>6, <1>7

(* and stays where it is when an event joins the end. *)
LEMMA GrowsShift ==
    ASSUME NEW e \in SoundEvents, Grows(e)
    PROVE  LET n == Len(Line) + 1
               Joins(w) == e.kind = "status" /\ e.who = w IN
           /\ n \in Nat
           /\ \A i \in Nat, w \in Workers :
                 Tells(i, w)' <=> Tells(i, w) \/ (i = n /\ Joins(w))
           /\ \A i \in Nat, w \in Workers :
                 Moves(i, w)' <=> Moves(i, w) \/ (i = n /\ e.kind = "move" /\ e.who = w)
           /\ \A i \in Nat, w \in Workers : Tells(i, w) => i < n
           /\ \A i \in Nat, w \in Workers : Moves(i, w) => i < n
           /\ \A i, j \in Nat, w \in Workers : Follows(i, j, w)' =>
                 Follows(i, j, w) \/ (j = n /\ Joins(w) /\ Latest(i, w))
           /\ \A i \in Nat, w \in Workers : Latest(i, w)' =>
                 IF Joins(w) THEN i = n ELSE Latest(i, w)
           /\ \A i \in Nat, w \in Workers : Nearest(i, w)' =>
                 Nearest(i, w) \/ (i = n /\ Joins(w) /\ Silent(w))
           /\ \A w \in Workers : Silent(w)' => Silent(w) /\ ~Joins(w)
<1> DEFINE n == Len(Line) + 1
           Joins(w) == e.kind = "status" /\ e.who = w
<1>1. n \in Nat /\ \A i \in Nat, w \in Workers :
         Tells(i, w)' <=> Tells(i, w) \/ (i = n /\ Joins(w))
  BY DEF Grows, Tells
<1>2. \A i \in Nat, w \in Workers :
         Moves(i, w)' <=> Moves(i, w) \/ (i = n /\ e.kind = "move" /\ e.who = w)
  BY DEF Grows, Moves
<1>3. /\ \A i \in Nat, w \in Workers : Tells(i, w) => i < n
      /\ \A i \in Nat, w \in Workers : Moves(i, w) => i < n
  BY DEF Grows, Tells, Moves
<1> HIDE DEF n
<1>4. \A i, j \in Nat, w \in Workers : Follows(i, j, w)' =>
         Follows(i, j, w) \/ (j = n /\ Joins(w) /\ Latest(i, w))
  <2> SUFFICES ASSUME NEW i \in Nat, NEW j \in Nat, NEW w \in Workers, Follows(i, j, w)'
               PROVE  Follows(i, j, w) \/ (j = n /\ Joins(w) /\ Latest(i, w))
    OBVIOUS
  <2>1. /\ Tells(i, w)' /\ Tells(j, w)' /\ i < j
        /\ \A m \in Nat : Tells(m, w)' => m =< i \/ j =< m
    BY DEF Follows
  <2>2. \A m \in Nat : Tells(m, w) => Tells(m, w)' /\ m < n
    BY <1>1, <1>3
  <2>3. Tells(i, w)
    BY <1>1, <1>3, <2>1
  <2>4. CASE Tells(j, w)
    BY <2>1, <2>2, <2>3, <2>4 DEF Follows
  <2>5. CASE j = n /\ Joins(w)
    BY <1>1, <2>1, <2>2, <2>3, <2>5 DEF Latest
  <2> QED BY <1>1, <2>1, <2>4, <2>5
<1>5. \A i \in Nat, w \in Workers : Latest(i, w)' => IF Joins(w) THEN i = n ELSE Latest(i, w)
  <2> SUFFICES ASSUME NEW i \in Nat, NEW w \in Workers, Latest(i, w)'
               PROVE  IF Joins(w) THEN i = n ELSE Latest(i, w)
    OBVIOUS
  <2>1. Tells(i, w)' /\ \A m \in Nat : Tells(m, w)' => m =< i
    BY DEF Latest
  <2> QED BY <1>1, <1>3, <2>1 DEF Latest
<1>6. \A i \in Nat, w \in Workers : Nearest(i, w)' =>
         Nearest(i, w) \/ (i = n /\ Joins(w) /\ Silent(w))
  <2> SUFFICES ASSUME NEW i \in Nat, NEW w \in Workers, Nearest(i, w)'
               PROVE  Nearest(i, w) \/ (i = n /\ Joins(w) /\ Silent(w))
    OBVIOUS
  <2>1. Tells(i, w)' /\ \A m \in Nat : Tells(m, w)' => i =< m
    BY DEF Nearest
  <2> QED BY <1>1, <1>3, <2>1 DEF Nearest, Silent
<1>7. \A w \in Workers : Silent(w)' => Silent(w) /\ ~Joins(w)
  BY <1>1 DEF Silent
<1> QED BY <1>1, <1>2, <1>3, <1>4, <1>5, <1>6, <1>7 DEF n

-----------------------------------------------------------------------------
(* The line stays sound. *)

LEMMA DropsKeepsLine ==
    ASSUME LineInv, Drops, OneUpdate', Underway' = {}, UNCHANGED <<agent, place>>
    PROVE  LineInv'
<1>1. Chained'
  <2> SUFFICES ASSUME NEW w \in Workers, NEW i \in Nat
               PROVE  /\ Tells(i, w)' /\ Line'[i].to = "blocked" => Line'[i].owed
                      /\ Tells(i, w)' /\ Line'[i].owed => Line'[i].to # "working"
                      /\ \A j \in Nat : Follows(i, j, w)' =>
                            (Line'[j].owed <=> Line'[i].to = "working")
                      /\ Latest(i, w)' => agent[w] \in {Line'[i].to, "gone"}
    BY DEF Chained
  <2>1. i + 1 \in Nat /\ (Tells(i, w)' => Tells(i + 1, w) /\ Line'[i] = Line[i + 1])
    BY DropsShift DEF Drops, Tells
  <2>2. ASSUME NEW j \in Nat, Follows(i, j, w)'
        PROVE  Line'[j].owed <=> Line'[i].to = "working"
    <3>1. Tells(i, w)' /\ Tells(j, w)' /\ Follows(i + 1, j + 1, w)
      BY <2>2, DropsShift DEF Follows
    <3>2. Line'[j] = Line[j + 1]
      BY <3>1 DEF Drops, Tells
    <3>3. j + 1 \in Nat
      OBVIOUS
    <3> QED BY <2>1, <3>1, <3>2, <3>3 DEF LineInv, Chained
  <2>3. Latest(i, w)' => Tells(i, w)' /\ Latest(i + 1, w)
    BY DropsShift DEF Latest
  <2> QED BY <2>1, <2>2, <2>3 DEF LineInv, Chained
<1>2. OnlyStatusOwes'
  BY DEF LineInv, OnlyStatusOwes, Drops
<1>3. MovesOnce'
  <2> SUFFICES ASSUME NEW w \in Workers
               PROVE  /\ \A i \in Nat : Moves(i, w)' => place[w] = "moved"
                      /\ \A i, j \in Nat :
                            Moves(i, w)' /\ j \in DOMAIN Line' /\ Line'[j].who = w /\ i < j
                            => Line'[j].from = "moved"
    BY DEF MovesOnce
  <2>1. \A i \in Nat : Moves(i, w)' => i + 1 \in Nat /\ Moves(i + 1, w)
    BY DropsShift
  <2>2. \A j \in DOMAIN Line' : Line'[j] = Line[j + 1] /\ j + 1 \in DOMAIN Line
    BY DEF Drops
  <2> QED BY <2>1, <2>2 DEF LineInv, MovesOnce
<1>4. EndedRests'
  BY DEF EndedRests
<1> QED BY <1>1, <1>2, <1>3, <1>4 DEF LineInv

(* What each of Herdr's steps appends. *)
Emission(e) ==
    \/ \E w \in Workers, s \in Statuses :
          /\ <<agent[w], s>> \in Changes /\ agent' = [agent EXCEPT ![w] = s]
          /\ e.kind = "status" /\ e.who = w /\ e.to = s /\ e.from = place[w]
          /\ e.owed <=> s = "blocked" \/ agent[w] = "working"
          /\ due' = IF e.owed THEN [due EXCEPT ![w] = @ + 1] ELSE due
          /\ place' = place
    \/ \E a \in Agents :
          /\ e.kind = "exit" /\ e.who = a /\ e.from = place[a] /\ ~e.owed
          /\ agent' = [agent EXCEPT ![a] = "gone"] /\ UNCHANGED <<place, due>>
    \/ \E a \in Agents :
          /\ e.kind = "move" /\ e.who = a /\ e.from = place[a] /\ ~e.owed
          /\ place[a] = "first" /\ place' = [place EXCEPT ![a] = "moved"]
          /\ UNCHANGED <<agent, due>>

LEMMA HerdrEmits ==
    ASSUME Typed, OneUpdate,
           \/ \E w \in Workers, s \in Statuses : AgentChanges(w, s)
           \/ \E a \in Agents : AgentExits(a) \/ PaneMoves(a)
    PROVE  /\ \E e \in SoundEvents : Grows(e) /\ Emission(e)
           /\ UNCHANGED <<runLife, paneOf, status, hacts, pointers, lost>>
           /\ Underway' = Underway /\ OneUpdate'
<1>1. ASSUME NEW w \in Workers, NEW s \in Statuses, AgentChanges(w, s)
      PROVE  /\ \E e \in SoundEvents : Emits(e) /\ Emission(e)
             /\ UNCHANGED <<runLife, paneOf, status, hacts, pointers, lost, hpc, hev>>
  <2> DEFINE owed == s = "blocked" \/ agent[w] = "working"
             e == Event("status", w, s, owed)
  <2>1. e \in SoundEvents /\ Emits(e)
    BY <1>1 DEF AgentChanges, Event, Events, SoundEvents, Sound, Agents, Typed, HookTypeOK, Spots
  <2>2. /\ e.kind = "status" /\ e.who = w /\ e.to = s /\ e.from = place[w] /\ e.owed = owed
    BY DEF Event
  <2>3. due \in [Workers -> Nat] /\ due' = IF owed THEN [due EXCEPT ![w] = @ + 1] ELSE due
    BY <1>1 DEF AgentChanges, Typed, HookTypeOK
  <2>4. due' = IF e.owed THEN [due EXCEPT ![w] = @ + 1] ELSE due
    BY <2>2, <2>3
  <2>5. /\ <<agent[w], s>> \in Changes /\ agent' = [agent EXCEPT ![w] = s] /\ place' = place
        /\ UNCHANGED <<runLife, paneOf, status, hacts, pointers, lost, hpc, hev>>
    BY <1>1 DEF AgentChanges, board, hooks
  <2> HIDE DEF e
  <2>6. Emission(e)
    BY <2>2, <2>4, <2>5 DEF Emission
  <2> QED BY <2>1, <2>5, <2>6
<1>2. ASSUME NEW a \in Agents, AgentExits(a)
      PROVE  /\ \E e \in SoundEvents : Emits(e) /\ Emission(e)
             /\ UNCHANGED <<runLife, paneOf, status, hacts, pointers, lost, hpc, hev>>
  <2> DEFINE e == Event("exit", a, None, FALSE)
  <2>1. e \in SoundEvents /\ Emits(e)
    BY <1>2 DEF AgentExits, Event, Events, SoundEvents, Sound, Agents, Typed, HookTypeOK, Spots
  <2>2. e.kind = "exit" /\ e.who = a /\ e.from = place[a] /\ ~e.owed
    BY DEF Event
  <2>3. /\ agent' = [agent EXCEPT ![a] = "gone"] /\ UNCHANGED <<place, due>>
        /\ UNCHANGED <<runLife, paneOf, status, hacts, pointers, lost, hpc, hev>>
    BY <1>2 DEF AgentExits, board, hooks
  <2> HIDE DEF e
  <2>4. Emission(e)
    BY <2>2, <2>3 DEF Emission
  <2> QED BY <2>1, <2>3, <2>4
<1>3. ASSUME NEW a \in Agents, PaneMoves(a)
      PROVE  /\ \E e \in SoundEvents : Emits(e) /\ Emission(e)
             /\ UNCHANGED <<runLife, paneOf, status, hacts, pointers, lost, hpc, hev>>
  <2> DEFINE e == Event("move", a, "moved", FALSE)
  <2>1. e \in SoundEvents /\ Emits(e)
    BY <1>3 DEF PaneMoves, Event, Events, SoundEvents, Sound, Agents, Typed, HookTypeOK, Spots
  <2>2. e.kind = "move" /\ e.who = a /\ e.from = place[a] /\ ~e.owed
    BY DEF Event
  <2>3. /\ place[a] = "first" /\ place' = [place EXCEPT ![a] = "moved"] /\ UNCHANGED <<agent, due>>
        /\ UNCHANGED <<runLife, paneOf, status, hacts, pointers, lost, hpc, hev>>
    BY <1>3 DEF PaneMoves, board, hooks
  <2> HIDE DEF e
  <2>4. Emission(e)
    BY <2>2, <2>3 DEF Emission
  <2> QED BY <2>1, <2>3, <2>4
<1> QED BY <1>1, <1>2, <1>3, EmitsGrows

LEMMA EmissionKeepsLine ==
    ASSUME Typed, LineInv, NEW e \in SoundEvents, Grows(e), Emission(e),
           UNCHANGED runLife, Underway' = Underway, OneUpdate'
    PROVE  LineInv'
<1> DEFINE n == Len(Line) + 1
           Joins(w) == e.kind = "status" /\ e.who = w
<1>1. /\ n \in Nat
      /\ \A i \in Nat, w \in Workers : Tells(i, w)' <=> Tells(i, w) \/ (i = n /\ Joins(w))
      /\ \A i \in Nat, w \in Workers :
            Moves(i, w)' <=> Moves(i, w) \/ (i = n /\ e.kind = "move" /\ e.who = w)
      /\ \A i \in Nat, w \in Workers : Tells(i, w) => i < n
      /\ \A i \in Nat, w \in Workers : Moves(i, w) => i < n
      /\ \A i, j \in Nat, w \in Workers : Follows(i, j, w)' =>
            Follows(i, j, w) \/ (j = n /\ Joins(w) /\ Latest(i, w))
      /\ \A i \in Nat, w \in Workers : Latest(i, w)' => IF Joins(w) THEN i = n ELSE Latest(i, w)
  BY GrowsShift
<1>2. /\ Line'[n] = e /\ n \in DOMAIN Line'
      /\ \A i \in DOMAIN Line : i < n /\ Line'[i] = Line[i] /\ i \in DOMAIN Line'
      /\ \A i \in DOMAIN Line' : i \in DOMAIN Line \/ i = n
  BY DEF Grows
<1>3. \A w \in Workers : Joins(w) =>
         /\ e.to = "blocked" => e.owed
         /\ e.owed => e.to # "working"
         /\ agent[w] # "gone" /\ agent'[w] = e.to
         /\ e.owed <=> agent[w] = "working"
  BY DEF Emission, Changes, Typed, HookTypeOK, Agents
<1>4. \A w \in Workers : ~Joins(w) => agent'[w] \in {agent[w], "gone"}
  BY DEF Emission, Typed, HookTypeOK, Agents
<1> HIDE DEF n
<1>5. Chained'
  <2> SUFFICES ASSUME NEW w \in Workers, NEW i \in Nat
               PROVE  /\ Tells(i, w)' /\ Line'[i].to = "blocked" => Line'[i].owed
                      /\ Tells(i, w)' /\ Line'[i].owed => Line'[i].to # "working"
                      /\ \A j \in Nat : Follows(i, j, w)' =>
                            (Line'[j].owed <=> Line'[i].to = "working")
                      /\ Latest(i, w)' => agent'[w] \in {Line'[i].to, "gone"}
    BY DEF Chained
  <2>1. Tells(i, w) => i \in DOMAIN Line /\ Line'[i] = Line[i]
    BY <1>2 DEF Tells
  <2>2. /\ Tells(i, w)' /\ Line'[i].to = "blocked" => Line'[i].owed
        /\ Tells(i, w)' /\ Line'[i].owed => Line'[i].to # "working"
    BY <1>1, <1>2, <1>3, <2>1 DEF LineInv, Chained
  <2>3. ASSUME NEW j \in Nat, Follows(i, j, w)'
        PROVE  Line'[j].owed <=> Line'[i].to = "working"
    <3>1. CASE Follows(i, j, w)
      <4>1. Line'[i] = Line[i] /\ Line'[j] = Line[j]
        BY <1>2, <3>1 DEF Follows, Tells
      <4> QED BY <3>1, <4>1 DEF LineInv, Chained
    <3>2. CASE j = n /\ Joins(w) /\ Latest(i, w)
      <4>1. Line'[i] = Line[i] /\ Line'[j] = e
        BY <1>2, <2>1, <3>2 DEF Latest
      <4>2. agent[w] \in {Line[i].to, "gone"}
        BY <3>2 DEF LineInv, Chained
      <4> QED BY <1>3, <3>2, <4>1, <4>2
    <3> QED BY <1>1, <2>3, <3>1, <3>2
  <2>4. Latest(i, w)' => agent'[w] \in {Line'[i].to, "gone"}
    <3> SUFFICES ASSUME Latest(i, w)' PROVE agent'[w] \in {Line'[i].to, "gone"}
      OBVIOUS
    <3>1. CASE Joins(w)
      <4>1. i = n
        BY <1>1, <3>1
      <4> QED BY <1>2, <1>3, <3>1, <4>1
    <3>2. CASE ~Joins(w)
      <4>1. Latest(i, w)
        BY <1>1, <3>2
      <4>2. Line'[i] = Line[i] /\ agent[w] \in {Line[i].to, "gone"}
        BY <2>1, <4>1 DEF Latest, LineInv, Chained
      <4> QED BY <1>4, <3>2, <4>2
    <3> QED BY <3>1, <3>2
  <2> QED BY <2>2, <2>3, <2>4
<1>6. OnlyStatusOwes'
  <2>1. e.owed => e.kind = "status"
    BY DEF Emission
  <2> QED BY <1>2, <2>1 DEF LineInv, OnlyStatusOwes
<1>7. MovesOnce'
  <2> SUFFICES ASSUME NEW w \in Workers
               PROVE  /\ \A i \in Nat : Moves(i, w)' => place'[w] = "moved"
                      /\ \A i, j \in Nat :
                            Moves(i, w)' /\ j \in DOMAIN Line' /\ Line'[j].who = w /\ i < j
                            => Line'[j].from = "moved"
    BY DEF MovesOnce
  <2>1. /\ e.kind = "move" /\ e.who = w => place'[w] = "moved"
        /\ place[w] = "moved" => place'[w] = "moved"
        /\ e.who = w => e.from = place[w]
    BY DEF Emission, Typed, HookTypeOK, Agents
  <2>2. \A i \in Nat : Moves(i, w) => place[w] = "moved"
    BY DEF LineInv, MovesOnce
  <2>3. \A i, j \in Nat :
           Moves(i, w) /\ j \in DOMAIN Line /\ Line[j].who = w /\ i < j => Line[j].from = "moved"
    BY DEF LineInv, MovesOnce
  <2>4. \A i, j \in Nat :
           Moves(i, w)' /\ j \in DOMAIN Line' /\ Line'[j].who = w /\ i < j
           => Line'[j].from = "moved"
    <3> SUFFICES ASSUME NEW i \in Nat, NEW j \in Nat, Moves(i, w)', j \in DOMAIN Line',
                        Line'[j].who = w, i < j
                 PROVE  Line'[j].from = "moved"
      OBVIOUS
    <3>1. Moves(i, w)
      BY <1>1, <1>2
    <3> QED BY <1>2, <2>1, <2>2, <2>3, <3>1
  <2> QED BY <1>1, <2>1, <2>2, <2>4
<1>8. EndedRests'
  BY DEF LineInv, EndedRests
<1> QED BY <1>5, <1>6, <1>7, <1>8 DEF LineInv

-----------------------------------------------------------------------------
(* The line is sound throughout, if no update overtakes another. *)

(* The event an update or its failure takes off the line. *)
LEMMA HandledDrops ==
    ASSUME Typed, Typed', OneUpdate, NEW h \in Hooks,
           Updates(h) \/ UpdateUnmatched(h) \/ UpdateFails(h)
    PROVE  /\ Drops /\ Line[1] = hev[h] /\ OneUpdate' /\ Underway' = {}
           /\ h \in Underway /\ hacts[h] = <<>>
           /\ UNCHANGED <<agent, place, due, pointers>>
<1>1. CASE Updates(h)
  <2>1. PICK acts \in Seq(Calls), keys \in SUBSET Conditions : Sweeps(h, acts, keys)
    BY <1>1, UpdatesSweep
  <2> DEFINE N == acts \o NotifyOnce(keys) \o NotifyOnce(Overdue \ keys)
  <2>2. Decides(h, N) /\ hpc[h] = "update"
    BY <1>1, <2>1, UpdatesSweep DEF Sweeps
  <2> HIDE DEF N
  <2>3. UNCHANGED <<events, agent, place, due, pointers>>
    BY <2>2 DEF Decides, herdr, counts
  <2>4. (\A g \in Hooks : g # h => hpc'[g] = hpc[g]) /\ hpc'[h] # "update"
    <3>1. hpc \in [Hooks -> {"off", "update", "act"}]
      BY DEF Typed, HookTypeOK
    <3> QED BY <2>2, <3>1 DEF Decides
  <2> QED BY <2>2, <2>3, <2>4, UpdateDrops DEF Underway, Typed, Phased
<1>2. CASE UpdateUnmatched(h) \/ UpdateFails(h)
  <2>1. /\ hpc[h] = "update" /\ UNCHANGED <<events, agent, place, due, pointers>>
        /\ \A g \in Hooks : g # h => hpc'[g] = hpc[g]
        /\ hpc'[h] # "update"
    BY <1>2 DEF UpdateUnmatched, UpdateFails, herdr, Typed, HookTypeOK
  <2> QED BY <2>1, UpdateDrops DEF Underway, Typed, Phased
<1> QED BY <1>1, <1>2

(* The steps that neither bring an event nor hand one on. *)
Aloof(h) == Calling(h) \/ ActionFails(h)
Apart ==
    \/ \E w \in Workers :
          \/ WriteReport(w) \/ ThresholdPasses(w)
          \/ RequestAttention(w) \/ ShowAttention(w) \/ AttentionFails(w) \/ ClearAttention(w)
    \/ UNCHANGED hookVars

LEMMA ApartLeaves ==
    ASSUME Apart
    PROVE  /\ UNCHANGED <<hpc, hev, events, agent, place, runLife, paneOf, status>>
           /\ UNCHANGED <<due, pointers, hacts>>
           /\ \A w \in Workers : <<"pointer", w>> \in lost' <=> <<"pointer", w>> \in lost
BY DEF Apart, WriteReport, ThresholdPasses, RequestAttention, ShowAttention, AttentionFails,
   ClearAttention, Notifier, AttentionKey, hookVars, board, herdr, hooks, counts

LEMMA LineInvStays ==
    ASSUME LineInv, Line' = Line, Underway' = Underway, OneUpdate',
           UNCHANGED <<agent, place, runLife>>
    PROVE  LineInv'
<1>1. /\ \A i \in Nat, w \in Workers : Tells(i, w)' <=> Tells(i, w)
      /\ \A i \in Nat, w \in Workers : Moves(i, w)' <=> Moves(i, w)
  BY DEF Tells, Moves
<1>2. /\ \A i \in Nat, w \in Workers : Latest(i, w)' <=> Latest(i, w)
      /\ \A i, j \in Nat, w \in Workers : Follows(i, j, w)' <=> Follows(i, j, w)
  BY <1>1 DEF Latest, Follows
<1>3. Chained'
  BY <1>1, <1>2 DEF LineInv, Chained
<1>4. OnlyStatusOwes' /\ EndedRests'
  BY DEF LineInv, OnlyStatusOwes, EndedRests
<1>5. MovesOnce'
  BY <1>1 DEF LineInv, MovesOnce
<1> QED BY <1>3, <1>4, <1>5 DEF LineInv

LEMMA LineKept ==
    ASSUME Ordered, Typed, Typed', LineInv, [HookNext]_hookVars
    PROVE  LineInv'
<1>1. ASSUME NEW h \in Hooks, HookStarts(h) PROVE LineInv'
  <2>1. /\ OneUpdate' /\ Underway = {}
        /\ runLife = "active" => Line' = Line
        /\ runLife # "active" => Drops /\ Underway' = {}
        /\ UNCHANGED <<agent, place, runLife>>
    BY <1>1, StartsLine DEF LineInv, HookStarts, board
  <2>2. CASE runLife = "active"
    <3>1. /\ \A i \in Nat, w \in Workers : Tells(i, w)' <=> Tells(i, w)
          /\ \A i \in Nat, w \in Workers : Moves(i, w)' <=> Moves(i, w)
      BY <2>1, <2>2 DEF Tells, Moves
    <3>2. /\ \A i \in Nat, w \in Workers : Latest(i, w)' <=> Latest(i, w)
          /\ \A i, j \in Nat, w \in Workers : Follows(i, j, w)' <=> Follows(i, j, w)
      BY <3>1 DEF Latest, Follows
    <3>3. Chained'
      BY <2>1, <2>2, <3>1, <3>2 DEF LineInv, Chained
    <3>4. OnlyStatusOwes' /\ EndedRests'
      BY <2>1, <2>2 DEF LineInv, OnlyStatusOwes, EndedRests
    <3>5. MovesOnce'
      BY <2>1, <2>2, <3>1 DEF LineInv, MovesOnce
    <3> QED BY <2>1, <3>3, <3>4, <3>5 DEF LineInv
  <2>3. CASE runLife # "active"
    BY <2>1, <2>3, DropsKeepsLine
  <2> QED BY <2>2, <2>3
<1>2. ASSUME NEW h \in Hooks, Updates(h) \/ UpdateUnmatched(h) \/ UpdateFails(h) PROVE LineInv'
  BY <1>2, HandledDrops, DropsKeepsLine DEF LineInv
<1>3. ASSUME NEW h \in Hooks, Aloof(h) PROVE LineInv'
  <2>1. /\ UNCHANGED <<hev, events, agent, place, runLife>>
        /\ \A g \in Hooks : hpc[g] = "update" <=> hpc'[g] = "update"
    BY <1>3, CallingShifts, FailureDrops DEF Aloof
  <2> QED BY <2>1, LineStays, LineInvStays DEF LineInv
<1>4. CASE Apart
  <2>1. UNCHANGED <<hpc, hev, events, agent, place, runLife>>
    BY <1>4, ApartLeaves
  <2> QED BY <2>1, LineStays, LineInvStays DEF LineInv
<1>5. CASE \/ \E w \in Workers, s \in Statuses : AgentChanges(w, s)
           \/ \E a \in Agents : AgentExits(a) \/ PaneMoves(a)
  <2>1. PICK e \in SoundEvents : Grows(e) /\ Emission(e)
    BY <1>5, HerdrEmits DEF LineInv
  <2>2. UNCHANGED runLife /\ Underway' = Underway /\ OneUpdate'
    BY <1>5, HerdrEmits DEF LineInv
  <2> QED BY <2>1, <2>2, EmissionKeepsLine
<1> QED BY <1>1, <1>2, <1>3, <1>4, <1>5
       DEF HookNext, HookStep, Updates, Aloof, Apart, Calling

LEMMA InitLine == HookInit => LineInv
<1> SUFFICES ASSUME HookInit PROVE LineInv
  OBVIOUS
<1>1. Underway = {} /\ Line = <<>> /\ OneUpdate
  BY DEF HookInit, Underway, Line, OneUpdate
<1>2. \A i \in Nat, w \in Workers : ~Tells(i, w) /\ ~Moves(i, w)
  BY <1>1 DEF Tells, Moves
<1>3. Chained /\ MovesOnce
  BY <1>2 DEF Chained, MovesOnce, Latest, Follows
<1>4. OnlyStatusOwes /\ EndedRests
  BY <1>1 DEF OnlyStatusOwes, EndedRests
<1> QED BY <1>1, <1>3, <1>4 DEF LineInv

-----------------------------------------------------------------------------
(* Counting the pointers. *)

(* An agent's pointers in hand, and its events that owe one, are finitely many. *)
LEMMA Countable ==
    ASSUME Typed, OneUpdate, NEW w \in Workers
    PROVE  /\ IsFiniteSet(Carriers(w)) /\ Cardinality(Carriers(w)) \in Nat
           /\ IsFiniteSet(Owing(Line, w)) /\ Cardinality(Owing(Line, w)) \in Nat
           /\ due[w] \in Nat /\ pointers[w] \in Nat
           /\ Missing(w) \in Int
<1>1. IsFiniteSet(Carriers(w)) /\ Cardinality(Carriers(w)) \in Nat
  BY HookAssumption, FS_Subset, FS_CardinalityType DEF Carriers
<1>2. IsFiniteSet(Owing(Line, w)) /\ Cardinality(Owing(Line, w)) \in Nat
  <2>1. Line \in Seq(SoundEvents)
    BY LineShaped DEF LineShape
  <2>2. DOMAIN Line = 1..Len(Line) /\ 1 \in Int /\ Len(Line) \in Int
    BY <2>1
  <2>3. IsFiniteSet(DOMAIN Line)
    BY <2>2, FS_Interval
  <2>4. Owing(Line, w) \in SUBSET DOMAIN Line
    BY DEF Owing
  <2> QED BY <2>3, <2>4, FS_Subset, FS_CardinalityType
<1>3. due[w] \in Nat /\ pointers[w] \in Nat
  BY DEF Typed, HookTypeOK
<1> QED BY <1>1, <1>2, <1>3 DEF Missing

LEMMA CountableNext ==
    Typed' /\ OneUpdate' =>
        \A w \in Workers :
            /\ IsFiniteSet(Carriers(w)') /\ Cardinality(Carriers(w)') \in Nat
            /\ IsFiniteSet(Owing(Line', w)) /\ Cardinality(Owing(Line', w)) \in Nat
            /\ due'[w] \in Nat /\ pointers'[w] \in Nat
            /\ Missing(w)' \in Int
<1>1. Typed /\ OneUpdate =>
        \A w \in Workers :
            /\ IsFiniteSet(Carriers(w)) /\ Cardinality(Carriers(w)) \in Nat
            /\ IsFiniteSet(Owing(Line, w)) /\ Cardinality(Owing(Line, w)) \in Nat
            /\ due[w] \in Nat /\ pointers[w] \in Nat
            /\ Missing(w) \in Int
  BY Countable
<1>2. (Typed /\ OneUpdate =>
        \A w \in Workers :
            /\ IsFiniteSet(Carriers(w)) /\ Cardinality(Carriers(w)) \in Nat
            /\ IsFiniteSet(Owing(Line, w)) /\ Cardinality(Owing(Line, w)) \in Nat
            /\ due[w] \in Nat /\ pointers[w] \in Nat
            /\ Missing(w) \in Int)'
  BY <1>1, PTL
<1> QED BY <1>2 DEF Owing

(* One more or one less, as the condition has it. *)
One(condition) == IF condition THEN 1 ELSE 0

(* An event that joins the line owes what it says. *)
LEMMA GrowsOwes ==
    ASSUME Typed, OneUpdate, NEW e \in SoundEvents, Grows(e), NEW w \in Workers
    PROVE  Cardinality(Owing(Line', w)) =
               Cardinality(Owing(Line, w)) + One(e.owed /\ e.who = w)
<1> DEFINE n == Len(Line) + 1
<1>1. /\ DOMAIN Line = 1..Len(Line) /\ DOMAIN Line' = 1..n /\ Len(Line) \in Nat
      /\ \A i \in DOMAIN Line : Line'[i] = Line[i]
      /\ Line'[n] = e
  BY DEF Grows
<1>2. IsFiniteSet(Owing(Line, w)) /\ Cardinality(Owing(Line, w)) \in Nat
  BY Countable
<1>3. n \notin Owing(Line, w)
  BY <1>1 DEF Owing
<1>4. CASE e.owed /\ e.who = w
  <2>1. Owing(Line', w) = Owing(Line, w) \cup {n}
    BY <1>1, <1>4 DEF Owing
  <2> HIDE DEF n
  <2>2. Cardinality(Owing(Line', w)) = Cardinality(Owing(Line, w)) + 1
    BY <1>2, <1>3, <2>1, FS_AddElement
  <2> QED BY <1>4, <2>2 DEF One
<1>5. CASE ~(e.owed /\ e.who = w)
  <2>1. Owing(Line', w) = Owing(Line, w)
    BY <1>1, <1>5 DEF Owing
  <2> QED BY <1>2, <1>5, <2>1 DEF One
<1> QED BY <1>4, <1>5

(* What is behind the first event owes the rest. *)
LEMMA DropsOwes ==
    ASSUME Typed, OneUpdate, Drops, NEW w \in Workers
    PROVE  Cardinality(Owing(Line, w)) =
               Cardinality(Owing(Line', w)) + One(Line[1].owed /\ Line[1].who = w)
<1> DEFINE S == Owing(Line, w)
           T == Owing(Line', w)
           f == [i \in S \ {1} |-> i - 1]
<1>1. /\ DOMAIN Line = 1..Len(Line) /\ DOMAIN Line' = 1..(Len(Line) - 1) /\ Len(Line) \in Nat \ {0}
      /\ \A i \in DOMAIN Line' : Line'[i] = Line[i + 1]
  BY DEF Drops
<1>2. IsFiniteSet(S) /\ Cardinality(S) \in Nat
  BY Countable
<1>3. \A i \in T : i + 1 \in S \ {1} /\ i \in Nat /\ f[i + 1] = i
  BY <1>1 DEF Owing
<1>4. \A i \in S \ {1} : i - 1 \in T /\ i \in Nat
  BY <1>1 DEF Owing
<1>5. f \in Bijection(S \ {1}, T)
  <2> HIDE DEF S, T
  <2>1. f \in [S \ {1} -> T]
    BY <1>4
  <2>2. \A i, j \in S \ {1} : f[i] = f[j] => i = j
    BY <1>4
  <2>3. \A i \in T : \E j \in S \ {1} : f[j] = i
    BY <1>3
  <2> QED BY <2>1, <2>2, <2>3 DEF Bijection, Injection, Surjection, IsInjective
<1>6. 1 \in S <=> Line[1].owed /\ Line[1].who = w
  BY <1>1 DEF Owing
<1> HIDE DEF S, T, f
<1>7. IsFiniteSet(S \ {1}) /\ Cardinality(S \ {1}) = Cardinality(S) - One(1 \in S)
  BY <1>2, FS_RemoveElement DEF One
<1>8. ExistsBijection(S \ {1}, T)
  BY <1>5 DEF ExistsBijection
<1>9. Cardinality(T) = Cardinality(S \ {1})
  BY <1>7, <1>8, FS_Bijection
<1>10. One(1 \in S) \in Int /\ One(1 \in S) = One(Line[1].owed /\ Line[1].who = w)
  BY <1>6 DEF One
<1> QED BY <1>2, <1>7, <1>9, <1>10 DEF S, T

(* A hook that takes a pointer in hand, or has it no more. *)
LEMMA CarriersChange ==
    ASSUME Typed, Typed', OneUpdate, NEW h \in Hooks, NEW w \in Workers,
           \A g \in Hooks : g # h => hacts'[g] = hacts[g]
    PROVE  Cardinality(Carriers(w)') =
               Cardinality(Carriers(w)) - One(h \in Carriers(w)) + One(h \in Carriers(w)')
<1>1. IsFiniteSet(Carriers(w)) /\ Cardinality(Carriers(w)) \in Nat
  BY Countable
<1>2. \A g \in Hooks : g # h => (g \in Carriers(w)' <=> g \in Carriers(w))
  BY DEF Carriers, Holds
<1>3. Carriers(w) \subseteq Hooks /\ Carriers(w)' \subseteq Hooks
  BY DEF Carriers
<1>4. CASE h \in Carriers(w)'
  <2>1. Carriers(w)' = Carriers(w) \cup {h}
    BY <1>2, <1>3, <1>4
  <2>2. Cardinality(Carriers(w)') =
           IF h \in Carriers(w) THEN Cardinality(Carriers(w)) ELSE Cardinality(Carriers(w)) + 1
    BY <1>1, <2>1, FS_AddElement
  <2> QED BY <1>1, <1>4, <2>2 DEF One
<1>5. CASE h \notin Carriers(w)'
  <2>1. Carriers(w)' = Carriers(w) \ {h}
    BY <1>2, <1>3, <1>5
  <2>2. Cardinality(Carriers(w)') =
           IF h \in Carriers(w) THEN Cardinality(Carriers(w)) - 1 ELSE Cardinality(Carriers(w))
    BY <1>1, <2>1, FS_RemoveElement
  <2> QED BY <1>1, <1>5, <2>2 DEF One
<1> QED BY <1>4, <1>5

-----------------------------------------------------------------------------
(* The pointers, while the line and the board stay as they are, *)

LEMMA StaysKeepsPointers ==
    ASSUME Typed, Typed', LineInv, LineInv', PointerInv, OneCarried', Line' = Line,
           UNCHANGED <<agent, place, paneOf, status, runLife>>,
           \A w \in Workers :
              /\ Missing(w)' >= Missing(w)
              /\ <<"pointer", w>> \notin lost' =>
                    <<"pointer", w>> \notin lost /\ Missing(w)' = Missing(w)
    PROVE  PointerInv'
<1>1. /\ \A i \in Nat, w \in Workers : Tells(i, w)' <=> Tells(i, w)
      /\ \A i \in Nat, w \in Workers : Moves(i, w)' <=> Moves(i, w)
  BY DEF Tells, Moves
<1>2. /\ \A i \in Nat, w \in Workers : Nearest(i, w)' <=> Nearest(i, w)
      /\ \A w \in Workers : Silent(w)' <=> Silent(w)
  BY <1>1 DEF Nearest, Silent
<1>3. \A w \in Workers : Missing(w) \in Int /\ Missing(w)' \in Int
  BY Countable, CountableNext DEF LineInv
<1>4. Slack'
  <2> SUFFICES ASSUME NEW w \in Workers
               PROVE  /\ Missing(w)' >= 0
                      /\ status[w] = "working" /\ Missing(w)' = 0 =>
                            /\ \A i \in Nat : Nearest(i, w)' => Line[i].owed
                            /\ Silent(w)' => agent[w] \in {"working", "gone"}
    BY DEF Slack
  <2>1. /\ Missing(w) >= 0
        /\ status[w] = "working" /\ Missing(w) = 0 =>
              /\ \A i \in Nat : Nearest(i, w) => Line[i].owed
              /\ Silent(w) => agent[w] \in {"working", "gone"}
    BY DEF PointerInv, Slack
  <2>2. Missing(w)' >= Missing(w) /\ Missing(w) \in Int /\ Missing(w)' \in Int
    BY <1>3
  <2>3. Missing(w) >= 0
    BY <2>1
  <2>4. Missing(w)' >= 0 /\ (Missing(w)' = 0 => Missing(w) = 0)
    BY <2>2, <2>3
  <2> QED BY <1>2, <2>1, <2>4
<1>5. \A w \in Workers : Synced(w) => Synced(w)'
  BY <1>1, <1>2 DEF Synced
<1>6. KeepsUp'
  BY <1>5 DEF PointerInv, KeepsUp
<1> QED BY <1>4, <1>6 DEF PointerInv

(* when Herdr brings an event, *)
LEMMA EmissionKeepsPointers ==
    ASSUME Typed, Typed', LineInv, LineInv', PointerInv,
           NEW e \in SoundEvents, Grows(e), Emission(e),
           UNCHANGED <<hacts, paneOf, pointers, status, runLife, lost>>
    PROVE  PointerInv'
<1> DEFINE n == Len(Line) + 1
           Joins(w) == e.kind = "status" /\ e.who = w
<1>1. /\ n \in Nat
      /\ \A i \in Nat, w \in Workers : Tells(i, w)' <=> Tells(i, w) \/ (i = n /\ Joins(w))
      /\ \A i \in Nat, w \in Workers :
            Moves(i, w)' <=> Moves(i, w) \/ (i = n /\ e.kind = "move" /\ e.who = w)
      /\ \A i \in Nat, w \in Workers : Tells(i, w) => i < n
      /\ \A i \in Nat, w \in Workers : Moves(i, w) => i < n
      /\ \A i \in Nat, w \in Workers : Nearest(i, w)' =>
            Nearest(i, w) \/ (i = n /\ Joins(w) /\ Silent(w))
      /\ \A w \in Workers : Silent(w)' => Silent(w) /\ ~Joins(w)
  BY GrowsShift
<1>2. /\ Line'[n] = e /\ n \in DOMAIN Line'
      /\ \A i \in DOMAIN Line : i < n /\ Line'[i] = Line[i] /\ i \in DOMAIN Line'
      /\ \A i \in DOMAIN Line' : i \in Nat /\ (i \in DOMAIN Line \/ i = n)
  BY DEF Grows
<1>3. \A w \in Workers :
         /\ Joins(w) => /\ agent[w] # "gone"
                        /\ e.owed <=> e.to = "blocked" \/ agent[w] = "working"
         /\ ~Joins(w) => agent'[w] \in {agent[w], "gone"}
  <2>1. agent \in [Agents -> Statuses \cup {"gone"}] /\ Workers \subseteq Agents
    BY DEF Typed, HookTypeOK, Agents
  <2> QED BY <2>1 DEF Emission, Changes
<1>4. \A w \in Workers : due'[w] = due[w] + One(e.owed /\ e.who = w)
  <2> SUFFICES ASSUME NEW w \in Workers PROVE due'[w] = due[w] + One(e.owed /\ e.who = w)
    OBVIOUS
  <2>1. due \in [Workers -> Nat]
    BY DEF Typed, HookTypeOK
  <2>2. \/ ~e.owed /\ due' = due
        \/ \E v \in Workers : e.owed /\ e.who = v /\ due' = [due EXCEPT ![v] = @ + 1]
    BY DEF Emission
  <2>3. due'[w] = IF e.owed /\ e.who = w THEN due[w] + 1 ELSE due[w]
    BY <2>1, <2>2
  <2> QED BY <2>1, <2>3 DEF One
<1>5. \A w \in Workers : Missing(w)' = Missing(w)
  <2> SUFFICES ASSUME NEW w \in Workers PROVE Missing(w)' = Missing(w)
    OBVIOUS
  <2>1. /\ Cardinality(Owing(Line, w)) \in Nat /\ due[w] \in Nat /\ pointers[w] \in Nat
        /\ Cardinality(Carriers(w)) \in Nat
    BY Countable DEF LineInv
  <2>2. Cardinality(Owing(Line', w)) = Cardinality(Owing(Line, w)) + One(e.owed /\ e.who = w)
    BY GrowsOwes DEF LineInv
  <2>3. Carriers(w)' = Carriers(w)
    BY DEF Carriers, Holds
  <2>4. Missing(w)' =
           due'[w] - pointers[w] - Cardinality(Carriers(w)) - Cardinality(Owing(Line', w))
    BY <2>3 DEF Missing, Owing
  <2>5. Missing(w) = due[w] - pointers[w] - Cardinality(Carriers(w)) - Cardinality(Owing(Line, w))
    BY DEF Missing
  <2>6. One(e.owed /\ e.who = w) \in Nat
    BY DEF One
  <2> QED BY <1>4, <2>1, <2>2, <2>4, <2>5, <2>6
<1> HIDE DEF n
<1>6. Slack'
  <2> SUFFICES ASSUME NEW w \in Workers
               PROVE  /\ Missing(w)' >= 0
                      /\ status[w] = "working" /\ Missing(w)' = 0 =>
                            /\ \A i \in Nat : Nearest(i, w)' => Line'[i].owed
                            /\ Silent(w)' => agent'[w] \in {"working", "gone"}
    BY DEF Slack
  <2>1. /\ Missing(w) >= 0
        /\ status[w] = "working" /\ Missing(w) = 0 =>
              /\ \A i \in Nat : Nearest(i, w) => Line[i].owed
              /\ Silent(w) => agent[w] \in {"working", "gone"}
    BY DEF PointerInv, Slack
  <2>2. \A i \in Nat : Nearest(i, w) => i \in DOMAIN Line /\ Line'[i] = Line[i]
    BY <1>2 DEF Nearest, Tells
  <2>3. ASSUME status[w] = "working", Missing(w) = 0, NEW i \in Nat, Nearest(i, w)'
        PROVE  Line'[i].owed
    <3>1. CASE Nearest(i, w)
      BY <2>1, <2>2, <2>3, <3>1
    <3>2. CASE i = n /\ Joins(w) /\ Silent(w)
      <4>1. agent[w] = "working" /\ Line'[i] = e
        BY <1>2, <1>3, <2>1, <2>3, <3>2
      <4> QED BY <1>3, <3>2, <4>1
    <3> QED BY <1>1, <2>3, <3>1, <3>2
  <2>4. ASSUME status[w] = "working", Missing(w) = 0, Silent(w)'
        PROVE  agent'[w] \in {"working", "gone"}
    <3>1. Silent(w) /\ ~Joins(w)
      BY <1>1, <2>4
    <3> QED BY <1>3, <2>1, <2>4, <3>1
  <2> QED BY <1>5, <2>1, <2>3, <2>4
<1>7. ASSUME NEW w \in Workers, Synced(w) PROVE Synced(w)'
  <2>1. /\ \A i \in DOMAIN Line : Line[i].who = w =>
              \/ Line[i].from = paneOf[w]
              \/ \E j \in Nat : j < i /\ Moves(j, w)
        /\ place[w] = paneOf[w] \/ \E j \in Nat : Moves(j, w)
        /\ \A i \in Nat : Nearest(i, w) /\ Line[i].owed /\ Line[i].to # "blocked" =>
              status[w] = "working"
        /\ Silent(w) /\ agent[w] = "working" => status[w] = "working"
    BY <1>7 DEF Synced
  <2>2. e.who = w => e.from = place[w]
    BY DEF Emission
  <2>3. place'[w] = place[w] \/ (e.kind = "move" /\ e.who = w)
    BY DEF Emission, Typed, HookTypeOK, Agents
  <2>4. \A i \in DOMAIN Line' : Line'[i].who = w =>
           \/ Line'[i].from = paneOf[w]
           \/ \E j \in Nat : j < i /\ Moves(j, w)'
    BY <1>1, <1>2, <2>1, <2>2
  <2>5. place'[w] = paneOf[w] \/ \E j \in Nat : Moves(j, w)'
    BY <1>1, <2>1, <2>3
  <2>6. \A i \in Nat : Nearest(i, w)' /\ Line'[i].owed /\ Line'[i].to # "blocked" =>
           status[w] = "working"
    <3> SUFFICES ASSUME NEW i \in Nat, Nearest(i, w)', Line'[i].owed, Line'[i].to # "blocked"
                 PROVE  status[w] = "working"
      OBVIOUS
    <3>1. CASE Nearest(i, w)
      <4>1. Line'[i] = Line[i]
        BY <1>2, <3>1 DEF Nearest, Tells
      <4> QED BY <2>1, <3>1, <4>1
    <3>2. CASE i = n /\ Joins(w) /\ Silent(w)
      <4>1. Line'[i] = e
        BY <1>2, <3>2
      <4>2. agent[w] = "working"
        BY <1>3, <3>2, <4>1
      <4> QED BY <2>1, <3>2, <4>2
    <3> QED BY <1>1, <3>1, <3>2
  <2>7. Silent(w)' /\ agent'[w] = "working" => status[w] = "working"
    BY <1>1, <1>3, <2>1
  <2> QED BY <2>4, <2>5, <2>6, <2>7 DEF Synced
<1>8. KeepsUp'
  BY <1>5, <1>7 DEF PointerInv, KeepsUp
<1>9. OneCarried'
  BY DEF PointerInv, OneCarried
<1> QED BY <1>6, <1>8, <1>9 DEF PointerInv

(* and when an event is taken off that leaves the statuses. *)

(* The carriers are those they were: no pointer is decided on. *)
LEMMA PassesCounts ==
    ASSUME Typed, Typed', LineInv, Drops, UNCHANGED <<due, pointers>>, NEW w \in Workers
    PROVE  Missing(w)' = Missing(w) + One(Line[1].owed /\ Line[1].who = w)
               + Cardinality(Carriers(w)) - Cardinality(Carriers(w)')
<1>1. /\ Cardinality(Owing(Line, w)) \in Nat /\ due[w] \in Nat /\ pointers[w] \in Nat
      /\ Cardinality(Carriers(w)) \in Nat
  BY Countable DEF LineInv
<1>2. Cardinality(Owing(Line, w)) =
         Cardinality(Owing(Line', w)) + One(Line[1].owed /\ Line[1].who = w)
  BY DropsOwes DEF LineInv
<1>3. /\ Missing(w)' =
            due[w] - pointers[w] - Cardinality(Carriers(w)') - Cardinality(Owing(Line', w))
      /\ Missing(w) = due[w] - pointers[w] - Cardinality(Carriers(w)) - Cardinality(Owing(Line, w))
  BY DEF Missing, Owing
<1>4. Cardinality(Owing(Line', w)) \in Int /\ Cardinality(Carriers(w)') \in Int
  <2>1. IsFiniteSet(Hooks) /\ Carriers(w)' \in SUBSET Hooks
    BY HookAssumption DEF Carriers
  <2>2. Cardinality(Carriers(w)') \in Nat
    BY <2>1, FS_Subset, FS_CardinalityType
  <2>3. DOMAIN Line' = 1..(Len(Line) - 1) /\ Len(Line) - 1 \in Int /\ 1 \in Int
    BY DEF Drops
  <2>4. IsFiniteSet(DOMAIN Line') /\ Owing(Line', w) \in SUBSET DOMAIN Line'
    BY <2>3, FS_Interval DEF Owing
  <2>5. Cardinality(Owing(Line', w)) \in Nat
    BY <2>4, FS_Subset, FS_CardinalityType
  <2> QED BY <2>2, <2>5
<1>5. One(Line[1].owed /\ Line[1].who = w) \in Nat
  BY DEF One
<1> QED BY <1>1, <1>2, <1>3, <1>4, <1>5

(* What the board holds of an agent whose events stay, or of one that exits. *)
LEMMA PassesSynced ==
    ASSUME Drops, UNCHANGED <<agent, place>>, NEW w \in Workers, Synced(w),
           UNCHANGED <<paneOf[w], status[w]>>,
           ~Tells(1, w), ~Moves(1, w)
    PROVE  Synced(w)'
<1>1. /\ \A i \in Nat : Moves(i, w)' <=> i >= 1 /\ Moves(i + 1, w)
      /\ \A i \in Nat : Nearest(i, w)' => Nearest(i + 1, w)
      /\ Silent(w)' => Silent(w)
  BY DropsShift
<1>2. \A i \in DOMAIN Line' : Line'[i] = Line[i + 1] /\ i + 1 \in DOMAIN Line /\ i \in Nat
  BY DEF Drops
<1>3. /\ \A i \in DOMAIN Line : Line[i].who = w =>
            \/ Line[i].from = paneOf[w]
            \/ \E j \in Nat : j < i /\ Moves(j, w)
      /\ place[w] = paneOf[w] \/ \E j \in Nat : Moves(j, w)
      /\ \A i \in Nat : Nearest(i, w) /\ Line[i].owed /\ Line[i].to # "blocked" =>
            status[w] = "working"
      /\ Silent(w) /\ agent[w] = "working" => status[w] = "working"
  BY DEF Synced
<1>4. \A j \in Nat : Moves(j, w) => j - 1 \in Nat /\ Moves(j - 1, w)'
  BY <1>1 DEF Moves, Drops
<1>5. \A i \in DOMAIN Line' : Line'[i].who = w =>
         \/ Line'[i].from = paneOf'[w]
         \/ \E j \in Nat : j < i /\ Moves(j, w)'
  <2> SUFFICES ASSUME NEW i \in DOMAIN Line', Line'[i].who = w
               PROVE  \/ Line'[i].from = paneOf'[w]
                      \/ \E j \in Nat : j < i /\ Moves(j, w)'
    OBVIOUS
  <2>1. \/ Line'[i].from = paneOf'[w]
        \/ \E j \in Nat : j < i + 1 /\ Moves(j, w)
    BY <1>2, <1>3
  <2> QED BY <1>2, <1>4, <2>1
<1>6. place'[w] = paneOf'[w] \/ \E j \in Nat : Moves(j, w)'
  BY <1>3, <1>4
<1>7. \A i \in Nat : Nearest(i, w)' => i \in DOMAIN Line'
  BY DEF Nearest, Tells
<1>8. \A i \in Nat : Nearest(i, w)' /\ Line'[i].owed /\ Line'[i].to # "blocked" =>
         status'[w] = "working"
  BY <1>1, <1>2, <1>3, <1>7
<1>9. Silent(w)' /\ agent'[w] = "working" => status'[w] = "working"
  BY <1>1, <1>3
<1> QED BY <1>5, <1>6, <1>8, <1>9 DEF Synced

(* An event that the board makes nothing of leaves a pointer missing if it owed one. *)
LEMMA PassesSlack ==
    ASSUME Typed, Typed', LineInv, PointerInv, Drops,
           UNCHANGED <<agent, due, pointers>>, NEW w \in Workers,
           UNCHANGED status[w], Carriers(w)' = Carriers(w)
    PROVE  /\ Missing(w)' = Missing(w) + One(Line[1].owed /\ Line[1].who = w)
           /\ Missing(w)' >= 0
           /\ status'[w] = "working" /\ Missing(w)' = 0 =>
                 /\ \A i \in Nat : Nearest(i, w)' => Line'[i].owed
                 /\ Silent(w)' => agent'[w] \in {"working", "gone"}
<1>1. Missing(w) \in Int /\ Cardinality(Carriers(w)) \in Nat
  BY Countable DEF LineInv
<1>2. Missing(w)' = Missing(w) + One(Line[1].owed /\ Line[1].who = w)
  <2>1. One(Line[1].owed /\ Line[1].who = w) \in Nat
    BY DEF One
  <2> QED BY <1>1, <2>1, PassesCounts
<1>3. /\ Missing(w) >= 0
      /\ status[w] = "working" /\ Missing(w) = 0 =>
            /\ \A i \in Nat : Nearest(i, w) => Line[i].owed
            /\ Silent(w) => agent[w] \in {"working", "gone"}
  BY DEF PointerInv, Slack
<1>4. Missing(w)' >= 0 /\ (Missing(w)' = 0 => Missing(w) = 0 /\ ~(Line[1].owed /\ Line[1].who = w))
  BY <1>1, <1>2, <1>3 DEF One
<1>5. ASSUME status'[w] = "working", Missing(w)' = 0
      PROVE  /\ \A i \in Nat : Nearest(i, w)' => Line'[i].owed
             /\ Silent(w)' => agent'[w] \in {"working", "gone"}
  <2>1. /\ \A i \in Nat : Nearest(i, w) => Line[i].owed
        /\ Silent(w) => agent[w] \in {"working", "gone"}
    BY <1>3, <1>4, <1>5
  <2>2. ~Tells(1, w)
    <3>1. Tells(1, w) => Nearest(1, w) /\ Line[1].who = w
      BY DEF Nearest, Tells, Drops
    <3> QED BY <1>4, <1>5, <2>1, <3>1
  <2>3. /\ \A i \in Nat : Nearest(i, w)' => Nearest(i + 1, w) /\ i + 1 \in Nat
        /\ Silent(w)' => Silent(w)
    BY <2>2, DropsShift
  <2>4. \A i \in Nat : Nearest(i, w)' => Line'[i] = Line[i + 1]
    BY DEF Nearest, Tells, Drops
  <2> QED BY <2>1, <2>3, <2>4
<1> QED BY <1>2, <1>4, <1>5

LEMMA PassesKeepsPointers ==
    ASSUME Typed, Typed', LineInv, LineInv', PointerInv, OneCarried', Drops,
           UNCHANGED <<agent, due, pointers, status>>,
           \A w \in Workers : Carriers(w)' = Carriers(w),
           lost \subseteq lost', Line[1].owed => <<"pointer", Line[1].who>> \in lost',
           runLife' = "active" =>
              /\ runLife = "active"
              /\ \A w \in Workers : <<"pointer", w>> \notin lost' /\ Synced(w) => Synced(w)'
    PROVE  PointerInv'
<1>1. \A w \in Workers :
         /\ Missing(w)' = Missing(w) + One(Line[1].owed /\ Line[1].who = w)
         /\ Missing(w)' >= 0
         /\ status'[w] = "working" /\ Missing(w)' = 0 =>
               /\ \A i \in Nat : Nearest(i, w)' => Line'[i].owed
               /\ Silent(w)' => agent'[w] \in {"working", "gone"}
  BY PassesSlack
<1>2. Slack'
  BY <1>1 DEF Slack
<1>3. KeepsUp'
  <2> SUFFICES ASSUME NEW w \in Workers, <<"pointer", w>> \notin lost'
               PROVE  Missing(w)' = 0 /\ (runLife' = "active" => Synced(w)')
    BY DEF KeepsUp
  <2>1. Missing(w) = 0 /\ (runLife = "active" => Synced(w))
    BY DEF PointerInv, KeepsUp
  <2>2. One(Line[1].owed /\ Line[1].who = w) = 0
    BY DEF One
  <2>3. Missing(w)' = 0
    BY <1>1, <2>1, <2>2
  <2> QED BY <2>1, <2>3
<1> QED BY <1>2, <1>3 DEF PointerInv

(* An event that is dropped: the run has ended, it matches nothing, or its update fails. *)
LEMMA DroppedKeepsPointers ==
    ASSUME Typed, Typed', LineInv, LineInv', PointerInv, NEW h \in Hooks,
           \/ UpdateUnmatched(h) \/ UpdateFails(h)
           \/ HookStarts(h) /\ runLife # "active" /\ Ordered
    PROVE  PointerInv'
<1>1. /\ Drops /\ UNCHANGED <<agent, place, due, pointers, status, paneOf, hacts, runLife>>
      /\ lost \subseteq lost' /\ (Line[1].owed => <<"pointer", Line[1].who>> \in lost')
  <2>1. CASE UpdateUnmatched(h) \/ UpdateFails(h)
    <3>1. Drops /\ Line[1] = hev[h] /\ UNCHANGED <<agent, place, due, pointers>>
      BY <2>1, HandledDrops DEF LineInv
    <3>2. UNCHANGED <<status, paneOf, hacts, runLife>>
      BY <2>1 DEF UpdateUnmatched, UpdateFails, board
    <3>3. lost \subseteq lost' /\ (hev[h].owed => <<"pointer", hev[h].who>> \in lost')
      <4>1. CASE UpdateUnmatched(h)
        BY <4>1 DEF UpdateUnmatched, Owed
      <4>2. CASE UpdateFails(h)
        BY <4>2 DEF UpdateFails
      <4> QED BY <2>1, <4>1, <4>2
    <3> QED BY <3>1, <3>2, <3>3
  <2>2. CASE HookStarts(h) /\ runLife # "active" /\ Ordered
    <3>1. Drops /\ lost' = lost \cup Owed(Line[1])
      BY <2>2, StartsLine DEF LineInv
    <3>2. UNCHANGED <<agent, place, due, pointers, status, paneOf, hacts, runLife>>
      BY <2>2 DEF HookStarts, board
    <3> QED BY <3>1, <3>2 DEF Owed
  <2> QED BY <2>1, <2>2
<1>2. ASSUME runLife = "active", NEW w \in Workers, <<"pointer", w>> \notin lost', Synced(w)
      PROVE  Synced(w)'
  <2>1. UpdateUnmatched(h) \/ UpdateFails(h)
    BY <1>2
  <2>2. Line[1] = hev[h]
    BY <2>1, HandledDrops DEF LineInv
  <2>3. Line[1].who # w
    <3>1. CASE UpdateFails(h)
      BY <1>2, <2>2, <3>1 DEF UpdateFails
    <3>2. CASE UpdateUnmatched(h)
      <4>1. paneOf[hev[h].who] # hev[h].from
        BY <3>2 DEF UpdateUnmatched, Matches
      <4>2. 1 \in DOMAIN Line /\ \A j \in Nat : j < 1 => ~Moves(j, w)
        BY <1>1 DEF Drops, Moves
      <4>3. Line[1].who = w => Line[1].from = paneOf[w]
        BY <1>2, <4>2 DEF Synced
      <4> QED BY <2>2, <4>1, <4>3
    <3> QED BY <2>1, <3>1, <3>2
  <2>4. ~Tells(1, w) /\ ~Moves(1, w)
    BY <2>3 DEF Tells, Moves
  <2>5. UNCHANGED <<paneOf[w], status[w]>>
    BY <1>1
  <2> QED BY <1>1, <1>2, <2>4, <2>5, PassesSynced
<1>3. OneCarried' /\ \A w \in Workers : Carriers(w)' = Carriers(w)
  BY <1>1 DEF PointerInv, OneCarried, Carriers, Holds
<1> QED BY <1>1, <1>2, <1>3, PassesKeepsPointers

(* An exit or a move: nothing is decided on but notifications. *)
LEMMA OtherKeepsPointers ==
    ASSUME Typed, Typed', LineInv, LineInv', PointerInv, NEW h \in Hooks,
           UpdateWorkerExit(h) \/ UpdateGodExit(h) \/ UpdateMove(h)
    PROVE  PointerInv'
<1>1. /\ Drops /\ Line[1] = hev[h] /\ UNCHANGED <<agent, place, due, pointers>> /\ h \in Underway
      /\ hev[h].kind # "status"
  <2>1. Updates(h)
    BY DEF Updates
  <2> QED BY <2>1, HandledDrops DEF LineInv, UpdateWorkerExit, UpdateGodExit, UpdateMove
<1>2. /\ UNCHANGED <<status, sequence>> /\ hacts[h] = <<>>
      /\ \A i \in DOMAIN hacts'[h] : hacts'[h][i].do \in {"exit", "blocked", "complete"}
      /\ \A g \in Hooks : g # h => hacts'[g] = hacts[g]
  BY OtherList
<1>3. ~Line[1].owed /\ lost' = lost /\ runLife = "active"
  <2>1. ~Line[1].owed
    BY <1>1 DEF LineInv, OnlyStatusOwes, Drops
  <2>2. runLife = "active"
    BY <1>1 DEF LineInv, EndedRests, Typed, HookTypeOK
  <2>3. lost' = lost
    BY DEF UpdateWorkerExit, UpdateGodExit, UpdateMove, Sweeps, Decides, counts
  <2> QED BY <2>1, <2>2, <2>3
<1>4. OneCarried' /\ \A w \in Workers : Carriers(w)' = Carriers(w)
  <2>1. \A w \in Workers, g \in Hooks : Holds(g, "pointer", w)' <=> Holds(g, "pointer", w)
    BY <1>2 DEF Holds
  <2>2. OneCarried'
    <3> SUFFICES ASSUME NEW g \in Hooks, NEW i \in DOMAIN hacts'[g], NEW j \in DOMAIN hacts'[g],
                        hacts'[g][i].do = "pointer", hacts'[g][j].do = "pointer"
                 PROVE  i = j
      BY DEF OneCarried
    <3>1. g # h
      BY <1>2
    <3> QED BY <1>2, <3>1 DEF PointerInv, OneCarried
  <2> QED BY <2>1, <2>2 DEF Carriers
<1>5. ASSUME NEW w \in Workers, Synced(w) PROVE Synced(w)'
  <2>1. ~Tells(1, w)
    BY <1>1 DEF Tells
  <2>2. CASE ~UpdateMove(h) \/ hev[h].who # w
    <3>1. paneOf'[w] = paneOf[w]
      <4>1. paneOf \in [Agents -> Spots] /\ w \in Agents
        BY DEF Typed, HookTypeOK, Agents
      <4>2. \/ paneOf' = paneOf
            \/ UpdateMove(h) /\ paneOf' = [paneOf EXCEPT ![hev[h].who] = hev[h].to]
        BY DEF UpdateWorkerExit, UpdateGodExit, UpdateMove
      <4> QED BY <2>2, <4>1, <4>2
    <3>2. ~Moves(1, w)
      BY <1>1, <2>2 DEF Moves, UpdateWorkerExit, UpdateGodExit
    <3>3. UNCHANGED <<paneOf[w], status[w]>>
      BY <1>2, <3>1
    <3> QED BY <1>1, <1>5, <2>1, <3>2, <3>3, PassesSynced
  <2>3. CASE UpdateMove(h) /\ hev[h].who = w
    <3>1. hev[h].kind = "move" /\ hev[h].to = "moved" /\ paneOf'[w] = "moved"
      BY <2>3 DEF UpdateMove, Typed, HookTypeOK, Phased, SoundEvents, Sound, Agents
    <3>2. Moves(1, w)
      BY <1>1, <2>3, <3>1 DEF Moves, Drops
    <3>3. /\ place[w] = "moved"
          /\ \A j \in Nat : j \in DOMAIN Line /\ Line[j].who = w /\ 1 < j => Line[j].from = "moved"
      BY <3>2 DEF LineInv, MovesOnce
    <3>4. \A i \in DOMAIN Line' : Line'[i] = Line[i + 1] /\ i + 1 \in DOMAIN Line /\ i \in Nat
                                  /\ 1 < i + 1
      BY <1>1 DEF Drops
    <3>5. /\ \A i \in Nat : Nearest(i, w)' => Nearest(i + 1, w) /\ i \in DOMAIN Line'
          /\ Silent(w)' => Silent(w)
      BY <1>1, <2>1, DropsShift DEF Nearest, Tells
    <3>6. \A i \in DOMAIN Line' : Line'[i].who = w => Line'[i].from = paneOf'[w]
      BY <3>1, <3>3, <3>4
    <3>7. place'[w] = paneOf'[w]
      BY <1>1, <3>1, <3>3
    <3>8. \A i \in Nat : Nearest(i, w)' /\ Line'[i].owed /\ Line'[i].to # "blocked" =>
             status'[w] = "working"
      BY <1>2, <1>5, <3>4, <3>5 DEF Synced
    <3>9. Silent(w)' /\ agent'[w] = "working" => status'[w] = "working"
      BY <1>1, <1>2, <1>5, <3>5 DEF Synced
    <3> QED BY <3>6, <3>7, <3>8, <3>9 DEF Synced
  <2> QED BY <2>2, <2>3
<1> QED BY <1>1, <1>2, <1>3, <1>4, <1>5, PassesKeepsPointers

(***************************************************************************)
(* A status: a pointer is decided on where one was owed, or where the      *)
(* board had missed the beginning or the end of a turn, and then one is    *)
(* missing that this one makes up for.                                     *)
(***************************************************************************)
LEMMA StatusKeepsPointers ==
    ASSUME Typed, Typed', LineInv, LineInv', PointerInv, NEW h \in Hooks, UpdateStatus(h)
    PROVE  PointerInv'
<1> DEFINE owed == Line[1].owed
<1>1. /\ Drops /\ Line[1] = hev[h] /\ UNCHANGED <<agent, place, due, pointers>> /\ h \in Underway
      /\ hev[h].kind = "status"
  <2>1. Updates(h)
    BY DEF Updates
  <2> QED BY <2>1, HandledDrops DEF LineInv, UpdateStatus
<1>2. PICK w \in Workers, s \in Statuses :
         /\ w = Line[1].who /\ s = Line[1].to /\ hacts[h] = <<>>
         /\ status' = [status EXCEPT ![w] = s]
         /\ \A i \in DOMAIN hacts'[h] : hacts'[h][i].do = "pointer" => hacts'[h][i].of = w
         /\ \A i, j \in DOMAIN hacts'[h] :
               hacts'[h][i].do = "pointer" /\ hacts'[h][j].do = "pointer" => i = j
         /\ OwesPointer(w, s) <=> \E i \in DOMAIN hacts'[h] : hacts'[h][i].do = "pointer"
         /\ \A g \in Hooks : g # h => hacts'[g] = hacts[g]
  BY <1>1, StatusList
<1>3. lost' = lost /\ UNCHANGED <<runLife, paneOf>> /\ runLife = "active"
  <2>1. runLife = "active"
    BY <1>1 DEF LineInv, EndedRests, Typed, HookTypeOK
  <2> QED BY <2>1 DEF UpdateStatus, Sweeps, Decides, counts
<1>4. /\ Tells(1, w) /\ Nearest(1, w) /\ \A v \in Workers : v # w => ~Tells(1, v)
      /\ \A v \in Workers : ~Moves(1, v)
      /\ 1 \in DOMAIN Line /\ status'[w] = s /\ \A v \in Workers : v # w => status'[v] = status[v]
  <2>1. 1 \in DOMAIN Line /\ \A i \in DOMAIN Line : 1 =< i
    BY <1>1 DEF Drops
  <2>2. status'[w] = s /\ \A v \in Workers : v # w => status'[v] = status[v]
    BY <1>2 DEF Typed, HookTypeOK
  <2>3. Line[1].kind = "status" /\ Line[1].who = w
    BY <1>1, <1>2
  <2>4. Tells(1, w) /\ \A v \in Workers : (v # w => ~Tells(1, v)) /\ ~Moves(1, v)
    BY <2>1, <2>3 DEF Tells, Moves
  <2>5. Nearest(1, w)
    BY <2>1, <2>4 DEF Tells, Nearest
  <2> QED BY <2>1, <2>2, <2>4, <2>5
<1>5. OneCarried'
  <2> SUFFICES ASSUME NEW g \in Hooks, NEW i \in DOMAIN hacts'[g], NEW j \in DOMAIN hacts'[g],
                      hacts'[g][i].do = "pointer", hacts'[g][j].do = "pointer"
               PROVE  i = j
    BY DEF OneCarried
  <2> QED BY <1>2 DEF PointerInv, OneCarried
<1>6. \A v \in Workers :
         /\ h \notin Carriers(v)
         /\ h \in Carriers(v)' <=> v = w /\ OwesPointer(w, s)
  BY <1>2 DEF Carriers, Holds
<1>7. /\ s = "blocked" => owed
      /\ owed => s # "working"
      /\ \A j \in Nat : Follows(1, j, w) => (Line[j].owed <=> s = "working")
      /\ Latest(1, w) => agent[w] \in {s, "gone"}
  BY <1>2, <1>4 DEF LineInv, Chained
<1>8. owed \in BOOLEAN
  <2>1. hev[h] \in SoundEvents
    BY <1>1 DEF Underway, Typed, Phased
  <2> QED BY <1>1, <2>1 DEF SoundEvents, Events
<1>9. /\ Missing(w) >= 0 /\ Missing(w) \in Int
      /\ status[w] = "working" /\ Missing(w) = 0 => owed
  <2>1. Missing(w) \in Int
    BY <1>2, Countable DEF LineInv
  <2> QED BY <1>2, <1>4, <2>1 DEF PointerInv, Slack
<1>10. OwesPointer(w, s) => owed \/ (status[w] = "working" /\ s # "working")
  BY <1>7 DEF OwesPointer, Resting
<1>11. \A v \in Workers :
          /\ ~owed => One(owed /\ w = v) = 0
          /\ v # w => One(owed /\ w = v) = 0
          /\ owed => One(owed /\ w = w) = 1
  BY DEF One
<1>12. Missing(w)' = Missing(w) + One(owed) - One(OwesPointer(w, s))
  <2>1. Missing(w)' = Missing(w) + One(owed /\ w = w)
           + Cardinality(Carriers(w)) - Cardinality(Carriers(w)')
    BY <1>1, <1>2, PassesCounts
  <2>2. Cardinality(Carriers(w)') =
           Cardinality(Carriers(w)) - One(h \in Carriers(w)) + One(h \in Carriers(w)')
    BY <1>2, CarriersChange DEF LineInv
  <2>3. One(h \in Carriers(w)) = 0 /\ One(h \in Carriers(w)') = One(OwesPointer(w, s))
    BY <1>2, <1>6 DEF One
  <2>4. One(owed /\ w = w) = One(owed) /\ One(owed) \in Nat /\ One(OwesPointer(w, s)) \in Nat
    BY DEF One
  <2>5. Cardinality(Carriers(w)) \in Nat
    BY <1>2, Countable DEF LineInv
  <2> QED BY <1>9, <2>1, <2>2, <2>3, <2>4, <2>5
<1>13. \A v \in Workers : v # w => Carriers(v)' = Carriers(v)
  <2>1. \A v \in Workers, g \in Hooks : v # w => (g \in Carriers(v)' <=> g \in Carriers(v))
    BY <1>2, <1>6 DEF Carriers, Holds
  <2> QED BY <2>1 DEF Carriers
<1>14. /\ \A i \in Nat : Nearest(i, w)' => i + 1 \in Nat /\ Follows(1, i + 1, w)
                                            /\ Line'[i] = Line[i + 1]
       /\ Silent(w)' => Latest(1, w)
  <2>1. /\ \A i \in Nat : Nearest(i, w)' => Follows(1, i + 1, w)
        /\ Silent(w)' => Latest(1, w)
    BY <1>1, <1>2, <1>4, DropsShift
  <2>2. \A i \in Nat : Nearest(i, w)' => Line'[i] = Line[i + 1]
    BY <1>1 DEF Nearest, Tells, Drops
  <2> QED BY <2>1, <2>2
<1> HIDE DEF owed
<1>15. Slack'
  <2> SUFFICES ASSUME NEW v \in Workers
               PROVE  /\ Missing(v)' >= 0
                      /\ status'[v] = "working" /\ Missing(v)' = 0 =>
                            /\ \A i \in Nat : Nearest(i, v)' => Line'[i].owed
                            /\ Silent(v)' => agent'[v] \in {"working", "gone"}
    BY DEF Slack
  <2>1. CASE v # w
    <3>1. UNCHANGED status[v] /\ Carriers(v)' = Carriers(v) /\ UNCHANGED <<agent, due, pointers>>
      BY <1>1, <1>4, <1>13, <2>1
    <3> QED BY <1>1, <3>1, PassesSlack
  <2>2. CASE v = w
    <3>1. Missing(w)' >= 0
      BY <1>8, <1>9, <1>10, <1>12 DEF One
    <3>2. s = "working" =>
             /\ \A i \in Nat : Nearest(i, w)' => Line'[i].owed
             /\ Silent(w)' => agent'[w] \in {"working", "gone"}
      BY <1>1, <1>7, <1>14
    <3> QED BY <1>4, <2>2, <3>1, <3>2
  <2> QED BY <2>1, <2>2
<1>16. KeepsUp'
  <2> SUFFICES ASSUME NEW v \in Workers, <<"pointer", v>> \notin lost
               PROVE  Missing(v)' = 0 /\ Synced(v)'
    BY <1>3 DEF KeepsUp
  <2>1. Missing(v) = 0 /\ Synced(v)
    BY <1>3 DEF PointerInv, KeepsUp
  <2>2. CASE v # w
    <3>1. UNCHANGED <<paneOf[v], status[v]>> /\ UNCHANGED status[v]
      BY <1>3, <1>4, <2>2
    <3>2. Synced(v)'
      BY <1>1, <1>4, <2>1, <2>2, <3>1, PassesSynced
    <3>3. Missing(v)' = Missing(v) + One(Line[1].owed /\ Line[1].who = v)
      BY <1>1, <1>13, <2>2, <3>1, PassesSlack
    <3>4. One(Line[1].owed /\ Line[1].who = v) = 0
      BY <1>2, <2>2 DEF One
    <3> QED BY <2>1, <3>2, <3>3, <3>4
  <2>3. CASE v = w
    <3>1. owed => OwesPointer(w, s)
      <4>1. owed /\ s # "blocked" => status[w] = "working"
        BY <1>2, <1>4, <2>1, <2>3 DEF Synced, owed
      <4>2. s \in Statuses
        BY <1>2
      <4> QED BY <1>7, <4>1, <4>2 DEF OwesPointer, Resting, Statuses
    <3>2. OwesPointer(w, s) => owed
      BY <1>9, <1>10, <2>1, <2>3
    <3>3. One(owed) = One(OwesPointer(w, s)) /\ One(owed) \in Nat
      BY <3>1, <3>2 DEF One
    <3>4. Missing(w)' = 0
      BY <1>12, <2>1, <2>3, <3>3
    <3>5. Synced(w)'
      <4>1. /\ \A i \in DOMAIN Line : Line[i].who = w =>
                  \/ Line[i].from = paneOf[w]
                  \/ \E j \in Nat : j < i /\ Moves(j, w)
            /\ place[w] = paneOf[w] \/ \E j \in Nat : Moves(j, w)
        BY <2>1, <2>3 DEF Synced
      <4>2. \A j \in Nat : Moves(j, w) => j - 1 \in Nat /\ Moves(j - 1, w)'
        <5>1. \A j \in Nat : Moves(j, w) => j >= 1 /\ j # 1
          BY <1>1, <1>2, <1>4 DEF Moves, Drops
        <5>2. \A i \in Nat : Moves(i, w)' <=> i >= 1 /\ Moves(i + 1, w)
          BY <1>1, <1>2, DropsShift
        <5> QED BY <5>1, <5>2
      <4>3. \A i \in DOMAIN Line' :
               Line'[i] = Line[i + 1] /\ i + 1 \in DOMAIN Line /\ i \in Nat
        BY <1>1 DEF Drops
      <4>4. \A i \in DOMAIN Line' : Line'[i].who = w =>
               \/ Line'[i].from = paneOf'[w]
               \/ \E j \in Nat : j < i /\ Moves(j, w)'
        <5> SUFFICES ASSUME NEW i \in DOMAIN Line', Line'[i].who = w
                     PROVE  \/ Line'[i].from = paneOf[w]
                            \/ \E j \in Nat : j < i /\ Moves(j, w)'
          BY <1>3
        <5>1. \/ Line'[i].from = paneOf[w]
              \/ \E j \in Nat : j < i + 1 /\ Moves(j, w)
          BY <4>1, <4>3
        <5> QED BY <4>2, <4>3, <5>1
      <4>5. place'[w] = paneOf'[w] \/ \E j \in Nat : Moves(j, w)'
        BY <1>1, <1>3, <4>1, <4>2
      <4>6. \A i \in Nat : Nearest(i, w)' /\ Line'[i].owed /\ Line'[i].to # "blocked" =>
               status'[w] = "working"
        BY <1>4, <1>7, <1>14
      <4>7. Silent(w)' /\ agent'[w] = "working" => status'[w] = "working"
        BY <1>1, <1>4, <1>7, <1>14
      <4> QED BY <4>4, <4>5, <4>6, <4>7 DEF Synced
    <3> QED BY <2>3, <3>4, <3>5
  <2> QED BY <2>2, <2>3
<1> QED BY <1>5, <1>15, <1>16 DEF PointerInv

-----------------------------------------------------------------------------
(* The pointers throughout. *)

(* A pointer that is typed is in hand no more; one that fails to be is lost. *)
LEMMA AloofKeepsPointers ==
    ASSUME Typed, Typed', LineInv, LineInv', PointerInv, NEW h \in Hooks, Aloof(h)
    PROVE  PointerInv'
<1>1. /\ UNCHANGED <<hev, events, agent, place, runLife, paneOf, status, due>>
      /\ \A g \in Hooks : g # h => hacts'[g] = hacts[g]
      /\ \A g \in Hooks : hpc[g] = "update" <=> hpc'[g] = "update"
  BY CallingShifts, FailureDrops DEF Aloof
<1>2. Line' = Line
  BY <1>1, LineStays DEF LineInv
<1>3. /\ DOMAIN hacts'[h] \subseteq Nat
      /\ \A i \in DOMAIN hacts'[h] : i + 1 \in DOMAIN hacts[h] /\ hacts'[h][i] = hacts[h][i + 1]
  <2>1. CASE Calling(h)
    BY <2>1, CallingShifts
  <2>2. CASE ActionFails(h)
    BY <2>2, FailureDrops
  <2> QED BY <2>1, <2>2 DEF Aloof
<1>4. OneCarried'
  <2> SUFFICES ASSUME NEW g \in Hooks, NEW i \in DOMAIN hacts'[g], NEW j \in DOMAIN hacts'[g],
                      hacts'[g][i].do = "pointer", hacts'[g][j].do = "pointer"
               PROVE  i = j
    BY DEF OneCarried
  <2>1. CASE g # h
    BY <1>1, <2>1 DEF PointerInv, OneCarried
  <2>2. CASE g = h
    <3>1. i + 1 = j + 1
      BY <1>3, <2>2 DEF PointerInv, OneCarried
    <3> QED BY <1>3, <2>2, <3>1
  <2> QED BY <2>1, <2>2
<1>5. ASSUME NEW w \in Workers
      PROVE  /\ Missing(w)' >= Missing(w)
             /\ <<"pointer", w>> \notin lost' =>
                   <<"pointer", w>> \notin lost /\ Missing(w)' = Missing(w)
  <2>1. /\ Cardinality(Owing(Line, w)) \in Nat /\ due[w] \in Nat /\ pointers[w] \in Nat
        /\ Cardinality(Carriers(w)) \in Nat /\ Missing(w) \in Int
    BY Countable DEF LineInv
  <2>2. Cardinality(Carriers(w)') =
           Cardinality(Carriers(w)) - One(h \in Carriers(w)) + One(h \in Carriers(w)')
    BY <1>1, CarriersChange DEF LineInv
  <2>3. /\ Missing(w)' =
              due[w] - pointers'[w] - Cardinality(Carriers(w)') - Cardinality(Owing(Line, w))
        /\ Missing(w) =
              due[w] - pointers[w] - Cardinality(Carriers(w)) - Cardinality(Owing(Line, w))
    BY <1>1, <1>2 DEF Missing, Owing
  <2>4. h \in Carriers(w)' => h \in Carriers(w)
    BY <1>3 DEF Carriers, Holds
  <2>5. CASE ActionFails(h)
    <3>1. pointers' = pointers /\ h \notin Carriers(w)' /\ lost \subseteq lost'
      BY <2>5, FailureDrops DEF Carriers, Holds
    <3>2. h \in Carriers(w) => <<"pointer", w>> \in lost'
      BY <2>5, FailureDrops DEF Carriers, Holds
    <3>3. One(h \in Carriers(w)') = 0 /\ One(h \in Carriers(w)) \in Nat
          /\ (h \notin Carriers(w) => One(h \in Carriers(w)) = 0)
      BY <3>1 DEF One
    <3> QED BY <2>1, <2>2, <2>3, <3>1, <3>2, <3>3
  <2>6. CASE Calling(h)
    <3> DEFINE typed == Now(h).do = "pointer" /\ Now(h).of = w
    <3>1. /\ DOMAIN hacts'[h] = 1..(Len(hacts[h]) - 1)
          /\ DOMAIN hacts[h] = 1..Len(hacts[h]) /\ Len(hacts[h]) \in Nat \ {0}
          /\ \A i \in DOMAIN hacts'[h] : hacts'[h][i] = hacts[h][i + 1]
          /\ Now(h) = hacts[h][1] /\ lost' = lost
      BY <2>6, CallingShifts
    <3>2. CASE typed
      <4>1. InjectPointer(h) /\ pointers'[w] = pointers[w] + 1
        <5>1. InjectPointer(h)
          BY <2>6, <3>2, KeysAre DEF Calling, DrainOutbox, PublishMetadata, ShowNotification
        <5>2. pointers \in [Workers -> Nat]
          BY DEF Typed, HookTypeOK
        <5> QED BY <3>2, <5>1, <5>2 DEF InjectPointer
      <4>2. h \in Carriers(w)
        BY <3>1, <3>2 DEF Carriers, Holds
      <4>3. h \notin Carriers(w)'
        BY <3>1, <3>2 DEF Carriers, Holds, PointerInv, OneCarried
      <4>4. One(h \in Carriers(w)) = 1 /\ One(h \in Carriers(w)') = 0
        BY <4>2, <4>3 DEF One
      <4>5. Missing(w)' = Missing(w)
        BY <2>1, <2>2, <2>3, <4>1, <4>4
      <4> QED BY <2>1, <3>1, <4>5
    <3>3. CASE ~typed
      <4>1. pointers'[w] = pointers[w]
        <5>1. pointers \in [Workers -> Nat]
          BY DEF Typed, HookTypeOK
        <5> QED BY <2>6, <3>3, <5>1
               DEF Calling, DrainOutbox, PublishMetadata, ShowNotification, InjectPointer
      <4>2. h \in Carriers(w) => h \in Carriers(w)'
        <5>1. \A i \in DOMAIN hacts[h] :
                 i = 1 \/ (i - 1 \in DOMAIN hacts'[h] /\ hacts'[h][i - 1] = hacts[h][i])
          BY <3>1
        <5> QED BY <3>1, <3>3, <5>1 DEF Carriers, Holds
      <4>3. One(h \in Carriers(w)') = One(h \in Carriers(w)) /\ One(h \in Carriers(w)) \in Nat
        BY <2>4, <4>2 DEF One
      <4>4. Missing(w)' = Missing(w)
        BY <2>1, <2>2, <2>3, <4>1, <4>3
      <4> QED BY <2>1, <3>1, <4>4
    <3> QED BY <3>2, <3>3
  <2> QED BY <2>5, <2>6 DEF Aloof
<1> QED BY <1>1, <1>2, <1>4, <1>5, StaysKeepsPointers

(* Nothing else counts for the pointers. *)
LEMMA RestKeepsPointers ==
    ASSUME Typed, Typed', LineInv, LineInv', PointerInv, Line' = Line,
           UNCHANGED <<agent, place, paneOf, status, runLife, due, pointers, hacts>>,
           \A w \in Workers : <<"pointer", w>> \in lost' <=> <<"pointer", w>> \in lost
    PROVE  PointerInv'
<1>1. OneCarried' /\ \A w \in Workers : Carriers(w)' = Carriers(w)
  BY DEF PointerInv, OneCarried, Carriers, Holds
<1>2. \A w \in Workers : Missing(w)' = Missing(w) /\ Missing(w) \in Int
  BY <1>1, Countable DEF Missing, Owing, LineInv
<1>3. \A w \in Workers :
         /\ Missing(w)' >= Missing(w)
         /\ <<"pointer", w>> \notin lost' =>
               <<"pointer", w>> \notin lost /\ Missing(w)' = Missing(w)
  <2> SUFFICES ASSUME NEW w \in Workers
               PROVE  /\ Missing(w)' >= Missing(w)
                      /\ <<"pointer", w>> \notin lost' =>
                            <<"pointer", w>> \notin lost /\ Missing(w)' = Missing(w)
    OBVIOUS
  <2>1. Missing(w)' = Missing(w) /\ Missing(w)' >= Missing(w)
    BY <1>2
  <2> QED BY <2>1
<1> QED BY <1>1, <1>3, StaysKeepsPointers

LEMMA PointersKept ==
    ASSUME Ordered, Typed, Typed', LineInv, LineInv', PointerInv, [HookNext]_hookVars
    PROVE  PointerInv'
<1>1. ASSUME NEW h \in Hooks, HookStarts(h) PROVE PointerInv'
  <2>1. CASE runLife = "active"
    <3>1. Line' = Line /\ lost' = lost
      BY <1>1, <2>1, StartsLine DEF LineInv
    <3>2. UNCHANGED <<agent, place, paneOf, status, runLife, due, pointers, hacts>>
      BY <1>1 DEF HookStarts, board
    <3> QED BY <3>1, <3>2, RestKeepsPointers
  <2>2. CASE runLife # "active"
    BY <1>1, <2>2, DroppedKeepsPointers
  <2> QED BY <2>1, <2>2
<1>2. ASSUME NEW h \in Hooks, Updates(h) PROVE PointerInv'
  BY <1>2, StatusKeepsPointers, OtherKeepsPointers DEF Updates
<1>3. ASSUME NEW h \in Hooks, UpdateUnmatched(h) \/ UpdateFails(h) PROVE PointerInv'
  BY <1>3, DroppedKeepsPointers
<1>4. ASSUME NEW h \in Hooks, Aloof(h) PROVE PointerInv'
  BY <1>4, AloofKeepsPointers
<1>5. CASE Apart
  <2>1. /\ UNCHANGED <<hpc, hev, events, agent, place, runLife, paneOf, status>>
        /\ UNCHANGED <<due, pointers, hacts>>
        /\ \A w \in Workers : <<"pointer", w>> \in lost' <=> <<"pointer", w>> \in lost
    BY <1>5, ApartLeaves
  <2>2. Line' = Line
    BY <2>1, LineStays DEF LineInv
  <2> QED BY <2>1, <2>2, RestKeepsPointers
<1>6. CASE \/ \E w \in Workers, s \in Statuses : AgentChanges(w, s)
           \/ \E a \in Agents : AgentExits(a) \/ PaneMoves(a)
  <2>1. PICK e \in SoundEvents : Grows(e) /\ Emission(e)
    BY <1>6, HerdrEmits DEF LineInv
  <2>2. UNCHANGED <<hacts, paneOf, pointers, status, runLife, lost>>
    BY <1>6, HerdrEmits DEF LineInv
  <2> QED BY <2>1, <2>2, EmissionKeepsPointers
<1> QED BY <1>1, <1>2, <1>3, <1>4, <1>5, <1>6
       DEF HookNext, HookStep, Updates, Aloof, Apart, Calling

LEMMA InitPointers == HookInit => PointerInv
<1> SUFFICES ASSUME HookInit PROVE PointerInv
  OBVIOUS
<1>1. Line = <<>>
  BY DEF HookInit, Underway, Line
<1>2. \A i \in Nat, w \in Workers : ~Tells(i, w) /\ ~Moves(i, w)
  BY <1>1 DEF Tells, Moves
<1>3. OneCarried /\ \A w \in Workers : Carriers(w) = {} /\ Owing(Line, w) = {}
  BY <1>1 DEF HookInit, OneCarried, Carriers, Holds, Owing
<1>4. \A w \in Workers : Missing(w) = 0
  <2> SUFFICES ASSUME NEW w \in Workers PROVE Missing(w) = 0
    OBVIOUS
  <2>1. Cardinality(Carriers(w)) = 0 /\ Cardinality(Owing(Line, w)) = 0
    BY <1>3, FS_EmptySet
  <2>2. due[w] = 0 /\ pointers[w] = 0
    BY DEF HookInit
  <2> QED BY <2>1, <2>2 DEF Missing
<1>5. \A w \in Workers : Synced(w)
  BY <1>1, <1>2 DEF HookInit, Synced, Nearest, Agents
<1>6. Slack
  <2>1. \A w \in Workers : status[w] # "working"
    BY HookAssumption DEF HookInit, Statuses
  <2> QED BY <1>4, <2>1 DEF Slack
<1>7. KeepsUp
  BY <1>4, <1>5 DEF KeepsUp
<1> QED BY <1>3, <1>6, <1>7 DEF PointerInv

(* What the line owes is what the events owe and the hook that has one. *)
LEMMA LineOwes ==
    ASSUME Typed, OneUpdate, NEW w \in Workers
    PROVE  Cardinality(Owing(Line, w)) =
               Cardinality({i \in DOMAIN events : events[i].owed /\ events[i].who = w})
               + Cardinality({h \in Hooks : hpc[h] = "update" /\ hev[h].owed /\ hev[h].who = w})
<1> DEFINE taking == {h \in Hooks : hpc[h] = "update" /\ hev[h].owed /\ hev[h].who = w}
           E == Owing(events, w)
           S == Owing(Line, w)
<1>1. LineShape /\ events \in Seq(SoundEvents)
  <2>1. events \in Seq(Events) /\ \A i \in DOMAIN events : events[i] \in SoundEvents
    BY DEF Typed, HookTypeOK, Phased
  <2> QED BY <2>1, SeqDef, LineShaped
<1>2. IsFiniteSet(E) /\ Cardinality(E) \in Nat
  <2>1. DOMAIN events = 1..Len(events) /\ 1 \in Int /\ Len(events) \in Int
    BY <1>1
  <2>2. IsFiniteSet(DOMAIN events) /\ E \in SUBSET DOMAIN events
    BY <2>1, FS_Interval DEF Owing
  <2> QED BY <2>2, FS_Subset, FS_CardinalityType
<1>3. CASE Underway = {}
  <2>1. taking = {} /\ S = E
    BY <1>1, <1>3 DEF Underway, LineShape
  <2> HIDE DEF taking, S, E
  <2>2. Cardinality(S) = Cardinality(E) + Cardinality(taking)
    BY <1>2, <2>1, FS_EmptySet
  <2> QED BY <2>2 DEF Owing, taking, S, E
<1>4. ASSUME NEW h \in Underway PROVE Cardinality(S) = Cardinality(E) + Cardinality(taking)
  <2>1. Underway = {h} /\ hev[h] \in SoundEvents /\ Line = <<hev[h]>> \o events
    BY <1>1, <1>4 DEF OneUpdate, LineShape, Underway, Typed, Phased
  <2>2. /\ <<hev[h]>> \in Seq(SoundEvents) /\ Len(<<hev[h]>>) = 1 /\ <<hev[h]>>[1] = hev[h]
        /\ Len(events) \in Nat /\ DOMAIN events = 1..Len(events)
    BY <1>1, <2>1
  <2>3. /\ DOMAIN Line = 1..(1 + Len(events))
        /\ \A i \in 1..(1 + Len(events)) : Line[i] = IF i =< 1 THEN hev[h] ELSE events[i - 1]
    <3>1. LET L == <<hev[h]>> \o events IN
          /\ L \in Seq(SoundEvents) /\ Len(L) = 1 + Len(events)
          /\ \A i \in 1..(1 + Len(events)) :
                L[i] = IF i =< 1 THEN <<hev[h]>>[i] ELSE events[i - 1]
      BY <1>1, <2>2, ConcatProperties
    <3> QED BY <2>1, <2>2, <3>1
  <2> DEFINE f == [i \in E |-> i + 1]
  <2>4. \A i \in S \ {1} : i - 1 \in E /\ i - 1 + 1 = i
    BY <2>2, <2>3 DEF Owing
  <2>5. \A i \in E : i + 1 \in S \ {1} /\ i \in Nat
    BY <2>2, <2>3 DEF Owing
  <2>6. 1 \in S <=> hev[h].owed /\ hev[h].who = w
    BY <2>2, <2>3 DEF Owing
  <2>7. IsFiniteSet(S) /\ Cardinality(S) \in Nat
    BY Countable
  <2> HIDE DEF S, E
  <2>8. f \in Bijection(E, S \ {1})
    <3>1. f \in [E -> S \ {1}]
      BY <2>5
    <3>2. \A i, j \in E : f[i] = f[j] => i = j
      BY <2>5
    <3>3. \A i \in S \ {1} : \E j \in E : f[j] = i
      BY <2>4
    <3> QED BY <3>1, <3>2, <3>3 DEF Bijection, Injection, Surjection, IsInjective
  <2>9. Cardinality(S \ {1}) = Cardinality(E)
    BY <1>2, <2>8, FS_Bijection DEF ExistsBijection
  <2>10. Cardinality(S \ {1}) = IF 1 \in S THEN Cardinality(S) - 1 ELSE Cardinality(S)
    BY <2>7, FS_RemoveElement
  <2>11. Cardinality(taking) = IF 1 \in S THEN 1 ELSE 0
    <3>1. CASE 1 \in S
      <4>1. taking = {h}
        BY <2>1, <2>6, <3>1 DEF Underway
      <4> QED BY <3>1, <4>1, FS_Singleton
    <3>2. CASE 1 \notin S
      <4>1. taking = {}
        BY <2>1, <2>6, <3>2 DEF Underway
      <4> QED BY <3>2, <4>1, FS_EmptySet
    <3> QED BY <3>1, <3>2
  <2> QED BY <1>2, <2>7, <2>9, <2>10, <2>11
<1>5. CASE Underway # {}
  BY <1>4, <1>5 DEF Owing
<1> QED BY <1>3, <1>5

(***************************************************************************)
(* The god gets one pointer for each time an agent is blocked or finishes  *)
(* a turn, for any number of workers and hooks, as long as no update       *)
(* overtakes another: none twice, and none missing that no failure took    *)
(* (reconcile.rs, the agent status event).                                 *)
(***************************************************************************)
THEOREM PointersAreDue ==
    ASSUME Ordered
    PROVE  HookSpec => []OnePointerEach
<1>1. Typed /\ Typed' /\ LineInv /\ PointerInv /\ [HookNext]_hookVars => LineInv' /\ PointerInv'
  BY Ordered, LineKept, PointersKept
<1>2. Typed /\ LineInv /\ PointerInv => OnePointerEach
  <2> SUFFICES ASSUME Typed, LineInv, PointerInv, NEW w \in Workers
               PROVE  LET got == pointers[w] + Cardinality({h \in Hooks : Holds(h, "pointer", w)})
                          coming == Cardinality({i \in DOMAIN events :
                                                    events[i].owed /\ events[i].who = w})
                                    + Cardinality({h \in Hooks :
                                        hpc[h] = "update" /\ hev[h].owed /\ hev[h].who = w})
                      IN /\ got + coming =< due[w]
                         /\ got + coming = due[w] \/ <<"pointer", w>> \in lost
    BY DEF OnePointerEach
  <2> DEFINE got == pointers[w] + Cardinality({h \in Hooks : Holds(h, "pointer", w)})
             coming == Cardinality({i \in DOMAIN events : events[i].owed /\ events[i].who = w})
                       + Cardinality({h \in Hooks :
                                         hpc[h] = "update" /\ hev[h].owed /\ hev[h].who = w})
  <2>1. coming = Cardinality(Owing(Line, w))
    BY LineOwes DEF LineInv
  <2>2. got = pointers[w] + Cardinality(Carriers(w))
    BY DEF Carriers
  <2>3. /\ Cardinality(Owing(Line, w)) \in Nat /\ due[w] \in Nat /\ pointers[w] \in Nat
        /\ Cardinality(Carriers(w)) \in Nat
    BY Countable DEF LineInv
  <2>4. Missing(w) >= 0 /\ (<<"pointer", w>> \notin lost => Missing(w) = 0)
    BY DEF PointerInv, Slack, KeepsUp
  <2> HIDE DEF got, coming
  <2>5. got + coming =< due[w] /\ (got + coming = due[w] \/ <<"pointer", w>> \in lost)
    BY <2>1, <2>2, <2>3, <2>4 DEF Missing
  <2> QED BY <2>5 DEF got, coming
<1> QED BY <1>1, <1>2, InitLine, InitPointers, TypedThroughout, PTL DEF HookSpec
=============================================================================
