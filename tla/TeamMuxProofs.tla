--------------------------- MODULE TeamMuxProofs ----------------------------
(***************************************************************************)
(* What TeamMux says of the ids of the table, for any number of shims,     *)
(* panes and calls, whatever processes overlap, fail or die.               *)
(*                                                                         *)
(* Then what the parser makes of a line, for lines of any length.          *)
(***************************************************************************)
EXTENDS TeamMux, TLAPS, WellFoundedInduction

-----------------------------------------------------------------------------
(* The invariant. *)

CallsTyped ==
    [pc : {"off", "load", "call", "register", "list", "deregister"}, kind : Kinds,
     id : Names, snap : {<<>>} \cup [Names -> Panes \cup {None}], pane : Panes \cup {None},
     todo : SUBSET Panes, out : SUBSET (Names \X Panes)]

Typed ==
    /\ table \in [Names -> Panes \cup {None}]
    /\ lpc \in [Launches ->
                   {"off", "pane", "window", "unlink", "link", "lead", "failed", "torn"}]
    /\ call \in [Shims -> CallsTyped]
    /\ panes \in [Panes -> {"none", "open", "closed"}]
    /\ held \subseteq Names \X Panes
    /\ killed \subseteq Panes

(* In which phase a call has what. *)
Phased ==
    \A p \in Shims :
        /\ call[p].pc = "register" => call[p].kind = "split" /\ call[p].pane \in Panes
        /\ call[p].pc = "deregister" => call[p].kind = "kill" /\ call[p].pane \in Panes
        /\ call[p].pc = "list" => call[p].kind = "list"
        /\ call[p].pc # "list" => call[p].todo = {} /\ call[p].out = {}
        /\ call[p].pc = "call" /\ call[p].kind \in {"split", "kill"} => call[p].pane \in Panes

(* The shim runs only in a lead whose table is seeded. *)
Seeded ==
    /\ lpc[Own] # "lead" => \A p \in Shims : call[p].pc = "off"
    /\ lpc[Own] = "off" =>
          held = {<<0, 0>>} /\ killed = {} /\ \A n \in Names : table[n] = None

(* Ids resolve from the moment the table is seeded. *)
Resolves ==
    lpc[Own] \in {"window", "unlink", "link", "lead"} =>
        \A h \in held \ crossed : table[h[1]] = h[2]

(* Only panes that were open are spoken of, and killed ones stay closed. *)
Opened ==
    /\ panes[0] # "none"
    /\ \A n \in Names : table[n] # None => panes[table[n]] # "none"
    /\ \A q \in killed : panes[q] = "closed"
    /\ \A p \in Shims : call[p].pc = "register" => panes[call[p].pane] # "none"
    /\ \A p \in Shims : call[p].pc = "deregister" => panes[call[p].pane] = "closed"
    /\ \A p \in Shims, q \in Panes : q \in call[p].todo => panes[q] # "none"

(* Nobody has registered the pane, or it is one of the panes that two meant to. *)
Unregistered(q) == q \notin killed /\ \A n \in Names : table[n] # q
MayRegister(q) == q \in contested \/ Unregistered(q)

(* What a split is about to register is its own, but for lists. *)
Fresh ==
    \A p \in Shims : call[p].pc = "register" =>
        /\ MayRegister(call[p].pane)
        /\ \A o \in Shims : o # p /\ call[o].pc = "register" => call[o].pane # call[p].pane

(* What a list will not find in its table is not in the one there is, or gone. *)
Missed ==
    \A p \in Shims, q \in Panes : MayMiss(p, q) =>
        MayRegister(q) \/ (call[p].pc = "call" /\ panes[q] = "closed")

(* One kill closes a pane, and its entry is there until this kill removes it. *)
KillAims ==
    \A p \in Shims : call[p].pc # "off" /\ call[p].kind = "kill" =>
        /\ \A h \in held \ crossed : h[1] # call[p].id
        /\ call[p].pc = "call" /\ panes[call[p].pane] # "closed" =>
              table[call[p].id] = call[p].pane
        /\ call[p].pc = "deregister" =>
              /\ table[call[p].id] = call[p].pane
              /\ \A o \in Shims : o # p /\ call[o].pc = "deregister" =>
                    call[o].pane # call[p].pane

(* What a list found is in the table, or has crossed its kill. *)
Listed ==
    \A p \in Shims :
        /\ \A h \in call[p].out : table[h[1]] = h[2] \/ h \in crossed
        /\ call[p].kind = "list" /\ call[p].pc = "call" =>
              \A n \in Names, q \in Panes :
                  call[p].snap[n] = q => table[n] = q \/ <<n, q>> \in crossed

IInv ==
    /\ Typed /\ Phased /\ Seeded /\ Resolves /\ Opened /\ Fresh /\ Missed /\ KillAims /\ Listed
    /\ OneIdPerPane /\ KilledIsGone

-----------------------------------------------------------------------------
(* Numbers. *)

(* A set of naturals has a least element. *)
LEMMA LeastExists ==
    ASSUME NEW S, S \subseteq Nat, S # {}
    PROVE  \E r \in S : \A q \in S : r =< q
<1> DEFINE Less == OpToRel(<, Nat)
<1>1. IsWellFoundedOn(Less, Nat)
  BY NatLessThanWellFounded, Zenon
<1> HIDE DEF Less
<1>2. PICK r \in S : \A q \in S : <<q, r>> \notin Less
  BY <1>1, WFMin
<1>3. \A q \in S : ~(q < r)
  BY <1>2 DEF Less, OpToRel
<1> QED BY <1>2, <1>3

(* The pane that opens is one that has not been there yet. *)
LEMMA NewPaneIsNone ==
    ASSUME \E q \in Panes : panes[q] = "none"
    PROVE  NewPane \in Panes /\ panes[NewPane] = "none"
<1> DEFINE S == {q \in Panes : panes[q] = "none"}
<1>1. S \subseteq Nat /\ S # {}
  BY TeamMuxAssumption DEF Panes
<1>2. PICK r \in S : \A q \in S : r =< q
  BY <1>1, LeastExists
<1>3. \E q \in Panes : panes[q] = "none" /\ \A x \in Panes : panes[x] = "none" => q =< x
  BY <1>2
<1> QED BY <1>3 DEF NewPane

(* A pane for which reverse_lookup finds no id has none. *)
LEMMA NoIds ==
    ASSUME NEW t, NEW q, IdsOf(t, q) = {}
    PROVE  \A n \in Names : t[n] # q
<1> DEFINE here == {n \in Names : t[n] = q}
<1>1. SUFFICES ASSUME here # {} PROVE FALSE
  OBVIOUS
<1>2. here \subseteq Nat
  BY TeamMuxAssumption DEF Names
<1>3. PICK n \in here : \A m \in here : n =< m
  BY <1>1, <1>2, LeastExists
<1>4. n \in IdsOf(t, q)
  BY <1>3 DEF IdsOf
<1> QED BY <1>4

(* The next id is larger than those in the table. *)
LEMMA NextIsLarger ==
    ASSUME Typed
    PROVE  \A n \in Names : table[n] # None => n < NextId(table)
<1> DEFINE Used == {n \in Names : table[n] # None}
           Room == {MaxId - n : n \in Used}
<1>1. MaxId \in Nat /\ Used \subseteq 0..MaxId
  BY TeamMuxAssumption DEF Names
<1>2. CASE Used = {}
  BY <1>2
<1>3. CASE Used # {}
  <2>1. Room \subseteq Nat /\ Room # {}
    BY <1>1, <1>3
  <2>2. PICK r \in Room : \A q \in Room : r =< q
    BY <2>1, LeastExists
  <2>3. PICK x \in Used : r = MaxId - x
    BY <2>2
  <2>4. ASSUME NEW y \in Used PROVE y =< x
    <3>1. MaxId - y \in Room /\ r =< MaxId - y
      BY <2>2
    <3>2. x \in Nat /\ y \in Nat
      BY <1>1
    <3> QED BY <1>1, <2>3, <3>1, <3>2
  <2> DEFINE top == CHOOSE n \in Used : \A m \in Used : m =< n
  <2>5. top \in Used /\ \A m \in Used : m =< top
    BY <2>4
  <2>6. NextId(table) = 1 + top
    BY <1>3 DEF NextId
  <2>7. top \in Nat
    BY <1>1, <2>5
  <2> HIDE DEF top
  <2>8. ASSUME NEW n \in Names, table[n] # None PROVE n < NextId(table)
    <3>1. n \in Used /\ n \in Nat
      BY <2>8, <1>1
    <3> QED BY <3>1, <2>5, <2>6, <2>7
  <2> QED BY <2>8
<1> QED BY <1>2, <1>3

(* What a pane is registered under is free, and two ids are for contested panes. *)
LEMMA Registering ==
    ASSUME Typed, OneIdPerPane, KilledIsGone, NEW p \in Shims, NEW q \in Panes, MayRegister(q),
           Registers(p, NextId(table), q), killed' = killed
    PROVE  /\ NextId(table) \in Names /\ table[NextId(table)] = None
           /\ table' \in [Names -> Panes \cup {None}]
           /\ table'[NextId(table)] = q
           /\ \A n \in Names \ {NextId(table)} : table'[n] = table[n]
           /\ contested \subseteq contested'
           /\ OneIdPerPane' /\ KilledIsGone'
<1> DEFINE k == NextId(table)
<1>1. k \in Names /\ table' = [table EXCEPT ![k] = q] /\ contested \subseteq contested'
  BY DEF Registers
<1>2. table[k] = None
  <2>1. table[k] # None => k < k
    BY <1>1, NextIsLarger
  <2>2. k \in Nat
    BY <1>1, TeamMuxAssumption DEF Names
  <2> HIDE DEF k
  <2> QED BY <2>1, <2>2
<1>3. /\ table' \in [Names -> Panes \cup {None}]
      /\ table'[k] = q /\ \A n \in Names \ {k} : table'[n] = table[n]
  BY <1>1 DEF Typed
<1> HIDE DEF k
<1>4. q \notin contested => q \notin killed /\ \A n \in Names : table[n] # q
  BY DEF MayRegister, Unregistered
<1>5. OneIdPerPane'
  BY <1>1, <1>3, <1>4 DEF OneIdPerPane
<1>6. KilledIsGone'
  BY <1>1, <1>3, <1>4 DEF KilledIsGone
<1> QED BY <1>1, <1>2, <1>3, <1>5, <1>6 DEF k

-----------------------------------------------------------------------------
(* The steps, one lemma for each that does something of its own. *)

(* What depends on the table alone. *)
LEMMA TableKept ==
    ASSUME OneIdPerPane, KilledIsGone, UNCHANGED <<table, killed, contested>>
    PROVE  OneIdPerPane' /\ KilledIsGone'
BY DEF OneIdPerPane, KilledIsGone

(* Nothing is registered or killed, so the panes that may be stay so. *)
LEMMA MayRegisterKept ==
    ASSUME UNCHANGED <<table, killed, contested>>
    PROVE  \A q : MayRegister(q)' <=> MayRegister(q)
BY DEF MayRegister, Unregistered

(* The launches but for the seed change where a launch is. *)
LEMMA LaunchKeeps ==
    ASSUME IInv, NEW l \in Launches,
           SeedWindow \/ OtherLaunch(l) \/ Unlink(l) \/ MakeLink(l) \/ LaunchFails(l)
    PROVE  IInv'
<1>1. UNCHANGED <<table, call, panes, held, killed, contested, crossed>>
  BY DEF SeedWindow, OtherLaunch, Unlink, MakeLink, LaunchFails, LaunchGoes, herdr, past
<1>2. /\ lpc' \in [Launches ->
                     {"off", "pane", "window", "unlink", "link", "lead", "failed", "torn"}]
      /\ \/ lpc'[Own] = lpc[Own]
         \/ lpc[Own] = "window" /\ lpc'[Own] = "unlink"
         \/ lpc[Own] = "unlink" /\ lpc'[Own] = "link"
         \/ lpc[Own] = "link" /\ lpc'[Own] \in {"lead", "failed"}
         \/ lpc[Own] \in {"window", "unlink", "link"} /\ lpc'[Own] \in {"failed", "torn"}
  BY DEF IInv, Typed, Launches,
         SeedWindow, OtherLaunch, Unlink, MakeLink, LaunchFails, LaunchGoes
<1>3. Typed'
  BY <1>1, <1>2 DEF IInv, Typed
<1>4. Seeded' /\ Resolves'
  BY <1>1, <1>2 DEF IInv, Seeded, Resolves
<1>5. Phased' /\ Opened' /\ KillAims' /\ Listed'
  BY <1>1 DEF IInv, Phased, Opened, KillAims, Listed
<1>6. Fresh' /\ Missed'
  BY <1>1 DEF IInv, Fresh, Missed, MayMiss, MayRegister, Unregistered
<1>7. OneIdPerPane' /\ KilledIsGone'
  BY <1>1, TableKept DEF IInv
<1> QED BY <1>3, <1>4, <1>5, <1>6, <1>7 DEF IInv

(* The seed finds the table empty, and nothing running or killed. *)
LEMMA SeedPaneKeeps == ASSUME IInv, SeedPane PROVE IInv'
<1>1. /\ table' = [table EXCEPT ![0] = 0]
      /\ UNCHANGED <<call, panes, held, killed, contested, crossed>>
      /\ lpc[Own] = "off" /\ lpc' = [lpc EXCEPT ![Own] = "window"]
  BY DEF SeedPane, LaunchGoes, herdr, past
<1>2. /\ Own \in Launches /\ 0 \in Panes /\ 0 \in Names /\ None \notin Panes
  BY TeamMuxAssumption DEF Launches, Panes, Names
<1>3. /\ \A p \in Shims : call[p].pc = "off"
      /\ held = {<<0, 0>>} /\ killed = {} /\ \A n \in Names : table[n] = None
  BY <1>1 DEF IInv, Seeded
<1>4. Typed'
  BY <1>1, <1>2 DEF IInv, Typed
<1>5. lpc'[Own] = "window"
  BY <1>1, <1>2 DEF IInv, Typed
<1>6. table' \in [Names -> Panes \cup {None}] /\ table'[0] = 0
      /\ \A n \in Names : n # 0 => table'[n] = None
  BY <1>1, <1>2, <1>3, <1>4 DEF IInv, Typed
<1>7. Seeded' /\ Resolves' /\ OneIdPerPane'
  BY <1>1, <1>3, <1>5, <1>6 DEF Seeded, Resolves, OneIdPerPane
<1>8. \A p \in Shims : call[p].todo = {} /\ call[p].out = {}
  BY <1>3 DEF IInv, Phased
<1>9. Phased' /\ Fresh' /\ Missed' /\ KillAims' /\ Listed'
  BY <1>1, <1>3, <1>8 DEF IInv, Phased, Fresh, Missed, MayMiss, KillAims, Listed
<1>10. Opened'
  BY <1>1, <1>2, <1>6 DEF IInv, Opened
<1>11. KilledIsGone'
  BY <1>1, <1>3 DEF KilledIsGone
<1> QED BY <1>4, <1>7, <1>9, <1>10, <1>11 DEF IInv

(* People open panes that were not there and close panes that the table may have. *)
LEMMA PeopleKeep ==
    ASSUME IInv, (\E b \in BOOLEAN : PaneOpens(b)) \/ (\E q \in Panes : PaneCloses(q))
    PROVE  IInv'
<1>1. UNCHANGED <<table, lpc, call, held, killed, contested, crossed>>
  BY DEF PaneOpens, PaneCloses, launch, past
<1>2. /\ panes' \in [Panes -> {"none", "open", "closed"}]
      /\ \A q \in Panes : /\ panes[q] # "none" => panes'[q] # "none"
                          /\ panes[q] = "closed" => panes'[q] = "closed"
                          /\ panes'[q] = "open" => panes[q] \in {"open", "none"}
  BY NewPaneIsNone DEF IInv, Typed, PaneOpens, Opens, PaneCloses
<1>3. Typed'
  BY <1>1, <1>2 DEF IInv, Typed
<1>4. 0 \in Panes
  BY TeamMuxAssumption DEF Panes
<1>5. Opened'
  <2>1. /\ \A p \in Shims : call[p].pc \in {"register", "deregister"} => call[p].pane \in Panes
        /\ \A n \in Names : table[n] # None => table[n] \in Panes
        /\ killed \subseteq Panes
    BY DEF IInv, Typed, Phased
  <2> QED BY <1>1, <1>2, <1>4, <2>1 DEF IInv, Opened
<1>6. Phased' /\ Seeded' /\ Resolves' /\ Listed'
  BY <1>1 DEF IInv, Phased, Seeded, Resolves, Listed
<1>7. Fresh' /\ Missed'
  BY <1>1, <1>2 DEF IInv, Fresh, Missed, MayMiss, MayRegister, Unregistered
<1>8. KillAims'
  BY <1>1, <1>2 DEF IInv, KillAims, Phased
<1>9. OneIdPerPane' /\ KilledIsGone'
  BY <1>1, TableKept DEF IInv
<1> QED BY <1>3, <1>5, <1>6, <1>7, <1>8, <1>9 DEF IInv

(* A call that starts has nothing yet; a kill gives its id up. *)
LEMMA StartCallKeeps ==
    ASSUME IInv, NEW p \in Shims, NEW k \in Kinds, NEW n \in Names, StartCall(p, k, n)
    PROVE  IInv'
<1> DEFINE c == [Idle EXCEPT !.pc = "load", !.kind = k, !.id = n]
<1>1. /\ UNCHANGED <<table, lpc, panes, killed, contested, crossed>>
      /\ call' = [call EXCEPT ![p] = c]
      /\ lpc[Own] = "lead" /\ held' \subseteq held
      /\ k = "kill" => \A h \in held' : h[1] # n
  BY DEF StartCall, launch, herdr, past
<1>2. /\ c.pc = "load" /\ c.kind = k /\ c.id = n /\ c \in CallsTyped /\ c.todo = {} /\ c.out = {}
  BY DEF Idle, CallsTyped
<1>3. call' \in [Shims -> CallsTyped] /\ call'[p] = c /\ \A o \in Shims \ {p} : call'[o] = call[o]
  BY <1>1, <1>2 DEF IInv, Typed
<1> HIDE DEF c
<1>4. Typed'
  BY <1>1, <1>3 DEF IInv, Typed
<1>5. Phased' /\ Listed'
  BY <1>1, <1>2, <1>3 DEF IInv, Phased, Listed
<1>6. Fresh' /\ Missed'
  BY <1>1, <1>2, <1>3 DEF IInv, Fresh, Missed, MayMiss, MayRegister, Unregistered
<1>7. Opened'
  BY <1>1, <1>2, <1>3 DEF IInv, Opened
<1>8. Seeded' /\ Resolves'
  BY <1>1 DEF IInv, Seeded, Resolves
<1>9. KillAims'
  BY <1>1, <1>2, <1>3 DEF IInv, KillAims
<1>10. OneIdPerPane' /\ KilledIsGone'
  BY <1>1, TableKept DEF IInv
<1> QED BY <1>4, <1>5, <1>6, <1>7, <1>8, <1>9, <1>10 DEF IInv

(* What a shim that is free is. *)
LEMMA IdleTyped ==
    /\ Idle.pc = "off" /\ Idle.kind = "static" /\ Idle.todo = {} /\ Idle.out = {}
    /\ Idle \in CallsTyped
<1>1. "static" \in Kinds /\ 0 \in Names
  BY TeamMuxAssumption DEF Kinds, Does, Names
<1> QED BY <1>1 DEF Idle, CallsTyped

(* A call that ends without a word leaves everything as it is. *)
LEMMA EndKeeps ==
    ASSUME IInv, NEW p \in Shims, Answers(p) \/ Refuses(p) \/ CallHerdr(p) \/ ShimFails(p)
    PROVE  IInv'
<1>1. /\ UNCHANGED <<table, lpc, panes, held, killed, contested, crossed>>
      /\ call' = [call EXCEPT ![p] = Idle]
  BY DEF Answers, Refuses, CallHerdr, ShimFails, Ends, Goes, launch, herdr, past
<1>2. /\ Idle.pc = "off" /\ Idle.kind = "static" /\ Idle.todo = {} /\ Idle.out = {}
      /\ Idle \in CallsTyped
  BY IdleTyped
<1>3. /\ call' \in [Shims -> CallsTyped]
      /\ call'[p] = Idle /\ \A o \in Shims \ {p} : call'[o] = call[o]
  BY <1>1, <1>2 DEF IInv, Typed
<1>4. Typed'
  BY <1>1, <1>3 DEF IInv, Typed
<1>5. Phased' /\ Seeded' /\ Resolves' /\ KillAims' /\ Listed'
  BY <1>1, <1>2, <1>3 DEF IInv, Phased, Seeded, Resolves, KillAims, Listed
<1>6. Fresh' /\ Missed'
  BY <1>1, <1>2, <1>3 DEF IInv, Fresh, Missed, MayMiss, MayRegister, Unregistered
<1>7. Opened'
  BY <1>1, <1>2, <1>3 DEF IInv, Opened
<1>8. OneIdPerPane' /\ KilledIsGone'
  BY <1>1, TableKept DEF IInv
<1> QED BY <1>4, <1>5, <1>6, <1>7, <1>8 DEF IInv

(* A call loads the table; a kill gets the pane of its id. *)
LEMMA LoadKeeps == ASSUME IInv, NEW p \in Shims, Load(p) PROVE IInv'
<1> DEFINE pane == IF call[p].kind \in OfPane THEN table[call[p].id] ELSE None
           c == [call[p] EXCEPT !.pc = "call", !.snap = table, !.pane = pane]
<1>1. /\ UNCHANGED <<table, lpc, panes, held, killed, contested, crossed>>
      /\ call' = [call EXCEPT ![p] = c]
      /\ call[p].pc = "load"
  BY DEF Load, Goes, launch, herdr, past
<1>2. call[p] \in CallsTyped /\ table \in [Names -> Panes \cup {None}]
  BY DEF IInv, Typed
<1>3. /\ c \in CallsTyped
      /\ c.pc = "call" /\ c.kind = call[p].kind /\ c.id = call[p].id /\ c.todo = call[p].todo
      /\ c.snap = table /\ c.out = call[p].out
      /\ c.kind = "kill" => c.pane = table[c.id] /\ c.pane \in Panes
      /\ c.kind = "split" => c.pane \in Panes
  BY <1>2 DEF CallsTyped, OfPane, Load, Known
<1>4. /\ call' \in [Shims -> CallsTyped]
      /\ call'[p] = c /\ \A o \in Shims \ {p} : call'[o] = call[o]
  BY <1>1, <1>3 DEF IInv, Typed
<1> HIDE DEF c
<1>5. Typed'
  BY <1>1, <1>4 DEF IInv, Typed
<1>6. Phased' /\ Seeded' /\ Resolves' /\ Listed'
  BY <1>1, <1>3, <1>4 DEF IInv, Phased, Seeded, Resolves, Listed
<1>7. Fresh'
  BY <1>1, <1>3, <1>4 DEF IInv, Fresh, MayRegister, Unregistered
<1>8. KillAims'
  BY <1>1, <1>3, <1>4 DEF IInv, KillAims
<1>9. Missed'
  <2>1. \A q \in Panes : IdsOf(table, q) = {} => MayRegister(q) \/ panes[q] = "closed"
    BY NoIds DEF IInv, Opened, MayRegister, Unregistered
  <2>2. ASSUME NEW q \in Panes, MayMiss(p, q)' PROVE MayRegister(q) \/ panes[q] = "closed"
    BY <1>3, <1>4, <2>1, <2>2 DEF MayMiss
  <2>3. \A o \in Shims \ {p}, q \in Panes : MayMiss(o, q)' => MayMiss(o, q)
    BY <1>4 DEF MayMiss
  <2> QED BY <1>1, <1>3, <1>4, <2>2, <2>3, MayRegisterKept DEF IInv, Missed
<1>10. Opened'
  BY <1>1, <1>3, <1>4 DEF IInv, Opened
<1>11. OneIdPerPane' /\ KilledIsGone'
  BY <1>1, TableKept DEF IInv
<1> QED BY <1>5, <1>6, <1>7, <1>8, <1>9, <1>10, <1>11 DEF IInv

(* The pane a split opens is new. *)
LEMMA SplitPaneKeeps == ASSUME IInv, NEW p \in Shims, SplitPane(p) PROVE IInv'
<1> DEFINE c == [call[p] EXCEPT !.pc = "register", !.pane = NewPane]
<1>1. /\ UNCHANGED <<table, lpc, held, killed, contested, crossed>>
      /\ call' = [call EXCEPT ![p] = c]
      /\ panes' = [panes EXCEPT ![NewPane] = "open"]
      /\ call[p].pc = "call" /\ call[p].kind = "split"
  BY DEF SplitPane, Opens, Goes, launch, past
<1>2. NewPane \in Panes /\ panes[NewPane] = "none"
  BY NewPaneIsNone DEF SplitPane, Opens
<1>3. /\ c \in CallsTyped
      /\ c.pc = "register" /\ c.kind = "split" /\ c.pane = NewPane
      /\ c.todo = call[p].todo /\ c.out = call[p].out
  <2>1. call[p] \in CallsTyped
    BY DEF IInv, Typed
  <2> QED BY <1>1, <1>2, <2>1 DEF CallsTyped
<1>4. /\ call' \in [Shims -> CallsTyped]
      /\ call'[p] = c /\ \A o \in Shims \ {p} : call'[o] = call[o]
  BY <1>1, <1>3 DEF IInv, Typed
<1> HIDE DEF c
<1>5. /\ panes' \in [Panes -> {"none", "open", "closed"}]
      /\ panes'[NewPane] = "open" /\ \A q \in Panes \ {NewPane} : panes'[q] = panes[q]
  BY <1>1, <1>2 DEF IInv, Typed
<1>6. Typed'
  BY <1>1, <1>4, <1>5 DEF IInv, Typed
<1>7. Phased' /\ Seeded' /\ Resolves' /\ Listed'
  BY <1>1, <1>2, <1>3, <1>4 DEF IInv, Phased, Seeded, Resolves, Listed
<1>8. Opened'
  <2>1. 0 \in Panes
    BY TeamMuxAssumption DEF Panes
  <2>2. \A n \in Names : table[n] # None => table[n] \in Panes /\ panes[table[n]] # "none"
    BY DEF IInv, Typed, Opened
  <2>3. \A q \in killed : q \in Panes /\ panes[q] = "closed"
    BY DEF IInv, Typed, Opened
  <2>4. \A o \in Shims : /\ call[o].pc = "register" =>
                               call[o].pane \in Panes /\ panes[call[o].pane] # "none"
                         /\ call[o].pc = "deregister" =>
                               call[o].pane \in Panes /\ panes[call[o].pane] = "closed"
    BY DEF IInv, Phased, Opened
  <2> QED BY <1>1, <1>2, <1>3, <1>4, <1>5, <2>1, <2>2, <2>3, <2>4 DEF IInv, Opened
<1>9. Fresh'
  <2>1. MayRegister(NewPane)
    BY <1>2, TeamMuxAssumption DEF IInv, Opened, MayRegister, Unregistered
  <2>2. \A o \in Shims : call[o].pc = "register" => call[o].pane # NewPane
    BY <1>2 DEF IInv, Opened
  <2> QED BY <1>1, <1>3, <1>4, <2>1, <2>2, MayRegisterKept DEF IInv, Fresh
<1>10. Missed'
  <2>1. \A o \in Shims, q \in Panes : MayMiss(o, q)' => o # p /\ MayMiss(o, q)
    BY <1>3, <1>4 DEF MayMiss
  <2> QED BY <1>1, <1>2, <1>4, <1>5, <2>1, MayRegisterKept DEF IInv, Missed
<1>11. KillAims'
  <2>1. \A o \in Shims : /\ call[o].pc = "call" /\ call[o].kind = "kill" =>
                               call[o].pane \in Panes
    BY DEF IInv, Phased
  <2> QED BY <1>1, <1>2, <1>3, <1>4, <1>5, <2>1 DEF IInv, KillAims
<1>12. OneIdPerPane' /\ KilledIsGone'
  BY <1>1, TableKept DEF IInv
<1> QED BY <1>6, <1>7, <1>8, <1>9, <1>10, <1>11, <1>12 DEF IInv

(* Once a pane is registered, whoever was to look it up in an older table knows *)
(* it as contested, and what others resolve to has stayed.                      *)
LEMMA RegisteringKeeps ==
    ASSUME IInv, NEW p \in Shims, NEW q \in Panes, MayRegister(q),
           Registers(p, NextId(table), q), killed' = killed, UNCHANGED panes,
           crossed \subseteq crossed',
           \A o \in Shims \ {p} : call'[o] = call[o]
    PROVE  /\ \A x \in Panes : x # q /\ MayRegister(x) => MayRegister(x)'
           /\ \A o \in Shims \ {p}, x \in Panes : MayMiss(o, x)' =>
                 MayRegister(x)' \/ (call'[o].pc = "call" /\ panes'[x] = "closed")
           /\ \A o \in Shims \ {p} : call'[o].pc = "register" => MayRegister(call[o].pane)'
           /\ \A n \in Names, x \in Panes : table[n] = x => table'[n] = x
<1> DEFINE k == NextId(table)
<1>1. /\ k \in Names /\ table[k] = None
      /\ table' \in [Names -> Panes \cup {None}]
      /\ table'[k] = q /\ \A n \in Names \ {k} : table'[n] = table[n]
      /\ contested \subseteq contested'
  BY Registering DEF IInv
<1>2. /\ \A o \in Shims \ {p} : MayMiss(o, q) => q \in contested'
      /\ \A o \in Shims \ {p} : call[o].pc = "register" /\ call[o].pane = q => q \in contested'
  BY DEF Registers
<1> HIDE DEF k
<1>3. ASSUME NEW x \in Panes, x # q, MayRegister(x) PROVE MayRegister(x)'
  <2>1. CASE x \in contested
    BY <2>1, <1>1 DEF MayRegister
  <2>2. CASE x \notin contested
    <3>1. x \notin killed' /\ \A n \in Names : table'[n] # x
      BY <1>1, <1>3, <2>2 DEF MayRegister, Unregistered
    <3> QED BY <3>1 DEF MayRegister, Unregistered
  <2> QED BY <2>1, <2>2
<1>4. ASSUME NEW o \in Shims \ {p}, NEW x \in Panes, MayMiss(o, x)'
      PROVE  MayRegister(x)' \/ (call'[o].pc = "call" /\ panes'[x] = "closed")
  <2>1. MayMiss(o, x)
    BY <1>4 DEF MayMiss
  <2>2. CASE x = q
    BY <1>2, <2>1, <2>2 DEF MayRegister
  <2>3. CASE x # q
    BY <1>3, <2>1, <2>3 DEF IInv, Missed
  <2> QED BY <2>2, <2>3
<1>5. ASSUME NEW o \in Shims \ {p}, call'[o].pc = "register" PROVE MayRegister(call[o].pane)'
  <2>1. call[o].pc = "register" /\ call[o].pane \in Panes /\ MayRegister(call[o].pane)
        /\ call'[o].pane = call[o].pane
    BY <1>5 DEF IInv, Phased, Fresh
  <2>2. CASE call[o].pane = q
    BY <1>2, <2>1, <2>2 DEF MayRegister
  <2>3. CASE call[o].pane # q
    BY <1>3, <2>1, <2>3
  <2> QED BY <2>1, <2>2, <2>3
<1>6. \A n \in Names, x \in Panes : table[n] = x => table'[n] = x
  BY <1>1, TeamMuxAssumption
<1> QED BY <1>3, <1>4, <1>5, <1>6

(* The pane of a split gets an id that nobody holds. *)
LEMMA RegisterKeeps == ASSUME IInv, NEW p \in Shims, Register(p) PROVE IInv'
<1> DEFINE k == NextId(table)
           q == call[p].pane
<1>1. /\ UNCHANGED <<lpc, panes, killed>> /\ call' = [call EXCEPT ![p] = Idle]
      /\ Registers(p, k, q) /\ held' = held \cup {<<k, q>>}
      /\ crossed' = crossed \cup Killed({<<k, q>>})
      /\ call[p].pc = "register" /\ call[p].kind = "split"
  BY DEF Register, Ends, Goes, launch, herdr, IInv, Phased
<1>2. /\ q \in Panes /\ q # None /\ MayRegister(q) /\ panes[q] # "none"
  BY <1>1, TeamMuxAssumption DEF IInv, Phased, Opened, Fresh
<1>3. Idle.pc = "off" /\ Idle.kind = "static" /\ Idle.todo = {} /\ Idle.out = {}
      /\ Idle \in CallsTyped
  BY IdleTyped
<1>4. /\ call' \in [Shims -> CallsTyped]
      /\ call'[p] = Idle /\ \A o \in Shims \ {p} : call'[o] = call[o]
  BY <1>1, <1>3 DEF IInv, Typed
<1>5. /\ k \in Names /\ table[k] = None
      /\ table' \in [Names -> Panes \cup {None}]
      /\ table'[k] = q /\ \A n \in Names \ {k} : table'[n] = table[n]
      /\ OneIdPerPane' /\ KilledIsGone'
  BY <1>1, <1>2, Registering DEF IInv
<1>6. /\ \A o \in Shims \ {p}, x \in Panes : MayMiss(o, x)' =>
            MayRegister(x)' \/ (call'[o].pc = "call" /\ panes'[x] = "closed")
      /\ \A o \in Shims \ {p} : call'[o].pc = "register" => MayRegister(call[o].pane)'
      /\ \A n \in Names, x \in Panes : table[n] = x => table'[n] = x
  <2>1. crossed \subseteq crossed'
    BY <1>1
  <2> QED BY <1>1, <1>2, <1>4, <2>1, RegisteringKeeps
<1>7. \A o \in Shims : call[o].pc # "off" /\ call[o].kind = "kill" /\ call[o].id = k =>
          <<k, q>> \in crossed'
  BY <1>1 DEF Killed
<1>8. crossed \subseteq crossed'
  BY <1>1
<1> HIDE DEF k, q
<1>9. \A h \in held : h[1] \in Names /\ h[2] \in Panes
  BY DEF IInv, Typed
<1>10. Typed'
  BY <1>1, <1>2, <1>4, <1>5 DEF IInv, Typed
<1>11. Phased' /\ Seeded'
  BY <1>1, <1>3, <1>4 DEF IInv, Phased, Seeded
<1>12. Resolves'
  BY <1>1, <1>5, <1>6, <1>8, <1>9 DEF IInv, Resolves
<1>13. Opened'
  BY <1>1, <1>2, <1>3, <1>4, <1>5 DEF IInv, Opened
<1>14. Fresh'
  BY <1>3, <1>4, <1>6 DEF IInv, Fresh
<1>15. Missed'
  <2>1. \A x \in Panes : ~MayMiss(p, x)'
    BY <1>3, <1>4 DEF MayMiss
  <2> QED BY <1>6, <2>1 DEF Missed
<1>16. KillAims'
  <2>1. ASSUME NEW o \in Shims, call'[o].pc # "off", call'[o].kind = "kill"
        PROVE  /\ o # p /\ call'[o] = call[o] /\ call[o].id \in Names
               /\ \A h \in held' \ crossed' : h[1] # call[o].id
    <3>1. o # p /\ call'[o] = call[o]
      BY <1>3, <1>4, <2>1
    <3>2. call[o].id \in Names
      BY DEF IInv, Typed, CallsTyped
    <3>3. \A h \in held \ crossed : h[1] # call[o].id
      BY <2>1, <3>1 DEF IInv, KillAims
    <3>4. <<k, q>> \notin crossed' => call[o].id # k
      BY <1>7, <2>1, <3>1
    <3> QED BY <1>1, <1>8, <3>1, <3>2, <3>3, <3>4
  <2>2. ASSUME NEW o \in Shims, call'[o].kind = "kill",
               \/ call'[o].pc = "call" /\ panes'[call'[o].pane] # "closed"
               \/ call'[o].pc = "deregister"
        PROVE  table'[call'[o].id] = call'[o].pane
    <3>1. o # p /\ call'[o] = call[o] /\ call[o].id \in Names /\ call[o].pane \in Panes
      BY <2>1, <2>2, <1>4 DEF IInv, Phased
    <3>2. table[call[o].id] = call[o].pane
      BY <1>1, <2>2, <3>1 DEF IInv, KillAims
    <3> QED BY <1>6, <3>1, <3>2
  <2>3. \A o, r \in Shims : o # r /\ call'[o].pc = "deregister" /\ call'[r].pc = "deregister" =>
            call'[o].pane # call'[r].pane
    BY <1>3, <1>4 DEF IInv, KillAims, Phased
  <2> QED BY <2>1, <2>2, <2>3 DEF KillAims
<1>17. Listed'
  <2>1. \A o \in Shims \ {p} : call[o].out \subseteq Names \X Panes
    BY DEF IInv, Typed, CallsTyped
  <2>2. ASSUME NEW o \in Shims, NEW h \in call'[o].out PROVE table'[h[1]] = h[2] \/ h \in crossed'
    BY <1>3, <1>4, <1>6, <1>8, <2>1, <2>2 DEF IInv, Listed
  <2>3. ASSUME NEW o \in Shims, call'[o].kind = "list", call'[o].pc = "call",
               NEW n \in Names, NEW x \in Panes, call'[o].snap[n] = x
        PROVE  table'[n] = x \/ <<n, x>> \in crossed'
    BY <1>3, <1>4, <1>6, <1>8, <2>3 DEF IInv, Listed
  <2> QED BY <2>2, <2>3 DEF Listed
<1> QED BY <1>5, <1>10, <1>11, <1>12, <1>13, <1>14, <1>15, <1>16, <1>17 DEF IInv

(* A list has the ids it found, and is left with the panes it did not find. *)
LEMMA ListTabKeeps == ASSUME IInv, NEW p \in Shims, ListTab(p) PROVE IInv'
<1> DEFINE shown == {q \in Panes : panes[q] = "open" /\ tab[q]}
           left == {q \in shown : IdsOf(call[p].snap, q) = {}}
           found == {h \in Names \X shown : h[1] \in IdsOf(call[p].snap, h[2])}
           c == [call[p] EXCEPT !.pc = "list", !.todo = left, !.out = found]
<1>1. /\ UNCHANGED <<table, lpc, panes, held, killed, contested, crossed>>
      /\ call' = [call EXCEPT ![p] = c]
      /\ call[p].pc = "call" /\ call[p].kind = "list"
  BY DEF ListTab, Goes, launch, herdr, past
<1>2. /\ left \subseteq Panes /\ found \subseteq Names \X Panes
      /\ \A q \in left : panes[q] = "open" /\ MayMiss(p, q)
      /\ \A h \in found : call[p].snap[h[1]] = h[2]
  BY <1>1 DEF MayMiss, IdsOf
<1>3. call[p] \in CallsTyped
  BY DEF IInv, Typed
<1> HIDE DEF left, found
<1>4. /\ c \in CallsTyped
      /\ c.pc = "list" /\ c.kind = "list" /\ c.todo = left /\ c.out = found /\ c.id = call[p].id
  BY <1>1, <1>2, <1>3 DEF CallsTyped
<1>5. /\ call' \in [Shims -> CallsTyped]
      /\ call'[p] = c /\ \A o \in Shims \ {p} : call'[o] = call[o]
  BY <1>1, <1>4 DEF IInv, Typed
<1> HIDE DEF c
<1>6. Typed'
  BY <1>1, <1>5 DEF IInv, Typed
<1>7. Phased' /\ Seeded' /\ Resolves' /\ KillAims'
  BY <1>1, <1>4, <1>5 DEF IInv, Phased, Seeded, Resolves, KillAims
<1>8. Opened'
  BY <1>1, <1>2, <1>4, <1>5 DEF IInv, Opened
<1>9. Fresh'
  BY <1>1, <1>4, <1>5, MayRegisterKept DEF IInv, Fresh
<1>10. Missed'
  <2>1. ASSUME NEW q \in left PROVE MayRegister(q)
    BY <1>2, <2>1 DEF IInv, Missed
  <2>2. \A q \in Panes : MayMiss(p, q)' => q \in left
    BY <1>4, <1>5 DEF MayMiss
  <2>3. \A o \in Shims \ {p}, q \in Panes : MayMiss(o, q)' => MayMiss(o, q)
    BY <1>5 DEF MayMiss
  <2> QED BY <1>1, <1>5, <2>1, <2>2, <2>3, MayRegisterKept DEF IInv, Missed
<1>11. Listed'
  <2>1. ASSUME NEW h \in found PROVE table[h[1]] = h[2] \/ h \in crossed
    <3>1. h \in Names \X Panes /\ h = <<h[1], h[2]>>
      BY <1>2
    <3> QED BY <1>1, <1>2, <3>1 DEF IInv, Listed
  <2> QED BY <1>1, <1>4, <1>5, <2>1 DEF IInv, Listed
<1>12. OneIdPerPane' /\ KilledIsGone'
  BY <1>1, TableKept DEF IInv
<1> QED BY <1>6, <1>7, <1>8, <1>9, <1>10, <1>11, <1>12 DEF IInv

(* A pane a list did not find gets an id: its second one only if it is contested. *)
LEMMA RegisterListedKeeps ==
    ASSUME IInv, NEW p \in Shims, NEW q \in Panes, RegisterListed(p, q)
    PROVE  IInv'
<1> DEFINE k == NextId(table)
           c == [call[p] EXCEPT !.todo = @ \ {q}, !.out = @ \cup {<<k, q>>}]
<1>1. /\ UNCHANGED <<lpc, panes, held, killed, crossed>> /\ call' = [call EXCEPT ![p] = c]
      /\ Registers(p, k, q)
      /\ call[p].pc = "list" /\ q \in call[p].todo
  BY DEF RegisterListed, Goes, launch, herdr
<1>2. /\ call[p].kind = "list" /\ panes[q] # "none" /\ q # None /\ MayRegister(q)
  BY <1>1, TeamMuxAssumption DEF IInv, Phased, Missed, MayMiss, Opened
<1>3. /\ k \in Names /\ table[k] = None
      /\ table' \in [Names -> Panes \cup {None}]
      /\ table'[k] = q /\ \A n \in Names \ {k} : table'[n] = table[n]
      /\ OneIdPerPane' /\ KilledIsGone'
  BY <1>1, <1>2, Registering DEF IInv
<1>4. /\ c \in CallsTyped
      /\ c.pc = "list" /\ c.kind = "list" /\ c.id = call[p].id
      /\ c.todo = call[p].todo \ {q} /\ c.out = call[p].out \cup {<<k, q>>}
  <2>1. call[p] \in CallsTyped
    BY DEF IInv, Typed
  <2>2. <<k, q>> \in Names \X Panes
    BY <1>3
  <2> HIDE DEF k
  <2> QED BY <1>1, <1>2, <2>1, <2>2 DEF CallsTyped
<1>5. /\ call' \in [Shims -> CallsTyped]
      /\ call'[p] = c /\ \A o \in Shims \ {p} : call'[o] = call[o]
  BY <1>1, <1>4 DEF IInv, Typed
<1>6. /\ \A x \in Panes : x # q /\ MayRegister(x) => MayRegister(x)'
      /\ \A o \in Shims \ {p}, x \in Panes : MayMiss(o, x)' =>
            MayRegister(x)' \/ (call'[o].pc = "call" /\ panes'[x] = "closed")
      /\ \A o \in Shims \ {p} : call'[o].pc = "register" => MayRegister(call[o].pane)'
      /\ \A n \in Names, x \in Panes : table[n] = x => table'[n] = x
  BY <1>1, <1>2, <1>5, RegisteringKeeps
<1> HIDE DEF k, c
<1>7. Typed'
  BY <1>1, <1>3, <1>5 DEF IInv, Typed
<1>8. Phased' /\ Seeded'
  BY <1>1, <1>4, <1>5 DEF IInv, Phased, Seeded
<1>9. Resolves'
  <2>1. \A h \in held : h[1] \in Names /\ h[2] \in Panes
    BY DEF IInv, Typed
  <2> QED BY <1>1, <1>6, <2>1 DEF IInv, Resolves
<1>10. Opened'
  BY <1>1, <1>2, <1>3, <1>4, <1>5 DEF IInv, Opened
<1>11. Fresh'
  BY <1>4, <1>5, <1>6 DEF IInv, Fresh
<1>12. Missed'
  <2>1. \A x \in Panes : MayMiss(p, x)' => x # q /\ MayMiss(p, x) /\ call[p].pc = "list"
    BY <1>1, <1>2, <1>4, <1>5 DEF MayMiss
  <2> QED BY <1>6, <2>1 DEF IInv, Missed
<1>13. KillAims'
  <2>1. ASSUME NEW o \in Shims, call'[o].pc # "off", call'[o].kind = "kill"
        PROVE  o # p /\ call'[o] = call[o] /\ call[o].id \in Names
    BY <1>4, <1>5, <2>1 DEF IInv, Typed, CallsTyped
  <2>2. \A o \in Shims : call[o].pc \in {"call", "deregister"} /\ call[o].kind = "kill" =>
            call[o].pane \in Panes
    BY DEF IInv, Phased
  <2> QED BY <1>1, <1>4, <1>5, <1>6, <2>1, <2>2 DEF IInv, KillAims
<1>14. Listed'
  <2>1. \A o \in Shims : call[o].out \subseteq Names \X Panes
    BY DEF IInv, Typed, CallsTyped
  <2>2. ASSUME NEW o \in Shims, NEW h \in call[o].out PROVE table'[h[1]] = h[2] \/ h \in crossed'
    BY <1>1, <1>6, <2>1, <2>2 DEF IInv, Listed
  <2>3. ASSUME NEW o \in Shims, NEW h \in call'[o].out PROVE table'[h[1]] = h[2] \/ h \in crossed'
    BY <1>3, <1>4, <1>5, <2>2, <2>3
  <2>4. ASSUME NEW o \in Shims, call'[o].kind = "list", call'[o].pc = "call",
               NEW n \in Names, NEW x \in Panes, call'[o].snap[n] = x
        PROVE  table'[n] = x \/ <<n, x>> \in crossed'
    BY <1>1, <1>4, <1>5, <1>6, <2>4 DEF IInv, Listed
  <2> QED BY <2>3, <2>4 DEF Listed
<1> QED BY <1>3, <1>7, <1>8, <1>9, <1>10, <1>11, <1>12, <1>13, <1>14 DEF IInv

(* A list gives what its ids resolve to, or what is being killed. *)
LEMMA PrintListKeeps == ASSUME IInv, NEW p \in Shims, PrintList(p) PROVE IInv'
<1>1. /\ UNCHANGED <<table, lpc, panes, killed, contested>> /\ call' = [call EXCEPT ![p] = Idle]
      /\ held' = held \cup call[p].out /\ crossed' = crossed \cup Killed(call[p].out)
      /\ call[p].pc = "list"
  BY DEF PrintList, Ends, Goes, launch, herdr
<1>2. /\ call[p].kind = "list" /\ lpc[Own] = "lead"
      /\ \A h \in call[p].out : table[h[1]] = h[2] \/ h \in crossed
  BY <1>1 DEF IInv, Phased, Seeded, Listed
<1>3. Idle.pc = "off" /\ Idle.kind = "static" /\ Idle.todo = {} /\ Idle.out = {}
      /\ Idle \in CallsTyped
  BY IdleTyped
<1>4. /\ call' \in [Shims -> CallsTyped]
      /\ call'[p] = Idle /\ \A o \in Shims \ {p} : call'[o] = call[o]
  BY <1>1, <1>3 DEF IInv, Typed
<1>5. \A o \in Shims : call[o].pc # "off" /\ call[o].kind = "kill" =>
          \A h \in call[p].out \ crossed' : h[1] # call[o].id
  BY <1>1 DEF Killed
<1>6. crossed \subseteq crossed'
  BY <1>1
<1>7. Typed'
  <2>1. call[p].out \subseteq Names \X Panes
    BY DEF IInv, Typed, CallsTyped
  <2> QED BY <1>1, <1>4, <2>1 DEF IInv, Typed
<1>8. Phased' /\ Seeded' /\ Resolves'
  BY <1>1, <1>2, <1>3, <1>4, <1>6 DEF IInv, Phased, Seeded, Resolves
<1>9. Listed'
  BY <1>1, <1>3, <1>4, <1>6 DEF IInv, Listed
<1>10. KillAims'
  BY <1>1, <1>3, <1>4, <1>5, <1>6 DEF IInv, KillAims
<1>11. Fresh'
  BY <1>1, <1>3, <1>4, MayRegisterKept DEF IInv, Fresh
<1>12. Missed'
  <2>1. \A o \in Shims, q \in Panes : MayMiss(o, q)' => o # p /\ MayMiss(o, q)
    BY <1>3, <1>4 DEF MayMiss
  <2> QED BY <1>1, <1>4, <2>1, MayRegisterKept DEF IInv, Missed
<1>13. Opened'
  BY <1>1, <1>3, <1>4 DEF IInv, Opened
<1>14. OneIdPerPane' /\ KilledIsGone'
  BY <1>1, TableKept DEF IInv
<1> QED BY <1>7, <1>8, <1>9, <1>10, <1>11, <1>12, <1>13, <1>14 DEF IInv

(* The pane a kill closes is the one its id stands for, and no other kill closed it. *)
LEMMA ClosePaneKeeps == ASSUME IInv, NEW p \in Shims, ClosePane(p) PROVE IInv'
<1> DEFINE c == [call[p] EXCEPT !.pc = "deregister"]
           q == call[p].pane
<1>1. /\ UNCHANGED <<table, lpc, held, killed, contested, crossed>>
      /\ call' = [call EXCEPT ![p] = c]
      /\ panes' = [panes EXCEPT ![q] = "closed"] /\ panes[q] = "open"
      /\ call[p].pc = "call" /\ call[p].kind = "kill"
  BY DEF ClosePane, Goes, launch, past
<1>2. q \in Panes
  BY <1>1 DEF IInv, Phased
<1>3. /\ c \in CallsTyped
      /\ c.pc = "deregister" /\ c.kind = "kill" /\ c.pane = q /\ c.todo = call[p].todo
      /\ c.out = call[p].out /\ c.id = call[p].id
  <2>1. call[p] \in CallsTyped
    BY DEF IInv, Typed
  <2> QED BY <1>1, <2>1 DEF CallsTyped
<1>4. /\ call' \in [Shims -> CallsTyped]
      /\ call'[p] = c /\ \A o \in Shims \ {p} : call'[o] = call[o]
  BY <1>1, <1>3 DEF IInv, Typed
<1>5. table[call[p].id] = q
  BY <1>1 DEF IInv, KillAims
<1>6. \A o \in Shims : call[o].pc = "deregister" => call[o].pane # q
  BY <1>1 DEF IInv, Opened
<1> HIDE DEF c, q
<1>7. /\ panes' \in [Panes -> {"none", "open", "closed"}]
      /\ panes'[q] = "closed" /\ \A x \in Panes \ {q} : panes'[x] = panes[x]
  BY <1>1, <1>2 DEF IInv, Typed
<1>8. Typed'
  BY <1>1, <1>4, <1>7 DEF IInv, Typed
<1>9. Phased' /\ Seeded' /\ Resolves' /\ Listed'
  BY <1>1, <1>2, <1>3, <1>4 DEF IInv, Phased, Seeded, Resolves, Listed
<1>10. Fresh'
  BY <1>1, <1>3, <1>4, MayRegisterKept DEF IInv, Fresh
<1>11. Missed'
  <2>1. \A o \in Shims, x \in Panes : MayMiss(o, x)' => o # p /\ MayMiss(o, x)
    BY <1>3, <1>4 DEF MayMiss
  <2> QED BY <1>1, <1>4, <1>7, <2>1, MayRegisterKept DEF IInv, Missed
<1>12. KillAims'
  <2>1. \A o \in Shims : call[o].pc = "call" /\ call[o].kind = "kill" => call[o].pane \in Panes
    BY DEF IInv, Phased
  <2>2. \A o \in Shims \ {p} : call[o].pc = "call" /\ call[o].kind = "kill"
                               /\ panes'[call[o].pane] # "closed" => panes[call[o].pane] # "closed"
    BY <1>7, <2>1
  <2> QED BY <1>1, <1>3, <1>4, <1>5, <1>6, <2>2 DEF IInv, KillAims
<1>13. Opened'
  <2>1. 0 \in Panes
    BY TeamMuxAssumption DEF Panes
  <2>2. /\ \A n \in Names : table[n] # None => table[n] \in Panes
        /\ killed \subseteq Panes
        /\ \A o \in Shims : call[o].pc \in {"register", "deregister"} => call[o].pane \in Panes
    BY DEF IInv, Typed, Phased
  <2> QED BY <1>1, <1>2, <1>3, <1>4, <1>7, <2>1, <2>2 DEF IInv, Opened
<1>14. OneIdPerPane' /\ KilledIsGone'
  BY <1>1, TableKept DEF IInv
<1> QED BY <1>8, <1>9, <1>10, <1>11, <1>12, <1>13, <1>14 DEF IInv

(* The entry that goes is that of the pane; a second one only a contested pane has. *)
LEMMA DeregisterKeeps == ASSUME IInv, NEW p \in Shims, Deregister(p) PROVE IInv'
<1> DEFINE k == call[p].id
           q == call[p].pane
<1>1. /\ UNCHANGED <<lpc, panes, held, contested>> /\ call' = [call EXCEPT ![p] = Idle]
      /\ table' = [table EXCEPT ![k] = None] /\ killed' = killed \cup {q}
      /\ LeavesTable(k)
      /\ call[p].pc = "deregister" /\ call[p].kind = "kill"
  BY DEF Deregister, Ends, Goes, launch, herdr, IInv, Phased
<1>2. /\ k \in Names /\ q \in Panes /\ table[k] = q /\ q # None /\ panes[q] = "closed"
      /\ \A h \in held \ crossed : h[1] # k
      /\ \A o \in Shims \ {p} : call[o].pc = "deregister" => call[o].pane # q
  BY <1>1, TeamMuxAssumption DEF IInv, Typed, CallsTyped, Phased, KillAims, Opened
<1>3. /\ table' \in [Names -> Panes \cup {None}]
      /\ table'[k] = None /\ \A n \in Names \ {k} : table'[n] = table[n]
      /\ \A n \in Names \ {k} : table[n] = q => q \in contested
  BY <1>1, <1>2 DEF IInv, Typed, OneIdPerPane
<1>4. Idle.pc = "off" /\ Idle.kind = "static" /\ Idle.todo = {} /\ Idle.out = {}
      /\ Idle \in CallsTyped
  BY IdleTyped
<1>5. /\ call' \in [Shims -> CallsTyped]
      /\ call'[p] = Idle /\ \A o \in Shims \ {p} : call'[o] = call[o]
  BY <1>1, <1>4 DEF IInv, Typed
<1>6. /\ crossed \subseteq crossed'
      /\ \A o \in Shims : <<k, q>> \in call[o].out => <<k, q>> \in crossed'
      /\ \A o \in Shims : call[o].kind = "list" /\ call[o].pc = "call" /\ call[o].snap[k] = q =>
            <<k, q>> \in crossed'
  BY <1>1, <1>2 DEF LeavesTable
<1> HIDE DEF k, q
<1>7. \A x \in Panes : MayRegister(x) => MayRegister(x)'
  <2>1. ASSUME NEW x \in Panes, MayRegister(x) PROVE MayRegister(x)'
    <3>1. CASE x \in contested
      BY <1>1, <3>1 DEF MayRegister
    <3>2. CASE x \notin contested
      <4>1. x # q
        BY <1>2, <2>1, <3>2 DEF MayRegister, Unregistered
      <4>2. x \notin killed' /\ \A n \in Names : table'[n] # x
        BY <1>1, <1>3, <2>1, <3>2, <4>1, TeamMuxAssumption DEF MayRegister, Unregistered
      <4> QED BY <4>2 DEF MayRegister, Unregistered
    <3> QED BY <3>1, <3>2
  <2> QED BY <2>1
<1>8. Typed'
  BY <1>1, <1>2, <1>3, <1>5 DEF IInv, Typed
<1>9. Phased' /\ Seeded'
  BY <1>1, <1>4, <1>5 DEF IInv, Phased, Seeded
<1>10. Resolves'
  <2>1. \A h \in held \ crossed' : h[1] \in Names \ {k} /\ h \notin crossed
    BY <1>2, <1>6 DEF IInv, Typed
  <2> QED BY <1>1, <1>3, <2>1 DEF IInv, Resolves
<1>11. Opened'
  BY <1>1, <1>2, <1>3, <1>4, <1>5 DEF IInv, Opened
<1>12. Fresh'
  <2>1. \A o \in Shims : call[o].pc = "register" => call[o].pane \in Panes
    BY DEF IInv, Phased
  <2> QED BY <1>4, <1>5, <1>7, <2>1 DEF IInv, Fresh
<1>13. Missed'
  <2>1. \A o \in Shims, x \in Panes : MayMiss(o, x)' => o # p /\ MayMiss(o, x)
    BY <1>4, <1>5 DEF MayMiss
  <2> QED BY <1>1, <1>5, <1>7, <2>1 DEF IInv, Missed
<1>14. KillAims'
  <2>1. ASSUME NEW o \in Shims, call'[o].pc # "off", call'[o].kind = "kill"
        PROVE  o # p /\ call'[o] = call[o] /\ call[o].id \in Names
    BY <1>4, <1>5, <2>1 DEF IInv, Typed, CallsTyped
  <2>2. ASSUME NEW o \in Shims, call'[o].kind = "kill",
               \/ call'[o].pc = "call" /\ panes'[call'[o].pane] # "closed"
               \/ call'[o].pc = "deregister"
        PROVE  table'[call'[o].id] = call'[o].pane
    <3>1. o # p /\ call'[o] = call[o] /\ call[o].id \in Names
      BY <2>1, <2>2
    <3>2. table[call[o].id] = call[o].pane
      BY <1>1, <2>2, <3>1 DEF IInv, KillAims
    <3>3. call[o].pane # q
      BY <1>1, <1>2, <2>2, <3>1
    <3> QED BY <1>2, <1>3, <3>1, <3>2, <3>3
  <2>3. \A o \in Shims : call'[o].pc # "off" /\ call'[o].kind = "kill" =>
            \A h \in held' \ crossed' : h[1] # call'[o].id
    BY <1>1, <1>6, <2>1 DEF IInv, KillAims
  <2>4. \A o, r \in Shims : o # r /\ call'[o].pc = "deregister" /\ call'[r].pc = "deregister" =>
            call'[o].pane # call'[r].pane
    BY <1>4, <1>5 DEF IInv, KillAims, Phased
  <2> QED BY <2>2, <2>3, <2>4 DEF KillAims
<1>15. Listed'
  <2>1. ASSUME NEW o \in Shims, NEW h \in call'[o].out PROVE table'[h[1]] = h[2] \/ h \in crossed'
    <3>1. o # p /\ h \in call[o].out /\ h \in Names \X Panes
      BY <1>4, <1>5, <2>1 DEF IInv, Typed, CallsTyped
    <3>2. table[h[1]] = h[2] \/ h \in crossed
      BY <3>1 DEF IInv, Listed
    <3>3. h[1] = k /\ table[h[1]] = h[2] => h = <<k, q>>
      BY <1>2, <3>1
    <3> QED BY <1>3, <1>6, <3>1, <3>2, <3>3
  <2>2. ASSUME NEW o \in Shims, call'[o].kind = "list", call'[o].pc = "call",
               NEW n \in Names, NEW x \in Panes, call'[o].snap[n] = x
        PROVE  table'[n] = x \/ <<n, x>> \in crossed'
    <3>1. o # p /\ call'[o] = call[o]
      BY <1>4, <1>5, <2>2
    <3>2. table[n] = x \/ <<n, x>> \in crossed
      BY <2>2, <3>1 DEF IInv, Listed
    <3>3. n = k /\ table[n] = x => <<n, x>> \in crossed'
      BY <1>2, <1>6, <2>2, <3>1
    <3> QED BY <1>3, <1>6, <3>2, <3>3
  <2> QED BY <2>1, <2>2 DEF Listed
<1>16. OneIdPerPane'
  BY <1>1, <1>3 DEF IInv, OneIdPerPane
<1>17. KilledIsGone'
  <2>1. None \notin killed'
    BY <1>1, <1>2, TeamMuxAssumption DEF IInv, Typed
  <2> QED BY <1>1, <1>3, <2>1 DEF IInv, KilledIsGone
<1> QED BY <1>8, <1>9, <1>10, <1>11, <1>12, <1>13, <1>14, <1>15, <1>16, <1>17 DEF IInv

-----------------------------------------------------------------------------
(* The steps together. *)

(* The invariant holds when the lead is launched. *)
LEMMA IInvInitially == Init => IInv
<1> SUFFICES ASSUME Init PROVE IInv
  OBVIOUS
<1>1. /\ 0 \in Panes /\ 0 \in Names /\ Own \in Launches
  BY TeamMuxAssumption DEF Panes, Names, Launches
<1>2. Idle.pc = "off" /\ Idle.kind = "static" /\ Idle.todo = {} /\ Idle.out = {}
      /\ Idle \in CallsTyped
  BY IdleTyped
<1>3. \A p \in Shims : call[p] = Idle
  BY DEF Init
<1>4. Typed
  BY <1>1, <1>2 DEF Init, Typed
<1>5. Seeded /\ Resolves
  BY <1>1, <1>2, <1>3 DEF Init, Seeded, Resolves
<1>6. Phased /\ Fresh /\ Missed /\ KillAims /\ Listed
  BY <1>2, <1>3 DEF Phased, Fresh, Missed, MayMiss, KillAims, Listed
<1>7. Opened
  BY <1>1, <1>2, <1>3 DEF Init, Opened
<1>8. OneIdPerPane /\ KilledIsGone
  BY DEF Init, OneIdPerPane, KilledIsGone
<1> QED BY <1>4, <1>5, <1>6, <1>7, <1>8 DEF IInv

(* Every step keeps it. *)
LEMMA StepKeeps == ASSUME IInv, [Next]_vars PROVE IInv'
<1>1. CASE SeedPane
  BY <1>1, SeedPaneKeeps
<1>2. CASE SeedWindow \/ \E l \in Launches :
                             OtherLaunch(l) \/ Unlink(l) \/ MakeLink(l) \/ LaunchFails(l)
  <2>1. Own \in Launches
    BY DEF Launches
  <2> QED BY <1>2, <2>1, LaunchKeeps
<1>3. CASE (\E b \in BOOLEAN : PaneOpens(b)) \/ (\E q \in Panes : PaneCloses(q))
  BY <1>3, PeopleKeep
<1>4. ASSUME NEW p \in Shims, NEW k \in Kinds, NEW n \in Names, StartCall(p, k, n) PROVE IInv'
  BY <1>4, StartCallKeeps
<1>5. ASSUME NEW p \in Shims, Shim(p) PROVE IInv'
  <2>1. CASE Answers(p) \/ Refuses(p) \/ CallHerdr(p) \/ ShimFails(p)
    BY <2>1, EndKeeps
  <2>2. CASE Load(p) \/ SplitPane(p) \/ Register(p)
    BY <2>2, LoadKeeps, SplitPaneKeeps, RegisterKeeps
  <2>3. CASE ClosePane(p) \/ Deregister(p)
    BY <2>3, ClosePaneKeeps, DeregisterKeeps
  <2>4. CASE ListTab(p) \/ PrintList(p)
    BY <2>4, ListTabKeeps, PrintListKeeps
  <2>5. ASSUME NEW q \in Panes, RegisterListed(p, q) PROVE IInv'
    BY <2>5, RegisterListedKeeps
  <2> QED BY <1>5, <2>1, <2>2, <2>3, <2>4, <2>5 DEF Shim
<1>6. CASE UNCHANGED vars
  <2>1. UNCHANGED <<table, lpc, call, panes, held, killed, contested, crossed>>
    BY <1>6 DEF vars, launch, herdr, past
  <2>2. OneIdPerPane' /\ KilledIsGone'
    BY <2>1, TableKept DEF IInv
  <2>3. Fresh' /\ Missed'
    BY <2>1 DEF IInv, Fresh, Missed, MayMiss, MayRegister, Unregistered
  <2> QED BY <2>1, <2>2, <2>3
          DEF IInv, Typed, Phased, Seeded, Resolves, Opened, KillAims, Listed
<1> QED BY <1>1, <1>2, <1>3, <1>4, <1>5, <1>6 DEF Next

(* So it always holds. *)
LEMMA IInvThroughout == Spec => []IInv
<1>1. IInv /\ [Next]_vars => IInv'
  BY StepKeeps
<1> QED BY <1>1, IInvInitially, PTL DEF Spec

(* An id Claude Code was given and has not killed names the pane it was given *)
(* for, whatever splits, lists and kills run at the same time, fail or die    *)
(* (teammux.rs, split_window, list_pane_ids and kill_pane; idmap.rs), but for *)
(* an id that a list or a split gave while it was being killed.               *)
THEOREM HeldIdsResolve == Spec => []HeldResolves
<1>1. IInv => HeldResolves
  BY DEF IInv, Resolves, HeldResolves
<1> QED BY <1>1, IInvThroughout, PTL

(* A pane has two ids only if somebody registered it between a list's loading *)
(* of the table and its registering of the pane: that list, looking up in the *)
(* older table, is the only way to a second id (idmap.rs, allocate and        *)
(* reverse_lookup; teammux.rs, list_pane_ids).                                *)
THEOREM IdsAreUnique == Spec => []OneIdPerPane
<1>1. IInv => OneIdPerPane
  BY DEF IInv
<1> QED BY <1>1, IInvThroughout, PTL

(* Nothing ever resolves to a pane whose kill has succeeded, even if its    *)
(* number is given out again, unless it is a pane that may have had two ids *)
(* (teammux.rs, kill_pane).                                                 *)
THEOREM KilledStaysGone == Spec => []KilledIsGone
<1>1. IInv => KilledIsGone
  BY DEF IInv
<1> QED BY <1>1, IInvThroughout, PTL

-----------------------------------------------------------------------------
(* The parser: what each step leaves. *)

(* A set of numbers that goes on from each to the next is all of them. *)
LEMMA GoesOn ==
    ASSUME NEW n \in Nat, NEW T, 0 \in T,
           \A k \in Nat : k < n /\ k \in T => k + 1 \in T
    PROVE  \A k \in 0..n : k \in T
<1> DEFINE S == {k \in 0..n : k \notin T}
<1> SUFFICES ASSUME S # {} PROVE FALSE
  OBVIOUS
<1>0. S \subseteq Nat
  OBVIOUS
<1> HIDE DEF S
<1>1. PICK r \in S : \A q \in S : r =< q
  BY <1>0, LeastExists
<1> USE DEF S
<1>2. r \in 0..n /\ r \notin T /\ r # 0
  BY <1>1
<1>3. r - 1 \in Nat /\ r - 1 < n /\ r - 1 \in T
  BY <1>1, <1>2
<1> QED BY <1>2, <1>3

(* The recursive function is the one that is meant: the verb is popped, then a step more. *)
LEMMA AfterEachStep ==
    ASSUME NEW p, NEW args, Len(p.steps) \in Nat
    PROVE  /\ AfterStep(p, args)[0] = Pops(args, 1, {p.name})
           /\ \A k \in Nat : k < Len(p.steps) =>
                 AfterStep(p, args)[k + 1] = StepTakes(p.steps[k + 1], args, AfterStep(p, args)[k])
<1> DEFINE n == Len(p.steps)
           first == Pops(args, 1, {p.name})
           Is(m, f) == f = [k \in 0..m |->
               IF k = 0 THEN first ELSE StepTakes(p.steps[k], args, f[k - 1])]
           Has(m) == \E f : Is(m, f)
           T == {m \in 0..n : Has(m)}
<1>0. n \in Nat
  OBVIOUS
<1>5. AfterStep(p, args) = CHOOSE g : Is(n, g)
  BY DEF AfterStep, Is
<1> HIDE DEF n, first
<1>1. 0 \in T
  <2>1. Is(0, [k \in 0..0 |-> first])
    OBVIOUS
  <2>2. Has(0)
    BY <2>1
  <2> HIDE DEF Has
  <2> QED BY <2>2, <1>0
<1>2. ASSUME NEW m \in Nat, m < n, m \in T PROVE m + 1 \in T
  <2>1. PICK f : Is(m, f)
    BY <1>2
  <2> DEFINE g == [k \in 0..(m + 1) |->
                     IF k =< m THEN f[k] ELSE StepTakes(p.steps[m + 1], args, f[m])]
  <2>2. ASSUME NEW k \in 0..(m + 1)
        PROVE  g[k] = IF k = 0 THEN first ELSE StepTakes(p.steps[k], args, g[k - 1])
    <3>1. CASE k = 0
      BY <2>1, <3>1
    <3>2. CASE k # 0 /\ k =< m
      <4>1. k - 1 \in 0..m /\ k \in 0..m /\ k - 1 \in 0..(m + 1)
        BY <3>2
      <4>2. g[k] = f[k] /\ g[k - 1] = f[k - 1]
        BY <4>1
      <4> QED BY <2>1, <3>2, <4>1, <4>2
    <3>3. CASE k = m + 1
      <4>1. g[k] = StepTakes(p.steps[m + 1], args, f[m]) /\ g[k - 1] = f[m] /\ k # 0
        BY <3>3
      <4> QED BY <3>3, <4>1
    <3> QED BY <3>1, <3>2, <3>3
  <2>3. Is(m + 1, g)
    BY <2>2
  <2>4. Has(m + 1)
    BY <2>3
  <2> HIDE DEF Has
  <2> QED BY <1>2, <2>4, <1>0
<1> HIDE DEF Is
<1>3. n \in T
  <2> HIDE DEF T
  <2>1. \A k \in 0..n : k \in T
    BY <1>0, <1>1, <1>2, GoesOn
  <2>2. n \in 0..n
    BY <1>0
  <2> QED BY <2>1, <2>2
<1>4. PICK f : Is(n, f)
  BY <1>3
<1>6. Is(n, AfterStep(p, args))
  BY <1>4, <1>5
<1> DEFINE h == AfterStep(p, args)
<1>7. h = [k \in 0..n |-> IF k = 0 THEN first ELSE StepTakes(p.steps[k], args, h[k - 1])]
  BY <1>6 DEF Is
<1> HIDE DEF h
<1>8. \A k \in 0..n : h[k] = IF k = 0 THEN first ELSE StepTakes(p.steps[k], args, h[k - 1])
  BY <1>7
<1>9. \A k \in Nat : k < n => h[k + 1] = StepTakes(p.steps[k + 1], args, h[k])
  <2> SUFFICES ASSUME NEW k \in Nat, k < n
               PROVE  h[k + 1] = StepTakes(p.steps[k + 1], args, h[k])
    OBVIOUS
  <2>1. k + 1 \in 0..n /\ k + 1 # 0 /\ (k + 1) - 1 = k
    BY <1>0
  <2> QED BY <1>8, <2>1
<1>10. h[0] = first
  <2> HIDE DEF first, n
  <2>1. 0 \in 0..n
    BY <1>0
  <2> QED BY <1>8, <2>1
<1> QED BY <1>9, <1>10 DEF h, n, first

(* Some steps that all pop, from a place on: each finds its argument, or the call is refused. *)
Finds(p, args, a, next, j) ==
    \A i \in 1..j : next + i - 1 \in DOMAIN args /\ args[next + i - 1] \in p.steps[a + i].accepts

LEMMA PopsInTurn ==
    ASSUME NEW p, NEW args, Len(p.steps) \in Nat, NEW a \in Nat, NEW j \in Nat,
           NEW b \in Nat, b = a + j, b =< Len(p.steps),
           \A i \in 1..j : p.steps[a + i].does = "pop",
           NEW next \in Nat \ {0}, AfterStep(p, args)[a] = next
    PROVE  AfterStep(p, args)[b] = IF Finds(p, args, a, next, j) THEN next + j ELSE Refused
<1> DEFINE at == AfterStep(p, args)
           F(i) == Finds(p, args, a, next, i)
           T == {i \in 0..j : at[a + i] = IF F(i) THEN next + i ELSE Refused}
<1>1. \A k \in Nat : k < Len(p.steps) => at[k + 1] = StepTakes(p.steps[k + 1], args, at[k])
  BY AfterEachStep
<1>2. at[a] = next
  OBVIOUS
<1> HIDE DEF at
<1>3. 0 \in T
  <2>1. F(0)
    BY DEF Finds
  <2> QED BY <1>2, <2>1
<1>4. ASSUME NEW i \in Nat, i < j, i \in T PROVE i + 1 \in T
  <2>1. at[a + i] = IF F(i) THEN next + i ELSE Refused
    BY <1>4
  <2>2. at[a + (i + 1)] = StepTakes(p.steps[a + (i + 1)], args, at[a + i])
    <3>1. a + i \in Nat /\ a + i < Len(p.steps) /\ (a + i) + 1 = a + (i + 1)
      BY <1>4
    <3> QED BY <1>1, <3>1
  <2>3. p.steps[a + (i + 1)].does = "pop"
    <3>1. i + 1 \in 1..j
      BY <1>4
    <3> QED BY <3>1
  <2>4. F(i + 1) <=> /\ F(i)
                     /\ next + i \in DOMAIN args
                     /\ args[next + i] \in p.steps[a + (i + 1)].accepts
    <3>1. \A k \in 1..(i + 1) : k \in 1..i \/ k = i + 1
      OBVIOUS
    <3>2. next + (i + 1) - 1 = next + i
      OBVIOUS
    <3>3. i + 1 \in 1..(i + 1) /\ \A k \in 1..i : k \in 1..(i + 1)
      OBVIOUS
    <3> QED BY <3>1, <3>2, <3>3 DEF Finds
  <2> HIDE DEF F
  <2>5. CASE F(i)
    <3>1. next + i # Refused
      BY DEF Refused
    <3>2. at[a + (i + 1)] = Pops(args, next + i, p.steps[a + (i + 1)].accepts)
      BY <2>1, <2>2, <2>3, <2>5, <3>1 DEF StepTakes
    <3>3. next + i + 1 = next + (i + 1)
      OBVIOUS
    <3> QED BY <1>4, <2>4, <2>5, <3>2, <3>3 DEF Pops
  <2>6. CASE ~F(i)
    <3>1. at[a + (i + 1)] = Refused
      BY <2>1, <2>2, <2>6 DEF StepTakes
    <3> QED BY <1>4, <2>4, <2>6, <3>1
  <2> QED BY <2>5, <2>6
<1>5. \A i \in 0..j : i \in T
  <2> HIDE DEF T
  <2> QED BY <1>3, <1>4, GoesOn
<1> QED BY <1>5 DEF at

(* What is refused stays refused. *)
LEMMA StaysRefused ==
    ASSUME NEW p, NEW args, Len(p.steps) \in Nat, NEW a \in Nat, NEW b \in Nat, a =< b,
           b =< Len(p.steps), AfterStep(p, args)[a] = Refused
    PROVE  AfterStep(p, args)[b] = Refused
<1> DEFINE at == AfterStep(p, args)
           j == b - a
           T == {i \in 0..j : at[a + i] = Refused}
<1>1. \A k \in Nat : k < Len(p.steps) => at[k + 1] = StepTakes(p.steps[k + 1], args, at[k])
  BY AfterEachStep
<1>2. 0 \in T
  OBVIOUS
<1> HIDE DEF at
<1>3. ASSUME NEW i \in Nat, i < j, i \in T PROVE i + 1 \in T
  <2>1. a + i \in Nat /\ a + i < Len(p.steps) /\ (a + i) + 1 = a + (i + 1)
    BY <1>3
  <2>2. at[a + (i + 1)] = StepTakes(p.steps[a + (i + 1)], args, at[a + i])
    BY <1>1, <2>1
  <2> QED BY <1>3, <2>2 DEF StepTakes
<1>4. \A i \in 0..j : i \in T
  <2>1. j \in Nat
    OBVIOUS
  <2> HIDE DEF T, j
  <2> QED BY <1>2, <1>3, <2>1, GoesOn
<1>5. j \in 0..j /\ a + j = b
  OBVIOUS
<1> QED BY <1>4, <1>5 DEF at

(* A parser that only pops takes the calls of the shape that its steps spell out. *)
Spells(c, p) ==
    /\ c.more = FALSE
    /\ Len(p.steps) \in Nat /\ DOMAIN p.steps = 1..Len(p.steps)
    /\ Len(c.shape) = Len(p.steps) + 1 /\ DOMAIN c.shape = 1..Len(c.shape)
    /\ c.shape[1] = {p.name}
    /\ \A i \in DOMAIN p.steps : p.steps[i].does = "pop" /\ c.shape[i + 1] = p.steps[i].accepts

LEMMA PopsWhatFits ==
    ASSUME NEW c, NEW p, Spells(c, p), NEW args \in Seq(Arguments)
    PROVE  Accepts(p, args) <=> Fits(c, args, 0)
<1> DEFINE n == Len(p.steps)
           m == Len(args)
           at == AfterStep(p, args)
           F == Finds(p, args, 0, 2, n)
<1>0. n \in Nat /\ m \in Nat /\ DOMAIN args = 1..m
  BY DEF Spells
<1>1. at[0] = IF 1 \in 1..m /\ args[1] = p.name THEN 2 ELSE 0
  BY <1>0, AfterEachStep DEF Pops, Refused
<1>2. CASE at[0] = 2
  <2>1. \A i \in 1..n : p.steps[0 + i].does = "pop"
    BY DEF Spells
  <2>2. at[n] = IF F THEN 2 + n ELSE Refused
    <3>1. n = 0 + n /\ n =< n /\ 2 \in Nat \ {0} /\ 0 \in Nat
      BY <1>0
    <3> QED BY <1>0, <1>2, <2>1, <3>1, PopsInTurn
  <2>3. Accepts(p, args) <=> F /\ n + 1 = m
    <3>1. Accepts(p, args) <=> at[n] = m + 1
      BY DEF Accepts
    <3>2. at[n] = IF F THEN 2 + n ELSE 0
      BY <1>0, <2>2 DEF Refused
    <3> HIDE DEF at, F, n, m
    <3> QED BY <1>0, <3>1, <3>2
  <2>4. F => \A i \in 1..n : args[i + 1] \in c.shape[i + 1]
    BY <1>0 DEF Finds, Spells
  <2>5. m = n + 1 /\ (\A i \in 1..n : args[i + 1] \in c.shape[i + 1]) => F
    <3> SUFFICES ASSUME m = n + 1, \A i \in 1..n : args[i + 1] \in c.shape[i + 1],
                        NEW i \in 1..n
                 PROVE  2 + i - 1 \in 1..m /\ args[2 + i - 1] \in p.steps[0 + i].accepts
      BY <1>0 DEF Finds
    <3>1. 2 + i - 1 = i + 1 /\ 0 + i = i /\ i + 1 \in 1..m
      BY <1>0
    <3> QED BY <3>1 DEF Spells
  <2>6. (\A i \in 1..n : args[i + 1] \in c.shape[i + 1])
        <=> \A i \in 1..(n + 1) : args[i] \in c.shape[i]
    <3>1. args[1] \in c.shape[1]
      BY <1>1, <1>2 DEF Spells
    <3>2. ASSUME \A i \in 1..n : args[i + 1] \in c.shape[i + 1], NEW i \in 1..(n + 1)
          PROVE  args[i] \in c.shape[i]
      <4>1. i = 1 \/ (i - 1 \in 1..n /\ i = (i - 1) + 1)
        BY <1>0
      <4> QED BY <3>1, <3>2, <4>1
    <3>3. \A i \in 1..n : i + 1 \in 1..(n + 1)
      BY <1>0
    <3> QED BY <3>2, <3>3
  <2>7. Fits(c, args, 0) <=> m = n + 1 /\ \A i \in 1..(n + 1) : args[i] \in c.shape[i]
    <3>1. /\ Len(c.shape) = n + 1 /\ DOMAIN c.shape = 1..(n + 1) /\ c.more = FALSE
      BY DEF Spells
    <3>2. \A i \in 1..(n + 1) : 0 + i = i
      BY <1>0
    <3>3. Fits(c, args, 0) <=> /\ m - 0 >= n + 1
                               /\ m - 0 = n + 1
                               /\ \A i \in 1..(n + 1) : args[0 + i] \in c.shape[i]
      BY <3>1 DEF Fits
    <3>4. (\A i \in 1..(n + 1) : args[0 + i] \in c.shape[i])
          <=> \A i \in 1..(n + 1) : args[i] \in c.shape[i]
      BY <3>2
    <3> HIDE DEF n, m
    <3> QED BY <1>0, <3>3, <3>4
  <2> QED BY <2>3, <2>4, <2>5, <2>6, <2>7
<1>3. CASE at[0] # 2
  <2>1. at[0] = Refused
    BY <1>1, <1>3 DEF Refused
  <2>2. at[n] = Refused
    <3>1. 0 =< n /\ n =< n
      BY <1>0
    <3> QED BY <1>0, <2>1, <3>1, StaysRefused
  <2>3. ~Accepts(p, args)
    <3>1. Accepts(p, args) <=> at[n] = m + 1
      BY DEF Accepts
    <3>2. at[n] = 0
      BY <1>0, <2>2 DEF Refused
    <3> HIDE DEF at, n, m
    <3> QED BY <1>0, <3>1, <3>2
  <2>4. ASSUME Fits(c, args, 0) PROVE FALSE
    <3>1. Len(c.shape) = n + 1 /\ DOMAIN c.shape = 1..(n + 1) /\ c.shape[1] = {p.name}
      BY DEF Spells
    <3>2. 1 \in 1..(n + 1)
      BY <1>0
    <3>3. m - 0 >= n + 1 /\ args[0 + 1] \in {p.name}
      BY <2>4, <3>1, <3>2 DEF Fits
    <3>4. 1 \in 1..m /\ args[1] = p.name
      BY <1>0, <3>3
    <3> QED BY <1>1, <1>3, <3>4
  <2> QED BY <2>3, <2>4
<1> QED BY <1>2, <1>3

(* What a step leaves, by its kind. *)
LEMMA StepByKind ==
    ASSUME NEW step, NEW args, NEW next
    PROVE  /\ StepTakes(step, args, Refused) = Refused
           /\ next # Refused /\ step.does = "pop" =>
                 StepTakes(step, args, next) = Pops(args, next, step.accepts)
           /\ next # Refused /\ step.does = "drain" => StepTakes(step, args, next) = Len(args) + 1
           /\ next # Refused /\ step.does = "option" =>
                 StepTakes(step, args, next) = IF next \in DOMAIN args /\ args[next] = step.flag
                                               THEN Pops(args, next + 1, step.accepts) ELSE next
<1>1. StepTakes(step, args, Refused) = Refused
  BY DEF StepTakes
<1>2. next # Refused /\ step.does = "pop" =>
                 StepTakes(step, args, next) = Pops(args, next, step.accepts)
  BY DEF StepTakes
<1>3. next # Refused /\ step.does = "drain" => StepTakes(step, args, next) = Len(args) + 1
  BY DEF StepTakes
<1>4. next # Refused /\ step.does = "option" =>
                 StepTakes(step, args, next) = IF next \in DOMAIN args /\ args[next] = step.flag
                                               THEN Pops(args, next + 1, step.accepts) ELSE next
  BY DEF StepTakes
<1> QED BY <1>1, <1>2, <1>3, <1>4

(* Every parser but those of display-message and split-window spells out one shape, and back. *)
Spelled(c, p) == c \in Inventory /\ p \in Parsers /\ c.as = p.as /\ Spells(c, p)

DisplayParser ==
    Parser("display-message", "DisplayMessage", <<IfFlag("-t", Ids), Flag("-p"), Pop(DisplayFields)>>)
Display == Call("DisplayMessage", <<{"display-message"}, {"-p"}, DisplayFields>>)
DisplayOf == Call("DisplayMessage", <<{"display-message"}, {"-t"}, Ids, {"-p"}, DisplayFields>>)

SplitParser ==
    Parser("split-window", "SplitWindow",
           <<Flag("-d"), Flag("-t"), Id, Pop({"-h", "-v"}), IfFlag("-l", Arguments), Flag("-P"),
             Flag("-F"), Flag("#{pane_id}"), Flag("--"), Drain>>)
Split == CallWithCommand("SplitWindow",
         <<{"split-window"}, {"-d"}, {"-t"}, Ids, {"-h", "-v"},
           {"-P"}, {"-F"}, {"#{pane_id}"}, {"--"}>>)
SplitSized == CallWithCommand("SplitWindow",
         <<{"split-window"}, {"-d"}, {"-t"}, Ids, {"-h", "-v"}, {"-l"}, Arguments,
           {"-P"}, {"-F"}, {"#{pane_id}"}, {"--"}>>)

LEMMA ShapesAreSpelled ==
    /\ \A p \in Parsers : p \notin {DisplayParser, SplitParser} => \E c : Spelled(c, p)
    /\ \A c \in Inventory : c \notin {Display, DisplayOf, Split, SplitSized} => \E p : Spelled(c, p)
<1> DEFINE p1 == Parser("show", "ShowMouse", <<Flag("-Av"), Flag("mouse")>>)
           c1 == Call("ShowMouse", <<{"show"}, {"-Av"}, {"mouse"}>>)
<1>1. Spelled(c1, p1)
  <2>1. c1 \in Inventory /\ p1 \in Parsers
    BY DEF Inventory, Parsers
  <2>2. /\ c1.as = p1.as /\ c1.more = FALSE /\ c1.shape[1] = {p1.name}
        /\ Len(p1.steps) = 2 /\ DOMAIN p1.steps = 1..2
        /\ Len(c1.shape) = 3 /\ DOMAIN c1.shape = 1..3
    BY DEF Pop, Flag, Id, Value, Parser, Call
  <2>3. /\ p1.steps[1].does = "pop" /\ c1.shape[2] = p1.steps[1].accepts
        /\ p1.steps[2].does = "pop" /\ c1.shape[3] = p1.steps[2].accepts
    BY DEF Pop, Flag, Id, Value, Parser, Call
  <2> HIDE DEF p1, c1
  <2> QED BY <2>1, <2>2, <2>3 DEF Spelled, Spells
<1> DEFINE p2 == Parser("show", "ShowFocusEvents", <<Flag("-gv"), Flag("focus-events")>>)
           c2 == Call("ShowFocusEvents", <<{"show"}, {"-gv"}, {"focus-events"}>>)
<1>2. Spelled(c2, p2)
  <2>1. c2 \in Inventory /\ p2 \in Parsers
    BY DEF Inventory, Parsers
  <2>2. /\ c2.as = p2.as /\ c2.more = FALSE /\ c2.shape[1] = {p2.name}
        /\ Len(p2.steps) = 2 /\ DOMAIN p2.steps = 1..2
        /\ Len(c2.shape) = 3 /\ DOMAIN c2.shape = 1..3
    BY DEF Pop, Flag, Id, Value, Parser, Call
  <2>3. /\ p2.steps[1].does = "pop" /\ c2.shape[2] = p2.steps[1].accepts
        /\ p2.steps[2].does = "pop" /\ c2.shape[3] = p2.steps[2].accepts
    BY DEF Pop, Flag, Id, Value, Parser, Call
  <2> HIDE DEF p2, c2
  <2> QED BY <2>1, <2>2, <2>3 DEF Spelled, Spells
<1> DEFINE p3 == Parser("list-panes", "ListPaneIds", <<Flag("-t"), Id, Flag("-F"), Flag("#{pane_id}")>>)
           c3 == Call("ListPaneIds", <<{"list-panes"}, {"-t"}, Ids, {"-F"}, {"#{pane_id}"}>>)
<1>3. Spelled(c3, p3)
  <2>1. c3 \in Inventory /\ p3 \in Parsers
    BY DEF Inventory, Parsers
  <2>2. /\ c3.as = p3.as /\ c3.more = FALSE /\ c3.shape[1] = {p3.name}
        /\ Len(p3.steps) = 4 /\ DOMAIN p3.steps = 1..4
        /\ Len(c3.shape) = 5 /\ DOMAIN c3.shape = 1..5
    BY DEF Pop, Flag, Id, Value, Parser, Call
  <2>3. /\ p3.steps[1].does = "pop" /\ c3.shape[2] = p3.steps[1].accepts
        /\ p3.steps[2].does = "pop" /\ c3.shape[3] = p3.steps[2].accepts
        /\ p3.steps[3].does = "pop" /\ c3.shape[4] = p3.steps[3].accepts
        /\ p3.steps[4].does = "pop" /\ c3.shape[5] = p3.steps[4].accepts
    BY DEF Pop, Flag, Id, Value, Parser, Call
  <2> HIDE DEF p3, c3
  <2> QED BY <2>1, <2>2, <2>3 DEF Spelled, Spells
<1> DEFINE p4 == Parser("select-pane", "SelectPaneTitle", <<Flag("-t"), Id, Flag("-T"), Value>>)
           c4 == Call("SelectPaneTitle", <<{"select-pane"}, {"-t"}, Ids, {"-T"}, Arguments>>)
<1>4. Spelled(c4, p4)
  <2>1. c4 \in Inventory /\ p4 \in Parsers
    BY DEF Inventory, Parsers
  <2>2. /\ c4.as = p4.as /\ c4.more = FALSE /\ c4.shape[1] = {p4.name}
        /\ Len(p4.steps) = 4 /\ DOMAIN p4.steps = 1..4
        /\ Len(c4.shape) = 5 /\ DOMAIN c4.shape = 1..5
    BY DEF Pop, Flag, Id, Value, Parser, Call
  <2>3. /\ p4.steps[1].does = "pop" /\ c4.shape[2] = p4.steps[1].accepts
        /\ p4.steps[2].does = "pop" /\ c4.shape[3] = p4.steps[2].accepts
        /\ p4.steps[3].does = "pop" /\ c4.shape[4] = p4.steps[3].accepts
        /\ p4.steps[4].does = "pop" /\ c4.shape[5] = p4.steps[4].accepts
    BY DEF Pop, Flag, Id, Value, Parser, Call
  <2> HIDE DEF p4, c4
  <2> QED BY <2>1, <2>2, <2>3 DEF Spelled, Spells
<1> DEFINE p5 == Parser("respawn-pane", "RespawnPane", <<Flag("-k"), Flag("-t"), Id, Flag("--"), Value>>)
           c5 == Call("RespawnPane", <<{"respawn-pane"}, {"-k"}, {"-t"}, Ids, {"--"}, Arguments>>)
<1>5. Spelled(c5, p5)
  <2>1. c5 \in Inventory /\ p5 \in Parsers
    BY DEF Inventory, Parsers
  <2>2. /\ c5.as = p5.as /\ c5.more = FALSE /\ c5.shape[1] = {p5.name}
        /\ Len(p5.steps) = 5 /\ DOMAIN p5.steps = 1..5
        /\ Len(c5.shape) = 6 /\ DOMAIN c5.shape = 1..6
    BY DEF Pop, Flag, Id, Value, Parser, Call
  <2>3. /\ p5.steps[1].does = "pop" /\ c5.shape[2] = p5.steps[1].accepts
        /\ p5.steps[2].does = "pop" /\ c5.shape[3] = p5.steps[2].accepts
        /\ p5.steps[3].does = "pop" /\ c5.shape[4] = p5.steps[3].accepts
        /\ p5.steps[4].does = "pop" /\ c5.shape[5] = p5.steps[4].accepts
        /\ p5.steps[5].does = "pop" /\ c5.shape[6] = p5.steps[5].accepts
    BY DEF Pop, Flag, Id, Value, Parser, Call
  <2> HIDE DEF p5, c5
  <2> QED BY <2>1, <2>2, <2>3 DEF Spelled, Spells
<1> DEFINE p6 == Parser("select-layout", "SelectLayout", <<Flag("-t"), Id, Value>>)
           c6 == Call("SelectLayout", <<{"select-layout"}, {"-t"}, Ids, Arguments>>)
<1>6. Spelled(c6, p6)
  <2>1. c6 \in Inventory /\ p6 \in Parsers
    BY DEF Inventory, Parsers
  <2>2. /\ c6.as = p6.as /\ c6.more = FALSE /\ c6.shape[1] = {p6.name}
        /\ Len(p6.steps) = 3 /\ DOMAIN p6.steps = 1..3
        /\ Len(c6.shape) = 4 /\ DOMAIN c6.shape = 1..4
    BY DEF Pop, Flag, Id, Value, Parser, Call
  <2>3. /\ p6.steps[1].does = "pop" /\ c6.shape[2] = p6.steps[1].accepts
        /\ p6.steps[2].does = "pop" /\ c6.shape[3] = p6.steps[2].accepts
        /\ p6.steps[3].does = "pop" /\ c6.shape[4] = p6.steps[3].accepts
    BY DEF Pop, Flag, Id, Value, Parser, Call
  <2> HIDE DEF p6, c6
  <2> QED BY <2>1, <2>2, <2>3 DEF Spelled, Spells
<1> DEFINE p7 == Parser("resize-pane", "ResizePane", <<Flag("-t"), Id, Flag("-x"), Value>>)
           c7 == Call("ResizePane", <<{"resize-pane"}, {"-t"}, Ids, {"-x"}, Arguments>>)
<1>7. Spelled(c7, p7)
  <2>1. c7 \in Inventory /\ p7 \in Parsers
    BY DEF Inventory, Parsers
  <2>2. /\ c7.as = p7.as /\ c7.more = FALSE /\ c7.shape[1] = {p7.name}
        /\ Len(p7.steps) = 4 /\ DOMAIN p7.steps = 1..4
        /\ Len(c7.shape) = 5 /\ DOMAIN c7.shape = 1..5
    BY DEF Pop, Flag, Id, Value, Parser, Call
  <2>3. /\ p7.steps[1].does = "pop" /\ c7.shape[2] = p7.steps[1].accepts
        /\ p7.steps[2].does = "pop" /\ c7.shape[3] = p7.steps[2].accepts
        /\ p7.steps[3].does = "pop" /\ c7.shape[4] = p7.steps[3].accepts
        /\ p7.steps[4].does = "pop" /\ c7.shape[5] = p7.steps[4].accepts
    BY DEF Pop, Flag, Id, Value, Parser, Call
  <2> HIDE DEF p7, c7
  <2> QED BY <2>1, <2>2, <2>3 DEF Spelled, Spells
<1> DEFINE p8 == Parser("kill-pane", "KillPane", <<Flag("-t"), Id>>)
           c8 == Call("KillPane", <<{"kill-pane"}, {"-t"}, Ids>>)
<1>8. Spelled(c8, p8)
  <2>1. c8 \in Inventory /\ p8 \in Parsers
    BY DEF Inventory, Parsers
  <2>2. /\ c8.as = p8.as /\ c8.more = FALSE /\ c8.shape[1] = {p8.name}
        /\ Len(p8.steps) = 2 /\ DOMAIN p8.steps = 1..2
        /\ Len(c8.shape) = 3 /\ DOMAIN c8.shape = 1..3
    BY DEF Pop, Flag, Id, Value, Parser, Call
  <2>3. /\ p8.steps[1].does = "pop" /\ c8.shape[2] = p8.steps[1].accepts
        /\ p8.steps[2].does = "pop" /\ c8.shape[3] = p8.steps[2].accepts
    BY DEF Pop, Flag, Id, Value, Parser, Call
  <2> HIDE DEF p8, c8
  <2> QED BY <2>1, <2>2, <2>3 DEF Spelled, Spells
<1> DEFINE p9 == ParseSetOption("-w", "pane-border-status", Flag("top"), "SetPaneBorderStatusTop")
           c9 == Call("SetPaneBorderStatusTop",
                      <<{"set-option"}, {"-w"}, {"-t"}, Ids, {"pane-border-status"}, {"top"}>>)
<1>9. Spelled(c9, p9)
  <2>1. c9 \in Inventory /\ p9 \in Parsers
    BY DEF Inventory, Parsers
  <2>2. /\ c9.as = p9.as /\ c9.more = FALSE /\ c9.shape[1] = {p9.name}
        /\ Len(p9.steps) = 5 /\ DOMAIN p9.steps = 1..5
        /\ Len(c9.shape) = 6 /\ DOMAIN c9.shape = 1..6
    BY DEF Pop, Flag, Id, Value, Parser, Call, ParseSetOption
  <2>3. /\ p9.steps[1].does = "pop" /\ c9.shape[2] = p9.steps[1].accepts
        /\ p9.steps[2].does = "pop" /\ c9.shape[3] = p9.steps[2].accepts
        /\ p9.steps[3].does = "pop" /\ c9.shape[4] = p9.steps[3].accepts
        /\ p9.steps[4].does = "pop" /\ c9.shape[5] = p9.steps[4].accepts
        /\ p9.steps[5].does = "pop" /\ c9.shape[6] = p9.steps[5].accepts
    BY DEF Pop, Flag, Id, Value, Parser, Call, ParseSetOption
  <2> HIDE DEF p9, c9
  <2> QED BY <2>1, <2>2, <2>3 DEF Spelled, Spells
<1> DEFINE ps(v) == ParseSetOption("-p", Styles[v], Value, v)
           cs(v) == Call(v, <<{"set-option"}, {"-p"}, {"-t"}, Ids, {Styles[v]}, Arguments>>)
<1>10. ASSUME NEW v \in DOMAIN Styles PROVE Spelled(cs(v), ps(v))
  <2>1. cs(v) \in Inventory /\ ps(v) \in Parsers
    BY DEF Inventory, Parsers
  <2>2. /\ cs(v).as = ps(v).as /\ cs(v).more = FALSE /\ cs(v).shape[1] = {ps(v).name}
        /\ Len(ps(v).steps) = 5 /\ DOMAIN ps(v).steps = 1..5
        /\ Len(cs(v).shape) = 6 /\ DOMAIN cs(v).shape = 1..6
    BY DEF Pop, Flag, Id, Value, Parser, Call, ParseSetOption
  <2>3. /\ ps(v).steps[1].does = "pop" /\ cs(v).shape[2] = ps(v).steps[1].accepts
        /\ ps(v).steps[2].does = "pop" /\ cs(v).shape[3] = ps(v).steps[2].accepts
        /\ ps(v).steps[3].does = "pop" /\ cs(v).shape[4] = ps(v).steps[3].accepts
        /\ ps(v).steps[4].does = "pop" /\ cs(v).shape[5] = ps(v).steps[4].accepts
        /\ ps(v).steps[5].does = "pop" /\ cs(v).shape[6] = ps(v).steps[5].accepts
    BY DEF Pop, Flag, Id, Value, Parser, Call, ParseSetOption
  <2> HIDE DEF ps, cs
  <2> QED BY <2>1, <2>2, <2>3 DEF Spelled, Spells
<1>11. ASSUME NEW p \in Parsers, p \notin {DisplayParser, SplitParser}
       PROVE  \E c : Spelled(c, p)
  <2>1. \/ p \in {p1, p2, p3, p4, p5, p6, p7, p8, p9}
        \/ \E v \in DOMAIN Styles : p = ps(v)
    BY <1>11, Zenon DEF Parsers, DisplayParser, SplitParser
  <2> HIDE DEF p1, p2, p3, p4, p5, p6, p7, p8, p9, ps
  <2> QED BY <1>1, <1>2, <1>3, <1>4, <1>5, <1>6, <1>7, <1>8, <1>9, <1>10, <2>1
<1>12. ASSUME NEW c \in Inventory, c \notin {Display, DisplayOf, Split, SplitSized}
       PROVE  \E p : Spelled(c, p)
  <2>1. \/ c \in {c1, c2, c3, c4, c5, c6, c7, c8, c9}
        \/ \E v \in DOMAIN Styles : c = cs(v)
    BY <1>12, Zenon DEF Inventory, Display, DisplayOf, Split, SplitSized
  <2> HIDE DEF c1, c2, c3, c4, c5, c6, c7, c8, c9, cs
  <2> QED BY <1>1, <1>2, <1>3, <1>4, <1>5, <1>6, <1>7, <1>8, <1>9, <1>10, <2>1
<1> QED BY <1>11, <1>12

(* display-message, with a target and without. *)
LEMMA DisplayFits ==
    ASSUME NEW args \in Seq(Arguments)
    PROVE  Accepts(DisplayParser, args) <=> Fits(Display, args, 0) \/ Fits(DisplayOf, args, 0)
<1> DEFINE p == DisplayParser
           m == Len(args)
           at == AfterStep(p, args)
           Has(i, S) == i =< m /\ args[i] \in S
<1>0. m \in Nat /\ DOMAIN args = 1..m
  OBVIOUS
<1>1. /\ Len(p.steps) = 3 /\ p.name = "display-message"
      /\ p.steps[1].does = "option" /\ p.steps[1].flag = "-t" /\ p.steps[1].accepts = Ids
      /\ p.steps[2].does = "pop" /\ p.steps[2].accepts = {"-p"}
      /\ p.steps[3].does = "pop" /\ p.steps[3].accepts = DisplayFields
  BY DEF DisplayParser, Parser, IfFlag, Flag, Pop
<1> HIDE DEF p
<1>2. at[0] = Pops(args, 1, {p.name})
      /\ \A k \in Nat : k < Len(p.steps) => at[k + 1] = StepTakes(p.steps[k + 1], args, at[k])
  <2>1. Len(p.steps) \in Nat
    BY <1>1
  <2> QED BY <2>1, AfterEachStep, Zenon
<1> HIDE DEF at
<1>3. /\ at[1] = StepTakes(p.steps[1], args, at[0])
      /\ at[2] = StepTakes(p.steps[2], args, at[1])
      /\ at[3] = StepTakes(p.steps[3], args, at[2])
  <2>1. 0 + 1 = 1 /\ 1 + 1 = 2 /\ 2 + 1 = 3 /\ 0 < 3 /\ 1 < 3 /\ 2 < 3
    OBVIOUS
  <2> QED BY <1>1, <1>2, <2>1
<1>4. Accepts(p, args) <=> at[3] = m + 1
  BY <1>1 DEF Accepts, at
<1>5. Fits(Display, args, 0) <=>
        m = 3 /\ args[1] = "display-message" /\ args[2] = "-p" /\ args[3] \in DisplayFields
  BY <1>0 DEF Fits, Display, Call
<1>6. Fits(DisplayOf, args, 0) <=>
        /\ m = 5 /\ args[1] = "display-message" /\ args[2] = "-t" /\ args[3] \in Ids
        /\ args[4] = "-p" /\ args[5] \in DisplayFields
  BY <1>0 DEF Fits, DisplayOf, Call
<1>7. \A i \in Nat \ {0} : \A S : Pops(args, i, S) = IF Has(i, S) THEN i + 1 ELSE 0
  BY <1>0 DEF Pops, Refused
<1>8. at[0] = IF Has(1, {"display-message"}) THEN 2 ELSE 0
  BY <1>1, <1>2, <1>7
<1>9. at[1] = IF at[0] = 0 THEN 0
              ELSE IF Has(2, {"-t"}) THEN IF Has(3, Ids) THEN 4 ELSE 0 ELSE 2
  <2>1. CASE at[0] = 0
    BY <1>3, <2>1, StepByKind DEF Refused
  <2>2. CASE at[0] = 2
    <3>1. at[1] = IF 2 \in DOMAIN args /\ args[2] = "-t" THEN Pops(args, 3, Ids) ELSE 2
      BY <1>1, <1>3, <2>2, StepByKind DEF Refused
    <3> QED BY <1>0, <1>7, <2>2, <3>1
  <2> QED BY <1>8, <2>1, <2>2
<1>10. \A i \in {2, 4} : at[1] = i =>
          at[3] = IF Has(i, {"-p"}) /\ Has(i + 1, DisplayFields) THEN i + 2 ELSE 0
  <2> SUFFICES ASSUME NEW i \in {2, 4}, at[1] = i
               PROVE  at[3] = IF Has(i, {"-p"}) /\ Has(i + 1, DisplayFields) THEN i + 2 ELSE 0
    OBVIOUS
  <2>1. at[2] = IF Has(i, {"-p"}) THEN i + 1 ELSE 0
    BY <1>1, <1>3, <1>7, StepByKind DEF Refused
  <2>2. CASE at[2] = 0
    BY <1>3, <2>1, <2>2, StepByKind DEF Refused
  <2>3. CASE at[2] = i + 1
    <3>1. at[3] = Pops(args, i + 1, DisplayFields)
      BY <1>1, <1>3, <2>3, StepByKind DEF Refused
    <3> QED BY <1>7, <2>1, <2>3, <3>1
  <2> QED BY <2>1, <2>2, <2>3
<1>11. at[1] = 0 => at[3] = 0
  BY <1>3, StepByKind DEF Refused
<1> HIDE DEF m
<1>12. CASE at[1] = 0
  BY <1>0, <1>4, <1>5, <1>6, <1>8, <1>9, <1>11, <1>12 DEF p
<1>13. CASE at[1] = 2
  BY <1>0, <1>4, <1>5, <1>6, <1>8, <1>9, <1>10, <1>13 DEF p
<1>14. CASE at[1] = 4
  BY <1>0, <1>4, <1>5, <1>6, <1>8, <1>9, <1>10, <1>14 DEF p
<1> QED BY <1>8, <1>9, <1>12, <1>13, <1>14

(* split-window, with a size and without. *)
LEMMA SplitFits ==
    ASSUME NEW args \in Seq(Arguments)
    PROVE  Accepts(SplitParser, args) <=> Fits(Split, args, 0) \/ Fits(SplitSized, args, 0)
<1> DEFINE p == SplitParser
           m == Len(args)
           at == AfterStep(p, args)
           Has(i, S) == i =< m /\ args[i] \in S
           Target == /\ Has(2, {"-d"}) /\ Has(3, {"-t"}) /\ Has(4, Ids) /\ Has(5, {"-h", "-v"})
           Rest(i) == /\ Has(i, {"-P"}) /\ Has(i + 1, {"-F"}) /\ Has(i + 2, {"#{pane_id}"})
                      /\ Has(i + 3, {"--"})
<1>0. m \in Nat /\ DOMAIN args = 1..m
  OBVIOUS
<1>1. Len(p.steps) = 10 /\ p.name = "split-window"
  BY DEF SplitParser, Parser
<1>2. /\ p.steps[1].does = "pop" /\ p.steps[1].accepts = {"-d"}
      /\ p.steps[2].does = "pop" /\ p.steps[2].accepts = {"-t"}
      /\ p.steps[3].does = "pop" /\ p.steps[3].accepts = Ids
      /\ p.steps[4].does = "pop" /\ p.steps[4].accepts = {"-h", "-v"}
      /\ p.steps[5].does = "option" /\ p.steps[5].flag = "-l" /\ p.steps[5].accepts = Arguments
  BY DEF SplitParser, Parser, IfFlag, Flag, Pop, Id
<1>3. /\ p.steps[6].does = "pop" /\ p.steps[6].accepts = {"-P"}
      /\ p.steps[7].does = "pop" /\ p.steps[7].accepts = {"-F"}
      /\ p.steps[8].does = "pop" /\ p.steps[8].accepts = {"#{pane_id}"}
      /\ p.steps[9].does = "pop" /\ p.steps[9].accepts = {"--"}
      /\ p.steps[10].does = "drain"
  BY DEF SplitParser, Parser, Flag, Pop, Drain
<1> HIDE DEF p
<1>4. Len(p.steps) \in Nat
  BY <1>1
<1>5. at[0] = Pops(args, 1, {p.name})
      /\ \A k \in Nat : k < Len(p.steps) => at[k + 1] = StepTakes(p.steps[k + 1], args, at[k])
  BY <1>4, AfterEachStep, Zenon
<1>6. Accepts(p, args) <=> at[10] = m + 1
  BY <1>1 DEF Accepts
<1>7. \A i \in Nat \ {0} : \A S : Pops(args, i, S) = IF Has(i, S) THEN i + 1 ELSE 0
  BY <1>0 DEF Pops, Refused
<1>8. at[0] = IF Has(1, {"split-window"}) THEN 2 ELSE 0
  <2> HIDE DEF at
  <2> QED BY <1>1, <1>5, <1>7
<1>9. at[0] = 2 => at[4] = IF Target THEN 6 ELSE 0
  <2> SUFFICES ASSUME at[0] = 2 PROVE at[4] = IF Target THEN 6 ELSE 0
    OBVIOUS
  <2>1. \A i \in 1..4 : p.steps[0 + i].does = "pop"
    BY <1>2
  <2>2. 4 = 0 + 4 /\ 4 =< Len(p.steps) /\ 0 \in Nat /\ 4 \in Nat /\ 2 \in Nat \ {0}
    BY <1>1
  <2>3. at[4] = IF Finds(p, args, 0, 2, 4) THEN 2 + 4 ELSE Refused
    BY <1>4, <2>1, <2>2, PopsInTurn
  <2>4. Finds(p, args, 0, 2, 4) <=> Target
    BY <1>0, <1>2 DEF Finds
  <2> HIDE DEF at
  <2> QED BY <2>3, <2>4 DEF Refused
<1>10. at[0] = 0 => at[10] = 0
  <2>1. 0 =< 10 /\ 10 =< Len(p.steps) /\ 0 \in Nat /\ 10 \in Nat
    BY <1>1
  <2>2. at[0] = Refused => at[10] = Refused
    BY <1>4, <2>1, StaysRefused, Zenon
  <2> HIDE DEF at
  <2> QED BY <2>2 DEF Refused
<1>11. at[4] = 0 => at[10] = 0
  <2>1. 4 =< 10 /\ 10 =< Len(p.steps) /\ 4 \in Nat /\ 10 \in Nat
    BY <1>1
  <2>2. at[4] = Refused => at[10] = Refused
    BY <1>4, <2>1, StaysRefused, Zenon
  <2> HIDE DEF at
  <2> QED BY <2>2 DEF Refused
<1>12. at[4] = 6 => at[5] = IF Has(6, {"-l"}) THEN IF Has(7, Arguments) THEN 8 ELSE 0 ELSE 6
  <2> HIDE DEF at
  <2> SUFFICES ASSUME at[4] = 6
               PROVE  at[5] = IF Has(6, {"-l"}) THEN IF Has(7, Arguments) THEN 8 ELSE 0 ELSE 6
    OBVIOUS
  <2>1. at[5] = StepTakes(p.steps[5], args, at[4])
    <3>1. 4 + 1 = 5 /\ 4 \in Nat /\ 4 < Len(p.steps)
      BY <1>1
    <3> QED BY <1>5, <3>1
  <2>2. at[5] = IF 6 \in DOMAIN args /\ args[6] = "-l" THEN Pops(args, 7, Arguments) ELSE 6
    BY <1>2, <2>1, StepByKind DEF Refused
  <2> QED BY <1>0, <1>7, <2>2
<1>13. at[5] = 0 => at[10] = 0
  <2>1. 5 =< 10 /\ 10 =< Len(p.steps) /\ 5 \in Nat /\ 10 \in Nat
    BY <1>1
  <2>2. at[5] = Refused => at[10] = Refused
    BY <1>4, <2>1, StaysRefused, Zenon
  <2> HIDE DEF at
  <2> QED BY <2>2 DEF Refused
<1>14. ASSUME NEW i \in {6, 8}, at[5] = i PROVE at[9] = IF Rest(i) THEN i + 4 ELSE 0
  <2>1. \A k \in 1..4 : p.steps[5 + k].does = "pop"
    <3>1. \A k \in 1..4 : k = 1 \/ k = 2 \/ k = 3 \/ k = 4
      OBVIOUS
    <3>2. 5 + 1 = 6 /\ 5 + 2 = 7 /\ 5 + 3 = 8 /\ 5 + 4 = 9
      OBVIOUS
    <3> QED BY <1>3, <3>1, <3>2
  <2>2. /\ 9 = 5 + 4 /\ 9 =< Len(p.steps) /\ 5 \in Nat /\ 4 \in Nat /\ 9 \in Nat
        /\ i \in Nat \ {0}
    BY <1>1
  <2>3. at[9] = IF Finds(p, args, 5, i, 4) THEN i + 4 ELSE Refused
    <3>1. at[5] = i
      BY <1>14
    <3> QED BY <1>4, <2>1, <2>2, <3>1, PopsInTurn, SMTT(40)
  <2>4. Finds(p, args, 5, i, 4) <=> Rest(i)
    <3>1. \A k \in 1..4 : k = 1 \/ k = 2 \/ k = 3 \/ k = 4
      OBVIOUS
    <3>2. /\ 5 + 1 = 6 /\ 5 + 2 = 7 /\ 5 + 3 = 8 /\ 5 + 4 = 9
          /\ i + 1 - 1 = i /\ i + 2 - 1 = i + 1 /\ i + 3 - 1 = i + 2 /\ i + 4 - 1 = i + 3
          /\ i \in 1..m <=> i =< m
          /\ i + 1 \in 1..m <=> i + 1 =< m
          /\ i + 2 \in 1..m <=> i + 2 =< m
          /\ i + 3 \in 1..m <=> i + 3 =< m
      BY <1>0
    <3>3. Finds(p, args, 5, i, 4) <=>
            /\ i + 1 - 1 \in 1..m /\ args[i + 1 - 1] \in p.steps[5 + 1].accepts
            /\ i + 2 - 1 \in 1..m /\ args[i + 2 - 1] \in p.steps[5 + 2].accepts
            /\ i + 3 - 1 \in 1..m /\ args[i + 3 - 1] \in p.steps[5 + 3].accepts
            /\ i + 4 - 1 \in 1..m /\ args[i + 4 - 1] \in p.steps[5 + 4].accepts
      BY <1>0, <3>1 DEF Finds
    <3>4. Finds(p, args, 5, i, 4) <=>
            /\ i \in 1..m /\ args[i] \in {"-P"}
            /\ i + 1 \in 1..m /\ args[i + 1] \in {"-F"}
            /\ i + 2 \in 1..m /\ args[i + 2] \in {"#{pane_id}"}
            /\ i + 3 \in 1..m /\ args[i + 3] \in {"--"}
      BY <1>3, <3>2, <3>3
    <3> QED BY <3>2, <3>4
  <2> HIDE DEF at
  <2> QED BY <2>3, <2>4 DEF Refused
<1>15. at[10] = IF at[9] = 0 THEN 0 ELSE m + 1
  <2> HIDE DEF at
  <2>1. at[10] = StepTakes(p.steps[10], args, at[9])
    <3>1. 9 + 1 = 10 /\ 9 \in Nat /\ 9 < Len(p.steps)
      BY <1>1
    <3> QED BY <1>5, <3>1
  <2>2. CASE at[9] = Refused
    BY <2>1, <2>2, StepByKind DEF Refused
  <2>3. CASE at[9] # Refused
    <3>1. p.steps[10].does = "drain" /\ at[9] # Refused
      BY <1>3, <2>3
    <3>2. StepTakes(p.steps[10], args, at[9]) = Len(args) + 1
      BY <3>1, StepByKind
    <3> QED BY <2>1, <2>3, <3>2 DEF Refused
  <2> QED BY <2>2, <2>3
<1>16. Fits(Split, args, 0) <=> Has(1, {"split-window"}) /\ Target /\ Rest(6)
  <2>1. /\ Split.more = TRUE /\ Len(Split.shape) = 9 /\ DOMAIN Split.shape = 1..9
        /\ Split.shape[1] = {"split-window"} /\ Split.shape[2] = {"-d"} /\ Split.shape[3] = {"-t"}
        /\ Split.shape[4] = Ids /\ Split.shape[5] = {"-h", "-v"}
        /\ Split.shape[6] = {"-P"} /\ Split.shape[7] = {"-F"}
        /\ Split.shape[8] = {"#{pane_id}"} /\ Split.shape[9] = {"--"}
    BY DEF Split, CallWithCommand
  <2>2. \A i \in 1..9 : i = 1 \/ i = 2 \/ i = 3 \/ i = 4 \/ i = 5 \/ i = 6 \/ i = 7 \/ i = 8 \/ i = 9
    OBVIOUS
  <2> HIDE DEF Has
  <2>3. (\A i \in 1..9 : args[0 + i] \in Split.shape[i]) <=>
           /\ args[1] \in Split.shape[1] /\ args[2] \in Split.shape[2] /\ args[3] \in Split.shape[3]
           /\ args[4] \in Split.shape[4] /\ args[5] \in Split.shape[5] /\ args[6] \in Split.shape[6]
           /\ args[7] \in Split.shape[7] /\ args[8] \in Split.shape[8] /\ args[9] \in Split.shape[9]
    <3>1. \A i \in 1..9 : 0 + i = i
      OBVIOUS
    <3> QED BY <2>2, <3>1
  <2>4. Fits(Split, args, 0) <=> m - 0 >= 9 /\ \A i \in 1..9 : args[0 + i] \in Split.shape[i]
    BY <2>1 DEF Fits
  <2>5. 9 =< m => 1 =< m /\ 2 =< m /\ 3 =< m /\ 4 =< m /\ 5 =< m /\ 6 =< m /\ 7 =< m /\ 8 =< m
    BY <1>0
  <2>6. 6 + 1 = 7 /\ 6 + 2 = 8 /\ 6 + 3 = 9
    OBVIOUS
  <2>7. m - 0 >= 9 <=> 9 =< m
    BY <1>0
  <2> HIDE DEF m
  <2> QED BY <2>1, <2>3, <2>4, <2>5, <2>6, <2>7 DEF Has
<1>17. Fits(SplitSized, args, 0) <=>
         /\ Has(1, {"split-window"}) /\ Target /\ Has(6, {"-l"}) /\ Has(7, Arguments) /\ Rest(8)
  <2> DEFINE c == SplitSized
  <2>1. /\ c.more = TRUE /\ Len(c.shape) = 11 /\ DOMAIN c.shape = 1..11
        /\ c.shape[1] = {"split-window"} /\ c.shape[2] = {"-d"} /\ c.shape[3] = {"-t"}
        /\ c.shape[4] = Ids /\ c.shape[5] = {"-h", "-v"} /\ c.shape[6] = {"-l"}
        /\ c.shape[7] = Arguments /\ c.shape[8] = {"-P"} /\ c.shape[9] = {"-F"}
        /\ c.shape[10] = {"#{pane_id}"} /\ c.shape[11] = {"--"}
    BY DEF SplitSized, CallWithCommand
  <2>2. \A i \in 1..11 : \/ i = 1 \/ i = 2 \/ i = 3 \/ i = 4 \/ i = 5 \/ i = 6
                       \/ i = 7 \/ i = 8 \/ i = 9 \/ i = 10 \/ i = 11
    OBVIOUS
  <2> HIDE DEF Has
  <2>3. (\A i \in 1..11 : args[0 + i] \in c.shape[i]) <=>
           /\ args[1] \in c.shape[1] /\ args[2] \in c.shape[2] /\ args[3] \in c.shape[3]
           /\ args[4] \in c.shape[4] /\ args[5] \in c.shape[5] /\ args[6] \in c.shape[6]
           /\ args[7] \in c.shape[7] /\ args[8] \in c.shape[8] /\ args[9] \in c.shape[9]
           /\ args[10] \in c.shape[10] /\ args[11] \in c.shape[11]
    <3>1. \A i \in 1..11 : 0 + i = i
      OBVIOUS
    <3> QED BY <2>2, <3>1
  <2>4. Fits(c, args, 0) <=> m - 0 >= 11 /\ \A i \in 1..11 : args[0 + i] \in c.shape[i]
    BY <2>1 DEF Fits
  <2>5. 11 =< m => 1 =< m /\ 2 =< m /\ 3 =< m /\ 4 =< m /\ 5 =< m /\ 6 =< m /\ 7 =< m /\ 8 =< m /\ 9 =< m /\ 10 =< m
    BY <1>0
  <2>6. 8 + 1 = 9 /\ 8 + 2 = 10 /\ 8 + 3 = 11
    OBVIOUS
  <2>7. m - 0 >= 11 <=> 11 =< m
    BY <1>0
  <2> HIDE DEF m
  <2> QED BY <2>1, <2>3, <2>4, <2>5, <2>6, <2>7 DEF Has
<1>18. Rest(6) => ~Has(6, {"-l"})
  OBVIOUS
<1> HIDE DEF m, at, Has, Target, Rest
<1>21. CASE at[0] = 0
  BY <1>0, <1>6, <1>8, <1>10, <1>16, <1>17, <1>21 DEF p
<1>22. CASE at[0] = 2 /\ at[4] = 0
  BY <1>0, <1>6, <1>9, <1>11, <1>16, <1>17, <1>22 DEF p
<1>23. CASE at[0] = 2 /\ at[4] = 6 /\ at[5] = 0
  BY <1>0, <1>6, <1>9, <1>12, <1>13, <1>16, <1>17, <1>18, <1>23 DEF p
<1>24. CASE at[0] = 2 /\ at[4] = 6 /\ at[5] = 6
  BY <1>0, <1>6, <1>8, <1>9, <1>12, <1>14, <1>15, <1>16, <1>17, <1>24 DEF p
<1>25. CASE at[0] = 2 /\ at[4] = 6 /\ at[5] = 8
  BY <1>0, <1>6, <1>8, <1>9, <1>12, <1>14, <1>15, <1>16, <1>17, <1>18, <1>25 DEF p
<1> QED BY <1>8, <1>9, <1>12, <1>21, <1>22, <1>23, <1>24, <1>25

(* What a call is for is told by its first argument, or also by its second or its fifth. *)
VerbOf(first, second, fifth) ==
    CASE first = "show" -> (IF second = "-Av" THEN "ShowMouse" ELSE "ShowFocusEvents")
      [] first = "display-message" -> "DisplayMessage"
      [] first = "list-panes" -> "ListPaneIds"
      [] first = "split-window" -> "SplitWindow"
      [] first = "set-option" -> (IF fifth = "pane-border-status" THEN "SetPaneBorderStatusTop"
                                  ELSE CHOOSE v \in DOMAIN Styles : Styles[v] = fifth)
      [] first = "select-pane" -> "SelectPaneTitle"
      [] first = "respawn-pane" -> "RespawnPane"
      [] first = "select-layout" -> "SelectLayout"
      [] first = "resize-pane" -> "ResizePane"
      [] first = "kill-pane" -> "KillPane"

Tells(c) ==
    \A first \in c.shape[1], second \in c.shape[2] : \A fifth :
        (Len(c.shape) >= 5 => fifth \in c.shape[5]) =>
            first \notin Globals /\ c.as = VerbOf(first, second, fifth)

WellShaped(c) ==
    /\ Len(c.shape) \in Nat /\ Len(c.shape) >= 3 /\ DOMAIN c.shape = 1..Len(c.shape)
    /\ Tells(c)

LEMMA ShapesTell == \A c \in Inventory : WellShaped(c)
<1> SUFFICES ASSUME NEW c \in Inventory PROVE WellShaped(c)
  OBVIOUS
<1>1. CASE c = Call("ShowMouse", <<{"show"}, {"-Av"}, {"mouse"}>>)
  <2>1. Len(c.shape) = 3 /\ DOMAIN c.shape = 1..3
    BY <1>1 DEF Call
  <2>2. Tells(c)
    BY <1>1 DEF Call, Tells, VerbOf, Globals
  <2> QED BY <2>1, <2>2 DEF WellShaped
<1>2. CASE c = Call("ShowFocusEvents", <<{"show"}, {"-gv"}, {"focus-events"}>>)
  <2>1. Len(c.shape) = 3 /\ DOMAIN c.shape = 1..3
    BY <1>2 DEF Call
  <2>2. Tells(c)
    BY <1>2 DEF Call, Tells, VerbOf, Globals
  <2> QED BY <2>1, <2>2 DEF WellShaped
<1>3. CASE c = Call("DisplayMessage", <<{"display-message"}, {"-p"}, DisplayFields>>)
  <2>1. Len(c.shape) = 3 /\ DOMAIN c.shape = 1..3
    BY <1>3 DEF Call
  <2>2. Tells(c)
    BY <1>3 DEF Call, Tells, VerbOf, Globals
  <2> QED BY <2>1, <2>2 DEF WellShaped
<1>4. CASE c = Call("DisplayMessage", <<{"display-message"}, {"-t"}, Ids, {"-p"}, DisplayFields>>)
  <2>1. Len(c.shape) = 5 /\ DOMAIN c.shape = 1..5
    BY <1>4 DEF Call
  <2>2. Tells(c)
    BY <1>4 DEF Call, Tells, VerbOf, Globals
  <2> QED BY <2>1, <2>2 DEF WellShaped
<1>5. CASE c = Call("ListPaneIds", <<{"list-panes"}, {"-t"}, Ids, {"-F"}, {"#{pane_id}"}>>)
  <2>1. Len(c.shape) = 5 /\ DOMAIN c.shape = 1..5
    <3>1. PICK f : c = Call("ListPaneIds", <<{"list-panes"}, {"-t"}, Ids, {"-F"}, {f}>>)
      BY <1>5, Zenon
    <3> QED BY <3>1 DEF Call
  <2>2. Tells(c)
    BY <1>5 DEF Call, Tells, VerbOf, Globals
  <2> QED BY <2>1, <2>2 DEF WellShaped
<1>6. CASE c = Split
  <2>1. Len(c.shape) = 9 /\ DOMAIN c.shape = 1..9
    <3>1. PICK f : c.shape = <<{"split-window"}, {"-d"}, {"-t"}, Ids, {"-h", "-v"},
                               {"-P"}, {"-F"}, {f}, {"--"}>>
      BY <1>6, Zenon DEF Split, CallWithCommand
    <3> QED BY <3>1
  <2>2. Tells(c)
    BY <1>6 DEF Split, CallWithCommand, Tells, VerbOf, Globals
  <2> QED BY <2>1, <2>2 DEF WellShaped
<1>7. CASE c = SplitSized
  <2>1. Len(c.shape) = 11 /\ DOMAIN c.shape = 1..11
    <3>1. PICK f : c.shape = <<{"split-window"}, {"-d"}, {"-t"}, Ids, {"-h", "-v"}, {"-l"},
                               Arguments, {"-P"}, {"-F"}, {f}, {"--"}>>
      BY <1>7, Zenon DEF SplitSized, CallWithCommand
    <3> QED BY <3>1
  <2>2. Tells(c)
    BY <1>7 DEF SplitSized, CallWithCommand, Tells, VerbOf, Globals
  <2> QED BY <2>1, <2>2 DEF WellShaped
<1>8. CASE c = Call("SetPaneBorderStatusTop",
                 <<{"set-option"}, {"-w"}, {"-t"}, Ids, {"pane-border-status"}, {"top"}>>)
  <2>1. Len(c.shape) = 6 /\ DOMAIN c.shape = 1..6
    BY <1>8 DEF Call
  <2>2. Tells(c)
    BY <1>8 DEF Call, Tells, VerbOf, Globals
  <2> QED BY <2>1, <2>2 DEF WellShaped
<1>9. CASE c = Call("SelectPaneTitle", <<{"select-pane"}, {"-t"}, Ids, {"-T"}, Arguments>>)
  <2>1. Len(c.shape) = 5 /\ DOMAIN c.shape = 1..5
    BY <1>9 DEF Call
  <2>2. Tells(c)
    BY <1>9 DEF Call, Tells, VerbOf, Globals
  <2> QED BY <2>1, <2>2 DEF WellShaped
<1>10. CASE c = Call("RespawnPane", <<{"respawn-pane"}, {"-k"}, {"-t"}, Ids, {"--"}, Arguments>>)
  <2>1. Len(c.shape) = 6 /\ DOMAIN c.shape = 1..6
    BY <1>10 DEF Call
  <2>2. Tells(c)
    BY <1>10 DEF Call, Tells, VerbOf, Globals
  <2> QED BY <2>1, <2>2 DEF WellShaped
<1>11. CASE c = Call("SelectLayout", <<{"select-layout"}, {"-t"}, Ids, Arguments>>)
  <2>1. Len(c.shape) = 4 /\ DOMAIN c.shape = 1..4
    BY <1>11 DEF Call
  <2>2. Tells(c)
    BY <1>11 DEF Call, Tells, VerbOf, Globals
  <2> QED BY <2>1, <2>2 DEF WellShaped
<1>12. CASE c = Call("ResizePane", <<{"resize-pane"}, {"-t"}, Ids, {"-x"}, Arguments>>)
  <2>1. Len(c.shape) = 5 /\ DOMAIN c.shape = 1..5
    BY <1>12 DEF Call
  <2>2. Tells(c)
    BY <1>12 DEF Call, Tells, VerbOf, Globals
  <2> QED BY <2>1, <2>2 DEF WellShaped
<1>13. CASE c = Call("KillPane", <<{"kill-pane"}, {"-t"}, Ids>>)
  <2>1. Len(c.shape) = 3 /\ DOMAIN c.shape = 1..3
    BY <1>13 DEF Call
  <2>2. Tells(c)
    BY <1>13 DEF Call, Tells, VerbOf, Globals
  <2> QED BY <2>1, <2>2 DEF WellShaped
<1>14. ASSUME NEW v \in DOMAIN Styles,
              c = Call(v, <<{"set-option"}, {"-p"}, {"-t"}, Ids, {Styles[v]}, Arguments>>)
       PROVE  WellShaped(c)
  <2>1. Len(c.shape) = 6 /\ DOMAIN c.shape = 1..6
    BY <1>14 DEF Call
  <2>2. Styles[v] # "pane-border-status" /\ \A w \in DOMAIN Styles : Styles[w] = Styles[v] => w = v
    BY DEF Styles
  <2>3. c.as = v /\ c.shape[1] = {"set-option"} /\ c.shape[5] = {Styles[v]}
    BY <1>14 DEF Call
  <2>4. Tells(c)
    <3>1. \A second : VerbOf("set-option", second, Styles[v]) = v
      BY <2>2 DEF VerbOf
    <3> QED BY <2>1, <2>3, <3>1 DEF Tells, Globals
  <2> QED BY <2>1, <2>4 DEF WellShaped
<1> QED BY <1>1, <1>2, <1>3, <1>4, <1>5, <1>6, <1>7, <1>8, <1>9, <1>10, <1>11, <1>12, <1>13, <1>14,
           Zenon DEF Inventory, Split, SplitSized

(* No arguments are calls of two shapes with different verbs. *)
LEMMA OneVerbFits ==
    ASSUME NEW args, NEW from \in Nat, NEW c \in Inventory, NEW d \in Inventory,
           Fits(c, args, from), Fits(d, args, from)
    PROVE  c.as = d.as
<1> DEFINE verb == VerbOf(args[from + 1], args[from + 2], args[from + 5])
<1>1. ASSUME NEW e \in Inventory, Fits(e, args, from) PROVE e.as = verb
  <2>1. WellShaped(e)
    BY ShapesTell
  <2>2. 1 \in DOMAIN e.shape /\ 2 \in DOMAIN e.shape /\ (Len(e.shape) >= 5 => 5 \in DOMAIN e.shape)
    BY <2>1 DEF WellShaped
  <2>3. args[from + 1] \in e.shape[1] /\ args[from + 2] \in e.shape[2]
        /\ (Len(e.shape) >= 5 => args[from + 5] \in e.shape[5])
    BY <1>1, <2>2 DEF Fits
  <2> QED BY <2>1, <2>3 DEF WellShaped, Tells
<1> QED BY <1>1

-----------------------------------------------------------------------------
(* The global flags in front. *)

LEMMA GlobalsSkipped ==
    ASSUME NEW args \in Seq(Arguments)
    PROVE  \E n \in 0..Len(args) :
              /\ PairsInFront(args, n) /\ ~PairsInFront(args, n + 1)
              /\ SkipGlobals(args) = SubSeq(args, 2 * n + 1, Len(args))
<1> DEFINE m == Len(args)
           S == {k \in Nat : ~PairsInFront(args, k + 1)}
<1>1. m \in Nat
  OBVIOUS
<1>2. m \in S
  BY <1>1 DEF PairsInFront
<1>3. PICK n \in S : \A q \in S : n =< q
  <2>1. S \subseteq Nat /\ S # {}
    BY <1>2
  <2> HIDE DEF S
  <2> QED BY <2>1, LeastExists
<1>4. n \in 0..m /\ ~PairsInFront(args, n + 1)
  BY <1>1, <1>2, <1>3
<1>5. PairsInFront(args, n)
  <2>1. CASE n = 0
    BY <1>1, <2>1 DEF PairsInFront
  <2>2. CASE n # 0
    <3>1. n - 1 \in Nat /\ ~(n =< n - 1) /\ (n - 1) + 1 = n
      BY <1>4, <2>2
    <3> QED BY <1>3, <3>1
  <2> QED BY <2>1, <2>2
<1> DEFINE P(k) == PairsInFront(args, k) /\ ~PairsInFront(args, k + 1)
           x == CHOOSE k \in 0..m : P(k)
<1>6. x \in 0..m /\ P(x)
  <2>1. \E k \in 0..m : P(k)
    BY <1>4, <1>5
  <2> HIDE DEF P, m
  <2> QED BY <2>1
<1>7. SkipGlobals(args) = SubSeq(args, 2 * x + 1, m)
  BY DEF SkipGlobals
<1> HIDE DEF x
<1> QED BY <1>6, <1>7

(* A call begins after all of them. *)
LEMMA CallsFollowGlobals ==
    ASSUME NEW args \in Seq(Arguments), NEW n \in 0..Len(args), NEW k \in 0..Len(args),
           PairsInFront(args, n), ~PairsInFront(args, n + 1), PairsInFront(args, k),
           NEW c \in Inventory, Fits(c, args, 2 * k)
    PROVE  k = n
<1> DEFINE m == Len(args)
<1>1. m \in Nat /\ n \in Nat /\ k \in Nat
  OBVIOUS
<1>2. args[2 * k + 1] \notin Globals /\ m - 2 * k >= 3
  <2>1. WellShaped(c)
    BY ShapesTell
  <2>2. 1 \in DOMAIN c.shape /\ 2 \in DOMAIN c.shape /\ (Len(c.shape) >= 5 => 5 \in DOMAIN c.shape)
    BY <2>1 DEF WellShaped
  <2>3. /\ args[2 * k + 1] \in c.shape[1] /\ args[2 * k + 2] \in c.shape[2]
        /\ (Len(c.shape) >= 5 => args[2 * k + 5] \in c.shape[5])
    BY <2>2 DEF Fits
  <2>4. args[2 * k + 1] \notin Globals
    BY <2>1, <2>3 DEF WellShaped, Tells
  <2>5. m - 2 * k >= Len(c.shape)
    BY DEF Fits
  <2>6. Len(c.shape) \in Nat /\ Len(c.shape) >= 3
    BY <2>1 DEF WellShaped
  <2> HIDE DEF m
  <2>7. m - 2 * k \in Int
    BY <1>1
  <2>8. m - 2 * k >= 3
    BY <2>5, <2>6, <2>7
  <2> QED BY <2>4, <2>8
<1>3. ~(k < n)
  <2> SUFFICES ASSUME k < n PROVE FALSE
    OBVIOUS
  <2>1. k \in 0..n - 1
    BY <1>1
  <2> QED BY <1>2, <2>1 DEF PairsInFront
<1>4. ~(n < k)
  <2> SUFFICES ASSUME n < k PROVE FALSE
    OBVIOUS
  <2>1. 2 * (n + 1) =< m
    BY <1>1 DEF PairsInFront
  <2>2. \A i \in 0..(n + 1) - 1 : i \in 0..k - 1
    BY <1>1
  <2> QED BY <2>1, <2>2 DEF PairsInFront
<1> QED BY <1>1, <1>3, <1>4

(* What is left after them fits as it did behind them. *)
LEMMA FitsBehind ==
    ASSUME NEW args \in Seq(Arguments), NEW n \in 0..Len(args), PairsInFront(args, n),
           NEW c \in Inventory
    PROVE  LET rest == SubSeq(args, 2 * n + 1, Len(args)) IN
           rest \in Seq(Arguments) /\ (Fits(c, rest, 0) <=> Fits(c, args, 2 * n))
<1> DEFINE m == Len(args)
           rest == SubSeq(args, 2 * n + 1, m)
<1>1. m \in Nat /\ n \in Nat /\ 2 * n =< m
  BY DEF PairsInFront
<1>2. /\ rest \in Seq(Arguments)
      /\ Len(rest) = m - 2 * n
      /\ \A i \in 1..(m - 2 * n) : rest[i] = args[2 * n + i]
  <2>1. 2 * n + 1 \in 1..(m + 1) /\ m \in (2 * n + 1) - 1..m
    BY <1>1
  <2>2. rest = [i \in 1..(m - 2 * n) |-> args[2 * n + i]]
    BY <1>1
  <2>3. \A i \in 1..(m - 2 * n) : 2 * n + i \in 1..m
    BY <1>1
  <2>4. \A i \in 1..m : args[i] \in Arguments
    OBVIOUS
  <2> HIDE DEF rest, m
  <2>5. m - 2 * n \in Nat
    BY <1>1
  <2>6. rest \in [1..(m - 2 * n) -> Arguments]
    BY <2>2, <2>3, <2>4
  <2>7. rest \in Seq(Arguments)
    BY <2>5, <2>6
  <2>8. DOMAIN rest = 1..(m - 2 * n)
    BY <2>2
  <2>9. Len(rest) = m - 2 * n
    BY <2>5, <2>7, <2>8
  <2>10. \A i \in 1..(m - 2 * n) : rest[i] = args[2 * n + i]
    BY <2>2
  <2> QED BY <2>7, <2>9, <2>10
<1> HIDE DEF rest, m
<1>3. WellShaped(c)
  BY ShapesTell
<1>4. Fits(c, rest, 0) <=> Fits(c, args, 2 * n)
  <2>1. Fits(c, rest, 0) <=>
           /\ (m - 2 * n) - 0 >= Len(c.shape)
           /\ ~c.more => (m - 2 * n) - 0 = Len(c.shape)
           /\ \A i \in DOMAIN c.shape : rest[0 + i] \in c.shape[i]
    BY <1>2 DEF Fits
  <2>2. Fits(c, args, 2 * n) <=>
           /\ m - 2 * n >= Len(c.shape)
           /\ ~c.more => m - 2 * n = Len(c.shape)
           /\ \A i \in DOMAIN c.shape : args[2 * n + i] \in c.shape[i]
    BY DEF Fits, m
  <2>3. (m - 2 * n) - 0 = m - 2 * n
    BY <1>1
  <2>4. m - 2 * n >= Len(c.shape) =>
           \A i \in DOMAIN c.shape : rest[0 + i] = args[2 * n + i]
    BY <1>1, <1>2, <1>3 DEF WellShaped
  <2> QED BY <2>1, <2>2, <2>3, <2>4
<1> QED BY <1>2, <1>4 DEF rest, m

-----------------------------------------------------------------------------

(* The parser takes what fits the inventory. *)
LEMMA AcceptsWhatFits ==
    ASSUME NEW args \in Seq(Arguments)
    PROVE  /\ \A p \in Parsers : Accepts(p, args) =>
                 \E c \in Inventory : c.as = p.as /\ Fits(c, args, 0)
           /\ \A c \in Inventory : Fits(c, args, 0) =>
                 \E p \in Parsers : p.as = c.as /\ Accepts(p, args)
<1>1. /\ {Display, DisplayOf, Split, SplitSized} \subseteq Inventory
      /\ {DisplayParser, SplitParser} \subseteq Parsers
  BY Zenon DEF Inventory, Parsers, Display, DisplayOf, Split, SplitSized, DisplayParser, SplitParser
<1>2. /\ DisplayParser.as = "DisplayMessage" /\ Display.as = "DisplayMessage"
      /\ DisplayOf.as = "DisplayMessage"
  BY DEF DisplayParser, Display, DisplayOf, Parser, Call
<1>3. SplitParser.as = "SplitWindow" /\ Split.as = "SplitWindow" /\ SplitSized.as = "SplitWindow"
  BY Zenon DEF SplitParser, Split, SplitSized, Parser, CallWithCommand
<1>4. ASSUME NEW p \in Parsers, Accepts(p, args)
      PROVE  \E c \in Inventory : c.as = p.as /\ Fits(c, args, 0)
  <2>1. CASE p = DisplayParser
    BY <1>1, <1>2, <1>4, <2>1, DisplayFits
  <2>2. CASE p = SplitParser
    BY <1>1, <1>3, <1>4, <2>2, SplitFits
  <2>3. CASE p \notin {DisplayParser, SplitParser}
    <3>1. PICK c : Spelled(c, p)
      BY <2>3, ShapesAreSpelled
    <3> QED BY <1>4, <3>1, PopsWhatFits DEF Spelled
  <2> QED BY <2>1, <2>2, <2>3
<1>5. ASSUME NEW c \in Inventory, Fits(c, args, 0)
      PROVE  \E p \in Parsers : p.as = c.as /\ Accepts(p, args)
  <2>1. CASE c \in {Display, DisplayOf}
    BY <1>1, <1>2, <1>5, <2>1, DisplayFits
  <2>2. CASE c \in {Split, SplitSized}
    BY <1>1, <1>3, <1>5, <2>2, SplitFits
  <2>3. CASE c \notin {Display, DisplayOf, Split, SplitSized}
    <3>1. PICK p : Spelled(c, p)
      BY <2>3, ShapesAreSpelled
    <3> QED BY <1>5, <3>1, PopsWhatFits DEF Spelled
  <2> QED BY <2>1, <2>2, <2>3
<1> QED BY <1>4, <1>5

(* Of any line of arguments, whatever its length, the parser takes exactly  *)
(* the calls of the inventory, behind any number of global flags, and each   *)
(* for the one verb it is there for (tmuxargs.rs, parse).                    *)
THEOREM EveryCallIsParsed == \A args \in Seq(Arguments) : ParsesExactly(args)
<1> SUFFICES ASSUME NEW args \in Seq(Arguments) PROVE ParsesExactly(args)
  OBVIOUS
<1>1. PICK n \in 0..Len(args) :
         /\ PairsInFront(args, n) /\ ~PairsInFront(args, n + 1)
         /\ SkipGlobals(args) = SubSeq(args, 2 * n + 1, Len(args))
  BY GlobalsSkipped
<1> DEFINE rest == SkipGlobals(args)
<1>2. rest \in Seq(Arguments)
  <2>1. Display \in Inventory
    BY Zenon DEF Inventory, Display
  <2> QED BY <1>1, <2>1, FitsBehind
<1>3. \A c \in Inventory : Fits(c, rest, 0) <=> Fits(c, args, 2 * n)
  BY <1>1, FitsBehind
<1> HIDE DEF rest
<1>4. Parse(args) = {c.as : c \in {d \in Inventory : Fits(d, rest, 0)}}
  <2>1. Parse(args) = {p.as : p \in {q \in Parsers : Accepts(q, rest)}}
    BY DEF Parse, rest
  <2>2. \A p \in Parsers : Accepts(p, rest) => \E c \in Inventory : c.as = p.as /\ Fits(c, rest, 0)
    BY <1>2, AcceptsWhatFits
  <2>3. \A c \in Inventory : Fits(c, rest, 0) => \E p \in Parsers : p.as = c.as /\ Accepts(p, rest)
    BY <1>2, AcceptsWhatFits
  <2> QED BY <2>1, <2>2, <2>3
<1>5. Meant(args) = {c.as : c \in {d \in Inventory : Fits(d, rest, 0)}}
  <2>1. ASSUME NEW c \in Inventory
        PROVE  (\E k \in 0..Len(args) : PairsInFront(args, k) /\ Fits(c, args, 2 * k))
               <=> Fits(c, rest, 0)
    <3>1. ASSUME NEW k \in 0..Len(args), PairsInFront(args, k), Fits(c, args, 2 * k)
          PROVE  Fits(c, rest, 0)
      <4>1. k = n
        BY <1>1, <3>1, CallsFollowGlobals
      <4> QED BY <1>3, <3>1, <4>1
    <3> QED BY <1>1, <1>3, <3>1
  <2> QED BY <2>1 DEF Meant
<1>6. \A v, w \in Parse(args) : v = w
  <2> SUFFICES ASSUME NEW c \in Inventory, NEW d \in Inventory, Fits(c, rest, 0), Fits(d, rest, 0)
               PROVE  c.as = d.as
    BY <1>4
  <2>1. 0 \in Nat
    OBVIOUS
  <2> QED BY <2>1, OneVerbFits, Zenon
<1> QED BY <1>4, <1>5, <1>6 DEF ParsesExactly
-----------------------------------------------------------------------------
(* Every argument of a shape is one of some arguments. *)
Positions == {S \in SUBSET Arguments : S # {}}

LEMMA PositionsOfArguments ==
    /\ \A w \in Arguments : {w} \in Positions
    /\ {Ids, DisplayFields, Arguments, {"-h", "-v"}} \subseteq Positions
<1>1. \A w \in Arguments : {w} \in Positions
  BY DEF Positions
<1>2. Ids \subseteq Arguments /\ Ids # {}
  BY DEF Arguments, Ids
<1>3. DisplayFields \subseteq Arguments /\ DisplayFields # {}
  BY DEF Arguments, DisplayFields
<1>4. {"-h", "-v"} \subseteq Arguments /\ Arguments # {}
  BY DEF Arguments
<1> QED BY <1>1, <1>2, <1>3, <1>4 DEF Positions

LEMMA ShapesOfArguments == \A c \in Inventory : c.shape \in Seq(Positions)
<1> SUFFICES ASSUME NEW c \in Inventory PROVE c.shape \in Seq(Positions)
  OBVIOUS
<1>0. "#{pane_id}" \in Arguments
  BY Zenon DEF Arguments
<1>1. CASE c = Call("ShowMouse", <<{"show"}, {"-Av"}, {"mouse"}>>)
  <2>1. c.shape = <<{"show"}, {"-Av"}, {"mouse"}>>
    BY <1>1 DEF Call
  <2>2. {"show", "-Av", "mouse"} \subseteq Arguments
    BY DEF Arguments
  <2> QED BY <2>1, <2>2, PositionsOfArguments
<1>2. CASE c = Call("ShowFocusEvents", <<{"show"}, {"-gv"}, {"focus-events"}>>)
  <2>1. c.shape = <<{"show"}, {"-gv"}, {"focus-events"}>>
    BY <1>2 DEF Call
  <2>2. {"show", "-gv", "focus-events"} \subseteq Arguments
    BY DEF Arguments
  <2> QED BY <2>1, <2>2, PositionsOfArguments
<1>3. CASE c = Call("DisplayMessage", <<{"display-message"}, {"-p"}, DisplayFields>>)
  <2>1. c.shape = <<{"display-message"}, {"-p"}, DisplayFields>>
    BY <1>3 DEF Call
  <2>2. {"display-message", "-p"} \subseteq Arguments
    BY DEF Arguments
  <2> QED BY <2>1, <2>2, PositionsOfArguments
<1>4. CASE c = Call("DisplayMessage", <<{"display-message"}, {"-t"}, Ids, {"-p"}, DisplayFields>>)
  <2>1. c.shape = <<{"display-message"}, {"-t"}, Ids, {"-p"}, DisplayFields>>
    BY <1>4 DEF Call
  <2>2. {"display-message", "-t", "-p"} \subseteq Arguments
    BY DEF Arguments
  <2> QED BY <2>1, <2>2, PositionsOfArguments
<1>5. CASE c = Call("ListPaneIds", <<{"list-panes"}, {"-t"}, Ids, {"-F"}, {"#{pane_id}"}>>)
  <2>1. PICK f \in Arguments : c.shape = <<{"list-panes"}, {"-t"}, Ids, {"-F"}, {f}>>
    BY <1>0, <1>5, Zenon DEF Call
  <2>2. {"list-panes", "-t", "-F"} \subseteq Arguments
    BY DEF Arguments
  <2> QED BY <2>1, <2>2, PositionsOfArguments
<1>6. CASE c = Split
  <2>1. PICK f \in Arguments : c.shape = <<{"split-window"}, {"-d"}, {"-t"}, Ids, {"-h", "-v"},
                      {"-P"}, {"-F"}, {f}, {"--"}>>
    BY <1>0, <1>6, Zenon DEF Split, CallWithCommand
  <2>2. {"split-window", "-d", "-t", "-P", "-F", "--"} \subseteq Arguments
    BY DEF Arguments
  <2> QED BY <2>1, <2>2, PositionsOfArguments
<1>7. CASE c = SplitSized
  <2>1. PICK f \in Arguments : c.shape = <<{"split-window"}, {"-d"}, {"-t"}, Ids, {"-h", "-v"}, {"-l"},
                      Arguments, {"-P"}, {"-F"}, {f}, {"--"}>>
    BY <1>0, <1>7, Zenon DEF SplitSized, CallWithCommand
  <2>2. {"split-window", "-d", "-t", "-l", "-P", "-F", "--"} \subseteq Arguments
    BY DEF Arguments
  <2> QED BY <2>1, <2>2, PositionsOfArguments
<1>8. CASE c = Call("SetPaneBorderStatusTop",
                <<{"set-option"}, {"-w"}, {"-t"}, Ids, {"pane-border-status"}, {"top"}>>)
  <2>1. c.shape = <<{"set-option"}, {"-w"}, {"-t"}, Ids, {"pane-border-status"}, {"top"}>>
    BY <1>8 DEF Call
  <2>2. {"set-option", "-w", "-t", "pane-border-status", "top"} \subseteq Arguments
    BY DEF Arguments
  <2> QED BY <2>1, <2>2, PositionsOfArguments
<1>9. CASE c = Call("SelectPaneTitle", <<{"select-pane"}, {"-t"}, Ids, {"-T"}, Arguments>>)
  <2>1. c.shape = <<{"select-pane"}, {"-t"}, Ids, {"-T"}, Arguments>>
    BY <1>9 DEF Call
  <2>2. {"select-pane", "-t", "-T"} \subseteq Arguments
    BY DEF Arguments
  <2> QED BY <2>1, <2>2, PositionsOfArguments
<1>10. CASE c = Call("RespawnPane", <<{"respawn-pane"}, {"-k"}, {"-t"}, Ids, {"--"}, Arguments>>)
  <2>1. c.shape = <<{"respawn-pane"}, {"-k"}, {"-t"}, Ids, {"--"}, Arguments>>
    BY <1>10 DEF Call
  <2>2. {"respawn-pane", "-k", "-t", "--"} \subseteq Arguments
    BY DEF Arguments
  <2> QED BY <2>1, <2>2, PositionsOfArguments
<1>11. CASE c = Call("SelectLayout", <<{"select-layout"}, {"-t"}, Ids, Arguments>>)
  <2>1. c.shape = <<{"select-layout"}, {"-t"}, Ids, Arguments>>
    BY <1>11 DEF Call
  <2>2. {"select-layout", "-t"} \subseteq Arguments
    BY DEF Arguments
  <2> QED BY <2>1, <2>2, PositionsOfArguments
<1>12. CASE c = Call("ResizePane", <<{"resize-pane"}, {"-t"}, Ids, {"-x"}, Arguments>>)
  <2>1. c.shape = <<{"resize-pane"}, {"-t"}, Ids, {"-x"}, Arguments>>
    BY <1>12 DEF Call
  <2>2. {"resize-pane", "-t", "-x"} \subseteq Arguments
    BY DEF Arguments
  <2> QED BY <2>1, <2>2, PositionsOfArguments
<1>13. CASE c = Call("KillPane", <<{"kill-pane"}, {"-t"}, Ids>>)
  <2>1. c.shape = <<{"kill-pane"}, {"-t"}, Ids>>
    BY <1>13 DEF Call
  <2>2. {"kill-pane", "-t"} \subseteq Arguments
    BY DEF Arguments
  <2> QED BY <2>1, <2>2, PositionsOfArguments
<1>14. ASSUME NEW v \in DOMAIN Styles,
              c = Call(v, <<{"set-option"}, {"-p"}, {"-t"}, Ids, {Styles[v]}, Arguments>>)
       PROVE  c.shape \in Seq(Positions)
  <2>1. c.shape = <<{"set-option"}, {"-p"}, {"-t"}, Ids, {Styles[v]}, Arguments>>
    BY <1>14 DEF Call
  <2>2. {"set-option", "-p", "-t"} \subseteq Arguments /\ Styles[v] \in Arguments
    BY DEF Arguments
  <2> QED BY <2>1, <2>2, PositionsOfArguments
<1> QED BY <1>1, <1>2, <1>3, <1>4, <1>5, <1>6, <1>7, <1>8, <1>9, <1>10, <1>11, <1>12, <1>13, <1>14,
           Zenon DEF Inventory, Split, SplitSized

(* The lines about the inventory are lines of arguments. *)
LEMMA ExamplesAreLines ==
    ASSUME NEW c \in Inventory, NEW words \in 0..1
    PROVE  Example(c, words) \in Seq(Arguments)
<1>1. c.shape \in Seq(Positions)
  BY ShapesOfArguments
<1> DEFINE n == Len(c.shape)
<1>2. n \in Nat /\ DOMAIN c.shape = 1..n
  BY <1>1
<1>3. "word" \in Arguments
  BY DEF Arguments
<1>4. Example(c, words) =
         [i \in 1..(n + words) |-> IF i =< n THEN CHOOSE w \in c.shape[i] : TRUE ELSE "word"]
  BY DEF Example
<1> HIDE DEF n
<1>5. \A i \in 1..(n + words) : i =< n => (CHOOSE w \in c.shape[i] : TRUE) \in Arguments
  <2> SUFFICES ASSUME NEW i \in 1..(n + words), i =< n
               PROVE  (CHOOSE w \in c.shape[i] : TRUE) \in Arguments
    OBVIOUS
  <2>1. i \in DOMAIN c.shape
    BY <1>2
  <2>2. c.shape[i] # {} /\ c.shape[i] \subseteq Arguments
    BY <1>1, <2>1 DEF Positions
  <2>3. (CHOOSE w \in c.shape[i] : TRUE) \in c.shape[i]
    BY <2>2, Zenon
  <2> QED BY <2>2, <2>3
<1>6. n + words \in Nat
  BY <1>2
<1>7. Example(c, words) \in [1..(n + words) -> Arguments]
  BY <1>3, <1>4, <1>5
<1> QED BY <1>6, <1>7

LEMMA NearLines ==
    ASSUME NEW args \in Seq(Arguments)
    PROVE  Near(args) \subseteq Seq(Arguments)
<1>1. {"-S", "-q", "word", "@0", "-t", "-w", "mouse"} \subseteq Arguments
  BY DEF Arguments, Ids, Globals
<1>2. <<"-S">> \o args \in Seq(Arguments) /\ <<"-q">> \o args \in Seq(Arguments)
  BY <1>1
<1>3. ASSUME NEW i \in DOMAIN args
      PROVE  SubSeq(args, 1, i - 1) \o SubSeq(args, i + 1, Len(args)) \in Seq(Arguments)
  <2>1. i \in 1..Len(args) /\ Len(args) \in Nat
    OBVIOUS
  <2>2. SubSeq(args, 1, i - 1) \in Seq(Arguments) /\ SubSeq(args, i + 1, Len(args)) \in Seq(Arguments)
    BY <2>1
  <2> QED BY <2>2
<1>4. ASSUME NEW i \in DOMAIN args, NEW w \in {"word", "@0", "-t", "-w", "mouse"}
      PROVE  [args EXCEPT ![i] = w] \in Seq(Arguments)
  <2>1. w \in Arguments
    BY <1>1
  <2> HIDE <1>1
  <2> QED BY <2>1
<1> SUFFICES ASSUME NEW line \in Near(args) PROVE line \in Seq(Arguments)
  OBVIOUS
<1> DEFINE Flagged == {args, <<"-S">> \o args, <<"-q">> \o args}
           Short == {SubSeq(args, 1, i - 1) \o SubSeq(args, i + 1, Len(args)) : i \in DOMAIN args}
           Other == {[args EXCEPT ![i] = w] : i \in DOMAIN args,
                                              w \in {"word", "@0", "-t", "-w", "mouse"}}
<1>5. line \in Flagged \/ line \in Short \/ line \in Other
  <2>1. Near(args) = Flagged \cup Short \cup Other
    BY DEF Near
  <2> HIDE DEF Flagged, Short, Other
  <2> QED BY <2>1
<1>6. CASE line \in Short
  <2>1. PICK i \in DOMAIN args :
           line = SubSeq(args, 1, i - 1) \o SubSeq(args, i + 1, Len(args))
    BY <1>6
  <2> QED BY <1>3, <2>1
<1>7. CASE line \in Other
  <2>1. PICK i \in DOMAIN args, w \in {"word", "@0", "-t", "-w", "mouse"} :
           line = [args EXCEPT ![i] = w]
    BY <1>7
  <2> QED BY <1>4, <2>1
<1>8. CASE line \in Flagged
  BY <1>2, <1>8
<1> HIDE DEF Flagged, Short, Other
<1> QED BY <1>5, <1>6, <1>7, <1>8

LEMMA LinesOfArguments == Lines \subseteq Seq(Arguments)
<1>1. InFront \subseteq Seq(Arguments)
  <2>1. {"-L", "-S", "word"} \subseteq Arguments
    BY DEF Arguments, Globals
  <2>2. <<>> \in Seq(Arguments)
    OBVIOUS
  <2>3. <<"-L", "word">> \in Seq(Arguments)
    BY <2>1
  <2>4. <<"-S", "word", "-L", "word">> \in Seq(Arguments)
    BY <2>1
  <2> QED BY <2>2, <2>3, <2>4 DEF InFront
<1>2. ASSUME NEW g \in InFront, NEW c \in Inventory, NEW words \in 0..1
      PROVE  Near(g \o Example(c, words)) \subseteq Seq(Arguments)
  <2>1. g \in Seq(Arguments) /\ Example(c, words) \in Seq(Arguments)
    BY <1>1, ExamplesAreLines
  <2>2. g \o Example(c, words) \in Seq(Arguments)
    BY <2>1
  <2> QED BY <2>2, NearLines
<1> QED BY <1>2 DEF Lines

(* What the parser names is a verb the dispatch knows. *)
LEMMA VerbsAreDispatched == ASSUME NEW args PROVE Parse(args) \subseteq DOMAIN Does
<1>1. \A p \in Parsers : p.as \in DOMAIN Does
  <2> SUFFICES ASSUME NEW p \in Parsers PROVE p.as \in DOMAIN Does
    OBVIOUS
  <2>1. ASSUME NEW v \in DOMAIN Styles,
               p = ParseSetOption("-p", Styles[v], Value, v)
        PROVE  p.as \in DOMAIN Does
    <3>1. p.as = v
      BY <2>1 DEF ParseSetOption, Parser
    <3>2. DOMAIN Styles \subseteq DOMAIN Does
      BY DEF Styles, Does
    <3> QED BY <3>1, <3>2
  <2>2. CASE \A v \in DOMAIN Styles : p # ParseSetOption("-p", Styles[v], Value, v)
    <3>1. \E s :
             \/ p = Parser("show", "ShowMouse", s) \/ p = Parser("show", "ShowFocusEvents", s)
             \/ p = Parser("display-message", "DisplayMessage", s)
             \/ p = Parser("list-panes", "ListPaneIds", s)
             \/ p = Parser("split-window", "SplitWindow", s)
             \/ p = ParseSetOption("-w", "pane-border-status", Flag("top"), "SetPaneBorderStatusTop")
             \/ p = Parser("select-pane", "SelectPaneTitle", s)
             \/ p = Parser("respawn-pane", "RespawnPane", s)
             \/ p = Parser("select-layout", "SelectLayout", s)
             \/ p = Parser("resize-pane", "ResizePane", s)
             \/ p = Parser("kill-pane", "KillPane", s)
      BY <2>2, Zenon DEF Parsers
    <3> QED BY <3>1 DEF Parser, ParseSetOption, Does
  <2> QED BY <2>1, <2>2
<1> QED BY <1>1 DEF Parse

(* The parser takes the calls of the inventory, each for one verb that the    *)
(* dispatch knows, and refuses the lines one argument away from them that are *)
(* not in it (tmuxargs.rs, parse): in every state, not only in the initial    *)
(* one a run evaluates it in.                                                 *)
THEOREM CallsAreParsed == Spec => []ParsesInventory
<1>1. ParsesInventory
  BY EveryCallIsParsed, LinesOfArguments, VerbsAreDispatched DEF ParsesInventory
<1> QED BY <1>1, PTL
=============================================================================
