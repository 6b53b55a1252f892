------------------------------ MODULE TeamMux -------------------------------
(***************************************************************************)
(* The tmux shim of a lead session: `teammux` (src/teammux.rs) with its    *)
(* table of ids (src/idmap.rs), as `teammux-launch` sets it up             *)
(* (src/teammux_launch.rs).                                                *)
(*                                                                         *)
(* Claude Code runs a shim process for each tmux call.  The process parses *)
(* the call (TmuxArgs), loads the table, resolves the ids in it, calls     *)
(* Herdr, and changes the table in a locked transaction of its own.  What  *)
(* Claude Code holds are ids: `held` pairs each with the pane it was       *)
(* printed for.                                                            *)
(*                                                                         *)
(* A pane of Herdr is a number, in the order the panes open, 0 the lead's; *)
(* %N is the number N.  Herdr gives no number twice.                       *)
(*                                                                         *)
(* The constant Faults names what may happen:                              *)
(*   "die"      a shim or a launch fails, or dies, between two of its      *)
(*              steps;                                                     *)
(*   "human"    panes open and close without the shim.                     *)
(*                                                                         *)
(* Nothing keeps the shim processes apart but the lock of a transaction on *)
(* the table.  Two histories, which decide no step, say where that shows:  *)
(* `contested` has the panes a process registered while another one was    *)
(* still to look them up in a table it had loaded, and `crossed` the ids   *)
(* that reached Claude Code while they were being killed.                  *)
(***************************************************************************)
EXTENDS TmuxArgs

CONSTANTS
    Shims,      \* the shim processes that may run at one time
    Others,     \* the launches of other leads, which share the directory of the shim
    Own,        \* the launch of this lead
    MaxPanes,   \* bounds the panes that open
    MaxId,      \* bounds the ids that are given out
    MaxCalls,   \* bounds the tmux calls
    Faults,     \* see above
    None        \* no pane

Panes == 0..MaxPanes
Names == 0..MaxId
Launches == Others \cup {Own}

ASSUME TeamMuxAssumption ==
    /\ Own \notin Others
    /\ MaxPanes \in Nat /\ MaxId \in Nat /\ MaxCalls \in Nat
    /\ None \notin Panes
    /\ Faults \subseteq {"die", "human"}

VARIABLES
    table,      \* the table of this lead: the pane of each %N
    window,     \*   and whether it has @0
    lpc,        \* where each launch is
    link,       \* whether the directory of the shim has its link named tmux
    call,       \* the call each shim process handles
    panes,      \* Herdr's panes
    tab,        \*   and whether they are in the tab of the lead
    held,       \* the ids Claude Code has, with their panes
    killed,     \* history: the panes of successful kills
    contested,  \*   the panes one process registered, that another was to look up
    crossed,    \*   the ids, with their panes, that crossed their kill
    calls       \* history: how many calls were made

herdr == <<panes, tab>>
launch == <<lpc, link>>
past == <<killed, contested, crossed>>
vars == <<table, window, launch, call, herdr, held, past, calls>>

-----------------------------------------------------------------------------
(* dispatch: what the verbs do. *)

Does == [ShowMouse |-> "static", ShowFocusEvents |-> "static", DisplayMessage |-> "display",
         ListPaneIds |-> "list", SplitWindow |-> "split", KillPane |-> "kill",
         RespawnPane |-> "pane", SelectPaneTitle |-> "pane", ResizePane |-> "pane",
         SetWindowStyle |-> "static", SetPaneBorderStyle |-> "static",
         SetPaneActiveBorderStyle |-> "static", SetPaneBorderFormat |-> "static",
         SetRemainOnExit |-> "static", SetPaneBorderStatusTop |-> "static",
         SelectLayout |-> "static"]

(* display-message shows the terminal, a pane's window or size, or the window's size. *)
Kinds == ({Does[v] : v \in DOMAIN Does} \ {"display"}) \cup {"window", "area"}
OfPane == {"pane", "window", "split", "kill"}   \* those for which an id of a pane is given
OfWindow == {"list", "area"}                    \* those for which that of the window is

Idle == [pc |-> "off", kind |-> "static", id |-> 0, snap |-> <<>>, pane |-> None,
         todo |-> {}, out |-> {}]

TypeOK ==
    /\ table \in [Names -> Panes \cup {None}]
    /\ window \in BOOLEAN
    /\ lpc \in [Launches -> {"off", "pane", "window", "unlink", "link", "lead", "failed", "torn"}]
    /\ link \in BOOLEAN
    /\ \A p \in Shims :
          /\ call[p].pc \in {"off", "load", "call", "register", "list", "deregister"}
          /\ call[p].kind \in Kinds
          /\ call[p].id \in Names
          /\ call[p].pane \in Panes \cup {None}
          /\ call[p].pc \in {"register", "deregister"} => call[p].pane # None
          /\ call[p].todo \subseteq Panes
          /\ call[p].out \subseteq Names \X Panes
    /\ panes \in [Panes -> {"none", "open", "closed"}]
    /\ tab \in [Panes -> BOOLEAN]
    /\ held \subseteq Names \X Panes
    /\ killed \subseteq Panes /\ contested \subseteq Panes
    /\ crossed \subseteq Names \X Panes
    /\ calls \in 0..MaxCalls

Init ==
    /\ table = [n \in Names |-> None] /\ window = FALSE
    /\ lpc = [l \in Launches |-> "off"] /\ link = FALSE
    /\ call = [p \in Shims |-> Idle]
    /\ panes = [q \in Panes |-> IF q = 0 THEN "open" ELSE "none"]
    /\ tab = [q \in Panes |-> q = 0]
    /\ held = {<<0, 0>>}
    /\ killed = {} /\ contested = {} /\ crossed = {}
    /\ calls = 0

-----------------------------------------------------------------------------
(* teammux-launch: seed_lead_state, then the lead replaces the process. *)

LaunchGoes(l, from, to) ==
    /\ lpc[l] = from
    /\ lpc' = [lpc EXCEPT ![l] = to]
    /\ UNCHANGED <<call, herdr, held, past, calls>>

(* Another lead has a table of its own. *)
OtherLaunch(l) ==
    /\ l # Own
    /\ LaunchGoes(l, "off", "unlink")
    /\ UNCHANGED <<table, window, link>>

SeedPane ==
    /\ LaunchGoes(Own, "off", "window")
    /\ table' = [table EXCEPT ![0] = 0]
    /\ UNCHANGED <<window, link>>

(* Without an answer of Herdr the window is left out. *)
SeedWindow ==
    /\ LaunchGoes(Own, "window", "unlink")
    /\ window' \in BOOLEAN
    /\ UNCHANGED <<table, link>>

(* install_shim: a link that is there is removed, and made again. *)
Unlink(l) ==
    /\ LaunchGoes(l, "unlink", "link")
    /\ link' = FALSE
    /\ UNCHANGED <<table, window>>

MakeLink(l) ==
    /\ LaunchGoes(l, "link", IF link THEN "failed" ELSE "lead")
    /\ link' = TRUE
    /\ UNCHANGED <<table, window>>

LaunchFails(l) ==
    /\ "die" \in Faults
    /\ lpc[l] \in {"window", "unlink", "link"}
    /\ LaunchGoes(l, lpc[l], IF lpc[l] = "link" THEN "torn" ELSE "failed")
    /\ UNCHANGED <<table, window, link>>

-----------------------------------------------------------------------------
(* Herdr, and people in it. *)

NewPane == CHOOSE q \in Panes : panes[q] = "none" /\ \A r \in Panes : panes[r] = "none" => q =< r

Opens(inTab) ==
    /\ \E q \in Panes : panes[q] = "none"
    /\ panes' = [panes EXCEPT ![NewPane] = "open"]
    /\ tab' = [tab EXCEPT ![NewPane] = inTab]

PaneOpens(inTab) ==
    /\ "human" \in Faults
    /\ Opens(inTab)
    /\ UNCHANGED <<table, window, launch, call, held, past, calls>>

PaneCloses(q) ==
    /\ "human" \in Faults
    /\ panes[q] = "open" /\ q # 0
    /\ panes' = [panes EXCEPT ![q] = "closed"]
    /\ UNCHANGED <<table, window, launch, call, tab, held, past, calls>>

-----------------------------------------------------------------------------
(* A call: run, execute and dispatch. *)

(* Any id may be named, but the lead does not kill its own pane. *)
StartCall(p, k, n) ==
    /\ lpc[Own] = "lead" /\ calls < MaxCalls
    /\ call[p].pc = "off"
    /\ k \notin OfPane => n = 0
    /\ k = "kill" => n # 0
    /\ held' = {h \in held : k = "kill" => h[1] # n}
    /\ call' = [call EXCEPT ![p] = [Idle EXCEPT !.pc = "load", !.kind = k, !.id = n]]
    /\ calls' = calls + 1
    /\ UNCHANGED <<table, window, launch, herdr, past>>

Goes(p, from, c) ==
    /\ call[p].pc = from
    /\ call' = [call EXCEPT ![p] = c]
    /\ UNCHANGED <<launch, calls>>

(* The process prints what it has for Claude Code and ends. *)
Ends(p, from, given) ==
    /\ Goes(p, from, Idle)
    /\ held' = held \cup given

(* IdMap::load_from_env, and the lookup of the id in the call. *)
Known(c) == /\ c.kind \in OfPane => table[c.id] # None
            /\ c.kind \in OfWindow => window

Load(p) ==
    LET c == call[p] IN
    /\ Known(c) /\ c.kind # "static"
    /\ Goes(p, "load", [c EXCEPT !.pc = "call", !.snap = table,
                                 !.pane = IF c.kind \in OfPane THEN table[c.id] ELSE None])
    /\ UNCHANGED <<table, window, herdr, held, past>>

(* A probe or a style is answered at once, and an unknown id refused. *)
Answers(p) ==
    /\ call[p].kind = "static" \/ ~Known(call[p])
    /\ Ends(p, "load", {})
    /\ UNCHANGED <<table, window, herdr, past>>

(* Herdr refuses a pane that is closed. *)
Refuses(p) ==
    /\ Ends(p, "call", {})
    /\ call[p].kind \in OfPane /\ panes[call[p].pane] # "open"
    /\ UNCHANGED <<table, window, herdr, past>>

(***************************************************************************)
(* respawn-pane, select-pane, resize-pane and the questions for a size or  *)
(* for the window of a pane are one or two calls of Herdr.                 *)
(***************************************************************************)
CallHerdr(p) ==
    /\ Ends(p, "call", {})
    /\ call[p].kind \in {"pane", "window", "area"}
    /\ call[p].kind # "area" => panes[call[p].pane] = "open"
    /\ UNCHANGED <<table, window, herdr, past>>

SplitPane(p) ==
    LET c == call[p] IN
    /\ c.pc = "call" /\ c.kind = "split" /\ panes[c.pane] = "open"
    /\ Opens(tab[c.pane])
    /\ Goes(p, "call", [c EXCEPT !.pc = "register", !.pane = NewPane])
    /\ UNCHANGED <<table, window, held, past>>

NextId(t) ==
    LET used == {n \in Names : t[n] # None}
    IN IF used = {} THEN 0 ELSE 1 + CHOOSE n \in used : \A m \in used : m =< n

(* A bug OneIdPerPane must catch: only the id of the lead is looked up. *)
IdsOfLead(t, q) == {n \in {0} : t[n] = q}

(* reverse_lookup: the first id of a pane. *)
IdsOf(t, q) == {n \in Names : t[n] = q /\ \A m \in Names : t[m] = q => n =< m}

(* Process o has loaded its table, and will not find pane q in it. *)
MayMiss(o, q) ==
    /\ call[o].kind = "list"
    /\ \/ call[o].pc = "call" /\ IdsOf(call[o].snap, q) = {}
       \/ call[o].pc = "list" /\ q \in call[o].todo

(* Pane q gets the number n, whatever process o is about to do with it. *)
Registers(p, n, q) ==
    /\ n \in Names
    /\ table' = [table EXCEPT ![n] = q]
    /\ contested' = contested \cup
          {x \in {q} : \E o \in Shims \ {p} :
              MayMiss(o, x) \/ (call[o].pc = "register" /\ call[o].pane = x)}

(* These ids of panes are given while a kill is under way for them. *)
Killed(pairs) ==
    {h \in pairs : \E o \in Shims :
        call[o].pc # "off" /\ call[o].kind = "kill" /\ call[o].id = h[1]}

(* A bug HeldResolves must catch: the number is chosen before the lock is taken. *)
RegisterFromSnapshot(p) ==
    LET c == call[p]
        n == NextId(c.snap)
    IN /\ Ends(p, "register", {<<n, c.pane>>})
       /\ Registers(p, n, c.pane)
       /\ crossed' = crossed \cup Killed({<<n, c.pane>>})
       /\ UNCHANGED <<window, herdr, killed>>

(* IdMap::allocate, on the table as it is under the lock. *)
Register(p) ==
    LET c == call[p]
        n == NextId(table)
    IN /\ Ends(p, "register", {<<n, c.pane>>})
       /\ Registers(p, n, c.pane)
       /\ crossed' = crossed \cup Killed({<<n, c.pane>>})
       /\ UNCHANGED <<window, herdr, killed>>

(***************************************************************************)
(* pane_list, of which the panes of the tab are taken.  The id of a pane   *)
(* is looked up in the table that was loaded, so `out` has at once those   *)
(* that are in it, and `todo` the others.                                  *)
(***************************************************************************)
ListTab(p) ==
    LET c == call[p]
        shown == {q \in Panes : panes[q] = "open" /\ tab[q]}
    IN /\ c.kind = "list"
       /\ Goes(p, "call", [c EXCEPT !.pc = "list", !.todo = {q \in shown : IdsOf(c.snap, q) = {}},
                                    !.out = {h \in Names \X shown : h[1] \in IdsOf(c.snap, h[2])}])
       /\ UNCHANGED <<table, window, herdr, held, past>>

(* A pane the table has no id for gets one. *)
RegisterListed(p, q) ==
    LET c == call[p]
        n == NextId(table)
    IN /\ q \in c.todo
       /\ Goes(p, "list", [c EXCEPT !.todo = @ \ {q}, !.out = @ \cup {<<n, q>>}])
       /\ Registers(p, n, q)
       /\ UNCHANGED <<window, herdr, held, killed, crossed>>

PrintList(p) ==
    /\ call[p].todo = {}
    /\ Ends(p, "list", call[p].out)
    /\ crossed' = crossed \cup Killed(call[p].out)
    /\ UNCHANGED <<table, window, herdr, killed, contested>>

ClosePane(p) ==
    LET c == call[p] IN
    /\ c.pc = "call" /\ c.kind = "kill" /\ panes[c.pane] = "open"
    /\ panes' = [panes EXCEPT ![c.pane] = "closed"]
    /\ Goes(p, "call", [c EXCEPT !.pc = "deregister"])
    /\ UNCHANGED <<table, window, tab, held, past>>

(* A list that has found id n for its pane will print it after its kill. *)
LeavesTable(n) ==
    crossed' = crossed \cup
        {h \in {<<n, table[n]>>} : \E o \in Shims :
            \/ call[o].kind = "list" /\ call[o].pc = "call" /\ call[o].snap[n] = h[2]
            \/ h \in call[o].out}

(* A bug KilledIsGone must catch: the entry stays. *)
KeepEntry(p) ==
    /\ Ends(p, "deregister", {})
    /\ killed' = killed \cup {call[p].pane}
    /\ UNCHANGED <<table, window, herdr, contested, crossed>>

Deregister(p) ==
    /\ Ends(p, "deregister", {})
    /\ table' = [table EXCEPT ![call[p].id] = None]
    /\ killed' = killed \cup {call[p].pane}
    /\ LeavesTable(call[p].id)
    /\ UNCHANGED <<window, herdr, contested>>

(* What it has printed, if anything, does not reach Claude Code as an answer. *)
ShimFails(p) ==
    /\ "die" \in Faults
    /\ call[p].pc # "off"
    /\ Goes(p, call[p].pc, Idle)
    /\ UNCHANGED <<table, window, herdr, held, past>>

-----------------------------------------------------------------------------
Shim(p) ==
    \/ Load(p) \/ Answers(p) \/ Refuses(p) \/ CallHerdr(p)
    \/ SplitPane(p) \/ Register(p) \/ ClosePane(p) \/ Deregister(p)
    \/ ListTab(p) \/ PrintList(p)
    \/ \E q \in Panes : RegisterListed(p, q)
    \/ ShimFails(p)

Next ==
    \/ SeedPane \/ SeedWindow
    \/ \E l \in Launches : OtherLaunch(l) \/ Unlink(l) \/ MakeLink(l) \/ LaunchFails(l)
    \/ \E b \in BOOLEAN : PaneOpens(b)
    \/ \E q \in Panes : PaneCloses(q)
    \/ \E p \in Shims : Shim(p) \/ \E k \in Kinds, n \in Names : StartCall(p, k, n)

Spec == Init /\ [][Next]_vars

-----------------------------------------------------------------------------
(* Properties. *)

(***************************************************************************)
(* An id Claude Code was given and has not killed names the pane it was    *)
(* given for, whatever splits, lists and kills run at the same time or die *)
(* half-way, unless the id crossed its kill on the way.                    *)
(***************************************************************************)
HeldResolves == lpc[Own] = "lead" => \A h \in held \ crossed : table[h[1]] = h[2]

(***************************************************************************)
(* A pane has two ids only if a process registered it while another, which *)
(* had loaded its table before, was yet to look it up.                     *)
(***************************************************************************)
OneIdPerPane ==
    \A n, m \in Names :
        n # m /\ table[n] # None /\ table[n] = table[m] => table[n] \in contested

(***************************************************************************)
(* Once a kill-pane has succeeded nothing resolves to its pane, but for a  *)
(* pane that may have got a second id.                                     *)
(***************************************************************************)
KilledIsGone == \A q \in killed \ contested, n \in Names : table[n] # q

(***************************************************************************)
(* The parser takes the calls of the inventory, each for one verb that the *)
(* dispatch knows, and refuses what is one argument away from them.  It    *)
(* has no state: it is evaluated in the initial one.                       *)
(***************************************************************************)
ParsesInventory ==
    (\A l \in Launches : lpc[l] = "off") /\ (\A q \in Panes : panes[q] = "none" \/ q = 0) =>
        \A args \in Lines : ParsesExactly(args) /\ Parse(args) \subseteq DOMAIN Does
=============================================================================
