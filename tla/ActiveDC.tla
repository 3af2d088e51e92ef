------------------------------- MODULE ActiveDC -------------------------------
(***************************************************************************)
(* How the active datacenter reaches the operator: the supervisor selects  *)
(* it, the tray's status loop polls it into the tooltip and the menu's     *)
(* label (refreshStatus), OnSwitch publishes it on the control server, and *)
(* each dashboard seeds its chip with one Get and then follows a Watch     *)
(* whose notices are dispatched to the UI thread (dashboard.go).           *)
(*                                                                         *)
(* Supervisor, control server and its client are weft-app-core's; they are *)
(* modelled as this repository relies on them.                             *)
(***************************************************************************)
EXTENDS Naturals, Sequences

CONSTANTS
    DCs,        \* "Cluster - DC" labels
    Dashboards, \* --dashboard processes
    None,       \* the empty label
    GetFails,   \* may the one-shot Get fail?
    MaxSwitches \* bound on what the control server publishes

ASSUME ActiveDCAssumption ==
    /\ DCs # {}
    /\ None \notin DCs
    /\ {"unpolled", "blank"} \cap (DCs \cup {None}) = {}
    /\ GetFails \in BOOLEAN
    /\ MaxSwitches \in Nat

VARIABLES
    active,     \* the supervisor's selection, or None
    published,  \* what the control server answers: the nth switch
    lastActive, \* refreshStatus's memory of the last label
    label,      \* tooltip and top-of-menu label
    stage,      \* the main thread of each dashboard
    seed,       \* initialDC, which the init script stamps on every document
    watched,    \* Watch's previous poll; Unpolled before the first
    notices,    \* notices dispatched to the UI thread, oldest first
    chip        \* the SPA's chip; NoDocument before the page is there

vars == <<active, published, lastActive, label, stage, seed, watched, notices,
          chip>>
tray == <<active, published, lastActive, label>>
dashboard == <<stage, seed, watched, notices, chip>>

\* A label with its place in the order of switches (a history number the
\* program does not have; only the properties compare it).
Switch == [n : 0..MaxSwitches, dc : DCs \cup {None}]
NoSwitch == [n |-> 0, dc |-> None]

Unpolled == [n |-> 0, dc |-> "unpolled"]
NoDocument == [n |-> 0, dc |-> "blank"]

Stages == {"off", "start", "seeded"}

TypeOK ==
    /\ active \in DCs \cup {None}
    /\ published \in Switch
    /\ lastActive \in DCs \cup {None}
    /\ label \in DCs \cup {"unknown", "unreachable"}
    /\ stage \in [Dashboards -> Stages]
    /\ seed \in [Dashboards -> Switch]
    /\ watched \in [Dashboards -> Switch \cup {Unpolled}]
    /\ notices \in [Dashboards -> Seq(Switch)]
    /\ chip \in [Dashboards -> Switch \cup {NoDocument}]

Init ==
    /\ active = None
    /\ published = NoSwitch
    /\ lastActive = None
    /\ label = "unknown"
    /\ stage = [d \in Dashboards |-> "off"]
    /\ seed = [d \in Dashboards |-> NoSwitch]
    /\ watched = [d \in Dashboards |-> Unpolled]
    /\ notices = [d \in Dashboards |-> <<>>]
    /\ chip = [d \in Dashboards |-> NoDocument]

-----------------------------------------------------------------------------
(* The tray.                                                               *)

\* Failover, a recovered datacenter or SwitchCluster.
Reselect ==
    /\ published.n < MaxSwitches
    /\ \E a \in DCs \cup {None} : a # active /\ active' = a
    /\ UNCHANGED <<published, lastActive, label, dashboard>>

\* OnSwitch = ctrl.Publish, which is called with what was switched to.
Publish ==
    /\ active \notin {None, published.dc}
    /\ published.n < MaxSwitches
    /\ published' = [n |-> published.n + 1, dc |-> active]
    /\ UNCHANGED <<active, lastActive, label, dashboard>>

\* Mutant: the empty label is shown as it is.
PollShowsEmpty ==
    /\ active # lastActive
    /\ label' = active
    /\ lastActive' = active
    /\ UNCHANGED <<active, published, dashboard>>

\* Mutant: only a reachable datacenter is remembered.
PollRemembersUp ==
    /\ active # lastActive
    /\ label' = IF active = None THEN "unreachable" ELSE active
    /\ lastActive' = IF active = None THEN lastActive ELSE active
    /\ UNCHANGED <<active, published, dashboard>>

\* A tick of refreshStatus finds another label than the last one; otherwise it
\* leaves both alone.
Poll ==
    /\ active # lastActive
    /\ label' = IF active = None THEN "unreachable" ELSE active
    /\ lastActive' = active
    /\ UNCHANGED <<active, published, dashboard>>

-----------------------------------------------------------------------------
(* A dashboard.                                                            *)

\* openDashboard.
Open(d) ==
    /\ stage[d] = "off"
    /\ stage' = [stage EXCEPT ![d] = "start"]
    /\ UNCHANGED <<tray, seed, watched, notices, chip>>

\* The one-shot Get, with an empty name on an error, and the init script.
Seed(d) ==
    /\ stage[d] = "start"
    /\ stage' = [stage EXCEPT ![d] = "seeded"]
    /\ \/ seed' = [seed EXCEPT ![d] = published]
       \/ GetFails /\ seed' = [seed EXCEPT ![d] = NoSwitch]
    /\ UNCHANGED <<tray, watched, notices, chip>>

\* Mutant: the Watch is started before the Get has answered.
FirstPollEarly(d) ==
    /\ stage[d] # "off"
    /\ watched[d] = Unpolled
    /\ watched' = [watched EXCEPT ![d] = published]
    /\ UNCHANGED <<tray, stage, seed, notices, chip>>

\* Watch fires "on the next change": its first poll only sets the baseline.
FirstPoll(d) ==
    /\ stage[d] = "seeded"
    /\ watched[d] = Unpolled
    /\ watched' = [watched EXCEPT ![d] = published]
    /\ UNCHANGED <<tray, stage, seed, notices, chip>>

\* Mutant: prev and cur are swapped in the callback.
NextPollSwapped(d) ==
    /\ watched[d] # Unpolled
    /\ watched[d].dc # published.dc
    /\ watched' = [watched EXCEPT ![d] = published]
    /\ notices' = [notices EXCEPT ![d] = Append(@, watched[d])]
    /\ UNCHANGED <<tray, stage, seed, chip>>

\* A later poll sees another label: the callback dispatches a notice of it.
NextPoll(d) ==
    /\ watched[d] # Unpolled
    /\ watched[d].dc # published.dc
    /\ watched' = [watched EXCEPT ![d] = published]
    /\ notices' = [notices EXCEPT ![d] = Append(@, published)]
    /\ UNCHANGED <<tray, stage, seed, chip>>

\* Navigate, or the operator's reload: the init script paints the seed.
Load(d) ==
    /\ stage[d] = "seeded"
    /\ chip' = [chip EXCEPT ![d] = seed[d]]
    /\ UNCHANGED <<tray, stage, seed, watched, notices>>

\* The UI thread evaluates the oldest notice in whatever document is there;
\* before the first one is, that does nothing.
Eval(d) ==
    /\ notices[d] # <<>>
    /\ notices' = [notices EXCEPT ![d] = Tail(@)]
    /\ chip' = [chip EXCEPT ![d] =
                  IF @ = NoDocument THEN @ ELSE Head(notices[d])]
    /\ UNCHANGED <<tray, stage, seed, watched>>

\* The operator closes the window; the process and its Watch are gone.
Close(d) ==
    /\ stage[d] # "off"
    /\ stage' = [stage EXCEPT ![d] = "off"]
    /\ seed' = [seed EXCEPT ![d] = NoSwitch]
    /\ watched' = [watched EXCEPT ![d] = Unpolled]
    /\ notices' = [notices EXCEPT ![d] = <<>>]
    /\ chip' = [chip EXCEPT ![d] = NoDocument]
    /\ UNCHANGED tray

Next ==
    \/ Reselect \/ Publish \/ Poll
    \/ \E d \in Dashboards :
         \/ Open(d) \/ Seed(d) \/ FirstPoll(d) \/ NextPoll(d) \/ Load(d)
         \/ Eval(d) \/ Close(d)

(***************************************************************************)
(* The two-second ticker, the Watch goroutine and the UI thread run on;    *)
(* the supervisor and the operator do what they like.                      *)
(***************************************************************************)
Fairness ==
    /\ WF_vars(Poll)
    /\ \A d \in Dashboards :
         WF_vars(FirstPoll(d)) /\ WF_vars(NextPoll(d)) /\ WF_vars(Eval(d))

Spec == Init /\ [][Next]_vars /\ Fairness

-----------------------------------------------------------------------------

\* The dashboard has nothing in flight: its chip will not change by itself.
Settled(d) ==
    /\ chip[d] # NoDocument
    /\ watched[d].dc = published.dc
    /\ notices[d] = <<>>

(***************************************************************************)
(* A settled chip shows the published datacenter or the name the process   *)
(* was seeded with: no mix of polls, reloads and notices leaves a third    *)
(* one on it (dashboard.go).                                               *)
(***************************************************************************)
SettledChip ==
    \A d \in Dashboards : Settled(d) => chip[d].dc \in {published.dc, seed[d].dc}

(***************************************************************************)
(* The chip never goes back: within one document it only moves to a later  *)
(* switch than the one it shows, also when the first notices are late      *)
(* answers to a Watch that started after the Get.                          *)
(***************************************************************************)
ChipGoesForward ==
    [][\A d \in Dashboards :
         chip[d] # NoDocument /\ chip'[d] \notin {chip[d], seed[d], NoDocument}
           => chip'[d].n > chip[d].n]_vars

(***************************************************************************)
(* The tooltip and the label settle on the datacenter the supervisor       *)
(* settles on, also after an outage of all of them (refreshStatus).        *)
(***************************************************************************)
LabelFollows ==
    \A dc \in DCs : (<>[](active = dc)) => <>[](label = dc)

(***************************************************************************)
(* dashboard.go: Watch's notices are there "so the SPA chip stays accurate *)
(* after a switch".  A settled chip shows the published datacenter.        *)
(***************************************************************************)
ChipStaysAccurate ==
    \A d \in Dashboards : Settled(d) => chip[d].dc = published.dc
=============================================================================
