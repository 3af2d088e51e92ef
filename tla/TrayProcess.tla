----------------------------- MODULE TrayProcess -----------------------------
(***************************************************************************)
(* The tray process with the cluster menu of tray.go onReady: one goroutine*)
(* per cluster item takes its clicks and sends the name into switchCh; the *)
(* select loop, which may be inside spawnSignInAndReload for minutes,      *)
(* receives names and calls sh.SwitchCluster.  Startup is the process      *)
(* around it: the loop lives between setupShell's success and Quit.        *)
(***************************************************************************)
EXTENDS Startup

CONSTANTS
    Clusters,  \* sh.Clusters(): items of the submenu
    MaxClicks, \* bound: clicks per item
    NoCluster  \* nothing was switched yet

ASSUME TrayAssumption ==
    /\ IsFiniteSet(Clusters)
    /\ MaxClicks \in Nat
    /\ NoCluster \notin Clusters

VARIABLES
    loop,     \* the select loop: "off", "select" or "signin"
    fwd,      \* each forwarder: "off", "wait" for a click, or about to "send"
    switchCh, \* cluster names
    active,   \* the last cluster switched to
    taken,    \* clicks each forwarder received (history)
    switched, \* calls of SwitchCluster per cluster (history)
    batch     \* clusters clicked since the menu was last quiet (history)

menu == <<loop, fwd, switchCh, active, taken, switched, batch>>
trayVars == <<vars, menu>>

TrayTypeOK ==
    /\ TypeOK
    /\ loop \in {"off", "select", "signin"}
    /\ fwd \in [Clusters -> {"off", "wait", "send"}]
    /\ switchCh \in Seq(Clusters) /\ Len(switchCh) <= Cardinality(Clusters)
    /\ active \in Clusters \cup {NoCluster}
    /\ taken \in [Clusters -> 0 .. MaxClicks]
    /\ switched \in [Clusters -> Nat]
    /\ batch \subseteq Clusters
    /\ loop # "off" => pc \in {"ready", "gone"}

TrayInit ==
    /\ Init
    /\ loop = "off"
    /\ fwd = [c \in Clusters |-> "off"]
    /\ switchCh = <<>>
    /\ active = NoCluster
    /\ taken = [c \in Clusters |-> 0]
    /\ switched = [c \in Clusters |-> 0]
    /\ batch = {}

\* No click is on its way.
Quiet == switchCh = <<>> /\ \A c \in Clusters : fwd[c] # "send"

-----------------------------------------------------------------------------

\* onReady: the menu is built and the forwarders are started.
OnReady ==
    /\ pc = "ready" /\ loop = "off"
    /\ loop' = "select"
    /\ fwd' = [c \in Clusters |-> "wait"]
    /\ UNCHANGED <<vars, switchCh, active, taken, switched, batch>>

\* systray hands a click to a waiting forwarder and drops it otherwise.
ClickCluster(c) ==
    /\ pc # "gone"
    /\ fwd[c] = "wait"
    /\ taken[c] < MaxClicks
    /\ fwd' = [fwd EXCEPT ![c] = "send"]
    /\ taken' = [taken EXCEPT ![c] = @ + 1]
    /\ batch' = IF Quiet THEN {c} ELSE batch \cup {c}
    /\ UNCHANGED <<vars, loop, switchCh, active, switched>>

\* Mutant: all forwarders share the range loop's variable.
ForwardShared(c) ==
    /\ pc # "gone"
    /\ fwd[c] = "send"
    /\ Len(switchCh) < Cardinality(Clusters)
    /\ switchCh' = Append(switchCh, CHOOSE d \in Clusters : TRUE)
    /\ fwd' = [fwd EXCEPT ![c] = "wait"]
    /\ UNCHANGED <<vars, loop, active, taken, switched, batch>>

\* Mutant: a full channel drops the click.
ForwardOrDrop(c) ==
    /\ pc # "gone"
    /\ fwd[c] = "send"
    /\ switchCh' = IF Len(switchCh) < Cardinality(Clusters)
                   THEN Append(switchCh, c) ELSE switchCh
    /\ fwd' = [fwd EXCEPT ![c] = "wait"]
    /\ UNCHANGED <<vars, loop, active, taken, switched, batch>>

\* Mutant: the channel has room for one click more than it was made for.
ForwardOverfull(c) ==
    /\ pc # "gone"
    /\ fwd[c] = "send"
    /\ Len(switchCh) <= Cardinality(Clusters)
    /\ switchCh' = Append(switchCh, c)
    /\ fwd' = [fwd EXCEPT ![c] = "wait"]
    /\ UNCHANGED <<vars, loop, active, taken, switched, batch>>

\* switchCh <- name: it has room for one name per item, and does not look at ctx.
Forward(c) ==
    /\ pc # "gone"
    /\ fwd[c] = "send"
    /\ Len(switchCh) < Cardinality(Clusters)
    /\ switchCh' = Append(switchCh, c)
    /\ fwd' = [fwd EXCEPT ![c] = "wait"]
    /\ UNCHANGED <<vars, loop, active, taken, switched, batch>>

ForwarderEnds(c) ==
    /\ pc # "gone"
    /\ fwd[c] = "wait"
    /\ ctx = "cancelled"
    /\ fwd' = [fwd EXCEPT ![c] = "off"]
    /\ UNCHANGED <<vars, loop, switchCh, active, taken, switched, batch>>

\* The loop is at its select.
Selecting == pc = "ready" /\ loop = "select"

\* Mutant: the loop empties the channel and switches to the last name only.
SwitchToLast ==
    /\ Selecting
    /\ switchCh # <<>>
    /\ active' = switchCh[Len(switchCh)]
    /\ switched' = [switched EXCEPT ![active'] = @ + 1]
    /\ switchCh' = <<>>
    /\ UNCHANGED <<vars, loop, fwd, taken, batch>>

SwitchCluster ==
    /\ Selecting
    /\ switchCh # <<>>
    /\ active' = Head(switchCh)
    /\ switched' = [switched EXCEPT ![Head(switchCh)] = @ + 1]
    /\ switchCh' = Tail(switchCh)
    /\ UNCHANGED <<vars, loop, fwd, taken, batch>>

\* spawnSignInAndReload blocks until the child is gone.
ClickSignIn ==
    /\ Selecting
    /\ loop' = "signin"
    /\ UNCHANGED <<vars, fwd, switchCh, active, taken, switched, batch>>

SignInReturns ==
    /\ pc = "ready" /\ loop = "signin"
    /\ loop' = "select"
    /\ UNCHANGED <<vars, fwd, switchCh, active, taken, switched, batch>>

\* Quit and ctx.Done() are arms of the loop; the forwarders live on.
LoopEnds ==
    /\ Selecting
    /\ ClickQuit("ready") \/ NoticeDone("ready")
    /\ loop' = "off"
    /\ UNCHANGED <<fwd, switchCh, active, taken, switched, batch>>

\* Startup's steps outside the menu.
Around ==
    /\ \/ SetupStep \/ CloseMesh \/ GatewayStops \/ ControlStops \/ Interrupt
       \/ ClickQuit("error") \/ NoticeDone("error") \/ OnExit \/ Exit \/ Kill
    /\ UNCHANGED menu

TrayNext ==
    \/ Around
    \/ OnReady \/ SwitchCluster \/ ClickSignIn \/ SignInReturns \/ LoopEnds
    \/ \E c \in Clusters : ClickCluster(c) \/ Forward(c) \/ ForwarderEnds(c)

(***************************************************************************)
(* The program's own steps.  A blocked send waits in the channel's queue   *)
(* and a ready arm of a select is chosen at random, hence strong fairness  *)
(* for these two; signals, clicks and the sign-in child are not fair.      *)
(***************************************************************************)
Fairness ==
    /\ WF_trayVars(SetupStep /\ UNCHANGED menu)
    /\ WF_trayVars(NoticeDone("error") /\ UNCHANGED menu)
    /\ WF_trayVars((OnExit \/ Exit) /\ UNCHANGED menu)
    /\ WF_trayVars(OnReady)
    /\ WF_trayVars(LoopEnds /\ ctx = "cancelled")
    /\ SF_trayVars(SwitchCluster)
    /\ \A c \in Clusters : SF_trayVars(Forward(c))

TraySpec == TrayInit /\ [][TrayNext]_trayVars /\ Fairness

-----------------------------------------------------------------------------

\* Occurrences of c in a sequence.
Waiting(ch, c) == Cardinality({i \in DOMAIN ch : ch[i] = c})

(***************************************************************************)
(* A click a forwarder has taken is switched to, or still on its way: none *)
(* is lost, doubled or turned into another cluster's, however often the    *)
(* channel is full (tray.go 198-222).                                      *)
(***************************************************************************)
ClicksAccounted ==
    \A c \in Clusters :
      taken[c] = switched[c] + Waiting(switchCh, c)
                 + (IF fwd[c] = "send" THEN 1 ELSE 0)

(***************************************************************************)
(* Clicks made close together may be switched to in any order, because the *)
(* forwarders are not ordered; but once no click is on its way the active  *)
(* cluster is one of those clicked since the menu was last quiet.          *)
(***************************************************************************)
QuietOnAClick == Quiet /\ batch # {} => active \in batch

(***************************************************************************)
(* If the loop keeps coming back to its select, then once the user stops   *)
(* clicking (MaxClicks) every click that was taken has been switched to,   *)
(* also those that waited behind a sign-in or a full channel.              *)
(***************************************************************************)
ClicksReachShell == []<>Selecting => <>[](switched = taken)

(***************************************************************************)
(* A signal ends the process from wherever it is, in the middle of the     *)
(* start, in the error tray or in the menu; only a loop that waits for a   *)
(* sign-in child does not see it (runTray's NotifyContext has taken the    *)
(* default action away).                                                   *)
(***************************************************************************)
SignalEnds == ctx = "cancelled" ~> pc = "gone" \/ loop = "signin"
=============================================================================
