------------------------------- MODULE Startup -------------------------------
(***************************************************************************)
(* The life of a tray process around its menu (tray.go runTray, setupShell,*)
(* onSetupError; wgmesh.go MeshDialer): the staged start of the WireGuard  *)
(* device, the gateway goroutine and the control server, the error tray    *)
(* that any failed stage leads to, and the way out through systray.Quit,   *)
(* onExit = cancel and the end of the process.  One context is shared by   *)
(* all of it and can be cancelled by a signal at any moment.               *)
(***************************************************************************)
EXTENDS MeshConfig

CONSTANTS
    Configs, \* contents of the file --wg-config names
    NoMesh,  \* no --wg-config
    Faults   \* stages that may fail for reasons outside the configs

ASSUME StartupAssumption ==
    /\ NoMesh \notin Configs
    /\ Faults \subseteq {"config", "wgfile", "tun", "ipc", "up", "shell",
                         "gateway", "listen"}

ASSUME ConfigsAssumption == \A c \in Configs : IsWGConfig(c)

VARIABLES
    wg,      \* the mesh config, until the mesh is up
    pc,      \* the main goroutine, see Stages
    failed,  \* the stage whose error the tray shows
    dev,     \* the WireGuard device
    closer,  \* the goroutine that waits for ctx and closes the mesh
    gateway, \* the goroutine in sh.Run
    control, \* the control server listens
    ctx      \* "live" or "cancelled"

setup == <<wg, failed>>
running == <<dev, closer, gateway, control>>
vars == <<wg, pc, failed, dev, closer, gateway, control, ctx>>

Setup == {"config", "wgfile", "addrs", "tun", "ipc", "up", "shell", "listen"}
Stages == Setup \cup {"ready", "error", "quit", "cancel", "exit", "gone"}

TypeOK ==
    /\ wg \in Configs \cup {NoMesh}
    /\ pc \in Stages
    /\ failed \in Setup \cup {"nothing"}
    /\ dev \in {"none", "open", "up", "closed"}
    /\ closer \in {"none", "waiting", "done"}
    /\ gateway \in {"none", "running", "stopped"}
    /\ control \in {"off", "on"}
    /\ ctx \in {"live", "cancelled"}

Init ==
    /\ wg \in Configs \cup {NoMesh}
    /\ pc = "config"
    /\ failed = "nothing"
    /\ dev = "none"
    /\ closer = "none"
    /\ gateway = "none"
    /\ control = "off"
    /\ ctx = "live"

-----------------------------------------------------------------------------
(* setupShell.                                                             *)

Advance(to) == pc' = to /\ UNCHANGED setup

\* The error return: the mesh config goes out of scope, the error tray comes.
Fail ==
    /\ pc' = "error"
    /\ failed' = pc
    /\ wg' = NoMesh

\* A stage that can only fail or be passed.
Check(stage, ok, to) ==
    /\ pc = stage
    /\ \/ ok /\ Advance(to)
       \/ (~ok \/ stage \in Faults) /\ Fail
    /\ UNCHANGED <<running, ctx>>

LoadConfig == Check("config", TRUE, IF wg = NoMesh THEN "shell" ELSE "wgfile")

LoadWGConfig == Check("wgfile", TRUE, "addrs")

ParseAddrs == Check("addrs", Parsable(wg.addresses) /\ Parsable(wg.dns), "tun")

\* CreateNetTUN, then NewDevice, which cannot fail.
CreateDevice ==
    /\ pc = "tun"
    /\ \/ Advance("ipc") /\ dev' = "open"
       \/ "tun" \in Faults /\ Fail /\ UNCHANGED dev
    /\ UNCHANGED <<closer, gateway, control, ctx>>

\* Mutant: only the error of uapiConfig closes the device.
ConfigureLeaks ==
    /\ pc = "ipc"
    /\ \/ /\ ~Unrenderable(wg)
          /\ IF IpcSet(uapiConfig(wg)) = Rejected THEN Fail ELSE Advance("up")
          /\ UNCHANGED dev
       \/ Unrenderable(wg) /\ Fail /\ dev' = "closed"
    /\ UNCHANGED <<closer, gateway, control, ctx>>

Applies == ~Unrenderable(wg) /\ IpcSet(uapiConfig(wg)) # Rejected

\* uapiConfig and IpcSet; either error closes the device.
ConfigureDevice ==
    /\ pc = "ipc"
    /\ \/ Applies /\ Advance("up") /\ UNCHANGED dev
       \/ (~Applies \/ "ipc" \in Faults) /\ Fail /\ dev' = "closed"
    /\ UNCHANGED <<closer, gateway, control, ctx>>

\* dev.Up; MeshDialer returns, a goroutine will close what it made.
BringUp ==
    /\ pc = "up"
    /\ \/ /\ pc' = "shell" /\ wg' = NoMesh /\ UNCHANGED failed
          /\ dev' = "up" /\ closer' = "waiting"
       \/ "up" \in Faults /\ Fail /\ dev' = "closed" /\ UNCHANGED closer
    /\ UNCHANGED <<gateway, control, ctx>>

\* Mutant: the control server listens before the shell is made.
StartListening ==
    /\ pc = "shell"
    /\ control' = "on"
    /\ \/ Advance("listen") /\ gateway' = "running"
       \/ "shell" \in Faults /\ Fail /\ UNCHANGED gateway
    /\ UNCHANGED <<dev, closer, ctx>>

\* shell.New with ctrl.Publish as OnSwitch; sh.Run is started without waiting.
StartShell ==
    /\ pc = "shell"
    /\ \/ Advance("listen") /\ gateway' = "running"
       \/ "shell" \in Faults /\ Fail /\ UNCHANGED gateway
    /\ UNCHANGED <<dev, closer, control, ctx>>

\* ctrl.Listen; setupShell returns.
Listen ==
    /\ pc = "listen"
    /\ \/ Advance("ready") /\ control' = "on"
       \/ "listen" \in Faults /\ Fail /\ UNCHANGED control
    /\ UNCHANGED <<dev, closer, gateway, ctx>>

SetupStep ==
    \/ LoadConfig \/ LoadWGConfig \/ ParseAddrs \/ CreateDevice
    \/ ConfigureDevice \/ BringUp \/ StartShell \/ Listen

-----------------------------------------------------------------------------
(* What is bound to ctx.                                                   *)

CloseMesh ==
    /\ pc # "gone"
    /\ closer = "waiting"
    /\ ctx = "cancelled"
    /\ dev' = "closed"
    /\ closer' = "done"
    /\ UNCHANGED <<setup, pc, gateway, control, ctx>>

\* An error of sh.Run is logged, the tray stays as it is.
GatewayStops ==
    /\ pc # "gone"
    /\ gateway = "running"
    /\ ctx = "cancelled" \/ "gateway" \in Faults
    /\ gateway' = "stopped"
    /\ UNCHANGED <<setup, pc, dev, closer, control, ctx>>

ControlStops ==
    /\ pc # "gone"
    /\ control = "on"
    /\ ctx = "cancelled"
    /\ control' = "off"
    /\ UNCHANGED <<setup, pc, dev, closer, gateway, ctx>>

-----------------------------------------------------------------------------
(* The way out.                                                            *)

\* os.Interrupt or SIGTERM: NotifyContext takes it, the process goes on.
Interrupt ==
    /\ pc # "gone"
    /\ ctx' = "cancelled"
    /\ UNCHANGED <<setup, pc, running>>

\* A tray's loop calls systray.Quit and returns.
LeaveTray(tray) ==
    /\ pc = tray
    /\ pc' = "quit"
    /\ UNCHANGED <<setup, running, ctx>>

\* The click on Quit.
ClickQuit(tray) == LeaveTray(tray)

\* Mutant: the error tray waits for the click only.
NoticesReadyOnly(tray) == tray = "ready" /\ ctx = "cancelled" /\ LeaveTray(tray)

\* The ctx.Done() arm of its select.
NoticeDone(tray) == ctx = "cancelled" /\ LeaveTray(tray)

\* systray runs onExit, which is cancel, and its Run returns.
OnExit ==
    /\ pc = "quit"
    /\ pc' = "exit"
    /\ ctx' = "cancelled"
    /\ UNCHANGED <<setup, running>>

\* Nothing of the process outlives it.
Gone ==
    /\ pc' = "gone"
    /\ dev' = "none" /\ closer' = "none" /\ gateway' = "none" /\ control' = "off"
    /\ wg' = NoMesh
    /\ UNCHANGED <<failed, ctx>>

\* runTray and main return; the goroutines are not waited for.
Exit == pc = "exit" /\ Gone

Kill == pc # "gone" /\ Gone

Next ==
    \/ SetupStep
    \/ CloseMesh \/ GatewayStops \/ ControlStops
    \/ Interrupt
    \/ \E tray \in {"ready", "error"} : ClickQuit(tray) \/ NoticeDone(tray)
    \/ OnExit \/ Exit \/ Kill

Spec == Init /\ [][Next]_vars

-----------------------------------------------------------------------------

(***************************************************************************)
(* No WireGuard device is left open without somebody to close it: it is    *)
(* either still inside MeshDialer, whose error paths close it, or the      *)
(* goroutine of setupShell waits for ctx on its behalf, and while ctx is   *)
(* live a mesh that came up stays up.                                      *)
(***************************************************************************)
DeviceHasOwner ==
    /\ dev \in {"open", "up"} => pc \in {"ipc", "up"} \/ closer = "waiting"
    /\ closer # "none" /\ ctx = "live" => dev = "up"

(***************************************************************************)
(* What still runs under the error tray is known from the stage it shows:  *)
(* never the control server, the mesh only behind an error of shell.New or *)
(* ctrl.Listen, the gateway only behind one of ctrl.Listen (setupShell     *)
(* tears nothing down, it relies on ctx).                                  *)
(***************************************************************************)
ErrorTrayLeftovers ==
    pc = "error" =>
      /\ failed # "nothing" /\ wg = NoMesh
      /\ control = "off"
      /\ dev \in {"open", "up"} => failed \in {"shell", "listen"}
      /\ gateway = "running" => failed = "listen"

(***************************************************************************)
(* uapiConfig's rendering, read line by line by the device, gives the peers*)
(* and routes the file describes, entries of one public key merged and the *)
(* last claim of a network winning; and the device takes it if and only if *)
(* each value in it is one it takes.                                       *)
(***************************************************************************)
MeshAsConfigured ==
    pc = "ipc" /\ ~Unrenderable(wg) =>
      IpcSet(uapiConfig(wg)) = IF Acceptable(wg) THEN Intended(wg) ELSE Rejected
=============================================================================
