---------------------------- MODULE StartupProofs ----------------------------
(***************************************************************************)
(* Proofs about Startup, for any mesh configs and any stages that fail.    *)
(***************************************************************************)
EXTENDS Startup, MeshConfigProofs

\* How far setupShell is tells what it has started.
Started ==
    /\ pc \in {"config", "wgfile", "addrs", "tun"} => dev = "none"
    /\ pc \in {"ipc", "up"} <=> dev = "open"
    /\ pc \in {"config", "wgfile", "addrs", "tun", "ipc", "up"} => closer = "none"
    /\ pc \in {"config", "wgfile", "addrs", "tun", "ipc", "up", "shell"} =>
         gateway = "none"
    /\ pc \notin {"ready", "quit", "exit"} => control = "off"
    /\ pc = "gone" => closer = "none" /\ gateway = "none"

\* The goroutine and the device it closes go together.
Paired ==
    /\ closer = "waiting" <=> dev = "up"
    /\ closer = "done" => ctx = "cancelled" /\ pc # "gone"

\* What ran when a stage failed.
Left ==
    pc = "error" =>
      /\ failed # "nothing" /\ wg = NoMesh
      /\ failed \notin {"shell", "listen"} => closer = "none"
      /\ failed # "listen" => gateway = "none"

\* The mesh stages are only reached with a mesh config.
Meshed == pc \in {"wgfile", "addrs", "tun", "ipc", "up"} => wg # NoMesh

StartupInv == TypeOK /\ Started /\ Paired /\ Left /\ Meshed

LEMMA InitStartupInv == Init => StartupInv
BY DEF Init, StartupInv, TypeOK, Stages, Setup, Started, Paired, Left, Meshed

LEMMA StartupStep == StartupInv /\ [Next]_vars => StartupInv'
<1> SUFFICES ASSUME StartupInv, [Next]_vars PROVE StartupInv'
  OBVIOUS
<1> USE DEF StartupInv, TypeOK, Stages, Setup, Started, Paired, Left, Meshed,
          setup, running
<1>1. CASE LoadConfig
  BY <1>1 DEF LoadConfig, Check, Advance, Fail
<1>2. CASE LoadWGConfig
  BY <1>2 DEF LoadWGConfig, Check, Advance, Fail
<1>3. CASE ParseAddrs
  BY <1>3 DEF ParseAddrs, Check, Advance, Fail
<1>4. CASE CreateDevice
  BY <1>4 DEF CreateDevice, Advance, Fail
<1>5. CASE ConfigureDevice
  BY <1>5 DEF ConfigureDevice, Advance, Fail
<1>6. CASE BringUp
  BY <1>6 DEF BringUp, Fail
<1>7. CASE StartShell
  BY <1>7 DEF StartShell, Advance, Fail
<1>8. CASE Listen
  BY <1>8 DEF Listen, Advance, Fail
<1>9. CASE CloseMesh
  BY <1>9 DEF CloseMesh
<1>10. CASE GatewayStops
  BY <1>10 DEF GatewayStops
<1>11. CASE ControlStops
  BY <1>11 DEF ControlStops
<1>12. CASE Interrupt
  BY <1>12 DEF Interrupt
<1>13. ASSUME NEW tray \in {"ready", "error"}, ClickQuit(tray) \/ NoticeDone(tray)
       PROVE  StartupInv'
  BY <1>13 DEF ClickQuit, NoticeDone, LeaveTray
<1>14. CASE OnExit
  BY <1>14 DEF OnExit
<1>15. CASE Exit \/ Kill
  BY <1>15 DEF Exit, Kill, Gone
<1>16. CASE UNCHANGED vars
  BY <1>16 DEF vars
<1> QED
  BY <1>1, <1>2, <1>3, <1>4, <1>5, <1>6, <1>7, <1>8, <1>9, <1>10, <1>11, <1>12,
     <1>13, <1>14, <1>15, <1>16 DEF Next, SetupStep

LEMMA AlwaysStartupInv == Spec => []StartupInv
BY InitStartupInv, StartupStep, PTL DEF Spec

LEMMA StartupInvSuffices == StartupInv => DeviceHasOwner /\ ErrorTrayLeftovers
BY DEF StartupInv, TypeOK, Started, Paired, Left, DeviceHasOwner, ErrorTrayLeftovers

\* What the device is told about a mesh is what its file says.
LEMMA MeshFollows == StartupInv => MeshAsConfigured
<1> SUFFICES ASSUME StartupInv, pc = "ipc"
             PROVE  IpcSet(uapiConfig(wg))
                      = IF Acceptable(wg) THEN Intended(wg) ELSE Rejected
  BY DEF MeshAsConfigured
<1>1. wg \in Configs
  BY DEF StartupInv, TypeOK, Meshed
<1>2. IsWGConfig(wg)
  BY <1>1, ConfigsAssumption
<1> QED
  BY <1>2, MeshRendering

\* A device is only brought up with a config that wireguard-go takes.
LEMMA AcceptedStep ==
    ASSUME StartupInv, pc = "up" => Acceptable(wg), [Next]_vars
    PROVE  (pc = "up" => Acceptable(wg))'
<1> SUFFICES ASSUME pc' = "up" PROVE Acceptable(wg')
  OBVIOUS
<1>1. CASE UNCHANGED <<pc, wg>>
  BY <1>1
<1>2. ASSUME pc = "ipc", Applies, UNCHANGED wg PROVE Acceptable(wg')
  <2>1. IpcSet(uapiConfig(wg))
          = IF Acceptable(wg) THEN Intended(wg) ELSE Rejected
    BY <1>2, MeshFollows DEF MeshAsConfigured, Applies
  <2> QED
    BY <1>2, <2>1 DEF Applies
<1>3. CASE ConfigureDevice
  BY <1>2, <1>3 DEF ConfigureDevice, Advance, Fail, setup
<1>4. \/ UNCHANGED <<pc, wg>>
      \/ ConfigureDevice
  BY DEF Next, SetupStep, LoadConfig, LoadWGConfig, ParseAddrs, Check, Advance,
         Fail, CreateDevice, BringUp, StartShell, Listen, CloseMesh,
         GatewayStops, ControlStops, Interrupt, ClickQuit, NoticeDone,
         LeaveTray, OnExit, Exit, Kill, Gone, setup, vars
<1> QED
  BY <1>1, <1>3, <1>4

LEMMA AlwaysAccepted == Spec => [](pc = "up" => Acceptable(wg))
<1>1. Init => (pc = "up" => Acceptable(wg))
  BY DEF Init
<1> QED
  BY <1>1, AcceptedStep, AlwaysStartupInv, PTL DEF Spec
=============================================================================
