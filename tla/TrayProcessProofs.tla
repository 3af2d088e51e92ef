-------------------------- MODULE TrayProcessProofs --------------------------
(***************************************************************************)
(* Proofs about TrayProcess, for any number of cluster items and clicks.   *)
(***************************************************************************)
EXTENDS TrayProcess, StartupProofs, SequenceTheorems, FiniteSetTheorems,
        FunctionTheorems

\* Seen without its menu, every step is one of Startup's or none.
LEMMA StepOfStartup == [TrayNext]_trayVars => [Next]_vars
<1> SUFFICES ASSUME [TrayNext]_trayVars PROVE [Next]_vars
  OBVIOUS
<1>1. CASE LoopEnds
  BY <1>1 DEF LoopEnds, Next
<1>2. CASE Around
  BY <1>2 DEF Around, Next
<1>3. CASE OnReady \/ SwitchCluster \/ ClickSignIn \/ SignInReturns
  BY <1>3 DEF OnReady, SwitchCluster, ClickSignIn, SignInReturns
<1>4. ASSUME NEW c \in Clusters, ClickCluster(c) \/ Forward(c) \/ ForwarderEnds(c)
      PROVE  UNCHANGED vars
  BY <1>4 DEF ClickCluster, Forward, ForwarderEnds
<1>5. CASE UNCHANGED trayVars
  BY <1>5 DEF trayVars
<1> QED
  BY <1>1, <1>2, <1>3, <1>4, <1>5 DEF TrayNext

(***************************************************************************)
(* The process with its menu is a process that starts and ends as Startup  *)
(* says: what holds of every Startup behaviour holds of it.                *)
(***************************************************************************)
THEOREM TrayImplementsStartup == TraySpec => Spec
<1>1. TrayInit => Init
  BY DEF TrayInit
<1> QED
  BY <1>1, StepOfStartup, PTL DEF TraySpec, Spec

\* The mesh device always has somebody who will close it.
THEOREM TrayDeviceHasOwner == TraySpec => []DeviceHasOwner
BY TrayImplementsStartup, AlwaysStartupInv, StartupInvSuffices, PTL

\* What an error tray can have running under it is known from its error.
THEOREM TrayErrorLeftovers == TraySpec => []ErrorTrayLeftovers
BY TrayImplementsStartup, AlwaysStartupInv, StartupInvSuffices, PTL

\* Every device is told what its config says, or nothing, whatever the config.
THEOREM TrayMeshAsConfigured == TraySpec => []MeshAsConfigured
BY TrayImplementsStartup, AlwaysStartupInv, MeshFollows, PTL

\* A device is brought up only with a config that is right in every line; one
\* that is rejected half way leaves an error tray and a closed device.
THEOREM TrayBringsUpAcceptable == TraySpec => [](pc = "up" => Acceptable(wg))
BY TrayImplementsStartup, AlwaysAccepted, PTL

-----------------------------------------------------------------------------
(* Type correctness.                                                       *)

\* What TrayTypeOK says of the menu; and no forwarder runs before onReady.
MenuInv ==
    /\ loop \in {"off", "select", "signin"}
    /\ fwd \in [Clusters -> {"off", "wait", "send"}]
    /\ switchCh \in Seq(Clusters) /\ Len(switchCh) <= Cardinality(Clusters)
    /\ active \in Clusters \cup {NoCluster}
    /\ taken \in [Clusters -> 0 .. MaxClicks]
    /\ switched \in [Clusters -> Nat]
    /\ batch \subseteq Clusters
    /\ loop # "off" => pc \in {"ready", "gone"}
    /\ loop = "off" /\ pc \notin {"quit", "exit", "gone"} =>
         \A c \in Clusters : fwd[c] = "off"

LEMMA Capacity == Cardinality(Clusters) \in Nat
BY TrayAssumption, FS_CardinalityType

LEMMA MenuInvInit == TrayInit => MenuInv
BY Capacity, EmptySeq, TrayAssumption DEF TrayInit, MenuInv

LEMMA MenuInvStep == ASSUME MenuInv, [TrayNext]_trayVars PROVE MenuInv'
<1> USE DEF MenuInv
<1>1. CASE Around
  <2>1. /\ pc \in {"ready", "gone"} => pc' \in {pc, "gone"}
        /\ pc \in {"quit", "exit", "gone"} => pc' \in {"quit", "exit", "gone"}
    BY <1>1 DEF Around, SetupStep, LoadConfig, LoadWGConfig, ParseAddrs, Check,
       CreateDevice, ConfigureDevice, BringUp, StartShell, Listen, CloseMesh,
       GatewayStops, ControlStops, Interrupt, ClickQuit, NoticeDone, LeaveTray,
       OnExit, Exit, Kill, Gone
  <2> QED
    BY <1>1, <2>1 DEF Around, menu
<1>2. CASE OnReady
  BY <1>2 DEF OnReady, vars
<1>3. CASE SwitchCluster
  <2>1. Head(switchCh) \in Clusters /\ Tail(switchCh) \in Seq(Clusters)
        /\ Len(Tail(switchCh)) = Len(switchCh) - 1 /\ Len(switchCh) \in Nat
    BY <1>3, HeadTailProperties, LenProperties DEF SwitchCluster
  <2> QED
    BY <1>3, <2>1, Capacity DEF SwitchCluster, vars
<1>4. CASE ClickSignIn \/ SignInReturns
  BY <1>4 DEF ClickSignIn, SignInReturns, Selecting, vars
<1>5. CASE LoopEnds
  BY <1>5 DEF LoopEnds, ClickQuit, NoticeDone, LeaveTray
<1>6. ASSUME NEW c \in Clusters, ClickCluster(c) PROVE MenuInv'
  <2>1. taken'[c] \in 0 .. MaxClicks /\ taken' \in [Clusters -> 0 .. MaxClicks]
    BY <1>6, TrayAssumption DEF ClickCluster
  <2> QED
    BY <1>6, <2>1 DEF ClickCluster, vars
<1>7. ASSUME NEW c \in Clusters, Forward(c) PROVE MenuInv'
  <2>1. Append(switchCh, c) \in Seq(Clusters)
        /\ Len(Append(switchCh, c)) = Len(switchCh) + 1 /\ Len(switchCh) \in Nat
    BY AppendProperties, LenProperties
  <2> QED
    BY <1>7, <2>1, Capacity DEF Forward, vars
<1>8. ASSUME NEW c \in Clusters, ForwarderEnds(c) PROVE MenuInv'
  BY <1>8 DEF ForwarderEnds, vars
<1>9. CASE UNCHANGED trayVars
  BY <1>9 DEF trayVars, menu, vars
<1> QED
  BY <1>1, <1>2, <1>3, <1>4, <1>5, <1>6, <1>7, <1>8, <1>9 DEF TrayNext

LEMMA AlwaysMenuInv == TraySpec => []MenuInv
BY MenuInvInit, MenuInvStep, PTL DEF TraySpec

\* The channel never holds more than one name per item, and the loop runs only
\* in a tray that came up.
THEOREM TrayTyped == TraySpec => []TrayTypeOK
<1>1. StartupInv /\ MenuInv => TrayTypeOK
  BY DEF StartupInv, MenuInv, TrayTypeOK
<1> QED
  BY <1>1, TrayImplementsStartup, AlwaysStartupInv, AlwaysMenuInv, PTL

-----------------------------------------------------------------------------
(* Clicks are accounted for.                                               *)

\* Where c stands in a sequence.
At(s, c) == {i \in DOMAIN s : s[i] = c}

LEMMA AtFinite ==
    ASSUME NEW s \in Seq(Clusters), NEW c
    PROVE  IsFiniteSet(At(s, c)) /\ Waiting(s, c) = Cardinality(At(s, c))
           /\ Waiting(s, c) \in Nat
<1>1. DOMAIN s = 1 .. Len(s) /\ Len(s) \in Nat
  BY LenProperties
<1>2. IsFiniteSet(1 .. Len(s))
  BY <1>1, FS_Interval
<1>3. At(s, c) \in SUBSET (1 .. Len(s))
  BY <1>1 DEF At
<1>4. IsFiniteSet(At(s, c))
  BY <1>2, <1>3, FS_Subset
<1> QED
  BY <1>4, FS_CardinalityType DEF Waiting, At

\* A name sent is one more of its kind.
LEMMA WaitingAppend ==
    ASSUME NEW s \in Seq(Clusters), NEW c \in Clusters, NEW d \in Clusters
    PROVE  Waiting(Append(s, c), d) = Waiting(s, d) + (IF c = d THEN 1 ELSE 0)
<1> DEFINE t == Append(s, c)
           n == Len(s) + 1
<1>1. /\ Len(s) \in Nat /\ DOMAIN s = 1 .. Len(s)
      /\ t \in Seq(Clusters) /\ DOMAIN t = 1 .. n
      /\ t[n] = c /\ \A i \in 1 .. Len(s) : t[i] = s[i]
  BY AppendProperties, LenProperties
<1>2. n \notin At(s, d)
  BY <1>1 DEF At
<1>3. At(t, d) = IF c = d THEN At(s, d) \cup {n} ELSE At(s, d)
  BY <1>1 DEF At
<1> HIDE DEF t, n
<1>4. Cardinality(At(s, d) \cup {n}) = Cardinality(At(s, d)) + 1
  BY <1>2, AtFinite, FS_AddElement
<1>5. /\ Waiting(t, d) = Cardinality(At(t, d))
      /\ Waiting(s, d) = Cardinality(At(s, d)) /\ Waiting(s, d) \in Nat
  BY <1>1, AtFinite
<1>6. Waiting(t, d) = Waiting(s, d) + (IF c = d THEN 1 ELSE 0)
  BY <1>3, <1>4, <1>5
<1> QED
  BY <1>6 DEF t

\* A name received is one fewer of its kind.
LEMMA WaitingTail ==
    ASSUME NEW s \in Seq(Clusters), s # <<>>, NEW d \in Clusters
    PROVE  Waiting(s, d) = Waiting(Tail(s), d) + (IF Head(s) = d THEN 1 ELSE 0)
<1> DEFINE t == Tail(s)
           rest == At(s, d) \ {1}
           back == [i \in rest |-> i - 1]
<1>1. /\ Len(s) \in Nat /\ Len(s) >= 1 /\ DOMAIN s = 1 .. Len(s)
      /\ t \in Seq(Clusters) /\ DOMAIN t = 1 .. (Len(s) - 1)
      /\ s[1] = Head(s) /\ \A i \in 1 .. (Len(s) - 1) : t[i] = s[i + 1]
  BY HeadTailProperties, LenProperties, EmptySeq
<1>2. back \in Bijection(rest, At(t, d))
  <2>1. \A i \in rest : i \in 2 .. Len(s) /\ s[i] = d
    BY <1>1 DEF At
  <2>2. \A i \in rest : i - 1 \in At(t, d)
    <3> TAKE i \in rest
    <3>1. i - 1 \in 1 .. (Len(s) - 1) /\ t[i - 1] = s[(i - 1) + 1] /\ (i - 1) + 1 = i
      BY <1>1, <2>1
    <3> QED
      BY <1>1, <2>1, <3>1 DEF At
  <2>3. \A j \in At(t, d) : j + 1 \in rest /\ (j + 1) - 1 = j
    <3> TAKE j \in At(t, d)
    <3>1. j \in 1 .. (Len(s) - 1) /\ s[j + 1] = d
      BY <1>1 DEF At
    <3>2. j + 1 \in 1 .. Len(s) /\ j + 1 # 1 /\ (j + 1) - 1 = j
      BY <1>1, <3>1
    <3> QED
      BY <1>1, <3>1, <3>2 DEF At
  <2>4. back \in [rest -> At(t, d)]
    BY <2>2
  <2>5. \A i, j \in rest : back[i] = back[j] => i = j
    BY <2>1
  <2>6. \A j \in At(t, d) : \E i \in rest : back[i] = j
    <3> TAKE j \in At(t, d)
    <3>1. j + 1 \in rest /\ (j + 1) - 1 = j
      BY <2>3
    <3> HIDE DEF rest, t
    <3>2. back[j + 1] = j
      BY <3>1
    <3> QED
      BY <3>1, <3>2
  <2> HIDE DEF back, rest, t
  <2> QED
    BY <2>4, <2>5, <2>6, Fun_IsBij
<1>3. 1 \in At(s, d) <=> Head(s) = d
  BY <1>1 DEF At
<1>4. /\ IsFiniteSet(At(s, d)) /\ Waiting(s, d) = Cardinality(At(s, d))
      /\ Waiting(s, d) \in Nat
      /\ Waiting(t, d) = Cardinality(At(t, d)) /\ Waiting(t, d) \in Nat
  BY <1>1, AtFinite
<1>5. /\ IsFiniteSet(rest)
      /\ Cardinality(rest) = IF Head(s) = d THEN Waiting(s, d) - 1 ELSE Waiting(s, d)
  BY <1>3, <1>4, FS_RemoveElement
<1>6. ExistsBijection(rest, At(t, d))
  BY <1>2 DEF ExistsBijection
<1>7. Cardinality(At(t, d)) = Cardinality(rest)
  BY <1>5, <1>6, FS_Bijection
<1> QED
  BY <1>4, <1>5, <1>7

LEMMA AccountedInit == TrayInit => ClicksAccounted
<1> SUFFICES ASSUME TrayInit, NEW c \in Clusters
             PROVE  taken[c] = switched[c] + Waiting(switchCh, c)
                               + (IF fwd[c] = "send" THEN 1 ELSE 0)
  BY DEF ClicksAccounted
<1>1. Waiting(<<>>, c) = 0
  BY FS_EmptySet DEF Waiting
<1> QED
  BY <1>1 DEF TrayInit

LEMMA AccountedStep ==
    ASSUME MenuInv, ClicksAccounted, [TrayNext]_trayVars
    PROVE  ClicksAccounted'
<1> SUFFICES ASSUME NEW d \in Clusters
             PROVE  taken'[d] = switched'[d] + Waiting(switchCh', d)
                                + (IF fwd'[d] = "send" THEN 1 ELSE 0)
  BY DEF ClicksAccounted
<1>1. /\ taken[d] = switched[d] + Waiting(switchCh, d)
                    + (IF fwd[d] = "send" THEN 1 ELSE 0)
      /\ taken[d] \in Int /\ switched[d] \in Int /\ Waiting(switchCh, d) \in Int
  BY AtFinite DEF ClicksAccounted, MenuInv
<1>2. CASE OnReady \/ ClickSignIn \/ SignInReturns \/ LoopEnds \/ Around \/ UNCHANGED trayVars
  <2>1. UNCHANGED <<taken, switched, switchCh>>
    BY <1>2 DEF OnReady, ClickSignIn, SignInReturns, LoopEnds, Around, menu, trayVars
  <2>2. fwd'[d] = "send" <=> fwd[d] = "send"
    BY <1>2 DEF OnReady, ClickSignIn, SignInReturns, LoopEnds, Around, menu, trayVars,
       MenuInv
  <2> QED
    BY <1>1, <2>1, <2>2
<1>3. CASE SwitchCluster
  <2>1. Head(switchCh) \in Clusters
    BY <1>3, HeadTailProperties DEF SwitchCluster, MenuInv
  <2>2. switched'[d] = switched[d] + (IF Head(switchCh) = d THEN 1 ELSE 0)
    BY <1>1, <1>3, <2>1 DEF SwitchCluster, MenuInv
  <2>3. switchCh \in Seq(Clusters) /\ switchCh # <<>> /\ switchCh' = Tail(switchCh)
    BY <1>3 DEF SwitchCluster, MenuInv
  <2>4. Waiting(switchCh, d) = Waiting(Tail(switchCh), d)
                               + (IF Head(switchCh) = d THEN 1 ELSE 0)
    BY <2>3, WaitingTail
  <2>5. Waiting(Tail(switchCh), d) \in Nat
    <3>1. Tail(switchCh) \in Seq(Clusters)
      BY <2>3, HeadTailProperties
    <3> QED
      BY <3>1, AtFinite
  <2>6. UNCHANGED <<taken, fwd>>
    BY <1>3 DEF SwitchCluster
  <2> QED
    BY <1>1, <2>2, <2>3, <2>4, <2>5, <2>6
<1>4. ASSUME NEW c \in Clusters, ClickCluster(c)
      PROVE  taken'[d] = switched'[d] + Waiting(switchCh', d)
                         + (IF fwd'[d] = "send" THEN 1 ELSE 0)
  <2>1. /\ taken'[d] = taken[d] + (IF c = d THEN 1 ELSE 0)
        /\ fwd'[d] = IF c = d THEN "send" ELSE fwd[d]
    BY <1>1, <1>4 DEF ClickCluster, MenuInv
  <2>2. fwd[c] # "send" /\ UNCHANGED <<switched, switchCh>>
    BY <1>4 DEF ClickCluster
  <2> QED
    BY <1>1, <2>1, <2>2
<1>5. ASSUME NEW c \in Clusters, Forward(c)
      PROVE  taken'[d] = switched'[d] + Waiting(switchCh', d)
                         + (IF fwd'[d] = "send" THEN 1 ELSE 0)
  <2>1. /\ fwd[c] = "send"
        /\ fwd'[d] = IF c = d THEN "wait" ELSE fwd[d]
    BY <1>5 DEF Forward, MenuInv
  <2>2. Waiting(switchCh', d) = Waiting(switchCh, d) + (IF c = d THEN 1 ELSE 0)
    BY <1>5, WaitingAppend DEF Forward, MenuInv
  <2> QED
    BY <1>1, <1>5, <2>1, <2>2 DEF Forward
<1>6. ASSUME NEW c \in Clusters, ForwarderEnds(c)
      PROVE  taken'[d] = switched'[d] + Waiting(switchCh', d)
                         + (IF fwd'[d] = "send" THEN 1 ELSE 0)
  <2>1. fwd'[d] = "send" <=> fwd[d] = "send"
    BY <1>6 DEF ForwarderEnds, MenuInv
  <2> QED
    BY <1>1, <1>6, <2>1 DEF ForwarderEnds
<1> QED
  BY <1>2, <1>3, <1>4, <1>5, <1>6 DEF TrayNext

\* No click a forwarder has taken is lost, doubled or given to another cluster.
THEOREM ClicksAreAccounted == TraySpec => []ClicksAccounted
BY AccountedInit, AccountedStep, AlwaysMenuInv, PTL DEF TraySpec

-----------------------------------------------------------------------------
(* The cluster the menu comes to rest on.                                  *)

\* Every click on its way belongs to the batch.
OnItsWay ==
    /\ \A i \in DOMAIN switchCh : switchCh[i] \in batch
    /\ \A c \in Clusters : fwd[c] = "send" => c \in batch

RestInv == OnItsWay /\ QuietOnAClick

LEMMA RestInit == TrayInit => RestInv
BY EmptySeq DEF TrayInit, RestInv, OnItsWay, QuietOnAClick

LEMMA RestStep ==
    ASSUME MenuInv, RestInv, [TrayNext]_trayVars
    PROVE  RestInv'
<1> USE DEF RestInv, OnItsWay, QuietOnAClick, Quiet
<1>1. CASE OnReady \/ ClickSignIn \/ SignInReturns \/ LoopEnds \/ Around \/ UNCHANGED trayVars
  <2>1. UNCHANGED <<active, batch, switchCh>>
    BY <1>1 DEF OnReady, ClickSignIn, SignInReturns, LoopEnds, Around, menu, trayVars
  <2>2. \A c \in Clusters : fwd'[c] = "send" <=> fwd[c] = "send"
    BY <1>1 DEF OnReady, ClickSignIn, SignInReturns, LoopEnds, Around, menu, trayVars,
       MenuInv
  <2> QED
    BY <2>1, <2>2
<1>2. CASE SwitchCluster
  <2>1. /\ Head(switchCh) = switchCh[1] /\ 1 \in DOMAIN switchCh
        /\ \A i \in DOMAIN Tail(switchCh) :
             i + 1 \in DOMAIN switchCh /\ Tail(switchCh)[i] = switchCh[i + 1]
    BY <1>2, HeadTailProperties, LenProperties, EmptySeq DEF SwitchCluster, MenuInv
  <2> QED
    BY <1>2, <2>1 DEF SwitchCluster
<1>3. ASSUME NEW c \in Clusters, ClickCluster(c) PROVE RestInv'
  <2>1. fwd'[c] = "send" /\ \A d \in Clusters \ {c} : fwd'[d] = fwd[d]
    BY <1>3 DEF ClickCluster, MenuInv
  <2>2. c \in batch' /\ (Quiet \/ batch \subseteq batch')
    BY <1>3 DEF ClickCluster
  <2>3. Quiet => switchCh = <<>> /\ \A d \in Clusters : fwd[d] # "send"
    OBVIOUS
  <2> QED
    BY <1>3, <2>1, <2>2, <2>3, EmptySeq DEF ClickCluster
<1>4. ASSUME NEW c \in Clusters, Forward(c) PROVE RestInv'
  <2>1. fwd'[c] = "wait" /\ \A d \in Clusters \ {c} : fwd'[d] = fwd[d]
    BY <1>4 DEF Forward, MenuInv
  <2>2. /\ switchCh' # <<>>
        /\ \A i \in DOMAIN switchCh' :
             \/ switchCh'[i] = c
             \/ i \in DOMAIN switchCh /\ switchCh'[i] = switchCh[i]
    BY <1>4, AppendProperties, LenProperties DEF Forward, MenuInv
  <2> QED
    BY <1>4, <2>1, <2>2 DEF Forward
<1>5. ASSUME NEW c \in Clusters, ForwarderEnds(c) PROVE RestInv'
  <2>1. \A d \in Clusters : fwd'[d] = "send" <=> fwd[d] = "send"
    BY <1>5 DEF ForwarderEnds, MenuInv
  <2> QED
    BY <1>5, <2>1 DEF ForwarderEnds
<1> QED
  BY <1>1, <1>2, <1>3, <1>4, <1>5 DEF TrayNext

\* The menu comes to rest on a cluster of the last burst of clicks.
THEOREM RestsOnAClick == TraySpec => []QuietOnAClick
<1>1. RestInv => QuietOnAClick
  BY DEF RestInv
<1> QED
  BY <1>1, RestInit, RestStep, AlwaysMenuInv, PTL DEF TraySpec
=============================================================================
