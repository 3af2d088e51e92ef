---------------------------- MODULE SessionProofs ----------------------------
(***************************************************************************)
(* Proofs about Session for every value of its constants.                  *)
(***************************************************************************)
EXTENDS Session, TLAPS

\* The part of the inductive invariant that says where tokens may be.
PlaceInv == TypeOK /\ MenuAgrees /\ Grounded /\ TargetsStayApart

-----------------------------------------------------------------------------

(***************************************************************************)
(* A guarded read of an existing entry (Get, Expired, Bearer in main and   *)
(* spawnSignInAndReload) yields either nothing or the unexpired entry.     *)
(***************************************************************************)
LEMMA ReadYields ==
    ASSUME TypeOK, NEW x \in Targets, NEW r \in BOOLEAN
    PROVE  /\ Read(x, r) \in Maybe(Token)
           /\ Read(x, r) # NoToken =>
                Read(x, r) = store[x] /\ ~Expired(store[x])
BY DEF TypeOK, Read, Usable, Maybe

LEMMA OutcomesBoolean == \A op : Outcomes(op) \subseteq BOOLEAN
BY DEF Outcomes

\* Init establishes the placement invariant.
LEMMA PlaceInit == Init => PlaceInv
BY SessionAssumption
   DEF Init, PlaceInv, TypeOK, MenuAgrees, Grounded, TargetsStayApart, Maybe,
       Phases, Stages

\* Boot loads nothing, or the tray's own entry while it is fresh.
LEMMA BootYields ==
    ASSUME PlaceInv, NEW t \in Trays, Boot(t)
    PROVE  \E on \in BOOLEAN, tok \in Maybe(Token) :
             /\ Begin(t, on, tok, ~on \/ tok # NoToken)
             /\ on => TargetOf[t] \in Targets
             /\ tok # NoToken => on /\ tok = store[TargetOf[t]] /\ ~Expired(tok)
             /\ phase[t] = "off" /\ child[t] = "none" /\ authToken[t] = NoToken
<1>1. PICK loaded \in Outcomes("config"), readable \in Outcomes("read") :
        LET on  == loaded /\ TargetOf[t] # NoAuth
            tok == Cached(t, on, readable)
        IN  Begin(t, on, tok, ~on \/ tok # NoToken)
  BY Zenon DEF Boot
<1> DEFINE on  == loaded /\ TargetOf[t] # NoAuth
           tok == Cached(t, on, readable)
<1>2. on \in BOOLEAN /\ (on => TargetOf[t] \in Targets)
  BY SessionAssumption, OutcomesBoolean
<1>3. /\ tok \in Maybe(Token)
      /\ tok # NoToken => on /\ tok = store[TargetOf[t]] /\ ~Expired(tok)
  BY <1>2, ReadYields, OutcomesBoolean DEF PlaceInv, Maybe, Cached
<1>4. phase[t] = "off" /\ child[t] = "none" /\ authToken[t] = NoToken
  BY DEF Boot, PlaceInv, Grounded
<1>5. Begin(t, on, tok, ~on \/ tok # NoToken)
  BY <1>1
<1> HIDE DEF on, tok
<1> QED
  BY <1>2, <1>3, <1>4, <1>5

LEMMA PlaceBoot == ASSUME PlaceInv, NEW t \in Trays, Boot(t) PROVE PlaceInv'
<1>1. PICK on \in BOOLEAN, tok \in Maybe(Token) :
        /\ Begin(t, on, tok, ~on \/ tok # NoToken)
        /\ on => TargetOf[t] \in Targets
        /\ tok # NoToken => on /\ tok = store[TargetOf[t]]
        /\ child[t] = "none"
  BY BootYields
<1>2. TypeOK'
  BY <1>1 DEF PlaceInv, TypeOK, Phases, Begin
<1>3. MenuAgrees'
  BY <1>1 DEF PlaceInv, TypeOK, MenuAgrees, Begin
<1>4. Grounded'
  BY <1>1 DEF PlaceInv, TypeOK, Grounded, Begin
<1>5. TargetsStayApart'
  BY <1>1 DEF PlaceInv, TypeOK, TargetsStayApart, Begin
<1> QED
  BY <1>2, <1>3, <1>4, <1>5 DEF PlaceInv

\* Clicks and child steps that touch one or two variables.
LEMMA PlaceClickOpen ==
    ASSUME PlaceInv, NEW t \in Trays, ClickOpen(t) PROVE PlaceInv'
<1>1. TypeOK'
  BY DEF ClickOpen, memory, PlaceInv, TypeOK
<1>2. MenuAgrees' /\ Grounded'
  BY DEF ClickOpen, memory, PlaceInv, MenuAgrees, Grounded
<1>3. TargetsStayApart'
  BY DEF ClickOpen, memory, PlaceInv, TypeOK, TargetsStayApart
<1> QED
  BY <1>1, <1>2, <1>3 DEF PlaceInv

LEMMA PlaceClickSignIn ==
    ASSUME PlaceInv, NEW t \in Trays, ClickSignIn(t) PROVE PlaceInv'
<1>1. TypeOK'
  BY DEF ClickSignIn, memory, PlaceInv, TypeOK, Phases, Stages
<1>2. MenuAgrees'
  BY DEF ClickSignIn, memory, PlaceInv, TypeOK, MenuAgrees
<1>3. Grounded' /\ TargetsStayApart'
  BY DEF ClickSignIn, memory, PlaceInv, TypeOK, Grounded, TargetsStayApart
<1> QED
  BY <1>1, <1>2, <1>3 DEF PlaceInv

\* What SignInReturns reads back is nothing or the tray's own entry.
LEMMA ReturnsYield ==
    ASSUME PlaceInv, NEW t \in Trays, SignInReturns(t)
    PROVE  \E tok \in Maybe(Token) :
             /\ Resume(t, tok)
             /\ tok # NoToken => /\ tok = store[TargetOf[t]]
                                 /\ ~Expired(tok)
                                 /\ TargetOf[t] \in Targets
             /\ authOn[t] /\ authToken[t] = NoToken /\ mSignIn[t]
<1>1. PICK readable \in Outcomes("read") :
        Resume(t, IF child[t] = "ok" THEN Read(TargetOf[t], readable)
                                    ELSE NoToken)
  BY DEF SignInReturns
<1>2. authOn[t] /\ authToken[t] = NoToken /\ mSignIn[t]
  BY DEF SignInReturns, PlaceInv, MenuAgrees, TypeOK
<1>3. TargetOf[t] \in Targets
  BY <1>2 DEF PlaceInv, Grounded
<1> DEFINE tok == IF child[t] = "ok" THEN Read(TargetOf[t], readable)
                                     ELSE NoToken
<1>4. /\ tok \in Maybe(Token)
      /\ tok # NoToken => tok = store[TargetOf[t]] /\ ~Expired(tok)
  BY <1>3, ReadYields, OutcomesBoolean DEF PlaceInv, Maybe
<1> QED
  BY <1>1, <1>2, <1>3, <1>4

LEMMA PlaceSignInReturns ==
    ASSUME PlaceInv, NEW t \in Trays, SignInReturns(t) PROVE PlaceInv'
<1>1. PICK tok \in Maybe(Token) :
        /\ Resume(t, tok)
        /\ tok # NoToken => tok = store[TargetOf[t]] /\ TargetOf[t] \in Targets
        /\ authOn[t] /\ authToken[t] = NoToken /\ mSignIn[t]
  BY ReturnsYield
<1>2. phase[t] = "signin"
  BY DEF SignInReturns
<1>3. TypeOK'
  <2>1. /\ phase' \in [Trays -> Phases]
        /\ child' \in [Trays -> Stages]
    BY <1>1 DEF Resume, PlaceInv, TypeOK, Phases, Stages
  <2>2. /\ authToken' \in [Trays -> Maybe(Token)]
        /\ mOpen' \in [Trays -> BOOLEAN]
        /\ mSignIn' \in [Trays -> BOOLEAN]
        /\ mSignOut' \in [Trays -> BOOLEAN]
    <3>1. CASE tok = NoToken
      <4>1. UNCHANGED <<authToken, mSignIn, mSignOut, mOpen>>
        BY <1>1, <3>1 DEF Resume
      <4> QED
        BY <4>1 DEF PlaceInv, TypeOK
    <3>2. CASE tok # NoToken
      <4>1. /\ authToken' = [authToken EXCEPT ![t] = tok]
            /\ mSignIn' = [mSignIn EXCEPT ![t] = FALSE]
            /\ mSignOut' = [mSignOut EXCEPT ![t] = TRUE]
            /\ mOpen' = [mOpen EXCEPT ![t] = TRUE]
        BY <1>1, <3>2 DEF Resume
      <4> QED
        BY <4>1 DEF PlaceInv, TypeOK
    <3> QED
      BY <3>1, <3>2
  <2>3. UNCHANGED <<now, minted, store, authOn, dashboards, signedOut>>
    BY <1>1 DEF Resume
  <2> QED
    BY <2>1, <2>2, <2>3 DEF PlaceInv, TypeOK
<1>4. MenuAgrees'
  <2>1. CASE tok = NoToken
    <3>1. UNCHANGED <<authOn, authToken, mOpen, mSignIn, mSignOut>>
      BY <1>1, <2>1 DEF Resume
    <3>2. /\ phase' = [phase EXCEPT ![t] = "select"]
          /\ child' = [child EXCEPT ![t] = "none"]
      BY <1>1 DEF Resume
    <3> QED
      BY <1>2, <3>1, <3>2 DEF PlaceInv, TypeOK, MenuAgrees
  <2>2. CASE tok # NoToken
    <3>1. /\ authToken' = [authToken EXCEPT ![t] = tok]
          /\ mSignIn' = [mSignIn EXCEPT ![t] = FALSE]
          /\ mSignOut' = [mSignOut EXCEPT ![t] = TRUE]
          /\ mOpen' = [mOpen EXCEPT ![t] = TRUE]
          /\ phase' = [phase EXCEPT ![t] = "select"]
          /\ child' = [child EXCEPT ![t] = "none"]
          /\ authOn' = authOn
      BY <1>1, <2>2 DEF Resume
    <3> QED
      BY <1>1, <2>2, <3>1 DEF PlaceInv, TypeOK, MenuAgrees
  <2> QED
    BY <2>1, <2>2
<1>5. Grounded'
  BY <1>1 DEF Resume, PlaceInv, TypeOK, Grounded
<1>6. TargetsStayApart'
  BY <1>1 DEF Resume, PlaceInv, TypeOK, TargetsStayApart
<1> QED
  BY <1>3, <1>4, <1>5, <1>6 DEF PlaceInv

\* The two outcomes of Sign out, for a tray that is signed in.
LEMMA SignOutYields ==
    ASSUME PlaceInv, NEW t \in Trays, ClickSignOut(t)
    PROVE  /\ phase[t] = "select" /\ authOn[t] /\ authToken[t] \in Token
           /\ TargetOf[t] \in Targets
           /\ Delete(t) \/ UNCHANGED <<store, signedOut>>
<1>1. phase[t] = "select" /\ mSignOut[t]
  BY DEF ClickSignOut
<1>2. authOn[t] /\ authToken[t] # NoToken
  BY <1>1 DEF PlaceInv, MenuAgrees, TypeOK
<1> QED
  BY <1>1, <1>2
     DEF ClickSignOut, PlaceInv, TypeOK, Grounded, Maybe

LEMMA PlaceClickSignOut ==
    ASSUME PlaceInv, NEW t \in Trays, ClickSignOut(t) PROVE PlaceInv'
<1>1. /\ phase[t] = "select" /\ authOn[t] /\ authToken[t] \in Token
      /\ \/ UNCHANGED <<store, signedOut>>
         \/ /\ store' = [store EXCEPT ![TargetOf[t]] = NoToken]
            /\ signedOut' = signedOut \cup {authToken[t].id}
  BY SignOutYields DEF Delete
<1>2. SignedOutMenu(t) /\ mOpen' = [mOpen EXCEPT ![t] = FALSE]
  BY DEF ClickSignOut
<1>3. TypeOK'
  BY <1>1, <1>2 DEF SignedOutMenu, PlaceInv, TypeOK, Maybe, Token
<1>4. MenuAgrees'
  BY <1>1, <1>2 DEF SignedOutMenu, PlaceInv, TypeOK, MenuAgrees
<1>5. Grounded'
  BY <1>1, <1>2 DEF SignedOutMenu, PlaceInv, TypeOK, Grounded
<1>6. TargetsStayApart'
  BY <1>1, <1>2 DEF SignedOutMenu, PlaceInv, TypeOK, TargetsStayApart
<1> QED
  BY <1>3, <1>4, <1>5, <1>6 DEF PlaceInv

LEMMA PlaceVanish ==
    ASSUME PlaceInv, NEW t \in Trays, Vanish(t)
    PROVE  PlaceInv'
<1>1. TypeOK'
  BY DEF Vanish, PlaceInv, TypeOK, Phases, Maybe
<1>2. MenuAgrees'
  BY DEF Vanish, PlaceInv, TypeOK, MenuAgrees
<1>3. Grounded' /\ TargetsStayApart'
  BY DEF Vanish, PlaceInv, TypeOK, Grounded, TargetsStayApart
<1> QED
  BY <1>1, <1>2, <1>3 DEF PlaceInv

\* Steps that only move a child along, and write nothing to the store.
LEMMA PlaceChild ==
    ASSUME PlaceInv, NEW t \in Trays, NEW s \in Stages,
           child' = [child EXCEPT ![t] = s],
           phase[t] = "off" \/ s # "none",
           child[t] # "none",
           s \in {"window", "stored", "calling"} => DefaultTarget \in Targets,
           UNCHANGED <<now, minted, store, phase, memory, dashboards,
                       signedOut>>
    PROVE  PlaceInv'
<1>1. TypeOK'
  BY DEF memory, PlaceInv, TypeOK
<1>2. MenuAgrees'
  BY DEF memory, PlaceInv, TypeOK, MenuAgrees, Phases
<1>3. Grounded' /\ TargetsStayApart'
  BY DEF memory, PlaceInv, TypeOK, Grounded, TargetsStayApart
<1> QED
  BY <1>1, <1>2, <1>3 DEF PlaceInv

\* Where a child is when it stores, and where that leaves it.
LEMMA StoresYield ==
    ASSUME NEW t \in Trays, NEW exp, Stores(t, exp)
    PROVE  \E stage \in {"stored", "calling"} :
             /\ child[t] \in {"window", stage}
             /\ child' = [child EXCEPT ![t] = stage]
BY Zenon DEF Stores

LEMMA PlaceChildStores ==
    ASSUME PlaceInv, NEW t \in Trays, NEW exp \in Nat, Stores(t, exp)
    PROVE  PlaceInv'
<1>0. PICK stage \in {"stored", "calling"} :
        /\ child[t] \in {"window", stage}
        /\ child' = [child EXCEPT ![t] = stage]
  BY StoresYield
<1>1. DefaultTarget \in Targets
  BY <1>0 DEF PlaceInv, Grounded
<1>2. TypeOK'
  BY <1>0, <1>1 DEF Stores, memory, PlaceInv, TypeOK, Stages, Maybe, Token
<1>3. MenuAgrees'
  BY <1>0 DEF Stores, memory, PlaceInv, TypeOK, MenuAgrees, Phases
<1>4. Grounded'
  BY <1>0, <1>1 DEF Stores, memory, PlaceInv, TypeOK, Grounded
<1>5. TargetsStayApart'
  BY <1>1 DEF Stores, memory, PlaceInv, TypeOK, TargetsStayApart
<1> QED
  BY <1>2, <1>3, <1>4, <1>5 DEF PlaceInv

\* Every step of the system keeps the placement invariant.
LEMMA PlaceStep == PlaceInv /\ [Next]_vars => PlaceInv'
<1> SUFFICES ASSUME PlaceInv, [Next]_vars PROVE PlaceInv'
  OBVIOUS
<1>1. ASSUME NEW t \in Trays, Quit(t) PROVE PlaceInv'
  BY <1>1, PlaceVanish DEF Quit
<1>2. ASSUME NEW t \in Trays, Kill(t) PROVE PlaceInv'
  BY <1>2, PlaceVanish DEF Kill
<1>4. ASSUME NEW t \in Trays, Reap(t) PROVE PlaceInv'
  BY <1>4, PlaceChild DEF Reap, Stages
<1>5. ASSUME NEW t \in Trays, ChildStarts(t) PROVE PlaceInv'
  <2>1. PICK s \in {"failed", "ok", "window"} :
          /\ child' = [child EXCEPT ![t] = s]
          /\ s = "window" => DefaultTarget # NoAuth
    BY <1>5 DEF ChildStarts
  <2> QED
    BY <1>5, <2>1, PlaceChild, SessionAssumption DEF ChildStarts, Stages
<1>6. ASSUME NEW t \in Trays, ChildStores(t) PROVE PlaceInv'
  <2>1. PICK exp \in Nat : Stores(t, exp)
    BY <1>6, SessionAssumption DEF ChildStores, PlaceInv, TypeOK
  <2> QED
    BY <2>1, PlaceChildStores
<1>7. ASSUME NEW t \in Trays, ChildGivesUp(t) PROVE PlaceInv'
  BY <1>7, PlaceChild DEF ChildGivesUp, Stages
<1>8. ASSUME NEW t \in Trays, ChildFinishes(t) PROVE PlaceInv'
  BY <1>8, PlaceChild DEF ChildFinishes, Stages
<1>12. ASSUME NEW t \in Trays, ChildDies(t) PROVE PlaceInv'
  BY <1>12, PlaceChild DEF ChildDies, Stages
<1>13. ASSUME NEW t \in Trays, ChildCalls(t) \/ ChildAnswered(t) PROVE PlaceInv'
  <2>1. PICK s \in {"stored", "calling"} : child' = [child EXCEPT ![t] = s]
    BY <1>13 DEF ChildCalls, ChildAnswered
  <2>2. child[t] \in {"stored", "calling"} /\ DefaultTarget \in Targets
    BY <1>13 DEF ChildCalls, ChildAnswered, PlaceInv, Grounded
  <2> QED
    BY <1>13, <2>1, <2>2, PlaceChild DEF ChildCalls, ChildAnswered, Stages
<1>9. CASE CloseDashboard
  BY <1>9 DEF CloseDashboard, memory, PlaceInv, TypeOK, MenuAgrees, Grounded,
              TargetsStayApart
<1>10. CASE Tick
  BY <1>10 DEF Tick, memory, PlaceInv, TypeOK, MenuAgrees, Grounded,
               TargetsStayApart
<1>11. CASE UNCHANGED vars
  BY <1>11 DEF vars, memory, PlaceInv, TypeOK, MenuAgrees, Grounded,
               TargetsStayApart
<1> QED
  BY <1>1, <1>2, <1>4, <1>5, <1>6, <1>7, <1>8, <1>9, <1>10, <1>11,
     <1>12, <1>13, PlaceBoot, PlaceClickOpen, PlaceClickSignIn, PlaceSignInReturns,
     PlaceClickSignOut DEF Next

LEMMA AlwaysPlaced == Spec => []PlaceInv
  BY PlaceInit, PlaceStep, PTL DEF Spec

(***************************************************************************)
(* The types of the session state are kept by every step (tray.go, main.go *)
(* and the children they start).                                           *)
(***************************************************************************)
THEOREM SessionTypeCorrect == Spec => []TypeOK
  BY AlwaysPlaced, PTL DEF PlaceInv

(***************************************************************************)
(* The menu of every tray says what the tray's loop holds, for any number  *)
(* of trays and targets (onReady and its click handlers).                  *)
(***************************************************************************)
THEOREM SessionMenuAgrees == Spec => []MenuAgrees
  BY AlwaysPlaced, PTL DEF PlaceInv

(***************************************************************************)
(* Entries, trays and dashboards hold tokens of their own target only, for *)
(* any assignment of configs to trays.                                     *)
(***************************************************************************)
THEOREM SessionTargetsStayApart == Spec => []TargetsStayApart
  BY AlwaysPlaced, PTL DEF PlaceInv

-----------------------------------------------------------------------------

\* The loop leaves cmd.Run only through the end of the handler, or with the
\* whole process.
LEMMA ReturnStep ==
    ASSUME PlaceInv, [Next]_vars, NEW t \in Trays,
           phase[t] = "signin", phase'[t] = "select"
    PROVE  SignInReturns(t)
<1> USE DEF PlaceInv, TypeOK
<1>1. ASSUME NEW u \in Trays, Boot(u) \/ ClickSignIn(u) \/ Vanish(u) PROVE FALSE
  BY <1>1 DEF Boot, Begin, ClickSignIn, Vanish
<1>2. ASSUME NEW u \in Trays, SignInReturns(u) PROVE u = t
  BY <1>2 DEF SignInReturns, Resume
<1>3. phase' # phase
  OBVIOUS
<1>4. \E u \in Trays : Boot(u) \/ ClickSignIn(u) \/ Vanish(u) \/ SignInReturns(u)
  BY <1>3 DEF Next, vars, ClickOpen, ClickSignOut, SignedOutMenu, Quit, Kill,
              Reap, ChildStarts, ChildStores, Stores, ChildGivesUp,
              ChildCalls, ChildAnswered, ChildFinishes, ChildDies,
              CloseDashboard, Tick
<1> QED
  BY <1>1, <1>2, <1>4

LEMMA ReachesStep ==
    ASSUME PlaceInv, [Next]_vars, NEW t \in Trays,
           TargetOf[t] = DefaultTarget, "read" \notin Faults,
           phase[t] = "signin", phase'[t] = "select", child[t] = "ok",
           Usable(store[DefaultTarget])
    PROVE  authToken'[t] # NoToken
<1>1. SignInReturns(t)
  BY ReturnStep
<1>2. Resume(t, Read(DefaultTarget, TRUE))
  BY <1>1 DEF SignInReturns, Outcomes
<1>3. Read(DefaultTarget, TRUE) # NoToken
  BY DEF Read, Usable
<1> QED
  BY <1>2, <1>3 DEF Resume, PlaceInv, TypeOK

(***************************************************************************)
(* What tray.go says of spawnSignInAndReload holds for trays that run with *)
(* the default config, which is the one their children load, as long as    *)
(* the Credential Manager can be read: a usable token reaches the tray.    *)
(***************************************************************************)
THEOREM SessionSignInReachesDefaultTray ==
    ASSUME \A t \in Trays : TargetOf[t] = DefaultTarget, "read" \notin Faults
    PROVE  Spec => SignInReachesTray
<1>1. PlaceInv /\ [Next]_vars =>
        [\A t \in Trays :
           /\ phase[t] = "signin" /\ phase'[t] = "select"
           /\ child[t] = "ok"
           /\ DefaultTarget # NoAuth
           /\ Usable(store[DefaultTarget])
           => authToken'[t] # NoToken]_vars
  BY ReachesStep
<1> QED
  BY <1>1, AlwaysPlaced, PTL DEF Spec, SignInReachesTray

-----------------------------------------------------------------------------

\* Token identities: the second part of the inductive invariant.
IdInv == OneEntryPerSession /\ SignedOutForgotten

\* Nothing but the tray's own entry is adopted, and only while it is fresh.
LEMMA AdoptionStep ==
    ASSUME PlaceInv, [Next]_vars, NEW t \in Trays, Adopts(t)
    PROVE  /\ authToken[t] = NoToken
           /\ TargetOf[t] \in Targets
           /\ authToken'[t] = store[TargetOf[t]]
           /\ ~Expired(authToken'[t])
           /\ UNCHANGED <<now, minted, store, signedOut>>
<1>1. ASSUME NEW u \in Trays, Boot(u)
      PROVE  /\ u = t
             /\ authToken[t] = NoToken
             /\ TargetOf[t] \in Targets
             /\ authToken'[t] = store[TargetOf[t]]
             /\ ~Expired(authToken'[t])
             /\ UNCHANGED <<now, minted, store, signedOut>>
  <2>1. PICK on \in BOOLEAN, tok \in Maybe(Token) :
          /\ Begin(u, on, tok, ~on \/ tok # NoToken)
          /\ on => TargetOf[u] \in Targets
          /\ tok # NoToken => on /\ tok = store[TargetOf[u]] /\ ~Expired(tok)
          /\ authToken[u] = NoToken
    BY <1>1, BootYields
  <2>2. u = t /\ authToken'[t] = tok /\ tok # NoToken
    BY <2>1 DEF Begin, Adopts, PlaceInv, TypeOK
  <2>3. UNCHANGED <<now, minted, store, signedOut>>
    BY <2>1 DEF Begin
  <2> QED
    BY <2>1, <2>2, <2>3
<1>2. ASSUME NEW u \in Trays, SignInReturns(u)
      PROVE  /\ u = t
             /\ authToken[t] = NoToken
             /\ TargetOf[t] \in Targets
             /\ authToken'[t] = store[TargetOf[t]]
             /\ ~Expired(authToken'[t])
             /\ UNCHANGED <<now, minted, store, signedOut>>
  <2>1. PICK tok \in Maybe(Token) :
          /\ Resume(u, tok)
          /\ tok # NoToken => /\ tok = store[TargetOf[u]]
                              /\ ~Expired(tok)
                              /\ TargetOf[u] \in Targets
          /\ authToken[u] = NoToken
    BY <1>2, ReturnsYield
  <2>2. u = t /\ authToken'[t] = tok /\ tok # NoToken
    BY <2>1 DEF Resume, Adopts, PlaceInv, TypeOK
  <2>3. UNCHANGED <<now, minted, store, signedOut>>
    BY <2>1 DEF Resume
  <2> QED
    BY <2>1, <2>2, <2>3
<1>3. ASSUME NEW u \in Trays, Vanish(u) PROVE FALSE
  BY <1>3 DEF Vanish, Adopts, PlaceInv, TypeOK
<1>4. ASSUME NEW u \in Trays, ClickSignOut(u) PROVE FALSE
  BY <1>4 DEF ClickSignOut, SignedOutMenu, Adopts, PlaceInv, TypeOK
<1>5. authToken' # authToken
  BY DEF Adopts
<1>6. \E u \in Trays : Boot(u) \/ SignInReturns(u) \/ Vanish(u) \/ ClickSignOut(u)
  BY <1>5 DEF Next, vars, memory, ClickOpen, ClickSignIn, Quit, Kill,
              Reap, ChildStarts, ChildStores, Stores,
              ChildGivesUp, ChildCalls, ChildAnswered, ChildFinishes,
              ChildDies, CloseDashboard, Tick
<1> QED
  BY <1>1, <1>2, <1>3, <1>4, <1>6

(***************************************************************************)
(* A tray adopts a token only from its own entry, only unexpired, and only *)
(* when it held none (main and spawnSignInAndReload).                      *)
(***************************************************************************)
THEOREM SessionAdoptsOnlyFresh == Spec => AdoptsOnlyFresh
<1>1. PlaceInv /\ [Next]_vars =>
        [\A t \in Trays : Adopts(t) =>
           /\ authToken[t] = NoToken
           /\ authToken'[t] = store[TargetOf[t]]
           /\ ~Expired(authToken'[t])]_vars
  BY AdoptionStep
<1> QED
  BY <1>1, AlwaysPlaced, PTL DEF Spec, AdoptsOnlyFresh

-----------------------------------------------------------------------------

LEMMA IdInit == Init => IdInv
BY DEF Init, IdInv, OneEntryPerSession, SignedOutForgotten

\* A step that mints, forgets and adopts nothing.
LEMMA IdIdle ==
    ASSUME IdInv, UNCHANGED <<minted, store, authToken, signedOut>>
    PROVE  IdInv'
BY DEF IdInv, OneEntryPerSession, SignedOutForgotten

LEMMA IdAdopt ==
    ASSUME PlaceInv, IdInv, NEW t \in Trays, TargetOf[t] \in Targets,
           NEW tok, tok = NoToken \/ tok = store[TargetOf[t]],
           authToken' = [authToken EXCEPT ![t] = tok],
           UNCHANGED <<minted, store, signedOut>>
    PROVE  IdInv'
BY DEF PlaceInv, TypeOK, IdInv, OneEntryPerSession, SignedOutForgotten

LEMMA IdDrop ==
    ASSUME PlaceInv, IdInv, NEW t \in Trays,
           authToken' = [authToken EXCEPT ![t] = NoToken],
           UNCHANGED <<minted, store, signedOut>>
    PROVE  IdInv'
BY DEF PlaceInv, TypeOK, IdInv, OneEntryPerSession, SignedOutForgotten

LEMMA IdSignOut ==
    ASSUME PlaceInv, IdInv, NEW t \in Trays, SignedOutMenu(t), Delete(t),
           authToken[t] \in Token, TargetOf[t] \in Targets
    PROVE  IdInv'
<1>1. store' = [store EXCEPT ![TargetOf[t]] = NoToken]
  BY DEF Delete
<1>2. authToken[t] # NoToken
  BY NoTokenAssumption
<1>3. /\ authToken' = [authToken EXCEPT ![t] = NoToken]
      /\ signedOut' = signedOut \cup {authToken[t].id}
      /\ minted' = minted
  BY DEF Delete, SignedOutMenu
<1>4. \A x \in Targets : store'[x] # NoToken =>
        /\ store'[x] = store[x]
        /\ x # TargetOf[t]
  BY <1>1 DEF PlaceInv, TypeOK
<1>5. SignedOutForgotten'
  BY <1>2, <1>3, <1>4 DEF IdInv, OneEntryPerSession, SignedOutForgotten
<1>6. OneEntryPerSession'
  <2>1. \A x \in Targets : store'[x] # NoToken => store'[x].id <= minted'
    BY <1>3, <1>4 DEF IdInv, OneEntryPerSession
  <2>2. \A u \in Trays : authToken'[u] # NoToken =>
          authToken'[u] = authToken[u]
    BY <1>3 DEF PlaceInv, TypeOK
  <2>3. \A i \in signedOut' : i <= minted'
    BY <1>2, <1>3 DEF IdInv, OneEntryPerSession
  <2> QED
    BY <1>3, <1>4, <2>1, <2>2, <2>3 DEF IdInv, OneEntryPerSession
<1> QED
  BY <1>5, <1>6 DEF IdInv

LEMMA IdStore ==
    ASSUME PlaceInv, IdInv, NEW t \in Trays, NEW exp \in Nat, Stores(t, exp)
    PROVE  IdInv'
<1>1. DefaultTarget \in Targets
  BY StoresYield DEF PlaceInv, Grounded
<1> DEFINE tok == [id |-> minted + 1, target |-> DefaultTarget, exp |-> exp]
<1>2. /\ store' = [store EXCEPT ![DefaultTarget] = tok]
      /\ minted' = minted + 1
      /\ UNCHANGED <<authToken, signedOut>>
  BY DEF Stores, memory
<1>3. tok.id = minted + 1
  OBVIOUS
<1> HIDE DEF tok
<1>4. minted \in Nat /\ signedOut \subseteq Nat
  BY DEF PlaceInv, TypeOK
<1>5. \A x \in Targets : store'[x] = IF x = DefaultTarget THEN tok ELSE store[x]
  BY <1>2 DEF PlaceInv, TypeOK
<1>6. /\ \A x \in Targets : store[x] # NoToken => store[x].id \in Nat
      /\ \A u \in Trays : authToken[u] # NoToken => authToken[u].id \in Nat
  BY DEF PlaceInv, TypeOK, Maybe, Token
<1>7. SignedOutForgotten'
  BY <1>2, <1>3, <1>4, <1>5 DEF IdInv, OneEntryPerSession, SignedOutForgotten
<1>8. OneEntryPerSession'
  BY <1>2, <1>3, <1>4, <1>5, <1>6 DEF IdInv, OneEntryPerSession
<1> QED
  BY <1>7, <1>8 DEF IdInv

LEMMA IdStep ==
    ASSUME PlaceInv, IdInv, [Next]_vars
    PROVE  IdInv'
<1>1. ASSUME NEW t \in Trays, Boot(t) PROVE IdInv'
  <2>1. PICK on \in BOOLEAN, tok \in Maybe(Token) :
          /\ Begin(t, on, tok, ~on \/ tok # NoToken)
          /\ on => TargetOf[t] \in Targets
          /\ tok # NoToken => on /\ tok = store[TargetOf[t]]
    BY <1>1, BootYields
  <2>2. /\ authToken' = [authToken EXCEPT ![t] = tok]
        /\ UNCHANGED <<minted, store, signedOut>>
    BY <2>1 DEF Begin
  <2> QED
    BY <2>1, <2>2, IdAdopt, IdDrop
<1>2. ASSUME NEW t \in Trays, SignInReturns(t) PROVE IdInv'
  <2>1. PICK tok \in Maybe(Token) :
          /\ Resume(t, tok)
          /\ tok # NoToken => tok = store[TargetOf[t]] /\ TargetOf[t] \in Targets
    BY <1>2, ReturnsYield
  <2>2. UNCHANGED <<minted, store, signedOut>>
    BY <2>1 DEF Resume
  <2>3. CASE tok = NoToken
    BY <2>1, <2>2, <2>3, IdIdle DEF Resume
  <2>4. CASE tok # NoToken
    BY <2>1, <2>2, <2>4, IdAdopt DEF Resume
  <2> QED
    BY <2>3, <2>4
<1>3. ASSUME NEW t \in Trays, Vanish(t) PROVE IdInv'
  BY <1>3, IdDrop DEF Vanish
<1>4. ASSUME NEW t \in Trays, ClickSignOut(t) PROVE IdInv'
  <2>1. SignedOutMenu(t) /\ authToken[t] \in Token /\ TargetOf[t] \in Targets
    BY <1>4, SignOutYields DEF ClickSignOut
  <2>2. CASE Delete(t)
    BY <2>1, <2>2, IdSignOut
  <2>3. CASE UNCHANGED <<store, signedOut>>
    BY <2>1, <2>3, IdDrop DEF SignedOutMenu
  <2> QED
    BY <1>4, <2>2, <2>3, SignOutYields
<1>5. ASSUME NEW t \in Trays, ChildStores(t) PROVE IdInv'
  <2>1. PICK exp \in Nat : Stores(t, exp)
    BY <1>5, SessionAssumption DEF ChildStores, PlaceInv, TypeOK
  <2> QED
    BY <2>1, IdStore
<1>6. CASE UNCHANGED <<minted, store, authToken, signedOut>>
  BY <1>6, IdIdle
<1>7. \/ \E t \in Trays : \/ Boot(t) \/ SignInReturns(t) \/ Vanish(t)
                         \/ ClickSignOut(t) \/ ChildStores(t)
      \/ UNCHANGED <<minted, store, authToken, signedOut>>
  BY DEF Next, vars, memory, ClickOpen, ClickSignIn, Quit, Kill,
         Reap, ChildStarts, ChildGivesUp, ChildCalls, ChildAnswered,
         ChildFinishes, ChildDies, CloseDashboard, Tick
<1> QED
  BY <1>1, <1>2, <1>3, <1>4, <1>5, <1>6, <1>7

(***************************************************************************)
(* A session that a Sign out deleted is in no entry of the Credential      *)
(* Manager ever after, whichever trays and children run beside it and      *)
(* whatever fails.                                                         *)
(***************************************************************************)
THEOREM SessionSignedOutForgotten == Spec => []SignedOutForgotten
<1>1. PlaceInv /\ IdInv /\ [Next]_vars => IdInv'
  BY IdStep
<1> QED
  BY <1>1, IdInit, AlwaysPlaced, PTL DEF Spec, IdInv

-----------------------------------------------------------------------------

\* Only the face of t may change.
LEMMA Turn ==
    ASSUME NEW t \in Trays, \A u \in Trays \ {t} : Face(u)' = Face(u)
    PROVE  Shown' = [Shown EXCEPT ![t] = Face(t)']
BY DEF Shown

LEMMA Still ==
    ASSUME UNCHANGED <<phase, authOn, authToken>>
    PROVE  Shown' = Shown
BY DEF Shown, Face

LEMMA ShowStep ==
    ASSUME NEW t \in Trays, \A u \in Trays \ {t} : Face(u)' = Face(u),
           dashboards' = dashboards
    PROVE  Lifecycle!Show(t, Face(t)')
<1>1. Shown' = [Shown EXCEPT ![t] = Face(t)']
  BY Turn
<1>2. Windows' = Windows
  BY DEF Windows
<1> QED
  BY <1>1, <1>2 DEF Lifecycle!Show

LEMMA FaceOf == \A t \in Trays : Shown[t] = Face(t)
BY DEF Shown

\* Every step of the session is a step of the lifecycle or leaves it alone.
LEMMA LifecycleStep ==
    ASSUME PlaceInv, [Next]_vars
    PROVE  [Lifecycle!Next]_(Lifecycle!vars)
<1> DEFINE Goal == Lifecycle!Next \/ UNCHANGED <<Shown, Windows>>
<1>1. ASSUME NEW t \in Trays, Boot(t) PROVE Goal
  <2>1. PICK on \in BOOLEAN, tok \in Maybe(Token) :
          /\ Begin(t, on, tok, ~on \/ tok # NoToken)
          /\ phase[t] = "off"
    BY <1>1, BootYields
  <2>2. Face(t) = "off" /\ Face(t)' \in {"plain", "out", "in"}
    BY <2>1 DEF Begin, Face, PlaceInv, TypeOK
  <2>3. \A u \in Trays \ {t} : Face(u)' = Face(u)
    BY <2>1 DEF Begin, Face, PlaceInv, TypeOK
  <2>4. Lifecycle!Show(t, Face(t)')
    BY <2>1, <2>3, ShowStep DEF Begin
  <2>5. Lifecycle!Start(t)
    BY <2>2, <2>4, FaceOf DEF Lifecycle!Start
  <2> QED
    BY <2>5 DEF Lifecycle!Next
<1>2. ASSUME NEW t \in Trays, ClickOpen(t) PROVE Goal
  <2>1. phase[t] = "select" /\ mOpen[t]
    BY <1>2 DEF ClickOpen
  <2>2. /\ Face(t) \in {"plain", "in"}
        /\ (Face(t) = "in") = (authToken[t] # NoToken)
    BY <2>1 DEF Face, PlaceInv, TypeOK, MenuAgrees
  <2>3. Windows' = Windows \cup {[tray |-> t, token |-> Face(t) = "in"]}
    <3> DEFINE d == [tray |-> t, token |-> authToken[t]]
    <3>1. /\ dashboards' = dashboards \cup {d}
          /\ d.tray = t /\ d.token = authToken[t]
      BY <1>2 DEF ClickOpen
    <3> HIDE DEF d
    <3>2. Windows' = Windows \cup {Window(t, authToken[t])}
      BY <3>1 DEF Windows
    <3>3. Window(t, authToken[t]) = [tray |-> t, token |-> Face(t) = "in"]
      BY <2>2, Zenon DEF Window
    <3> QED
      BY <3>2, <3>3, Zenon
  <2>4. Shown' = Shown
    BY <1>2, Still DEF ClickOpen, memory
  <2>5. Lifecycle!Open(t)
    BY <2>2, <2>3, <2>4, FaceOf DEF Lifecycle!Open
  <2> QED
    BY <2>5 DEF Lifecycle!Next
<1>3. ASSUME NEW t \in Trays, ClickSignIn(t) PROVE Goal
  <2>1. Face(t) = "out" /\ Face(t)' = "signing"
    BY <1>3 DEF ClickSignIn, memory, Face, PlaceInv, TypeOK, MenuAgrees
  <2>2. \A u \in Trays \ {t} : Face(u)' = Face(u)
    BY <1>3 DEF ClickSignIn, memory, Face, PlaceInv, TypeOK
  <2>3. Lifecycle!Show(t, Face(t)')
    BY <1>3, <2>2, ShowStep DEF ClickSignIn
  <2>4. Lifecycle!BeginSignIn(t)
    BY <2>1, <2>3, FaceOf DEF Lifecycle!BeginSignIn
  <2> QED
    BY <2>4 DEF Lifecycle!Next
<1>4. ASSUME NEW t \in Trays, SignInReturns(t) PROVE Goal
  <2>1. PICK tok \in Maybe(Token) :
          /\ Resume(t, tok)
          /\ authOn[t] /\ authToken[t] = NoToken
    BY <1>4, ReturnsYield
  <2>2. Face(t) = "signing"
    BY <1>4, <2>1 DEF SignInReturns, Face
  <2>3. Face(t)' \in {"out", "in"}
    BY <2>1 DEF Resume, Face, PlaceInv, TypeOK
  <2>4. \A u \in Trays \ {t} : Face(u)' = Face(u)
    BY <2>1 DEF Resume, Face, PlaceInv, TypeOK
  <2>5. Lifecycle!Show(t, Face(t)')
    BY <2>1, <2>4, ShowStep DEF Resume
  <2>6. Lifecycle!EndSignIn(t)
    BY <2>2, <2>3, <2>5, FaceOf DEF Lifecycle!EndSignIn
  <2> QED
    BY <2>6 DEF Lifecycle!Next
<1>5. ASSUME NEW t \in Trays, ClickSignOut(t) PROVE Goal
  <2>1. phase[t] = "select" /\ authOn[t] /\ authToken[t] # NoToken
    BY <1>5, SignOutYields, NoTokenAssumption
  <2>2. SignedOutMenu(t)
    BY <1>5 DEF ClickSignOut
  <2>3. Face(t) = "in" /\ Face(t)' = "out"
    BY <2>1, <2>2 DEF SignedOutMenu, Face, PlaceInv, TypeOK
  <2>4. \A u \in Trays \ {t} : Face(u)' = Face(u)
    BY <2>2 DEF SignedOutMenu, Face, PlaceInv, TypeOK
  <2>5. Lifecycle!Show(t, Face(t)')
    BY <2>2, <2>4, ShowStep DEF SignedOutMenu
  <2>6. Lifecycle!SignOut(t)
    BY <2>3, <2>5, FaceOf DEF Lifecycle!SignOut
  <2> QED
    BY <2>6 DEF Lifecycle!Next
<1>6. ASSUME NEW t \in Trays, phase[t] # "off", Vanish(t) PROVE Goal
  <2>1. Face(t) # "off" /\ Face(t)' = "off"
    BY <1>6 DEF Vanish, Face, PlaceInv, TypeOK
  <2>2. \A u \in Trays \ {t} : Face(u)' = Face(u)
    BY <1>6 DEF Vanish, Face, PlaceInv, TypeOK
  <2>3. Lifecycle!Show(t, "off")
    BY <1>6, <2>1, <2>2, ShowStep DEF Vanish
  <2>4. Lifecycle!Stop(t)
    BY <2>1, <2>3, FaceOf DEF Lifecycle!Stop
  <2> QED
    BY <2>4 DEF Lifecycle!Next
<1>7. ASSUME CloseDashboard PROVE Goal
  <2>1. PICK d \in dashboards : dashboards' = dashboards \ {d}
    BY <1>7 DEF CloseDashboard
  <2> DEFINE w == Window(d.tray, d.token)
  <2>2. Shown' = Shown
    BY <1>7, Still DEF CloseDashboard, memory
  <2>3. w \in Windows
    BY DEF Windows
  <2>4. Windows' = Windows \/ Windows' = Windows \ {w}
    BY <2>1 DEF Windows
  <2> HIDE DEF w
  <2> QED
    BY <2>2, <2>3, <2>4 DEF Lifecycle!Next, Lifecycle!Close
<1>8. ASSUME UNCHANGED <<phase, authOn, authToken, dashboards>> PROVE Goal
  BY <1>8, Still DEF Windows
<1>9. ASSUME NEW t \in Trays, Quit(t) \/ Kill(t) PROVE Goal
  BY <1>6, <1>9 DEF Quit, Kill
<1>10. ASSUME NEW t \in Trays,
              \/ Reap(t) \/ ChildStarts(t) \/ ChildStores(t)
              \/ ChildGivesUp(t) \/ ChildCalls(t) \/ ChildAnswered(t)
              \/ ChildFinishes(t) \/ ChildDies(t)
       PROVE  Goal
  BY <1>8, <1>10 DEF Reap, ChildStarts, ChildStores, Stores, ChildGivesUp,
                     ChildCalls, ChildAnswered, ChildFinishes, ChildDies, memory
<1>11. ASSUME Tick \/ UNCHANGED vars PROVE Goal
  BY <1>8, <1>11 DEF Tick, vars, memory
<1>12. Goal
  BY <1>1, <1>2, <1>3, <1>4, <1>5, <1>7, <1>9, <1>10, <1>11 DEF Next
<1> QED
  BY <1>12 DEF Lifecycle!vars

LEMMA LifecycleInit == Init => Lifecycle!Init
BY DEF Init, Lifecycle!Init, Shown, Face, Windows

(***************************************************************************)
(* The session implements the abstract lifecycle for any number of trays   *)
(* and clusters and any faults: a tray with an auth block opens dashboards *)
(* only while signed in and hands each one a token.                        *)
(***************************************************************************)
THEOREM SessionImplementsLifecycle == Spec => LifecycleSpec
  BY LifecycleInit, LifecycleStep, AlwaysPlaced, PTL
     DEF Spec, LifecycleSpec, Lifecycle!Spec

-----------------------------------------------------------------------------

\* One tray's child moves; the stages of the others are left alone.
LEMMA ChildTurn ==
    ASSUME NEW t \in Trays, NEW from, NEW to, NEW s \in to,
           child[t] \in from, child' = [child EXCEPT ![t] = s]
    PROVE  SignIns!Turn(t, from, to)
BY DEF SignIns!Turn

LEMMA SignInStep ==
    ASSUME PlaceInv, [Next]_vars PROVE [SignIns!Next]_SignIns!vars
<1> DEFINE Goal == SignIns!Next \/ UNCHANGED <<child, minted>>
<1> USE DEF SignIns!Next
<1>1. ASSUME NEW t \in Trays, ClickSignIn(t) PROVE Goal
  <2>1. child[t] \in {"none"} /\ "start" \in {"start"}
    BY <1>1 DEF ClickSignIn, PlaceInv, MenuAgrees
  <2>2. SignIns!Spawn(t)
    BY <1>1, <2>1, ChildTurn DEF ClickSignIn, SignIns!Spawn
  <2> QED
    BY <2>2
<1>2. ASSUME NEW t \in Trays, SignInReturns(t) \/ Reap(t) PROVE Goal
  <2>1. /\ child[t] \in {"ok", "failed"}
        /\ child' = [child EXCEPT ![t] = "none"]
        /\ minted' = minted
    BY <1>2, Zenon DEF SignInReturns, Resume, Reap
  <2>2. SignIns!Collect(t)
    BY <2>1, ChildTurn DEF SignIns!Collect
  <2> QED
    BY <2>2
<1>3. ASSUME NEW t \in Trays, ChildStarts(t) PROVE Goal
  <2>1. PICK s \in {"failed", "ok", "window"} :
          child' = [child EXCEPT ![t] = s]
    BY <1>3 DEF ChildStarts
  <2>2. child[t] = "start" /\ minted' = minted
    BY <1>3 DEF ChildStarts
  <2>3. CASE s = "window"
    BY <2>1, <2>2, <2>3, ChildTurn DEF SignIns!Show
  <2>4. CASE s \in {"ok", "failed"}
    BY <2>1, <2>2, <2>4, ChildTurn DEF SignIns!End
  <2> QED
    BY <2>3, <2>4
<1>4. ASSUME NEW t \in Trays, ChildStores(t) PROVE Goal
  <2>1. PICK exp : Stores(t, exp)
    BY <1>4 DEF ChildStores
  <2>2. PICK stage \in {"stored", "calling"} :
          /\ child[t] \in {"window", stage}
          /\ child' = [child EXCEPT ![t] = stage]
    BY <2>1, StoresYield
  <2>3. SignIns!Turn(t, {"window", stage}, {stage})
    BY <2>2, ChildTurn
  <2>4. minted' = minted + 1
    BY <2>1 DEF Stores
  <2>5. SignIns!Store(t)
    BY <2>2, <2>3, <2>4 DEF SignIns!Store
  <2> QED
    BY <2>5
<1>9. ASSUME NEW t \in Trays, ChildCalls(t) PROVE Goal
  <2>1. SignIns!Call(t)
    BY <1>9, ChildTurn DEF ChildCalls, SignIns!Call
  <2> QED
    BY <2>1
<1>10. ASSUME NEW t \in Trays, ChildAnswered(t) PROVE Goal
  <2>1. SignIns!Answer(t)
    BY <1>10, ChildTurn DEF ChildAnswered, SignIns!Answer
  <2> QED
    BY <2>1
<1>5. ASSUME NEW t \in Trays,
             ChildGivesUp(t) \/ ChildFinishes(t) \/ ChildDies(t)
      PROVE  Goal
  <2>1. PICK s \in {"ok", "failed"} :
          /\ child' = [child EXCEPT ![t] = s]
          /\ \/ child[t] \in {"start", "window", "stored"}
             \/ child[t] = "calling" /\ s = "failed"
    BY <1>5 DEF ChildGivesUp, ChildFinishes, ChildDies
  <2>2. minted' = minted
    BY <1>5 DEF ChildGivesUp, ChildFinishes, ChildDies
  <2>3. \/ SignIns!Turn(t, {"start", "window", "stored"}, {"ok", "failed"})
        \/ SignIns!Turn(t, {"calling"}, {"failed"})
    BY <2>1, ChildTurn
  <2>4. SignIns!End(t)
    BY <2>2, <2>3 DEF SignIns!End
  <2> QED
    BY <2>4
<1>6. ASSUME NEW t \in Trays,
             \/ Boot(t) \/ ClickOpen(t) \/ ClickSignOut(t) \/ Quit(t)
             \/ Kill(t)
      PROVE  Goal
  BY <1>6, Zenon DEF Boot, Begin, ClickOpen, ClickSignOut, SignedOutMenu, Quit,
                     Kill, Vanish
<1>7. ASSUME CloseDashboard \/ Tick \/ UNCHANGED vars PROVE Goal
  BY <1>7 DEF CloseDashboard, Tick, vars
<1>8. Goal
  BY <1>1, <1>2, <1>3, <1>4, <1>5, <1>6, <1>7, <1>9, <1>10 DEF Next
<1> QED
  BY <1>8 DEF SignIns!vars

LEMMA SignInInit == Init => SignIns!Init
BY DEF Init, SignIns!Init

(***************************************************************************)
(* The trays use their children only in the way SignInChild allows, for    *)
(* any number of trays: a child is spawned when the last one was collected *)
(* and no token is written outside a login window.                         *)
(***************************************************************************)
THEOREM SessionImplementsSignIn == Spec => SignInSpec
  BY SignInInit, SignInStep, AlwaysPlaced, PTL
     DEF Spec, SignInSpec, SignIns!Spec
=============================================================================
