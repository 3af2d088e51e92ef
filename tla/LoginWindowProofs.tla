-------------------------- MODULE LoginWindowProofs --------------------------
(***************************************************************************)
(* Proofs about LoginWindow for any processes, rounds and faults.          *)
(***************************************************************************)
EXTENDS LoginWindow, FiniteSetTheorems, TLAPS

\* Before its cache check a process has done nothing.
Fresh ==
    \A c \in Children : win[c] = "start" =>
      /\ ui[c] = "idle"
      /\ page[c] = "login"
      /\ \A r \in RoundsOf(c) : round[r] = "new"

\* A flow writes at most once, and its report follows its write.
WriteOnce ==
    /\ \A r \in Rounds : r \in written => round[r] \in {"report", "done"}
    /\ \A r \in Rounds : round[r] = "report" => r \in written
    /\ \A c \in Children : c \in written => ui[c] = "report" \/ page[c] = "spent"
    /\ \A c \in Children : ui[c] = "report" => c \in written
    /\ \A c \in Children : ui[c] # "idle" => page[c] = "login"

\* An error comes from a round that is over and wrote nothing.
ErrorsElsewhere ==
    \A c \in Children : result[c] = "error" =>
      \E r \in RoundsOf(c) \ written : round[r] = "done"

LEMMA OutcomesBoolean == \A op : Outcomes(op) \subseteq BOOLEAN
BY DEF Outcomes

-----------------------------------------------------------------------------

LEMMA TypeInit == Init => TypeOK
BY LoginAssumption
   DEF Init, TypeOK, Windows, Pages, Calls, Stages, Flows

LEMMA TypeStep == ASSUME TypeOK, [Next]_vars PROVE TypeOK'
<1> USE DEF TypeOK, Windows, Calls, Stages, Pages
<1>1. ASSUME NEW c \in Children,
             \/ Begin(c) \/ RunReturns(c) \/ CloseWindow(c) \/ Capture(c)
      PROVE  TypeOK'
  BY <1>1 DEF Begin, RunReturns, CloseWindow, Capture
<1>2. ASSUME NEW c \in Children, Exit(c) \/ Kill(c) PROVE TypeOK'
  BY <1>2 DEF Exit, Kill, Gone
<1>3. ASSUME NEW c \in Children,
             ClickKeypair(c) \/ PostAnswered(c) \/ ClickOIDC(c)
               \/ DiscoveryFails(c)
      PROVE  TypeOK'
  BY <1>3 DEF ClickKeypair, PostAnswered, ClickOIDC, DiscoveryFails, Call
<1>4. ASSUME NEW c \in Children, KeypairWrites(c) PROVE TypeOK'
  BY <1>4 DEF KeypairWrites, Call, Write, Flows
<1>5. ASSUME NEW c \in Children, KeypairReports(c) PROVE TypeOK'
  BY <1>5 DEF KeypairReports, Call, SetResult, Flows
<1>6. ASSUME NEW c \in Children, GoBack(c) PROVE TypeOK'
  BY <1>6 DEF GoBack
<1>7. ASSUME NEW c \in Children, Redirect(c) PROVE TypeOK'
  <2>1. PICK code \in BOOLEAN : Deliver([state |-> page[c], code |-> code])
    BY <1>7 DEF Redirect
  <2>2. [state |-> page[c], code |-> code] \in Requests
    BY <1>7 DEF Redirect, Requests
  <2>3. got' \in [Rounds -> {None} \cup Requests]
    BY <2>1, <2>2 DEF Deliver
  <2> QED
    BY <1>7, <2>3 DEF Redirect
<1>8. ASSUME NEW r \in Rounds, RoundStarts(r) PROVE TypeOK'
  BY <1>8, LoginAssumption DEF RoundStarts, Call
<1>9. ASSUME NEW r \in Rounds,
             Listen(r) \/ Timeout(r) \/ Wake(r) \/ Finish(r)
               \/ ExchangeAnswered(r)
      PROVE  TypeOK'
  BY <1>9 DEF Listen, Timeout, Wake, Finish, ExchangeAnswered
<1>10. ASSUME NEW r \in Rounds, RoundWrites(r) PROVE TypeOK'
  BY <1>10 DEF RoundWrites, Write, Flows
<1>11. ASSUME NEW r \in Rounds, RoundReports(r) PROVE TypeOK'
  BY <1>11, LoginAssumption DEF RoundReports, SetResult, Flows
<1>12. ASSUME Stray PROVE TypeOK'
  <2>1. [state |-> None, code |-> FALSE] \in Requests
    BY DEF Requests
  <2>2. got' \in [Rounds -> {None} \cup Requests]
    BY <1>12, <2>1 DEF Stray, Deliver
  <2> QED
    BY <1>12, <2>2 DEF Stray
<1>13. CASE UNCHANGED vars
  BY <1>13 DEF vars
<1> QED
  BY <1>1, <1>2, <1>3, <1>4, <1>5, <1>6, <1>7, <1>8, <1>9, <1>10, <1>11,
     <1>12, <1>13 DEF Next

(***************************************************************************)
(* Every reachable state is well typed: no flow reports anything but its   *)
(* own token or an error.                                                  *)
(***************************************************************************)
THEOREM LoginTypeCorrect == Spec => []TypeOK
BY TypeInit, TypeStep, PTL DEF Spec

-----------------------------------------------------------------------------
(* The redirect.                                                           *)

\* A captured request is not replaced, whatever arrives after it.
LEMMA DeliverKeeps ==
    ASSUME TypeOK, NEW req, Deliver(req), NEW r \in Rounds, got[r] # None
    PROVE  got'[r] = got[r]
BY DEF TypeOK, Deliver

LEMMA OwnIsRequest ==
    \A r \in Rounds : [state |-> r, code |-> TRUE] # None
<1>1. \A r \in Rounds : [state |-> r, code |-> TRUE] \in Requests
  BY DEF Requests
<1>2. None \notin Requests
  BY NamesAssumption
<1> QED
  BY <1>1, <1>2

LEMMA OwnStateStep ==
    ASSUME TypeOK, OwnStateOnly, [Next]_vars PROVE OwnStateOnly'
<1> USE DEF OwnStateOnly, TypeOK
<1>1. ASSUME UNCHANGED <<round, got, written>> PROVE OwnStateOnly'
  BY <1>1
<1>2. ASSUME NEW c \in Children,
             \/ Begin(c) \/ RunReturns(c) \/ CloseWindow(c) \/ Capture(c)
             \/ Exit(c) \/ Kill(c) \/ ClickKeypair(c) \/ PostAnswered(c)
             \/ KeypairReports(c) \/ ClickOIDC(c) \/ DiscoveryFails(c)
             \/ GoBack(c)
      PROVE  OwnStateOnly'
  BY <1>1, <1>2
     DEF Begin, RunReturns, CloseWindow, Capture, Exit, Kill, Gone,
         ClickKeypair, PostAnswered, KeypairReports, ClickOIDC, DiscoveryFails,
         GoBack
<1>3. ASSUME NEW c \in Children, KeypairWrites(c) PROVE OwnStateOnly'
  BY <1>3, LoginAssumption DEF KeypairWrites, Write
<1>4. ASSUME NEW req, Deliver(req), UNCHANGED <<round, written>>
      PROVE  OwnStateOnly'
  BY <1>4, DeliverKeeps, OwnIsRequest
<1>5. ASSUME NEW c \in Children, Redirect(c) PROVE OwnStateOnly'
  BY <1>4, <1>5 DEF Redirect
<1>6. ASSUME Stray PROVE OwnStateOnly'
  BY <1>4, <1>6 DEF Stray
<1>7. ASSUME NEW r \in Rounds,
             RoundStarts(r) \/ Listen(r) \/ Timeout(r) \/ Wake(r)
      PROVE  OwnStateOnly'
  BY <1>7 DEF RoundStarts, Listen, Timeout, Wake
<1>8. ASSUME NEW r \in Rounds, Finish(r) PROVE OwnStateOnly'
  BY <1>8 DEF Finish
<1>9. ASSUME NEW r \in Rounds, ExchangeAnswered(r) PROVE OwnStateOnly'
  BY <1>9 DEF ExchangeAnswered, Running
<1>10. ASSUME NEW r \in Rounds, RoundWrites(r) PROVE OwnStateOnly'
  BY <1>10 DEF RoundWrites, Write, Running
<1>11. ASSUME NEW r \in Rounds, RoundReports(r) PROVE OwnStateOnly'
  BY <1>11 DEF RoundReports
<1>12. CASE UNCHANGED vars
  BY <1>1, <1>12 DEF vars
<1> QED
  BY <1>2, <1>3, <1>5, <1>6, <1>7, <1>8, <1>9, <1>10, <1>11, <1>12 DEF Next

(***************************************************************************)
(* A round exchanges and stores a token only on a code that came back with *)
(* its own state, for any processes and rounds on the port.                *)
(***************************************************************************)
THEOREM LoginOwnStateOnly == Spec => []OwnStateOnly
<1>1. Init => OwnStateOnly
  BY DEF Init, OwnStateOnly
<1> QED
  BY <1>1, OwnStateStep, LoginTypeCorrect, PTL DEF Spec

-----------------------------------------------------------------------------
(* The port.                                                               *)

LEMMA FreshStep == ASSUME TypeOK, Fresh, [Next]_vars PROVE Fresh'
<1> USE DEF Fresh, TypeOK
<1>1. ASSUME UNCHANGED <<win, page, ui, round>> PROVE Fresh'
  BY <1>1
<1>2. ASSUME NEW c \in Children, NEW s \in Windows \ {"start"},
             win' = [win EXCEPT ![c] = s], UNCHANGED <<page, ui, round>>
      PROVE  Fresh'
  BY <1>2
<1>3. ASSUME NEW c \in Children,
             \/ Begin(c) \/ RunReturns(c) \/ CloseWindow(c) \/ Capture(c)
             \/ Exit(c) \/ Kill(c)
      PROVE  Fresh'
  BY <1>2, <1>3
     DEF Begin, RunReturns, CloseWindow, Capture, Exit, Kill, Gone, Windows
<1>4. ASSUME NEW c \in Children,
             \/ ClickKeypair(c) \/ PostAnswered(c) \/ KeypairWrites(c)
             \/ KeypairReports(c) \/ ClickOIDC(c) \/ DiscoveryFails(c)
             \/ GoBack(c) \/ Redirect(c)
      PROVE  Fresh'
  BY <1>4 DEF ClickKeypair, PostAnswered, KeypairWrites, KeypairReports,
              ClickOIDC, DiscoveryFails, GoBack, Redirect, Call, Responsive
<1>5. ASSUME NEW r \in Rounds, NEW s \in Stages,
             Alive(OwnerOf[r]), round' = [round EXCEPT ![r] = s],
             UNCHANGED <<win, page, ui>>
      PROVE  Fresh'
  BY <1>5 DEF Alive, RoundsOf
<1>6. ASSUME NEW r \in Rounds,
             \/ Listen(r) \/ Timeout(r) \/ Wake(r) \/ Finish(r)
             \/ ExchangeAnswered(r) \/ RoundWrites(r) \/ RoundReports(r)
      PROVE  Fresh'
  BY <1>5, <1>6 DEF Listen, Timeout, Wake, Finish, ExchangeAnswered,
                    RoundWrites, RoundReports, Running, Stages
<1>7. ASSUME NEW r \in Rounds, RoundStarts(r) PROVE Fresh'
  BY <1>7, LoginAssumption DEF RoundStarts, Call, RoundsOf
<1>8. ASSUME Stray \/ UNCHANGED vars PROVE Fresh'
  BY <1>1, <1>8 DEF Stray, vars
<1> QED
  BY <1>3, <1>4, <1>6, <1>7, <1>8 DEF Next

LEMMA PortStep ==
    ASSUME TypeOK, Fresh, PortAccounted, [Next]_vars PROVE PortAccounted'
<1> USE DEF PortAccounted, TypeOK, Running, Alive
<1>1. ASSUME UNCHANGED <<win, round, port>> PROVE PortAccounted'
  BY <1>1
<1>2. ASSUME NEW c \in Children, Begin(c) PROVE PortAccounted'
  BY <1>2, LoginAssumption DEF Begin, Fresh, RoundsOf
<1>3. ASSUME NEW c \in Children, RunReturns(c) \/ CloseWindow(c) \/ Capture(c)
      PROVE  PortAccounted'
  BY <1>3, LoginAssumption DEF RunReturns, CloseWindow, Capture, Responsive
<1>4. ASSUME NEW c \in Children, Gone(c), win[c] # "exited"
      PROVE  PortAccounted'
  <2>1. SUFFICES ASSUME NEW r \in Rounds
                 PROVE  port' = r <=> Running(r, "awaiting")'
    OBVIOUS
  <2>2. OwnerOf[r] \in Children /\ None \notin Rounds
    BY LoginAssumption, NamesAssumption DEF Flows
  <2>3. CASE OwnerOf[r] = c
    <3>1. win'[c] = "exited"
      BY <1>4 DEF Gone
    <3>2. port' # r
      BY <1>4, <2>2, <2>3 DEF Gone, RoundsOf
    <3> QED
      BY <2>3, <3>1, <3>2
  <2>4. CASE OwnerOf[r] # c
    <3>1. win'[OwnerOf[r]] = win[OwnerOf[r]] /\ round' = round
      BY <1>4, <2>2, <2>4 DEF Gone
    <3>2. port' = r <=> port = r
      BY <1>4, <2>2, <2>4 DEF Gone, RoundsOf
    <3> QED
      BY <3>1, <3>2
  <2> QED
    BY <2>3, <2>4
<1>5. ASSUME NEW c \in Children, Exit(c) \/ Kill(c) PROVE PortAccounted'
  BY <1>4, <1>5 DEF Exit, Kill
<1>6. ASSUME NEW c \in Children,
             \/ ClickKeypair(c) \/ PostAnswered(c) \/ KeypairWrites(c)
             \/ KeypairReports(c) \/ ClickOIDC(c) \/ DiscoveryFails(c)
             \/ GoBack(c) \/ Redirect(c)
      PROVE  PortAccounted'
  BY <1>1, <1>6 DEF ClickKeypair, PostAnswered, KeypairWrites, KeypairReports,
                    ClickOIDC, DiscoveryFails, GoBack, Redirect
<1>7. ASSUME NEW r \in Rounds, RoundStarts(r) PROVE PortAccounted'
  BY <1>7 DEF RoundStarts
<1>8. ASSUME NEW r \in Rounds, Listen(r) PROVE PortAccounted'
  BY <1>8, NamesAssumption DEF Listen, Flows
<1>9. ASSUME NEW r \in Rounds, Timeout(r) \/ Wake(r) PROVE PortAccounted'
  BY <1>9, NamesAssumption DEF Timeout, Wake, Flows
<1>10. ASSUME NEW r \in Rounds,
              \/ Finish(r) \/ ExchangeAnswered(r) \/ RoundWrites(r)
              \/ RoundReports(r)
       PROVE  PortAccounted'
  BY <1>10 DEF Finish, ExchangeAnswered, RoundWrites, RoundReports
<1>11. ASSUME Stray \/ UNCHANGED vars PROVE PortAccounted'
  BY <1>1, <1>11 DEF Stray, vars
<1> QED
  BY <1>2, <1>3, <1>5, <1>6, <1>7, <1>8, <1>9, <1>10, <1>11 DEF Next

LEMMA AlwaysFresh == Spec => []Fresh
<1>1. Init => Fresh
  BY DEF Init, Fresh, RoundsOf
<1> QED
  BY <1>1, FreshStep, LoginTypeCorrect, PTL DEF Spec

(***************************************************************************)
(* The redirect port is held exactly by the live round that awaits on it:  *)
(* neither a round that ended in any way nor a process that died blocks a  *)
(* later sign-in, for any number of both.                                  *)
(***************************************************************************)
THEOREM LoginPortAccounted == Spec => []PortAccounted
<1>1. Init => PortAccounted
  BY NamesAssumption DEF Init, PortAccounted, Running, Flows
<1> QED
  BY <1>1, PortStep, AlwaysFresh, LoginTypeCorrect, PTL DEF Spec

-----------------------------------------------------------------------------
(* Writes and reports.                                                     *)

LEMMA WriteOnceStep ==
    ASSUME TypeOK, WriteOnce, [Next]_vars PROVE WriteOnce'
<1> USE DEF WriteOnce, TypeOK
<1>1. ASSUME UNCHANGED <<page, ui, round, written>> PROVE WriteOnce'
  BY <1>1
<1>2. ASSUME NEW c \in Children,
             \/ Begin(c) \/ RunReturns(c) \/ CloseWindow(c) \/ Capture(c)
             \/ Exit(c) \/ Kill(c)
      PROVE  WriteOnce'
  BY <1>1, <1>2 DEF Begin, RunReturns, CloseWindow, Capture, Exit, Kill, Gone
<1>3. ASSUME NEW c \in Children,
             ClickKeypair(c) \/ PostAnswered(c) \/ ClickOIDC(c)
               \/ DiscoveryFails(c)
      PROVE  WriteOnce'
  BY <1>3 DEF ClickKeypair, PostAnswered, ClickOIDC, DiscoveryFails, Call
<1>4. ASSUME NEW c \in Children, KeypairWrites(c) PROVE WriteOnce'
  BY <1>4, LoginAssumption DEF KeypairWrites, Call, Write
<1>5. ASSUME NEW c \in Children, KeypairReports(c) PROVE WriteOnce'
  BY <1>5 DEF KeypairReports, Call
<1>6. ASSUME NEW c \in Children, GoBack(c) \/ Redirect(c) PROVE WriteOnce'
  <2>1. page[c] # "spent" /\ ui[c] = "idle"
    BY <1>6, NamesAssumption DEF GoBack, Redirect, Responsive
  <2> QED
    BY <1>6, <2>1 DEF GoBack, Redirect
<1>7. ASSUME NEW r \in Rounds, RoundStarts(r) PROVE WriteOnce'
  <2>1. OwnerOf[r] \in Children /\ page[OwnerOf[r]] = "login"
    BY <1>7, LoginAssumption DEF RoundStarts, Call
  <2> QED
    BY <1>7, <2>1 DEF RoundStarts, Call
<1>8. ASSUME NEW r \in Rounds, NEW s \in Stages \ {"report"},
             round[r] \notin {"report", "done"},
             round' = [round EXCEPT ![r] = s], UNCHANGED <<page, ui, written>>
      PROVE  WriteOnce'
  BY <1>8
<1>9. ASSUME NEW r \in Rounds,
             \/ Listen(r) \/ Timeout(r) \/ Wake(r) \/ Finish(r)
             \/ ExchangeAnswered(r)
      PROVE  WriteOnce'
  BY <1>8, <1>9 DEF Listen, Timeout, Wake, Finish, ExchangeAnswered, Running,
                    Stages
<1>10. ASSUME NEW r \in Rounds, RoundWrites(r) PROVE WriteOnce'
  BY <1>10, LoginAssumption DEF RoundWrites, Write, Running
<1>11. ASSUME NEW r \in Rounds, RoundReports(r) PROVE WriteOnce'
  BY <1>11 DEF RoundReports, Running
<1>12. ASSUME Stray \/ UNCHANGED vars PROVE WriteOnce'
  BY <1>1, <1>12 DEF Stray, vars
<1> QED
  BY <1>2, <1>3, <1>4, <1>5, <1>6, <1>7, <1>9, <1>10, <1>11, <1>12 DEF Next

LEMMA AlwaysWriteOnce == Spec => []WriteOnce
<1>1. Init => WriteOnce
  BY DEF Init, WriteOnce
<1> QED
  BY <1>1, WriteOnceStep, LoginTypeCorrect, PTL DEF Spec

\* A step writes no token back out of `written`.
LEMMA WrittenGrows ==
    ASSUME [Next]_vars PROVE written \subseteq written'
<1>1. CASE Next
  BY <1>1 DEF Next, Begin, RunReturns, CloseWindow, Capture, Exit, Kill, Gone,
     ClickKeypair, PostAnswered, KeypairWrites, KeypairReports, ClickOIDC,
     DiscoveryFails, GoBack, Redirect, RoundStarts, Listen, Timeout, Wake,
     Finish, ExchangeAnswered, RoundWrites, RoundReports, Stray, Write
<1>2. CASE UNCHANGED vars
  BY <1>2 DEF vars
<1> QED
  BY <1>1, <1>2

\* What a step may do to the result of a window, and to its exit.
LEMMA ResultStep ==
    ASSUME TypeOK, [Next]_vars, NEW c \in Children
    PROVE  /\ result[c] # "unset" => result'[c] = result[c]
           /\ \/ result'[c] = result[c]
              \/ result'[c] = c /\ ui[c] = "report"
              \/ \E r \in RoundsOf(c) :
                   /\ round[r] = "report" /\ result'[c] = r
              \/ \E r \in RoundsOf(c) :
                   /\ round[r] = "fail" /\ result'[c] = "error"
                   /\ round'[r] = "done"
           /\ \/ ret'[c] = ret[c]
              \/ ret'[c] \in {"cached", "killed", result[c]}
<1> USE DEF TypeOK
<1> DEFINE Goal ==
      /\ result[c] # "unset" => result'[c] = result[c]
      /\ \/ result'[c] = result[c]
         \/ result'[c] = c /\ ui[c] = "report"
         \/ \E r \in RoundsOf(c) : round[r] = "report" /\ result'[c] = r
         \/ \E r \in RoundsOf(c) :
              /\ round[r] = "fail" /\ result'[c] = "error"
              /\ round'[r] = "done"
      /\ \/ ret'[c] = ret[c]
         \/ ret'[c] \in {"cached", "killed", result[c]}
<1>1. ASSUME UNCHANGED <<result, ret>> PROVE Goal
  BY <1>1
<1>2. ASSUME NEW d \in Children, Begin(d) \/ Capture(d) \/ Exit(d) \/ Kill(d)
      PROVE  Goal
  BY <1>2 DEF Begin, Capture, Exit, Kill, Gone
<1>3. ASSUME NEW d \in Children,
             \/ RunReturns(d) \/ CloseWindow(d) \/ ClickKeypair(d)
             \/ PostAnswered(d) \/ KeypairWrites(d) \/ ClickOIDC(d)
             \/ DiscoveryFails(d) \/ GoBack(d) \/ Redirect(d)
      PROVE  Goal
  BY <1>1, <1>3 DEF RunReturns, CloseWindow, ClickKeypair, PostAnswered,
                    KeypairWrites, ClickOIDC, DiscoveryFails, GoBack, Redirect
<1>4. ASSUME NEW d \in Children, KeypairReports(d) PROVE Goal
  BY <1>4 DEF KeypairReports, Call, SetResult
<1>5. ASSUME NEW r \in Rounds,
             \/ RoundStarts(r) \/ Listen(r) \/ Timeout(r) \/ Wake(r)
             \/ Finish(r) \/ ExchangeAnswered(r) \/ RoundWrites(r)
      PROVE  Goal
  BY <1>1, <1>5 DEF RoundStarts, Listen, Timeout, Wake, Finish,
                    ExchangeAnswered, RoundWrites
<1>6. ASSUME NEW r \in Rounds, RoundReports(r) PROVE Goal
  <2>1. CASE OwnerOf[r] # c
    BY <1>6, <2>1, LoginAssumption DEF RoundReports, SetResult
  <2>2. CASE OwnerOf[r] = c
    <3>1. r \in RoundsOf(c) /\ ret' = ret /\ round'[r] = "done"
      BY <1>6, <2>2 DEF RoundReports, RoundsOf
    <3>2. result[c] # "unset" => result'[c] = result[c]
      BY <1>6, <2>2 DEF RoundReports, SetResult
    <3>3. \/ result'[c] = result[c]
          \/ round[r] = "report" /\ result'[c] = r
          \/ round[r] = "fail" /\ result'[c] = "error"
      BY <1>6, <2>2 DEF RoundReports, SetResult, Running
    <3> QED
      BY <3>1, <3>2, <3>3
  <2> QED
    BY <2>1, <2>2
<1>7. ASSUME Stray \/ UNCHANGED vars PROVE Goal
  BY <1>1, <1>7 DEF Stray, vars
<1> QED
  BY <1>2, <1>3, <1>4, <1>5, <1>6, <1>7 DEF Next

LEMMA ReportedStep ==
    ASSUME TypeOK, WriteOnce, ReportedIsPersisted, [Next]_vars
    PROVE  ReportedIsPersisted'
<1> SUFFICES ASSUME NEW c \in Children, NEW f \in Flows,
                    result'[c] = f \/ ret'[c] = f
             PROVE  f \in written' /\ f \in FlowsOf(c)
  BY DEF ReportedIsPersisted, FlowsOf, RoundsOf
<1>1. f \notin {"error", "cached", "killed"} /\ written \subseteq written'
  BY NamesAssumption, WrittenGrows
<1>2. CASE result[c] = f \/ ret[c] = f
  BY <1>1, <1>2 DEF ReportedIsPersisted
<1>3. CASE result[c] # f /\ ret[c] # f
  <2>1. \/ f = c /\ ui[c] = "report"
        \/ f \in RoundsOf(c) /\ round[f] = "report"
    BY <1>1, <1>3, ResultStep
  <2> QED
    BY <1>1, <2>1 DEF WriteOnce, FlowsOf, RoundsOf
<1> QED
  BY <1>2, <1>3

(***************************************************************************)
(* A window reports, and a process exits with, only a token that one of    *)
(* its own flows has persisted: exit code 0 with a token can be read back. *)
(***************************************************************************)
THEOREM LoginReportedIsPersisted == Spec => []ReportedIsPersisted
<1>1. Init => ReportedIsPersisted
  BY NamesAssumption DEF Init, ReportedIsPersisted
<1> QED
  BY <1>1, ReportedStep, AlwaysWriteOnce, LoginTypeCorrect, PTL DEF Spec

\* A round that is over stays so, and writes nothing any more.
LEMMA DoneStep ==
    ASSUME TypeOK, [Next]_vars, NEW r \in Rounds,
           round[r] \in {"fail", "done"}, r \notin written
    PROVE  /\ r \notin written'
           /\ round[r] = "done" => round'[r] = "done"
<1> USE DEF TypeOK
<1> DEFINE Goal == /\ r \notin written'
                   /\ round[r] = "done" => round'[r] = "done"
<1>1. ASSUME UNCHANGED <<round, written>> PROVE Goal
  BY <1>1
<1>2. ASSUME NEW c \in Children, KeypairWrites(c) PROVE Goal
  BY <1>2, LoginAssumption DEF KeypairWrites, Write
<1>3. ASSUME NEW c \in Children,
             \/ Begin(c) \/ RunReturns(c) \/ CloseWindow(c) \/ Capture(c)
             \/ Exit(c) \/ Kill(c) \/ ClickKeypair(c) \/ PostAnswered(c)
             \/ KeypairReports(c) \/ ClickOIDC(c) \/ DiscoveryFails(c)
             \/ GoBack(c) \/ Redirect(c)
      PROVE  Goal
  BY <1>1, <1>3
     DEF Begin, RunReturns, CloseWindow, Capture, Exit, Kill, Gone,
         ClickKeypair, PostAnswered, KeypairReports, ClickOIDC, DiscoveryFails,
         GoBack, Redirect
<1>4. ASSUME NEW q \in Rounds,
             \/ RoundStarts(q) \/ Listen(q) \/ Timeout(q) \/ Wake(q)
             \/ Finish(q) \/ ExchangeAnswered(q) \/ RoundReports(q)
      PROVE  Goal
  BY <1>4 DEF RoundStarts, Listen, Timeout, Wake, Finish, ExchangeAnswered,
              RoundReports, Running
<1>5. ASSUME NEW q \in Rounds, RoundWrites(q) PROVE Goal
  BY <1>5 DEF RoundWrites, Write, Running
<1>6. ASSUME Stray \/ UNCHANGED vars PROVE Goal
  BY <1>1, <1>6 DEF Stray, vars
<1> QED
  BY <1>2, <1>3, <1>4, <1>5, <1>6 DEF Next

LEMMA ErrorsStep ==
    ASSUME TypeOK, WriteOnce, ErrorsElsewhere, [Next]_vars
    PROVE  ErrorsElsewhere'
<1> SUFFICES ASSUME NEW c \in Children, result'[c] = "error"
             PROVE  \E r \in RoundsOf(c) \ written' : round'[r] = "done"
  BY DEF ErrorsElsewhere, RoundsOf
<1>1. CASE result[c] = "error"
  <2>1. PICK r \in RoundsOf(c) \ written : round[r] = "done"
    BY <1>1 DEF ErrorsElsewhere
  <2> QED
    BY <2>1, DoneStep DEF RoundsOf
<1>2. CASE result[c] # "error"
  <2>1. "error" \notin Flows
    BY NamesAssumption
  <2>2. PICK r \in RoundsOf(c) : round[r] = "fail" /\ round'[r] = "done"
    BY <1>2, <2>1, ResultStep DEF RoundsOf, Flows
  <2>3. r \notin written
    BY <2>2 DEF WriteOnce, RoundsOf
  <2> QED
    BY <2>2, <2>3, DoneStep DEF RoundsOf
<1> QED
  BY <1>1, <1>2

LEMMA AlwaysErrorsElsewhere == Spec => []ErrorsElsewhere
<1>1. Init => ErrorsElsewhere
  BY DEF Init, ErrorsElsewhere
<1> QED
  BY <1>1, ErrorsStep, AlwaysWriteOnce, LoginTypeCorrect, PTL DEF Spec

(***************************************************************************)
(* A stored sign-in that fails all the same was failed by another round of *)
(* its window that is over: no flow turns its own success into an error.   *)
(***************************************************************************)
THEOREM LoginOwnSuccessIsNoFailure == Spec => []OwnSuccessIsNoFailure
<1>1. ErrorsElsewhere => OwnSuccessIsNoFailure
  BY DEF ErrorsElsewhere, OwnSuccessIsNoFailure
<1> QED
  BY <1>1, AlwaysErrorsElsewhere, PTL

-----------------------------------------------------------------------------
(* Windows that offer one flow.                                            *)

\* Without the keypair button, nothing of that flow happens.
KeypairUnused ==
    \A c \in Children :
      ui[c] \notin {"post", "write", "report"} /\ c \notin written

LEMMA KeypairUnusedStep ==
    ASSUME TypeOK, KeypairUnused, [Next]_vars, ~KeypairOffered
    PROVE  KeypairUnused'
<1> USE DEF KeypairUnused, TypeOK
<1>1. ASSUME UNCHANGED <<ui, written>> PROVE KeypairUnused'
  BY <1>1
<1>2. ASSUME NEW c \in Children,
             \/ Begin(c) \/ RunReturns(c) \/ CloseWindow(c) \/ Capture(c)
             \/ Exit(c) \/ Kill(c) \/ GoBack(c) \/ Redirect(c)
      PROVE  KeypairUnused'
  BY <1>1, <1>2 DEF Begin, RunReturns, CloseWindow, Capture, Exit, Kill, Gone,
                    GoBack, Redirect
<1>3. ASSUME NEW c \in Children,
             \/ ClickKeypair(c) \/ PostAnswered(c) \/ KeypairWrites(c)
             \/ KeypairReports(c)
      PROVE  FALSE
  BY <1>3 DEF ClickKeypair, PostAnswered, KeypairWrites, KeypairReports, Call
<1>4. ASSUME NEW c \in Children, ClickOIDC(c) \/ DiscoveryFails(c)
      PROVE  KeypairUnused'
  BY <1>4 DEF ClickOIDC, DiscoveryFails, Call
<1>5. ASSUME NEW r \in Rounds, RoundStarts(r) PROVE KeypairUnused'
  BY <1>5 DEF RoundStarts, Call
<1>6. ASSUME NEW r \in Rounds, RoundWrites(r) PROVE KeypairUnused'
  BY <1>6, LoginAssumption DEF RoundWrites, Write
<1>7. ASSUME NEW r \in Rounds,
             \/ Listen(r) \/ Timeout(r) \/ Wake(r) \/ Finish(r)
             \/ ExchangeAnswered(r) \/ RoundReports(r)
      PROVE  KeypairUnused'
  BY <1>1, <1>7 DEF Listen, Timeout, Wake, Finish, ExchangeAnswered,
                    RoundReports
<1>8. ASSUME Stray \/ UNCHANGED vars PROVE KeypairUnused'
  BY <1>1, <1>8 DEF Stray, vars
<1> QED
  BY <1>2, <1>3, <1>4, <1>5, <1>6, <1>7, <1>8 DEF Next

\* A process exits with the error its window reported.
ErrorReported ==
    \A c \in Children : ret[c] = "error" => result[c] = "error"

LEMMA ErrorReportedStep ==
    ASSUME TypeOK, ErrorReported, [Next]_vars PROVE ErrorReported'
<1> SUFFICES ASSUME NEW c \in Children, ret'[c] = "error"
             PROVE  result'[c] = "error"
  BY DEF ErrorReported
<1>1. result[c] = "error"
  BY ResultStep DEF ErrorReported
<1> QED
  BY <1>1, ResultStep

(***************************************************************************)
(* auth_login.go's promise holds where nothing competes: in windows that   *)
(* offer one OIDC round each and no keypair flow, for any number of them   *)
(* beside each other, an error means that no flow cached a token.          *)
(***************************************************************************)
THEOREM LoginErrorStoresNothingAlone ==
    ASSUME ~KeypairOffered,
           \A r, q \in Rounds : OwnerOf[r] = OwnerOf[q] => r = q
    PROVE  Spec => []ErrorStoresNothing
<1>1. Init => KeypairUnused /\ ErrorReported
  BY DEF Init, KeypairUnused, ErrorReported
<1>2. TypeOK /\ KeypairUnused /\ [Next]_vars => KeypairUnused'
  BY KeypairUnusedStep
<1>3. ErrorsElsewhere /\ KeypairUnused /\ ErrorReported => ErrorStoresNothing
  BY DEF ErrorsElsewhere, KeypairUnused, ErrorReported, ErrorStoresNothing,
         FlowsOf, RoundsOf
<1> QED
  BY <1>1, <1>2, <1>3, ErrorReportedStep, AlwaysErrorsElsewhere,
     LoginTypeCorrect, PTL DEF Spec

-----------------------------------------------------------------------------
(* The process as SignInChild.                                             *)

LEMMA StageTurn ==
    ASSUME NEW c \in Children, NEW from, NEW to,
           Stage(c) \in from, Stage(c)' \in to,
           \A d \in Children \ {c} : Stage(d)' = Stage(d)
    PROVE  SignIns!Turn(c, from, to)
BY DEF SignIns!Turn

\* A process whose own variables are left alone is seen where it was.
LEMMA StageKept ==
    ASSUME NEW c \in Children, win'[c] = win[c], ret'[c] = ret[c],
           Waiting(c)' = Waiting(c),
           FlowsOf(c) \cap written' = FlowsOf(c) \cap written
    PROVE  Stage(c)' = Stage(c)
BY DEF Stage, ExitFailed, FlowsOf, RoundsOf

\* So is one whose call moves on, unless the call begins or ends to wait for a
\* server after a token was written.
LEMMA CallStep ==
    ASSUME TypeOK, NEW c \in Children, NEW from, NEW to, Call(c, from, to),
           UNCHANGED <<win, ret, written>>
    PROVE  \/ SignIns!Call(c)
           \/ SignIns!Answer(c)
           \/ UNCHANGED [d \in Children |-> Stage(d)]
<1>1. \A d \in Children \ {c} : Stage(d)' = Stage(d)
  BY StageKept DEF Call, TypeOK, Waiting
<1>2. win[c] = "run" /\ win'[c] = "run"
  BY DEF Call
<1>3. CASE FlowsOf(c) \cap written = {} \/ Waiting(c)' = Waiting(c)
  <2>1. Stage(c)' = Stage(c)
    BY <1>2, <1>3 DEF Stage, FlowsOf, RoundsOf
  <2> QED
    BY <1>1, <2>1
<1>4. CASE FlowsOf(c) \cap written # {} /\ ~Waiting(c) /\ Waiting(c)'
  <2>1. Stage(c) \in {"stored"} /\ Stage(c)' \in {"calling"}
    BY <1>2, <1>4 DEF Stage, FlowsOf, RoundsOf
  <2> QED
    BY <1>1, <2>1, StageTurn DEF SignIns!Call
<1>5. CASE FlowsOf(c) \cap written # {} /\ Waiting(c) /\ ~Waiting(c)'
  <2>1. Stage(c) \in {"calling"} /\ Stage(c)' \in {"stored"}
    BY <1>2, <1>5 DEF Stage, FlowsOf, RoundsOf
  <2> QED
    BY <1>1, <2>1, StageTurn DEF SignIns!Answer
<1> QED
  BY <1>3, <1>4, <1>5 DEF Waiting

\* Nothing of a process that has not begun is in the Credential Manager.
LEMMA NothingWritten ==
    ASSUME Fresh, WriteOnce, NEW c \in Children, win[c] = "start"
    PROVE  FlowsOf(c) \cap written = {}
BY DEF Fresh, WriteOnce, FlowsOf, RoundsOf

\* A flow of a running window writes its token for the first time.
LEMMA StoreStep ==
    ASSUME IsFiniteSet(written), NEW c \in Children, NEW f \in FlowsOf(c),
           f \notin written, Alive(c), written' = written \cup {f},
           \A d \in Children : Waiting(d)' = Waiting(d),
           UNCHANGED <<win, ret>>
    PROVE  SignIns!Store(c)
<1>1. \/ Stage(c) \in {"window", "stored"} /\ Stage(c)' \in {"stored"}
      \/ Stage(c) \in {"window", "calling"} /\ Stage(c)' \in {"calling"}
  BY DEF Stage, Alive, FlowsOf, RoundsOf
<1>2. \A d \in Children \ {c} : f \notin FlowsOf(d)
  BY LoginAssumption DEF FlowsOf, RoundsOf
<1>3. \A d \in Children \ {c} : Stage(d)' = Stage(d)
  BY <1>2, StageKept
<1>4. \/ SignIns!Turn(c, {"window", "stored"}, {"stored"})
      \/ SignIns!Turn(c, {"window", "calling"}, {"calling"})
  BY <1>1, <1>3, StageTurn
<1>5. Cardinality(written)' = Cardinality(written) + 1
  BY FS_AddElement
<1> QED
  BY <1>4, <1>5 DEF SignIns!Store

LEMMA SignInStep ==
    ASSUME TypeOK, Fresh, WriteOnce, IsFiniteSet(written), [Next]_vars
    PROVE  /\ [SignIns!Next]_SignIns!vars
           /\ IsFiniteSet(written)'
<1> DEFINE Still == UNCHANGED <<[c \in Children |-> Stage(c)],
                                Cardinality(written)>>
           Goal == (SignIns!Next \/ Still) /\ IsFiniteSet(written)'
<1> USE DEF SignIns!Next
<1>1. ASSUME UNCHANGED <<win, ui, ret, written>> PROVE Goal
  BY <1>1, StageKept DEF Waiting
<1>2. ASSUME NEW c \in Children, Begin(c) PROVE Goal
  <2>1. Stage(c) \in {"start"} /\ UNCHANGED written
    BY <1>2 DEF Begin, Stage
  <2>2. \A d \in Children \ {c} : Stage(d)' = Stage(d)
    BY <1>2, StageKept DEF Begin, TypeOK, Waiting
  <2>3. Stage(c)' \in {"window"} \/ Stage(c)' \in {"ok", "failed"}
    BY <1>2, NothingWritten DEF Begin, Stage, TypeOK, FlowsOf, RoundsOf
  <2>4. CASE Stage(c)' \in {"window"}
    BY <2>1, <2>2, <2>4, StageTurn DEF SignIns!Show
  <2>5. CASE Stage(c)' \in {"ok", "failed"}
    <3>1. Stage(c) \in {"start", "window", "stored"}
      BY <2>1
    <3> QED
      BY <2>1, <2>2, <2>5, <3>1, StageTurn DEF SignIns!End
  <2> QED
    BY <2>1, <2>3, <2>4, <2>5
<1>3. ASSUME NEW c \in Children, RunReturns(c) \/ CloseWindow(c) \/ Capture(c)
      PROVE  Goal
  <2>1. /\ Alive(c) /\ Alive(c)' /\ UNCHANGED <<ui, written>>
        /\ ~Waiting(c) /\ ~Waiting(c)'
        /\ \A d \in Children \ {c} : win'[d] = win[d] /\ ret'[d] = ret[d]
    BY <1>3 DEF RunReturns, CloseWindow, Capture, Responsive, Alive, Waiting,
                TypeOK
  <2>2. Stage(c)' = Stage(c)
    BY <2>1 DEF Stage, Alive, FlowsOf, RoundsOf
  <2>3. \A d \in Children : Stage(d)' = Stage(d)
    BY <2>1, <2>2, StageKept DEF Waiting
  <2> QED
    BY <2>1, <2>3
<1>4. ASSUME NEW c \in Children, Exit(c) \/ Kill(c) PROVE Goal
  <2>1. /\ win[c] # "exited" /\ win'[c] = "exited" /\ UNCHANGED <<ui, written>>
        /\ \A d \in Children \ {c} : win'[d] = win[d] /\ ret'[d] = ret[d]
    BY <1>4 DEF Exit, Kill, Gone, TypeOK
  <2>2. Waiting(c) => ret'[c] = "killed"
    BY <1>4 DEF Exit, Kill, Waiting, TypeOK
  <2>3. \/ /\ Stage(c) \in {"start", "window", "stored"}
           /\ Stage(c)' \in {"ok", "failed"}
        \/ Stage(c) \in {"calling"} /\ Stage(c)' \in {"failed"}
    BY <2>1, <2>2 DEF Stage, ExitFailed
  <2>4. \A d \in Children \ {c} : Stage(d)' = Stage(d)
    BY <2>1, StageKept DEF Waiting
  <2> QED
    BY <2>1, <2>3, <2>4, StageTurn DEF SignIns!End
<1>5. ASSUME NEW c \in Children, NEW f \in FlowsOf(c), f \notin written,
             Alive(c), UNCHANGED <<win, ret>>,
             \A d \in Children : Waiting(d)' = Waiting(d),
             written' = written \/ written' = written \cup {f}
      PROVE  Goal
  <2>1. CASE written' = written
    BY <1>5, <2>1, StageKept
  <2>2. CASE written' = written \cup {f}
    BY <1>5, <2>2, StoreStep, FS_AddElement
  <2> QED
    BY <1>5, <2>1, <2>2
<1>6. ASSUME NEW c \in Children, KeypairWrites(c) PROVE Goal
  <2>1. c \in FlowsOf(c) /\ c \notin written /\ Alive(c)
    BY <1>6 DEF KeypairWrites, Call, WriteOnce, FlowsOf, Alive
  <2>2. \A d \in Children : Waiting(d)' = Waiting(d)
    BY <1>6 DEF KeypairWrites, Call, Waiting, TypeOK
  <2> QED
    BY <1>5, <1>6, <2>1, <2>2 DEF KeypairWrites, Write
<1>7. ASSUME NEW r \in Rounds, RoundWrites(r) PROVE Goal
  <2>1. /\ OwnerOf[r] \in Children /\ r \in FlowsOf(OwnerOf[r])
        /\ r \notin written /\ Alive(OwnerOf[r])
    BY <1>7, LoginAssumption
       DEF RoundWrites, Running, WriteOnce, FlowsOf, RoundsOf
  <2>2. \A d \in Children : Waiting(d)' = Waiting(d)
    BY <1>7 DEF RoundWrites, Waiting
  <2> QED
    BY <1>5, <1>7, <2>1, <2>2 DEF RoundWrites, Write
<1>12. ASSUME NEW c \in Children, NEW from, NEW to, Call(c, from, to),
              UNCHANGED <<win, ret, written>>
       PROVE  Goal
  BY <1>12, CallStep
<1>13. ASSUME NEW c \in Children,
              \/ ClickKeypair(c) \/ PostAnswered(c) \/ KeypairReports(c)
              \/ ClickOIDC(c) \/ DiscoveryFails(c)
       PROVE  Goal
  BY <1>12, <1>13 DEF ClickKeypair, PostAnswered, KeypairReports, ClickOIDC,
                      DiscoveryFails
<1>14. ASSUME NEW r \in Rounds, RoundStarts(r) PROVE Goal
  <2>1. OwnerOf[r] \in Children
    BY LoginAssumption
  <2> QED
    BY <1>12, <1>14, <2>1 DEF RoundStarts
<1>8. ASSUME NEW c \in Children, GoBack(c) \/ Redirect(c) PROVE Goal
  BY <1>1, <1>8 DEF GoBack, Redirect
<1>9. ASSUME NEW r \in Rounds,
             \/ Listen(r) \/ Timeout(r) \/ Wake(r)
             \/ Finish(r) \/ ExchangeAnswered(r) \/ RoundReports(r)
      PROVE  Goal
  BY <1>1, <1>9 DEF Listen, Timeout, Wake, Finish,
                    ExchangeAnswered, RoundReports
<1>10. ASSUME Stray \/ UNCHANGED vars PROVE Goal
  BY <1>1, <1>10 DEF Stray, vars
<1>11. Goal
  BY <1>2, <1>3, <1>4, <1>6, <1>7, <1>8, <1>9, <1>10, <1>13, <1>14 DEF Next
<1> QED
  BY <1>11 DEF SignIns!vars

LEMMA SignInInit == Init => SignIns!Init /\ IsFiniteSet(written)
<1> SUFFICES ASSUME Init PROVE SignIns!Init /\ IsFiniteSet(written)
  OBVIOUS
<1>1. \A c \in Children : Stage(c) = "start"
  BY DEF Init, Stage
<1>2. IsFiniteSet(written) /\ Cardinality(written) = 0
  BY FS_EmptySet DEF Init
<1> QED
  BY <1>1, <1>2 DEF SignIns!Init

(***************************************************************************)
(* Whatever goes on inside, from outside the sign-in process is the        *)
(* SignInChild that Session is written against, for any processes and      *)
(* rounds and any failures.                                                *)
(***************************************************************************)
THEOREM LoginImplementsSignIn == Spec => SignInSpec
BY SignInInit, SignInStep, AlwaysFresh, AlwaysWriteOnce, LoginTypeCorrect, PTL
   DEF Spec, SignInSpec, SignIns!Spec
=============================================================================
