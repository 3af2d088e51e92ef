--------------------------- MODULE PickerAuthProofs ---------------------------
(***************************************************************************)
(* Proofs about PickerAuth, for any operations that may fail.              *)
(***************************************************************************)
EXTENDS PickerAuth, SequenceTheorems, TLAPS

\* g's report is the one in ch.
In(g, ch) == ch # <<>> /\ Head(ch) = g

\* g has reported and was received, or ended with nothing to report.
Heard(g) == racer[g] = "done" /\ ~In(g, cbCh) /\ ~In(g, errCh)

\* Before the round there is nobody to report.
Asleep == /\ \A g \in Racers : racer[g] = "off"
          /\ cbCh = <<>> /\ errCh = <<>>

Early ==
    /\ pc \in {"cache", "pick", "keypair", "discover"} => Asleep
    /\ pc # "returned" => ret = "unset"

\* What is in a channel comes from a goroutine that has returned, and no
\* goroutine reports twice.
OneReport ==
    \A g \in Racers :
      /\ In(g, cbCh) \/ In(g, errCh) => racer[g] = "done"
      /\ ~(In(g, cbCh) /\ In(g, errCh))

\* The caller leaves the outer select with a report of one of the two.
Progress ==
    pc \in {"second", "finish", "store", "returned"} /\ ret # "cancelled" =>
      Asleep \/ \E g \in Racers : Heard(g)

\* The inner select was reached through an error.
InSecond == pc = "second" => ~Asleep

PickerInv == TypeOK /\ Early /\ OneReport /\ Progress /\ InSecond /\ BailsWhenBothFailed

LEMMA OneSlot ==
    ASSUME NEW ch \in Seq(Racers), Len(ch) <= 1, ch # <<>>
    PROVE  /\ Head(ch) \in Racers
           /\ Tail(ch) = <<>> /\ Tail(ch) \in Seq(Racers) /\ Len(Tail(ch)) = 0
<1>1. Len(ch) \in Nat \ {0}
  BY EmptySeq
<1>2. Tail(ch) \in Seq(Racers) /\ Len(Tail(ch)) = Len(ch) - 1
  BY HeadTailProperties
<1>3. Len(Tail(ch)) = 0
  BY <1>1, <1>2
<1>4. Tail(ch) = <<>>
  BY <1>2, <1>3, EmptySeq
<1> QED
  BY <1>2, <1>3, <1>4, HeadTailProperties

LEMMA SendOne ==
    ASSUME NEW ch \in Seq(Racers), Room(ch), NEW g \in Racers
    PROVE  /\ ch = <<>>
           /\ Append(ch, g) \in Seq(Racers) /\ Len(Append(ch, g)) <= 1
           /\ Append(ch, g) # <<>> /\ Head(Append(ch, g)) = g
<1>1. Len(ch) = 0
  BY LenProperties DEF Room
<1>2. ch = <<>>
  BY <1>1, EmptySeq
<1>3. /\ Append(ch, g) \in Seq(Racers) /\ Len(Append(ch, g)) = 1
      /\ Append(ch, g)[1] = g
  BY <1>1, AppendProperties
<1>4. Append(ch, g) # <<>>
  BY <1>3, EmptySeq
<1> QED
  BY <1>2, <1>3, <1>4, HeadTailProperties

LEMMA InitPickerInv == Init => PickerInv
<1> SUFFICES ASSUME Init PROVE PickerInv
  OBVIOUS
<1>1. <<>> \in Seq(Racers) /\ Len(<<>>) <= 1
  BY EmptySeq
<1>2. TypeOK
  BY <1>1 DEF Init, TypeOK, Steps, Stages, Returns
<1>3. Early /\ OneReport
  BY DEF Init, Early, Asleep, OneReport, In
<1>4. Progress /\ InSecond /\ BailsWhenBothFailed
  BY DEF Init, Progress, InSecond, BailsWhenBothFailed
<1> QED
  BY <1>2, <1>3, <1>4 DEF PickerInv

\* A step of the caller that receives nothing.
LEMMA KeepsMove ==
    ASSUME PickerInv, pc' \in Steps, ret' \in Returns, entry' \in BOOLEAN,
           UNCHANGED <<racer, cbCh, errCh, callback, cancelled>>,
           pc # "returned",
           pc' \in {"cache", "pick", "keypair", "discover"} => Asleep,
           pc' # "returned" => ret' = ret,
           pc' # "second", ret' # "bothFailed",
           pc' \in {"finish", "store", "returned"} /\ ret' # "cancelled" =>
             Asleep \/ \E g \in Racers : Heard(g)
    PROVE  PickerInv'
<1> USE DEF PickerInv
<1>1. TypeOK'
  BY DEF TypeOK
<1>2. Asleep' <=> Asleep
  BY DEF Asleep
<1>3. Early' /\ OneReport' /\ InSecond'
  BY <1>2 DEF Early, OneReport, In, InSecond
<1>4. \A g \in Racers : Heard(g) => Heard(g)'
  BY DEF Heard, In
<1>5. Progress' /\ BailsWhenBothFailed'
  BY <1>2, <1>4 DEF Progress, BailsWhenBothFailed
<1> QED
  BY <1>1, <1>3, <1>5

LEMMA KeepsReceiveCallback ==
    ASSUME PickerInv, pc \in {"race", "second"}, ReceiveCallback
    PROVE  PickerInv'
<1> USE DEF PickerInv, TypeOK
<1>0. PICK h \in Racers : h = Head(cbCh)
  BY OneSlot DEF ReceiveCallback
<1>1. cbCh' = <<>> /\ cbCh' \in Seq(Racers) /\ Len(cbCh') <= 1 /\ In(h, cbCh)
  BY <1>0, OneSlot DEF ReceiveCallback, In
<1>2. Heard(h)'
  BY <1>1 DEF ReceiveCallback, Heard, In, OneReport
<1>3. TypeOK'
  BY <1>0, <1>1 DEF ReceiveCallback, Steps
<1>4. OneReport' /\ Early' /\ InSecond'
  BY <1>1 DEF ReceiveCallback, OneReport, In, Early, InSecond
<1>5. Progress' /\ BailsWhenBothFailed'
  BY <1>1, <1>2 DEF ReceiveCallback, Progress, BailsWhenBothFailed
<1> QED
  BY <1>3, <1>4, <1>5

\* The first error opens the inner select.
LEMMA KeepsFirstError ==
    ASSUME PickerInv, pc = "race", errCh # <<>>,
           pc' = "second", errCh' = Tail(errCh),
           UNCHANGED <<racer, cbCh, callback, cancelled, entry, ret>>
    PROVE  PickerInv'
<1> USE DEF PickerInv, TypeOK
<1>0. PICK e \in Racers : e = Head(errCh)
  BY OneSlot
<1>1. errCh' = <<>> /\ errCh' \in Seq(Racers) /\ Len(errCh') <= 1 /\ In(e, errCh)
  BY <1>0, OneSlot DEF In
<1>2. Heard(e)' /\ racer[e] = "done"
  BY <1>1 DEF Heard, In, OneReport
<1>3. TypeOK'
  BY <1>1 DEF Steps
<1>4. OneReport' /\ Early'
  BY <1>1 DEF OneReport, In, Early
<1>5. Progress' /\ InSecond'
  BY <1>1, <1>2 DEF Progress, InSecond, Asleep
<1>6. BailsWhenBothFailed'
  BY DEF Early, BailsWhenBothFailed
<1> QED
  BY <1>3, <1>4, <1>5, <1>6

\* The second error ends the round: nobody is left to report anything.
LEMMA KeepsSecondError ==
    ASSUME PickerInv, pc = "second", errCh # <<>>,
           pc' = "returned", errCh' = Tail(errCh), ret' = "bothFailed",
           UNCHANGED <<racer, cbCh, callback, cancelled, entry>>
    PROVE  PickerInv'
<1> USE DEF PickerInv, TypeOK
<1> DEFINE e == Head(errCh)
<1>1. e \in Racers /\ errCh' = <<>> /\ errCh' \in Seq(Racers) /\ Len(errCh') <= 1
  BY OneSlot
<1>2. In(e, errCh) /\ racer[e] = "done" /\ ~In(e, cbCh)
  BY <1>1 DEF In, OneReport
<1>3. PICK g \in Racers : Heard(g)
  BY DEF Progress, InSecond, Early
<1>4. g # e /\ racer[g] = "done" /\ ~In(g, cbCh)
  BY <1>2, <1>3 DEF Heard
<1>5. \A r \in Racers : racer[r] = "done" /\ ~In(r, cbCh)
  BY <1>1, <1>2, <1>4 DEF Racers
<1>6. cbCh = <<>>
  BY <1>5, OneSlot DEF In
<1>7. TypeOK'
  BY <1>1 DEF Steps, Returns
<1>8. OneReport' /\ Early' /\ InSecond'
  BY <1>1 DEF OneReport, In, Early, InSecond
<1>9. Progress' /\ BailsWhenBothFailed'
  BY <1>1, <1>5, <1>6 DEF Progress, Heard, In, BailsWhenBothFailed
<1> QED
  BY <1>7, <1>8, <1>9

LEMMA KeepsCaller == ASSUME PickerInv, Caller PROVE PickerInv'
<1> USE DEF Goto, Return, Steps, Returns, PickerInv, TypeOK, Early
<1>1. CASE TryCache
  BY <1>1, KeepsMove DEF TryCache
<1>2. CASE Pick
  BY <1>2, KeepsMove DEF Pick
<1>3. CASE RunKeypair
  BY <1>3, KeepsMove DEF RunKeypair
<1>4. CASE StartOIDC
  <2>1. CASE Return("failed")
    BY <1>4, <2>1, KeepsMove DEF StartOIDC
  <2>2. CASE /\ pc' = "race" /\ racer' = [g \in Racers |-> "running"]
             /\ UNCHANGED <<cbCh, errCh, callback, cancelled, entry, ret>>
    BY <1>4, <2>2 DEF StartOIDC, Asleep, OneReport, In, Progress, InSecond,
                      BailsWhenBothFailed, Stages
  <2> QED
    BY <1>4, <2>1, <2>2 DEF StartOIDC
<1>5. CASE Race
  <2>1. CASE cancelled /\ Return("cancelled")
    BY <1>5, <2>1, KeepsMove DEF Race
  <2> QED
    BY <1>5, <2>1, KeepsReceiveCallback, KeepsFirstError DEF Race
<1>6. CASE Second
  <2>1. CASE Return("timeout")
    BY <1>6, <2>1, KeepsMove DEF Second, Progress
  <2> QED
    BY <1>6, <2>1, KeepsReceiveCallback, KeepsSecondError DEF Second
<1>7. CASE Finish
  BY <1>7, KeepsMove DEF Finish, Progress
<1>8. CASE Store
  BY <1>8, KeepsMove DEF Store, Progress
<1> QED
  BY <1>1, <1>2, <1>3, <1>4, <1>5, <1>6, <1>7, <1>8 DEF Caller

\* A goroutine that runs comes to its result.
LEMMA KeepsTurn ==
    ASSUME PickerInv, NEW g \in Racers, racer[g] = "running",
           NEW s \in {"url", "error", "done"}, Turn(g, s)
    PROVE  PickerInv'
<1> USE DEF PickerInv, TypeOK
<1>1. racer'[g] = s /\ \A r \in Racers \ {g} : racer'[r] = racer[r]
  BY DEF Turn
<1>2. ~In(g, cbCh) /\ ~In(g, errCh)
  BY DEF OneReport
<1>3. TypeOK'
  BY DEF Turn, Stages
<1>4. Early' /\ OneReport'
  BY <1>1, <1>2 DEF Turn, Early, Asleep, OneReport, In
<1>5. \A r \in Racers : Heard(r) => Heard(r)'
  BY <1>1 DEF Turn, Heard, In
<1>6. ~Asleep /\ ~Asleep'
  BY <1>1 DEF Asleep
<1>7. Progress' /\ InSecond'
  BY <1>5, <1>6 DEF Turn, Progress, InSecond
<1>8. BailsWhenBothFailed'
  BY <1>1 DEF Turn, BailsWhenBothFailed
<1> QED
  BY <1>3, <1>4, <1>7, <1>8

LEMMA KeepsSend ==
    ASSUME PickerInv, NEW g \in Racers, SendURL(g) \/ SendError(g)
    PROVE  PickerInv'
<1> USE DEF PickerInv, TypeOK
<1>1. racer[g] \in {"url", "error"} /\ ~In(g, cbCh) /\ ~In(g, errCh)
  BY DEF SendURL, SendError, OneReport
<1>2. /\ racer' \in [Racers -> Stages]
      /\ racer'[g] = "done" /\ \A r \in Racers \ {g} : racer'[r] = racer[r]
  BY DEF SendURL, SendError, Stages
<1>3. UNCHANGED <<pc, callback, cancelled, entry, ret>>
  BY DEF SendURL, SendError
<1>4. ~Asleep /\ ~Asleep'
  BY <1>1, <1>2 DEF Asleep
<1>5. \/ /\ cbCh = <<>> /\ cbCh' # <<>> /\ Head(cbCh') = g /\ UNCHANGED errCh
         /\ cbCh' \in Seq(Racers) /\ Len(cbCh') <= 1
      \/ /\ errCh = <<>> /\ errCh' # <<>> /\ Head(errCh') = g /\ UNCHANGED cbCh
         /\ errCh' \in Seq(Racers) /\ Len(errCh') <= 1
  BY SendOne DEF SendURL, SendError
<1>11. TypeOK'
  BY <1>2, <1>3, <1>5
<1>7. OneReport'
  BY <1>1, <1>2, <1>5 DEF OneReport, In
<1>8. \A r \in Racers : Heard(r) => Heard(r)'
  BY <1>1, <1>2, <1>5 DEF Heard, In
<1>9. Early' /\ Progress' /\ InSecond'
  BY <1>3, <1>4, <1>8 DEF Early, Progress, InSecond
<1>10. BailsWhenBothFailed'
  BY <1>1, <1>2, <1>3 DEF BailsWhenBothFailed
<1> QED
  BY <1>7, <1>9, <1>10, <1>11

LEMMA PickerStep == PickerInv /\ [Next]_vars => PickerInv'
<1> SUFFICES ASSUME PickerInv, [Next]_vars PROVE PickerInv'
  OBVIOUS
<1>1. CASE ListenerCaptures \/ ListenerFails \/ WebViewReturns
  BY <1>1, KeepsTurn DEF ListenerCaptures, ListenerFails, WebViewReturns, Racers
<1>2. CASE Cancel \/ UNCHANGED vars
  BY <1>2 DEF Cancel, vars, PickerInv, TypeOK, Early, Asleep, OneReport, In, Heard,
              Progress, InSecond, BailsWhenBothFailed
<1> QED
  BY <1>1, <1>2, KeepsCaller, KeepsSend DEF Next

LEMMA AlwaysPickerInv == Spec => []PickerInv
BY InitPickerInv, PickerStep, PTL DEF Spec

\* Neither channel ever holds more than its one report.
THEOREM PickerTyped == Spec => []TypeOK
<1>1. PickerInv => TypeOK
  BY DEF PickerInv
<1> QED
  BY <1>1, AlwaysPickerInv, PTL

\* An error is returned only when nobody can still bring a callback.
THEOREM BothMustFail == Spec => []BailsWhenBothFailed
<1>1. PickerInv => BailsWhenBothFailed
  BY DEF PickerInv
<1> QED
  BY <1>1, AlwaysPickerInv, PTL

\* The capacities of the two channels leave no goroutine of an ended round
\* blocked, unless the caller was cancelled.
THEOREM NoRacerIsStuck == Spec => []NobodyIsStuck
<1>1. PickerInv => NobodyIsStuck
  <2> SUFFICES ASSUME PickerInv, pc \in {"finish", "store", "returned"},
                      ret # "cancelled", NEW g \in Racers
               PROVE  /\ racer[g] = "url" => Room(cbCh)
                      /\ racer[g] = "error" => Room(errCh)
    BY DEF NobodyIsStuck
  <2> USE DEF PickerInv, TypeOK
  <2>1. CASE Asleep
    BY <2>1 DEF Asleep
  <2>2. ASSUME NEW h \in Racers, Heard(h), racer[g] \in {"url", "error"}
        PROVE  cbCh = <<>> /\ errCh = <<>>
    <3>1. g # h
      BY <2>2 DEF Heard
    <3>2. \A r \in Racers : ~In(r, cbCh) /\ ~In(r, errCh)
      BY <2>2, <3>1 DEF Racers, Heard, OneReport
    <3> QED
      BY <3>2, OneSlot DEF In
  <2>3. Len(<<>>) = 0
    OBVIOUS
  <2> QED
    BY <2>1, <2>2, <2>3 DEF Progress, Room
<1> QED
  BY <1>1, AlwaysPickerInv, PTL
=============================================================================
