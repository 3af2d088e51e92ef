---------------------------- MODULE ActiveDCProofs ----------------------------
(***************************************************************************)
(* Proofs about ActiveDC for any datacenters, dashboards and switches.     *)
(***************************************************************************)
EXTENDS ActiveDC, SequenceTheorems, TLAPS

\* A document has the label of the seed, of the last poll, or a notice of the
\* last poll is still on its way.
Following(st, sd, w, q, ch) ==
    /\ st # "seeded" => w = Unpolled /\ ch = NoDocument
    /\ w = Unpolled => q = <<>> /\ ch \in {NoDocument, sd}
    /\ IF q = <<>> THEN ch # NoDocument => ch.dc \in {sd.dc, w.dc}
                   ELSE q[Len(q)].dc = w.dc

InFlight ==
    \A d \in Dashboards :
      Following(stage[d], seed[d], watched[d], notices[d], chip[d])

LEMMA OutsideSwitch ==
    /\ Unpolled \notin Switch
    /\ NoDocument \notin Switch
    /\ NoSwitch \in Switch
    /\ \A s \in Switch : s.n \in Nat
    /\ Unpolled.n = 0 /\ NoDocument.n = 0
<1>1. Unpolled.dc = "unpolled" /\ NoDocument.dc = "blank"
  BY DEF Unpolled, NoDocument
<1>2. \A s \in Switch : s.dc \in DCs \cup {None} /\ s.n \in Nat
  BY DEF Switch
<1>3. NoSwitch \in Switch
  BY ActiveDCAssumption DEF NoSwitch, Switch
<1> QED
  BY <1>1, <1>2, <1>3, ActiveDCAssumption DEF Unpolled, NoDocument

LEMMA TypeInit == Init => TypeOK
BY OutsideSwitch DEF Init, TypeOK, Stages

LEMMA TypeStep == ASSUME TypeOK, [Next]_vars PROVE TypeOK'
<1> USE DEF TypeOK, Stages
<1>1. ASSUME Reselect \/ Poll PROVE TypeOK'
  BY <1>1 DEF Reselect, Poll, dashboard
<1>2. ASSUME Publish PROVE TypeOK'
  <2>1. published' \in Switch
    BY <1>2, ActiveDCAssumption DEF Publish, Switch
  <2> QED
    BY <1>2, <2>1 DEF Publish, dashboard
<1>3. ASSUME NEW d \in Dashboards, Open(d) \/ Load(d) \/ FirstPoll(d)
      PROVE  TypeOK'
  BY <1>3 DEF Open, Load, FirstPoll, tray
<1>4. ASSUME NEW d \in Dashboards, Seed(d) PROVE TypeOK'
  BY <1>4, OutsideSwitch DEF Seed, tray
<1>5. ASSUME NEW d \in Dashboards, NextPoll(d) PROVE TypeOK'
  BY <1>5 DEF NextPoll, tray
<1>6. ASSUME NEW d \in Dashboards, Eval(d) PROVE TypeOK'
  BY <1>6 DEF Eval, tray
<1>7. ASSUME NEW d \in Dashboards, Close(d) PROVE TypeOK'
  BY <1>7, OutsideSwitch DEF Close, tray
<1>8. CASE UNCHANGED vars
  BY <1>8 DEF vars
<1> QED
  BY <1>1, <1>2, <1>3, <1>4, <1>5, <1>6, <1>7, <1>8 DEF Next

(***************************************************************************)
(* Every reachable state is well typed; in particular the label is never   *)
(* left empty.                                                             *)
(***************************************************************************)
THEOREM ActiveDCTypeCorrect == Spec => []TypeOK
BY TypeInit, TypeStep, PTL DEF Spec

-----------------------------------------------------------------------------

\* The queue of notices: what goes in last, what is left after the first.
LEMMA AppendLast ==
    ASSUME NEW s \in Seq(Switch), NEW e \in Switch
    PROVE  /\ Append(s, e) # <<>>
           /\ Append(s, e)[Len(Append(s, e))] = e
<1>1. Len(Append(s, e)) = Len(s) + 1 /\ Append(s, e)[Len(s) + 1] = e
  OBVIOUS
<1> QED
  BY <1>1

LEMMA TailLast ==
    ASSUME NEW s \in Seq(Switch), s # <<>>
    PROVE  /\ Len(s) = 1 => Tail(s) = <<>> /\ Head(s) = s[Len(s)]
           /\ Len(s) # 1 => /\ Tail(s) # <<>>
                            /\ Tail(s)[Len(Tail(s))] = s[Len(s)]
<1>1. Len(s) \in Nat \ {0} /\ Len(Tail(s)) = Len(s) - 1
  OBVIOUS
<1>2. \A i \in 1..Len(s) - 1 : Tail(s)[i] = s[i + 1]
  OBVIOUS
<1>3. Len(s) # 1 => Tail(s)[Len(s) - 1] = s[Len(s)]
  BY <1>1, <1>2
<1>4. Tail(s) \in Seq(Switch) /\ Head(s) = s[1]
  OBVIOUS
<1>5. Len(s) = 1 => Tail(s) = <<>>
  <2>1. Len(s) = 1 => Len(Tail(s)) = 0
    BY <1>1
  <2>2. Tail(s) # <<>> => Len(Tail(s)) \in Nat \ {0}
    BY <1>4, EmptySeq
  <2> QED
    BY <2>1, <2>2
<1>6. Len(s) # 1 => Tail(s) # <<>>
  <2>1. Len(s) # 1 => Len(Tail(s)) # 0
    BY <1>1
  <2> QED
    BY <2>1, EmptySeq
<1> QED
  BY <1>1, <1>3, <1>4, <1>5, <1>6

LEMMA InFlightStep ==
    ASSUME TypeOK, InFlight, [Next]_vars PROVE InFlight'
<1> USE DEF TypeOK
<1> DEFINE Goal(d) ==
      Following(stage[d], seed[d], watched[d], notices[d], chip[d])'
<1>0. SUFFICES ASSUME NEW d \in Dashboards PROVE Goal(d)
  BY DEF InFlight
<1>1. Following(stage[d], seed[d], watched[d], notices[d], chip[d])
  BY DEF InFlight
<1>2. ASSUME stage'[d] = stage[d], seed'[d] = seed[d],
             watched'[d] = watched[d], notices'[d] = notices[d],
             chip'[d] = chip[d]
      PROVE  Goal(d)
  BY <1>1, <1>2
<1>3. CASE Reselect \/ Publish \/ Poll \/ UNCHANGED vars
  BY <1>2, <1>3 DEF Reselect, Publish, Poll, vars, dashboard
<1>4. ASSUME NEW e \in Dashboards, e # d,
             \/ Open(e) \/ Seed(e) \/ FirstPoll(e) \/ NextPoll(e) \/ Load(e)
             \/ Eval(e) \/ Close(e)
      PROVE  Goal(d)
  BY <1>2, <1>4 DEF Open, Seed, FirstPoll, NextPoll, Load, Eval, Close
<1>5. CASE Open(d) \/ Seed(d)
  <2>1. /\ watched'[d] = Unpolled /\ notices'[d] = <<>>
        /\ chip'[d] = NoDocument
    BY <1>1, <1>5 DEF Open, Seed, Following
  <2> QED
    BY <2>1 DEF Following
<1>6. CASE FirstPoll(d)
  <2>1. /\ stage'[d] = "seeded" /\ seed'[d] = seed[d]
        /\ notices'[d] = <<>> /\ chip'[d] \in {NoDocument, seed[d]}
        /\ watched'[d] # Unpolled
    BY <1>1, <1>6, OutsideSwitch DEF FirstPoll, Following
  <2> QED
    BY <2>1 DEF Following
<1>7. CASE NextPoll(d)
  <2>1. /\ stage'[d] = "seeded" /\ watched'[d] = published
        /\ notices'[d] = Append(notices[d], published)
    BY <1>1, <1>7 DEF NextPoll, Following
  <2>2. /\ notices'[d] # <<>>
        /\ notices'[d][Len(notices'[d])] = watched'[d]
    BY <2>1, AppendLast
  <2>3. watched'[d] # Unpolled
    BY <2>1, OutsideSwitch
  <2> QED
    BY <2>1, <2>2, <2>3 DEF Following
<1>8. CASE Load(d)
  <2>1. /\ stage'[d] = "seeded" /\ seed'[d] = seed[d]
        /\ watched'[d] = watched[d] /\ notices'[d] = notices[d]
        /\ chip'[d] = seed[d]
    BY <1>8 DEF Load
  <2> QED
    BY <1>1, <2>1 DEF Following
<1>9. CASE Eval(d)
  <2>1. /\ stage'[d] = stage[d] /\ seed'[d] = seed[d]
        /\ watched'[d] = watched[d] /\ notices'[d] = Tail(notices[d])
        /\ chip'[d] \in {NoDocument, Head(notices[d])}
        /\ notices[d] # <<>>
    BY <1>9 DEF Eval
  <2>2. /\ stage[d] = "seeded" /\ watched[d] # Unpolled
        /\ notices[d][Len(notices[d])].dc = watched[d].dc
    BY <1>1, <2>1 DEF Following
  <2>3. CASE Len(notices[d]) = 1
    <3>1. notices'[d] = <<>> /\ Head(notices[d]).dc = watched[d].dc
      BY <2>1, <2>2, <2>3, TailLast
    <3> QED
      BY <2>1, <2>2, <3>1 DEF Following
  <2>4. CASE Len(notices[d]) # 1
    <3>1. /\ notices'[d] # <<>>
          /\ notices'[d][Len(notices'[d])].dc = watched[d].dc
      BY <2>1, <2>2, <2>4, TailLast
    <3> QED
      BY <2>1, <2>2, <3>1 DEF Following
  <2> QED
    BY <2>3, <2>4
<1>10. CASE Close(d)
  <2>1. /\ watched'[d] = Unpolled /\ notices'[d] = <<>>
        /\ chip'[d] = NoDocument
    BY <1>10 DEF Close
  <2> QED
    BY <2>1 DEF Following
<1> QED
  BY <1>3, <1>4, <1>5, <1>6, <1>7, <1>8, <1>9, <1>10 DEF Next

LEMMA AlwaysInFlight == Spec => []InFlight
<1>1. Init => InFlight
  BY DEF Init, InFlight, Following
<1> QED
  BY <1>1, InFlightStep, ActiveDCTypeCorrect, PTL DEF Spec

(***************************************************************************)
(* A settled chip shows the published datacenter or the one the process    *)
(* was seeded with, never a third, for any number of switches and reloads. *)
(***************************************************************************)
THEOREM ActiveDCSettledChip == Spec => []SettledChip
<1>1. InFlight => SettledChip
  BY DEF InFlight, Following, SettledChip, Settled
<1> QED
  BY <1>1, AlwaysInFlight, PTL

-----------------------------------------------------------------------------

\* What a dashboard knows (the published label, its seed, last poll, notices and
\* chip) is in the order of the switches.
Ordered(pub, sd, w, q, ch) ==
    /\ sd.n <= pub.n
    /\ ch.n <= pub.n
    /\ w # Unpolled =>
         /\ sd.n <= w.n
         /\ ch.n <= w.n
         /\ w.n <= pub.n
         /\ w.n = pub.n => w = pub
    /\ w = Unpolled => q = <<>> /\ ch.n <= sd.n
    /\ \A i \in 1..Len(q) :
         /\ ch.n < q[i].n
         /\ sd.n < q[i].n
         /\ q[i].n <= w.n
         /\ \A j \in 1..Len(q) : i < j => q[i].n < q[j].n

InOrder ==
    \A d \in Dashboards :
      Ordered(published, seed[d], watched[d], notices[d], chip[d])

LEMMA OrderedAppend ==
    ASSUME NEW pub \in Switch, NEW sd \in Switch, NEW w \in Switch,
           NEW q \in Seq(Switch), NEW ch \in Switch \cup {NoDocument},
           Ordered(pub, sd, w, q, ch), w # pub
    PROVE  Ordered(pub, sd, pub, Append(q, pub), ch)
<1> DEFINE s == Append(q, pub)
<1>1. /\ Len(s) = Len(q) + 1 /\ Len(q) \in Nat
      /\ s[Len(s)] = pub
      /\ \A i \in 1..Len(q) : s[i] = q[i] /\ q[i] \in Switch
  OBVIOUS
<1>2. /\ pub.n \in Nat /\ sd.n \in Nat /\ w.n \in Nat /\ ch.n \in Nat
      /\ \A i \in 1..Len(q) : q[i].n \in Nat
      /\ w # Unpolled /\ pub # Unpolled
  BY <1>1, OutsideSwitch
<1>3. w.n < pub.n
  BY <1>2 DEF Ordered
<1>4. \A i \in 1..Len(q) : ch.n < q[i].n /\ sd.n < q[i].n /\ q[i].n < pub.n
  BY <1>2, <1>3 DEF Ordered
<1>5. ch.n < pub.n /\ sd.n < pub.n
  BY <1>2, <1>3 DEF Ordered
<1>6. ASSUME NEW i \in 1..Len(s)
      PROVE  /\ ch.n < s[i].n /\ sd.n < s[i].n /\ s[i].n <= pub.n
             /\ \A j \in 1..Len(s) : i < j => s[i].n < s[j].n
  <2>1. CASE i = Len(s)
    BY <1>1, <1>2, <1>5, <2>1
  <2>2. CASE i \in 1..Len(q)
    <3>1. s[i] = q[i] /\ s[i].n < pub.n
      BY <1>1, <1>4, <2>2
    <3>2. ASSUME NEW j \in 1..Len(q), i < j PROVE s[i].n < s[j].n
      BY <1>1, <2>2, <3>2 DEF Ordered
    <3> QED
      BY <1>1, <1>2, <1>4, <2>2, <3>1, <3>2
  <2> QED
    BY <1>1, <2>1, <2>2
<1> HIDE DEF s
<1>7. Ordered(pub, sd, pub, s, ch)
  BY <1>2, <1>5, <1>6 DEF Ordered
<1> QED
  BY <1>7 DEF s

LEMMA OrderedTail ==
    ASSUME NEW pub \in Switch, NEW sd \in Switch,
           NEW w \in Switch \cup {Unpolled},
           NEW q \in Seq(Switch), NEW ch \in Switch \cup {NoDocument},
           Ordered(pub, sd, w, q, ch), q # <<>>,
           NEW to \in {ch, Head(q)}
    PROVE  Ordered(pub, sd, w, Tail(q), to)
<1>1. /\ Len(q) \in Nat \ {0} /\ Len(Tail(q)) = Len(q) - 1
      /\ Head(q) = q[1] /\ Head(q) \in Switch
      /\ \A i \in 1..Len(q) - 1 : Tail(q)[i] = q[i + 1]
      /\ \A i \in 1..Len(q) : q[i] \in Switch
  OBVIOUS
<1>2. /\ pub.n \in Nat /\ sd.n \in Nat /\ w.n \in Nat /\ ch.n \in Nat
      /\ \A i \in 1..Len(q) : q[i].n \in Nat
  BY <1>1, OutsideSwitch
<1>3. w # Unpolled
  BY DEF Ordered
<1>4. q[1].n <= w.n
  BY <1>1 DEF Ordered
<1>5. to.n <= w.n /\ to.n <= pub.n
  BY <1>1, <1>2, <1>3, <1>4 DEF Ordered
<1>6. ASSUME NEW i \in 1..Len(Tail(q))
      PROVE  /\ to.n < Tail(q)[i].n
             /\ sd.n < Tail(q)[i].n
             /\ Tail(q)[i].n <= w.n
             /\ \A j \in 1..Len(Tail(q)) : i < j => Tail(q)[i].n < Tail(q)[j].n
  <2>1. i + 1 \in 1..Len(q) /\ Tail(q)[i] = q[i + 1] /\ 1 \in 1..Len(q)
        /\ 1 < i + 1
    BY <1>1
  <2>2. ch.n < q[i + 1].n /\ q[1].n < q[i + 1].n
    BY <2>1 DEF Ordered
  <2>3. sd.n < q[i + 1].n /\ q[i + 1].n <= w.n
    BY <2>1 DEF Ordered
  <2>4. ASSUME NEW j \in 1..Len(Tail(q)), i < j
        PROVE  Tail(q)[i].n < Tail(q)[j].n
    <3>1. j + 1 \in 1..Len(q) /\ Tail(q)[j] = q[j + 1] /\ i + 1 < j + 1
      BY <1>1, <2>4
    <3> QED
      BY <2>1, <3>1 DEF Ordered
  <2> QED
    BY <1>1, <2>1, <2>2, <2>3, <2>4
<1> QED
  BY <1>3, <1>5, <1>6 DEF Ordered

LEMMA InOrderStep ==
    ASSUME TypeOK, InFlight, InOrder, [Next]_vars PROVE InOrder'
<1> USE DEF TypeOK
<1> DEFINE Goal(d) ==
      Ordered(published, seed[d], watched[d], notices[d], chip[d])'
<1>0. SUFFICES ASSUME NEW d \in Dashboards PROVE Goal(d)
  BY DEF InOrder
<1>1. /\ published \in Switch /\ seed[d] \in Switch
      /\ watched[d] \in Switch \cup {Unpolled}
      /\ notices[d] \in Seq(Switch)
      /\ chip[d] \in Switch \cup {NoDocument}
      /\ Ordered(published, seed[d], watched[d], notices[d], chip[d])
  BY DEF InOrder
<1>2. /\ published.n \in Nat /\ seed[d].n \in Nat /\ watched[d].n \in Nat
      /\ chip[d].n \in Nat
  BY <1>1, OutsideSwitch
<1>3. ASSUME published' = published, seed'[d] = seed[d],
             watched'[d] = watched[d], notices'[d] = notices[d],
             chip'[d] = chip[d]
      PROVE  Goal(d)
  BY <1>1, <1>3
<1>4. CASE Reselect \/ Poll \/ UNCHANGED vars
  BY <1>3, <1>4 DEF Reselect, Poll, vars, dashboard
<1>5. CASE Publish
  <2>1. /\ published'.n = published.n + 1
        /\ seed'[d] = seed[d] /\ watched'[d] = watched[d]
        /\ notices'[d] = notices[d] /\ chip'[d] = chip[d]
    BY <1>5 DEF Publish, dashboard
  <2> QED
    BY <1>1, <1>2, <2>1 DEF Ordered
<1>6. ASSUME NEW e \in Dashboards, e # d,
             \/ Open(e) \/ Seed(e) \/ FirstPoll(e) \/ NextPoll(e) \/ Load(e)
             \/ Eval(e) \/ Close(e)
      PROVE  Goal(d)
  BY <1>3, <1>6 DEF Open, Seed, FirstPoll, NextPoll, Load, Eval, Close, tray
<1>7. CASE Open(d)
  BY <1>3, <1>7 DEF Open, tray
<1>8. CASE Seed(d)
  <2>1. watched[d] = Unpolled /\ chip[d] = NoDocument /\ notices[d] = <<>>
    BY <1>1, <1>8 DEF Seed, InFlight, Following, Ordered
  <2>2. /\ published' = published /\ watched'[d] = Unpolled
        /\ notices'[d] = <<>> /\ chip'[d] = NoDocument
        /\ seed'[d] \in {published, NoSwitch}
    BY <1>8, <2>1 DEF Seed, tray
  <2>3. seed'[d].n \in Nat /\ seed'[d].n <= published.n /\ NoDocument.n = 0
    BY <1>2, <2>2, OutsideSwitch DEF NoSwitch
  <2> QED
    BY <1>2, <2>2, <2>3, EmptySeq DEF Ordered
<1>9. CASE FirstPoll(d)
  <2>1. notices[d] = <<>>
    BY <1>1, <1>9 DEF FirstPoll, Ordered
  <2>2. /\ published' = published /\ watched'[d] = published
        /\ notices'[d] = <<>> /\ chip'[d] = chip[d] /\ seed'[d] = seed[d]
    BY <1>9, <2>1 DEF FirstPoll, tray
  <2>3. published # Unpolled
    BY <1>1, OutsideSwitch
  <2> QED
    BY <1>1, <1>2, <2>2, <2>3, EmptySeq DEF Ordered
<1>10. CASE NextPoll(d)
  <2>1. /\ published' = published /\ watched'[d] = published
        /\ notices'[d] = Append(notices[d], published)
        /\ chip'[d] = chip[d] /\ seed'[d] = seed[d]
    BY <1>10 DEF NextPoll, tray
  <2>2. watched[d] \in Switch /\ watched[d] # published
    BY <1>1, <1>10 DEF NextPoll
  <2>3. Ordered(published, seed[d], published, Append(notices[d], published),
                chip[d])
    BY <1>1, <2>2, OrderedAppend
  <2> QED
    BY <2>1, <2>3
<1>11. CASE Load(d)
  <2>1. /\ published' = published /\ watched'[d] = watched[d]
        /\ notices'[d] = notices[d] /\ seed'[d] = seed[d]
        /\ chip'[d] = seed[d]
    BY <1>11 DEF Load, tray
  <2> QED
    BY <1>1, <1>2, <2>1 DEF Ordered
<1>12. CASE Eval(d)
  <2>1. /\ published' = published /\ watched'[d] = watched[d]
        /\ notices'[d] = Tail(notices[d]) /\ seed'[d] = seed[d]
        /\ notices[d] # <<>>
        /\ chip'[d] \in {chip[d], Head(notices[d])}
    BY <1>12 DEF Eval, tray
  <2>2. Ordered(published, seed[d], watched[d], Tail(notices[d]), chip'[d])
    BY <1>1, <2>1, OrderedTail
  <2> QED
    BY <2>1, <2>2
<1>13. CASE Close(d)
  <2>1. /\ published' = published /\ watched'[d] = Unpolled
        /\ notices'[d] = <<>> /\ seed'[d] = NoSwitch /\ chip'[d] = NoDocument
    BY <1>13 DEF Close, tray
  <2> QED
    BY <1>2, <2>1, OutsideSwitch, EmptySeq DEF Ordered, NoSwitch
<1> QED
  BY <1>4, <1>5, <1>6, <1>7, <1>8, <1>9, <1>10, <1>11, <1>12, <1>13 DEF Next

\* The first notice is of a later switch than the one the chip shows.
LEMMA ForwardStep ==
    ASSUME TypeOK, InOrder, [Next]_vars, NEW d \in Dashboards,
           chip[d] # NoDocument, chip'[d] \notin {chip[d], seed[d], NoDocument}
    PROVE  chip'[d].n > chip[d].n
<1> USE DEF TypeOK
<1>1. Eval(d)
  BY DEF Next, vars, Reselect, Publish, Poll, dashboard, Open, Seed, FirstPoll,
         NextPoll, Load, Eval, Close
<1>2. notices[d] # <<>> /\ chip'[d] = Head(notices[d])
  BY <1>1 DEF Eval
<1>3. /\ notices[d] \in Seq(Switch) /\ 1 \in 1..Len(notices[d])
      /\ Head(notices[d]) = notices[d][1] /\ notices[d][1] \in Switch
  BY <1>2
<1>4. chip[d].n < notices[d][1].n
  BY <1>3 DEF InOrder, Ordered
<1>5. chip[d].n \in Nat /\ notices[d][1].n \in Nat
  BY <1>3, OutsideSwitch
<1> QED
  BY <1>2, <1>3, <1>4, <1>5

LEMMA AlwaysInOrder == Spec => []InOrder
<1>1. Init => InOrder
  BY EmptySeq, OutsideSwitch DEF Init, InOrder, Ordered, NoSwitch
<1> QED
  BY <1>1, InOrderStep, AlwaysInFlight, ActiveDCTypeCorrect, PTL DEF Spec

(***************************************************************************)
(* Within a document the chip only moves to a later switch, unless a       *)
(* reload paints the seed, however many notices are on their way.          *)
(***************************************************************************)
THEOREM ActiveDCChipGoesForward == Spec => ChipGoesForward
<1>1. TypeOK /\ InOrder /\ [Next]_vars =>
        [\A d \in Dashboards :
           chip[d] # NoDocument /\ chip'[d] \notin {chip[d], seed[d], NoDocument}
             => chip'[d].n > chip[d].n]_vars
  BY ForwardStep
<1> QED
  BY <1>1, AlwaysInOrder, ActiveDCTypeCorrect, PTL DEF Spec, ChipGoesForward

-----------------------------------------------------------------------------
(* When the chip does stay accurate.                                       *)

\* Nothing was published between the Get and the Watch's first poll, and a
\* document is loaded only while the label of the seed is the watched one.
FindsSeed(d) ==
    /\ FirstPoll(d) => published.dc = seed[d].dc
    /\ Load(d) => watched[d] = Unpolled \/ watched[d].dc = seed[d].dc

\* A document has the label of the last poll, or a notice of it is on its way.
Tracking(sd, w, q, ch) ==
    /\ w = Unpolled => q = <<>> /\ ch \in {NoDocument, sd}
    /\ w # Unpolled =>
         IF q = <<>> THEN ch # NoDocument => ch.dc = w.dc
                     ELSE q[Len(q)].dc = w.dc

InTouch ==
    \A d \in Dashboards : Tracking(seed[d], watched[d], notices[d], chip[d])

LEMMA InTouchStep ==
    ASSUME TypeOK, InFlight, InTouch, [Next]_vars,
           [\A d \in Dashboards : FindsSeed(d)]_vars
    PROVE  InTouch'
<1> USE DEF TypeOK
<1> DEFINE Goal(d) == Tracking(seed[d], watched[d], notices[d], chip[d])'
<1>0. SUFFICES ASSUME NEW d \in Dashboards PROVE Goal(d)
  BY DEF InTouch
<1>1. /\ Following(stage[d], seed[d], watched[d], notices[d], chip[d])
      /\ Tracking(seed[d], watched[d], notices[d], chip[d])
  BY DEF InFlight, InTouch
<1>2. ASSUME seed'[d] = seed[d], watched'[d] = watched[d],
             notices'[d] = notices[d], chip'[d] = chip[d]
      PROVE  Goal(d)
  BY <1>1, <1>2
<1>3. CASE Reselect \/ Publish \/ Poll \/ UNCHANGED vars
  BY <1>2, <1>3 DEF Reselect, Publish, Poll, vars, dashboard
<1>4. ASSUME NEW e \in Dashboards, e # d,
             \/ Open(e) \/ Seed(e) \/ FirstPoll(e) \/ NextPoll(e) \/ Load(e)
             \/ Eval(e) \/ Close(e)
      PROVE  Goal(d)
  BY <1>2, <1>4 DEF Open, Seed, FirstPoll, NextPoll, Load, Eval, Close
<1>5. CASE Open(d) \/ Seed(d)
  <2>1. /\ watched'[d] = Unpolled /\ notices'[d] = <<>>
        /\ chip'[d] = NoDocument
    BY <1>1, <1>5 DEF Open, Seed, Following
  <2> QED
    BY <2>1 DEF Tracking
<1>6. CASE FirstPoll(d)
  <2>1. /\ notices'[d] = <<>> /\ watched'[d] = published
        /\ chip'[d] \in {NoDocument, seed[d]}
    BY <1>1, <1>6 DEF FirstPoll, Tracking
  <2>2. published # Unpolled /\ watched'[d] # watched[d]
    BY <1>6, <2>1, OutsideSwitch DEF FirstPoll
  <2>3. published.dc = seed[d].dc
    BY <1>6, <2>2 DEF FindsSeed, vars
  <2> QED
    BY <2>1, <2>2, <2>3 DEF Tracking
<1>7. CASE NextPoll(d)
  <2>1. /\ watched'[d] = published
        /\ notices'[d] = Append(notices[d], published)
    BY <1>7 DEF NextPoll
  <2>2. /\ notices'[d] # <<>>
        /\ notices'[d][Len(notices'[d])] = watched'[d]
    BY <2>1, AppendLast
  <2>3. watched'[d] # Unpolled
    BY <2>1, OutsideSwitch
  <2> QED
    BY <2>2, <2>3 DEF Tracking
<1>8. CASE Load(d)
  <2>1. /\ seed'[d] = seed[d] /\ watched'[d] = watched[d]
        /\ notices'[d] = notices[d] /\ chip'[d] = seed[d]
    BY <1>8 DEF Load
  <2>2. CASE UNCHANGED vars
    BY <1>3, <2>2
  <2>3. CASE ~UNCHANGED vars
    <3>1. watched[d] = Unpolled \/ watched[d].dc = seed[d].dc
      BY <1>8, <2>3 DEF FindsSeed
    <3> QED
      BY <1>1, <2>1, <3>1 DEF Tracking
  <2> QED
    BY <2>2, <2>3
<1>9. CASE Eval(d)
  <2>1. /\ watched'[d] = watched[d] /\ notices'[d] = Tail(notices[d])
        /\ chip'[d] \in {NoDocument, Head(notices[d])}
        /\ notices[d] # <<>>
    BY <1>9 DEF Eval
  <2>2. watched[d] # Unpolled /\ notices[d][Len(notices[d])].dc = watched[d].dc
    BY <1>1, <2>1 DEF Tracking
  <2>3. CASE Len(notices[d]) = 1
    <3>1. notices'[d] = <<>> /\ Head(notices[d]).dc = watched[d].dc
      BY <2>1, <2>2, <2>3, TailLast
    <3> QED
      BY <2>1, <2>2, <3>1 DEF Tracking
  <2>4. CASE Len(notices[d]) # 1
    <3>1. /\ notices'[d] # <<>>
          /\ notices'[d][Len(notices'[d])].dc = watched[d].dc
      BY <2>1, <2>2, <2>4, TailLast
    <3> QED
      BY <2>1, <2>2, <3>1 DEF Tracking
  <2> QED
    BY <2>3, <2>4
<1>10. CASE Close(d)
  <2>1. /\ watched'[d] = Unpolled /\ notices'[d] = <<>>
        /\ chip'[d] = NoDocument
    BY <1>10 DEF Close
  <2> QED
    BY <2>1 DEF Tracking
<1> QED
  BY <1>3, <1>4, <1>5, <1>6, <1>7, <1>8, <1>9, <1>10 DEF Next

(***************************************************************************)
(* What dashboard.go says of Watch's notices holds, through any number of  *)
(* switches, when the first poll finds what the seed says and the document *)
(* is not reloaded after a switch: the chip stays accurate.                *)
(***************************************************************************)
THEOREM ActiveDCAccurateUnlessReloaded ==
    Spec /\ [][\A d \in Dashboards : FindsSeed(d)]_vars => []ChipStaysAccurate
<1>1. Init => InTouch
  BY DEF Init, InTouch, Tracking
<1>2. TypeOK /\ InTouch => ChipStaysAccurate
  <2> SUFFICES ASSUME TypeOK, InTouch, NEW d \in Dashboards, Settled(d)
               PROVE  chip[d].dc = published.dc
    BY DEF ChipStaysAccurate
  <2>1. watched[d] # Unpolled
    BY ActiveDCAssumption DEF TypeOK, Switch, Settled, Unpolled
  <2> QED
    BY <2>1 DEF InTouch, Tracking, Settled
<1> QED
  BY <1>1, <1>2, InTouchStep, AlwaysInFlight, ActiveDCTypeCorrect, PTL DEF Spec
=============================================================================
